---- MODULE MCValidationJobs ----
\* A small instance of ValidationJobs for TLC; the .cfg file gives the bounds.
EXTENDS ValidationJobs
====
