---- MODULE MCSchemaIndex ----
\* A small instance of SchemaIndex for TLC; the .cfg file gives the bounds.
EXTENDS SchemaIndex
====
