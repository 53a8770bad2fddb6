---------------------------- MODULE SharedHandles ----------------------------
(***************************************************************************)
(* What a cache of shared handles (project runtimes, warehouse             *)
(* connections) owes those who use them: a handle is opened once, taken    *)
(* only while it is open, and closed once, when nobody has it.  After its  *)
(* owner has shut down under its users, handles may be closed under them,  *)
(* but still only once.                                                    *)
(***************************************************************************)
CONSTANTS Users, Handles

VARIABLES handle,  \* handle[h]: "unopened", "open" or "closed"
          held,    \* <<u, h>>: user u has handle h
          down     \* the owner has shut down under its users

handleVars == <<handle, held, down>>

HandlesInit == /\ handle = [h \in Handles |-> "unopened"]
               /\ held = {}
               /\ down = FALSE

Opens(h) == /\ handle[h] = "unopened"
            /\ handle' = [handle EXCEPT ![h] = "open"]
            /\ UNCHANGED <<held, down>>

Takes(u, h) == /\ handle[h] = "open" \/ (down /\ handle[h] = "closed")
               /\ held' = held \cup {<<u, h>>}
               /\ UNCHANGED <<handle, down>>

Returns(u, h) == /\ <<u, h>> \in held
                 /\ held' = held \ {<<u, h>>}
                 /\ UNCHANGED <<handle, down>>

Closes(h) == /\ handle[h] = "open"
             /\ down \/ \A u \in Users : <<u, h>> \notin held
             /\ handle' = [handle EXCEPT ![h] = "closed"]
             /\ UNCHANGED <<held, down>>

ShutsDown == /\ ~down
             /\ down' = TRUE
             /\ UNCHANGED <<handle, held>>

HandlesNext == \/ ShutsDown
               \/ \E h \in Handles :
                    \/ Opens(h) \/ Closes(h)
                    \/ \E u \in Users : Takes(u, h) \/ Returns(u, h)

HandlesSpec == HandlesInit /\ [][HandlesNext]_handleVars

=============================================================================
