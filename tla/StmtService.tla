---------------------------- MODULE StmtService -----------------------------
(***************************************************************************)
(* What the statement handles of one connection promise their users: every *)
(* handle has a server-side statement of its own.  A request on one handle *)
(* creates or replaces that handle's statement and touches nobody else's;  *)
(* a statement disappears only after its own handle was closed.            *)
(***************************************************************************)
CONSTANT Handles

VARIABLES
    phase,   \* the handle, as its user sees it
    held     \* the handles the server keeps a statement for

serviceVars == <<phase, held>>

ServiceInit ==
    /\ phase = [h \in Handles |-> "none"]
    /\ held = {}

Open(h) ==
    /\ phase[h] = "none"
    /\ phase' = [phase EXCEPT ![h] = "open"]
    /\ UNCHANGED held

Run(h) ==
    /\ phase[h] = "open"
    /\ held' = held \cup {h}
    /\ UNCHANGED phase

Shut(h) ==
    /\ phase[h] = "open"
    /\ phase' = [phase EXCEPT ![h] = "closed"]
    /\ UNCHANGED held

Drop(h) ==
    /\ phase[h] = "closed"
    /\ held' = held \ {h}
    /\ UNCHANGED phase

ServiceNext == \E h \in Handles : Open(h) \/ Run(h) \/ Shut(h) \/ Drop(h)

ServiceSpec == ServiceInit /\ [][ServiceNext]_serviceVars
=============================================================================
