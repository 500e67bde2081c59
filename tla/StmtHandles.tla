---------------------------- MODULE StmtHandles -----------------------------
(***************************************************************************)
(* Statement handles and statement ids of one connection (machnet.cli.go   *)
(* AllocStmt / Free, client.go nextStmtID / releaseStmtID / free).         *)
(*                                                                         *)
(* Handles multiplex the server's statement table through a small table of *)
(* ids.  Goroutines allocate, use and free different handles concurrently. *)
(* Free runs in three steps with no common lock: it marks the handle       *)
(* closed under StmtHandle.mu, asks the server to free the id under        *)
(* NativeConn.mu, and gives the id back under stmtMu.                      *)
(***************************************************************************)
EXTENDS Naturals, FiniteSets

CONSTANTS
    Handles,   \* StmtHandle objects, in the order the program creates them
    Limit,     \* stmtIDLimit
    NoHandle   \* the server keeps nothing under an id

ASSUME StmtHandlesAssumption ==
    /\ Limit \in Nat \ {0}
    /\ NoHandle \notin Handles

Ids == 0..(Limit - 1)

VARIABLES
    state,    \* where each handle stands in its life
    id,       \* StmtHandle.id
    used,     \* the ids i with stmtUsed[i]
    usedCnt,  \* stmtUsedCnt
    cursor,   \* stmtCursor
    connOpen, \* ~ConnHandle.closed
    broken,   \* NativeConn.closed: the socket is gone or not to be trusted
    server    \* the handle whose statement the server keeps under an id

vars == <<state, id, used, usedCnt, cursor, connOpen, broken, server>>

(* "live": usable; "closing": closed, the free request under way; "confirmed": *)
(* free() returned nil, the id not yet released; "freed": done; "leaked":     *)
(* free() failed, the id is never given back.                                 *)
States == {"new", "live", "closing", "confirmed", "freed", "leaked"}

TypeOK ==
    /\ state \in [Handles -> States]
    /\ id \in [Handles -> Ids]
    /\ used \in SUBSET Ids
    /\ usedCnt \in 0..Limit
    /\ cursor \in Ids
    /\ connOpen \in BOOLEAN
    /\ broken \in BOOLEAN
    /\ server \in [Ids -> Handles \cup {NoHandle}]

Init ==
    /\ state = [h \in Handles |-> "new"]
    /\ id = [h \in Handles |-> 0]
    /\ used = {} /\ usedCnt = 0 /\ cursor = 0
    /\ connOpen = TRUE /\ broken = FALSE
    /\ server = [i \in Ids |-> NoHandle]

-----------------------------------------------------------------------------
(* Mutation: the scan stops at the cursor without testing stmtUsed.          *)
ScanTrustsCursor(i) == i = cursor

(* nextStmtID's loop returns i: the first unused id at or after the cursor,  *)
(* wrapping around.                                                          *)
ScanReturns(i) ==
    \E k \in 0..(Limit - 1) :
        /\ i = (cursor + k) % Limit
        /\ i \notin used
        /\ \A j \in 0..(k - 1) : (cursor + j) % Limit \in used

(* Mutation: the cursor is not wrapped.                                      *)
CursorUnwrapped(i) == i + 1

CursorAfter(i) == (i + 1) % Limit

(* AllocStmt gives the new handle h an id.                                   *)
AllocStmt(h) ==
    /\ state[h] = "new" /\ connOpen /\ usedCnt < Limit
    /\ \E i \in Ids :
         /\ ScanReturns(i)
         /\ id' = [id EXCEPT ![h] = i]
         /\ used' = used \cup {i}
         /\ usedCnt' = usedCnt + 1
         /\ cursor' = CursorAfter(i)
    /\ state' = [state EXCEPT ![h] = "live"]
    /\ UNCHANGED <<connOpen, broken, server>>

(* Prepare, ExecDirect or AppendOpen on a live handle: the server creates a  *)
(* statement under its id, replacing what was there.                         *)
Use(h) ==
    /\ state[h] = "live" /\ ~broken
    /\ server' = [server EXCEPT ![id[h]] = h]
    /\ UNCHANGED <<state, id, used, usedCnt, cursor, connOpen, broken>>

(* Mutation: the id is given back before the server is asked to free it.     *)
FreeReleasesFirst(h) ==
    /\ state[h] = "live"
    /\ state' = [state EXCEPT ![h] = "closing"]
    /\ used' = used \ {id[h]} /\ usedCnt' = usedCnt - 1
    /\ UNCHANGED <<id, cursor, connOpen, broken, server>>

(* Free, first step: closed = true.                                          *)
FreeBegin(h) ==
    /\ state[h] = "live"
    /\ state' = [state EXCEPT ![h] = "closing"]
    /\ UNCHANGED <<id, used, usedCnt, cursor, connOpen, broken, server>>

(* The server frees the statement and says so.                               *)
FreeConfirmed(h) ==
    /\ state[h] = "closing" /\ ~broken
    /\ server' = [server EXCEPT ![id[h]] = NoHandle]
    /\ state' = [state EXCEPT ![h] = "confirmed"]
    /\ UNCHANGED <<id, used, usedCnt, cursor, connOpen, broken>>

(* The reply belongs to another request: free() retires the connection and   *)
(* reports success.                                                          *)
FreeSwallowed(h) ==
    /\ state[h] = "closing" /\ ~broken
    /\ broken' = TRUE
    /\ state' = [state EXCEPT ![h] = "confirmed"]
    /\ UNCHANGED <<id, used, usedCnt, cursor, connOpen, server>>

(* Mutation: the id is given back although the server refused to free it.    *)
ReleaseOnError(h) ==
    /\ state[h] = "closing"
    /\ state' = [state EXCEPT ![h] = "confirmed"]
    /\ UNCHANGED <<id, used, usedCnt, cursor, connOpen, broken, server>>

(* free() fails: the server refuses, its reply cannot be parsed, or the      *)
(* connection is down (the request then retires it, or finds it closed).     *)
(* The statement may be gone at the server or not; the id stays taken.       *)
FreeFailed(h) ==
    /\ state[h] = "closing"
    /\ \E lost \in BOOLEAN : broken' = (broken \/ lost)
    /\ \/ UNCHANGED server
       \/ server' = [server EXCEPT ![id[h]] = NoHandle] /\ ~broken
    /\ state' = [state EXCEPT ![h] = "leaked"]
    /\ UNCHANGED <<id, used, usedCnt, cursor, connOpen>>

(* Mutation: the id stays marked and counted.                                *)
ReleaseNothing(h) ==
    /\ state[h] = "confirmed"
    /\ state' = [state EXCEPT ![h] = "freed"]
    /\ UNCHANGED <<id, used, usedCnt, cursor, connOpen, broken, server>>

(* releaseStmtID: Free's last step.                                          *)
ReleaseStmtID(h) ==
    /\ state[h] = "confirmed"
    /\ IF id[h] \in used
       THEN /\ used' = used \ {id[h]}
            /\ usedCnt' = IF usedCnt > 0 THEN usedCnt - 1 ELSE usedCnt
       ELSE UNCHANGED <<used, usedCnt>>
    /\ state' = [state EXCEPT ![h] = "freed"]
    /\ UNCHANGED <<id, cursor, connOpen, broken, server>>

(* NativeConn.closed is set: another call found the stream out of step, or   *)
(* Disconnect has reached native.close(), which waits for NativeConn.mu.     *)
Break ==
    /\ ~broken /\ broken' = TRUE
    /\ UNCHANGED <<state, id, used, usedCnt, cursor, connOpen, server>>

(* Disconnect: ConnHandle.closed is set under ConnHandle.mu; from here on    *)
(* AllocStmt is refused, calls under way still run until the socket closes.  *)
Disconnect ==
    /\ connOpen /\ connOpen' = FALSE
    /\ UNCHANGED <<state, id, used, usedCnt, cursor, broken, server>>

Next ==
    \/ \E h \in Handles :
         \/ AllocStmt(h) \/ Use(h)
         \/ FreeBegin(h) \/ FreeConfirmed(h) \/ FreeSwallowed(h) \/ FreeFailed(h)
         \/ ReleaseStmtID(h)
    \/ Break \/ Disconnect

Spec == Init /\ [][Next]_vars

-----------------------------------------------------------------------------
(* Properties.                                                               *)

(* Handles that still own their id.                                          *)
Holds(h) == state[h] \in {"live", "closing", "confirmed", "leaked"}

(* No two handles own the same id, not even while one of them is being freed *)
(* or after its free failed (AllocStmt against the three steps of Free).     *)
IdsExclusive == \A g, h \in Handles : Holds(g) /\ Holds(h) /\ id[g] = id[h] => g = h

(* stmtUsed marks exactly the ids that are owned: none is lost, none is      *)
(* handed out twice (nextStmtID, releaseStmtID).                             *)
UsedExact == used = {id[h] : h \in {g \in Handles : Holds(g)}}

(* stmtUsedCnt counts stmtUsed, so "Statement ID overflow" is reported when, *)
(* and only when, every id is taken (nextStmtID, releaseStmtID).             *)
CountExact == usedCnt = Cardinality(used)

(* On a connection in service an id that can be handed out names no          *)
(* statement at the server: its last owner's statement was confirmed freed.  *)
FreeIdsUnoccupied == ~broken => \A i \in Ids \ used : server[i] = NoHandle

(* On a connection in service a handle's id names that handle's statement or *)
(* none: nobody reads rows of, or replaces, someone else's statement.        *)
OwnSlot == ~broken => \A h \in Handles : Holds(h) => server[id[h]] \in {h, NoHandle}

(* What the server keeps under an id is the statement of a handle that was   *)
(* given this id.  Part of the inductive invariant.                          *)
SlotBack == \A i \in Ids : server[i] # NoHandle =>
                state[server[i]] # "new" /\ id[server[i]] = i

(* Between the server's confirmation and releaseStmtID the slot stays empty. *)
(* Part of the inductive invariant.                                          *)
ConfirmedSlotEmpty ==
    ~broken => \A h \in Handles : state[h] = "confirmed" => server[id[h]] = NoHandle

(* The inductive invariant: no part is inductive without the others.  The    *)
(* server slots are safe because ids are exclusive, ids are exclusive        *)
(* because stmtUsed is exact, and the count keeps the scan from failing.     *)
IInv ==
    /\ TypeOK /\ IdsExclusive /\ UsedExact /\ CountExact
    /\ FreeIdsUnoccupied /\ OwnSlot /\ SlotBack /\ ConfirmedSlotEmpty

(* Multiplexing ids is invisible: until the connection is retired, the       *)
(* handles implement one private server statement per handle.                *)
phaseOf == [h \in Handles |-> IF state[h] = "new" THEN "none"
                              ELSE IF state[h] = "live" THEN "open" ELSE "closed"]
heldBy == {h \in Handles : \E i \in Ids : server[i] = h}

Service == INSTANCE StmtService WITH phase <- phaseOf, held <- heldBy

ImplementsService == Service!ServiceSpec
=============================================================================
