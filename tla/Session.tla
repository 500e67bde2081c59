------------------------------- MODULE Session ------------------------------
(***************************************************************************)
(* The server session behind one driver connection as database/sql hands   *)
(* it from user to user (driver.go: Connector.Connect, Conn.ExecContext,   *)
(* setTransactionState, BeginTx, transaction.finish, ResetSession, IsValid *)
(* and close).                                                             *)
(*                                                                         *)
(* The server knows whether a transaction is open and which database is    *)
(* selected.  The driver only mirrors this, in inTx and dbDirty, from the  *)
(* SQL text of statements that succeeded, and restores the session from    *)
(* its mirror when the connection is taken from the pool again.            *)
(***************************************************************************)
EXTENDS Naturals

CONSTANTS
    Databases,   \* names a USE can select
    Default,     \* defaultDatabase, selected in every new server session
    Configured,  \* Config.Database; NoDatabase when it is blank
    NoDatabase

ASSUME SessionAssumption ==
    /\ Default \in Databases
    /\ Configured \in Databases \cup {NoDatabase} /\ NoDatabase \notin Databases
    /\ Databases \cap {"BEGIN", "COMMIT", "ROLLBACK"} = {}   \* see Verbs

VARIABLES
    holder,   \* who has the connection: nobody yet, the application, the pool
    open,     \* ConnHandle.IsOpen
    live,     \* the server session exists (external)
    srvTx,    \* it has a transaction open (external)
    srvDb,    \* its selected database (external)
    inTx,     \* Conn.inTx
    dbDirty,  \* Conn.dbDirty
    tx,       \* the driver.Tx of the current user
    cached,   \* the statement cache is not empty
    misled    \* a USE was carried out, reported as failed and not tracked (history)

vars == <<holder, open, live, srvTx, srvDb, inTx, dbDirty, tx, cached, misled>>

Holders == {"none", "application", "pool", "resetting", "discarded"}

TypeOK ==
    /\ holder \in Holders
    /\ open \in BOOLEAN /\ live \in BOOLEAN /\ srvTx \in BOOLEAN
    /\ srvDb \in Databases
    /\ inTx \in BOOLEAN /\ dbDirty \in BOOLEAN /\ cached \in BOOLEAN
    /\ tx \in {"none", "open", "done"}
    /\ misled \in BOOLEAN
    /\ holder \in {"pool", "resetting"} => open

Init ==
    /\ holder = "none" /\ open = FALSE /\ live = FALSE
    /\ srvTx = FALSE /\ srvDb = Default
    /\ inTx = FALSE /\ dbDirty = FALSE
    /\ tx = "none" /\ cached = FALSE /\ misled = FALSE

-----------------------------------------------------------------------------
(* The server (external): the statements it may carry out now.               *)

Verbs == {"BEGIN", "COMMIT", "ROLLBACK"} \cup Databases  \* a database: USE it

Carries(verb) == verb = "BEGIN" => ~srvTx

TxAfter(verb) == IF verb = "BEGIN" THEN TRUE
                 ELSE IF verb \in Databases THEN srvTx ELSE FALSE
DbAfter(verb) == IF verb \in Databases THEN verb ELSE srvDb

ServerDoes(verb) ==
    /\ live /\ Carries(verb)
    /\ srvTx' = TxAfter(verb) /\ srvDb' = DbAfter(verb)

(* How a round trip ends.  "lost": the statement ran or not, the call fails  *)
(* and the session ends at the server, either because the client retired the *)
(* connection or because the peer is gone; the error makes database/sql      *)
(* discard the connection (normalizeError: driver.ErrBadConn).               *)
Succeeds(verb) == open /\ ServerDoes(verb) /\ UNCHANGED <<open, live>>
Refused        == open /\ live /\ UNCHANGED <<open, live, srvTx, srvDb>>
Lost           == live' = FALSE /\ open' \in {open, FALSE} /\ srvTx' = FALSE /\ UNCHANGED srvDb

-----------------------------------------------------------------------------
(* Conn.                                                                     *)

(* Mutations: BEGIN, or USE, is not tracked.                                 *)
TrackCommitOnly(verb) ==
    /\ inTx' = IF verb \in {"COMMIT", "ROLLBACK"} THEN FALSE ELSE inTx
    /\ dbDirty' = IF verb \in Databases THEN Configured # NoDatabase ELSE dbDirty
TrackTxOnly(verb) ==
    /\ inTx' = IF verb \in Databases THEN inTx ELSE verb = "BEGIN"
    /\ UNCHANGED dbDirty

(* setTransactionState                                                       *)
SetTransactionState(verb) ==
    /\ inTx' = IF verb \in Databases THEN inTx ELSE verb = "BEGIN"
    /\ dbDirty' = IF verb \in Databases THEN Configured # NoDatabase ELSE dbDirty

(* Connector.Connect: a configured database other than the default one is    *)
(* selected with exec; if that fails the connection is closed.               *)
Connect ==
    /\ holder = "none"
    /\ \/ /\ holder' = "application" /\ open' = TRUE /\ live' = TRUE
          /\ srvDb' = IF Configured = NoDatabase THEN Default ELSE Configured
       \/ /\ holder' = "discarded" /\ UNCHANGED <<open, live, srvDb>>
    /\ UNCHANGED <<srvTx, inTx, dbDirty, tx, cached, misled>>

(* ExecContext (exec with no arguments) and the other paths that call        *)
(* setTransactionState after a success: QueryContext, queryRow, Stmt.exec,   *)
(* Stmt.queryRows.  A USE through exec also drains the statement cache, and  *)
(* an error of the drain becomes the error of the call.                      *)
ExecOk(verb) ==
    /\ Succeeds(verb) /\ SetTransactionState(verb)
    /\ cached' \in IF verb \in Databases THEN {cached, FALSE} ELSE {cached}
    /\ misled' = (misled /\ verb \notin Databases)
    /\ UNCHANGED holder

ExecFails(verb) ==
    /\ \/ Refused /\ UNCHANGED <<holder, cached, misled>>
       \/ /\ cached /\ verb \in Databases
          /\ Succeeds(verb) /\ cached' = FALSE /\ misled' = ~dbDirty
          /\ UNCHANGED holder
       \/ Lost /\ holder' \in {holder, "discarded"} /\ UNCHANGED <<cached, misled>>
    /\ UNCHANGED <<inTx, dbDirty>>

(* The application runs a statement of its own, BEGIN and USE included.      *)
Exec(verb) ==
    /\ holder = "application"
    /\ ExecOk(verb) \/ ExecFails(verb)
    /\ UNCHANGED tx

BeginTx ==
    /\ holder = "application" /\ tx = "none"
    /\ \/ ExecOk("BEGIN") /\ tx' = "open"
       \/ ExecFails("BEGIN") /\ UNCHANGED tx

(* transaction.finish: Commit and Rollback.  A failed one leaves it open.    *)
Finish(verb) ==
    /\ holder = "application" /\ tx = "open" /\ verb \in {"COMMIT", "ROLLBACK"}
    /\ \/ ExecOk(verb) /\ tx' = "done"
       \/ ExecFails(verb) /\ UNCHANGED tx

(* A query leaves its statement in the cache.                                *)
Query ==
    /\ holder = "application" /\ open /\ live
    /\ cached' = TRUE
    /\ UNCHANGED <<holder, open, live, srvTx, srvDb, inTx, dbDirty, tx, misled>>

(* Mutation: IsValid is not asked.                                           *)
PutBackUnasked ==
    /\ holder = "application"
    /\ holder' = "pool"
    /\ tx' = "none"
    /\ UNCHANGED <<open, live, srvTx, srvDb, inTx, dbDirty, cached, misled>>

(* database/sql takes the connection back and asks IsValid.                  *)
PutBack ==
    /\ holder = "application"
    /\ holder' = IF open THEN "pool" ELSE "discarded"
    /\ tx' = "none"
    /\ UNCHANGED <<open, live, srvTx, srvDb, inTx, dbDirty, cached, misled>>

(* closeUnderlying, after which ResetSession answers driver.ErrBadConn.      *)
GiveUp ==
    /\ holder' = "discarded" /\ open' = FALSE /\ live' = FALSE /\ srvTx' = FALSE
    /\ cached' = FALSE
    /\ UNCHANGED <<srvDb, inTx, dbDirty>>

(* ResetSession, first half: a transaction left open is rolled back.         *)
ResetTx ==
    /\ holder = "pool"
    /\ \/ /\ ~inTx /\ holder' = "resetting"
          /\ UNCHANGED <<open, live, srvTx, srvDb, inTx, dbDirty, cached>>
       \/ /\ inTx /\ Succeeds("ROLLBACK") /\ inTx' = FALSE
          /\ holder' = "resetting"
          /\ UNCHANGED <<dbDirty, cached>>
       \/ inTx /\ GiveUp
    /\ UNCHANGED <<tx, misled>>

(* Second half: the configured database is selected again, and the           *)
(* connection goes to its next user.                                         *)
ResetDatabase ==
    /\ holder = "resetting"
    /\ LET restore == dbDirty /\ Configured # NoDatabase IN
       \/ /\ ~restore /\ holder' = "application"
          /\ UNCHANGED <<open, live, srvTx, srvDb, inTx, dbDirty, cached>>
       \/ /\ restore /\ Succeeds(Configured) /\ dbDirty' = FALSE
          /\ holder' = "application"
          /\ cached' \in {cached, FALSE}
          /\ UNCHANGED inTx
       \/ restore /\ GiveUp
    /\ UNCHANGED <<tx, misled>>

(* The server ends the session, for instance because it restarts.            *)
PeerGone ==
    /\ live /\ live' = FALSE /\ srvTx' = FALSE
    /\ UNCHANGED <<holder, open, srvDb, inTx, dbDirty, tx, cached, misled>>

Next ==
    \/ Connect \/ Query \/ BeginTx \/ PutBack \/ ResetTx \/ ResetDatabase \/ PeerGone
    \/ \E verb \in Verbs : Exec(verb) \/ Finish(verb)

Spec == Init /\ [][Next]_vars

-----------------------------------------------------------------------------
(* Properties.                                                               *)

(* A user who gets the connection from the pool finds no transaction of the  *)
(* previous user and the configured database, whatever that user ran and     *)
(* however its statements ended (ResetSession; README: "the driver restores  *)
(* the configured database before that connection is reused from the pool"). *)
(* The exception is a USE that was carried out while closing the cached      *)
(* statements failed: exec reports the error and dbDirty is not set.         *)
HandoutClean ==
    [][holder = "resetting" /\ holder' = "application" /\ live
         => /\ ~srvTx'
            /\ Configured # NoDatabase /\ ~misled => srvDb' = Configured]_vars

(* The driver never misses an open transaction: neither a failed COMMIT nor  *)
(* a BEGIN sent as plain SQL hides it (setTransactionState).                 *)
TxTracked == live /\ srvTx => inTx
=============================================================================
