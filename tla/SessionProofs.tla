---------------------------- MODULE SessionProofs ---------------------------
(***************************************************************************)
(* Proofs about Session for any set of databases, with and without a       *)
(* configured one.                                                         *)
(***************************************************************************)
EXTENDS Session, TLAPS

(* The database is the configured one unless dbDirty says otherwise, or a    *)
(* USE was reported as failed.                                               *)
DbTracked ==
    holder \notin {"none", "discarded"} /\ live /\ Configured # NoDatabase /\ ~misled /\ ~dbDirty
        => srvDb = Configured

(* The first half of ResetSession has left no transaction behind.            *)
ResettingWithoutTx == holder = "resetting" /\ live => ~srvTx

(* A connection that is not there yet has no transaction.                    *)
NotYetOpen == holder = "none" => ~live /\ ~srvTx

IInv == TypeOK /\ TxTracked /\ DbTracked /\ ResettingWithoutTx /\ NotYetOpen

-----------------------------------------------------------------------------
(* What a statement that the server carries out does to its session.         *)
LEMMA CarriedOut ==
    ASSUME NEW verb \in Verbs, Succeeds(verb)
    PROVE  /\ live /\ open /\ UNCHANGED <<open, live>>
           /\ verb = "BEGIN" => srvTx' = TRUE /\ srvDb' = srvDb
           /\ verb \in {"COMMIT", "ROLLBACK"} => srvTx' = FALSE /\ srvDb' = srvDb
           /\ verb \in Databases => srvTx' = srvTx /\ srvDb' = verb
           /\ verb \in {"BEGIN", "COMMIT", "ROLLBACK"} => verb \notin Databases
<1>1. verb \in {"BEGIN", "COMMIT", "ROLLBACK"} => verb \notin Databases
  BY SessionAssumption
<1> QED BY <1>1 DEF Succeeds, ServerDoes, TxAfter, DbAfter

LEMMA InitIInv == Init => IInv
<1> SUFFICES ASSUME Init PROVE IInv
  OBVIOUS
<1>1. TypeOK
  BY SessionAssumption DEF Init, TypeOK, Holders
<1>2. TxTracked /\ DbTracked /\ ResettingWithoutTx /\ NotYetOpen
  BY DEF Init, TxTracked, DbTracked, ResettingWithoutTx, NotYetOpen
<1> QED BY <1>1, <1>2 DEF IInv

(* A statement that succeeds is tracked.                                     *)
LEMMA ExecOkStep ==
    ASSUME IInv, NEW verb \in Verbs, ExecOk(verb), holder = "application",
           tx' \in {"none", "open", "done"}
    PROVE  IInv'
<1> USE DEF IInv
<1>1. /\ Succeeds(verb) /\ UNCHANGED holder
      /\ inTx' = IF verb \in Databases THEN inTx ELSE verb = "BEGIN"
      /\ dbDirty' = IF verb \in Databases THEN Configured # NoDatabase ELSE dbDirty
      /\ misled' = (misled /\ verb \notin Databases)
  BY DEF ExecOk, SetTransactionState
<1>2. cached' \in BOOLEAN
  BY DEF ExecOk, TypeOK
<1>3. CASE verb \in Databases
  <2>1. /\ live /\ open /\ UNCHANGED <<open, live, srvTx, inTx>> /\ srvDb' = verb
        /\ dbDirty' = (Configured # NoDatabase) /\ misled' = FALSE
    BY <1>1, <1>3, CarriedOut
  <2>2. dbDirty' \in BOOLEAN /\ misled' \in BOOLEAN
    BY <2>1, Zenon
  <2>3. TypeOK'
    BY <1>1, <1>2, <1>3, <2>1, <2>2 DEF TypeOK
  <2>4. TxTracked' /\ ResettingWithoutTx' /\ NotYetOpen'
    BY <1>1, <2>1 DEF TxTracked, ResettingWithoutTx, NotYetOpen
  <2>5. DbTracked'
    BY <2>1 DEF DbTracked
  <2> QED BY <2>3, <2>4, <2>5
<1>4. CASE verb \in {"BEGIN", "COMMIT", "ROLLBACK"}
  <2>1. /\ live /\ open /\ UNCHANGED <<open, live, srvDb, dbDirty, misled>>
        /\ srvTx' = (verb = "BEGIN") /\ inTx' = (verb = "BEGIN")
    BY <1>1, <1>4, CarriedOut DEF TypeOK
  <2>2. srvTx' \in BOOLEAN /\ inTx' \in BOOLEAN
    BY <2>1, Zenon
  <2>3. TypeOK'
    BY <1>1, <1>2, <2>1, <2>2 DEF TypeOK
  <2>4. TxTracked' /\ ResettingWithoutTx' /\ NotYetOpen'
    BY <1>1, <2>1 DEF TxTracked, ResettingWithoutTx, NotYetOpen
  <2>5. DbTracked'
    BY <1>1, <2>1 DEF DbTracked
  <2> QED BY <2>3, <2>4, <2>5
<1> QED BY <1>3, <1>4 DEF Verbs

(* One that fails was refused, or carried out without being tracked, or the  *)
(* session is gone.                                                          *)
LEMMA ExecFailsStep ==
    ASSUME IInv, NEW verb \in Verbs, ExecFails(verb), holder = "application",
           tx' \in {"none", "open", "done"}
    PROVE  IInv'
<1> USE DEF IInv
<1>1. CASE Refused /\ UNCHANGED <<holder, cached, misled, inTx, dbDirty>>
  BY <1>1 DEF Refused, TypeOK, TxTracked, DbTracked, ResettingWithoutTx, NotYetOpen
<1>2. CASE /\ cached /\ verb \in Databases
           /\ Succeeds(verb) /\ cached' = FALSE /\ misled' = ~dbDirty
           /\ UNCHANGED <<holder, inTx, dbDirty>>
  <2>1. live /\ open /\ UNCHANGED <<open, live, srvTx>> /\ srvDb' \in Databases
    BY <1>2, CarriedOut
  <2> QED
    BY <1>2, <2>1 DEF TypeOK, TxTracked, DbTracked, ResettingWithoutTx, NotYetOpen
<1>3. CASE Lost /\ holder' \in {holder, "discarded"} /\ UNCHANGED <<cached, misled, inTx, dbDirty>>
  BY <1>3 DEF Lost, TypeOK, Holders, TxTracked, DbTracked, ResettingWithoutTx, NotYetOpen
<1> QED BY <1>1, <1>2, <1>3 DEF ExecFails

(* closeUnderlying ends the session.                                         *)
LEMMA GiveUpStep ==
    ASSUME IInv, GiveUp, UNCHANGED <<tx, misled>>
    PROVE  IInv'
BY DEF IInv, GiveUp, TypeOK, Holders, TxTracked, DbTracked, ResettingWithoutTx, NotYetOpen

LEMMA NextIInv == IInv /\ [Next]_vars => IInv'
<1> SUFFICES ASSUME IInv, [Next]_vars PROVE IInv'
  OBVIOUS
<1> USE DEF IInv
<1>1. CASE Connect
  BY <1>1, SessionAssumption
  DEF Connect, TypeOK, Holders, TxTracked, DbTracked, ResettingWithoutTx, NotYetOpen
<1>2. CASE Query
  BY <1>2 DEF Query, TypeOK, TxTracked, DbTracked, ResettingWithoutTx, NotYetOpen
<1>3. CASE BeginTx
  <2>1. "BEGIN" \in Verbs
    BY DEF Verbs
  <2> QED BY <1>3, <2>1, ExecOkStep, ExecFailsStep DEF BeginTx, TypeOK
<1>4. CASE PutBack
  BY <1>4 DEF PutBack, TypeOK, Holders, TxTracked, DbTracked, ResettingWithoutTx, NotYetOpen
<1>5. CASE ResetTx
  <2>1. CASE /\ ~inTx /\ holder' = "resetting"
             /\ UNCHANGED <<open, live, srvTx, srvDb, inTx, dbDirty, cached>>
    BY <1>5, <2>1
    DEF ResetTx, TypeOK, Holders, TxTracked, DbTracked, ResettingWithoutTx, NotYetOpen
  <2>2. CASE /\ Succeeds("ROLLBACK") /\ inTx' = FALSE /\ holder' = "resetting"
             /\ UNCHANGED <<dbDirty, cached>>
    <3>1. /\ live /\ open /\ UNCHANGED <<open, live, srvDb>> /\ srvTx' = FALSE
      BY <2>2, CarriedOut DEF Verbs
    <3> QED
      BY <1>5, <2>2, <3>1
      DEF ResetTx, TypeOK, Holders, TxTracked, DbTracked, ResettingWithoutTx, NotYetOpen
  <2>3. CASE GiveUp
    BY <1>5, <2>3, GiveUpStep DEF ResetTx
  <2> QED BY <1>5, <2>1, <2>2, <2>3 DEF ResetTx
<1>6. CASE ResetDatabase
  <2>1. CASE /\ holder' = "application"
             /\ UNCHANGED <<open, live, srvTx, srvDb, inTx, dbDirty, cached>>
    BY <1>6, <2>1
    DEF ResetDatabase, TypeOK, Holders, TxTracked, DbTracked, ResettingWithoutTx, NotYetOpen
  <2>2. CASE /\ Configured # NoDatabase /\ Succeeds(Configured) /\ dbDirty' = FALSE
             /\ holder' = "application" /\ cached' \in {cached, FALSE} /\ UNCHANGED inTx
    <3>1. /\ live /\ open /\ UNCHANGED <<open, live, srvTx>>
          /\ srvDb' = Configured /\ Configured \in Databases
      BY <2>2, CarriedOut, SessionAssumption DEF Verbs
    <3> QED
      BY <1>6, <2>2, <3>1
      DEF ResetDatabase, TypeOK, Holders, TxTracked, DbTracked, ResettingWithoutTx, NotYetOpen
  <2>3. CASE GiveUp
    BY <1>6, <2>3, GiveUpStep DEF ResetDatabase
  <2> QED BY <1>6, <2>1, <2>2, <2>3 DEF ResetDatabase
<1>7. CASE PeerGone
  BY <1>7 DEF PeerGone, TypeOK, TxTracked, DbTracked, ResettingWithoutTx, NotYetOpen
<1>8. ASSUME NEW verb \in Verbs, Exec(verb) \/ Finish(verb) PROVE IInv'
  <2>1. /\ holder = "application" /\ tx' \in {"none", "open", "done"}
        /\ ExecOk(verb) \/ ExecFails(verb)
    BY <1>8 DEF Exec, Finish, TypeOK
  <2> QED BY <2>1, ExecOkStep, ExecFailsStep
<1>9. CASE UNCHANGED vars
  BY <1>9 DEF vars, TypeOK, TxTracked, DbTracked, ResettingWithoutTx, NotYetOpen
<1> QED BY <1>1, <1>2, <1>3, <1>4, <1>5, <1>6, <1>7, <1>8, <1>9 DEF Next

(* The mirror follows the server: IInv is an invariant of Session.           *)
THEOREM Invariance == Spec => []IInv
BY InitIInv, NextIInv, PTL DEF Spec

(* The variables stay in their sets, and a connection in the pool is open.   *)
THEOREM TypeCorrect == Spec => []TypeOK
<1>1. IInv => TypeOK
  BY DEF IInv
<1> QED BY Invariance, <1>1, PTL

(* A transaction that is open at the server is known to the driver, whatever *)
(* statements failed before (setTransactionState, transaction.finish).       *)
THEOREM TransactionsTracked == Spec => []TxTracked
<1>1. IInv => TxTracked
  BY DEF IInv
<1> QED BY Invariance, <1>1, PTL

(* ResetSession hands the connection to its next user without a transaction  *)
(* and in the configured database, for any set of databases.                 *)
THEOREM CleanHandout == Spec => HandoutClean
<1> DEFINE Clean == holder = "resetting" /\ holder' = "application" /\ live
                      => /\ ~srvTx'
                         /\ Configured # NoDatabase /\ ~misled => srvDb' = Configured
<1>1. IInv /\ IInv' /\ [Next]_vars => [Clean]_vars
  <2> SUFFICES ASSUME IInv, IInv', [Next]_vars,
                      holder = "resetting", holder' = "application", live
               PROVE  /\ ~srvTx'
                      /\ Configured # NoDatabase /\ ~misled => srvDb' = Configured
    OBVIOUS
  <2>1. ResetDatabase
    BY DEF Next, vars, Connect, Query, BeginTx, PutBack, ResetTx, GiveUp, PeerGone, Exec, Finish
  <2>2. ~srvTx
    BY DEF IInv, ResettingWithoutTx
  <2>3. CASE /\ ~(dbDirty /\ Configured # NoDatabase)
             /\ UNCHANGED <<open, live, srvTx, srvDb, inTx, dbDirty, cached>>
    BY <2>2, <2>3 DEF IInv, DbTracked
  <2>4. CASE Configured # NoDatabase /\ Succeeds(Configured)
    BY <2>2, <2>4, CarriedOut, SessionAssumption DEF Verbs
  <2> QED BY <2>1, <2>3, <2>4 DEF ResetDatabase, GiveUp
<1> QED BY Invariance, <1>1, PTL DEF Spec, HandoutClean
=============================================================================
