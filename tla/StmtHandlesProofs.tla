------------------------- MODULE StmtHandlesProofs --------------------------
(***************************************************************************)
(* Proofs about StmtHandles for any set of handles and any id limit.       *)
(***************************************************************************)
EXTENDS StmtHandles, FiniteSetTheorems, TLAPS

(* Ids is a finite set, and so is every set of ids.                          *)
LEMMA UsedFinite == ASSUME NEW S \in SUBSET Ids PROVE IsFiniteSet(S)
<1>1. IsFiniteSet(Ids)
  BY StmtHandlesAssumption, FS_Interval DEF Ids
<1> QED BY <1>1, FS_Subset

(* A full count means a full table: the bound of usedCnt.                    *)
LEMMA CardinalityBound ==
    ASSUME NEW S \in SUBSET Ids
    PROVE  Cardinality(S) \in 0..Limit
<1>1. IsFiniteSet(Ids) /\ Cardinality(Ids) = Limit
  BY StmtHandlesAssumption, FS_Interval DEF Ids
<1>2. Cardinality(S) <= Limit
  BY <1>1, FS_Subset
<1>3. Cardinality(S) \in Nat
  BY UsedFinite, FS_CardinalityType
<1> QED BY <1>2, <1>3, StmtHandlesAssumption

(* The next cursor is an id.                                                 *)
LEMMA CursorInRange == ASSUME NEW i \in Ids PROVE CursorAfter(i) \in Ids
BY StmtHandlesAssumption DEF CursorAfter, Ids

(* The scan returns an unused id.                                            *)
LEMMA ScanUnused == ASSUME NEW i \in Ids, ScanReturns(i) PROVE i \notin used
BY DEF ScanReturns

LEMMA InitIInv == Init => IInv
<1> SUFFICES ASSUME Init PROVE IInv
  OBVIOUS
<1> USE DEF Init
<1>1. TypeOK
  <2>1. connOpen \in BOOLEAN /\ broken \in BOOLEAN
    BY Zenon
  <2>2. 0 \in Ids /\ usedCnt \in 0..Limit /\ used \in SUBSET Ids
    BY StmtHandlesAssumption DEF Ids
  <2>3. state \in [Handles -> States] /\ server \in [Ids -> Handles \cup {NoHandle}]
    BY DEF States
  <2>4. id \in [Handles -> Ids] /\ cursor \in Ids
    BY <2>2
  <2> QED BY <2>1, <2>2, <2>3, <2>4 DEF TypeOK
<1>2. \A h \in Handles : ~Holds(h)
  BY DEF Holds
<1>3. IdsExclusive /\ UsedExact /\ OwnSlot
  BY <1>2 DEF IdsExclusive, UsedExact, OwnSlot
<1>4. CountExact
  BY FS_EmptySet DEF CountExact
<1>5. FreeIdsUnoccupied /\ SlotBack /\ ConfirmedSlotEmpty
  BY DEF FreeIdsUnoccupied, SlotBack, ConfirmedSlotEmpty
<1> QED BY <1>1, <1>3, <1>4, <1>5 DEF IInv

(* AllocStmt: the id that is marked was unowned, so the new owner is alone.  *)
LEMMA AllocStep ==
    ASSUME IInv, NEW h \in Handles, AllocStmt(h)
    PROVE  IInv'
<1> USE DEF IInv
<1>1. PICK i \in Ids : /\ ScanReturns(i)
                       /\ id' = [id EXCEPT ![h] = i]
                       /\ used' = used \cup {i}
                       /\ usedCnt' = usedCnt + 1
                       /\ cursor' = CursorAfter(i)
  BY DEF AllocStmt
<1>2. i \notin used
  BY <1>1, ScanUnused
<1>3. /\ state[h] = "new" /\ usedCnt < Limit
      /\ state' = [state EXCEPT ![h] = "live"]
      /\ UNCHANGED <<connOpen, broken, server>>
  BY DEF AllocStmt
<1>4. ~Holds(h) /\ Holds(h)'
  BY <1>3 DEF Holds, TypeOK
<1>5. \A g \in Handles : g # h => (Holds(g)' <=> Holds(g)) /\ id'[g] = id[g]
  BY <1>1, <1>3 DEF Holds, TypeOK
<1>6. \A g \in Handles : Holds(g) => id[g] # i
  BY <1>2 DEF UsedExact
<1>7. id'[h] = i
  BY <1>1 DEF TypeOK
<1>8. TypeOK'
  <2>1. state' \in [Handles -> States]
    BY <1>3 DEF TypeOK, States
  <2>2. id' \in [Handles -> Ids] /\ used' \in SUBSET Ids /\ cursor' \in Ids
    BY <1>1, CursorInRange DEF TypeOK
  <2>3. usedCnt' \in 0..Limit
    BY <1>1, <1>3, StmtHandlesAssumption DEF TypeOK
  <2>4. server' \in [Ids -> Handles \cup {NoHandle}]
    BY <1>3 DEF TypeOK
  <2>5. connOpen' \in BOOLEAN /\ broken' \in BOOLEAN
    BY <1>3 DEF TypeOK
  <2> QED BY <2>1, <2>2, <2>3, <2>4, <2>5 DEF TypeOK
<1>9. IdsExclusive'
  BY <1>4, <1>5, <1>6, <1>7 DEF IdsExclusive
<1>10. UsedExact'
  BY <1>1, <1>4, <1>5, <1>7 DEF UsedExact
<1>11. CountExact'
  <2>1. IsFiniteSet(used)
    BY UsedFinite DEF TypeOK
  <2>2. Cardinality(used') = Cardinality(used) + 1
    BY <1>1, <1>2, <2>1, FS_AddElement
  <2> QED BY <1>1, <2>2 DEF CountExact
<1>12. FreeIdsUnoccupied'
  BY <1>1, <1>3 DEF FreeIdsUnoccupied
<1>13. OwnSlot'
  <2>1. ~broken => server[i] = NoHandle
    BY <1>2 DEF FreeIdsUnoccupied
  <2> QED BY <1>3, <1>5, <1>7, <2>1 DEF OwnSlot
<1>14. SlotBack'
  <2> SUFFICES ASSUME NEW j \in Ids, server'[j] # NoHandle
               PROVE  state'[server'[j]] # "new" /\ id'[server'[j]] = j
    BY DEF SlotBack
  <2>1. server[j] \in Handles /\ state[server[j]] # "new" /\ id[server[j]] = j
    BY <1>3 DEF SlotBack, TypeOK
  <2>2. server[j] # h
    BY <1>3, <2>1
  <2> QED BY <1>1, <1>3, <2>1, <2>2 DEF TypeOK
<1>15. ConfirmedSlotEmpty'
  BY <1>1, <1>3 DEF ConfirmedSlotEmpty, TypeOK
<1> QED BY <1>8, <1>9, <1>10, <1>11, <1>12, <1>13, <1>14, <1>15

(* Use: a live handle writes the slot of its own id only.                    *)
LEMMA UseStep ==
    ASSUME IInv, NEW h \in Handles, Use(h)
    PROVE  IInv'
<1> USE DEF IInv
<1>1. /\ state[h] = "live" /\ ~broken
      /\ server' = [server EXCEPT ![id[h]] = h]
      /\ UNCHANGED <<state, id, used, usedCnt, cursor, connOpen, broken>>
  BY DEF Use
<1>2. Holds(h) /\ id[h] \in Ids /\ id[h] \in used /\ h # NoHandle
  BY <1>1, StmtHandlesAssumption DEF Holds, TypeOK, UsedExact
<1>3. \A g : Holds(g)' <=> Holds(g)
  BY <1>1 DEF Holds
<1>4. TypeOK'
  BY <1>1, <1>2 DEF TypeOK
<1>5. IdsExclusive' /\ UsedExact' /\ CountExact'
  BY <1>1, <1>3 DEF IdsExclusive, UsedExact, CountExact
<1>6. FreeIdsUnoccupied'
  BY <1>1, <1>2 DEF FreeIdsUnoccupied, TypeOK
<1>7. OwnSlot'
  BY <1>1, <1>2, <1>3 DEF OwnSlot, IdsExclusive, TypeOK
<1>8. SlotBack'
  BY <1>1, <1>2 DEF SlotBack, TypeOK
<1>9. ConfirmedSlotEmpty'
  <2> SUFFICES ASSUME NEW g \in Handles, state[g] = "confirmed"
               PROVE  server'[id[g]] = NoHandle
    BY <1>1 DEF ConfirmedSlotEmpty
  <2>1. Holds(g) /\ g # h
    BY <1>1 DEF Holds
  <2>2. id[g] # id[h]
    BY <1>2, <2>1 DEF IdsExclusive
  <2>3. server[id[g]] = NoHandle /\ id[g] \in Ids
    BY <1>1 DEF ConfirmedSlotEmpty, TypeOK
  <2> QED BY <1>1, <2>2, <2>3 DEF TypeOK
<1> QED BY <1>4, <1>5, <1>6, <1>7, <1>8, <1>9

(* The steps of Free that leave the id with its handle.                      *)
LEMMA FreeStep ==
    ASSUME IInv, NEW h \in Handles,
           FreeBegin(h) \/ FreeConfirmed(h) \/ FreeSwallowed(h) \/ FreeFailed(h)
    PROVE  IInv'
<1> USE DEF IInv
<1> DEFINE Keeps == /\ state[h] \in {"live", "closing"}
                    /\ \E t \in {"closing", "confirmed", "leaked"} : state' = [state EXCEPT ![h] = t]
                    /\ UNCHANGED <<id, used, usedCnt, cursor, connOpen>>
                    /\ broken' \in BOOLEAN
                    /\ ~broken' => ~broken
                    /\ server' = server \/ server' = [server EXCEPT ![id[h]] = NoHandle]
                    /\ ~broken' /\ state'[h] = "confirmed" => server'[id[h]] = NoHandle
<1>1. Keeps
  <2>1. CASE FreeBegin(h)
    BY <2>1 DEF FreeBegin, TypeOK
  <2>2. CASE FreeConfirmed(h)
    BY <2>2 DEF FreeConfirmed, TypeOK
  <2>3. CASE FreeSwallowed(h)
    BY <2>3 DEF FreeSwallowed, TypeOK
  <2>4. CASE FreeFailed(h)
    BY <2>4 DEF FreeFailed, TypeOK
  <2> QED BY <2>1, <2>2, <2>3, <2>4
<1>2. \A g \in Handles : (Holds(g)' <=> Holds(g)) /\ (state'[g] = "new" <=> state[g] = "new")
  BY <1>1 DEF Holds, TypeOK
<1>3. id[h] \in Ids
  BY DEF TypeOK
<1>4. server' \in [Ids -> Handles \cup {NoHandle}]
  BY <1>1, <1>3 DEF TypeOK
<1>5. \A i \in Ids : server'[i] \in {server[i], NoHandle}
  BY <1>1, <1>3 DEF TypeOK
<1>6. TypeOK'
  <2>1. state' \in [Handles -> States]
    BY <1>1 DEF TypeOK, States
  <2> QED BY <1>1, <1>4, <2>1 DEF TypeOK
<1>7. IdsExclusive' /\ UsedExact' /\ CountExact'
  BY <1>1, <1>2 DEF IdsExclusive, UsedExact, CountExact
<1>8. FreeIdsUnoccupied'
  BY <1>1, <1>5 DEF FreeIdsUnoccupied
<1>9. OwnSlot'
  BY <1>1, <1>2, <1>5 DEF OwnSlot, TypeOK
<1>10. SlotBack'
  BY <1>1, <1>2, <1>4, <1>5 DEF SlotBack, TypeOK
<1>11. ConfirmedSlotEmpty'
  <2> SUFFICES ASSUME ~broken', NEW g \in Handles, state'[g] = "confirmed"
               PROVE  server'[id[g]] = NoHandle
    BY <1>1 DEF ConfirmedSlotEmpty
  <2>1. CASE g = h
    BY <1>1, <2>1
  <2>2. CASE g # h
    BY <1>1, <1>5, <2>2 DEF ConfirmedSlotEmpty, TypeOK
  <2> QED BY <2>1, <2>2
<1> QED BY <1>6, <1>7, <1>8, <1>9, <1>10, <1>11

(* ReleaseStmtID: the id leaves with its only owner.                         *)
LEMMA ReleaseStep ==
    ASSUME IInv, NEW h \in Handles, ReleaseStmtID(h)
    PROVE  IInv'
<1> USE DEF IInv
<1>1. /\ state[h] = "confirmed"
      /\ state' = [state EXCEPT ![h] = "freed"]
      /\ UNCHANGED <<id, cursor, connOpen, broken, server>>
  BY DEF ReleaseStmtID
<1>2. Holds(h) /\ id[h] \in used
  BY <1>1 DEF Holds, UsedExact
<1>3. IsFiniteSet(used)
  BY UsedFinite DEF TypeOK
<1>4. Cardinality(used') = Cardinality(used) - 1 /\ Cardinality(used) > 0
  <2>1. used' = used \ {id[h]}
    BY <1>2 DEF ReleaseStmtID
  <2>2. Cardinality(used \ {id[h]}) = Cardinality(used) - 1
    BY <1>2, <1>3, FS_RemoveElement
  <2>3. Cardinality(used) # 0 /\ Cardinality(used) \in Nat
    BY <1>2, <1>3, FS_EmptySet, FS_CardinalityType
  <2> QED BY <2>1, <2>2, <2>3
<1>5. used' = used \ {id[h]} /\ usedCnt' = usedCnt - 1 /\ usedCnt > 0
  BY <1>2, <1>4 DEF ReleaseStmtID, CountExact
<1>6. ~Holds(h)' /\ \A g \in Handles : g # h => (Holds(g)' <=> Holds(g))
  BY <1>1 DEF Holds, TypeOK
<1>7. TypeOK'
  <2>1. state' \in [Handles -> States]
    BY <1>1 DEF TypeOK, States
  <2>2. usedCnt' \in 0..Limit /\ used' \in SUBSET Ids
    BY <1>5, StmtHandlesAssumption DEF TypeOK
  <2> QED BY <1>1, <2>1, <2>2 DEF TypeOK
<1>8. IdsExclusive'
  BY <1>1, <1>6 DEF IdsExclusive
<1>9. UsedExact'
  <2>1. \A g \in Handles : Holds(g)' => Holds(g) /\ id[g] # id[h]
    BY <1>2, <1>6 DEF IdsExclusive
  <2>2. \A i \in used' : \E g \in Handles : Holds(g)' /\ id[g] = i
    BY <1>5, <1>6 DEF UsedExact
  <2>3. \A g \in Handles : Holds(g)' => id[g] \in used'
    BY <1>5, <2>1 DEF UsedExact
  <2> QED BY <1>1, <2>2, <2>3 DEF UsedExact
<1>10. CountExact'
  BY <1>4, <1>5 DEF CountExact
<1>11. FreeIdsUnoccupied'
  BY <1>1, <1>5 DEF FreeIdsUnoccupied, ConfirmedSlotEmpty
<1>12. OwnSlot' /\ ConfirmedSlotEmpty'
  BY <1>1, <1>6 DEF OwnSlot, ConfirmedSlotEmpty, TypeOK
<1>13. SlotBack'
  BY <1>1 DEF SlotBack, TypeOK
<1> QED BY <1>7, <1>8, <1>9, <1>10, <1>11, <1>12, <1>13

(* Break, Disconnect and stuttering leave handles, ids and slots alone.      *)
LEMMA QuietStep ==
    ASSUME IInv, Break \/ Disconnect \/ UNCHANGED vars
    PROVE  IInv'
<1> USE DEF IInv
<1>1. /\ UNCHANGED <<state, id, used, usedCnt, cursor, server>>
      /\ broken' \in BOOLEAN /\ connOpen' \in BOOLEAN
      /\ ~broken' => ~broken
  BY DEF Break, Disconnect, vars, TypeOK
<1>2. \A g : Holds(g)' <=> Holds(g)
  BY <1>1 DEF Holds
<1>3. TypeOK'
  BY <1>1 DEF TypeOK
<1>4. IdsExclusive' /\ UsedExact' /\ CountExact' /\ SlotBack'
  BY <1>1, <1>2 DEF IdsExclusive, UsedExact, CountExact, SlotBack
<1>5. FreeIdsUnoccupied' /\ OwnSlot' /\ ConfirmedSlotEmpty'
  BY <1>1, <1>2 DEF FreeIdsUnoccupied, OwnSlot, ConfirmedSlotEmpty
<1> QED BY <1>3, <1>4, <1>5

(* IInv is inductive.                                                        *)
LEMMA StepIInv == IInv /\ [Next]_vars => IInv'
<1> SUFFICES ASSUME IInv, [Next]_vars PROVE IInv'
  OBVIOUS
<1>1. ASSUME NEW h \in Handles, AllocStmt(h) PROVE IInv'
  BY <1>1, AllocStep
<1>2. ASSUME NEW h \in Handles, Use(h) PROVE IInv'
  BY <1>2, UseStep
<1>3. ASSUME NEW h \in Handles,
             FreeBegin(h) \/ FreeConfirmed(h) \/ FreeSwallowed(h) \/ FreeFailed(h)
      PROVE  IInv'
  BY <1>3, FreeStep
<1>4. ASSUME NEW h \in Handles, ReleaseStmtID(h) PROVE IInv'
  BY <1>4, ReleaseStep
<1>5. ASSUME Break \/ Disconnect \/ UNCHANGED vars PROVE IInv'
  BY <1>5, QuietStep
<1> QED BY <1>1, <1>2, <1>3, <1>4, <1>5 DEF Next

(* The inductive invariant of AllocStmt, Free and their helpers holds in     *)
(* every reachable state, for any number of handles and any stmtIDLimit.     *)
THEOREM Invariance == Spec => []IInv
<1>1. Init => IInv
  BY InitIInv
<1>2. IInv /\ [Next]_vars => IInv'
  BY StepIInv
<1> QED BY <1>1, <1>2, PTL DEF Spec

(* Every variable keeps its type: in particular stmtUsedCnt never leaves     *)
(* 0..stmtIDLimit and stmtCursor is always an id.                            *)
THEOREM TypeCorrect == Spec => []TypeOK
<1>1. IInv => TypeOK
  BY DEF IInv
<1> QED BY <1>1, Invariance, PTL

(* No two handles own an id at the same time (AllocStmt against Free).       *)
THEOREM ExclusiveIds == Spec => []IdsExclusive
<1>1. IInv => IdsExclusive
  BY DEF IInv
<1> QED BY <1>1, Invariance, PTL

(* stmtUsed and stmtUsedCnt are exact (nextStmtID against releaseStmtID).    *)
THEOREM ExactAccounting == Spec => [](UsedExact /\ CountExact)
<1>1. IInv => UsedExact /\ CountExact
  BY DEF IInv
<1> QED BY <1>1, Invariance, PTL

(* On a connection in service a handle's id names its own statement at the   *)
(* server, or none.                                                          *)
THEOREM PrivateSlots == Spec => []OwnSlot
<1>1. IInv => OwnSlot
  BY DEF IInv
<1> QED BY <1>1, Invariance, PTL

-----------------------------------------------------------------------------
(* Refinement.                                                               *)

LEMMA InitRefines == Init => Service!ServiceInit
<1> SUFFICES ASSUME Init PROVE Service!ServiceInit
  OBVIOUS
<1>1. phaseOf = [h \in Handles |-> "none"]
  BY DEF Init, phaseOf
<1>2. heldBy = {}
  BY StmtHandlesAssumption DEF Init, heldBy
<1> QED BY <1>1, <1>2 DEF Service!ServiceInit

(* A step that gives one handle a new phase and leaves the server alone.     *)
LEMMA PhaseStep ==
    ASSUME TypeOK, NEW h \in Handles, NEW t \in States,
           state' = [state EXCEPT ![h] = t], UNCHANGED server
    PROVE  /\ phaseOf' = [phaseOf EXCEPT ![h] = IF t = "new" THEN "none"
                             ELSE IF t = "live" THEN "open" ELSE "closed"]
           /\ heldBy' = heldBy
BY DEF phaseOf, heldBy, TypeOK

(* Emptying the slot of h's id takes h, and nobody else, off the server.     *)
LEMMA DropHeld ==
    ASSUME IInv, ~broken, NEW h \in Handles, Holds(h),
           server' = [server EXCEPT ![id[h]] = NoHandle]
    PROVE  heldBy' = heldBy \ {h}
<1> USE DEF IInv
<1>1. id[h] \in Ids /\ server[id[h]] \in {h, NoHandle}
  BY DEF OwnSlot, TypeOK
<1>2. \A i \in Ids : server[i] = h => i = id[h]
  BY StmtHandlesAssumption DEF SlotBack
<1>3. \A i \in Ids : server'[i] = IF i = id[h] THEN NoHandle ELSE server[i]
  BY <1>1 DEF TypeOK
<1>4. \A g \in Handles :
        (\E i \in Ids : server'[i] = g) <=> (\E i \in Ids : server[i] = g) /\ g # h
  <2> SUFFICES ASSUME NEW g \in Handles
               PROVE  (\E i \in Ids : server'[i] = g)
                         <=> (\E i \in Ids : server[i] = g) /\ g # h
    OBVIOUS
  <2>1. g # NoHandle
    BY StmtHandlesAssumption
  <2> QED BY <1>1, <1>2, <1>3, <2>1
<1> QED BY <1>4 DEF heldBy

(* Writing the slot of its own id puts h on the server and removes nobody.   *)
LEMMA RunHeld ==
    ASSUME IInv, ~broken, NEW h \in Handles, Holds(h),
           server' = [server EXCEPT ![id[h]] = h]
    PROVE  heldBy' = heldBy \cup {h}
<1> USE DEF IInv
<1>1. id[h] \in Ids /\ server[id[h]] \in {h, NoHandle}
  BY DEF OwnSlot, TypeOK
<1>2. \A i \in Ids : server'[i] = IF i = id[h] THEN h ELSE server[i]
  BY <1>1 DEF TypeOK
<1>3. \A g \in Handles :
        (\E i \in Ids : server'[i] = g) <=> (\E i \in Ids : server[i] = g) \/ g = h
  <2> SUFFICES ASSUME NEW g \in Handles
               PROVE  (\E i \in Ids : server'[i] = g)
                         <=> (\E i \in Ids : server[i] = g) \/ g = h
    OBVIOUS
  <2>1. g # NoHandle
    BY StmtHandlesAssumption
  <2> QED BY <1>1, <1>2, <2>1
<1> QED BY <1>3 DEF heldBy

(* Every step of the handles is a step of the service or a stutter.          *)
LEMMA StepRefines ==
    IInv /\ [Next]_vars => [Service!ServiceNext]_(Service!serviceVars)
<1> SUFFICES ASSUME IInv, [Next]_vars
             PROVE  Service!ServiceNext \/ UNCHANGED <<phaseOf, heldBy>>
  BY DEF Service!serviceVars
<1> USE DEF IInv
<1>1. ASSUME NEW h \in Handles, AllocStmt(h) PROVE Service!Open(h)
  <2>1. state[h] = "new" /\ state' = [state EXCEPT ![h] = "live"] /\ UNCHANGED server
    BY <1>1 DEF AllocStmt
  <2>2. phaseOf' = [phaseOf EXCEPT ![h] = "open"] /\ heldBy' = heldBy
    BY <2>1, PhaseStep DEF States
  <2>3. phaseOf[h] = "none"
    BY <2>1 DEF phaseOf
  <2> QED BY <2>2, <2>3 DEF Service!Open
<1>2. ASSUME NEW h \in Handles, Use(h) PROVE Service!Run(h)
  <2>1. /\ state[h] = "live" /\ ~broken
        /\ server' = [server EXCEPT ![id[h]] = h]
        /\ state' = state
    BY <1>2 DEF Use
  <2>2. heldBy' = heldBy \cup {h}
    BY <2>1, RunHeld DEF Holds
  <2>3. phaseOf' = phaseOf /\ phaseOf[h] = "open"
    BY <2>1 DEF phaseOf
  <2> QED BY <2>2, <2>3 DEF Service!Run
<1>3. ASSUME NEW h \in Handles, FreeBegin(h) PROVE Service!Shut(h)
  <2>1. state[h] = "live" /\ state' = [state EXCEPT ![h] = "closing"] /\ UNCHANGED server
    BY <1>3 DEF FreeBegin
  <2>2. phaseOf' = [phaseOf EXCEPT ![h] = "closed"] /\ heldBy' = heldBy
    BY <2>1, PhaseStep DEF States
  <2>3. phaseOf[h] = "open"
    BY <2>1 DEF phaseOf
  <2> QED BY <2>2, <2>3 DEF Service!Shut
<1>4. ASSUME NEW h \in Handles, state[h] \in {"closing", "confirmed"},
             NEW t \in {"confirmed", "leaked", "freed"},
             state' = [state EXCEPT ![h] = t],
             \/ UNCHANGED server
             \/ ~broken /\ server' = [server EXCEPT ![id[h]] = NoHandle]
      PROVE  Service!Drop(h) \/ UNCHANGED <<phaseOf, heldBy>>
  <2>1. phaseOf' = phaseOf /\ phaseOf[h] = "closed"
    BY <1>4 DEF phaseOf, TypeOK
  <2>2. CASE UNCHANGED server
    BY <2>1, <2>2 DEF heldBy
  <2>3. CASE ~broken /\ server' = [server EXCEPT ![id[h]] = NoHandle]
    <3>1. heldBy' = heldBy \ {h}
      BY <1>4, <2>3, DropHeld DEF Holds
    <3> QED BY <2>1, <3>1 DEF Service!Drop
  <2> QED BY <1>4, <2>2, <2>3
<1>5. ASSUME NEW h \in Handles,
             FreeConfirmed(h) \/ FreeSwallowed(h) \/ FreeFailed(h) \/ ReleaseStmtID(h)
      PROVE  Service!Drop(h) \/ UNCHANGED <<phaseOf, heldBy>>
  <2>1. CASE FreeConfirmed(h)
    BY <1>4, <2>1 DEF FreeConfirmed
  <2>2. CASE FreeSwallowed(h)
    BY <1>4, <2>2 DEF FreeSwallowed
  <2>3. CASE FreeFailed(h)
    BY <1>4, <2>3 DEF FreeFailed
  <2>4. CASE ReleaseStmtID(h)
    BY <1>4, <2>4 DEF ReleaseStmtID
  <2> QED BY <1>5, <2>1, <2>2, <2>3, <2>4
<1>6. ASSUME Break \/ Disconnect \/ UNCHANGED vars PROVE UNCHANGED <<phaseOf, heldBy>>
  BY <1>6 DEF Break, Disconnect, vars, phaseOf, heldBy
<1> QED BY <1>1, <1>2, <1>3, <1>5, <1>6 DEF Next, Service!ServiceNext

(* The multiplexed ids implement one private statement per handle, for any   *)
(* number of handles and any stmtIDLimit.                                    *)
THEOREM Refinement == Spec => ImplementsService
<1>1. Init => Service!ServiceInit
  BY InitRefines
<1>2. IInv /\ [Next]_vars => [Service!ServiceNext]_(Service!serviceVars)
  BY StepRefines
<1> QED BY <1>1, <1>2, Invariance, PTL DEF Spec, ImplementsService, Service!ServiceSpec

=============================================================================
