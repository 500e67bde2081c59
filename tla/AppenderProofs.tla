--------------------------- MODULE AppenderProofs ---------------------------
(***************************************************************************)
(* Proofs about Appender for any number of calls, any batch size and any   *)
(* distance between response checks.                                       *)
(***************************************************************************)
EXTENDS Appender, FiniteSetTheorems, TLAPS

Increasing(s) == \A i, j \in 1..Len(s) : i < j => s[i] < s[j]

(* The rows written and then the rows queued are in the order of the calls,  *)
(* and with the refused ones they are all rows so far.                       *)
InOrder == Increasing(wire \o pending)
Covered == ToSet(wire) \cup ToSet(pending) \cup refused = 1..calls

(* The server stored or rejected each row it got, and not both.              *)
Decided ==
    /\ accepted \cap rejected = {}
    /\ accepted \cup rejected = ToSet(wire)

(* The queue is sent before it holds BatchRows rows.                         *)
QueueShort == Len(pending) < BatchRows

(* Appender.Close sets the result.                                           *)
ResultAtClose == phase = "open" => ~result.ok

IInv ==
    /\ TypeOK /\ Accounted /\ CleanClose
    /\ InOrder /\ Covered /\ Decided /\ QueueShort /\ ResultAtClose
    /\ addCount <= calls

-----------------------------------------------------------------------------
(* Sequences of rows.                                                        *)

(* What ToSet makes of an empty, a concatenated and a longer sequence.       *)
LEMMA ElementsOf ==
    ASSUME NEW S, NEW s \in Seq(S), NEW t \in Seq(S)
    PROVE  /\ ToSet(<<>>) = {}
           /\ ToSet(s \o t) = ToSet(s) \cup ToSet(t)
           /\ \A e \in S : ToSet(Append(s, e)) = ToSet(s) \cup {e}
           /\ ToSet(s) \subseteq S
<1>1. ToSet(<<>>) = {}
  BY DEF ToSet
<1>2. ToSet(s \o t) = ToSet(s) \cup ToSet(t)
  <2>1. ToSet(s \o t) \subseteq ToSet(s) \cup ToSet(t)
    BY DEF ToSet
  <2>2. ToSet(s) \subseteq ToSet(s \o t)
    BY DEF ToSet
  <2>3. ASSUME NEW j \in DOMAIN t  PROVE t[j] \in ToSet(s \o t)
    <3>1. Len(s) + j \in DOMAIN (s \o t) /\ (s \o t)[Len(s) + j] = t[j]
      OBVIOUS
    <3>2. QED
      BY <3>1 DEF ToSet
  <2>4. QED
    BY <2>1, <2>2, <2>3 DEF ToSet
<1>3. ASSUME NEW e \in S  PROVE ToSet(Append(s, e)) = ToSet(s) \cup {e}
  <2>1. ToSet(Append(s, e)) \subseteq ToSet(s) \cup {e}
    BY DEF ToSet
  <2>2. ToSet(s) \subseteq ToSet(Append(s, e))
    BY DEF ToSet
  <2>3. e \in ToSet(Append(s, e))
    <3>1. Len(s) + 1 \in DOMAIN Append(s, e) /\ Append(s, e)[Len(s) + 1] = e
      OBVIOUS
    <3>2. QED
      BY <3>1 DEF ToSet
  <2>4. QED
    BY <2>1, <2>2, <2>3
<1>4. ToSet(s) \subseteq S
  BY DEF ToSet
<1>5. QED
  BY <1>1, <1>2, <1>3, <1>4

(* The front of an increasing sequence is increasing and shares no element   *)
(* with the rest.                                                            *)
LEMMA IncreasingFront ==
    ASSUME NEW s \in Seq(Nat), NEW t \in Seq(Nat), Increasing(s \o t)
    PROVE  Increasing(s) /\ ToSet(s) \cap ToSet(t) = {}
<1>1. Increasing(s)
  <2>1. \A i \in 1..Len(s) : i \in 1..Len(s \o t) /\ (s \o t)[i] = s[i]
    OBVIOUS
  <2>2. QED
    BY <2>1 DEF Increasing
<1>2. ASSUME NEW i \in 1..Len(s), NEW j \in 1..Len(t)  PROVE s[i] # t[j]
  <2>1. /\ i \in 1..Len(s \o t) /\ (s \o t)[i] = s[i]
        /\ Len(s) + j \in 1..Len(s \o t) /\ (s \o t)[Len(s) + j] = t[j]
        /\ i < Len(s) + j
    OBVIOUS
  <2>2. (s \o t)[i] < (s \o t)[Len(s) + j]
    BY <2>1 DEF Increasing
  <2>3. s[i] \in Nat /\ t[j] \in Nat
    OBVIOUS
  <2>4. QED
    BY <2>1, <2>2, <2>3
<1>3. DOMAIN s = 1..Len(s) /\ DOMAIN t = 1..Len(t)
  OBVIOUS
<1>4. QED
  BY <1>1, <1>2, <1>3, Zenon DEF ToSet

(* A row with a higher number may follow.                                    *)
LEMMA IncreasingAppend ==
    ASSUME NEW s \in Seq(Nat), NEW t \in Seq(Nat), NEW e \in Nat, Increasing(s \o t),
           \A x \in ToSet(s) \cup ToSet(t) : x < e
    PROVE  Increasing(s \o Append(t, e))
<1> DEFINE u == s \o t
           v == s \o Append(t, e)
<1>1. /\ u \in Seq(Nat) /\ v \in Seq(Nat) /\ Len(v) = Len(u) + 1
      /\ Len(u) \in Nat /\ DOMAIN u = 1..Len(u)
      /\ v[Len(u) + 1] = e
      /\ \A i \in 1..Len(u) : v[i] = u[i]
  OBVIOUS
<1>2. \A i \in 1..Len(u) : u[i] < e
  <2>1. \A i \in 1..Len(u) : u[i] \in ToSet(u)
    <3> HIDE DEF u
    <3> QED  BY <1>1, Zenon DEF ToSet
  <2>2. ToSet(u) = ToSet(s) \cup ToSet(t)
    BY ElementsOf
  <2>3. QED
    BY <2>1, <2>2, Zenon
<1> HIDE DEF u, v
<1>3. SUFFICES ASSUME NEW i \in 1..Len(v), NEW j \in 1..Len(v), i < j
               PROVE  v[i] < v[j]
  BY DEF Increasing, v
<1>4. i \in 1..Len(u)
  BY <1>1, <1>3
<1>5. CASE j \in 1..Len(u)
  BY <1>1, <1>3, <1>4, <1>5 DEF Increasing, u
<1>6. CASE j = Len(u) + 1
  BY <1>1, <1>2, <1>4, <1>6
<1>7. j \in 1..Len(u) \/ j = Len(u) + 1
  BY <1>1
<1>8. QED
  BY <1>5, <1>6, <1>7, Zenon

(* An increasing sequence has no repetitions.                                *)
LEMMA IncreasingLength ==
    ASSUME NEW s \in Seq(Nat), Increasing(s)
    PROVE  IsFiniteSet(ToSet(s)) /\ Cardinality(ToSet(s)) = Len(s)
<1> DEFINE f == [i \in 1..Len(s) |-> s[i]]
<1>1. f \in [1..Len(s) -> ToSet(s)]
  BY DEF ToSet
<1>2. \A i, j \in 1..Len(s) : f[i] = f[j] => i = j
  <2>1. \A i \in 1..Len(s) : f[i] = s[i] /\ s[i] \in Nat
    OBVIOUS
  <2>2. QED
    BY <2>1 DEF Increasing
<1>3. \A e \in ToSet(s) : \E i \in 1..Len(s) : f[i] = e
  BY DEF ToSet
<1>4. f \in Bijection(1..Len(s), ToSet(s))
  BY <1>1, <1>2, <1>3 DEF Bijection, Injection, Surjection, IsInjective
<1>5. ExistsBijection(1..Len(s), ToSet(s)) /\ Len(s) \in Nat
  BY <1>4 DEF ExistsBijection
<1>6. QED
  BY <1>5, FS_CountingElements, FS_NatBijection

-----------------------------------------------------------------------------
(* Sending the queue.                                                        *)

(* Whatever a flush of a batch comes to, the batch is off the queue, counted *)
(* once, and decided by the server if it was written; n is the number of     *)
(* calls so far (flushAppendBufferedLocked with appendData).                 *)
LEMMA Flushed ==
    ASSUME NEW n \in 0..MaxCalls, NEW batch \in Seq(RowNumbers), NEW check,
           TypeOK, Decided, Increasing(wire \o batch),
           ToSet(wire) \cup ToSet(batch) \cup refused = 1..n,
           n = Len(batch) + sentCount + failCnt,
           FlushOk(batch) \/ FlushFails(batch, check)
    PROVE  /\ pending' = <<>> /\ expired' = FALSE /\ up' \in BOOLEAN
           /\ wire' \in Seq(RowNumbers) /\ Increasing(wire')
           /\ ToSet(wire') \cup refused' = 1..n
           /\ Decided'
           /\ sentCount' \in 0..MaxCalls /\ failCnt' \in 0..MaxCalls
           /\ n = sentCount' + failCnt'
<1> USE AppendAssumption DEF RowNumbers
<1>1. /\ wire \in Seq(RowNumbers) /\ wire \in Seq(Nat) /\ batch \in Seq(Nat)
      /\ Len(batch) \in Nat /\ sentCount \in 0..MaxCalls /\ failCnt \in 0..MaxCalls
  BY DEF TypeOK
<1>2. /\ Increasing(wire) /\ ToSet(wire) \cap ToSet(batch) = {}
      /\ ToSet(wire \o batch) = ToSet(wire) \cup ToSet(batch)
      /\ wire \o batch \in Seq(RowNumbers)
  BY <1>1, IncreasingFront, ElementsOf
<1>3. pending' = <<>> /\ expired' = FALSE
  BY DEF FlushOk, FlushFails, QueueAfterFlush
<1>4. up' \in BOOLEAN
  <2>1. up \in BOOLEAN
    BY DEF TypeOK
  <2>2. QED
    BY <2>1, Zenon DEF FlushOk, FlushFails
<1>5. \/ sentCount' = sentCount + Len(batch) /\ failCnt' = failCnt
      \/ sentCount' = sentCount /\ failCnt' = failCnt + Len(batch)
  BY Zenon DEF FlushOk, FlushFails, FailCounted
<1>6. /\ sentCount' \in 0..MaxCalls /\ failCnt' \in 0..MaxCalls
      /\ n = sentCount' + failCnt'
  BY <1>1, <1>5
<1>7. \/ Processes(batch) /\ refused' = refused
      \/ Processes(batch) /\ refused' = refused \cup ToSet(batch)
      \/ /\ wire' = wire /\ accepted' = accepted /\ rejected' = rejected
         /\ refused' = refused \cup ToSet(batch)
  BY Zenon DEF FlushOk, FlushFails, FailCounted
<1>8. CASE Processes(batch)
  <2>1. wire' = wire \o batch /\ ToSet(wire') = ToSet(wire) \cup ToSet(batch)
    BY <1>2, <1>8 DEF Processes
  <2>2. PICK good \in SUBSET ToSet(batch) :
           /\ accepted' = accepted \cup good
           /\ rejected' = rejected \cup (ToSet(batch) \ good)
    BY <1>8, Zenon DEF Processes
  <2>3. Decided'
    BY <1>2, <2>1, <2>2 DEF Decided
  <2>4. ToSet(wire') \cup refused' = 1..n
    BY <1>7, <2>1
  <2>5. QED
    BY <1>2, <1>3, <1>4, <1>6, <2>1, <2>3, <2>4
<1>9. CASE /\ wire' = wire /\ accepted' = accepted /\ rejected' = rejected
           /\ refused' = refused \cup ToSet(batch)
  BY <1>1, <1>2, <1>3, <1>4, <1>6, <1>9 DEF Decided
<1>10. QED
  BY <1>7, <1>8, <1>9

(* The server's two counts add up to the rows it got.                        *)
LEMMA CountsAddUp ==
    ASSUME NEW w \in Seq(RowNumbers), Increasing(w), NEW a, NEW r,
           a \cap r = {}, a \cup r = ToSet(w)
    PROVE  /\ Cardinality(a) \in 0..MaxCalls /\ Cardinality(r) \in 0..MaxCalls
           /\ Cardinality(a) + Cardinality(r) = Len(w)
<1> USE AppendAssumption DEF RowNumbers
<1>1. w \in Seq(Nat) /\ ToSet(w) \subseteq 1..MaxCalls
  BY ElementsOf
<1>2. IsFiniteSet(ToSet(w)) /\ Cardinality(ToSet(w)) = Len(w)
  BY <1>1, IncreasingLength
<1>3. IsFiniteSet(1..MaxCalls) /\ Cardinality(1..MaxCalls) = MaxCalls
  BY FS_Interval
<1>4. /\ IsFiniteSet(a) /\ Cardinality(a) <= MaxCalls
      /\ IsFiniteSet(r) /\ Cardinality(r) <= MaxCalls
  BY <1>1, <1>3, FS_Subset
<1>5. Cardinality(a) \in Nat /\ Cardinality(r) \in Nat
  BY <1>4, FS_CardinalityType
<1>6. Cardinality(ToSet(w)) = Cardinality(a) + Cardinality(r)
  <2>1. Cardinality(a \cup r) = Cardinality(a) + Cardinality(r) - Cardinality(a \cap r)
    BY <1>4, FS_Union, Zenon
  <2>2. Cardinality(a \cup r) = Cardinality(ToSet(w)) /\ Cardinality(a \cap r) = 0
    BY FS_EmptySet, Zenon
  <2>3. QED
    BY <1>5, <2>1, <2>2
<1>7. QED
  BY <1>2, <1>4, <1>5, <1>6

(* The counts made up locally are numbers of rows (AppendClose).             *)
LEMMA LocalCountsType ==
    ASSUME NEW m \in 0..MaxCalls, NEW n \in 0..MaxCalls
    PROVE  /\ LocalCounts(m, n) \in [success: 0..MaxCalls, fail: 0..MaxCalls, ok: BOOLEAN]
           /\ ~LocalCounts(m, n).ok
BY AppendAssumption DEF LocalCounts

-----------------------------------------------------------------------------
(* The inductive invariant.                                                  *)

(* A step that leaves the rows, the counters and the result alone.           *)
LEMMA RestUnchanged ==
    ASSUME IInv, UNCHANGED <<calls, pending, counters, wire, accepted, rejected, refused,
                             phase, result>>,
           expired' \in BOOLEAN, up' \in BOOLEAN
    PROVE  IInv'
<1>1. TypeOK'
  BY DEF IInv, TypeOK, counters
<1>2. Accounted' /\ CleanClose' /\ InOrder' /\ Covered' /\ Decided' /\ QueueShort'
      /\ ResultAtClose' /\ addCount' <= calls'
  BY DEF IInv, counters, Accounted, CleanClose, InOrder, Covered, Decided, QueueShort,
         ResultAtClose
<1>3. QED
  BY <1>1, <1>2 DEF IInv

(* What a flush establishes, with n calls so far.                            *)
Sent(n) ==
    /\ pending' = <<>> /\ expired' \in BOOLEAN /\ up' \in BOOLEAN
    /\ wire' \in Seq(RowNumbers) /\ Increasing(wire')
    /\ ToSet(wire') \cup refused' = 1..n
    /\ Decided'
    /\ sentCount' \in 0..MaxCalls /\ failCnt' \in 0..MaxCalls
    /\ n = sentCount' + failCnt'

(* With the queue empty, a truthful result keeps the invariant.              *)
LEMMA AfterSending ==
    ASSUME IInv, Sent(calls'),
           calls' \in 0..MaxCalls, addCount' \in 0..MaxCalls, addCount' <= calls',
           phase' \in {"open", "closed"},
           result' \in [success: 0..MaxCalls, fail: 0..MaxCalls, ok: BOOLEAN],
           phase' = "open" => ~result'.ok,
           result'.ok => result'.success + result'.fail = Len(wire')
    PROVE  IInv'
<1> USE AppendAssumption DEF RowNumbers
<1>1. /\ pending' \in Seq(RowNumbers) /\ Len(pending') = 0 /\ wire' \o pending' = wire'
      /\ ToSet(pending') = {}
  BY ElementsOf DEF Sent
<1>2. /\ refused' \subseteq RowNumbers
      /\ accepted' \subseteq RowNumbers /\ rejected' \subseteq RowNumbers
  <2>1. ToSet(wire') \subseteq RowNumbers
    BY ElementsOf DEF Sent
  <2>2. accepted' \cup rejected' = ToSet(wire') /\ ToSet(wire') \cup refused' = 1..calls'
    BY Zenon DEF Sent, Decided
  <2>3. 1..calls' \subseteq RowNumbers
    OBVIOUS
  <2>4. QED
    BY <2>1, <2>2, <2>3, Zenon
<1>3. TypeOK'
  <2>1. Len(pending') <= BatchRows
    BY <1>1
  <2>2. QED
    BY <1>1, <1>2, <2>1, Zenon DEF TypeOK, Sent
<1>4. InOrder' /\ Covered'
  BY <1>1 DEF Sent, InOrder, Covered
<1>5. QueueShort' /\ Accounted'
  BY <1>1 DEF Sent, QueueShort, Accounted
<1>6. CleanClose' /\ ResultAtClose'
  BY DEF Sent, CleanClose, ResultAtClose
<1>7. QED
  BY <1>3, <1>4, <1>5, <1>6 DEF IInv, Sent

(* A flush sends the queue.                                                  *)
LEMMA FlushSends ==
    ASSUME IInv, NEW n \in 0..MaxCalls, NEW batch \in Seq(RowNumbers), NEW check,
           Increasing(wire \o batch),
           ToSet(wire) \cup ToSet(batch) \cup refused = 1..n,
           n = Len(batch) + sentCount + failCnt,
           FlushOk(batch) \/ FlushFails(batch, check)
    PROVE  Sent(n)
BY Flushed DEF Sent, IInv

(* The invariant holds at first and every action keeps it.                   *)
THEOREM Invariance == Spec => []IInv
<1> USE AppendAssumption DEF RowNumbers
<1>1. Init => IInv
  <2> SUFFICES ASSUME Init  PROVE IInv
    OBVIOUS
  <2>1. ToSet(<<>>) = {} /\ <<>> \in Seq(RowNumbers) /\ <<>> \o <<>> = <<>>
    BY DEF ToSet
  <2>2. TypeOK
    <3>1. up \in BOOLEAN /\ expired \in BOOLEAN
      BY Zenon DEF Init
    <3>2. QED
      BY <2>1, <3>1 DEF Init, TypeOK, NoResult
  <2>3. Accounted /\ InOrder /\ Covered /\ Decided /\ QueueShort
    BY <2>1 DEF Init, Accounted, InOrder, Covered, Decided, QueueShort, Increasing
  <2>4. CleanClose /\ ResultAtClose /\ addCount <= calls
    BY DEF Init, CleanClose, ResultAtClose, NoResult
  <2>5. QED
    BY <2>2, <2>3, <2>4 DEF IInv
<1>2. IInv /\ [Next]_vars => IInv'
  <2> SUFFICES ASSUME IInv, [Next]_vars  PROVE IInv'
    OBVIOUS
  <2>0. /\ TypeOK /\ Accounted /\ CleanClose
        /\ InOrder /\ Covered /\ Decided /\ QueueShort /\ ResultAtClose
        /\ addCount <= calls
    BY DEF IInv
  <2>t. /\ calls \in 0..MaxCalls /\ addCount \in 0..MaxCalls
        /\ sentCount \in 0..MaxCalls /\ failCnt \in 0..MaxCalls
        /\ pending \in Seq(RowNumbers) /\ wire \in Seq(RowNumbers)
        /\ expired \in BOOLEAN /\ up \in BOOLEAN
        /\ refused \subseteq RowNumbers
    BY <2>0, Zenon DEF TypeOK
  <2>1. CASE AppendBad
    <3>1. /\ calls' = calls + 1 /\ failCnt' = failCnt + 1
          /\ calls' \in 0..MaxCalls
          /\ refused' = refused \cup {calls + 1}
          /\ UNCHANGED <<pending, expired, addCount, sentCount, wire, accepted, rejected, up,
                         phase, result>>
          /\ phase = "open"
      BY <2>1, <2>t DEF AppendBad, buffer, server
    <3>2. Accounted' /\ failCnt' \in 0..MaxCalls
      BY <2>0, <2>t, <3>1 DEF Accounted
    <3>3. TypeOK'
      BY <2>0, <2>t, <3>1, <3>2 DEF TypeOK
    <3>4. InOrder' /\ Decided' /\ QueueShort' /\ ResultAtClose' /\ CleanClose'
      BY <2>0, <3>1 DEF InOrder, Decided, QueueShort, ResultAtClose, CleanClose
    <3>5. Covered' /\ addCount' <= calls'
      BY <2>0, <2>t, <3>1 DEF Covered
    <3>6. QED
      BY <3>2, <3>3, <3>4, <3>5 DEF IInv
  <2>2. CASE AppendRow
    <3> DEFINE batch == Append(pending, calls + 1)
               check == CheckDue(addCount + 1)
    <3>1. /\ calls' = calls + 1 /\ addCount' = addCount + 1
          /\ calls' \in 0..MaxCalls /\ addCount' \in 0..MaxCalls /\ addCount' <= calls'
          /\ UNCHANGED <<phase, result>> /\ phase = "open"
      BY <2>2, <2>0, <2>t DEF AppendRow
    <3>2. batch \in Seq(RowNumbers) /\ Len(batch) = Len(pending) + 1
      BY <2>t, <3>1
    <3>3. Increasing(wire \o batch)
      <4>1. \A x \in ToSet(wire) \cup ToSet(pending) : x < calls + 1
        BY <2>0, <2>t DEF Covered
      <4>2. wire \in Seq(Nat) /\ pending \in Seq(Nat) /\ calls + 1 \in Nat
        BY <2>t
      <4>3. QED
        BY <4>1, <4>2, <2>0, IncreasingAppend DEF InOrder
    <3>4. ToSet(wire) \cup ToSet(batch) \cup refused = 1..calls'
      <4>1. ToSet(batch) = ToSet(pending) \cup {calls + 1}
        BY <2>t, <3>1, ElementsOf, SMTT(40)
      <4>2. 1..(calls + 1) = (1..calls) \cup {calls + 1}
        BY <2>t
      <4>3. QED
        BY <4>1, <4>2, <2>0, <3>1 DEF Covered
    <3>5. calls' = Len(batch) + sentCount + failCnt
      BY <2>0, <2>t, <3>1, <3>2 DEF Accounted
    <3>6. ~result'.ok /\ result' \in [success: 0..MaxCalls, fail: 0..MaxCalls, ok: BOOLEAN]
          /\ phase' \in {"open", "closed"}
      BY <2>0, <3>1 DEF ResultAtClose, TypeOK
    <3>7. \/ FlushOk(batch) \/ FlushFails(batch, check)
          \/ /\ ~BatchFull(batch) /\ pending' = batch
             /\ UNCHANGED <<expired, sentCount, failCnt, refused, server>>
      <4> HIDE DEF batch, check
      <4> QED  BY <2>2, Zenon DEF AppendRow, batch, check
    <3> HIDE DEF batch, check
    <3>8. CASE FlushOk(batch) \/ FlushFails(batch, check)
      <4>1. Sent(calls')
        BY <3>1, <3>2, <3>3, <3>4, <3>5, <3>8, FlushSends
      <4>2. QED
        BY <4>1, <3>1, <3>6, AfterSending
    <3>9. CASE /\ ~BatchFull(batch) /\ pending' = batch
               /\ UNCHANGED <<expired, sentCount, failCnt, refused, server>>
      <4>1. UNCHANGED <<expired, sentCount, failCnt, refused, wire, accepted, rejected, up>>
        BY <3>9 DEF server
      <4>2. QueueShort'
        BY <2>t, <3>2, <3>9 DEF QueueShort, BatchFull
      <4>3. TypeOK'
        BY <2>0, <3>1, <3>2, <3>9, <4>1, <4>2 DEF TypeOK, QueueShort
      <4>4. InOrder' /\ Covered' /\ Decided' /\ Accounted'
        BY <2>0, <3>3, <3>4, <3>5, <3>9, <4>1 DEF InOrder, Covered, Decided, Accounted
      <4>5. CleanClose' /\ ResultAtClose'
        BY <3>6 DEF CleanClose, ResultAtClose
      <4>6. QED
        BY <3>1, <4>2, <4>3, <4>4, <4>5 DEF IInv
    <3>10. QED
      BY <3>7, <3>8, <3>9
  <2>q. /\ Increasing(wire \o pending)
        /\ ToSet(wire) \cup ToSet(pending) \cup refused = 1..calls
        /\ calls = Len(pending) + sentCount + failCnt
    BY <2>0 DEF InOrder, Covered, Accounted
  <2>3. CASE Flush
    <3>1. /\ UNCHANGED <<calls, addCount, phase, result>> /\ phase = "open"
          /\ FlushOk(pending) \/ FlushFails(pending, FALSE)
      BY <2>3 DEF Flush
    <3>2. ~result'.ok /\ result' \in [success: 0..MaxCalls, fail: 0..MaxCalls, ok: BOOLEAN]
          /\ phase' \in {"open", "closed"}
      BY <2>0, <3>1 DEF ResultAtClose, TypeOK
    <3>3. Sent(calls')
      BY <2>t, <2>q, <3>1, FlushSends
    <3>4. QED
      BY <2>0, <2>t, <3>1, <3>2, <3>3, AfterSending
  <2>4. CASE Close
    <3> DEFINE Local == result' = LocalCounts(sentCount', failCnt')
               Server == result' = [success |-> Cardinality(accepted'),
                                    fail |-> Cardinality(rejected'), ok |-> TRUE]
               Still == UNCHANGED <<pending, expired, sentCount, failCnt, refused, wire,
                                    accepted, rejected>>
    <3>1. UNCHANGED <<calls, addCount>> /\ phase' = "closed"
      BY <2>4 DEF Close
    <3>2. /\ \/ FlushOk(pending) \/ FlushFails(pending, FALSE)
             \/ pending = <<>> /\ Still /\ up' \in BOOLEAN
          /\ Local \/ Server
      BY <2>4, <2>t, Zenon DEF Close, buffer, server
    <3>3. Sent(calls')
      <4>1. CASE FlushOk(pending) \/ FlushFails(pending, FALSE)
        BY <2>t, <2>q, <3>1, <4>1, FlushSends
      <4>2. CASE pending = <<>> /\ Still /\ up' \in BOOLEAN
        <5>1. ToSet(pending) = {} /\ Len(pending) = 0 /\ wire \o pending = wire
          BY <2>t, <4>2, ElementsOf
        <5>2. Increasing(wire') /\ ToSet(wire') \cup refused' = 1..calls'
          BY <2>q, <3>1, <4>2, <5>1
        <5>3. calls' = sentCount' + failCnt'
          BY <2>t, <2>q, <3>1, <4>2, <5>1
        <5>4. Decided'
          BY <2>0, <4>2 DEF Decided
        <5>5. QED
          BY <2>t, <4>2, <5>2, <5>3, <5>4, Zenon DEF Sent
      <4>3. QED
        BY <3>2, <4>1, <4>2
    <3>4. /\ result' \in [success: 0..MaxCalls, fail: 0..MaxCalls, ok: BOOLEAN]
          /\ result'.ok => result'.success + result'.fail = Len(wire')
      <4>1. CASE Local
        BY <3>3, <4>1, LocalCountsType DEF Sent
      <4>2. CASE Server
        <5>1. /\ Cardinality(accepted') \in 0..MaxCalls /\ Cardinality(rejected') \in 0..MaxCalls
              /\ Cardinality(accepted') + Cardinality(rejected') = Len(wire')
          BY <3>3, CountsAddUp DEF Sent, Decided
        <5>2. QED
          BY <4>2, <5>1
      <4>3. QED
        BY <3>2, <4>1, <4>2
    <3>5. QED
      BY <2>0, <2>t, <3>1, <3>3, <3>4, AfterSending
  <2>5. CASE DelayPasses
    BY <2>5, <2>t, RestUnchanged DEF DelayPasses, server
  <2>6. CASE ConnectionLost
    BY <2>6, <2>t, RestUnchanged DEF ConnectionLost, buffer
  <2>7. CASE UNCHANGED vars
    BY <2>7, <2>t, RestUnchanged DEF vars, buffer, counters, server
  <2>8. QED
    BY <2>1, <2>2, <2>3, <2>4, <2>5, <2>6, <2>7 DEF Next
<1>3. QED
  BY <1>1, <1>2, PTL DEF Spec

(* No step, however its flush fails, leaves the types.                       *)
THEOREM TypeCorrect == Spec => []TypeOK
BY Invariance, PTL DEF IInv

(* Every row Append takes is queued, sent or counted as failed, once, for    *)
(* any batch size and any rate of response checks.                           *)
THEOREM EveryRowAccounted == Spec => []Accounted
BY Invariance, PTL DEF IInv

(* Rows are written in the order of the calls and never twice.               *)
THEOREM RowsInOrder == Spec => []WireInOrder
<1>1. IInv => WireInOrder
  <2> SUFFICES ASSUME IInv  PROVE WireInOrder
    OBVIOUS
  <2>1. wire \in Seq(Nat) /\ pending \in Seq(Nat)
    BY AppendAssumption DEF IInv, TypeOK, RowNumbers
  <2>2. QED
    BY <2>1, IncreasingFront DEF IInv, InOrder, WireInOrder, Increasing
<1>2. QED
  BY <1>1, Invariance, PTL

(* After a Close without error every row is at the server or was refused,    *)
(* and the server's counts cover the rows sent.                              *)
THEOREM CloseLeavesNothing == Spec => []CleanClose
BY Invariance, PTL DEF IInv
=============================================================================
