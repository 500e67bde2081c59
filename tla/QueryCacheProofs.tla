-------------------------- MODULE QueryCacheProofs --------------------------
(***************************************************************************)
(* Proofs about QueryCache for any query texts, caps, numbers of           *)
(* statements and catalog generations.                                     *)
(***************************************************************************)
EXTENDS QueryCache, FiniteSetTheorems, TLAPS

(* Statements are prepared for a query text, and a query under way has one.  *)
TextsKnown ==
    /\ \A s \in 1..created : stKey[s] \in Keys
    /\ sess.pc \in {"lookup", "check", "new", "run", "parking"} => sess.key \in Keys

(* Nothing is prepared under a generation to come.                           *)
GenerationsPast ==
    /\ sess.gen <= gen
    /\ \A s \in 1..created : stGen[s] <= gen

(* Between the bump and the drain, and after close, every statement is of an *)
(* older generation, so that releaseQueryStmt closes it.                     *)
AllStale == sess.pc = "drain" \/ closed => \A s \in 1..created : stGen[s] < gen

(* Only between the bump and the drain does the cache hold stale statements. *)
FreshUnlessDraining == sess.pc # "drain" => \A s \in Cached : stGen[s] = gen

EmptyAfterClose == closed => Cached = {}

(* The catalog is invalidated on an open connection, below the bound.        *)
Invalidating ==
    /\ sess.pc = "bump" => gen < MaxGen
    /\ sess.pc \in {"bump", "drain"} => ~closed

IInv ==
    /\ TypeOK /\ OneOwner /\ CapsHold /\ IsFiniteSet(Slots)
    /\ TextsKnown /\ GenerationsPast /\ AllStale /\ FreshUnlessDraining
    /\ EmptyAfterClose /\ Invalidating

-----------------------------------------------------------------------------
(* What moves in and out of the cache.                                       *)

(* The bounds are natural numbers.                                           *)
LEMMA Bounds ==
    /\ PoolCap \in Nat /\ PerKeyCap \in Nat /\ MaxStmts \in Nat /\ MaxGen \in Nat
    /\ NoKey \notin Keys /\ Reused \subseteq Keys
BY QueryCacheAssumption, Zenon

(* A statement is cached when it is in the fast slot or in a pool.           *)
LEMMA CachedIs ==
    ASSUME NEW s
    PROVE  s \in Cached <=> \/ s = fast.stmt /\ s # NoStmt
                           \/ \E k \in Keys : \E i \in DOMAIN pool[k] : s = pool[k][i]
BY DEF Cached, ToSet

(* The same in the next state.                                               *)
LEMMA CachedIsNext ==
    ASSUME NEW s
    PROVE  s \in Cached' <=> \/ s = fast'.stmt /\ s # NoStmt
                            \/ \E k \in Keys : \E i \in DOMAIN pool'[k] : s = pool'[k][i]
BY DEF Cached, ToSet

(* A slot of a pool, in this state and in the next.                          *)
LEMMA SlotIs ==
    ASSUME NEW p
    PROVE  /\ p \in Slots <=> \E k \in Keys : \E i \in DOMAIN pool[k] : p = <<k, i>>
           /\ p \in Slots' <=> \E k \in Keys : \E i \in DOMAIN pool'[k] : p = <<k, i>>
BY DEF Slots

(* The fast slot gives its statement away.                                   *)
LEMMA FastTaken ==
    ASSUME TypeOK, CachedOnce, fast.stmt # NoStmt,
           fast' = [key |-> NoKey, stmt |-> NoStmt], pool' = pool
    PROVE  fast.stmt \in Cached /\ Cached' = Cached \ {fast.stmt} /\ CachedOnce'
<1>1. \A k \in Keys : \A i \in DOMAIN pool[k] : pool[k][i] # NoStmt
  BY Bounds DEF TypeOK, Stmts, NoStmt
<1>2. fast'.stmt = NoStmt
  OBVIOUS
<1>3. CachedOnce'
  BY <1>1, <1>2 DEF CachedOnce
<1>4. \A s : s \in Cached' <=> s \in Cached \ {fast.stmt}
  BY <1>2, CachedIs, CachedIsNext DEF CachedOnce
<1>5. fast.stmt \in Cached
  BY CachedIs
<1>6. QED
  BY <1>3, <1>4, <1>5

(* A statement goes into the empty fast slot.                                *)
LEMMA FastFilled ==
    ASSUME TypeOK, CachedOnce, fast.stmt = NoStmt, NEW s \in Stmts, s \notin Cached, NEW k,
           fast' = [key |-> k, stmt |-> s], pool' = pool
    PROVE  Cached' = Cached \cup {s} /\ CachedOnce'
<1>1. fast'.stmt = s /\ s # NoStmt
  BY Bounds DEF Stmts, NoStmt
<1>2. CachedOnce'
  BY <1>1, CachedIs DEF CachedOnce
<1>3. \A x : x \in Cached' <=> x \in Cached \cup {s}
  BY <1>1, CachedIs, CachedIsNext
<1>4. QED
  BY <1>2, <1>3

(* A pool gives its last statement away.                                     *)
LEMMA PoolTaken ==
    ASSUME TypeOK, CachedOnce, NEW k \in Keys, pool[k] # <<>>,
           pool' = PoolAfterTake(k), fast' = fast
    PROVE  /\ Last(pool[k]) \in Cached /\ Cached' = Cached \ {Last(pool[k])}
           /\ Last(pool[k]) \in Stmts
           /\ CachedOnce' /\ pool' \in [Keys -> Seq(Stmts)]
           /\ <<k, Len(pool[k])>> \in Slots
           /\ Slots' = Slots \ {<<k, Len(pool[k])>>}
           /\ \A l \in Keys : Len(pool'[l]) <= Len(pool[l])
<1> DEFINE n == Len(pool[k])
<1>0. \A l \in Keys : pool[l] \in Seq(Stmts)
  BY DEF TypeOK
<1>1. /\ n \in Nat \ {0} /\ DOMAIN pool[k] = 1..n
      /\ Last(pool[k]) = pool[k][n] /\ Last(pool[k]) \in Stmts
  BY <1>0 DEF Last
<1>2. /\ Front(pool[k]) \in Seq(Stmts) /\ Len(Front(pool[k])) = n - 1
      /\ DOMAIN Front(pool[k]) = 1..(n - 1)
      /\ \A i \in 1..(n - 1) : Front(pool[k])[i] = pool[k][i]
  BY <1>0, <1>1 DEF Front
<1>3. /\ \A l \in Keys : l # k => pool'[l] = pool[l]
      /\ pool'[k] = Front(pool[k])
      /\ pool' \in [Keys -> Seq(Stmts)]
  BY <1>0, <1>2 DEF PoolAfterTake, TypeOK
<1>4. \A l \in Keys : \A i \in DOMAIN pool'[l] :
        i \in DOMAIN pool[l] /\ pool'[l][i] = pool[l][i] /\ (l = k => i # n)
  BY <1>1, <1>2, <1>3
<1>5. \A l \in Keys : \A i \in DOMAIN pool[l] :
        i \in DOMAIN pool'[l] \/ (l = k /\ i = n)
  BY <1>1, <1>2, <1>3
<1> HIDE DEF n
<1>6. CachedOnce'
  BY <1>4 DEF CachedOnce
<1>7. n \in DOMAIN pool[k]
  BY <1>1
<1>8. Last(pool[k]) \in Cached
  BY <1>1, <1>7, CachedIs
<1>9. \A x : x \in Cached' <=> x \in Cached \ {Last(pool[k])}
  <2>1. \A x : x \in Cached' => x \in Cached /\ x # Last(pool[k])
    BY <1>1, <1>4, <1>7, CachedIs, CachedIsNext DEF CachedOnce
  <2>2. \A x : x \in Cached /\ x # Last(pool[k]) => x \in Cached'
    BY <1>1, <1>4, <1>5, CachedIs, CachedIsNext
  <2>3. QED
    BY <2>1, <2>2
<1>10. <<k, n>> \in Slots /\ Slots' = Slots \ {<<k, n>>}
  <2>1. <<k, n>> \in Slots
    BY <1>7, SlotIs
  <2>2. \A p : p \in Slots' <=> p \in Slots /\ p # <<k, n>>
    BY <1>4, <1>5, SlotIs
  <2>3. QED
    BY <2>1, <2>2
<1>11. \A l \in Keys : Len(pool'[l]) <= Len(pool[l])
  BY <1>0, <1>1, <1>2, <1>3 DEF n
<1>12. QED
  BY <1>1, <1>3, <1>6, <1>8, <1>9, <1>10, <1>11 DEF n

(* A pool takes a statement.                                                 *)
LEMMA PoolFilled ==
    ASSUME TypeOK, CachedOnce, NEW k \in Keys, NEW s \in Stmts, s \notin Cached,
           pool' = [pool EXCEPT ![k] = Append(@, s)], fast' = fast
    PROVE  /\ Cached' = Cached \cup {s}
           /\ CachedOnce' /\ pool' \in [Keys -> Seq(Stmts)]
           /\ <<k, Len(pool[k]) + 1>> \notin Slots
           /\ Slots' = Slots \cup {<<k, Len(pool[k]) + 1>>}
           /\ \A l \in Keys : l # k => pool'[l] = pool[l]
           /\ Len(pool'[k]) = Len(pool[k]) + 1
<1> DEFINE n == Len(pool[k]) + 1
<1>0. \A l \in Keys : pool[l] \in Seq(Stmts)
  BY DEF TypeOK
<1>1. /\ n \in Nat /\ DOMAIN pool[k] = 1..(n - 1)
      /\ Append(pool[k], s) \in Seq(Stmts) /\ Len(Append(pool[k], s)) = n
      /\ DOMAIN Append(pool[k], s) = 1..n /\ Append(pool[k], s)[n] = s
      /\ \A i \in 1..(n - 1) : Append(pool[k], s)[i] = pool[k][i]
  BY <1>0
<1>2. /\ \A l \in Keys : l # k => pool'[l] = pool[l]
      /\ pool'[k] = Append(pool[k], s)
      /\ pool' \in [Keys -> Seq(Stmts)]
  BY <1>0, <1>1 DEF TypeOK
<1>3. \A l \in Keys : \A i \in DOMAIN pool[l] :
        i \in DOMAIN pool'[l] /\ pool'[l][i] = pool[l][i] /\ (l = k => i # n)
  BY <1>1, <1>2
<1>4. \A l \in Keys : \A i \in DOMAIN pool'[l] :
        \/ i \in DOMAIN pool[l] /\ pool'[l][i] = pool[l][i]
        \/ l = k /\ i = n
  BY <1>1, <1>2
<1>5. n \in DOMAIN pool'[k] /\ pool'[k][n] = s
  BY <1>1, <1>2
<1> HIDE DEF n
<1>6. s # fast.stmt /\ \A l \in Keys : \A i \in DOMAIN pool[l] : pool[l][i] # s
  BY CachedIs, Bounds DEF Stmts, NoStmt
<1>7. CachedOnce'
  BY <1>4, <1>5, <1>6 DEF CachedOnce
<1>8. \A x : x \in Cached' <=> x \in Cached \cup {s}
  <2>1. \A x : x \in Cached' => x \in Cached \/ x = s
    BY <1>4, <1>5, CachedIs, CachedIsNext
  <2>2. \A x : x \in Cached \/ x = s => x \in Cached'
    BY <1>3, <1>5, CachedIs, CachedIsNext
  <2>3. QED
    BY <2>1, <2>2
<1>9. <<k, n>> \notin Slots /\ Slots' = Slots \cup {<<k, n>>}
  <2>1. <<k, n>> \notin Slots
    BY <1>3, SlotIs
  <2>2. \A p : p \in Slots' <=> p \in Slots \/ p = <<k, n>>
    BY <1>3, <1>4, <1>5, SlotIs
  <2>3. QED
    BY <2>1, <2>2
<1>10. QED
  BY <1>1, <1>2, <1>7, <1>8, <1>9 DEF n

-----------------------------------------------------------------------------
(* The inductive invariant.                                                  *)

(* The parts of the invariant besides types, owners and caps.                *)
History ==
    /\ TextsKnown /\ GenerationsPast /\ AllStale /\ FreshUnlessDraining
    /\ EmptyAfterClose /\ Invalidating

(* A step that leaves the cache alone.                                       *)
LEMMA CacheUntouched ==
    ASSUME IInv, UNCHANGED cacheVars
    PROVE  /\ Cached' = Cached /\ CachedOnce' /\ CapsHold' /\ IsFiniteSet(Slots)'
           /\ fast' = fast /\ pool' = pool /\ poolCount' = poolCount
<1>1. fast' = fast /\ pool' = pool /\ poolCount' = poolCount
  BY DEF cacheVars
<1>2. Cached' = Cached /\ Slots' = Slots
  BY <1>1 DEF Cached, Slots
<1>3. CachedOnce' /\ CapsHold' /\ IsFiniteSet(Slots)'
  BY <1>1, <1>2 DEF IInv, OneOwner, CachedOnce, CapsHold
<1>4. QED
  BY <1>1, <1>2, <1>3

(* The invariant holds at first and every action keeps it.                   *)
THEOREM Invariance == Spec => []IInv
<1> USE Bounds
<1>1. Init => IInv
  <2> SUFFICES ASSUME Init  PROVE IInv
    OBVIOUS
  <2>1. \A k \in Keys : pool[k] = <<>> /\ DOMAIN pool[k] = {} /\ Len(pool[k]) = 0
    BY DEF Init
  <2>2. Cached = {} /\ Slots = {} /\ CachedOnce
    <3>1. fast.stmt = NoStmt
      BY DEF Init
    <3>2. QED
      BY <2>1, <3>1, CachedIs, SlotIs DEF CachedOnce
  <2>3. closed \in BOOLEAN
    BY Zenon DEF Init
  <2>4. TypeOK
    BY <2>3 DEF Init, TypeOK, Idle, Stmts, NoStmt, Ops, Sessions
  <2>5. OneOwner
    BY <2>2 DEF Init, OneOwner, InUse, Idle
  <2>6. CapsHold /\ IsFiniteSet(Slots)
    BY <2>1, <2>2, FS_EmptySet DEF Init, CapsHold
  <2>7. History
    BY <2>2 DEF Init, History, Idle, TextsKnown, GenerationsPast, AllStale,
               FreshUnlessDraining, EmptyAfterClose, Invalidating
  <2>8. QED
    BY <2>4, <2>5, <2>6, <2>7 DEF IInv, History
<1>2. IInv /\ [Next]_vars => IInv'
  <2> SUFFICES ASSUME IInv, [Next]_vars  PROVE IInv'
    OBVIOUS
  <2>0. TypeOK /\ OneOwner /\ CapsHold /\ IsFiniteSet(Slots) /\ History
    BY DEF IInv, History
  <2>c. closed \in BOOLEAN
    BY <2>0, Zenon DEF TypeOK
  <2>1. ASSUME NEW op \in Ops, NEW k \in Keys, Begin(op, k)  PROVE IInv'
    <3>1. /\ UNCHANGED <<gen, created, stKey, stGen, freed, lent, parking, closed>>
          /\ UNCHANGED cacheVars /\ sess = Idle
      BY <2>1 DEF Begin, stmtVars
    <3>2. /\ sess'.pc \in {"lookup", "new"} /\ sess'.key = k /\ sess'.gen = gen
          /\ sess'.stmt = NoStmt /\ sess'.op = op
          /\ sess' \in Sessions
      BY <2>0, <2>1 DEF Begin, TypeOK, Sessions
    <3>3. /\ Cached' = Cached /\ CachedOnce' /\ CapsHold' /\ IsFiniteSet(Slots)'
          /\ fast' = fast /\ pool' = pool /\ poolCount' = poolCount
      BY <3>1, CacheUntouched
    <3>4. TypeOK'
      BY <2>0, <3>1, <3>2, <3>3 DEF TypeOK
    <3>5. OneOwner'
      BY <2>0, <3>1, <3>2, <3>3 DEF OneOwner, InUse, Idle
    <3>6. History'
      BY <2>0, <3>1, <3>2, <3>3 DEF History, TypeOK, Idle, TextsKnown, GenerationsPast, AllStale,
               FreshUnlessDraining, EmptyAfterClose, Invalidating
    <3>7. QED
      BY <3>3, <3>4, <3>5, <3>6 DEF IInv, History
  <2>2. ASSUME NEW op \in Ops, Invalidate(op)  PROVE IInv'
    <3>1. /\ UNCHANGED <<gen, created, stKey, stGen, freed, lent, parking, closed>>
          /\ UNCHANGED cacheVars /\ sess = Idle /\ ~closed /\ gen < MaxGen
      BY <2>2 DEF Invalidate, stmtVars
    <3>2. sess' = [op |-> op, pc |-> "bump", key |-> NoKey, gen |-> 0, stmt |-> NoStmt]
      BY <2>2 DEF Invalidate, Idle
    <3>3. /\ Cached' = Cached /\ CachedOnce' /\ CapsHold' /\ IsFiniteSet(Slots)'
          /\ fast' = fast /\ pool' = pool /\ poolCount' = poolCount
      BY <3>1, CacheUntouched
    <3>4. TypeOK'
      BY <2>0, <3>1, <3>2, <3>3 DEF TypeOK, Sessions
    <3>5. OneOwner'
      BY <2>0, <3>1, <3>2, <3>3 DEF OneOwner, InUse, Idle
    <3>6. History'
      BY <2>0, <3>1, <3>2, <3>3 DEF History, TypeOK, Idle, TextsKnown, GenerationsPast, AllStale,
               FreshUnlessDraining, EmptyAfterClose, Invalidating
    <3>7. QED
      BY <3>3, <3>4, <3>5, <3>6 DEF IInv, History
  <2>r. /\ sess \in Sessions /\ gen \in 0..MaxGen /\ created \in 0..MaxStmts
        /\ stGen \in [Stmts -> 0..MaxGen] /\ stKey \in [Stmts -> Keys \cup {NoKey}]
        /\ freed \subseteq Stmts /\ lent \subseteq Stmts /\ parking \subseteq Stmts
    BY <2>0 DEF TypeOK
  <2>i. Idle \in Sessions /\ Idle.pc = "none" /\ Idle.gen = 0 /\ 1..created \subseteq Stmts
    BY <2>r DEF Idle, Sessions, Stmts
  <2>3. CASE Lookup
    <3>1. /\ UNCHANGED <<gen, created, stKey, stGen, freed, lent, parking, closed>>
          /\ sess.pc = "lookup" /\ sess.key \in Keys
      BY <2>0, <2>3 DEF Lookup, stmtVars, History, TextsKnown
    <3>2. CASE UNCHANGED cacheVars /\ sess' = [sess EXCEPT !.pc = "new"]
      <4>1. /\ Cached' = Cached /\ CachedOnce' /\ CapsHold' /\ IsFiniteSet(Slots)'
            /\ fast' = fast /\ pool' = pool /\ poolCount' = poolCount
        BY <3>2, CacheUntouched
      <4>2. TypeOK' /\ OneOwner'
        BY <2>0, <3>1, <3>2, <4>1 DEF TypeOK, Sessions, OneOwner, InUse
      <4>3. History'
        BY <2>0, <2>r, <3>1, <3>2, <4>1 DEF Sessions, History, TextsKnown, GenerationsPast, AllStale,
               FreshUnlessDraining, EmptyAfterClose, Invalidating
      <4>4. QED
        BY <4>1, <4>2, <4>3 DEF IInv, History
    <3>3. CASE /\ FastHit(sess.key)
               /\ sess' = [sess EXCEPT !.pc = "check", !.stmt = fast.stmt]
               /\ fast' = [key |-> NoKey, stmt |-> NoStmt]
               /\ UNCHANGED <<pool, poolCount>>
      <4>1. fast.stmt \in Cached /\ Cached' = Cached \ {fast.stmt} /\ CachedOnce'
        BY <2>0, <3>3, FastTaken DEF FastHit, OneOwner
      <4>2. sess'.pc = "check" /\ sess'.stmt = fast.stmt /\ sess'.gen = sess.gen
            /\ sess'.key = sess.key
        BY <2>r, <3>3 DEF Sessions
      <4>3. TypeOK'
        BY <2>0, <3>1, <3>3 DEF TypeOK, Sessions
      <4>4. OneOwner'
        BY <2>0, <3>1, <4>1, <4>2 DEF OneOwner, InUse
      <4>5. CapsHold' /\ IsFiniteSet(Slots)'
        BY <2>0, <3>3 DEF CapsHold, Slots
      <4>6. History'
        BY <2>0, <2>r, <3>1, <4>1, <4>2 DEF History, TextsKnown, GenerationsPast, AllStale,
               FreshUnlessDraining, EmptyAfterClose, Invalidating
      <4>7. QED
        BY <4>3, <4>4, <4>5, <4>6 DEF IInv, History
    <3>4. CASE /\ pool[sess.key] # <<>>
               /\ sess' = [sess EXCEPT !.pc = "check", !.stmt = Last(pool[sess.key])]
               /\ pool' = PoolAfterTake(sess.key)
               /\ poolCount' = (IF poolCount > 0 THEN poolCount - 1 ELSE poolCount)
               /\ UNCHANGED fast
      <4> DEFINE k == sess.key
                 slot == <<k, Len(pool[k])>>
      <4>1. /\ Last(pool[k]) \in Cached /\ Cached' = Cached \ {Last(pool[k])}
            /\ Last(pool[k]) \in Stmts
            /\ CachedOnce' /\ pool' \in [Keys -> Seq(Stmts)]
            /\ slot \in Slots /\ Slots' = Slots \ {slot}
            /\ \A l \in Keys : Len(pool'[l]) <= Len(pool[l])
        BY <2>0, <3>1, <3>4, PoolTaken DEF OneOwner
      <4> HIDE DEF slot
      <4>2. /\ sess'.pc = "check" /\ sess'.stmt = Last(pool[k]) /\ sess'.gen = sess.gen
            /\ sess'.key = sess.key /\ sess' \in Sessions
        BY <2>r, <3>4, <4>1 DEF Sessions
      <4>3. /\ IsFiniteSet(Slots)' /\ Cardinality(Slots)' = Cardinality(Slots) - 1
        BY <2>0, <4>1, FS_RemoveElement
      <4>4. Cardinality(Slots) \in Nat /\ Cardinality(Slots)' \in Nat
        BY <2>0, <4>3, FS_CardinalityType
      <4>5. poolCount' = Cardinality(Slots)' /\ poolCount' \in 0..PoolCap
        BY <2>0, <3>4, <4>3, <4>4 DEF CapsHold, TypeOK
      <4>6. CapsHold'
        <5>1. \A l \in Keys : Len(pool[l]) \in Nat /\ Len(pool'[l]) \in Nat
          BY <2>0, <4>1 DEF TypeOK
        <5>2. QED
          BY <2>0, <4>1, <4>5, <5>1 DEF CapsHold
      <4>7. TypeOK'
        BY <2>0, <3>1, <3>4, <4>1, <4>2, <4>5 DEF TypeOK
      <4>8. OneOwner'
        BY <2>0, <3>1, <4>1, <4>2 DEF OneOwner, InUse
      <4>9. History'
        BY <2>0, <2>r, <3>1, <4>1, <4>2 DEF History, TextsKnown, GenerationsPast, AllStale,
               FreshUnlessDraining, EmptyAfterClose, Invalidating
      <4>10. QED
        BY <4>3, <4>6, <4>7, <4>8, <4>9 DEF IInv, History
    <3>5. QED
      BY <2>3, <3>2, <3>3, <3>4 DEF Lookup
  <2>4. CASE Check
    <3>1. /\ Cached' = Cached /\ CachedOnce' /\ CapsHold' /\ IsFiniteSet(Slots)'
          /\ fast' = fast /\ pool' = pool /\ poolCount' = poolCount
      BY <2>4, CacheUntouched DEF Check
    <3>2. UNCHANGED <<gen, created, stKey, stGen, lent, parking, closed>>
      BY <2>4 DEF Check, stmtVars
    <3>3. /\ sess.pc = "check" /\ sess.stmt \in 1..created /\ sess.key \in Keys
          /\ \/ /\ freed' = freed \cup {sess.stmt}
                /\ \/ sess'.pc = "lookup" /\ sess'.gen = gen /\ sess'.key = sess.key
                   \/ sess' = Idle
             \/ /\ freed' = freed
                /\ sess'.pc = "run" /\ sess'.gen = sess.gen /\ sess'.key = sess.key
                /\ sess'.stmt = sess.stmt
          /\ sess' \in Sessions /\ freed' \subseteq Stmts
      <4>1. sess.pc = "check" /\ sess.stmt \in 1..created /\ sess.key \in Keys
        BY <2>4, <2>0 DEF Check, OneOwner, InUse, History, TextsKnown
      <4>2. QED
        BY <2>4, <2>r, <2>i, <4>1, ZenonT(40) DEF Check, Sessions
    <3>7. TypeOK'
      BY <2>0, <3>1, <3>2, <3>3 DEF TypeOK
    <3>8. OneOwner'
      BY <2>0, <2>r, <2>i, <3>1, <3>2, <3>3 DEF OneOwner, InUse
    <3>9. History'
      BY <2>0, <2>r, <2>i, <3>1, <3>2, <3>3 DEF History, TextsKnown, GenerationsPast, AllStale,
               FreshUnlessDraining, EmptyAfterClose, Invalidating
    <3>10. QED
      BY <3>1, <3>7, <3>8, <3>9 DEF IInv, History
  <2>5. CASE NewStmt
    <3>1. /\ Cached' = Cached /\ CachedOnce' /\ CapsHold' /\ IsFiniteSet(Slots)'
          /\ fast' = fast /\ pool' = pool /\ poolCount' = poolCount
      BY <2>5, CacheUntouched DEF NewStmt
    <3>2. UNCHANGED <<gen, lent, parking, closed>> /\ sess.pc = "new" /\ sess.key \in Keys
      BY <2>0, <2>5 DEF NewStmt, History, TextsKnown
    <3>3. CASE sess' = Idle /\ UNCHANGED <<stmtVars, freed>>
      <4>1. UNCHANGED <<created, stKey, stGen, freed>>
        BY <3>3 DEF stmtVars
      <4>2. TypeOK' /\ OneOwner'
        BY <2>0, <2>i, <3>1, <3>2, <3>3, <4>1 DEF TypeOK, OneOwner, InUse
      <4>3. History'
        BY <2>0, <2>r, <2>i, <3>1, <3>2, <3>3, <4>1 DEF History, TextsKnown, GenerationsPast, AllStale,
               FreshUnlessDraining, EmptyAfterClose, Invalidating
      <4>4. QED
        BY <3>1, <4>2, <4>3 DEF IInv, History
    <3>4. CASE /\ ~closed /\ created < MaxStmts
               /\ created' = created + 1
               /\ stKey' = [stKey EXCEPT ![created + 1] = sess.key]
               /\ stGen' = [stGen EXCEPT ![created + 1] = sess.gen]
               /\ \/ /\ sess' = [sess EXCEPT !.pc = "run", !.stmt = created + 1]
                     /\ UNCHANGED freed
                  \/ sess' = Idle /\ freed' = freed \cup {created + 1}
      <4>1. /\ created' \in 0..MaxStmts /\ created + 1 \in Stmts
            /\ 1..created' = (1..created) \cup {created + 1}
            /\ created + 1 \notin 1..created
        BY <2>r, <3>4 DEF Stmts
      <4>2. /\ stKey' \in [Stmts -> Keys \cup {NoKey}] /\ stGen' \in [Stmts -> 0..MaxGen]
            /\ stKey'[created + 1] = sess.key /\ stGen'[created + 1] = sess.gen
            /\ \A s \in 1..created : stKey'[s] = stKey[s] /\ stGen'[s] = stGen[s]
        BY <2>r, <2>i, <3>4, <4>1 DEF Sessions
      <4>3. /\ sess' \in Sessions /\ freed' \subseteq Stmts
            /\ \/ /\ sess'.pc = "run" /\ sess'.stmt = created + 1 /\ sess'.key = sess.key
                  /\ sess'.gen = sess.gen /\ freed' = freed
               \/ /\ sess'.pc = "none" /\ sess'.gen = 0 /\ freed' = freed \cup {created + 1}
        BY <2>r, <2>i, <3>4, <4>1 DEF Sessions
      <4>4. TypeOK'
        BY <2>0, <3>1, <3>2, <4>1, <4>2, <4>3 DEF TypeOK
      <4>5. OneOwner'
        BY <2>0, <3>1, <3>2, <4>1, <4>3 DEF OneOwner, InUse
      <4>6. Cached \subseteq 1..created /\ ~closed'
        BY <2>0, <3>2, <3>4 DEF OneOwner
      <4>7. History'
        BY <2>0, <2>r, <3>1, <3>2, <4>1, <4>2, <4>3, <4>6 DEF History, TextsKnown, GenerationsPast, AllStale,
               FreshUnlessDraining, EmptyAfterClose, Invalidating
      <4>8. QED
        BY <3>1, <4>4, <4>5, <4>7 DEF IInv, History
    <3>5. QED
      BY <2>5, <3>3, <3>4 DEF NewStmt
  <2>6. CASE Run
    <3>1. /\ Cached' = Cached /\ CachedOnce' /\ CapsHold' /\ IsFiniteSet(Slots)'
          /\ fast' = fast /\ pool' = pool /\ poolCount' = poolCount
      BY <2>6, CacheUntouched DEF Run
    <3>2. UNCHANGED <<gen, created, stKey, stGen, closed>>
      BY <2>6 DEF Run, stmtVars
    <3>3. /\ sess.pc = "run" /\ sess.stmt \in 1..created /\ sess.key \in Keys
          /\ \/ sess' = Idle /\ freed' = freed \cup {sess.stmt} /\ UNCHANGED <<lent, parking>>
             \/ sess' = Idle /\ lent' = lent \cup {sess.stmt} /\ UNCHANGED <<freed, parking>>
             \/ /\ sess'.pc = "parking" /\ sess'.gen = sess.gen /\ sess'.key = sess.key
                /\ parking' = parking \cup {sess.stmt} /\ UNCHANGED <<freed, lent>>
          /\ sess' \in Sessions
          /\ freed' \subseteq Stmts /\ lent' \subseteq Stmts /\ parking' \subseteq Stmts
      <4>1. sess.pc = "run" /\ sess.stmt \in 1..created /\ sess.key \in Keys
        BY <2>6, <2>0 DEF Run, OneOwner, InUse, History, TextsKnown
      <4>2. QED
        BY <2>6, <2>r, <2>i, <4>1 DEF Run, Sessions
    <3>7. TypeOK'
      BY <2>0, <3>1, <3>2, <3>3 DEF TypeOK
    <3>8. OneOwner'
      BY <2>0, <2>r, <2>i, <3>1, <3>2, <3>3 DEF OneOwner, InUse
    <3>9. History'
      BY <2>0, <2>r, <2>i, <3>1, <3>2, <3>3 DEF History, TextsKnown, GenerationsPast, AllStale,
               FreshUnlessDraining, EmptyAfterClose, Invalidating
    <3>10. QED
      BY <3>1, <3>7, <3>8, <3>9 DEF IInv, History
  <2>7. CASE Bump
    <3>1. /\ Cached' = Cached /\ CachedOnce' /\ CapsHold' /\ IsFiniteSet(Slots)'
          /\ fast' = fast /\ pool' = pool /\ poolCount' = poolCount
      BY <2>7, CacheUntouched DEF Bump
    <3>2. UNCHANGED <<created, stKey, stGen, freed, lent, parking, closed>>
      BY <2>7 DEF Bump, stmtVars
    <3>3. /\ sess.pc = "bump" /\ gen' = gen + 1 /\ gen' \in 0..MaxGen /\ ~closed
          /\ sess'.pc = "drain" /\ sess'.gen = sess.gen /\ sess' \in Sessions
      BY <2>7, <2>0, <2>r DEF Bump, Sessions, History, Invalidating
    <3>4. \A s \in 1..created : stGen[s] \in Nat
      BY <2>r, <2>i
    <3>7. TypeOK'
      BY <2>0, <3>1, <3>2, <3>3 DEF TypeOK
    <3>8. OneOwner'
      BY <2>0, <2>r, <2>i, <3>1, <3>2, <3>3 DEF OneOwner, InUse
    <3>9. History'
      BY <2>0, <2>r, <2>i, <3>1, <3>2, <3>3, <3>4 DEF Sessions, History, TextsKnown, GenerationsPast, AllStale,
               FreshUnlessDraining, EmptyAfterClose, Invalidating
    <3>10. QED
      BY <3>1, <3>7, <3>8, <3>9 DEF IInv, History
  <2>d. CASE Drain
    <3>1. /\ sess.pc = "drain" /\ freed' = freed \cup Cached
          /\ fast' = [key |-> NoKey, stmt |-> NoStmt]
          /\ pool' = [k \in Keys |-> <<>>] /\ poolCount' = 0
          /\ closed' = (sess.op = "close") /\ sess' = Idle
          /\ UNCHANGED <<gen, created, stKey, stGen, lent, parking>>
      BY <2>d DEF Drain, stmtVars
    <3>2. closed' \in BOOLEAN
      BY <3>1, Zenon
    <3>3. \A k \in Keys : pool'[k] = <<>> /\ DOMAIN pool'[k] = {} /\ Len(pool'[k]) = 0
      BY <3>1
    <3>4. Cached' = {} /\ Slots' = {} /\ CachedOnce'
      BY <3>1, <3>3, CachedIsNext, SlotIs DEF CachedOnce
    <3>5. TypeOK'
      <4>1. freed' \subseteq Stmts /\ fast' \in [key: Keys \cup {NoKey}, stmt: Stmts \cup {NoStmt}]
        BY <2>0, <2>r, <2>i, <3>1 DEF OneOwner
      <4>2. pool' \in [Keys -> Seq(Stmts)] /\ poolCount' \in 0..PoolCap
        BY <3>1
      <4>3. QED
        BY <2>r, <2>i, <3>1, <3>2, <4>1, <4>2 DEF TypeOK
    <3>6. OneOwner'
      BY <2>0, <2>i, <3>1, <3>4 DEF OneOwner, InUse
    <3>7. CapsHold' /\ IsFiniteSet(Slots)'
      BY <3>1, <3>3, <3>4, FS_EmptySet DEF CapsHold
    <3>8. History'
      BY <2>0, <2>r, <2>i, <3>1, <3>4 DEF History, TextsKnown, GenerationsPast, AllStale,
               FreshUnlessDraining, EmptyAfterClose, Invalidating
    <3>9. QED
      BY <3>5, <3>6, <3>7, <3>8 DEF IInv, History
  <2>o. ASSUME NEW s \in Stmts, RowsClose(s)  PROVE IInv'
    <3>1. /\ Cached' = Cached /\ CachedOnce' /\ CapsHold' /\ IsFiniteSet(Slots)'
          /\ fast' = fast /\ pool' = pool /\ poolCount' = poolCount
      BY <2>o, CacheUntouched DEF RowsClose
    <3>2. UNCHANGED <<gen, created, stKey, stGen, sess, closed>>
      BY <2>o DEF RowsClose, stmtVars
    <3>3. /\ s \in lent /\ lent' = lent \ {s}
          /\ \/ freed' = freed \cup {s} /\ UNCHANGED parking
             \/ parking' = parking \cup {s} /\ UNCHANGED freed
      BY <2>o DEF RowsClose
    <3>4. TypeOK' /\ OneOwner'
      BY <2>0, <3>1, <3>2, <3>3 DEF TypeOK, OneOwner, InUse
    <3>5. History'
      BY <2>0, <3>1, <3>2 DEF History, TextsKnown, GenerationsPast, AllStale,
               FreshUnlessDraining, EmptyAfterClose, Invalidating
    <3>6. QED
      BY <3>1, <3>4, <3>5 DEF IInv, History
  <2>p. ASSUME NEW s \in Stmts, Park(s)  PROVE IInv'
    <3> DEFINE k == stKey[s]
    <3>1. /\ s \in parking /\ parking' = parking \ {s}
          /\ UNCHANGED <<gen, created, stKey, stGen, lent, closed>>
          /\ s \in 1..created /\ s \notin Cached /\ k \in Keys
      BY <2>0, <2>p DEF Park, stmtVars, OneOwner, History, TextsKnown
    <3>2. /\ sess' \in Sessions /\ sess'.gen <= gen
          /\ sess' = sess \/ (sess.pc = "parking" /\ sess'.pc = "none")
      <4>1. sess' = sess \/ (sess.pc = "parking" /\ sess' = Idle)
        BY <2>p, Zenon DEF Park
      <4>2. sess.gen <= gen /\ 0 <= gen
        BY <2>0, <2>r DEF History, GenerationsPast
      <4>3. CASE sess' = sess
        BY <2>r, <4>2, <4>3
      <4>4. CASE sess.pc = "parking" /\ sess' = Idle
        BY <2>i, <4>2, <4>4
      <4>5. QED
        BY <4>1, <4>3, <4>4
    <3>3. Current(s) => sess.pc # "drain" /\ ~closed /\ stGen[s] = gen
      BY <2>0, <2>r, <3>1 DEF Current, History, AllStale
    <3>4. CASE freed' = freed \cup {s} /\ UNCHANGED cacheVars
      <4>1. /\ Cached' = Cached /\ CachedOnce' /\ CapsHold' /\ IsFiniteSet(Slots)'
            /\ fast' = fast /\ pool' = pool /\ poolCount' = poolCount
        BY <3>4, CacheUntouched
      <4>2. TypeOK' /\ OneOwner'
        BY <2>0, <3>1, <3>2, <3>4, <4>1 DEF TypeOK, OneOwner, InUse
      <4>3. History'
        BY <2>0, <3>1, <3>2, <4>1 DEF History, TextsKnown, GenerationsPast, AllStale,
               FreshUnlessDraining, EmptyAfterClose, Invalidating
      <4>4. QED
        BY <4>1, <4>2, <4>3 DEF IInv, History
    <3>5. CASE /\ Current(s) /\ fast.stmt = NoStmt
               /\ fast' = [key |-> k, stmt |-> s]
               /\ UNCHANGED <<pool, poolCount, freed>>
      <4>1. Cached' = Cached \cup {s} /\ CachedOnce'
        BY <2>0, <3>1, <3>5, FastFilled DEF OneOwner
      <4>2. TypeOK' /\ OneOwner'
        BY <2>0, <3>1, <3>2, <3>5, <4>1, SMTT(40) DEF TypeOK, OneOwner, InUse
      <4>3. CapsHold' /\ IsFiniteSet(Slots)'
        BY <2>0, <3>5 DEF CapsHold, Slots
      <4>4. History'
        BY <2>0, <3>1, <3>2, <3>3, <3>5, <4>1 DEF History, TextsKnown, GenerationsPast, AllStale,
               FreshUnlessDraining, EmptyAfterClose, Invalidating
      <4>5. QED
        BY <4>2, <4>3, <4>4 DEF IInv, History
    <3>6. CASE /\ Current(s) /\ Room(k)
               /\ pool' = [pool EXCEPT ![k] = Append(@, s)]
               /\ poolCount' = Counted(poolCount)
               /\ UNCHANGED <<fast, freed>>
      <4> DEFINE slot == <<k, Len(pool[k]) + 1>>
      <4>1. /\ Cached' = Cached \cup {s}
            /\ CachedOnce' /\ pool' \in [Keys -> Seq(Stmts)]
            /\ slot \notin Slots /\ Slots' = Slots \cup {slot}
            /\ \A l \in Keys : l # k => pool'[l] = pool[l]
            /\ Len(pool'[k]) = Len(pool[k]) + 1
        BY <2>0, <3>1, <3>6, PoolFilled DEF OneOwner
      <4> HIDE DEF slot
      <4>2. /\ IsFiniteSet(Slots)' /\ Cardinality(Slots)' = Cardinality(Slots) + 1
        BY <2>0, <4>1, FS_AddElement
      <4>3. poolCount' = Cardinality(Slots)' /\ poolCount' \in 0..PoolCap
        BY <2>0, <3>6, <4>2 DEF CapsHold, TypeOK, Room, Counted
      <4>4. CapsHold'
        <5>1. \A l \in Keys : Len(pool[l]) \in Nat
          BY <2>0 DEF TypeOK
        <5>2. QED
          BY <2>0, <3>6, <4>1, <4>3, <5>1 DEF CapsHold, Room
      <4>5. TypeOK'
        BY <2>0, <3>1, <3>2, <3>6, <4>1, <4>3 DEF TypeOK
      <4>6. OneOwner'
        BY <2>0, <3>1, <3>2, <3>6, <4>1 DEF OneOwner, InUse
      <4>7. History'
        BY <2>0, <3>1, <3>2, <3>3, <3>6, <4>1 DEF History, TextsKnown, GenerationsPast, AllStale,
               FreshUnlessDraining, EmptyAfterClose, Invalidating
      <4>8. QED
        BY <4>2, <4>4, <4>5, <4>6, <4>7 DEF IInv, History
    <3>7. QED
      BY <2>p, <3>4, <3>5, <3>6 DEF Park
  <2>8. CASE UNCHANGED vars
    <3>1. /\ UNCHANGED <<gen, created, stKey, stGen, freed, lent, parking, sess, closed>>
          /\ UNCHANGED cacheVars
      BY <2>8 DEF vars, stmtVars
    <3>2. /\ Cached' = Cached /\ CachedOnce' /\ CapsHold' /\ IsFiniteSet(Slots)'
          /\ fast' = fast /\ pool' = pool /\ poolCount' = poolCount
      BY <3>1, CacheUntouched
    <3>3. TypeOK' /\ OneOwner'
      BY <2>0, <3>1, <3>2 DEF TypeOK, OneOwner, InUse
    <3>4. History'
      BY <2>0, <3>1, <3>2 DEF History, TextsKnown, GenerationsPast, AllStale,
               FreshUnlessDraining, EmptyAfterClose, Invalidating
    <3>5. QED
      BY <3>2, <3>3, <3>4 DEF IInv, History
  <2>9. QED
    BY <2>1, <2>2, <2>3, <2>4, <2>5, <2>6, <2>7, <2>d, <2>o, <2>p, <2>8 DEF Next
<1>3. QED
  BY <1>1, <1>2, PTL DEF Spec

(* The types hold: the bounds on the pool and on generations are never       *)
(* passed.                                                                   *)
THEOREM TypeCorrect == Spec => []TypeOK
BY Invariance, PTL DEF IInv

(* Whatever order queries, Rows.Close and DDL come in, every statement is    *)
(* lent, about to be parked, cached once, closed or in use, and only one.    *)
THEOREM StatementsHaveOneOwner == Spec => []OneOwner
BY Invariance, PTL DEF IInv

(* The pool's counter is exact and its caps hold.                            *)
THEOREM PoolWithinCaps == Spec => []CapsHold
BY Invariance, PTL DEF IInv

(* While nobody invalidates the catalog the cache holds current statements   *)
(* only, and after close none.                                               *)
THEOREM NothingStale == Spec => []NothingStaleServed
<1>1. IInv => NothingStaleServed
  BY DEF IInv, FreshUnlessDraining, EmptyAfterClose, NothingStaleServed
<1>2. QED
  BY <1>1, Invariance, PTL
=============================================================================
