------------------------- MODULE ConversionsProofs --------------------------
(***************************************************************************)
(* Proofs about the pure algorithms, for inputs of any size.               *)
(*                                                                         *)
(* Induction is by the least counterexample (lemma Least), since a         *)
(* property cannot be handed to a library theorem as an operator.  Loops   *)
(* are folds and recursive functions in the model, that is, a CHOOSE of a  *)
(* function that satisfies its equation: the lemmas of the first section   *)
(* show that there is one, and so what the CHOOSE computes step by step.   *)
(***************************************************************************)
EXTENDS Conversions, WellFoundedInduction, TLAPS

-----------------------------------------------------------------------------
(* Induction, recursion and folds.                                           *)

(* Every set of numbers has a least one: the form of induction that needs no *)
(* operator for the property.                                                *)
LEMMA Least ==
    ASSUME NEW S \in SUBSET Nat, S # {}
    PROVE  \E n \in S : \A m \in S : n <= m
<1> DEFINE R == OpToRel(<, Nat)
<1>1. IsWellFoundedOn(R, Nat)
  BY NatLessThanWellFounded
<1>2. \A x, y \in Nat : x < y => <<x, y>> \in R
  BY DEF OpToRel
<1> HIDE DEF R
<1>3. PICK n \in S : \A m \in S : ~ (<<m, n>> \in R)
  BY <1>1, WFMin
<1>4. ASSUME NEW m \in S PROVE n <= m
  <2>1. n \in Nat /\ m \in Nat
    OBVIOUS
  <2>2. ~(m < n)
    BY <1>2, <1>3, <2>1
  <2>3. QED
    BY <2>1, <2>2
<1>5. QED
  BY <1>4

(* Induction from 0 up to n.                                                 *)
LEMMA Upwards ==
    ASSUME NEW n \in Nat, NEW S, 0 \in S, \A i \in 0..n - 1 : i \in S => i + 1 \in S
    PROVE  \A i \in 0..n : i \in S
<1> SUFFICES ASSUME NEW k \in 0..n, k \notin S PROVE FALSE
  OBVIOUS
<1> DEFINE T == { i \in 0..n : i \notin S }
<1>1. PICK i \in T : \A m \in T : i <= m
  <2>1. T \in SUBSET Nat /\ T # {}
    OBVIOUS
  <2> HIDE DEF T
  <2>2. QED
    BY <2>1, Least
<1>2. i # 0 /\ i - 1 \in 0..n - 1
  BY <1>1
<1>3. i - 1 \in S
  BY <1>1, <1>2
<1>4. QED
  BY <1>1, <1>2, <1>3

(* The step is F[i] at i: a function as the provers cannot be given an       *)
(* operator.  What a definition along 0..n means, and FoldLeft, which goes   *)
(* over the sets of places and takes their last off.                         *)
Along(n, V, base, F) ==
    \E f \in [0..n -> V] : \A i \in 0..n : f[i] = IF i = 0 THEN base ELSE F[i][f[i - 1]]
OverSets(n, V, base, F) ==
    \E f \in [SUBSET (1..n) -> V] :
        \A s \in SUBSET (1..n) : f[s] = IF s = {} THEN base ELSE F[Max(s)][f[s \ {Max(s)}]]

(* n steps from base have intermediate values.                               *)
LEMMA Recursion ==
    ASSUME NEW n \in Nat, NEW V, NEW base \in V, NEW F \in [1..n -> [V -> V]]
    PROVE  Along(n, V, base, F)
<1> DEFINE Good(k, f) == /\ f \in [0..k -> V]
                         /\ \A i \in 0..k : f[i] = IF i = 0 THEN base ELSE F[i][f[i - 1]]
           S == { k \in Nat : \E f : Good(k, f) }
<1>1. 0 \in S
  <2>1. Good(0, [i \in 0..0 |-> base])
    OBVIOUS
  <2> HIDE DEF Good
  <2>2. QED
    BY <2>1
<1>2. ASSUME NEW k \in 0..n - 1, k \in S PROVE k + 1 \in S
  <2>1. PICK f : Good(k, f)
    <3> HIDE DEF Good
    <3> QED
      BY <1>2
  <2> DEFINE new == F[k + 1][f[k]]
             g == [i \in 0..k + 1 |-> IF i <= k THEN f[i] ELSE new]
  <2>2. f \in [0..k -> V] /\ f[k] \in V /\ F[k + 1] \in [V -> V] /\ new \in V
    BY <2>1
  <2> HIDE DEF new
  <2>3. g \in [0..k + 1 -> V]
    BY <2>2
  <2>4. ASSUME NEW i \in 0..k + 1 PROVE g[i] = IF i = 0 THEN base ELSE F[i][g[i - 1]]
    <3>1. CASE i = 0
      BY <2>1, <3>1
    <3>2. CASE i \in 1..k
      <4>1. g[i] = f[i] /\ g[i - 1] = f[i - 1]
        BY <3>2
      <4>2. QED
        BY <2>1, <3>2, <4>1
    <3>3. CASE i = k + 1
      <4>1. g[i] = new /\ g[i - 1] = f[k]
        BY <3>3
      <4>2. QED
        BY <3>3, <4>1 DEF new
    <3>4. QED
      BY <3>1, <3>2, <3>3
  <2>5. Good(k + 1, g)
    BY <2>3, <2>4
  <2> HIDE DEF Good, g
  <2>6. QED
    BY <2>5
<1> HIDE DEF S
<1>3. n \in S
  <2>1. \A i \in 0..n - 1 : i \in S => i + 1 \in S
    BY <1>2
  <2>2. \A i \in 0..n : i \in S
    BY <1>1, <2>1, Upwards
  <2>3. QED
    BY <2>2
<1>4. \E f : Good(n, f)
  <2> HIDE DEF Good
  <2> QED
    BY <1>3 DEF S
<1>5. QED
  BY <1>4 DEF Along

(* The last of the places 1..k.                                              *)
LEMMA Largest ==
    ASSUME NEW k \in Nat, NEW s \in SUBSET (1..k), s # {}
    PROVE  Max(s) \in s /\ \A y \in s : Max(s) >= y
<1> DEFINE T == { m \in Nat : \A y \in s : m >= y }
<1>1. k \in T /\ T \in SUBSET Nat
  OBVIOUS
<1> HIDE DEF T
<1>2. PICK m \in T : \A x \in T : m <= x
  BY <1>1, Least
<1>3. m \in s
  <2> SUFFICES ASSUME m \notin s PROVE FALSE
    OBVIOUS
  <2>1. m \in Nat /\ \A y \in s : y \in Nat /\ y >= 1 /\ m >= y /\ m # y
    BY <1>2 DEF T
  <2>2. PICK z : z \in s
    OBVIOUS
  <2>3. m >= 2
    BY <2>1, <2>2
  <2>4. m - 1 \in Nat /\ \A y \in s : m - 1 >= y
    BY <2>1, <2>3
  <2>5. m - 1 \in T
    BY <2>4 DEF T
  <2>6. QED
    BY <1>2, <2>1, <2>5
<1>4. \A y \in s : m >= y
  BY <1>2 DEF T
<1>5. QED
  BY <1>3, <1>4 DEF Max

(* A fold over the subsets of 1..n has a function that satisfies its         *)
(* equation.                                                                 *)
LEMMA Folding ==
    ASSUME NEW n \in Nat, NEW V, NEW base \in V, NEW F \in [1..n -> [V -> V]]
    PROVE  OverSets(n, V, base, F)
<1> DEFINE Good(k, f) ==
               /\ f \in [SUBSET (1..k) -> V]
               /\ \A s \in SUBSET (1..k) : f[s] = IF s = {} THEN base ELSE F[Max(s)][f[s \ {Max(s)}]]
           S == { k \in Nat : \E f : Good(k, f) }
<1>1. 0 \in S
  <2>1. Good(0, [s \in SUBSET (1..0) |-> base])
    <3>1. SUBSET (1..0) = { {} }
      OBVIOUS
    <3>2. QED
      BY <3>1
  <2> HIDE DEF Good
  <2>2. QED
    BY <2>1
<1>2. ASSUME NEW k \in 0..n - 1, k \in S PROVE k + 1 \in S
  <2>1. PICK f : Good(k, f)
    <3> HIDE DEF Good
    <3> QED
      BY <1>2
  <2> DEFINE g == [s \in SUBSET (1..k + 1) |->
                     IF k + 1 \in s THEN F[k + 1][f[s \ {k + 1}]] ELSE f[s]]
  <2>2. f \in [SUBSET (1..k) -> V] /\ F[k + 1] \in [V -> V]
    BY <2>1
  <2>3. ASSUME NEW s \in SUBSET (1..k + 1)
        PROVE  /\ k + 1 \in s => s \ {k + 1} \in SUBSET (1..k) /\ Max(s) = k + 1
               /\ k + 1 \notin s => s \in SUBSET (1..k)
    <3>1. k + 1 \in s => s \ {k + 1} \in SUBSET (1..k)
      OBVIOUS
    <3>2. k + 1 \notin s => s \in SUBSET (1..k)
      OBVIOUS
    <3>3. ASSUME k + 1 \in s PROVE Max(s) = k + 1
      <4>1. \A y \in s : y \in Int /\ k + 1 >= y
        OBVIOUS
      <4>2. \A x \in s : (\A y \in s : x >= y) => x = k + 1
        BY <3>3, <4>1
      <4>3. QED
        BY <3>3, <4>1, <4>2 DEF Max
    <3>4. QED
      BY <3>1, <3>2, <3>3
  <2>4. g \in [SUBSET (1..k + 1) -> V]
    BY <2>2, <2>3
  <2>5. ASSUME NEW s \in SUBSET (1..k + 1)
        PROVE  g[s] = IF s = {} THEN base ELSE F[Max(s)][g[s \ {Max(s)}]]
    <3>1. CASE k + 1 \in s
      <4>1. g[s] = F[k + 1][f[s \ {k + 1}]] /\ Max(s) = k + 1
        BY <2>3, <3>1
      <4>2. g[s \ {k + 1}] = f[s \ {k + 1}]
        OBVIOUS
      <4> HIDE DEF g
      <4>3. QED
        BY <3>1, <4>1, <4>2
    <3>2. CASE k + 1 \notin s
      <4>1. s \in SUBSET (1..k) /\ g[s] = f[s]
        BY <2>3, <3>2
      <4>2. s # {} => s \ {Max(s)} \in SUBSET (1..k + 1) /\ g[s \ {Max(s)}] = f[s \ {Max(s)}]
        BY <3>2
      <4> HIDE DEF g
      <4>3. QED
        BY <2>1, <4>1, <4>2
    <3>3. QED
      BY <3>1, <3>2
  <2>6. Good(k + 1, g)
    BY <2>4, <2>5
  <2> HIDE DEF Good, g
  <2>7. QED
    BY <2>6
<1> HIDE DEF S
<1>3. n \in S
  <2>1. \A i \in 0..n - 1 : i \in S => i + 1 \in S
    BY <1>2
  <2>2. \A i \in 0..n : i \in S
    BY <1>1, <2>1, Upwards
  <2>3. QED
    BY <2>2
<1>4. PICK f : Good(n, f)
  <2> HIDE DEF Good
  <2> QED
    BY <1>3 DEF S
<1>5. QED
  BY <1>4 DEF OverSets

(* Such a function e goes along 1..n on the sets 1..i.                       *)
OnSets(n, V, base, F, e) ==
    /\ e[{}] = base
    /\ \A s \in SUBSET (1..n) :
           s # {} /\ e[s \ {Max(s)}] \in V => e[s] = F[Max(s)][e[s \ {Max(s)}]]
OnPlaces(n, V, base, F, e) ==
    /\ e[1..0] = base
    /\ \A i \in 0..n : e[1..i] \in V
    /\ \A i \in 1..n : e[1..i] = F[i][e[1..i - 1]]

(* Such a function goes over the places 1 to n in order.                     *)
LEMMA Unfolding ==
    ASSUME NEW n \in Nat, NEW V, NEW base \in V, NEW F \in [1..n -> [V -> V]], NEW e,
           OnSets(n, V, base, F, e)
    PROVE  OnPlaces(n, V, base, F, e)
<1>1. ASSUME NEW i \in 1..n
      PROVE  1..i \in SUBSET (1..n) /\ 1..i # {} /\ Max(1..i) = i /\ (1..i) \ {i} = 1..i - 1
  <2>1. i \in Nat /\ 1..i \in SUBSET (1..i) /\ i \in 1..i
    OBVIOUS
  <2>2. Max(1..i) \in 1..i /\ \A y \in 1..i : Max(1..i) >= y
    BY <2>1, Largest
  <2>3. Max(1..i) = i
    BY <2>1, <2>2
  <2>4. (1..i) \ {i} = 1..i - 1
    OBVIOUS
  <2>5. 1..i \in SUBSET (1..n) /\ 1..i # {}
    <3>1. \A x \in 1..i : x \in 1..n
      OBVIOUS
    <3>2. QED
      BY <2>1, <3>1
  <2>6. QED
    BY <2>3, <2>4, <2>5
<1>2. 1..0 = {}
  OBVIOUS
<1>3. ASSUME NEW i \in 1..n, e[1..i - 1] \in V PROVE e[1..i] = F[i][e[1..i - 1]]
  BY <1>1, <1>3 DEF OnSets
<1> DEFINE T == { i \in 0..n : e[1..i] \in V }
<1>4. 0 \in T
  BY <1>2 DEF OnSets
<1>5. ASSUME NEW i \in 0..n - 1, i \in T PROVE i + 1 \in T
  <2>1. i + 1 \in 1..n /\ (i + 1) - 1 = i /\ e[1..i] \in V
    BY <1>5
  <2>2. e[1..i + 1] = F[i + 1][e[1..i]]
    BY <1>3, <2>1
  <2>3. F[i + 1] \in [V -> V]
    BY <2>1
  <2>4. e[1..i + 1] \in V
    BY <2>1, <2>2, <2>3
  <2>5. QED
    BY <2>1, <2>4
<1> HIDE DEF T
<1>6. \A i \in 0..n : i \in T
  BY <1>4, <1>5, Upwards
<1>7. \A i \in 0..n : e[1..i] \in V
  BY <1>6 DEF T
<1>8. ASSUME NEW i \in 1..n PROVE e[1..i] = F[i][e[1..i - 1]]
  <2>1. i - 1 \in 0..n
    OBVIOUS
  <2>2. QED
    BY <1>3, <1>7, <2>1
<1>9. QED
  BY <1>2, <1>7, <1>8 DEF OnSets, OnPlaces

(* What the library's Min chooses.                                           *)
LEMMA Smallest ==
    ASSUME NEW I \in SUBSET Nat, I # {}
    PROVE  Min(I) \in I /\ \A j \in I : Min(I) <= j
<1>1. PICK n \in I : \A j \in I : n <= j
  BY Least
<1>2. QED
  BY <1>1 DEF Min

(* Places of a sequence, and the places before them.                         *)
LEMMA Places ==
    ASSUME NEW n \in Nat, NEW i \in 1..n
    PROVE  i \in Nat /\ i - 1 \in Nat /\ i \in 0..n /\ i - 1 \in 0..n
  OBVIOUS

(* A function on 1..n is a sequence.                                         *)
LEMMA SequenceOf ==
    ASSUME NEW S, NEW n \in Nat, NEW s \in [1..n -> S]
    PROVE  s \in Seq(S) /\ Len(s) = n /\ DOMAIN s = 1..n
  OBVIOUS

(* The bounded sequences that the model tries are sequences.                 *)
LEMMA BoundedSequence ==
    ASSUME NEW S, NEW n, NEW s \in SeqOf(S, n)
    PROVE  s \in Seq(S)
<1>1. PICK m \in 0..n : s \in [1..m -> S]
  BY DEF SeqOf
<1>2. m \in Nat
  OBVIOUS
<1>3. QED
  BY <1>1, <1>2

(* FlattenSeq goes along the sequences it joins.                             *)
Joined(S, q) ==
    \E f \in [0..Len(q) -> Seq(S)] :
        /\ f[0] = <<>>
        /\ \A i \in 1..Len(q) : f[i] = f[i - 1] \o q[i]
        /\ FlattenSeq(q) = f[Len(q)]

(* FlattenSeq joins its arguments one after the other.                       *)
LEMMA Flattening ==
    ASSUME NEW S, NEW q \in Seq(Seq(S))
    PROVE  Joined(S, q)
<1> DEFINE n == Len(q)
           F == [i \in 1..n |-> [v \in Seq(S) |-> v \o q[i]]]
<1>1. n \in Nat /\ \A i \in 1..n : q[i] \in Seq(S)
  OBVIOUS
<1>2. F \in [1..n -> [Seq(S) -> Seq(S)]] /\ <<>> \in Seq(S)
  BY <1>1
<1>3. \A i \in 1..n : \A v \in Seq(S) : F[i][v] = v \o q[i]
  OBVIOUS
<1> HIDE DEF F, n
<1>4. PICK f \in [0..n -> Seq(S)] : \A i \in 0..n : f[i] = IF i = 0 THEN <<>> ELSE F[i][f[i - 1]]
  <2>1. Along(n, Seq(S), <<>>, F)
    BY <1>1, <1>2, Recursion
  <2>2. QED
    BY <2>1 DEF Along
<1>5. f[0] = <<>> /\ \A i \in 1..n : f[i] = f[i - 1] \o q[i]
  <2>1. f[0] = <<>>
    <3>1. 0 \in 0..n
      BY <1>1
    <3>2. QED
      BY <1>4, <3>1
  <2>2. ASSUME NEW i \in 1..n PROVE f[i] = f[i - 1] \o q[i]
    <3>1. f[i - 1] \in Seq(S) /\ f[i] = F[i][f[i - 1]]
      BY <1>1, <1>4
    <3>2. QED
      BY <1>3, <3>1
  <2>3. QED
    BY <2>1, <2>2
<1>6. CASE n = 0
  <2>1. FlattenSeq(q) = q /\ q = <<>>
    BY <1>6 DEF FlattenSeq, n
  <2>2. QED
    BY <1>5, <1>6, <2>1 DEF n, Joined
<1>7. CASE n # 0
  <2> DEFINE E(g) == g = [i \in 1..n |-> IF i = 1 THEN q[i] ELSE g[i - 1] \o q[i]]
             e == CHOOSE g : E(g)
  <2>1. FlattenSeq(q) = e[n]
    BY <1>7 DEF FlattenSeq, n
  <2>2. E([i \in 1..n |-> f[i]])
    <3> DEFINE h == [i \in 1..n |-> f[i]]
    <3>1. f[1] = q[1]
      <4>1. 1 \in 1..n /\ 1 - 1 = 0
        BY <1>1, <1>7
      <4>2. f[1] = <<>> \o q[1] /\ q[1] \in Seq(S)
        BY <1>1, <1>5, <4>1
      <4>3. QED
        BY <4>2
    <3>2. ASSUME NEW i \in 1..n PROVE h[i] = IF i = 1 THEN q[i] ELSE h[i - 1] \o q[i]
      <4>1. CASE i = 1
        BY <3>1, <4>1
      <4>2. CASE i # 1
        <5>1. i - 1 \in 1..n /\ h[i] = f[i] /\ h[i - 1] = f[i - 1]
          BY <1>1, <4>2
        <5>2. f[i] = f[i - 1] \o q[i]
          BY <1>5
        <5> HIDE DEF h
        <5>3. QED
          BY <4>2, <5>1, <5>2
      <4>3. QED
        BY <4>1, <4>2
    <3>3. QED
      BY <3>2
  <2>3. E(e)
    <3> HIDE DEF E
    <3>1. QED
      BY <2>2
  <2>4. e = [i \in 1..n |-> IF i = 1 THEN q[i] ELSE e[i - 1] \o q[i]]
    BY <2>3
  <2> HIDE DEF e
  <2> DEFINE T == { i \in 0..n : i # 0 => e[i] = f[i] }
  <2>5. 0 \in T
    BY <1>1
  <2>6. ASSUME NEW i \in 0..n - 1, i \in T PROVE i + 1 \in T
    <3>1. i + 1 \in 1..n /\ (i + 1) - 1 = i
      BY <1>1
    <3>2. e[i + 1] = IF i + 1 = 1 THEN q[i + 1] ELSE e[i] \o q[i + 1]
      BY <2>4, <3>1
    <3>3. f[i + 1] = f[i] \o q[i + 1]
      BY <1>5, <3>1
    <3>4. e[i + 1] = f[i + 1]
      <4>1. CASE i = 0
        <5>1. q[i + 1] \in Seq(S)
          BY <1>1, <3>1
        <5>2. f[i + 1] = <<>> \o q[i + 1]
          BY <1>5, <3>3, <4>1
        <5>3. f[i + 1] = q[i + 1]
          BY <5>1, <5>2
        <5>4. e[i + 1] = q[i + 1]
          BY <3>2, <4>1
        <5>5. QED
          BY <5>3, <5>4
      <4>2. CASE i # 0
        <5>1. e[i] = f[i]
          BY <2>6, <4>2 DEF T
        <5>2. e[i + 1] = e[i] \o q[i + 1]
          <6>1. i + 1 # 1
            BY <1>1, <4>2
          <6>2. QED
            BY <3>2, <6>1
        <5>3. QED
          BY <3>3, <5>1, <5>2
      <4>3. QED
        BY <4>1, <4>2
    <3>5. QED
      BY <3>1, <3>4
  <2> HIDE DEF T
  <2>7. \A i \in 0..n : i \in T
    BY <1>1, <2>5, <2>6, Upwards
  <2>8. e[n] = f[n]
    BY <1>1, <1>7, <2>7 DEF T
  <2>9. QED
    BY <1>5, <2>1, <2>8 DEF n, Joined
<1>8. QED
  BY <1>6, <1>7

(* A machine with the transition function F reads word in state s and ends   *)
(* in state t.                                                               *)
Run(F, s, word, t) ==
    \E g : /\ g[0] = s /\ g[Len(word)] = t
           /\ \A i \in 1..Len(word) : g[i] = F[g[i - 1]][word[i]]

(* A machine that reads nothing stays where it is.                           *)
LEMMA RunNothing ==
    ASSUME NEW F, NEW s
    PROVE  Run(F, s, <<>>, s)
<1> DEFINE g == [i \in {0} |-> s]
<1>1. g[0] = s /\ Len(<<>>) = 0 /\ \A i \in 1..0 : g[i] = F[g[i - 1]][<<>>[i]]
  OBVIOUS
<1> HIDE DEF g
<1>2. QED
  BY <1>1 DEF Run

(* A machine reads one letter.                                               *)
LEMMA RunOne ==
    ASSUME NEW F, NEW s, NEW c
    PROVE  Run(F, s, <<c>>, F[s][c])
<1> DEFINE t == F[s][c]
           g == [i \in 0..1 |-> IF i = 0 THEN s ELSE t]
           w == <<c>>
<1>1. g[0] = s /\ g[1] = t /\ Len(w) = 1 /\ w[1] = c
  OBVIOUS
<1> HIDE DEF g, w
<1>2. \A i \in 1..Len(w) : g[i] = F[g[i - 1]][w[i]]
  BY <1>1
<1>3. Run(F, s, w, t)
  BY <1>1, <1>2 DEF Run
<1>4. QED
  BY <1>3 DEF w

(* Two words read one after the other.                                       *)
LEMMA RunJoined ==
    ASSUME NEW C, NEW a \in Seq(C), NEW b \in Seq(C), NEW F, NEW s, NEW t, NEW u,
           Run(F, s, a, t), Run(F, t, b, u)
    PROVE  Run(F, s, a \o b, u)
<1> DEFINE n == Len(a)
           m == Len(b)
           w == a \o b
<1>1. n \in Nat /\ m \in Nat /\ Len(w) = n + m
  OBVIOUS
<1>2. (\A i \in 1..n : w[i] = a[i]) /\ \A i \in 1..m : w[n + i] = b[i]
  OBVIOUS
<1>3. PICK g : g[0] = s /\ g[n] = t /\ \A i \in 1..n : g[i] = F[g[i - 1]][a[i]]
  BY DEF Run
<1>4. PICK h : h[0] = t /\ h[m] = u /\ \A i \in 1..m : h[i] = F[h[i - 1]][b[i]]
  BY DEF Run
<1> HIDE DEF n, m, w
<1> DEFINE k == [i \in 0..n + m |-> IF i <= n THEN g[i] ELSE h[i - n]]
<1>5. k[0] = s
  BY <1>1, <1>3
<1>6. \A i \in 0..n : k[i] = g[i]
  BY <1>1
<1>7. \A i \in 0..m : k[n + i] = h[i]
  <2> SUFFICES ASSUME NEW i \in 0..m PROVE k[n + i] = h[i]
    OBVIOUS
  <2>1. CASE i = 0
    BY <1>1, <1>3, <1>4, <2>1
  <2>2. CASE i # 0
    <3>1. n + i \in 0..n + m /\ ~(n + i <= n) /\ (n + i) - n = i
      BY <1>1, <2>2
    <3>2. QED
      BY <3>1
  <2>3. QED
    BY <2>1, <2>2
<1> HIDE DEF k
<1>8. k[n + m] = u
  BY <1>1, <1>4, <1>7
<1>9. ASSUME NEW i \in 1..n + m PROVE k[i] = F[k[i - 1]][w[i]]
  <2>1. CASE i \in 1..n
    <3>1. i \in 0..n /\ i - 1 \in 0..n
      BY <1>1, <2>1, Places
    <3>2. QED
      BY <1>2, <1>3, <1>6, <2>1, <3>1
  <2>2. CASE i \notin 1..n
    <3>1. i - n \in 1..m /\ i - n \in 0..m /\ (i - n) - 1 \in 0..m /\ n + (i - n) = i
          /\ n + ((i - n) - 1) = i - 1
      BY <1>1, <2>2
    <3>2. k[i] = h[i - n] /\ k[i - 1] = h[(i - n) - 1] /\ w[i] = b[i - n]
      BY <1>2, <1>7, <3>1
    <3>3. h[i - n] = F[h[(i - n) - 1]][b[i - n]]
      BY <1>4, <3>1
    <3>4. QED
      BY <3>2, <3>3
  <2>3. QED
    BY <2>1, <2>2
<1>10. Run(F, s, w, u)
  <2>1. k[0] = s /\ k[Len(w)] = u /\ \A i \in 1..Len(w) : k[i] = F[k[i - 1]][w[i]]
    BY <1>1, <1>5, <1>8, <1>9
  <2>2. QED
    BY <2>1 DEF Run
<1>11. QED
  BY <1>10 DEF w

(* A machine ends in one state only.                                         *)
LEMMA RunDetermined ==
    ASSUME NEW C, NEW word \in Seq(C), NEW F, NEW s, NEW t, NEW u,
           Run(F, s, word, t), Run(F, s, word, u)
    PROVE  t = u
<1> DEFINE n == Len(word)
<1>1. n \in Nat
  OBVIOUS
<1>2. PICK g : g[0] = s /\ g[n] = t /\ \A i \in 1..n : g[i] = F[g[i - 1]][word[i]]
  BY DEF Run
<1>3. PICK h : h[0] = s /\ h[n] = u /\ \A i \in 1..n : h[i] = F[h[i - 1]][word[i]]
  BY DEF Run
<1> HIDE DEF n
<1> DEFINE T == { i \in 0..n : g[i] = h[i] }
<1>4. 0 \in T
  BY <1>1, <1>2, <1>3
<1>5. ASSUME NEW i \in 0..n - 1, i \in T PROVE i + 1 \in T
  <2>1. i + 1 \in 1..n /\ i + 1 \in 0..n /\ (i + 1) - 1 = i
    BY <1>1
  <2>2. g[i] = h[i]
    BY <1>5
  <2>3. g[i + 1] = h[i + 1]
    BY <1>2, <1>3, <2>1, <2>2
  <2>4. QED
    BY <2>1, <2>3
<1> HIDE DEF T
<1>6. \A i \in 0..n : i \in T
  BY <1>1, <1>4, <1>5, Upwards
<1>7. g[n] = h[n]
  <2>1. n \in 0..n
    BY <1>1
  <2>2. QED
    BY <1>6, <2>1 DEF T
<1>8. QED
  BY <1>2, <1>3, <1>7

-----------------------------------------------------------------------------
(* Integers (IntegerValues).                                                 *)

(* Half the number of values of each width.                                  *)
Half8  == 2^(Bits8 - 1)
Half16 == 2^(Bits16 - 1)
Half32 == 2^(Bits32 - 1)
Half64 == 2^(Bits64 - 1)

(* The ranges of the widths double, at least, from one to the next.          *)
LEMMA Halves ==
    /\ Half8 \in Nat /\ Half16 \in Nat /\ Half32 \in Nat /\ Half64 \in Nat
    /\ 1 <= Half8 /\ 2 * Half8 <= Half16 /\ 2 * Half16 <= Half32 /\ 2 * Half32 <= Half64
    /\ 2^Bits8 = 2 * Half8 /\ 2^Bits16 = 2 * Half16 /\ 2^Bits32 = 2 * Half32 /\ 2^Bits64 = 2 * Half64
  BY PowersOfTwo DEF Half8, Half16, Half32, Half64

(* The ranges of the types.                                                  *)
LEMMA Sizes ==
    /\ 2^Bits("int16") = 2 * Half16 /\ MinOf("int16") = -Half16 /\ MaxOf("int16") = Half16 - 1
    /\ 2^Bits("uint16") = 2 * Half16 /\ MinOf("uint16") = 0 /\ MaxOf("uint16") = 2 * Half16 - 1
    /\ 2^Bits("int32") = 2 * Half32 /\ MinOf("int32") = -Half32 /\ MaxOf("int32") = Half32 - 1
    /\ 2^Bits("uint32") = 2 * Half32 /\ MinOf("uint32") = 0 /\ MaxOf("uint32") = 2 * Half32 - 1
    /\ 2^Bits("int64") = 2 * Half64 /\ MinOf("int64") = -Half64 /\ MaxOf("int64") = Half64 - 1
    /\ 2^Bits("uint64") = 2 * Half64 /\ MinOf("uint64") = 0 /\ MaxOf("uint64") = 2 * Half64 - 1
    /\ MinOf("int") = -Half64 /\ MaxOf("int") = Half64 - 1
    /\ MinOf("uint") = 0 /\ MaxOf("uint") = 2 * Half64 - 1
    /\ MinOf("uint8") = 0 /\ MaxOf("uint8") = 2 * Half8 - 1
<1>1. /\ Bits("int16") = Bits16 /\ Bits("uint16") = Bits16
      /\ Bits("int32") = Bits32 /\ Bits("uint32") = Bits32
      /\ Bits("int64") = Bits64 /\ Bits("uint64") = Bits64
      /\ Bits("int") = Bits64 /\ Bits("uint") = Bits64 /\ Bits("uint8") = Bits8
  BY DEF Bits
<1>2. /\ MinOf("int16") = -Half16 /\ MaxOf("int16") = Half16 - 1
      /\ MinOf("int32") = -Half32 /\ MaxOf("int32") = Half32 - 1
      /\ MinOf("int64") = -Half64 /\ MaxOf("int64") = Half64 - 1
      /\ MinOf("int") = -Half64 /\ MaxOf("int") = Half64 - 1
  BY <1>1 DEF MinOf, MaxOf, SignedTypes, Half16, Half32, Half64
<1>3. /\ MinOf("uint16") = 0 /\ MaxOf("uint16") = 2^Bits16 - 1
      /\ MinOf("uint32") = 0 /\ MaxOf("uint32") = 2^Bits32 - 1
      /\ MinOf("uint64") = 0 /\ MaxOf("uint64") = 2^Bits64 - 1
      /\ MinOf("uint") = 0 /\ MaxOf("uint") = 2^Bits64 - 1
      /\ MinOf("uint8") = 0 /\ MaxOf("uint8") = 2^Bits8 - 1
  BY <1>1 DEF MinOf, MaxOf, SignedTypes
<1>4. QED
  BY <1>1, <1>2, <1>3, Halves

(* The remainder keeps a number of the range and moves a negative one up.    *)
LEMMA Modulo ==
    ASSUME NEW h \in Nat, 1 <= h, NEW v \in Int
    PROVE  /\ 0 <= v /\ v < 2 * h => v % (2 * h) = v
           /\ v < 0 /\ -h <= v => v % (2 * h) = v + 2 * h
<1>1. ASSUME NEW m \in Nat, 1 <= m, 0 <= v, v < m PROVE v % m = v
  BY <1>1
<1>2. ASSUME NEW m \in Nat, 1 <= m, v < 0, -m <= v PROVE v % m = v + m
  BY <1>2
<1>3. 2 * h \in Nat /\ 1 <= 2 * h /\ (-h <= v => -(2 * h) <= v)
  OBVIOUS
<1>4. QED
  BY <1>1, <1>2, <1>3

(* A conversion to a type keeps the values of that type.                     *)
LEMMA ConvertKeeps ==
    ASSUME NEW t \in ColumnTypes, NEW v \in Int, InRange(v, t)
    PROVE  Convert(v, t) = v
<1>1. CASE t \in {"int16", "int32", "int64"}
  <2>1. PICK h \in Nat : 1 <= h /\ 2^Bits(t) = 2 * h /\ MinOf(t) = -h /\ MaxOf(t) = h - 1
    BY <1>1, Sizes, Halves
  <2>2. CASE v < 0
    <3>1. v % (2 * h) = v + 2 * h
      BY <2>1, <2>2, Modulo DEF InRange
    <3>2. QED
      BY <2>1, <2>2, <3>1 DEF Convert, InRange
  <2>3. CASE 0 <= v
    <3>1. v % (2 * h) = v
      BY <2>1, <2>3, Modulo DEF InRange
    <3>2. QED
      BY <2>1, <2>3, <3>1 DEF Convert, InRange
  <2>4. QED
    BY <2>2, <2>3
<1>2. CASE t \in {"uint16", "uint32", "uint64"}
  <2>1. PICK h \in Nat : 1 <= h /\ 2^Bits(t) = 2 * h /\ MinOf(t) = 0 /\ MaxOf(t) = 2 * h - 1
    BY <1>2, Sizes, Halves
  <2>2. v % (2 * h) = v
    BY <2>1, Modulo DEF InRange
  <2>3. QED
    BY <2>1, <2>2 DEF Convert, InRange
<1>3. QED
  BY <1>1, <1>2 DEF ColumnTypes

(* A uint64 seen as an int64 is itself, or negative.                         *)
LEMMA ConvertUnsigned ==
    ASSUME NEW v \in Int, InRange(v, "uint64")
    PROVE  Convert(v, "int64") = IF v <= MaxOf("int64") THEN v ELSE v - 2 * Half64
<1>1. v % (2 * Half64) = v
  BY Modulo, Sizes, Halves DEF InRange
<1>2. QED
  BY <1>1, Sizes, Halves DEF Convert

(* A value is neither NULL nor a failure.                                    *)
LEMMA Values ==
    ASSUME NEW t \in GoTypes, NEW v
    PROVE  Value(t, v).type = t /\ Value(t, v).v = v /\ Value(t, v) # Failure /\ Value(t, v) # Null
  BY DEF Value, Failure, Null, GoTypes, SignedTypes, UnsignedTypes

(* The wider types hold the values of the narrower ones.                     *)
LEMMA Fitting ==
    ASSUME NEW t \in GoTypes, NEW v \in MinOf(t)..MaxOf(t)
    PROVE  /\ v \in Int /\ MinOf(t) \in Int /\ MaxOf(t) \in Int
           /\ t \in SignedTypes => v >= MinOf("int64") /\ v <= MaxOf("int64")
           /\ t \in UnsignedTypes => v >= 0 /\ v <= MaxOf("uint64")
           /\ MinOf("int64") \in Int /\ MaxOf("int64") \in Int
           /\ MinOf("int64") < 0 /\ MaxOf("int64") < MaxOf("uint64") /\ MaxOf("uint64") \in Int
<1>1. MinOf(t) \in Int /\ MaxOf(t) \in Int
  BY Sizes, Halves DEF GoTypes, SignedTypes, UnsignedTypes
<1>2. v \in Int /\ MinOf(t) <= v /\ v <= MaxOf(t)
  BY <1>1
<1>3. t \in SignedTypes => MinOf(t) >= MinOf("int64") /\ MaxOf(t) <= MaxOf("int64")
  BY Sizes, Halves DEF SignedTypes
<1>4. t \in UnsignedTypes => MinOf(t) = 0 /\ MaxOf(t) <= MaxOf("uint64")
  BY Sizes, Halves DEF UnsignedTypes
<1>5. /\ MinOf("int64") \in Int /\ MaxOf("int64") \in Int /\ MaxOf("uint64") \in Int
      /\ MinOf("int64") < 0 /\ MaxOf("int64") < MaxOf("uint64")
  BY Sizes, Halves
<1>6. QED
  BY <1>1, <1>2, <1>3, <1>4, <1>5

-----------------------------------------------------------------------------
(* An integer argument of any Go type and any value, at the real widths too, *)
(* reaches the server as itself, and one too large for int64 is refused:     *)
(* the 32-bit binding of int and the cut of encodeBoundParam never change a  *)
(* number (normalizeNamedValue, bindParams, encodeBoundParam).               *)
THEOREM ArgumentsBoundExactly ==
    \A t \in GoTypes : \A v \in MinOf(t)..MaxOf(t) : BoundExactly(Value(t, v))
<1> SUFFICES ASSUME NEW t \in GoTypes, NEW v \in MinOf(t)..MaxOf(t)
             PROVE  BoundExactly(Value(t, v))
  OBVIOUS
<1> DEFINE x == Value(t, v)
<1>1. x.type = t /\ x.v = v
  BY Values
<1>2. /\ v \in Int
      /\ t \in SignedTypes => v >= MinOf("int64") /\ v <= MaxOf("int64")
      /\ t \in UnsignedTypes => v >= 0 /\ v <= MaxOf("uint64")
      /\ MinOf("int64") < 0 /\ MinOf("int64") \in Int /\ MaxOf("int64") \in Int
  BY Fitting
<1> HIDE DEF x
(* What EncodeBoundParam makes of a value that its signed type holds.        *)
<1>3. ASSUME NEW s \in {"int16", "int32", "int64"}, NEW y, y.v = v, InRange(v, s), v <= MaxOf("int64")
      PROVE  EncodeBoundParam(s, y) # Failure /\ EncodeBoundParam(s, y).v = v
  <2>1. Convert(v, s) = v
    BY <1>2, <1>3, ConvertKeeps DEF ColumnTypes
  <2>2. EncodeBoundParam(s, y) = Value(s, v)
    BY <1>3, <2>1 DEF EncodeBoundParam, SignedTypes
  <2>3. QED
    BY <2>2, Values DEF GoTypes, SignedTypes
<1>4. CASE t = "int" /\ InRange(v, "int32")
  <2>1. NormalizeNamedValue(x) = x /\ x # Failure /\ BindType(x.type) = "int32"
    BY <1>1, <1>4, Values DEF NormalizeNamedValue, BindType, x
  <2>2. BoundParam(x) = EncodeBoundParam("int32", x)
    BY <2>1 DEF BoundParam
  <2>3. v <= MaxOf("int64")
    BY <1>2, <1>4 DEF SignedTypes
  <2>4. BoundParam(x) # Failure /\ BoundParam(x).v = v
    BY <1>1, <1>3, <1>4, <2>2, <2>3
  <2>5. QED
    BY <1>1, <1>2, <2>3, <2>4 DEF BoundExactly, x
<1>5. CASE t = "int" /\ ~InRange(v, "int32")
  <2> DEFINE y == Value("int64", v)
  <2>1. y # Failure /\ y.type = "int64" /\ y.v = v
    BY Values DEF GoTypes, SignedTypes
  <2>2. NormalizeNamedValue(x) = y
    BY <1>1, <1>5 DEF NormalizeNamedValue
  <2> HIDE DEF y
  <2>3. BoundParam(x) = EncodeBoundParam("int64", y)
    BY <2>1, <2>2 DEF BoundParam, BindType
  <2>4. v <= MaxOf("int64") /\ InRange(v, "int64")
    BY <1>2, <1>5 DEF SignedTypes, InRange
  <2>5. BoundParam(x) # Failure /\ BoundParam(x).v = v
    BY <1>3, <2>1, <2>3, <2>4
  <2>6. QED
    BY <1>1, <1>2, <2>4, <2>5 DEF BoundExactly, x
<1>6. CASE t \in {"int16", "int32", "int64"}
  <2>1. NormalizeNamedValue(x) = x /\ x # Failure /\ BindType(x.type) = t
    BY <1>1, <1>6, Values DEF NormalizeNamedValue, BindType, x
  <2>2. BoundParam(x) = EncodeBoundParam(t, x)
    BY <2>1 DEF BoundParam
  <2>3. v <= MaxOf("int64") /\ InRange(v, t)
    BY <1>2, <1>6, Fitting DEF SignedTypes, InRange
  <2>4. BoundParam(x) # Failure /\ BoundParam(x).v = v
    BY <1>1, <1>3, <1>6, <2>2, <2>3
  <2>5. QED
    BY <1>1, <1>2, <2>3, <2>4 DEF BoundExactly, x
<1>7. CASE t \in UnsignedTypes /\ v > MaxOf("int64")
  <2>1. NormalizeNamedValue(x) = Failure
    BY <1>1, <1>7 DEF NormalizeNamedValue, UnsignedTypes
  <2>2. QED
    BY <1>1, <1>7, <2>1 DEF BoundExactly, BoundParam, x
<1>8. CASE t \in UnsignedTypes /\ ~(v > MaxOf("int64"))
  <2> DEFINE y == Value("int64", v)
  <2>1. y # Failure /\ y.type = "int64" /\ y.v = v
    BY Values DEF GoTypes, SignedTypes
  <2>2. NormalizeNamedValue(x) = y
    BY <1>1, <1>8 DEF NormalizeNamedValue, UnsignedTypes
  <2> HIDE DEF y
  <2>3. BoundParam(x) = EncodeBoundParam("int64", y)
    BY <2>1, <2>2 DEF BoundParam, BindType
  <2>4. v <= MaxOf("int64") /\ InRange(v, "int64")
    BY <1>2, <1>8 DEF InRange
  <2>5. BoundParam(x) # Failure /\ BoundParam(x).v = v
    BY <1>3, <2>1, <2>3, <2>4
  <2>6. QED
    BY <1>1, <1>2, <2>4, <2>5 DEF BoundExactly, x
<1>9. QED
  BY <1>4, <1>5, <1>6, <1>7, <1>8 DEF GoTypes, SignedTypes

-----------------------------------------------------------------------------
(* What is encoded: the number itself, which the column holds, or nothing.   *)
LEMMA Encoded ==
    ASSUME NEW t \in GoTypes, NEW v \in MinOf(t)..MaxOf(t), NEW column \in ColumnTypes,
           NEW element \in BOOLEAN
    PROVE  LET e == EncodeAppendColumnValue(column, Value(t, v), element)
               sentinel == (element \/ column = "uint64") /\ v = NullSentinel(column)
           IN  \/ e = Failure /\ (~InRange(v, column) \/ t = "uint8" \/ sentinel)
               \/ e = Value(column, v) /\ InRange(v, column) /\ ~sentinel
<1> DEFINE x == Value(t, v)
           y == ToColumnInteger(column, x)
           sentinel == (element \/ column = "uint64") /\ v = NullSentinel(column)
<1>1. x.type = t /\ x.v = v /\ x # Failure
  BY Values
<1>2. v \in Int /\ MaxOf("int64") \in Int
  BY Fitting
<1>3. y = Failure \/ y = x
  BY DEF ToColumnInteger
<1>4. y = Failure => ~InRange(v, column) \/ t = "uint8"
  <2>1. column \in SignedTypes => MaxOf(column) <= MaxOf("int64") /\ MaxOf(column) \in Int
    BY Sizes, Halves DEF ColumnTypes, SignedTypes
  <2>2. column \in UnsignedTypes => MinOf(column) = 0
    BY Sizes DEF UnsignedTypes
  <2>3. \/ t = "uint8" \/ y = x
        \/ column \in SignedTypes /\ v > MaxOf("int64")
        \/ column \in UnsignedTypes /\ v < 0
    BY <1>1 DEF ToColumnInteger
  <2>4. QED
    BY <1>1, <1>2, <2>1, <2>2, <2>3 DEF InRange
<1> HIDE DEF x
<1>5. EncodeAppendColumnValue(column, x, element)
        = IF y = Failure \/ ~InRange(y.v, column)
             \/ ((element \/ column = "uint64") /\ y.v = NullSentinel(column))
          THEN Failure ELSE Value(column, y.v)
  BY DEF EncodeAppendColumnValue
<1> HIDE DEF y
<1>6. CASE y = Failure
  BY <1>4, <1>5, <1>6 DEF x
<1>7. CASE y = x
  BY <1>1, <1>5, <1>7 DEF x
<1>8. QED
  BY <1>3, <1>6, <1>7

(* A number the column holds, other than its sentinel, through decodeField   *)
(* and toDriverValue.                                                        *)
LEMMA ReadBack ==
    ASSUME NEW column \in ColumnTypes, NEW v \in Int, InRange(v, column), v # NullSentinel(column),
           NEW form \in {"plain", "wrapper", "pointer"}
    PROVE  LET decoded == DecodeFixedField(column, v)
               native == ScanInto(decoded, column, form)
               sqlRead == ReadThroughSql(column, decoded)
           IN  /\ \/ sqlRead = Value(column, v)
                  \/ sqlRead = Failure /\ column = "uint64" /\ v > MaxOf("int64")
               /\ \/ native = Value(column, v)
                  \/ native = Failure /\ \/ column = "uint64" /\ v = MaxOf("int64") + 1
                                         \/ form = "wrapper" /\ column \in {"uint16", "uint32"}
<1> DEFINE decoded == DecodeFixedField(column, v)
(* The value was decoded as w of type d.                                     *)
<1>1. ASSUME NEW d \in {"int16", "int32", "int64"}, NEW w, decoded = Value(d, w)
      PROVE  /\ ReadThroughSql(column, decoded) =
                  IF InRange(w, column) THEN Value(column, w) ELSE Failure
             /\ ScanInto(decoded, column, form) =
                  IF w = MinOf(d) \/ (form = "wrapper" /\ column \notin NullWrappers(d))
                  THEN Failure ELSE Value(column, Convert(w, column))
  <2>1. decoded.type = d /\ decoded.v = w /\ decoded # Null
    BY <1>1, Values DEF GoTypes, SignedTypes
  <2> HIDE DEF decoded
  <2>2. QED
    BY <2>1 DEF ReadThroughSql, ColumnTypeScanType, ScanInto, ScanInteger
<1>2. CASE column \in {"int16", "int32", "int64"}
  <2>1. decoded = Value(column, v)
    BY <1>2 DEF DecodeFixedField
  <2>2. v # MinOf(column) /\ column \in NullWrappers(column)
    BY <1>2 DEF NullSentinel, SignedTypes, NullWrappers
  <2>3. Convert(v, column) = v
    BY ConvertKeeps
  <2>4. QED
    BY <1>1, <1>2, <2>1, <2>2, <2>3
<1>3. CASE column \in {"uint16", "uint32"}
  <2>1. PICK d \in {"int32", "int64"} : decoded = Value(d, v)
    BY <1>3 DEF DecodeFixedField
  <2>2. v # MinOf(d)
    BY <1>3, Sizes, Halves DEF InRange
  <2>3. Convert(v, column) = v
    BY ConvertKeeps
  <2>4. QED
    BY <1>1, <1>3, <2>1, <2>2, <2>3
<1>4. CASE column = "uint64"
  <2> DEFINE w == Convert(v, "int64")
  <2>1. decoded = Value("int64", w) /\ column \in NullWrappers("int64")
    BY <1>4 DEF DecodeFixedField, NullWrappers
  <2>2. w = IF v <= MaxOf("int64") THEN v ELSE v - 2 * Half64
    BY <1>4, ConvertUnsigned
  <2> HIDE DEF w
  <2>3. CASE v <= MaxOf("int64")
    <3>1. w = v /\ InRange(w, column) /\ w # MinOf("int64")
      BY <1>4, <2>2, <2>3, Sizes, Halves DEF InRange
    <3>2. Convert(w, column) = v
      BY <3>1, ConvertKeeps
    <3>3. QED
      BY <1>1, <2>1, <3>1, <3>2
  <2>4. CASE ~(v <= MaxOf("int64"))
    <3>1. /\ w = v - 2 * Half64 /\ w \in Int /\ -Half64 <= w /\ w < 0 /\ v > MaxOf("int64")
          /\ w = MinOf("int64") => v = MaxOf("int64") + 1
      BY <1>4, <2>2, <2>4, Sizes, Halves DEF InRange
    <3>2. ~InRange(w, column)
      BY <1>4, <3>1, Sizes, Halves DEF InRange
    <3>3. w % (2 * Half64) = v
      BY <3>1, Modulo, Halves
    <3>4. Convert(w, column) = v
      BY <1>4, <3>3, Sizes, Halves DEF Convert, InRange
    <3>5. QED
      BY <1>1, <1>4, <2>1, <3>1, <3>2, <3>4
  <2>5. QED
    BY <2>3, <2>4
<1>5. QED
  BY <1>2, <1>3, <1>4 DEF ColumnTypes

(* An appended integer of any Go type and any value, at the real widths too, *)
(* is read back as itself, as NULL if it is the sentinel of its column, or   *)
(* not at all, never as another number; an ARRAY element is never NULL       *)
(* (encodeAppendColumnValue, decodeFixedField, Scan, toDriverValue).         *)
THEOREM AppendedReadBackExactly ==
    \A t \in GoTypes : \A v \in MinOf(t)..MaxOf(t) :
        \A column \in ColumnTypes, element \in BOOLEAN, form \in {"plain", "wrapper", "pointer"} :
            ReadBackExactly(column, Value(t, v), element, form)
<1> SUFFICES ASSUME NEW t \in GoTypes, NEW v \in MinOf(t)..MaxOf(t), NEW column \in ColumnTypes,
                    NEW element \in BOOLEAN, NEW form \in {"plain", "wrapper", "pointer"}
             PROVE  ReadBackExactly(column, Value(t, v), element, form)
  OBVIOUS
<1> DEFINE x == Value(t, v)
           encoded == EncodeAppendColumnValue(column, x, element)
<1>1. x.type = t /\ x.v = v
  BY Values
<1>2. v \in Int
  BY Fitting
<1>3. \/ encoded = Failure /\ \/ ~InRange(v, column) \/ t = "uint8"
                              \/ (element \/ column = "uint64") /\ v = NullSentinel(column)
      \/ /\ encoded = Value(column, v) /\ InRange(v, column)
         /\ ~((element \/ column = "uint64") /\ v = NullSentinel(column))
  BY Encoded
<1>4. Value(column, v) # Failure /\ Value(column, v).v = v /\ Value(column, v) # Null
  BY Values DEF ColumnTypes, GoTypes, SignedTypes, UnsignedTypes
<1> HIDE DEF x
<1>5. CASE encoded = Failure
  BY <1>1, <1>3, <1>4, <1>5 DEF ReadBackExactly, x
<1>6. CASE encoded = Value(column, v) /\ v = NullSentinel(column)
  <2>1. DecodeFixedField(column, v) = Null /\ ~element
    BY <1>3, <1>4, <1>6 DEF DecodeFixedField
  <2>2. ReadThroughSql(column, Null) = Null /\ ScanInto(Null, column, form) = ScanNull(form)
    BY DEF ReadThroughSql, ScanInto
  <2>3. encoded # Failure /\ encoded.v = v
    BY <1>4, <1>6
  <2> HIDE DEF encoded
  <2>4. QED
    BY <1>1, <1>6, <2>1, <2>2, <2>3 DEF ReadBackExactly, x, encoded, ColumnTypeScanType, ScanNull
<1>7. CASE encoded = Value(column, v) /\ v # NullSentinel(column) /\ InRange(v, column)
  <2> DEFINE decoded == DecodeFixedField(column, v)
             native == ScanInto(decoded, column, form)
             sqlRead == ReadThroughSql(column, decoded)
  <2>1. /\ \/ sqlRead = Value(column, v)
           \/ sqlRead = Failure /\ column = "uint64" /\ v > MaxOf("int64")
        /\ \/ native = Value(column, v)
           \/ native = Failure /\ \/ column = "uint64" /\ v = MaxOf("int64") + 1
                                  \/ form = "wrapper" /\ column \in {"uint16", "uint32"}
    BY <1>2, <1>7, ReadBack
  <2>2. encoded # Failure /\ encoded.v = v
    BY <1>4, <1>7
  <2>3. QED
    BY <1>1, <1>4, <1>7, <2>1, <2>2 DEF ReadBackExactly, x, ColumnTypeScanType
<1>8. QED
  BY <1>3, <1>4, <1>5, <1>6, <1>7

-----------------------------------------------------------------------------
(* Structs as parameters (StructScan).                                       *)

Leaf(T) == [tag : T, anonymous : BOOLEAN, nested : {<<>>}, kind : T, nullable : BOOLEAN,
         options : BOOLEAN]
Declaration(T) == [tag : T, anonymous : BOOLEAN, nested : Seq(Leaf(T)), kind : T,
                nullable : BOOLEAN, options : BOOLEAN]
FieldNames(T) == Seq(T) \ {<<>>}
Mapped(T) == [name : FieldNames(T), index : Seq(Nat), kind : T, nullable : BOOLEAN, options : BOOLEAN]

(* Fields joined are fields.                                                 *)
LEMMA JoinedFields ==
    ASSUME NEW T, NEW q \in Seq(Seq(Mapped(T)))
    PROVE  FlattenSeq(q) \in Seq(Mapped(T))
<1>1. Joined(Mapped(T), q)
  BY Flattening
<1>2. Len(q) \in 0..Len(q)
  OBVIOUS
<1>3. QED
  BY <1>1, <1>2 DEF Joined

(* The fields of a nested struct (walkStruct).                               *)
LEMMA NestedFields ==
    ASSUME NEW T, NEW prefix \in Seq(T), NEW nested \in Seq(Leaf(T)), NEW at \in Nat
    PROVE  WalkNested(prefix, nested, at) \in Seq(Mapped(T))
<1> DEFINE rec(j) == [name |-> Append(prefix, nested[j].tag), index |-> <<at, j>>,
                      kind |-> nested[j].kind, nullable |-> nested[j].nullable,
                      options |-> nested[j].options]
           leaf(j) == IF nested[j].tag \in {"", "-"} THEN <<>> ELSE <<rec(j)>>
           q == [j \in DOMAIN nested |-> leaf(j)]
<1>1. WalkNested(prefix, nested, at) = FlattenSeq(q)
  BY DEF WalkNested
<1>2. ASSUME NEW j \in DOMAIN nested PROVE leaf(j) \in Seq(Mapped(T))
  <2>1. nested[j] \in Leaf(T) /\ j \in Nat
    OBVIOUS
  <2>2. /\ nested[j].tag \in T /\ nested[j].kind \in T
        /\ nested[j].nullable \in BOOLEAN /\ nested[j].options \in BOOLEAN
    BY <2>1 DEF Leaf
  <2>3. Append(prefix, nested[j].tag) \in FieldNames(T)
    BY <2>2 DEF FieldNames
  <2>4. <<at, j>> \in Seq(Nat)
    BY <2>1
  <2>5. rec(j) \in Mapped(T)
    BY <2>2, <2>3, <2>4 DEF Mapped
  <2> HIDE DEF rec
  <2>6. <<rec(j)>> \in Seq(Mapped(T)) /\ <<>> \in Seq(Mapped(T))
    BY <2>5
  <2>7. QED
    BY <2>6
<1> HIDE DEF leaf
<1>3. q \in Seq(Seq(Mapped(T)))
  <2>1. q \in [1..Len(nested) -> Seq(Mapped(T))] /\ Len(nested) \in Nat
    BY <1>2
  <2>2. QED
    BY <2>1, SequenceOf
<1>4. QED
  BY <1>1, <1>3, JoinedFields

(* The fields of a struct (walkStruct).                                      *)
LEMMA StructFields ==
    ASSUME NEW T, NEW decls \in Seq(Declaration(T))
    PROVE  WalkStruct(decls) \in Seq(Mapped(T))
<1> DEFINE rec(i) == [name |-> <<decls[i].tag>>, index |-> <<i>>, kind |-> decls[i].kind,
                      nullable |-> decls[i].nullable, options |-> decls[i].options]
           walk(i) ==
               LET d == decls[i] IN
               CASE d.tag = "-" -> <<>>
                 [] d.tag = "" /\ d.nested # <<>> /\ d.anonymous -> WalkNested(<<>>, d.nested, i)
                 [] d.tag \notin {"", "-"} /\ d.nested # <<>> -> WalkNested(<<d.tag>>, d.nested, i)
                 [] d.tag \notin {"", "-"} /\ d.nested = <<>> -> <<rec(i)>>
                 [] OTHER -> <<>>
           q == [i \in DOMAIN decls |-> walk(i)]
<1>1. WalkStruct(decls) = FlattenSeq(q)
  BY DEF WalkStruct
<1>2. ASSUME NEW i \in DOMAIN decls PROVE walk(i) \in Seq(Mapped(T))
  <2>1. decls[i] \in Declaration(T) /\ i \in Nat
    OBVIOUS
  <2>2. /\ decls[i].tag \in T /\ decls[i].kind \in T /\ decls[i].nested \in Seq(Leaf(T))
        /\ decls[i].nullable \in BOOLEAN /\ decls[i].options \in BOOLEAN
    BY <2>1 DEF Declaration
  <2>3. rec(i) \in Mapped(T)
    <3>1. <<decls[i].tag>> \in FieldNames(T) /\ <<i>> \in Seq(Nat)
      BY <2>1, <2>2 DEF FieldNames
    <3>2. QED
      BY <2>2, <3>1 DEF Mapped
  <2>4. /\ WalkNested(<<>>, decls[i].nested, i) \in Seq(Mapped(T))
        /\ WalkNested(<<decls[i].tag>>, decls[i].nested, i) \in Seq(Mapped(T))
    <3>1. <<>> \in Seq(T) /\ <<decls[i].tag>> \in Seq(T)
      BY <2>2
    <3>2. QED
      BY <2>1, <2>2, <3>1, NestedFields
  <2> HIDE DEF rec
  <2>5. <<rec(i)>> \in Seq(Mapped(T)) /\ <<>> \in Seq(Mapped(T))
    BY <2>3
  <2>6. QED
    BY <2>4, <2>5
<1> HIDE DEF walk
<1>3. q \in Seq(Seq(Mapped(T)))
  <2>1. q \in [1..Len(decls) -> Seq(Mapped(T))] /\ Len(decls) \in Nat
    BY <1>2
  <2>2. QED
    BY <2>1, SequenceOf
<1>4. QED
  BY <1>1, <1>3, JoinedFields

(* What StructMapOf accepts.                                                 *)
LEMMA MapFields ==
    ASSUME NEW T, NEW decls \in Seq(Declaration(T)), StructMapOf(decls) # BadPlan
    PROVE  LET fields == StructMapOf(decls)
           IN  /\ fields \in Seq(Mapped(T)) /\ fields # <<>> /\ Len(fields) \in Nat /\ Len(fields) >= 1
               /\ DOMAIN fields = 1..Len(fields)
               /\ \A i, j \in DOMAIN fields : fields[i].name = fields[j].name => i = j
<1> DEFINE fields == WalkStruct(decls)
<1>1. fields \in Seq(Mapped(T))
  BY StructFields
<1> HIDE DEF fields
<1>2. StructMapOf(decls) = fields /\ fields # <<>>
      /\ \A i, j \in DOMAIN fields : fields[i].name = fields[j].name => i = j
  BY DEF StructMapOf, BadPlan, fields
<1>3. QED
  BY <1>1, <1>2

(* structMap.lookup finds the field of a name.                               *)
LEMMA LookedUp ==
    ASSUME NEW T, NEW fields \in Seq(Mapped(T)), NEW name
    PROVE  /\ Lookup(fields, name) = 0 => \A i \in DOMAIN fields : fields[i].name # name
           /\ Lookup(fields, name) # 0 => /\ Lookup(fields, name) \in DOMAIN fields
                                          /\ fields[Lookup(fields, name)].name = name
<1> DEFINE I == { i \in 1..Len(fields) : fields[i].name = name }
<1>1. Lookup(fields, name) = IF I # {} THEN Min(I) ELSE 0
  BY DEF Lookup, SelectInSeq
<1>2. I \in SUBSET Nat /\ DOMAIN fields = 1..Len(fields) /\ 0 \notin I
  OBVIOUS
<1>3. CASE I = {}
  BY <1>1, <1>2, <1>3
<1>4. CASE I # {}
  <2>1. Min(I) \in I
    BY <1>2, <1>4, Smallest
  <2>2. QED
    BY <1>1, <1>2, <1>4, <2>1
<1>5. QED
  BY <1>3, <1>4
-----------------------------------------------------------------------------

(* A struct given for the named parameters of a statement gives every        *)
(* parameter the value of the field that a column of that name is scanned    *)
(* into, also if a parameter occurs twice, and is refused exactly if a       *)
(* parameter or a field is left over; for any struct, nested and tagged in   *)
(* any way, and any list of parameters (structMapOf, NamedArgs,              *)
(* mapNamedParams).                                                          *)
THEOREM NamedParametersAsScanned ==
    ASSUME NEW T, NEW decls \in Seq(Declaration(T)), NEW params \in Seq(Seq(T))
    PROVE  NamedAsScanned(decls, params)
<1> SUFFICES ASSUME StructMapOf(decls) # BadPlan PROVE NamedAsScanned(decls, params)
  BY DEF NamedAsScanned
<1> DEFINE fields == StructMapOf(decls)
           values == [ix \in { f.index : f \in ToSet(fields) } |-> ix]
           args == NamedArgs(fields, values)
           bound == MapNamedParams(args, params)
           names == { f.name : f \in ToSet(fields) }
<1>1. /\ fields \in Seq(Mapped(T)) /\ Len(fields) \in Nat /\ Len(fields) >= 1
      /\ DOMAIN fields = 1..Len(fields)
      /\ \A i, j \in DOMAIN fields : fields[i].name = fields[j].name => i = j
  BY MapFields
<1> HIDE DEF fields
<1>2. ASSUME NEW i \in DOMAIN fields
      PROVE  args[i].name = fields[i].name /\ args[i].value = fields[i].index
  <2>1. fields[i].index \in DOMAIN values
    BY DEF ToSet
  <2>2. values[fields[i].index] = fields[i].index
    BY <2>1
  <2> HIDE DEF values
  <2>3. QED
    BY <2>2 DEF NamedArgs
<1>3. DOMAIN args = DOMAIN fields /\ Len(args) = Len(fields)
  BY <1>1 DEF NamedArgs
<1>4. ASSUME NEW i \in DOMAIN fields PROVE fields[i].name # <<>>
  <2>1. fields[i] \in Mapped(T)
    BY <1>1
  <2>2. fields[i].name \in FieldNames(T)
    BY <2>1 DEF Mapped
  <2>3. QED
    BY <2>2 DEF FieldNames
<1> HIDE DEF args, values
<1>5. ASSUME NEW name
      PROVE  SelectInSeq(args, LAMBDA a : a.name = name) = Lookup(fields, name)
  <2>1. { i \in 1..Len(args) : args[i].name = name } = { i \in 1..Len(fields) : fields[i].name = name }
    BY <1>1, <1>2, <1>3
  <2>2. QED
    BY <2>1 DEF SelectInSeq, Lookup
<1>6. \A i \in DOMAIN fields : fields[i].name \in names
  BY DEF ToSet
<1>7. \A n \in names : \E i \in DOMAIN fields : fields[i].name = n
  BY DEF ToSet
<1>8. CASE names = ToSet(params)
  <2>1. ~ \E i, j \in DOMAIN args : i # j /\ args[i].name = args[j].name
    BY <1>1, <1>2, <1>3
  <2>2. <<>> \notin ToSet(params)
    BY <1>4, <1>7, <1>8
  <2>3. ~ \E p \in ToSet(params) : \A a \in ToSet(args) : a.name # p
    <3> SUFFICES ASSUME NEW p \in ToSet(params) PROVE \E a \in ToSet(args) : a.name = p
      OBVIOUS
    <3>1. PICK i \in DOMAIN fields : fields[i].name = p
      BY <1>7, <1>8
    <3>2. args[i] \in ToSet(args) /\ args[i].name = p
      BY <1>2, <1>3, <3>1 DEF ToSet
    <3>3. QED
      BY <3>2
  <2>4. ~ \E a \in ToSet(args) : a.name \notin ToSet(params)
    <3> SUFFICES ASSUME NEW a \in ToSet(args) PROVE a.name \in ToSet(params)
      OBVIOUS
    <3>1. PICK i \in DOMAIN args : a = args[i]
      BY DEF ToSet
    <3>2. QED
      BY <1>2, <1>3, <1>6, <1>8, <3>1
  <2>5. bound = [i \in DOMAIN params |-> args[SelectInSeq(args, LAMBDA a : a.name = params[i])].value]
    BY <2>1, <2>2, <2>3, <2>4 DEF MapNamedParams
  <2>6. bound = [i \in DOMAIN params |-> args[Lookup(fields, params[i])].value]
    BY <1>5, <2>5
  <2> HIDE DEF bound
  <2>7. ASSUME NEW i \in DOMAIN params PROVE bound[i] = fields[Lookup(fields, params[i])].index
    <3>1. params[i] \in names
      BY <1>8 DEF ToSet
    <3>2. Lookup(fields, params[i]) \in DOMAIN fields
      <4>1. PICK j \in DOMAIN fields : fields[j].name = params[i]
        BY <1>7, <3>1
      <4>2. Lookup(fields, params[i]) # 0
        BY <1>1, <4>1, LookedUp
      <4>3. QED
        BY <1>1, <4>2, LookedUp
    <3>3. QED
      BY <1>2, <2>6, <3>2
  <2>8. bound # BadPlan
    <3>1. fields[1].name \in ToSet(params)
      BY <1>1, <1>6, <1>8
    <3>2. PICK i : i \in DOMAIN params
      BY <3>1 DEF ToSet
    <3>3. DOMAIN bound # {}
      BY <2>6, <3>2
    <3>4. DOMAIN BadPlan = {}
      BY DEF BadPlan
    <3>5. QED
      BY <3>3, <3>4
  <2>9. QED
    BY <1>8, <2>7, <2>8 DEF NamedAsScanned, bound, args, values, fields
<1>9. CASE names # ToSet(params)
  <2>1. CASE \E p \in ToSet(params) : p \notin names
    <3>1. PICK p \in ToSet(params) : p \notin names
      BY <2>1
    <3>2. \A a \in ToSet(args) : a.name # p
      BY <1>2, <1>3, <1>6, <3>1 DEF ToSet
    <3>3. bound = BadPlan
      BY <3>2 DEF MapNamedParams
    <3>4. QED
      BY <1>9, <3>3 DEF NamedAsScanned, args, values, fields
  <2>2. CASE \E n \in names : n \notin ToSet(params)
    <3>1. PICK i \in DOMAIN fields : fields[i].name \notin ToSet(params)
      BY <1>7, <2>2
    <3>2. args[i] \in ToSet(args) /\ args[i].name \notin ToSet(params)
      BY <1>2, <1>3, <3>1 DEF ToSet
    <3>3. bound = BadPlan
      BY <3>2 DEF MapNamedParams
    <3>4. QED
      BY <1>9, <3>3 DEF NamedAsScanned, args, values, fields
  <2>3. QED
    BY <1>9, <2>1, <2>2
<1>10. QED
  BY <1>8, <1>9

-----------------------------------------------------------------------------
(* Rows scanned into structs (StructScan).                                   *)

Scans(I) == [status : {"reading", "tooMany", "scanError"}, out : Seq(I)]

(* The two loops, state by state.                                            *)
RowsLoop(I, items, maxRows) ==
    \E f \in [0..Len(items) -> Scans(I)] :
        /\ f[0] = Reading
        /\ \A i \in 1..Len(items) : f[i] = ScanRowsStep(f[i - 1], items[i], maxRows)
        /\ FoldLeft(LAMBDA acc, item : ScanRowsStep(acc, item, maxRows), Reading, items) = f[Len(items)]
AllLoop(I, items, maxRows) ==
    \E f \in [0..Len(items) -> Scans(I)] :
        /\ f[0] = Reading
        /\ \A i \in 1..Len(items) : f[i] = ScanAllStep(f[i - 1], items[i], maxRows)
        /\ FoldLeft(LAMBDA acc, item : ScanAllStep(acc, item, maxRows), Reading, items) = f[Len(items)]

(* One row leaves ScanRows and ScanAll in a state of theirs.                 *)
LEMMA ScanSteps ==
    ASSUME NEW I, NEW s \in Scans(I), NEW item \in I, NEW maxRows
    PROVE  /\ ScanRowsStep(s, item, maxRows) \in Scans(I)
           /\ ScanAllStep(s, item, maxRows) \in Scans(I)
<1>1. s.status \in {"reading", "tooMany", "scanError"} /\ s.out \in Seq(I)
  BY DEF Scans
<1>2. [s EXCEPT !.status = "tooMany"] \in Scans(I) /\ [s EXCEPT !.status = "scanError"] \in Scans(I)
  BY <1>1 DEF Scans
<1>3. [s EXCEPT !.out = Append(@, item)] \in Scans(I)
  <2>1. Append(s.out, item) \in Seq(I)
    BY <1>1
  <2>2. QED
    BY <1>1, <2>1 DEF Scans
<1>4. ScanRowsStep(s, item, maxRows) \in
        {s, [s EXCEPT !.status = "tooMany"], [s EXCEPT !.status = "scanError"], [s EXCEPT !.out = Append(@, item)]}
  BY DEF ScanRowsStep
<1>5. ScanAllStep(s, item, maxRows) \in
        {s, [s EXCEPT !.status = "tooMany"], [s EXCEPT !.status = "scanError"], [s EXCEPT !.out = Append(@, item)]}
  BY DEF ScanAllStep
<1>6. QED
  BY <1>2, <1>3, <1>4, <1>5

(* The loop of ScanRows row by row.                                          *)
LEMMA RowsLooped ==
    ASSUME NEW I, NEW items \in Seq(I), NEW maxRows
    PROVE  RowsLoop(I, items, maxRows)
<1> DEFINE n == Len(items)
           V == Scans(I)
           F == [i \in 1..n |-> [v \in V |-> ScanRowsStep(v, items[i], maxRows)]]
           E(g) == g = [s \in SUBSET (1..n) |->
                          IF s = {} THEN Reading
                          ELSE ScanRowsStep(g[s \ {Max(s)}], items[Max(s)], maxRows)]
           e == CHOOSE g : E(g)
<1>1. n \in Nat /\ DOMAIN items = 1..n /\ \A i \in 1..n : items[i] \in I
  OBVIOUS
<1>2. Reading \in V
  <2> DEFINE none == <<>>
  <2>1. none \in Seq(I) /\ Reading = [status |-> "reading", out |-> none]
    BY DEF Reading
  <2> HIDE DEF none
  <2>2. QED
    BY <2>1 DEF Scans
<1>3. F \in [1..n -> [V -> V]] /\ \A i \in 1..n : \A v \in V : F[i][v] = ScanRowsStep(v, items[i], maxRows)
  <2>1. \A i \in 1..n : \A v \in V : F[i][v] = ScanRowsStep(v, items[i], maxRows)
    OBVIOUS
  <2>2. \A i \in 1..n : \A v \in V : ScanRowsStep(v, items[i], maxRows) \in V
    BY <1>1, ScanSteps
  <2>3. QED
    BY <2>1, <2>2
<1>4. FoldLeft(LAMBDA acc, item : ScanRowsStep(acc, item, maxRows), Reading, items) = e[1..n]
  BY <1>1 DEF FoldLeft, MapThenFoldSet
<1> HIDE DEF n, V, F
<1>5. \E g : E(g)
  <2>1. OverSets(n, V, Reading, F)
    BY <1>1, <1>2, <1>3, Folding
  <2>2. PICK g \in [SUBSET (1..n) -> V] :
          \A s \in SUBSET (1..n) : g[s] = IF s = {} THEN Reading ELSE F[Max(s)][g[s \ {Max(s)}]]
    BY <2>1 DEF OverSets
  <2>3. ASSUME NEW s \in SUBSET (1..n), s # {}
        PROVE  F[Max(s)][g[s \ {Max(s)}]] = ScanRowsStep(g[s \ {Max(s)}], items[Max(s)], maxRows)
    <3>1. Max(s) \in 1..n /\ s \ {Max(s)} \in SUBSET (1..n)
      BY <1>1, <2>3, Largest
    <3>2. QED
      BY <1>3, <3>1
  <2>4. g = [s \in SUBSET (1..n) |->
               IF s = {} THEN Reading ELSE ScanRowsStep(g[s \ {Max(s)}], items[Max(s)], maxRows)]
    BY <2>2, <2>3
  <2>5. QED
    BY <2>4
<1>6. E(e)
  <2> HIDE DEF E
  <2>1. QED
    BY <1>5
<1>7. \A s \in SUBSET (1..n) : e[s] = IF s = {} THEN Reading
                                       ELSE ScanRowsStep(e[s \ {Max(s)}], items[Max(s)], maxRows)
  BY <1>6
<1> HIDE DEF e
<1>8. e[{}] = Reading
  BY <1>7
<1>9. \A s \in SUBSET (1..n) : s # {} /\ e[s \ {Max(s)}] \in V => e[s] = F[Max(s)][e[s \ {Max(s)}]]
  <2> SUFFICES ASSUME NEW s \in SUBSET (1..n), s # {}, e[s \ {Max(s)}] \in V
               PROVE  e[s] = F[Max(s)][e[s \ {Max(s)}]]
    OBVIOUS
  <2>1. Max(s) \in 1..n
    BY <1>1, Largest
  <2>2. QED
    BY <1>3, <1>7, <2>1
<1>10. /\ e[1..0] = Reading
       /\ \A i \in 0..n : e[1..i] \in V
       /\ \A i \in 1..n : e[1..i] = F[i][e[1..i - 1]]
  <2>1. OnSets(n, V, Reading, F, e)
    BY <1>8, <1>9 DEF OnSets
  <2>2. OnPlaces(n, V, Reading, F, e)
    BY <1>1, <1>2, <1>3, <2>1, Unfolding
  <2>3. QED
    BY <2>2 DEF OnPlaces
<1> DEFINE f == [i \in 0..n |-> e[1..i]]
<1>11. f \in [0..n -> V] /\ f[0] = Reading /\ f[n] = e[1..n]
  BY <1>1, <1>10
<1>12. ASSUME NEW i \in 1..n PROVE f[i] = ScanRowsStep(f[i - 1], items[i], maxRows)
  <2>1. i - 1 \in 0..n /\ i \in 0..n
    BY <1>1
  <2>2. f[i] = e[1..i] /\ f[i - 1] = e[1..i - 1] /\ e[1..i - 1] \in V
    BY <1>10, <2>1
  <2>3. QED
    BY <1>3, <1>10, <2>2
<1> HIDE DEF f
<1>13. QED
  BY <1>4, <1>11, <1>12 DEF RowsLoop, n, V

(* The loop of ScanAll row by row.                                           *)
LEMMA AllLooped ==
    ASSUME NEW I, NEW items \in Seq(I), NEW maxRows
    PROVE  AllLoop(I, items, maxRows)
<1> DEFINE n == Len(items)
           V == Scans(I)
           F == [i \in 1..n |-> [v \in V |-> ScanAllStep(v, items[i], maxRows)]]
           E(g) == g = [s \in SUBSET (1..n) |->
                          IF s = {} THEN Reading
                          ELSE ScanAllStep(g[s \ {Max(s)}], items[Max(s)], maxRows)]
           e == CHOOSE g : E(g)
<1>1. n \in Nat /\ DOMAIN items = 1..n /\ \A i \in 1..n : items[i] \in I
  OBVIOUS
<1>2. Reading \in V
  <2> DEFINE none == <<>>
  <2>1. none \in Seq(I) /\ Reading = [status |-> "reading", out |-> none]
    BY DEF Reading
  <2> HIDE DEF none
  <2>2. QED
    BY <2>1 DEF Scans
<1>3. F \in [1..n -> [V -> V]] /\ \A i \in 1..n : \A v \in V : F[i][v] = ScanAllStep(v, items[i], maxRows)
  <2>1. \A i \in 1..n : \A v \in V : F[i][v] = ScanAllStep(v, items[i], maxRows)
    OBVIOUS
  <2>2. \A i \in 1..n : \A v \in V : ScanAllStep(v, items[i], maxRows) \in V
    BY <1>1, ScanSteps
  <2>3. QED
    BY <2>1, <2>2
<1>4. FoldLeft(LAMBDA acc, item : ScanAllStep(acc, item, maxRows), Reading, items) = e[1..n]
  BY <1>1 DEF FoldLeft, MapThenFoldSet
<1> HIDE DEF n, V, F
<1>5. \E g : E(g)
  <2>1. OverSets(n, V, Reading, F)
    BY <1>1, <1>2, <1>3, Folding
  <2>2. PICK g \in [SUBSET (1..n) -> V] :
          \A s \in SUBSET (1..n) : g[s] = IF s = {} THEN Reading ELSE F[Max(s)][g[s \ {Max(s)}]]
    BY <2>1 DEF OverSets
  <2>3. ASSUME NEW s \in SUBSET (1..n), s # {}
        PROVE  F[Max(s)][g[s \ {Max(s)}]] = ScanAllStep(g[s \ {Max(s)}], items[Max(s)], maxRows)
    <3>1. Max(s) \in 1..n /\ s \ {Max(s)} \in SUBSET (1..n)
      BY <1>1, <2>3, Largest
    <3>2. QED
      BY <1>3, <3>1
  <2>4. g = [s \in SUBSET (1..n) |->
               IF s = {} THEN Reading ELSE ScanAllStep(g[s \ {Max(s)}], items[Max(s)], maxRows)]
    BY <2>2, <2>3
  <2>5. QED
    BY <2>4
<1>6. E(e)
  <2> HIDE DEF E
  <2>1. QED
    BY <1>5
<1>7. \A s \in SUBSET (1..n) : e[s] = IF s = {} THEN Reading
                                       ELSE ScanAllStep(e[s \ {Max(s)}], items[Max(s)], maxRows)
  BY <1>6
<1> HIDE DEF e
<1>8. e[{}] = Reading
  BY <1>7
<1>9. \A s \in SUBSET (1..n) : s # {} /\ e[s \ {Max(s)}] \in V => e[s] = F[Max(s)][e[s \ {Max(s)}]]
  <2> SUFFICES ASSUME NEW s \in SUBSET (1..n), s # {}, e[s \ {Max(s)}] \in V
               PROVE  e[s] = F[Max(s)][e[s \ {Max(s)}]]
    OBVIOUS
  <2>1. Max(s) \in 1..n
    BY <1>1, Largest
  <2>2. QED
    BY <1>3, <1>7, <2>1
<1>10. /\ e[1..0] = Reading
       /\ \A i \in 0..n : e[1..i] \in V
       /\ \A i \in 1..n : e[1..i] = F[i][e[1..i - 1]]
  <2>1. OnSets(n, V, Reading, F, e)
    BY <1>8, <1>9 DEF OnSets
  <2>2. OnPlaces(n, V, Reading, F, e)
    BY <1>1, <1>2, <1>3, <2>1, Unfolding
  <2>3. QED
    BY <2>2 DEF OnPlaces
<1> DEFINE f == [i \in 0..n |-> e[1..i]]
<1>11. f \in [0..n -> V] /\ f[0] = Reading /\ f[n] = e[1..n]
  BY <1>1, <1>10
<1>12. ASSUME NEW i \in 1..n PROVE f[i] = ScanAllStep(f[i - 1], items[i], maxRows)
  <2>1. i - 1 \in 0..n /\ i \in 0..n
    BY <1>1
  <2>2. f[i] = e[1..i] /\ f[i - 1] = e[1..i - 1] /\ e[1..i - 1] \in V
    BY <1>10, <2>1
  <2>3. QED
    BY <1>3, <1>10, <2>2
<1> HIDE DEF f
<1>13. QED
  BY <1>4, <1>11, <1>12 DEF AllLoop, n, V

(* Row r can be taken.                                                       *)
Over(r, maxRows) == maxRows > 0 /\ r > maxRows
Taken(items, r, maxRows) == items[r] # BadPlan /\ ~Over(r, maxRows)

(* A loop that has read the first i rows, or has stopped at the first that   *)
(* it cannot take.                                                           *)
ReadSoFar(s, items, i, maxRows) ==
    /\ s.status = "reading" /\ Len(s.out) = i
    /\ \A r \in 1..i : s.out[r] = items[r] /\ Taken(items, r, maxRows)
StoppedAt(s, items, i, maxRows) ==
    /\ s.status # "reading"
    /\ \E k \in 1..i : ~Taken(items, k, maxRows) /\ \A r \in 1..k - 1 : Taken(items, r, maxRows)
RowsStopped(s, items, i, maxRows) ==
    /\ s.status # "reading"
    /\ \E k \in 1..i : /\ ~Taken(items, k, maxRows) /\ \A r \in 1..k - 1 : Taken(items, r, maxRows)
                       /\ (s.status = "tooMany") <=> Over(k, maxRows)

(* What one row changes: a loop that has stopped stays as it is, and one     *)
(* that reads goes on or stops at this row.                                  *)
LEMMA OneRow ==
    ASSUME NEW I, NEW items \in Seq(I), NEW maxRows \in Nat, NEW i \in 1..Len(items), NEW s \in Scans(I)
    PROVE  /\ RowsStopped(s, items, i - 1, maxRows) =>
                RowsStopped(ScanRowsStep(s, items[i], maxRows), items, i, maxRows)
           /\ StoppedAt(s, items, i - 1, maxRows) =>
                StoppedAt(ScanAllStep(s, items[i], maxRows), items, i, maxRows)
           /\ ReadSoFar(s, items, i - 1, maxRows) =>
                /\ \/ ReadSoFar(ScanRowsStep(s, items[i], maxRows), items, i, maxRows)
                   \/ RowsStopped(ScanRowsStep(s, items[i], maxRows), items, i, maxRows)
                /\ \/ ReadSoFar(ScanAllStep(s, items[i], maxRows), items, i, maxRows)
                   \/ StoppedAt(ScanAllStep(s, items[i], maxRows), items, i, maxRows)
<1>1. i \in Nat /\ i - 1 \in Nat /\ 1..i - 1 \subseteq 1..i /\ i \in 1..i /\ items[i] \in I
  OBVIOUS
<1>2. s.status # "reading" => ScanRowsStep(s, items[i], maxRows) = s /\ ScanAllStep(s, items[i], maxRows) = s
  BY DEF ScanRowsStep, ScanAllStep
<1>3. RowsStopped(s, items, i - 1, maxRows) =>
        RowsStopped(ScanRowsStep(s, items[i], maxRows), items, i, maxRows)
  BY <1>1, <1>2 DEF RowsStopped
<1>4. StoppedAt(s, items, i - 1, maxRows) =>
        StoppedAt(ScanAllStep(s, items[i], maxRows), items, i, maxRows)
  BY <1>1, <1>2 DEF StoppedAt
<1>5. ASSUME ReadSoFar(s, items, i - 1, maxRows)
      PROVE  /\ \/ ReadSoFar(ScanRowsStep(s, items[i], maxRows), items, i, maxRows)
                \/ RowsStopped(ScanRowsStep(s, items[i], maxRows), items, i, maxRows)
             /\ \/ ReadSoFar(ScanAllStep(s, items[i], maxRows), items, i, maxRows)
                \/ StoppedAt(ScanAllStep(s, items[i], maxRows), items, i, maxRows)
  <2>1. /\ s.status = "reading" /\ Len(s.out) + 1 = i /\ s.out \in Seq(I)
        /\ \A r \in 1..i - 1 : s.out[r] = items[r] /\ Taken(items, r, maxRows)
    BY <1>1, <1>5 DEF ReadSoFar, Scans
  <2>2. (maxRows > 0 /\ Len(s.out) + 1 > maxRows) <=> Over(i, maxRows)
    BY <2>1 DEF Over
  <2> DEFINE taken == [s EXCEPT !.out = Append(@, items[i])]
             many == [s EXCEPT !.status = "tooMany"]
             wrong == [s EXCEPT !.status = "scanError"]
  <2>3. ScanRowsStep(s, items[i], maxRows) =
          IF Over(i, maxRows) THEN many ELSE IF items[i] = BadPlan THEN wrong ELSE taken
    BY <2>1, <2>2 DEF ScanRowsStep
  <2>4. ScanAllStep(s, items[i], maxRows) =
          IF items[i] = BadPlan THEN wrong ELSE IF Over(i, maxRows) THEN many ELSE taken
    BY <2>1, <2>2 DEF ScanAllStep
  <2>5. many.status = "tooMany" /\ wrong.status = "scanError"
    BY DEF Scans
  <2>6. Taken(items, i, maxRows) => ReadSoFar(taken, items, i, maxRows)
    <3> SUFFICES ASSUME Taken(items, i, maxRows) PROVE ReadSoFar(taken, items, i, maxRows)
      OBVIOUS
    <3>1. taken.status = "reading" /\ taken.out = Append(s.out, items[i])
      BY <2>1 DEF Scans
    <3>2. Len(taken.out) = i
      BY <1>1, <2>1, <3>1
    <3>3. ASSUME NEW r \in 1..i PROVE taken.out[r] = items[r] /\ Taken(items, r, maxRows)
      <4>1. CASE r = i
        BY <1>1, <2>1, <3>1, <4>1
      <4>2. CASE r \in 1..i - 1
        BY <1>1, <2>1, <3>1, <4>2
      <4>3. r = i \/ r \in 1..i - 1
        BY <1>1
      <4>4. QED
        BY <4>1, <4>2, <4>3
    <3> HIDE DEF taken
    <3>4. QED
      BY <3>1, <3>2, <3>3 DEF ReadSoFar
  <2> HIDE DEF taken, many, wrong
  <2>7. CASE Taken(items, i, maxRows)
    BY <2>3, <2>4, <2>6, <2>7 DEF Taken
  <2>8. CASE ~Taken(items, i, maxRows)
    <3>1. ScanRowsStep(s, items[i], maxRows) = IF Over(i, maxRows) THEN many ELSE wrong
      BY <2>3, <2>8 DEF Taken
    <3>2. ScanAllStep(s, items[i], maxRows) \in {wrong, many}
      BY <2>4, <2>8 DEF Taken
    <3>3. RowsStopped(ScanRowsStep(s, items[i], maxRows), items, i, maxRows)
      BY <1>1, <2>1, <2>5, <2>8, <3>1 DEF RowsStopped
    <3>4. StoppedAt(ScanAllStep(s, items[i], maxRows), items, i, maxRows)
      BY <1>1, <2>1, <2>5, <2>8, <3>2 DEF StoppedAt
    <3>5. QED
      BY <3>3, <3>4
  <2>9. QED
    BY <2>7, <2>8
<1>6. QED
  BY <1>3, <1>4, <1>5

(* What the two loops come to: all rows read, or stopped at the first row    *)
(* that cannot be taken.                                                     *)
RowsOutcome(I, items, maxRows, s) ==
    s \in Scans(I) /\ (ReadSoFar(s, items, Len(items), maxRows) \/ RowsStopped(s, items, Len(items), maxRows))
AllOutcome(I, items, maxRows, s) ==
    s \in Scans(I) /\ (ReadSoFar(s, items, Len(items), maxRows) \/ StoppedAt(s, items, Len(items), maxRows))

(* Before the first row.                                                     *)
LEMMA NoRowYet ==
    ASSUME NEW items, NEW maxRows
    PROVE  ReadSoFar(Reading, items, 0, maxRows)
  BY DEF ReadSoFar, Reading

(* How the loop of ScanRows ends.                                            *)
LEMMA RowsLoopEnds ==
    ASSUME NEW I, NEW items \in Seq(I), NEW maxRows \in Nat
    PROVE  RowsOutcome(I, items, maxRows,
                       FoldLeft(LAMBDA acc, item : ScanRowsStep(acc, item, maxRows), Reading, items))
<1> DEFINE n == Len(items)
           end == FoldLeft(LAMBDA acc, item : ScanRowsStep(acc, item, maxRows), Reading, items)
<1>1. PICK f \in [0..n -> Scans(I)] :
          /\ f[0] = Reading
          /\ \A i \in 1..n : f[i] = ScanRowsStep(f[i - 1], items[i], maxRows)
          /\ end = f[n]
  <2>1. RowsLoop(I, items, maxRows)
    BY RowsLooped
  <2>2. QED
    BY <2>1 DEF RowsLoop
<1>2. n \in Nat
  OBVIOUS
<1> HIDE DEF end
<1> DEFINE T == { i \in 0..n : ReadSoFar(f[i], items, i, maxRows) \/ RowsStopped(f[i], items, i, maxRows) }
<1>3. 0 \in T
  BY <1>1, <1>2, NoRowYet
<1>4. ASSUME NEW i \in 0..n - 1, i \in T PROVE i + 1 \in T
  <2>1. i + 1 \in 1..n /\ (i + 1) - 1 = i /\ i + 1 \in 0..n /\ i \in 0..n
    BY <1>2
  <2>2. f[i + 1] = ScanRowsStep(f[i], items[i + 1], maxRows) /\ f[i] \in Scans(I)
    BY <1>1, <2>1
  <2>3. ReadSoFar(f[i], items, i, maxRows) \/ RowsStopped(f[i], items, i, maxRows)
    BY <1>4
  <2>4. ReadSoFar(f[i + 1], items, i + 1, maxRows) \/ RowsStopped(f[i + 1], items, i + 1, maxRows)
    BY <2>1, <2>2, <2>3, OneRow
  <2>5. QED
    BY <2>1, <2>4
<1> HIDE DEF T
<1>5. n \in T
  <2>1. \A i \in 0..n : i \in T
    BY <1>2, <1>3, <1>4, Upwards
  <2>2. QED
    BY <1>2, <2>1
<1>6. RowsOutcome(I, items, maxRows, end)
  BY <1>1, <1>2, <1>5 DEF T, RowsOutcome
<1>7. QED
  BY <1>6 DEF end

(* How the loop of ScanAll ends.                                             *)
LEMMA AllLoopEnds ==
    ASSUME NEW I, NEW items \in Seq(I), NEW maxRows \in Nat
    PROVE  AllOutcome(I, items, maxRows,
                      FoldLeft(LAMBDA acc, item : ScanAllStep(acc, item, maxRows), Reading, items))
<1> DEFINE n == Len(items)
           end == FoldLeft(LAMBDA acc, item : ScanAllStep(acc, item, maxRows), Reading, items)
<1>1. PICK f \in [0..n -> Scans(I)] :
          /\ f[0] = Reading
          /\ \A i \in 1..n : f[i] = ScanAllStep(f[i - 1], items[i], maxRows)
          /\ end = f[n]
  <2>1. AllLoop(I, items, maxRows)
    BY AllLooped
  <2>2. QED
    BY <2>1 DEF AllLoop
<1>2. n \in Nat
  OBVIOUS
<1> HIDE DEF end
<1> DEFINE T == { i \in 0..n : ReadSoFar(f[i], items, i, maxRows) \/ StoppedAt(f[i], items, i, maxRows) }
<1>3. 0 \in T
  BY <1>1, <1>2, NoRowYet
<1>4. ASSUME NEW i \in 0..n - 1, i \in T PROVE i + 1 \in T
  <2>1. i + 1 \in 1..n /\ (i + 1) - 1 = i /\ i + 1 \in 0..n /\ i \in 0..n
    BY <1>2
  <2>2. f[i + 1] = ScanAllStep(f[i], items[i + 1], maxRows) /\ f[i] \in Scans(I)
    BY <1>1, <2>1
  <2>3. ReadSoFar(f[i], items, i, maxRows) \/ StoppedAt(f[i], items, i, maxRows)
    BY <1>4
  <2>4. ReadSoFar(f[i + 1], items, i + 1, maxRows) \/ StoppedAt(f[i + 1], items, i + 1, maxRows)
    BY <2>1, <2>2, <2>3, OneRow
  <2>5. QED
    BY <2>1, <2>4
<1> HIDE DEF T
<1>5. n \in T
  <2>1. \A i \in 0..n : i \in T
    BY <1>2, <1>3, <1>4, Upwards
  <2>2. QED
    BY <1>2, <2>1
<1>6. AllOutcome(I, items, maxRows, end)
  BY <1>1, <1>2, <1>5 DEF T, AllOutcome
<1>7. QED
  BY <1>6 DEF end

(* ScanRows and ScanAll take and refuse the same rows, all or none of them.  *)
ScansAgree(items, maxRows, rows, all, before) ==
    /\ (rows.status = "ok") = (all.status = "ok")
    /\ rows.status = "ok" => /\ rows.dest = items /\ all.dest = items
                             /\ \A r \in DOMAIN items : items[r] # BadPlan
    /\ rows.status # "ok" => rows.dest = before /\ all.dest = <<>>
    /\ rows.status = "tooMany" <=> \E n \in DOMAIN items :
           /\ maxRows > 0 /\ n = maxRows + 1
           /\ \A r \in 1..n - 1 : items[r] # BadPlan

(* A loop that never stopped has read every row.                             *)
LEMMA AllRead ==
    ASSUME NEW I, NEW items \in Seq(I), NEW maxRows \in Nat, NEW s \in Scans(I),
           ReadSoFar(s, items, Len(items), maxRows)
    PROVE  s.out = items /\ \A r \in DOMAIN items : Taken(items, r, maxRows)
<1>1. s.out \in Seq(I) /\ Len(s.out) = Len(items) /\ DOMAIN items = 1..Len(items)
  BY DEF Scans, ReadSoFar
<1>2. \A r \in 1..Len(items) : s.out[r] = items[r] /\ Taken(items, r, maxRows)
  BY DEF ReadSoFar
<1>3. QED
  BY <1>1, <1>2

(* ScanRows and ScanAll take the same rows, and all of them or none.         *)
LEMMA ScansDecide ==
    ASSUME NEW I, NEW items \in Seq(I), NEW maxRows \in Nat, NEW broken \in BOOLEAN, NEW before
    PROVE  ScansAgree(items, maxRows, ScanRows(items, maxRows, broken, before),
                      ScanAll(items, maxRows, broken), before)
<1> DEFINE s == FoldLeft(LAMBDA acc, item : ScanRowsStep(acc, item, maxRows), Reading, items)
           a == FoldLeft(LAMBDA acc, item : ScanAllStep(acc, item, maxRows), Reading, items)
           rows == ScanRows(items, maxRows, broken, before)
           all == ScanAll(items, maxRows, broken)
           n == Len(items)
<1>1. RowsOutcome(I, items, maxRows, s) /\ AllOutcome(I, items, maxRows, a)
  BY RowsLoopEnds, AllLoopEnds
<1>2. /\ rows = [status |-> Finished(s, broken), dest |-> IF Finished(s, broken) = "ok" THEN s.out ELSE before]
      /\ all = [status |-> Finished(a, broken), dest |-> IF Finished(a, broken) = "ok" THEN a.out ELSE <<>>]
  BY DEF ScanRows, ScanAll
<1> HIDE DEF s, a, rows, all
<1>3. /\ rows.status = Finished(s, broken) /\ all.status = Finished(a, broken)
      /\ rows.dest = IF rows.status = "ok" THEN s.out ELSE before
      /\ all.dest = IF all.status = "ok" THEN a.out ELSE <<>>
  BY <1>2
<1>4. n \in Nat /\ DOMAIN items = 1..n
  OBVIOUS
<1>5. s \in Scans(I) /\ a \in Scans(I)
  BY <1>1 DEF RowsOutcome, AllOutcome
<1>6. ASSUME NEW x \in Scans(I)
      PROVE  /\ Finished(x, broken) = "ok" <=> x.status = "reading" /\ ~broken
             /\ Finished(x, broken) = "tooMany" <=> x.status = "tooMany"
  <2>1. x.status \in {"reading", "tooMany", "scanError"}
    BY DEF Scans
  <2>2. CASE broken = TRUE
    BY <2>1, <2>2 DEF Finished
  <2>3. CASE broken = FALSE
    BY <2>1, <2>3 DEF Finished
  <2>4. QED
    BY <2>2, <2>3
<1>7. (s.status = "reading") <=> \A r \in 1..n : Taken(items, r, maxRows)
  BY <1>1, <1>4 DEF RowsOutcome, ReadSoFar, RowsStopped
<1>8. (a.status = "reading") <=> \A r \in 1..n : Taken(items, r, maxRows)
  BY <1>1, <1>4 DEF AllOutcome, ReadSoFar, StoppedAt
<1>9. (rows.status = "ok") = (all.status = "ok")
  BY <1>3, <1>5, <1>6, <1>7, <1>8
<1>10. ASSUME rows.status = "ok"
       PROVE  rows.dest = items /\ all.dest = items /\ \A r \in DOMAIN items : items[r] # BadPlan
  <2>1. s.status = "reading" /\ a.status = "reading"
    BY <1>3, <1>5, <1>6, <1>9, <1>10
  <2>2. ReadSoFar(s, items, n, maxRows) /\ ReadSoFar(a, items, n, maxRows)
    BY <1>1, <2>1 DEF RowsOutcome, AllOutcome, RowsStopped, StoppedAt
  <2>3. s.out = items /\ a.out = items /\ \A r \in DOMAIN items : Taken(items, r, maxRows)
    BY <1>5, <2>2, AllRead
  <2>4. QED
    BY <1>3, <1>9, <1>10, <2>3 DEF Taken
<1>11. rows.status = "tooMany" <=> s.status = "tooMany"
  BY <1>3, <1>5, <1>6
<1>12. ASSUME s.status = "tooMany"
       PROVE  \E m \in DOMAIN items : /\ maxRows > 0 /\ m = maxRows + 1
                                      /\ \A r \in 1..m - 1 : items[r] # BadPlan
  <2>1. PICK k \in 1..n : /\ ~Taken(items, k, maxRows) /\ \A r \in 1..k - 1 : Taken(items, r, maxRows)
                          /\ (s.status = "tooMany") <=> Over(k, maxRows)
    BY <1>1, <1>12 DEF RowsOutcome, ReadSoFar, RowsStopped
  <2>2. maxRows > 0 /\ k > maxRows /\ k \in Nat
    BY <1>12, <2>1 DEF Over
  <2>3. k = maxRows + 1
    <3> SUFFICES ASSUME k # maxRows + 1 PROVE FALSE
      OBVIOUS
    <3>1. maxRows + 1 \in 1..k - 1 /\ Over(maxRows + 1, maxRows)
      BY <2>2 DEF Over
    <3>2. QED
      BY <2>1, <3>1 DEF Taken
  <2>4. QED
    BY <1>4, <2>1, <2>2, <2>3 DEF Taken
<1>13. ASSUME NEW m \in DOMAIN items, maxRows > 0, m = maxRows + 1,
              \A r \in 1..m - 1 : items[r] # BadPlan
       PROVE  s.status = "tooMany"
  <2>1. m \in 1..n /\ Over(m, maxRows) /\ ~Taken(items, m, maxRows)
    BY <1>4, <1>13 DEF Over, Taken
  <2>2. \A r \in 1..m - 1 : Taken(items, r, maxRows)
    BY <1>4, <1>13 DEF Over, Taken
  <2>3. PICK k \in 1..n : /\ ~Taken(items, k, maxRows) /\ \A r \in 1..k - 1 : Taken(items, r, maxRows)
                          /\ (s.status = "tooMany") <=> Over(k, maxRows)
    BY <1>1, <1>4, <2>1 DEF RowsOutcome, ReadSoFar, RowsStopped
  <2>4. k = m
    <3>1. k \in Nat /\ m \in Nat
      BY <1>4
    <3>2. ~(k < m) /\ ~(m < k)
      BY <1>4, <2>1, <2>2, <2>3, <3>1
    <3>3. QED
      BY <3>1, <3>2
  <2>5. QED
    BY <2>1, <2>3, <2>4
<1>14. rows.status # "ok" => rows.dest = before /\ all.dest = <<>>
  BY <1>3, <1>9
<1>15. ScansAgree(items, maxRows, rows, all, before)
  BY <1>9, <1>10, <1>11, <1>12, <1>13, <1>14 DEF ScansAgree
<1>16. QED
  BY <1>15 DEF rows, all

ResultColumn(T) ==
    { c \in [name : Seq(T), type : T, reported : T] :
        c.type = "datetime" => c.reported \in {"unknown", "datetime"} }

(* The column that a field is read from: the first of its name.              *)
ColumnOf(columns, name) == SelectInSeq(columns, LAMBDA c : c.name = name)

(* Looking a column up by its name.                                          *)
LEMMA FoundColumn ==
    ASSUME NEW C, NEW columns \in Seq(C), NEW name
    PROVE  /\ ColumnOf(columns, name) = 0 => \A i \in DOMAIN columns : columns[i].name # name
           /\ ColumnOf(columns, name) # 0 => /\ ColumnOf(columns, name) \in DOMAIN columns
                                             /\ columns[ColumnOf(columns, name)].name = name
<1> DEFINE I == { i \in 1..Len(columns) : columns[i].name = name }
<1>1. ColumnOf(columns, name) = IF I # {} THEN Min(I) ELSE 0
  BY DEF ColumnOf, SelectInSeq
<1>2. I \in SUBSET Nat /\ DOMAIN columns = 1..Len(columns) /\ 0 \notin I
  OBVIOUS
<1>3. CASE I = {}
  BY <1>1, <1>2, <1>3
<1>4. CASE I # {}
  <2>1. Min(I) \in I
    BY <1>2, <1>4, Smallest
  <2>2. QED
    BY <1>1, <1>2, <1>4, <2>1
<1>5. QED
  BY <1>3, <1>4

(* What a plan says of a column.                                             *)
Planned(fields, columns, plan) ==
    /\ \A i, j \in DOMAIN columns : columns[i].name = columns[j].name => i = j
    /\ \A i \in DOMAIN columns :
         /\ plan[i].field = Lookup(fields, columns[i].name)
         /\ plan[i].time <=> /\ plan[i].field # 0 /\ fields[plan[i].field].kind # "plain"
                             /\ ~ConfirmedNonDateTime(columns[i])

(* A plan that is accepted maps every field to the column of its name.       *)
LEMMA PlanOfColumns ==
    ASSUME NEW fields, NEW columns, NEW laxColumns, NEW laxFields,
           BindStruct(fields, columns, laxColumns, laxFields) # BadPlan
    PROVE  Planned(fields, columns, BindStruct(fields, columns, laxColumns, laxFields))
<1> DEFINE at(i) == Lookup(fields, columns[i].name)
           timed(i) == at(i) # 0 /\ fields[at(i)].kind # "plain"
           plan == BindStruct(fields, columns, laxColumns, laxFields)
<1>1. /\ \A i, j \in DOMAIN columns : columns[i].name = columns[j].name => i = j
      /\ plan = [i \in DOMAIN columns |->
                   [field |-> at(i), time |-> timed(i) /\ ~ConfirmedNonDateTime(columns[i])]]
  BY Zenon DEF BindStruct
<1> HIDE DEF plan
<1>2. ASSUME NEW i \in DOMAIN columns
      PROVE  plan[i] = [field |-> at(i), time |-> timed(i) /\ ~ConfirmedNonDateTime(columns[i])]
  BY <1>1, Zenon
<1>3. ASSUME NEW i \in DOMAIN columns
      PROVE  plan[i].field = at(i) /\ (plan[i].time <=> timed(i) /\ ~ConfirmedNonDateTime(columns[i]))
  <2> DEFINE way == timed(i) /\ ~ConfirmedNonDateTime(columns[i])
  <2>1. plan[i] = [field |-> at(i), time |-> way]
    BY <1>2
  <2> HIDE DEF way
  <2>2. plan[i].field = at(i) /\ plan[i].time = way
    BY <2>1
  <2>3. QED
    BY <2>2 DEF way
<1> HIDE DEF at
<1>4. Planned(fields, columns, plan)
  BY <1>1, <1>3 DEF Planned, at
<1>5. QED
  BY <1>4 DEF plan

(* What an item holds in field f: the value of the field's own column.       *)
HeldIn(fields, columns, row, f) ==
    LET i == ColumnOf(columns, fields[f].name)
    IN  CASE i = 0 -> Unset
          [] i # 0 /\ row[i] # NilValue /\ columns[i].type = "datetime"
                   /\ fields[f].kind # "plain" -> Converted(row[i])
          [] OTHER -> row[i]

(* A scanned row holds in every field the value of its own column.           *)
LEMMA ItemOfRow ==
    ASSUME NEW T, NEW fields \in Seq(Mapped(T)), NEW columns \in Seq(ResultColumn(T)), NEW plan, NEW row,
           \A i, j \in DOMAIN fields : fields[i].name = fields[j].name => i = j,
           Planned(fields, columns, plan), ScanValue(fields, columns, plan, row) # BadPlan,
           NEW f \in DOMAIN fields
    PROVE  ScanValue(fields, columns, plan, row)[f] = HeldIn(fields, columns, row, f)
<1> DEFINE stored(i) == IF plan[i].time THEN ApplyTime(fields[plan[i].field], columns[i], row[i])
                        ELSE ScanField(fields[plan[i].field], row[i])
           used == { i \in DOMAIN columns : plan[i].field # 0 }
           item == ScanValue(fields, columns, plan, row)
           e == ColumnOf(columns, fields[f].name)
<1>1. /\ \A i \in used : stored(i) # Unscannable
      /\ item = [g \in DOMAIN fields |->
                   IF \E i \in used : plan[i].field = g
                   THEN stored(CHOOSE i \in used : plan[i].field = g) ELSE Unset]
  BY Zenon DEF ScanValue
<1>2. item[f] = IF \E i \in used : plan[i].field = f
                THEN stored(CHOOSE i \in used : plan[i].field = f) ELSE Unset
  BY <1>1, Zenon
<1> HIDE DEF stored, item
<1>3. ASSUME NEW i \in used, plan[i].field = f PROVE i = e /\ e # 0 /\ i \in DOMAIN columns
  <2>1. i \in DOMAIN columns /\ i # 0 /\ f = Lookup(fields, columns[i].name) /\ f # 0
    BY <1>3 DEF Planned
  <2>2. fields[f].name = columns[i].name
    BY <2>1, LookedUp
  <2>3. e # 0 /\ e \in DOMAIN columns /\ columns[e].name = columns[i].name
    BY <2>1, <2>2, FoundColumn
  <2> HIDE DEF e
  <2>4. QED
    BY <2>1, <2>3 DEF Planned
<1>4. CASE \E i \in used : plan[i].field = f
  <2> DEFINE c == CHOOSE i \in used : plan[i].field = f
  <2>1. c \in used /\ plan[c].field = f
    BY <1>4
  <2>2. item[f] = stored(c)
    BY <1>2, <1>4
  <2> HIDE DEF c, e
  <2>3. c = e /\ e # 0 /\ e \in DOMAIN columns
    BY <1>3, <2>1
  <2>4. item[f] = stored(e) /\ stored(e) # Unscannable /\ plan[e].field = f
    BY <1>1, <2>1, <2>2, <2>3
  <2>5. stored(e) = IF row[e] # NilValue /\ columns[e].type = "datetime" /\ plan[e].time
                    THEN Converted(row[e]) ELSE row[e]
    BY <2>4 DEF stored, ApplyTime, ScanField, NilValue
  <2>6. columns[e].type = "datetime" => ~ConfirmedNonDateTime(columns[e])
    BY <2>3 DEF ResultColumn, ConfirmedNonDateTime
  <2>7. f # 0
    BY <2>1
  <2>8. columns[e].type = "datetime" => (plan[e].time <=> fields[f].kind # "plain")
    BY <2>3, <2>4, <2>6, <2>7 DEF Planned
  <2>9. item[f] = IF row[e] # NilValue /\ columns[e].type = "datetime" /\ fields[f].kind # "plain"
                  THEN Converted(row[e]) ELSE row[e]
    BY <2>4, <2>5, <2>8
  <2>10. item[f] = HeldIn(fields, columns, row, f)
    BY <2>3, <2>9 DEF HeldIn, e
  <2>11. QED
    BY <2>10 DEF item
<1>5. CASE ~ \E i \in used : plan[i].field = f
  <2>1. item[f] = Unset
    BY <1>2, <1>5
  <2>2. e = 0
    <3> SUFFICES ASSUME e # 0 PROVE FALSE
      OBVIOUS
    <3>1. e \in DOMAIN columns /\ columns[e].name = fields[f].name
      BY FoundColumn
    <3> HIDE DEF e
    <3>2. /\ Lookup(fields, fields[f].name) # 0 /\ Lookup(fields, fields[f].name) \in DOMAIN fields
          /\ fields[Lookup(fields, fields[f].name)].name = fields[f].name
      BY LookedUp
    <3>3. Lookup(fields, fields[f].name) = f
      BY <3>2
    <3>4. plan[e].field = f /\ f # 0
      BY <3>1, <3>2, <3>3 DEF Planned
    <3>5. QED
      BY <1>5, <3>1, <3>4
  <2> HIDE DEF e
  <2>3. item[f] = HeldIn(fields, columns, row, f)
    BY <2>1, <2>2 DEF HeldIn, e
  <2>4. QED
    BY <2>3 DEF item
<1>6. QED
  BY <1>4, <1>5

(* Each field of a scanned struct holds the value of the column of its name, *)
(* of its own row; ScanRows and ScanAll deliver the same rows, and all of    *)
(* them or none; for structs of any shape, any columns, any number of rows   *)
(* and any limit (bindStruct, scanValue, ScanRows, ScanAll).                 *)
THEOREM RowsScannedByName ==
    ASSUME NEW T, NEW Row, NEW q, q.decls \in Seq(Declaration(T)), q.columns \in Seq(ResultColumn(T)),
           q.rows \in Seq(Row), q.maxRows \in Nat, q.broken \in BOOLEAN
    PROVE  RowsScanned(q)
<1> DEFINE fields == StructMapOf(q.decls)
           bound == BindStruct(fields, q.columns, q.laxColumns, q.laxFields)
           plan == IF fields = BadPlan THEN BadPlan ELSE bound
<1> SUFFICES ASSUME plan # BadPlan PROVE RowsScanned(q)
  BY DEF RowsScanned
<1>1. fields # BadPlan /\ bound # BadPlan /\ plan = bound
  OBVIOUS
<1> DEFINE items == [r \in DOMAIN q.rows |-> ScanValue(fields, q.columns, plan, q.rows[r])]
           rows == ScanRows(items, q.maxRows, q.broken, Unset)
           all == ScanAll(items, q.maxRows, q.broken)
<1>2. /\ fields \in Seq(Mapped(T))
      /\ \A i, j \in DOMAIN fields : fields[i].name = fields[j].name => i = j
  BY <1>1, MapFields
<1>3. Planned(fields, q.columns, plan)
  <2> HIDE DEF fields
  <2>1. QED
    BY <1>1, PlanOfColumns
<1> HIDE DEF fields, bound, plan
<1> DEFINE I == { ScanValue(fields, q.columns, plan, q.rows[r]) : r \in DOMAIN q.rows }
<1>4. items \in Seq(I) /\ Len(items) = Len(q.rows) /\ DOMAIN items = DOMAIN q.rows
  <2>1. items \in [1..Len(q.rows) -> I] /\ Len(q.rows) \in Nat /\ DOMAIN q.rows = 1..Len(q.rows)
    OBVIOUS
  <2>2. QED
    BY <2>1, SequenceOf
<1>5. \A r \in DOMAIN q.rows : items[r] = ScanValue(fields, q.columns, plan, q.rows[r])
  OBVIOUS
<1> HIDE DEF I, items
<1>6. ScansAgree(items, q.maxRows, rows, all, Unset)
  BY <1>4, ScansDecide
<1> HIDE DEF rows, all
<1>7. ASSUME rows.status = "ok", NEW r \in DOMAIN q.rows, NEW f \in DOMAIN fields
      PROVE  all.dest[r][f] = HeldIn(fields, q.columns, q.rows[r], f)
  <2>1. all.dest = items /\ items[r] # BadPlan
    BY <1>4, <1>6, <1>7 DEF ScansAgree
  <2>2. ScanValue(fields, q.columns, plan, q.rows[r])[f] = HeldIn(fields, q.columns, q.rows[r], f)
    BY <1>2, <1>3, <1>5, <2>1, ItemOfRow
  <2>3. QED
    BY <1>5, <2>1, <2>2
<1> DEFINE expected(f, r) ==
               LET i == SelectInSeq(q.columns, LAMBDA c : c.name = fields[f].name)
               IN  CASE i = 0 -> Unset
                     [] i # 0 /\ q.rows[r][i] # NilValue /\ q.columns[i].type = "datetime"
                              /\ fields[f].kind # "plain" -> Converted(q.rows[r][i])
                     [] OTHER -> q.rows[r][i]
<1>8. \A r, f : expected(f, r) = HeldIn(fields, q.columns, q.rows[r], f)
  BY DEF HeldIn, ColumnOf
<1> HIDE DEF expected
<1>9. /\ (rows.status = "ok") = (all.status = "ok")
      /\ rows.status = "ok" =>
           /\ rows.dest = all.dest /\ Len(all.dest) = Len(q.rows)
           /\ \A r \in DOMAIN q.rows : \A f \in DOMAIN fields : all.dest[r][f] = expected(f, r)
      /\ rows.status # "ok" => rows.dest = Unset /\ all.dest = <<>>
      /\ rows.status = "tooMany" <=> \E n \in DOMAIN items :
             /\ q.maxRows > 0 /\ n = q.maxRows + 1
             /\ \A r \in 1..n - 1 : items[r] # BadPlan
  BY <1>4, <1>6, <1>7, <1>8 DEF ScansAgree
<1>10. QED
  BY <1>9, Zenon DEF RowsScanned, fields, plan, bound, items, rows, all, expected

-----------------------------------------------------------------------------
(* Messages in packets (Framing).                                            *)

(* s is made of the sequences of q, one behind the other; piece i begins     *)
(* behind start[i - 1].                                                      *)
PiecesOf(q, s, start) ==
    /\ start \in [0..Len(q) -> Nat] /\ start[0] = 0 /\ start[Len(q)] = Len(s)
    /\ \A i \in 1..Len(q) : /\ start[i] = start[i - 1] + Len(q[i])
                            /\ \A j \in 1..Len(q[i]) : s[start[i - 1] + j] = q[i][j]

(* Places that grow from one to the next grow over any distance.             *)
LEMMA Ascending ==
    ASSUME NEW n \in Nat, NEW start \in [0..n -> Nat],
           \A i \in 1..n : start[i - 1] <= start[i],
           NEW a \in 0..n, NEW b \in 0..n, a <= b
    PROVE  start[a] <= start[b]
<1> DEFINE T == { i \in 0..n : a <= i => start[a] <= start[i] }
<1>1. 0 \in T
  OBVIOUS
<1>2. ASSUME NEW i \in 0..n - 1, i \in T PROVE i + 1 \in T
  <2>1. i \in 0..n /\ i + 1 \in 1..n /\ i + 1 \in 0..n /\ (i + 1) - 1 = i
    OBVIOUS
  <2>2. start[i] <= start[i + 1] /\ start[i] \in Nat /\ start[i + 1] \in Nat /\ start[a] \in Nat
    BY <2>1
  <2>3. a <= i => start[a] <= start[i]
    BY <1>2
  <2>4. a <= i + 1 => start[a] <= start[i + 1]
    <3>1. CASE a = i + 1
      BY <2>2, <3>1
    <3>2. CASE a <= i
      BY <2>2, <2>3, <3>2
    <3>3. QED
      BY <3>1, <3>2
  <2>5. QED
    BY <2>1, <2>4
<1> HIDE DEF T
<1>3. \A i \in 0..n : i \in T
  BY <1>1, <1>2, Upwards
<1>4. QED
  BY <1>3 DEF T

(* The places where pieces end grow.                                         *)
LEMMA PiecesAscend ==
    ASSUME NEW S, NEW q \in Seq(Seq(S)), NEW s, NEW start, PiecesOf(q, s, start),
           NEW a \in 0..Len(q), NEW b \in 0..Len(q), a <= b
    PROVE  start[a] \in Nat /\ start[b] \in Nat /\ start[a] <= start[b]
<1>1. Len(q) \in Nat /\ start \in [0..Len(q) -> Nat]
  BY DEF PiecesOf
<1>2. ASSUME NEW i \in 1..Len(q) PROVE start[i - 1] <= start[i]
  <2>1. start[i] = start[i - 1] + Len(q[i])
    BY DEF PiecesOf
  <2>4. q[i] \in Seq(S) /\ Len(q[i]) \in Nat
    OBVIOUS
  <2>5. i \in 0..Len(q) /\ i - 1 \in 0..Len(q)
    BY <1>1, Places
  <2>2. start[i - 1] \in Nat /\ start[i] \in Nat
    BY <1>1, <2>5
  <2>3. QED
    BY <2>1, <2>2, <2>4
<1>3. QED
  BY <1>1, <1>2, Ascending

(* Place p lies in a piece.                                                  *)
Within(q, start, p) == \E i \in 1..Len(q) : \E j \in 1..Len(q[i]) : p = start[i - 1] + j

(* Every place does.                                                         *)
LEMMA Located ==
    ASSUME NEW S, NEW q \in Seq(Seq(S)), NEW s \in Seq(S), NEW start, PiecesOf(q, s, start),
           NEW p \in 1..Len(s)
    PROVE  Within(q, start, p)
<1> DEFINE n == Len(q)
           T == { i \in 0..n : start[i] >= p }
<1>1. n \in Nat /\ start \in [0..n -> Nat] /\ start[0] = 0 /\ start[n] = Len(s) /\ p \in Nat /\ p >= 1
  BY DEF PiecesOf
<1>2. n \in T /\ T \in SUBSET Nat
  BY <1>1
<1>3. PICK i \in T : \A m \in T : i <= m
  <2> HIDE DEF T
  <2>1. QED
    BY <1>2, Least
<1>4. i \in 1..n /\ i - 1 \in 0..n /\ i - 1 \notin T /\ start[i] >= p
  BY <1>1, <1>3
<1>5. start[i - 1] \in Nat /\ start[i - 1] < p
  <2>1. start[i - 1] \in Nat
    BY <1>1, <1>4
  <2>2. ~(start[i - 1] >= p)
    BY <1>4
  <2> HIDE DEF T
  <2>3. QED
    BY <1>1, <2>1, <2>2
<1>6. start[i] = start[i - 1] + Len(q[i]) /\ Len(q[i]) \in Nat
  <2>1. q[i] \in Seq(S)
    BY <1>4
  <2>2. QED
    BY <1>4, <2>1 DEF PiecesOf
<1>7. p - start[i - 1] \in 1..Len(q[i]) /\ p = start[i - 1] + (p - start[i - 1])
  BY <1>1, <1>4, <1>5, <1>6
<1>8. QED
  BY <1>4, <1>7 DEF Within

(* What is flattened falls into the pieces it came from.                     *)
LEMMA FlattenPieces ==
    ASSUME NEW S, NEW q \in Seq(Seq(S))
    PROVE  FlattenSeq(q) \in Seq(S) /\ \E start : PiecesOf(q, FlattenSeq(q), start)
<1> DEFINE n == Len(q)
<1>1. PICK f \in [0..n -> Seq(S)] :
          /\ f[0] = <<>>
          /\ \A i \in 1..n : f[i] = f[i - 1] \o q[i]
          /\ FlattenSeq(q) = f[n]
  <2>1. Joined(S, q)
    BY Flattening
  <2>2. QED
    BY <2>1 DEF Joined
<1>2. n \in Nat /\ \A i \in 1..n : q[i] \in Seq(S) /\ Len(q[i]) \in Nat
  OBVIOUS
<1> HIDE DEF n
<1> DEFINE start == [i \in 0..n |-> Len(f[i])]
<1>3. start \in [0..n -> Nat] /\ start[0] = 0 /\ \A i \in 0..n : start[i] = Len(f[i])
  BY <1>1, <1>2
<1>4. ASSUME NEW i \in 1..n
      PROVE  /\ start[i] = start[i - 1] + Len(q[i])
             /\ \A p \in 1..start[i - 1] : f[i][p] = f[i - 1][p]
             /\ \A j \in 1..Len(q[i]) : f[i][start[i - 1] + j] = q[i][j]
  <2>4. i - 1 \in 0..n /\ i \in 0..n
    BY <1>2, Places
  <2>1. i - 1 \in 0..n /\ i \in 0..n /\ f[i - 1] \in Seq(S) /\ f[i] \in Seq(S)
    BY <2>4
  <2>2. f[i] = f[i - 1] \o q[i] /\ start[i] = Len(f[i]) /\ start[i - 1] = Len(f[i - 1]) /\ q[i] \in Seq(S)
    BY <1>1, <1>2, <1>3, <2>1
  <2> HIDE DEF start
  <2>3. QED
    BY <2>1, <2>2
<1> HIDE DEF start
<1> DEFINE Has(i) == \A k \in 1..i : \A j \in 1..Len(q[k]) : f[i][start[k - 1] + j] = q[k][j]
           T == { i \in 0..n : Has(i) }
<1>5. 0 \in T
  BY <1>2
<1>6. ASSUME NEW i \in 0..n - 1, i \in T PROVE i + 1 \in T
  <2>1. i \in Nat /\ i + 1 \in 1..n /\ i + 1 \in 0..n /\ (i + 1) - 1 = i /\ i \in 0..n
    BY <1>2
  <2>2. ASSUME NEW k \in 1..i + 1, NEW j \in 1..Len(q[k]) PROVE f[i + 1][start[k - 1] + j] = q[k][j]
    <3>1. CASE k = i + 1
      BY <1>4, <2>1, <3>1
    <3>2. CASE k \in 1..i
      <4>1. f[i][start[k - 1] + j] = q[k][j]
        BY <1>6, <3>2
      <4>2. k \in 0..n /\ k \in 1..n /\ k - 1 \in 0..n /\ k <= i
        BY <1>2, <2>1, <3>2
      <4>3. start[k] = start[k - 1] + Len(q[k]) /\ start[k - 1] \in Nat /\ start[k] \in Nat /\ start[i] \in Nat
        BY <1>3, <1>4, <2>1, <4>2
      <4>4. start[k] <= start[i]
        <5>1. \A m \in 1..n : start[m - 1] <= start[m]
          <6> SUFFICES ASSUME NEW m \in 1..n PROVE start[m - 1] <= start[m]
            OBVIOUS
          <6>3. m - 1 \in 0..n
            BY <1>2, Places
          <6>1. start[m - 1] \in Nat /\ start[m] = start[m - 1] + Len(q[m]) /\ Len(q[m]) \in Nat
            BY <1>2, <1>3, <1>4, <6>3
          <6>2. QED
            BY <6>1
        <5>2. QED
          BY <1>2, <1>3, <2>1, <4>2, <5>1, Ascending
      <4>5. Len(q[k]) \in Nat
        BY <1>2, <4>2
      <4>6. start[k - 1] + j \in 1..start[i]
        <5>1. j \in Nat /\ j >= 1 /\ j <= Len(q[k])
          BY <4>5
        <5>2. \A a, l, b, c \in Nat : b = a + l /\ b <= c /\ j <= l => a + j \in 1..c
          BY <5>1
        <5>3. QED
          BY <4>3, <4>4, <4>5, <5>1, <5>2
      <4>7. f[i + 1][start[k - 1] + j] = f[i][start[k - 1] + j]
        BY <1>4, <2>1, <4>6
      <4>8. QED
        BY <4>1, <4>7
    <3>3. k = i + 1 \/ k \in 1..i
      BY <2>1
    <3>4. QED
      BY <3>1, <3>2, <3>3
  <2>3. QED
    BY <2>1, <2>2
<1> HIDE DEF T
<1>7. n \in T
  <2>1. \A i \in 0..n : i \in T
    BY <1>2, <1>5, <1>6, Upwards
  <2>2. QED
    BY <1>2, <2>1
<1>8. Has(n)
  BY <1>7 DEF T
<1>9. PiecesOf(q, f[n], start)
  BY <1>2, <1>3, <1>4, <1>8 DEF PiecesOf, n
<1>10. QED
  BY <1>1, <1>2, <1>9

WireUnit(Id) == [id : Id, type : {"fixed", "variable"}, length : Nat]
WireWord(Id) ==
    [word : {"head"}, id : Id, type : {"fixed", "variable"}] \cup [word : {"size"}, length : Nat]
        \cup [word : {"data"}, id : Id, at : Nat]

(* A unit on the wire is its head, its size and its padded data, and has no  *)
(* other head.                                                               *)
LEMMA UnitIsWords ==
    ASSUME NEW Id, NEW u \in WireUnit(Id)
    PROVE  /\ UnitWords(u) \in Seq(WireWord(Id)) /\ Padded(u) \in Nat
           /\ Len(UnitWords(u)) = 2 + Padded(u)
           /\ UnitWords(u)[1] = [word |-> "head", id |-> u.id, type |-> u.type]
           /\ UnitWords(u)[2] = [word |-> "size", length |-> u.length]
           /\ \A i \in 2..Len(UnitWords(u)) : UnitWords(u)[i].word # "head"
<1>1. u.id \in Id /\ u.type \in {"fixed", "variable"} /\ u.length \in Nat
  BY DEF WireUnit
<1>2. Padded(u) \in Nat
  BY <1>1 DEF Padded, Align8
<1> DEFINE head == [word |-> "head", id |-> u.id, type |-> u.type]
           size == [word |-> "size", length |-> u.length]
           data(i) == [word |-> "data", id |-> u.id, at |-> i]
           n == 2 + Padded(u)
<1>3. UnitWords(u) = [i \in 1..n |-> CASE i = 1 -> head [] i = 2 -> size [] OTHER -> data(i)]
  BY DEF UnitWords, HeaderWords
<1>4. head \in WireWord(Id) /\ size \in WireWord(Id) /\ \A i \in Nat : data(i) \in WireWord(Id)
  <2>1. head \in [word : {"head"}, id : Id, type : {"fixed", "variable"}]
    BY <1>1
  <2>2. size \in [word : {"size"}, length : Nat]
    BY <1>1
  <2>3. \A i \in Nat : data(i) \in [word : {"data"}, id : Id, at : Nat]
    BY <1>1
  <2> HIDE DEF head, size, data
  <2>4. QED
    BY <2>1, <2>2, <2>3 DEF WireWord
<1>5. head.word = "head" /\ size.word # "head" /\ \A i : data(i).word # "head"
  OBVIOUS
<1>6. n \in Nat /\ n >= 2
  BY <1>2
<1> HIDE DEF head, size, data, n
<1>7. UnitWords(u) \in [1..n -> WireWord(Id)]
  BY <1>3, <1>4, <1>6
<1>8. UnitWords(u) \in Seq(WireWord(Id)) /\ Len(UnitWords(u)) = n
  BY <1>6, <1>7, SequenceOf
<1>9. UnitWords(u)[1] = head /\ UnitWords(u)[2] = size
  BY <1>3, <1>6
<1>10. ASSUME NEW i \in 2..n PROVE UnitWords(u)[i].word # "head"
  <2>1. i \in 1..n /\ i # 1
    BY <1>6
  <2>2. UnitWords(u)[i] = size \/ UnitWords(u)[i] = data(i)
    BY <1>3, <2>1
  <2>3. QED
    BY <1>5, <2>2
<1>11. QED
  BY <1>2, <1>8, <1>9, <1>10 DEF n, head, size

Words(us) == [j \in DOMAIN us |-> UnitWords(us[j])]

(* The words of a sequence of units, unit by unit.                           *)
LEMMA WordsOfUnits ==
    ASSUME NEW Id, NEW us \in Seq(WireUnit(Id))
    PROVE  /\ Words(us) \in Seq(Seq(WireWord(Id))) /\ Len(Words(us)) = Len(us)
           /\ \A j \in 1..Len(us) : Words(us)[j] = UnitWords(us[j])
<1>1. Len(us) \in Nat /\ DOMAIN us = 1..Len(us) /\ \A j \in 1..Len(us) : us[j] \in WireUnit(Id)
  OBVIOUS
<1>2. \A j \in 1..Len(us) : UnitWords(us[j]) \in Seq(WireWord(Id))
  BY <1>1, UnitIsWords
<1>3. Words(us) \in [1..Len(us) -> Seq(WireWord(Id))] /\ \A j \in 1..Len(us) : Words(us)[j] = UnitWords(us[j])
  BY <1>1, <1>2 DEF Words
<1>4. QED
  BY <1>1, <1>3, SequenceOf

(* A body that is made of the words of these units.                          *)
Spells(b, us) == \E start : PiecesOf(Words(us), b, start)

(* The body of the recursion in Units.                                       *)
UnitsFrom(b, g, off) ==
    CASE off = Len(b) -> <<>>
      [] off < Len(b) /\ off + HeaderWords > Len(b) -> BadUnits
      [] off + HeaderWords <= Len(b) /\ b[off + 1].word # "head" -> BadUnits
      [] OTHER -> IF NextOffset(b, off) > Len(b) THEN BadUnits
                  ELSE LET after == g[NextOffset(b, off)]
                       IN  IF after = BadUnits THEN BadUnits
                           ELSE <<UnitOf(b[off + 1].id, b[off + 1].type, b[off + 2].length)>> \o after

(* A rest is its first element and what follows.                             *)
LEMMA SplitFirst ==
    ASSUME NEW S, NEW s \in Seq(S), NEW j \in 1..Len(s)
    PROVE  <<s[j]>> \o SubSeq(s, j + 1, Len(s)) = SubSeq(s, j, Len(s))
<1>1. Len(s) \in Nat /\ j \in Nat /\ s[j] \in S
  OBVIOUS
<1>2. SubSeq(s, j, Len(s)) \in Seq(S) /\ SubSeq(s, j + 1, Len(s)) \in Seq(S) /\ <<s[j]>> \in Seq(S)
  BY <1>1
<1>3. /\ Len(SubSeq(s, j, Len(s))) = Len(s) - j + 1 /\ Len(SubSeq(s, j + 1, Len(s))) = Len(s) - j
      /\ Len(<<s[j]>> \o SubSeq(s, j + 1, Len(s))) = Len(s) - j + 1
  BY <1>1
<1>4. ASSUME NEW i \in 1..Len(s) - j + 1
      PROVE  (<<s[j]>> \o SubSeq(s, j + 1, Len(s)))[i] = SubSeq(s, j, Len(s))[i]
  <2>1. CASE i = 1
    BY <1>1, <1>2, <1>3, <2>1
  <2>2. CASE i # 1
    <3>1. i - 1 \in 1..Len(s) - j /\ i \in Nat
      BY <1>1, <2>2
    <3>2. (<<s[j]>> \o SubSeq(s, j + 1, Len(s)))[i] = SubSeq(s, j + 1, Len(s))[i - 1]
      BY <1>1, <1>2, <1>3, <2>2, <3>1
    <3>3. SubSeq(s, j + 1, Len(s))[i - 1] = s[j + i - 1]
      BY <1>1, <1>3, <3>1
    <3>4. SubSeq(s, j, Len(s))[i] = s[j + i - 1]
      BY <1>1, <1>3, <3>1
    <3>5. QED
      BY <3>2, <3>3, <3>4
  <2>3. QED
    BY <2>1, <2>2
<1>5. QED
  BY <1>1, <1>2, <1>3, <1>4

(* Where a unit begins, its header is read, and no header begins elsewhere.  *)
UnitAt(b, us, start, j) ==
    LET o == start[j - 1]
    IN  /\ o \in 0..Len(b) /\ o # Len(b) /\ o + HeaderWords <= Len(b)
        /\ b[o + 1].word = "head" /\ NextOffset(b, o) = start[j] /\ start[j] \in 0..Len(b)
        /\ UnitOf(b[o + 1].id, b[o + 1].type, b[o + 2].length) = us[j]

(* Where units start and where none does.                                    *)
LEMMA UnitsAt ==
    ASSUME NEW Id, NEW us \in Seq(WireUnit(Id)), NEW b \in Seq(WireWord(Id)), NEW start,
           PiecesOf(Words(us), b, start)
    PROVE  /\ \A j \in 1..Len(us) : UnitAt(b, us, start, j)
           /\ \A off \in 0..Len(b) : (\A j \in 0..Len(us) : start[j] # off) =>
                                        off # Len(b) /\ b[off + 1].word # "head"
<1> DEFINE n == Len(b)
           m == Len(us)
           q == Words(us)
<1>1. /\ q \in Seq(Seq(WireWord(Id))) /\ Len(q) = m
      /\ \A j \in 1..m : q[j] = UnitWords(us[j])
  BY WordsOfUnits
<1>2. n \in Nat /\ m \in Nat /\ \A j \in 1..m : us[j] \in WireUnit(Id)
  OBVIOUS
<1>3. PiecesOf(q, b, start)
  OBVIOUS
<1> HIDE DEF n, m, q
<1>4. start \in [0..m -> Nat] /\ start[0] = 0 /\ start[m] = n
  BY <1>1, <1>3 DEF PiecesOf, n
<1>5. ASSUME NEW j \in 1..m PROVE UnitAt(b, us, start, j)
  <2>1. j \in 0..m /\ j - 1 \in 0..m /\ j \in Nat
    BY <1>2, Places
  <2>2. start[j] = start[j - 1] + Len(q[j]) /\ \A i \in 1..Len(q[j]) : b[start[j - 1] + i] = q[j][i]
    BY <1>1, <1>3 DEF PiecesOf
  <2>3. us[j] \in WireUnit(Id) /\ q[j] = UnitWords(us[j])
    BY <1>1, <1>2
  <2> DEFINE u == us[j]
             o == start[j - 1]
  <2>4. /\ Padded(u) \in Nat /\ Len(q[j]) = 2 + Padded(u)
        /\ q[j][1] = [word |-> "head", id |-> u.id, type |-> u.type]
        /\ q[j][2] = [word |-> "size", length |-> u.length]
    BY <2>3, UnitIsWords
  <2>5. o \in Nat /\ start[j] \in Nat /\ start[j] = o + 2 + Padded(u)
    <3>1. start[j - 1] \in Nat /\ start[j] \in Nat
      BY <1>4, <2>1
    <3>2. start[j] = start[j - 1] + Len(q[j]) /\ Len(q[j]) = 2 + Padded(u) /\ Padded(u) \in Nat
      BY <2>2, <2>4
    <3> HIDE DEF u
    <3>3. QED
      BY <3>1, <3>2
  <2>6. start[j] <= n
    <3>1. j \in 0..Len(q) /\ m \in 0..Len(q) /\ j <= m
      BY <1>1, <1>2, <2>1
    <3>2. start[j] <= start[m]
      BY <1>1, <1>3, <3>1, PiecesAscend
    <3>3. QED
      BY <1>4, <3>2
  <2> HIDE DEF o
  <2>7. 1 \in 1..Len(q[j]) /\ 2 \in 1..Len(q[j])
    BY <2>4
  <2>8. b[o + 1] = q[j][1] /\ b[o + 2] = q[j][2]
    BY <2>2, <2>7 DEF o
  <2>9. /\ b[o + 1].word = "head" /\ b[o + 1].id = u.id /\ b[o + 1].type = u.type
        /\ b[o + 2].length = u.length
    BY <2>4, <2>8
  <2>10. NextOffset(b, o) = start[j]
    <3>1. u.type = "variable" => Padded(u) = Align8(u.length)
      BY DEF Padded
    <3>2. u.type # "variable" => Padded(u) = 0
      BY DEF Padded
    <3>3. NextOffset(b, o) = o + 2 + Padded(u)
      BY <2>4, <2>5, <2>9, <3>1, <3>2 DEF NextOffset, HeaderWords
    <3>4. QED
      BY <2>5, <3>3
  <2>11. UnitOf(b[o + 1].id, b[o + 1].type, b[o + 2].length) = u
    BY <2>3, <2>9 DEF UnitOf, WireUnit
  <2>12. o \in 0..n /\ o # n /\ o + HeaderWords <= n /\ start[j] \in 0..n
    BY <1>2, <2>4, <2>5, <2>6 DEF HeaderWords
  <2>13. QED
    BY <2>9, <2>10, <2>11, <2>12 DEF UnitAt, o, n
<1>6. ASSUME NEW off \in 0..n, \A j \in 0..m : start[j] # off
      PROVE  off # n /\ b[off + 1].word # "head"
  <2>1. off # n /\ off \in Nat
    BY <1>2, <1>4, <1>6
  <2>2. off + 1 \in 1..Len(b)
    BY <1>2, <2>1 DEF n
  <2>3. PICK j \in 1..Len(q) : \E i \in 1..Len(q[j]) : off + 1 = start[j - 1] + i
    <3>1. Within(q, start, off + 1)
      BY <1>1, <1>3, <2>2, Located
    <3>2. QED
      BY <3>1 DEF Within
  <2>4. PICK i \in 1..Len(q[j]) : off + 1 = start[j - 1] + i
    BY <2>3
  <2>5. j \in 1..m /\ j - 1 \in 0..m
    BY <1>1, <1>2, Places
  <2>6. us[j] \in WireUnit(Id) /\ q[j] = UnitWords(us[j])
    BY <1>1, <1>2, <2>5
  <2>7. Len(q[j]) \in Nat /\ \A k \in 2..Len(q[j]) : q[j][k].word # "head"
    <3>1. /\ Padded(us[j]) \in Nat /\ Len(UnitWords(us[j])) = 2 + Padded(us[j])
          /\ \A k \in 2..Len(UnitWords(us[j])) : UnitWords(us[j])[k].word # "head"
      BY <2>6, UnitIsWords
    <3>2. Len(UnitWords(us[j])) \in Nat
      BY <3>1
    <3>3. QED
      BY <2>6, <3>1, <3>2
  <2>8. start[j - 1] \in Nat /\ start[j - 1] # off
    BY <1>4, <1>6, <2>5
  <2>9. i \in 2..Len(q[j])
    BY <2>1, <2>4, <2>7, <2>8
  <2>10. b[start[j - 1] + i] = q[j][i]
    BY <1>1, <1>3, <2>5 DEF PiecesOf
  <2>11. QED
    BY <2>1, <2>4, <2>7, <2>9, <2>10
<1>7. QED
  BY <1>5, <1>6 DEF n, m

(* The units that a body spells are the units that are read from it.         *)
LEMMA UnitsRead ==
    ASSUME NEW Id, NEW us \in Seq(WireUnit(Id)), NEW b \in Seq(WireWord(Id)), Spells(b, us)
    PROVE  Units(b) = us
<1> DEFINE n == Len(b)
           m == Len(us)
           E(g) == g = [off \in 0..n |-> UnitsFrom(b, g, off)]
           e == CHOOSE g : E(g)
<1>1. PICK start : PiecesOf(Words(us), b, start)
  BY DEF Spells
<1>2. n \in Nat /\ m \in Nat
  OBVIOUS
<1>3. start \in [0..m -> Nat] /\ start[0] = 0 /\ start[m] = n
  <2>1. Len(Words(us)) = m
    BY WordsOfUnits
  <2>2. QED
    BY <1>1, <2>1 DEF PiecesOf
<1>4. \A j \in 1..m : UnitAt(b, us, start, j)
  BY <1>1, UnitsAt
<1>5. \A off \in 0..n : (\A j \in 0..m : start[j] # off) => off # n /\ b[off + 1].word # "head"
  BY <1>1, UnitsAt
<1>6. Units(b) = e[0]
  BY DEF Units, UnitsFrom
<1> HIDE DEF n, m
<1> DEFINE tail(j) == SubSeq(us, j + 1, m)
<1>7. tail(m) = <<>> /\ tail(0) = us
  BY <1>2 DEF m
<1>8. \A j \in 0..m : tail(j) # BadUnits
  <2> SUFFICES ASSUME NEW j \in 0..m, tail(j) = BadUnits PROVE FALSE
    OBVIOUS
  <2>1. tail(j) \in Seq(WireUnit(Id))
    BY <1>2 DEF m
  <2> DEFINE bad == UnitOf("none", "error", 0)
  <2>2. tail(j) = <<bad>> /\ bad.type = "error"
    BY DEF BadUnits, UnitOf
  <2> HIDE DEF tail, bad
  <2>3. tail(j)[1] = bad /\ Len(tail(j)) = 1
    BY <2>2
  <2>4. bad \in WireUnit(Id)
    BY <2>1, <2>3
  <2>5. QED
    BY <2>2, <2>4 DEF WireUnit
<1>9. \A j \in 1..m : <<us[j]>> \o tail(j) = tail(j - 1)
  <2> SUFFICES ASSUME NEW j \in 1..m PROVE <<us[j]>> \o SubSeq(us, j + 1, m) = SubSeq(us, (j - 1) + 1, m)
    OBVIOUS
  <2>1. (j - 1) + 1 = j
    BY <1>2
  <2>2. QED
    BY <2>1, SplitFirst DEF m
<1> HIDE DEF tail
<1>10. ASSUME NEW g, NEW j \in 1..m, g[start[j]] = tail(j)
       PROVE  UnitsFrom(b, g, start[j - 1]) = tail(j - 1)
  <2>1. UnitAt(b, us, start, j) /\ tail(j) # BadUnits /\ <<us[j]>> \o tail(j) = tail(j - 1)
    BY <1>2, <1>4, <1>8, <1>9, Places
  <2> DEFINE o == start[j - 1]
  <2>2. /\ o \in 0..n /\ o # n /\ o + HeaderWords <= n
        /\ b[o + 1].word = "head" /\ NextOffset(b, o) = start[j] /\ start[j] \in 0..n
        /\ UnitOf(b[o + 1].id, b[o + 1].type, b[o + 2].length) = us[j]
    BY <2>1 DEF UnitAt, n
  <2> HIDE DEF o
  <2>3. ~(NextOffset(b, o) > n) /\ ~(o + HeaderWords > n)
    BY <1>2, <2>2 DEF HeaderWords
  <2>4. UnitsFrom(b, g, o) = <<us[j]>> \o tail(j)
    BY <1>10, <2>1, <2>2, <2>3 DEF UnitsFrom, n
  <2>5. QED
    BY <2>1, <2>4 DEF o
<1>11. ASSUME NEW g, NEW off \in 0..n, \A j \in 0..m : start[j] # off
       PROVE  UnitsFrom(b, g, off) = BadUnits
  <2>1. off # n /\ b[off + 1].word # "head" /\ off < n
    BY <1>2, <1>5, <1>11
  <2>2. off + HeaderWords > n \/ off + HeaderWords <= n
    BY <1>2 DEF HeaderWords
  <2>3. QED
    BY <2>1, <2>2 DEF UnitsFrom, n
<1>12. \A g : UnitsFrom(b, g, n) = <<>>
  <2> SUFFICES ASSUME NEW g PROVE UnitsFrom(b, g, n) = <<>>
    OBVIOUS
  <2>1. ~(n < n) /\ ~(n + HeaderWords <= n)
    BY <1>2 DEF HeaderWords
  <2>2. QED
    BY <2>1 DEF UnitsFrom, n
<1>13. \E g : E(g)
  <2> DEFINE at(off) == CHOOSE j \in 0..m : start[j] = off
             h == [off \in 0..n |-> IF \E j \in 0..m : start[j] = off THEN tail(at(off)) ELSE BadUnits]
  <2>1. \A j, k \in 0..m : start[j] = start[k] => j = k
    <3>1. ASSUME NEW j \in 0..m, NEW k \in 0..m, j < k PROVE start[j] < start[k]
      <4>1. j + 1 \in 1..m /\ j + 1 \in 0..m /\ (j + 1) - 1 = j /\ j + 1 <= k
        BY <1>2, <3>1
      <4>2. UnitAt(b, us, start, j + 1)
        BY <1>4, <4>1
      <4>3. NextOffset(b, start[j]) = start[j + 1] /\ start[j] \in Nat /\ start[j + 1] \in Nat /\ start[k] \in Nat
        BY <1>3, <4>1, <4>2 DEF UnitAt
      <4>4. start[j] < start[j + 1]
        <5>1. start[j + 1] = start[j] + Len(Words(us)[j + 1])
          <6>1. Len(Words(us)) = m
            BY WordsOfUnits DEF m
          <6>2. QED
            BY <1>1, <4>1, <6>1 DEF PiecesOf
        <5>2. us[j + 1] \in WireUnit(Id)
          BY <4>1 DEF m
        <5>3. Words(us)[j + 1] = UnitWords(us[j + 1])
          BY <4>1, WordsOfUnits DEF m
        <5>4. Len(Words(us)[j + 1]) \in Nat /\ Len(Words(us)[j + 1]) >= 2
          <6>1. Padded(us[j + 1]) \in Nat /\ Len(Words(us)[j + 1]) = 2 + Padded(us[j + 1])
            BY <5>2, <5>3, UnitIsWords
          <6>2. QED
            BY <6>1
        <5>5. QED
          BY <4>3, <5>1, <5>4
      <4>5. start[j + 1] <= start[k]
        <5>1. Len(Words(us)) = m /\ Words(us) \in Seq(Seq(WireWord(Id)))
          BY WordsOfUnits DEF m
        <5>2. QED
          BY <1>1, <4>1, <5>1, PiecesAscend
      <4>6. QED
        BY <4>3, <4>4, <4>5
    <3>2. SUFFICES ASSUME NEW j \in 0..m, NEW k \in 0..m, start[j] = start[k] PROVE j = k
      OBVIOUS
    <3>3. start[j] \in Nat /\ start[k] \in Nat
      BY <1>3
    <3>4. ~(j < k) /\ ~(k < j)
      BY <3>1, <3>2, <3>3
    <3>5. QED
      BY <1>2, <3>4
  <2>2. ASSUME NEW j \in 0..m PROVE start[j] \in 0..n /\ h[start[j]] = tail(j)
    <3>1. start[j] \in 0..n
      <4>1. CASE j = 0
        BY <1>2, <1>3, <4>1
      <4>2. CASE j \in 1..m
        BY <1>4, <4>2 DEF UnitAt, n
      <4>3. QED
        BY <1>2, <4>1, <4>2
    <3>2. at(start[j]) = j
      BY <2>1
    <3> HIDE DEF at
    <3>3. QED
      BY <3>1, <3>2
  <2>3. \A off \in 0..n : (\A j \in 0..m : start[j] # off) => h[off] = BadUnits
    OBVIOUS
  <2>4. DOMAIN h = 0..n /\ h = [off \in 0..n |-> h[off]]
    OBVIOUS
  <2> HIDE DEF h
  <2>5. ASSUME NEW off \in 0..n PROVE h[off] = UnitsFrom(b, h, off)
    <3>1. CASE \A j \in 0..m : start[j] # off
      BY <1>11, <2>3, <3>1
    <3>2. CASE off = n
      <4>1. m \in 0..m /\ h[n] = tail(m)
        BY <1>2, <1>3, <2>2
      <4>2. QED
        BY <1>7, <1>12, <3>2, <4>1
    <3>3. ASSUME NEW j \in 0..m, start[j] = off, off # n PROVE h[off] = UnitsFrom(b, h, off)
      <4>1. j # m
        BY <1>3, <3>3
      <4>2. j + 1 \in 1..m /\ j + 1 \in 0..m /\ (j + 1) - 1 = j
        BY <1>2, <4>1
      <4>3. h[start[j + 1]] = tail(j + 1)
        BY <2>2, <4>2
      <4>4. UnitsFrom(b, h, start[j]) = tail(j)
        BY <1>10, <4>2, <4>3
      <4>5. QED
        BY <2>2, <3>3, <4>4
    <3>4. QED
      BY <3>1, <3>2, <3>3
  <2>6. E(h)
    BY <2>4, <2>5
  <2> HIDE DEF E
  <2>7. QED
    BY <2>6
<1>14. E(e)
  <2> HIDE DEF E
  <2>1. QED
    BY <1>13
<1>15. \A off \in 0..n : e[off] = UnitsFrom(b, e, off)
  BY <1>14
<1> HIDE DEF E, e
<1> DEFINE T == { i \in 0..m : e[start[m - i]] = tail(m - i) }
<1>16. 0 \in T
  <2>1. m - 0 = m /\ n \in 0..n /\ 0 \in 0..m
    BY <1>2
  <2>2. e[n] = <<>>
    BY <1>12, <1>15, <2>1
  <2>3. QED
    BY <1>3, <1>7, <2>1, <2>2
<1>17. ASSUME NEW i \in 0..m - 1, i \in T PROVE i + 1 \in T
  <2>1. m - i \in 1..m /\ (m - i) - 1 = m - (i + 1) /\ i + 1 \in 0..m
    BY <1>2
  <2>2. e[start[m - i]] = tail(m - i)
    BY <1>17
  <2>3. UnitsFrom(b, e, start[m - (i + 1)]) = tail(m - (i + 1))
    BY <1>10, <2>1, <2>2
  <2>4. start[m - (i + 1)] \in 0..n
    BY <1>4, <2>1 DEF UnitAt, n
  <2>5. e[start[m - (i + 1)]] = tail(m - (i + 1))
    BY <1>15, <2>3, <2>4
  <2>6. QED
    BY <2>1, <2>5
<1> HIDE DEF T
<1>18. m \in T
  <2>1. \A i \in 0..m : i \in T
    BY <1>2, <1>16, <1>17, Upwards
  <2>2. QED
    BY <1>2, <2>1
<1>19. m - m = 0
  BY <1>2
<1>20. e[0] = tail(0)
  BY <1>3, <1>18, <1>19 DEF T
<1>21. QED
  BY <1>6, <1>7, <1>20

Pieces(q, s) == \E start : PiecesOf(q, s, start)

(* Nothing falls into no pieces.                                             *)
LEMMA NoPieces == Pieces(<<>>, <<>>)
<1> DEFINE start == [i \in 0..0 |-> 0]
<1>1. PiecesOf(<<>>, <<>>, start)
  BY DEF PiecesOf
<1> HIDE DEF start
<1>2. QED
  BY <1>1 DEF Pieces

(* A piece added at the end.                                                 *)
LEMMA OnePieceMore ==
    ASSUME NEW S, NEW q \in Seq(Seq(S)), NEW s \in Seq(S), NEW x \in Seq(S), Pieces(q, s)
    PROVE  Pieces(Append(q, x), s \o x)
<1> DEFINE n == Len(q)
           p == Append(q, x)
           r == s \o x
<1>1. PICK start : PiecesOf(q, s, start)
  BY DEF Pieces
<1>2. n \in Nat /\ Len(p) = n + 1 /\ p[n + 1] = x /\ \A i \in 1..n : p[i] = q[i]
  OBVIOUS
<1>3. /\ Len(s) \in Nat /\ Len(x) \in Nat /\ Len(r) = Len(s) + Len(x)
      /\ \A i \in 1..Len(s) : r[i] = s[i]
      /\ \A i \in 1..Len(x) : r[Len(s) + i] = x[i]
  OBVIOUS
<1>4. start \in [0..n -> Nat] /\ start[0] = 0 /\ start[n] = Len(s)
  BY <1>1 DEF PiecesOf
<1>5. \A i \in 1..n : q[i] \in Seq(S) /\ Len(q[i]) \in Nat
  OBVIOUS
<1>6. \A i \in 1..n : /\ start[i] = start[i - 1] + Len(q[i])
                      /\ \A j \in 1..Len(q[i]) : s[start[i - 1] + j] = q[i][j]
  BY <1>1 DEF PiecesOf
<1>7. \A i \in 1..n : start[i] <= Len(s)
  <2> SUFFICES ASSUME NEW i \in 1..n PROVE start[i] <= Len(s)
    OBVIOUS
  <2>1. i \in 0..n /\ n \in 0..n /\ i <= n
    BY <1>2
  <2>2. start[i] <= start[n]
    BY <1>1, <2>1, PiecesAscend DEF n
  <2>3. QED
    BY <1>4, <2>2
<1> HIDE DEF n, p, r
<1> DEFINE more == [i \in 0..n + 1 |-> IF i <= n THEN start[i] ELSE Len(r)]
<1>8. more \in [0..n + 1 -> Nat] /\ more[0] = 0 /\ more[n + 1] = Len(r) /\ \A i \in 0..n : more[i] = start[i]
  BY <1>2, <1>3, <1>4
<1> HIDE DEF more
<1>9. ASSUME NEW i \in 1..n + 1
      PROVE  more[i] = more[i - 1] + Len(p[i]) /\ \A j \in 1..Len(p[i]) : r[more[i - 1] + j] = p[i][j]
  <2>1. CASE i = n + 1
    <3>1. i - 1 = n /\ n \in 0..n
      BY <1>2, <2>1
    <3>2. more[i - 1] = Len(s) /\ more[i] = Len(s) + Len(x) /\ p[i] = x
      BY <1>2, <1>3, <1>4, <1>8, <2>1, <3>1
    <3>3. QED
      BY <1>3, <3>2
  <2>2. CASE i \in 1..n
    <3>1. i \in 0..n /\ i - 1 \in 0..n
      BY <1>2, <2>2, Places
    <3>2. more[i] = start[i] /\ more[i - 1] = start[i - 1] /\ p[i] = q[i]
      BY <1>2, <1>8, <2>2, <3>1
    <3>3. ASSUME NEW j \in 1..Len(q[i]) PROVE r[start[i - 1] + j] = q[i][j]
      <4>1. s[start[i - 1] + j] = q[i][j] /\ start[i] = start[i - 1] + Len(q[i])
        BY <1>6, <2>2
      <4>2. start[i - 1] \in Nat /\ Len(q[i]) \in Nat /\ start[i] <= Len(s)
        BY <1>4, <1>5, <1>7, <2>2, <3>1
      <4>3. j \in Nat /\ j >= 1 /\ j <= Len(q[i])
        BY <4>2
      <4>4. start[i - 1] + j \in 1..Len(s)
        BY <1>3, <4>1, <4>2, <4>3, SMTT(40)
      <4>5. QED
        BY <1>3, <4>1, <4>4
    <3>4. start[i] = start[i - 1] + Len(q[i])
      BY <1>6, <2>2
    <3>5. QED
      BY <3>2, <3>3, <3>4
  <2>3. i = n + 1 \/ i \in 1..n
    BY <1>2
  <2>4. QED
    BY <2>1, <2>2, <2>3
<1>10. PiecesOf(p, r, more)
  BY <1>2, <1>8, <1>9 DEF PiecesOf
<1>11. QED
  BY <1>10 DEF Pieces, p, r

(* No words spell no units.                                                  *)
LEMMA SpellsNothing == Spells(<<>>, <<>>)
<1>1. Words(<<>>) = <<>>
  BY DEF Words
<1>2. QED
  BY <1>1, NoPieces DEF Spells, Pieces

(* The words of one unit more.                                               *)
LEMMA SpellsMore ==
    ASSUME NEW Id, NEW us \in Seq(WireUnit(Id)), NEW u \in WireUnit(Id), NEW b \in Seq(WireWord(Id)),
           Spells(b, us)
    PROVE  Spells(b \o UnitWords(u), Append(us, u))
<1>1. Words(us) \in Seq(Seq(WireWord(Id))) /\ UnitWords(u) \in Seq(WireWord(Id))
  BY WordsOfUnits, UnitIsWords
<1>2. Words(Append(us, u)) = Append(Words(us), UnitWords(u))
  <2> DEFINE m == Len(us)
             more == Append(us, u)
             w == Words(more)
             v == Append(Words(us), UnitWords(u))
  <2>1. m \in Nat /\ more \in Seq(WireUnit(Id)) /\ Len(more) = m + 1 /\ more[m + 1] = u
        /\ \A j \in 1..m : more[j] = us[j]
    OBVIOUS
  <2> HIDE DEF more
  <2>2. /\ Len(Words(us)) = m /\ \A j \in 1..m : Words(us)[j] = UnitWords(us[j])
        /\ w \in Seq(Seq(WireWord(Id))) /\ Len(w) = m + 1 /\ \A j \in 1..m + 1 : w[j] = UnitWords(more[j])
    BY <2>1, WordsOfUnits
  <2>3. /\ v \in Seq(Seq(WireWord(Id))) /\ Len(v) = m + 1 /\ v[m + 1] = UnitWords(u)
        /\ \A j \in 1..m : v[j] = Words(us)[j]
    BY <1>1, <2>2
  <2> HIDE DEF w, v, m
  <2>4. ASSUME NEW j \in 1..m + 1 PROVE w[j] = v[j]
    <3>1. j = m + 1 \/ j \in 1..m
      BY <2>1
    <3>2. CASE j = m + 1
      BY <2>1, <2>2, <2>3, <3>2
    <3>3. CASE j \in 1..m
      BY <2>1, <2>2, <2>3, <3>3
    <3>4. QED
      BY <3>1, <3>2, <3>3
  <2>5. w = v
    BY <2>2, <2>3, <2>4
  <2>6. QED
    BY <2>5 DEF w, v, more
<1>3. Pieces(Words(us), b)
  BY DEF Spells, Pieces
<1>4. Pieces(Append(Words(us), UnitWords(u)), b \o UnitWords(u))
  BY <1>1, <1>3, OnePieceMore
<1>5. QED
  BY <1>2, <1>4 DEF Spells, Pieces

-----------------------------------------------------------------------------
(* The writer.                                                               *)

Writers(Id) == [current : Seq(WireWord(Id)), bodies : Seq(Seq(WireWord(Id)))]

(* A body of whole units, at most one if it is larger than a packet.         *)
GoodBody(Id, b) ==
    b # <<>> /\ \E us \in Seq(WireUnit(Id)) : Spells(b, us) /\ (Len(b) > MaxBody => Len(us) = 1)

(* What the writer has, in its bodies and behind them, are the units it was  *)
(* given.                                                                    *)
SpelledBy(Id, bodies, current, us) ==
    \E t \in Seq(WireWord(Id)) : Pieces(bodies, t) /\ Spells(t \o current, us)
WholeUnits(Id, b) == \E us \in Seq(WireUnit(Id)) : Spells(b, us)
Holds(Id, w, us) ==
    /\ w \in Writers(Id) /\ Len(w.current) <= MaxBody
    /\ \A k \in 1..Len(w.bodies) : GoodBody(Id, w.bodies[k])
    /\ WholeUnits(Id, w.current) /\ SpelledBy(Id, w.bodies, w.current, us)

(* A new writer holds nothing (newMarshalWriter).                            *)
LEMMA NewWriterHolds ==
    ASSUME NEW Id
    PROVE  Holds(Id, NewWriter, <<>>)
<1> DEFINE none == <<>>
<1>1. none \in Seq(WireWord(Id)) /\ none \in Seq(Seq(WireWord(Id))) /\ none \in Seq(WireUnit(Id))
      /\ Len(none) = 0 /\ none \o none = none
  OBVIOUS
<1>2. Pieces(none, none) /\ Spells(none, none)
  BY NoPieces, SpellsNothing
<1>3. NewWriter = [current |-> none, bodies |-> none]
  BY DEF NewWriter
<1>6. MaxBody \in Nat
  BY MaxBodyAssumption
<1> HIDE DEF none
<1>4. NewWriter \in Writers(Id) /\ NewWriter.current = none /\ NewWriter.bodies = none
  BY <1>1, <1>3 DEF Writers
<1>8. WholeUnits(Id, none) /\ SpelledBy(Id, none, none, none)
  BY <1>1, <1>2 DEF WholeUnits, SpelledBy
<1>7. Holds(Id, NewWriter, none)
  BY <1>1, <1>4, <1>6, <1>8 DEF Holds
<1>5. QED
  BY <1>7 DEF none

(* Closing the current packet loses nothing (flushCurrent).                  *)
LEMMA FlushHolds ==
    ASSUME NEW Id, NEW us, NEW w, Holds(Id, w, us)
    PROVE  Holds(Id, FlushCurrent(w), us) /\ FlushCurrent(w).current = <<>>
<1>1. w \in Writers(Id) /\ w.current \in Seq(WireWord(Id)) /\ w.bodies \in Seq(Seq(WireWord(Id)))
  BY DEF Holds, Writers
<1>2. CASE w.current = <<>>
  BY <1>2 DEF FlushCurrent
<1>3. CASE w.current # <<>>
  <2> DEFINE none == <<>>
             flushed == [current |-> none, bodies |-> Append(w.bodies, w.current)]
             n == Len(w.bodies)
  <2>1. FlushCurrent(w) = flushed
    BY <1>3 DEF FlushCurrent
  <2>2. none \in Seq(WireWord(Id)) /\ none \in Seq(WireUnit(Id)) /\ Len(none) = 0 /\ MaxBody \in Nat
    BY MaxBodyAssumption
  <2>3. Spells(none, none)
    BY SpellsNothing
  <2> HIDE DEF none
  <2>4. flushed \in Writers(Id) /\ flushed.current = none /\ flushed.bodies = Append(w.bodies, w.current)
    BY <1>1, <2>2 DEF Writers
  <2>5. GoodBody(Id, w.current)
    <3>1. PICK cs \in Seq(WireUnit(Id)) : Spells(w.current, cs)
      BY DEF Holds, WholeUnits
    <3>2. ~(Len(w.current) > MaxBody)
      BY <1>1, <2>2 DEF Holds
    <3>3. QED
      BY <1>3, <3>1, <3>2 DEF GoodBody
  <2>6. \A k \in 1..Len(flushed.bodies) : GoodBody(Id, flushed.bodies[k])
    <3>1. /\ n \in Nat /\ Len(flushed.bodies) = n + 1 /\ flushed.bodies[n + 1] = w.current
          /\ \A k \in 1..n : flushed.bodies[k] = w.bodies[k]
      BY <1>1, <2>4
    <3>2. \A k \in 1..n : GoodBody(Id, w.bodies[k])
      BY DEF Holds
    <3> HIDE DEF flushed, n
    <3>3. SUFFICES ASSUME NEW k \in 1..n + 1 PROVE GoodBody(Id, flushed.bodies[k])
      BY <3>1
    <3>4. k = n + 1 \/ k \in 1..n
      BY <3>1
    <3>5. QED
      BY <2>5, <3>1, <3>2, <3>4
  <2>7. PICK t \in Seq(WireWord(Id)) : Pieces(w.bodies, t) /\ Spells(t \o w.current, us)
    BY DEF Holds, SpelledBy
  <2>8. t \o w.current \in Seq(WireWord(Id)) /\ Pieces(Append(w.bodies, w.current), t \o w.current)
    BY <1>1, <2>7, OnePieceMore
  <2>9. (t \o w.current) \o none = t \o w.current
    BY <2>8 DEF none
  <2> HIDE DEF flushed
  <2>12. WholeUnits(Id, none) /\ SpelledBy(Id, flushed.bodies, none, us)
    <3>1. WholeUnits(Id, none)
      BY <2>2, <2>3 DEF WholeUnits
    <3>2. SpelledBy(Id, Append(w.bodies, w.current), none, us)
      BY <2>7, <2>8, <2>9 DEF SpelledBy
    <3>3. QED
      BY <2>4, <3>1, <3>2
  <2>10. Holds(Id, flushed, us)
    BY <2>2, <2>4, <2>6, <2>12 DEF Holds
  <2>11. QED
    BY <2>1, <2>4, <2>10 DEF none
<1>4. QED
  BY <1>2, <1>3

(* Concatenation is associative.                                             *)
Associative(S) == \A a, b, c \in Seq(S) : a \o (b \o c) = (a \o b) \o c

(* Concatenation is associative.                                             *)
LEMMA Associate ==
    ASSUME NEW S
    PROVE  Associative(S)
<1> SUFFICES ASSUME NEW a \in Seq(S), NEW b \in Seq(S), NEW c \in Seq(S)
             PROVE  a \o (b \o c) = (a \o b) \o c
  BY Zenon DEF Associative
<1> DEFINE x == a \o (b \o c)
           y == (a \o b) \o c
           la == Len(a)
           lb == Len(b)
           lc == Len(c)
<1>1. la \in Nat /\ lb \in Nat /\ lc \in Nat
  OBVIOUS
<1>2. /\ b \o c \in Seq(S) /\ Len(b \o c) = lb + lc
      /\ a \o b \in Seq(S) /\ Len(a \o b) = la + lb
  OBVIOUS
<1>3. x \in Seq(S) /\ Len(x) = la + lb + lc /\ y \in Seq(S) /\ Len(y) = la + lb + lc
  BY <1>1, <1>2
<1>4. ASSUME NEW i \in 1..la + lb + lc PROVE x[i] = y[i]
  <2>1. CASE i \in 1..la
    <3>1. i \in 1..la + lb
      BY <1>1, <2>1
    <3>2. x[i] = a[i] /\ y[i] = (a \o b)[i] /\ (a \o b)[i] = a[i]
      BY <1>1, <1>2, <2>1, <3>1
    <3>3. QED
      BY <3>2
  <2>2. CASE i \in la + 1..la + lb
    <3>1. i - la \in 1..lb /\ i - la \in 1..lb + lc /\ i \in 1..la + lb /\ i \notin 1..la
      BY <1>1, <2>2
    <3>2. x[i] = (b \o c)[i - la] /\ (b \o c)[i - la] = b[i - la]
      BY <1>1, <1>2, <3>1
    <3>3. y[i] = (a \o b)[i] /\ (a \o b)[i] = b[i - la]
      BY <1>1, <1>2, <3>1
    <3>4. QED
      BY <3>2, <3>3
  <2>3. CASE i \in la + lb + 1..la + lb + lc
    <3>1. /\ i - la \in 1..lb + lc /\ i - la \notin 1..lb /\ (i - la) - lb = i - (la + lb)
          /\ i \notin 1..la /\ i \notin 1..la + lb
      BY <1>1, <2>3
    <3>2. x[i] = (b \o c)[i - la] /\ (b \o c)[i - la] = c[(i - la) - lb]
      BY <1>1, <1>2, <3>1
    <3>3. y[i] = c[i - (la + lb)]
      BY <1>1, <1>2, <3>1
    <3>4. QED
      BY <3>1, <3>2, <3>3
  <2>4. QED
    BY <1>1, <2>1, <2>2, <2>3
<1> HIDE DEF x, y
<1>5. x = y
  BY <1>3, <1>4
<1>6. QED
  BY <1>5 DEF x, y

(* A unit that is queued is held after the earlier ones (enqueue).           *)
LEMMA EnqueueHolds ==
    ASSUME NEW Id, NEW us \in Seq(WireUnit(Id)), NEW u \in WireUnit(Id), NEW w, Holds(Id, w, us)
    PROVE  Holds(Id, Enqueue(w, UnitWords(u)), Append(us, u))
<1> DEFINE words == UnitWords(u)
           W == Seq(WireWord(Id))
           none == <<>>
<1>1. words \in W /\ Len(words) \in Nat /\ words # <<>> /\ MaxBody \in Nat
  <2>1. words \in W /\ Padded(u) \in Nat /\ Len(words) = 2 + Padded(u)
    BY UnitIsWords
  <2> HIDE DEF words
  <2>2. Len(words) # 0
    BY <2>1
  <2>3. QED
    BY <2>1, <2>2, MaxBodyAssumption
<1>2. none \in Seq(WireUnit(Id)) /\ none \in W /\ Append(none, u) \in Seq(WireUnit(Id)) /\ Len(Append(none, u)) = 1
  OBVIOUS
<1>3. Spells(words, Append(none, u))
  <2>1. Spells(none \o words, Append(none, u))
    <3>1. Spells(none, none)
      BY SpellsNothing
    <3> HIDE DEF none
    <3>2. QED
      BY <1>2, <3>1, SpellsMore
  <2>2. none \o words = words
    BY <1>1
  <2>3. QED
    BY <2>1, <2>2
<1>4. ASSUME NEW v, Holds(Id, v, us)
      PROVE  /\ v \in Writers(Id) /\ v.current \in W /\ v.bodies \in Seq(W)
             /\ Len(v.current) \in Nat /\ Len(v.bodies) \in Nat
             /\ v = [current |-> v.current, bodies |-> v.bodies]
  <2>1. v \in Writers(Id)
    BY <1>4 DEF Holds
  <2>2. v.current \in W /\ v.bodies \in Seq(W) /\ v = [current |-> v.current, bodies |-> v.bodies]
    BY <2>1 DEF Writers
  <2>3. QED
    BY <2>1, <2>2
<1> HIDE DEF words, none
<1>5. CASE Len(words) > MaxBody
  <2> DEFINE v == FlushCurrent(w)
             x == [v EXCEPT !.bodies = Append(@, words)]
             n == Len(v.bodies)
  <2>1. Holds(Id, v, us) /\ v.current = none
    BY FlushHolds DEF none
  <2> HIDE DEF v
  <2>2. Enqueue(w, words) = x
    BY <1>5 DEF Enqueue, v
  <2>3. v \in Writers(Id) /\ v.bodies \in Seq(W) /\ n \in Nat
    BY <1>4, <2>1
  <2>4. /\ x \in Writers(Id) /\ x.current = none /\ x.bodies = Append(v.bodies, words)
    <3>1. Append(v.bodies, words) \in Seq(W)
      BY <1>1, <2>3
    <3>2. QED
      BY <2>1, <2>3, <3>1 DEF Writers
  <2> HIDE DEF x
  <2>5. GoodBody(Id, words)
    BY <1>1, <1>2, <1>3 DEF GoodBody
  <2>6. \A k \in 1..Len(x.bodies) : GoodBody(Id, x.bodies[k])
    <3>1. /\ Len(x.bodies) = n + 1 /\ x.bodies[n + 1] = words
          /\ \A k \in 1..n : x.bodies[k] = v.bodies[k]
      BY <1>1, <2>3, <2>4
    <3>2. \A k \in 1..n : GoodBody(Id, v.bodies[k])
      BY <2>1 DEF Holds
    <3> HIDE DEF n
    <3>3. SUFFICES ASSUME NEW k \in 1..n + 1 PROVE GoodBody(Id, x.bodies[k])
      BY <3>1
    <3>4. k = n + 1 \/ k \in 1..n
      BY <2>3
    <3>5. QED
      BY <2>5, <3>1, <3>2, <3>4
  <2>7. PICK t \in W : Pieces(v.bodies, t) /\ Spells(t \o none, us)
    BY <2>1 DEF Holds, SpelledBy
  <2>8. t \o none = t /\ t \o words \in W /\ (t \o words) \o none = t \o words
    BY <1>1 DEF none
  <2>9. Spells(t \o words, Append(us, u))
    BY <2>7, <2>8, SpellsMore DEF words
  <2>10. Pieces(Append(v.bodies, words), t \o words)
    BY <1>1, <2>3, <2>7, OnePieceMore
  <2>11. SpelledBy(Id, x.bodies, none, Append(us, u))
    BY <2>4, <2>8, <2>9, <2>10 DEF SpelledBy
  <2>12. WholeUnits(Id, none)
    BY <1>2, SpellsNothing DEF WholeUnits, none
  <2>13. Len(none) <= MaxBody
    BY <1>1 DEF none
  <2>14. Holds(Id, x, Append(us, u))
    BY <2>4, <2>6, <2>11, <2>12, <2>13 DEF Holds
  <2>15. QED
    BY <2>2, <2>14 DEF words
<1>6. CASE ~(Len(words) > MaxBody)
  <2> DEFINE v == IF Len(w.current) + Len(words) > MaxBody THEN FlushCurrent(w) ELSE w
             x == [v EXCEPT !.current = @ \o words]
  <2>1. Enqueue(w, words) = x
    BY <1>6 DEF Enqueue
  <2>2. Holds(Id, v, us) /\ Len(v.current) + Len(words) <= MaxBody
    <3>1. CASE Len(w.current) + Len(words) > MaxBody
      <4>1. v = FlushCurrent(w)
        BY <3>1
      <4>2. Holds(Id, FlushCurrent(w), us) /\ FlushCurrent(w).current = <<>>
        BY FlushHolds
      <4> HIDE DEF v
      <4>3. Len(v.current) = 0
        BY <4>1, <4>2
      <4>4. QED
        BY <1>1, <1>6, <4>1, <4>2, <4>3
    <3>2. CASE ~(Len(w.current) + Len(words) > MaxBody)
      <4>1. v = w
        BY <3>2
      <4>2. Len(w.current) \in Nat
        BY <1>4
      <4> HIDE DEF v
      <4>3. QED
        BY <1>1, <3>2, <4>1, <4>2
    <3>3. QED
      BY <3>1, <3>2
  <2> HIDE DEF v
  <2>3. v \in Writers(Id) /\ v.current \in W /\ v.bodies \in Seq(W) /\ Len(v.current) \in Nat
    BY <1>4, <2>2
  <2>4. v.current \o words \in W /\ Len(v.current \o words) = Len(v.current) + Len(words)
    BY <1>1, <2>3
  <2>5. x \in Writers(Id) /\ x.current = v.current \o words /\ x.bodies = v.bodies
    BY <2>3, <2>4 DEF Writers
  <2> HIDE DEF x
  <2>6. PICK cs \in Seq(WireUnit(Id)) : Spells(v.current, cs)
    BY <2>2 DEF Holds, WholeUnits
  <2>7. Spells(v.current \o words, Append(cs, u)) /\ Append(cs, u) \in Seq(WireUnit(Id))
    BY <2>3, <2>6, SpellsMore DEF words
  <2>8. PICK t \in W : Pieces(v.bodies, t) /\ Spells(t \o v.current, us)
    BY <2>2 DEF Holds, SpelledBy
  <2>9. t \o v.current \in W
    BY <2>3
  <2>10. Spells((t \o v.current) \o words, Append(us, u))
    BY <2>8, <2>9, SpellsMore DEF words
  <2>11. t \o (v.current \o words) = (t \o v.current) \o words
    <3>1. Associative(WireWord(Id))
      BY Associate
    <3>2. QED
      BY <1>1, <2>3, <3>1, Zenon DEF Associative
  <2>12. SpelledBy(Id, x.bodies, x.current, Append(us, u))
    BY <2>5, <2>8, <2>10, <2>11 DEF SpelledBy
  <2>13. WholeUnits(Id, x.current)
    BY <2>5, <2>7 DEF WholeUnits
  <2>14. Len(x.current) <= MaxBody
    BY <2>2, <2>4, <2>5
  <2>15. \A k \in 1..Len(x.bodies) : GoodBody(Id, x.bodies[k])
    BY <2>2, <2>5 DEF Holds
  <2>16. Holds(Id, x, Append(us, u))
    BY <2>5, <2>12, <2>13, <2>14, <2>15 DEF Holds
  <2>17. QED
    BY <2>1, <2>16 DEF words
<1>7. QED
  BY <1>5, <1>6

(* A unit leaves a writer.                                                   *)
LEMMA EnqueueTyped ==
    ASSUME NEW Id, NEW u \in WireUnit(Id), NEW w \in Writers(Id)
    PROVE  Enqueue(w, UnitWords(u)) \in Writers(Id)
<1> DEFINE words == UnitWords(u)
           W == Seq(WireWord(Id))
           none == <<>>
<1>1. words \in W
  BY UnitIsWords
<1>2. none \in W
  OBVIOUS
<1> HIDE DEF words, none
<1>3. ASSUME NEW v \in Writers(Id)
      PROVE  /\ v.current \in W /\ v.bodies \in Seq(W)
             /\ [v EXCEPT !.bodies = Append(@, words)] \in Writers(Id)
             /\ [v EXCEPT !.current = @ \o words] \in Writers(Id)
             /\ [current |-> none, bodies |-> Append(v.bodies, v.current)] \in Writers(Id)
  <2>1. v.current \in W /\ v.bodies \in Seq(W)
    BY DEF Writers
  <2>2. Append(v.bodies, words) \in Seq(W) /\ v.current \o words \in W /\ Append(v.bodies, v.current) \in Seq(W)
    BY <1>1, <2>1
  <2>3. QED
    BY <1>2, <2>1, <2>2 DEF Writers
<1>4. FlushCurrent(w) \in Writers(Id)
  BY <1>3 DEF FlushCurrent, none
<1>5. Enqueue(w, words) \in Writers(Id)
  BY <1>3, <1>4 DEF Enqueue
<1>6. QED
  BY <1>5 DEF words

WriterLoop(Id, items) ==
    \E f \in [0..Len(items) -> Writers(Id)] :
        /\ f[0] = NewWriter
        /\ \A i \in 1..Len(items) : f[i] = Enqueue(f[i - 1], UnitWords(items[i]))
        /\ FoldLeft(LAMBDA w, u : Enqueue(w, UnitWords(u)), NewWriter, items) = f[Len(items)]

(* Queueing the units of a message one by one.                               *)
LEMMA WriterLooped ==
    ASSUME NEW Id, NEW items \in Seq(WireUnit(Id))
    PROVE  WriterLoop(Id, items)
<1> DEFINE n == Len(items)
           V == Writers(Id)
           F == [i \in 1..n |-> [v \in V |-> Enqueue(v, UnitWords(items[i]))]]
           E(g) == g = [s \in SUBSET (1..n) |->
                          IF s = {} THEN NewWriter
                          ELSE Enqueue(g[s \ {Max(s)}], UnitWords(items[Max(s)]))]
           e == CHOOSE g : E(g)
<1>1. n \in Nat /\ DOMAIN items = 1..n /\ \A i \in 1..n : items[i] \in WireUnit(Id)
  OBVIOUS
<1>2. NewWriter \in V
  BY NewWriterHolds DEF Holds
<1>3. F \in [1..n -> [V -> V]] /\ \A i \in 1..n : \A v \in V : F[i][v] = Enqueue(v, UnitWords(items[i]))
  <2>1. \A i \in 1..n : \A v \in V : F[i][v] = Enqueue(v, UnitWords(items[i]))
    OBVIOUS
  <2>2. \A i \in 1..n : \A v \in V : Enqueue(v, UnitWords(items[i])) \in V
    BY <1>1, EnqueueTyped
  <2>3. QED
    BY <2>1, <2>2
<1>4. FoldLeft(LAMBDA w, u : Enqueue(w, UnitWords(u)), NewWriter, items) = e[1..n]
  BY <1>1 DEF FoldLeft, MapThenFoldSet
<1> HIDE DEF n, V, F
<1>5. \E g : E(g)
  <2>1. OverSets(n, V, NewWriter, F)
    BY <1>1, <1>2, <1>3, Folding
  <2>2. PICK g \in [SUBSET (1..n) -> V] :
          \A s \in SUBSET (1..n) : g[s] = IF s = {} THEN NewWriter ELSE F[Max(s)][g[s \ {Max(s)}]]
    BY <2>1 DEF OverSets
  <2>3. ASSUME NEW s \in SUBSET (1..n), s # {}
        PROVE  F[Max(s)][g[s \ {Max(s)}]] = Enqueue(g[s \ {Max(s)}], UnitWords(items[Max(s)]))
    <3>1. Max(s) \in 1..n /\ s \ {Max(s)} \in SUBSET (1..n)
      BY <1>1, <2>3, Largest
    <3>2. QED
      BY <1>3, <3>1
  <2>4. g = [s \in SUBSET (1..n) |->
               IF s = {} THEN NewWriter ELSE Enqueue(g[s \ {Max(s)}], UnitWords(items[Max(s)]))]
    BY <2>2, <2>3
  <2>5. QED
    BY <2>4
<1>6. E(e)
  <2> HIDE DEF E
  <2>1. QED
    BY <1>5
<1>7. \A s \in SUBSET (1..n) : e[s] = IF s = {} THEN NewWriter
                                       ELSE Enqueue(e[s \ {Max(s)}], UnitWords(items[Max(s)]))
  BY <1>6
<1> HIDE DEF e
<1>8. e[{}] = NewWriter
  BY <1>7
<1>9. \A s \in SUBSET (1..n) : s # {} /\ e[s \ {Max(s)}] \in V => e[s] = F[Max(s)][e[s \ {Max(s)}]]
  <2> SUFFICES ASSUME NEW s \in SUBSET (1..n), s # {}, e[s \ {Max(s)}] \in V
               PROVE  e[s] = F[Max(s)][e[s \ {Max(s)}]]
    OBVIOUS
  <2>1. Max(s) \in 1..n
    BY <1>1, Largest
  <2>2. QED
    BY <1>3, <1>7, <2>1
<1>10. /\ e[1..0] = NewWriter
       /\ \A i \in 0..n : e[1..i] \in V
       /\ \A i \in 1..n : e[1..i] = F[i][e[1..i - 1]]
  <2>1. OnSets(n, V, NewWriter, F, e)
    BY <1>8, <1>9 DEF OnSets
  <2>2. OnPlaces(n, V, NewWriter, F, e)
    BY <1>1, <1>2, <1>3, <2>1, Unfolding
  <2>3. QED
    BY <2>2 DEF OnPlaces
<1> DEFINE f == [i \in 0..n |-> e[1..i]]
<1>11. f \in [0..n -> V] /\ f[0] = NewWriter /\ f[n] = e[1..n]
  BY <1>1, <1>10
<1>12. ASSUME NEW i \in 1..n PROVE f[i] = Enqueue(f[i - 1], UnitWords(items[i]))
  <2>1. i - 1 \in 0..n /\ i \in 0..n
    BY <1>1
  <2>2. f[i] = e[1..i] /\ f[i - 1] = e[1..i - 1] /\ e[1..i - 1] \in V
    BY <1>10, <2>1
  <2>3. QED
    BY <1>3, <1>10, <2>2
<1> HIDE DEF f
<1>13. QED
  BY <1>4, <1>11, <1>12 DEF WriterLoop, n, V

(* The first i units.                                                        *)
Initial(us, i) == SubSeq(us, 1, i)

(* The initial parts of a sequence grow by one element.                      *)
LEMMA InitialGrows ==
    ASSUME NEW S, NEW us \in Seq(S)
    PROVE  /\ Initial(us, 0) = <<>> /\ Initial(us, Len(us)) = us
           /\ \A i \in 1..Len(us) : /\ Initial(us, i - 1) \in Seq(S)
                                     /\ Initial(us, i) = Append(Initial(us, i - 1), us[i])
<1>1. Initial(us, 0) = <<>> /\ Initial(us, Len(us)) = us
  BY DEF Initial
<1>2. ASSUME NEW i \in 1..Len(us)
      PROVE  Initial(us, i - 1) \in Seq(S) /\ Initial(us, i) = Append(Initial(us, i - 1), us[i])
  <2> DEFINE x == SubSeq(us, 1, i - 1)
             y == SubSeq(us, 1, i)
  <2>1. i \in Nat /\ i >= 1 /\ i <= Len(us) /\ Len(us) \in Nat /\ us[i] \in S
    OBVIOUS
  <2>2. x \in Seq(S) /\ Len(x) = i - 1 /\ y \in Seq(S) /\ Len(y) = i
    BY <2>1
  <2>3. (\A j \in 1..i - 1 : x[j] = us[j]) /\ (\A j \in 1..i : y[j] = us[j])
    BY <2>1
  <2> HIDE DEF x, y
  <2>4. Append(x, us[i]) \in Seq(S) /\ Len(Append(x, us[i])) = i /\ Append(x, us[i])[i] = us[i]
        /\ \A j \in 1..i - 1 : Append(x, us[i])[j] = x[j]
    BY <2>1, <2>2
  <2>5. ASSUME NEW j \in 1..i PROVE Append(x, us[i])[j] = y[j]
    <3>1. j = i \/ j \in 1..i - 1
      BY <2>1
    <3>2. QED
      BY <2>1, <2>3, <2>4, <3>1
  <2>6. y = Append(x, us[i])
    BY <2>2, <2>4, <2>5
  <2>7. QED
    BY <2>2, <2>6 DEF Initial, x, y
<1>3. QED
  BY <1>1, <1>2

(* The bodies of a message, one behind the other, spell its units.           *)
LEMMA BodiesSpell ==
    ASSUME NEW Id, NEW units \in Seq(WireUnit(Id))
    PROVE  /\ Bodies(units) \in Seq(Seq(WireWord(Id)))
           /\ \A k \in 1..Len(Bodies(units)) : GoodBody(Id, Bodies(units)[k])
           /\ \E t \in Seq(WireWord(Id)) : Pieces(Bodies(units), t) /\ Spells(t, units)
<1> DEFINE n == Len(units)
           end == FoldLeft(LAMBDA w, u : Enqueue(w, UnitWords(u)), NewWriter, units)
<1>1. PICK f \in [0..n -> Writers(Id)] :
          /\ f[0] = NewWriter
          /\ \A i \in 1..n : f[i] = Enqueue(f[i - 1], UnitWords(units[i]))
          /\ end = f[n]
  <2>1. WriterLoop(Id, units)
    BY WriterLooped
  <2>2. QED
    BY <2>1 DEF WriterLoop
<1>2. n \in Nat /\ \A i \in 1..n : units[i] \in WireUnit(Id)
  OBVIOUS
<1>3. Bodies(units) = FlushCurrent(end).bodies
  BY DEF Bodies
<1> HIDE DEF end
<1> DEFINE T == { i \in 0..n : Holds(Id, f[i], Initial(units, i)) }
<1>4. 0 \in T
  <2>1. Initial(units, 0) = <<>>
    BY InitialGrows
  <2>2. Holds(Id, f[0], Initial(units, 0))
    BY <1>1, <2>1, NewWriterHolds
  <2>3. QED
    BY <1>2, <2>2
<1>5. ASSUME NEW i \in 0..n - 1, i \in T PROVE i + 1 \in T
  <2>1. i + 1 \in 1..n /\ (i + 1) - 1 = i /\ i + 1 \in 0..n
    BY <1>2
  <2>2. f[i + 1] = Enqueue(f[i], UnitWords(units[i + 1])) /\ units[i + 1] \in WireUnit(Id)
    BY <1>1, <1>2, <2>1
  <2>3. Holds(Id, f[i], Initial(units, i))
    BY <1>5
  <2>4. Initial(units, i) \in Seq(WireUnit(Id)) /\ Initial(units, i + 1) = Append(Initial(units, i), units[i + 1])
    BY <2>1, InitialGrows
  <2>5. Holds(Id, f[i + 1], Initial(units, i + 1))
    BY <2>2, <2>3, <2>4, EnqueueHolds
  <2>6. QED
    BY <2>1, <2>5
<1> HIDE DEF T
<1>6. Holds(Id, end, units)
  <2>1. \A i \in 0..n : i \in T
    BY <1>2, <1>4, <1>5, Upwards
  <2>2. n \in T
    BY <1>2, <2>1
  <2>3. Initial(units, n) = units
    BY InitialGrows
  <2>4. QED
    BY <1>1, <2>2, <2>3 DEF T
<1> DEFINE w == FlushCurrent(end)
<1>7. Holds(Id, w, units) /\ w.current = <<>>
  BY <1>6, FlushHolds
<1> HIDE DEF w
<1>8. Bodies(units) = w.bodies
  BY <1>3 DEF w
<1>9. w.bodies \in Seq(Seq(WireWord(Id))) /\ \A k \in 1..Len(w.bodies) : GoodBody(Id, w.bodies[k])
  BY <1>7 DEF Holds, Writers
<1>10. PICK t \in Seq(WireWord(Id)) : Pieces(w.bodies, t) /\ Spells(t \o <<>>, units)
  BY <1>7 DEF Holds, SpelledBy
<1>11. t \o <<>> = t
  OBVIOUS
<1>12. QED
  BY <1>8, <1>9, <1>10, <1>11

(* A piece and what follows it.                                              *)
LEMMA PieceThenRest ==
    ASSUME NEW S, NEW q \in Seq(Seq(S)), NEW s \in Seq(S), NEW start, PiecesOf(q, s, start),
           NEW k \in 1..Len(q)
    PROVE  q[k] \o SubSeq(s, start[k] + 1, Len(s)) = SubSeq(s, start[k - 1] + 1, Len(s))
<1> DEFINE a == start[k - 1]
           b == start[k]
           n == Len(s)
           x == q[k] \o SubSeq(s, b + 1, n)
           y == SubSeq(s, a + 1, n)
<1>1. k \in 0..Len(q) /\ k - 1 \in 0..Len(q) /\ Len(q) \in 0..Len(q) /\ k <= Len(q) /\ k - 1 <= k
  <2>1. Len(q) \in Nat
    OBVIOUS
  <2>2. QED
    BY <2>1
<1>2. a \in Nat /\ b \in Nat /\ a <= b /\ b <= n /\ n \in Nat
  <2>1. start[k - 1] \in Nat /\ start[k] \in Nat /\ start[k - 1] <= start[k]
    BY <1>1, PiecesAscend
  <2>2. start[k] <= start[Len(q)]
    BY <1>1, PiecesAscend
  <2>3. start[Len(q)] = Len(s)
    BY DEF PiecesOf
  <2>4. QED
    BY <2>1, <2>2, <2>3
<1>3. b = a + Len(q[k]) /\ \A j \in 1..Len(q[k]) : s[a + j] = q[k][j]
  BY DEF PiecesOf
<1>4. q[k] \in Seq(S) /\ Len(q[k]) = b - a
  <2>1. q[k] \in Seq(S)
    OBVIOUS
  <2>2. Len(q[k]) \in Nat
    BY <2>1
  <2> HIDE DEF a, b
  <2>3. QED
    BY <1>2, <1>3, <2>1, <2>2
<1> HIDE DEF a, b, n
<1>5. /\ SubSeq(s, b + 1, n) \in Seq(S) /\ Len(SubSeq(s, b + 1, n)) = n - b
      /\ \A i \in 1..n - b : SubSeq(s, b + 1, n)[i] = s[b + i]
  BY <1>2 DEF n
<1>6. /\ y \in Seq(S) /\ Len(y) = n - a
      /\ \A i \in 1..n - a : y[i] = s[a + i]
  BY <1>2 DEF n
<1>7. /\ x \in Seq(S) /\ Len(x) = n - a
      /\ \A i \in 1..b - a : x[i] = q[k][i]
      /\ \A i \in b - a + 1..n - a : x[i] = SubSeq(s, b + 1, n)[i - (b - a)]
  <2> DEFINE u == q[k]
             z == SubSeq(s, b + 1, n)
  <2>1. u \in Seq(S) /\ z \in Seq(S) /\ Len(u) = b - a /\ Len(z) = n - b
    BY <1>4, <1>5
  <2> HIDE DEF u, z
  <2>2. u \o z \in Seq(S) /\ Len(u \o z) = n - a
    BY <1>2, <2>1
  <2>3. \A i \in 1..b - a : (u \o z)[i] = u[i]
    BY <1>2, <2>1, <2>2
  <2>4. \A i \in b - a + 1..n - a : (u \o z)[i] = z[i - (b - a)]
    BY <1>2, <2>1, <2>2, SMTT(40)
  <2>5. QED
    BY <2>2, <2>3, <2>4 DEF u, z
<1> HIDE DEF x, y
<1>8. ASSUME NEW i \in 1..n - a PROVE x[i] = y[i]
  <2>1. CASE i \in 1..b - a
    BY <1>3, <1>4, <1>6, <1>7, <2>1
  <2>2. CASE i \in b - a + 1..n - a
    <3>1. i - (b - a) \in 1..n - b /\ b + (i - (b - a)) = a + i
      BY <1>2, <2>2
    <3>2. QED
      BY <1>5, <1>6, <1>7, <2>2, <3>1
  <2>3. i \in 1..b - a \/ i \in b - a + 1..n - a
    BY <1>2
  <2>4. QED
    BY <2>1, <2>2, <2>3
<1>9. x = y
  BY <1>6, <1>7, <1>8
<1>10. QED
  BY <1>9 DEF x, y, a, b, n

-----------------------------------------------------------------------------
(* The packets of a message.                                                 *)

BodiesOf(units) == IF Bodies(units) = <<>> THEN << <<>> >> ELSE Bodies(units)

(* bodies are what the packets of a message carry whose units t spells.      *)
Carries(Id, bodies, t, units) ==
    /\ bodies \in Seq(Seq(WireWord(Id))) /\ Len(bodies) \in Nat /\ Len(bodies) >= 1
    /\ t \in Seq(WireWord(Id)) /\ Pieces(bodies, t) /\ Spells(t, units)
    /\ \A k \in 1..Len(bodies) : GoodBody(Id, bodies[k]) \/ (bodies[k] = <<>> /\ Len(bodies) = 1)

(* The packets of a message carry its units, none of them cut.               *)
LEMMA PacketBodies ==
    ASSUME NEW Id, NEW units \in Seq(WireUnit(Id))
    PROVE  \E t : Carries(Id, BodiesOf(units), t, units)
<1> DEFINE W == WireWord(Id)
           bodies == Bodies(units)
<1>1. bodies \in Seq(Seq(W)) /\ \A k \in 1..Len(bodies) : GoodBody(Id, bodies[k])
  BY BodiesSpell
<1>2. PICK t \in Seq(W) : Pieces(bodies, t) /\ Spells(t, units)
  BY BodiesSpell
<1> HIDE DEF bodies
<1>3. CASE bodies = <<>>
  <2> DEFINE none == <<>>
             one == Append(none, none)
  <2>1. none \in Seq(W) /\ none \in Seq(Seq(W)) /\ none \o none = none
    OBVIOUS
  <2>2. t = none
    <3>1. PICK start : PiecesOf(bodies, t, start)
      BY <1>2 DEF Pieces
    <3>2. Len(bodies) = 0
      BY <1>3
    <3>3. Len(t) = 0
      BY <3>1, <3>2 DEF PiecesOf
    <3>4. QED
      BY <3>3
  <2>3. BodiesOf(units) = one
    BY <1>3 DEF BodiesOf, bodies
  <2>4. one \in Seq(Seq(W)) /\ Len(one) = 1 /\ one[1] = none
    BY <2>1
  <2>5. Pieces(one, t)
    <3>1. Pieces(none, none)
      BY NoPieces
    <3> HIDE DEF none
    <3>2. QED
      BY <2>1, <2>2, <3>1, OnePieceMore
  <2> HIDE DEF one
  <2>6. \A k \in 1..Len(one) : one[k] = <<>> /\ Len(one) = 1
    BY <2>4
  <2>7. Carries(Id, one, t, units)
    BY <1>2, <2>4, <2>5, <2>6 DEF Carries
  <2>8. QED
    BY <2>3, <2>7
<1>4. CASE bodies # <<>>
  <2>1. BodiesOf(units) = bodies
    BY <1>4 DEF BodiesOf, bodies
  <2>2. Len(bodies) \in Nat /\ Len(bodies) >= 1
    BY <1>1, <1>4
  <2>3. Carries(Id, bodies, t, units)
    BY <1>1, <1>2, <2>2 DEF Carries
  <2>4. QED
    BY <2>1, <2>3
<1>5. QED
  BY <1>3, <1>4

Packets(Id, P) == [protocol : P, flag : Nat, body : Seq(WireWord(Id))]
PacketReads(Id) == [body : Seq(WireWord(Id)), next : Nat, ok : BOOLEAN]

(* The body of the recursion in RestOfPacket.                                *)
RestFrom(stream, protocol, g, i) ==
    CASE i > Len(stream) -> PacketRead(<<>>, i, FALSE)
      [] i <= Len(stream) /\ stream[i].protocol # protocol -> PacketRead(<<>>, i, FALSE)
      [] i <= Len(stream) /\ stream[i].protocol = protocol /\ Complete(stream[i])
           -> PacketRead(stream[i].body, i + 1, TRUE)
      [] OTHER -> [g[i + 1] EXCEPT !.body = stream[i].body \o @]

RestMeans(stream, first, protocol) ==
    \E g : /\ RestOfPacket(stream, first, protocol) = g[first]
           /\ \A i \in first..Len(stream) + 1 : g[i] = RestFrom(stream, protocol, g, i)

(* Reading the packets after the first one of a message.                     *)
LEMMA RestIsRead ==
    ASSUME NEW Id, NEW P, NEW stream \in Seq(Packets(Id, P)), NEW first \in 1..Len(stream) + 1, NEW protocol
    PROVE  RestMeans(stream, first, protocol)
<1> DEFINE n == Len(stream)
           R == PacketReads(Id)
           none == PacketRead(<<>>, n + 1, FALSE)
           N == n + 1 - first
           step(i, v) ==
               IF stream[i].protocol # protocol THEN PacketRead(<<>>, i, FALSE)
               ELSE IF Complete(stream[i]) THEN PacketRead(stream[i].body, i + 1, TRUE)
               ELSE [v EXCEPT !.body = stream[i].body \o @]
           F == [j \in 1..N |-> [v \in R |-> step(n + 1 - j, v)]]
           E(g) == g = [i \in first..n + 1 |-> RestFrom(stream, protocol, g, i)]
           e == CHOOSE g : E(g)
<1>1. n \in Nat /\ first \in Nat /\ N \in Nat /\ first >= 1 /\ first <= n + 1
  OBVIOUS
<1>2. RestOfPacket(stream, first, protocol) = e[first]
  BY DEF RestOfPacket, RestFrom
<1>3. \A i \in 1..n : stream[i].body \in Seq(WireWord(Id))
  <2>1. \A i \in 1..n : stream[i] \in Packets(Id, P)
    OBVIOUS
  <2>2. QED
    BY <2>1 DEF Packets
<1> HIDE DEF n
<1>4. \A i \in Nat : PacketRead(<<>>, i, FALSE) \in R
  <2> DEFINE empty == <<>>
  <2>1. empty \in Seq(WireWord(Id))
    OBVIOUS
  <2> HIDE DEF empty
  <2>2. \A i \in Nat : PacketRead(empty, i, FALSE) \in R
    BY <2>1 DEF PacketRead, PacketReads
  <2>3. QED
    BY <2>2 DEF empty
<1>5. ASSUME NEW i \in 1..n, NEW v \in R PROVE step(i, v) \in R
  <2>1. stream[i].body \in Seq(WireWord(Id)) /\ i \in Nat
    BY <1>1, <1>3
  <2>2. PacketRead(stream[i].body, i + 1, TRUE) \in R
    BY <2>1 DEF PacketRead, PacketReads
  <2>3. v.body \in Seq(WireWord(Id))
    BY DEF PacketReads
  <2>4. stream[i].body \o v.body \in Seq(WireWord(Id))
    BY <2>1, <2>3
  <2>5. [v EXCEPT !.body = stream[i].body \o @] \in R
    BY <2>4 DEF PacketReads
  <2>6. QED
    BY <1>4, <2>1, <2>2, <2>5
<1>6. \A j \in 1..N : \A v \in R : F[j][v] = step(n + 1 - j, v)
  OBVIOUS
<1>7. F \in [1..N -> [R -> R]]
  <2>1. \A j \in 1..N : n + 1 - j \in 1..n
    BY <1>1
  <2> HIDE DEF step, N
  <2>2. \A j \in 1..N : \A v \in R : step(n + 1 - j, v) \in R
    BY <1>5, <2>1
  <2>3. QED
    BY <2>2
<1>8. none \in R
  <2>1. n + 1 \in Nat
    BY <1>1
  <2>2. QED
    BY <1>4, <2>1, Zenon
<1> HIDE DEF F, none, R
<1>9. PICK f \in [0..N -> R] : \A j \in 0..N : f[j] = IF j = 0 THEN none ELSE F[j][f[j - 1]]
  <2>1. Along(N, R, none, F)
    BY <1>1, <1>7, <1>8, Recursion
  <2>2. QED
    BY <2>1 DEF Along
<1> DEFINE h == [i \in first..n + 1 |-> f[n + 1 - i]]
<1>10. ASSUME NEW i \in first..n + 1 PROVE h[i] = RestFrom(stream, protocol, h, i)
  <2>1. CASE i = n + 1
    <3>1. h[i] = f[0]
      BY <1>1, <2>1
    <3>2. f[0] = none
      BY <1>1, <1>9
    <3>3. RestFrom(stream, protocol, h, i) = PacketRead(<<>>, i, FALSE)
      <4>1. i > n /\ ~(i <= n)
        BY <1>1, <2>1
      <4>2. QED
        BY <4>1 DEF RestFrom, n
    <3>4. QED
      BY <2>1, <3>1, <3>2, <3>3 DEF none
  <2>2. CASE i # n + 1
    <3>1. i \in 1..n /\ i + 1 \in first..n + 1
      BY <1>1, <2>2
    <3>2. n + 1 - i \in 1..N /\ n + 1 - i \in 0..N /\ (n + 1 - i) - 1 = n + 1 - (i + 1)
          /\ n + 1 - (i + 1) \in 0..N /\ n + 1 - (n + 1 - i) = i
      BY <1>1, <3>1
    <3>3. h[i] = f[n + 1 - i] /\ h[i + 1] = f[n + 1 - (i + 1)]
      BY <3>1
    <3>4. f[n + 1 - i] = F[n + 1 - i][f[n + 1 - (i + 1)]] /\ f[n + 1 - (i + 1)] \in R
      BY <1>1, <1>9, <3>1, <3>2
    <3>5. F[n + 1 - i][f[n + 1 - (i + 1)]] = step(i, f[n + 1 - (i + 1)])
      BY <1>6, <3>2, <3>4, ZenonT(40)
    <3> HIDE DEF h
    <3>6. h[i] = step(i, h[i + 1])
      BY <3>3, <3>4, <3>5
    <3>7. ~(i > n) /\ i <= n
      BY <1>1, <3>1
    <3>8. RestFrom(stream, protocol, h, i) = step(i, h[i + 1])
      BY <3>7 DEF RestFrom, n
    <3>9. QED
      BY <3>6, <3>8
  <2>3. QED
    BY <2>1, <2>2
<1>11. h = [i \in first..n + 1 |-> h[i]]
  OBVIOUS
<1> HIDE DEF h, step, N
<1>12. E(h)
  BY <1>10, <1>11
<1> HIDE DEF E
<1>13. E(e)
  BY <1>12
<1> HIDE DEF e
<1>14. \A i \in first..n + 1 : e[i] = RestFrom(stream, protocol, e, i)
  BY <1>13 DEF E
<1>15. QED
  BY <1>2, <1>14 DEF RestMeans, n

(* The flag of a packet by its place in the message.                         *)
LEMMA Flags ==
    ASSUME NEW n \in Nat, NEW i \in 1..n
    PROVE  /\ Flag(i, n) \in 0..3
           /\ n = 1 => Flag(i, n) = 0
           /\ n > 1 => /\ i = 1 => Flag(i, n) = 1
                       /\ i = n => Flag(i, n) = 3
                       /\ i # 1 /\ i # n => Flag(i, n) = 2
<1>1. CASE n = 1
  BY <1>1 DEF Flag
<1>2. CASE n > 1
  <2>1. CASE i = 1
    BY <1>2, <2>1 DEF Flag
  <2>2. CASE i = n
    BY <1>2, <2>2 DEF Flag
  <2>3. CASE i # 1 /\ i # n
    BY <1>2, <2>3 DEF Flag
  <2>4. QED
    BY <1>2, <2>1, <2>2, <2>3
<1>3. QED
  BY <1>1, <1>2

(* What a read returns that succeeds.                                        *)
Delivered(body, next) == PacketRead(body, next, TRUE)

(* A body put in front of what was read.                                     *)
LEMMA InFront ==
    ASSUME NEW b, NEW rest, NEW next
    PROVE  [Delivered(rest, next) EXCEPT !.body = b \o @] = Delivered(b \o rest, next)
<1> DEFINE yes == TRUE
           p == PacketRead(rest, next, yes)
           c == b \o rest
<1>1. Delivered(rest, next) = p /\ Delivered(c, next) = PacketRead(c, next, yes)
  BY Zenon DEF Delivered
<1> HIDE DEF yes
<1>2. p.body = rest
  BY DEF PacketRead
<1>3. \A d : [p EXCEPT !.body = d] = PacketRead(d, next, yes)
  BY DEF PacketRead
<1>4. [p EXCEPT !.body = b \o p.body] = [p EXCEPT !.body = c]
  <2> HIDE DEF p
  <2>1. QED
    BY <1>2
<1>5. [p EXCEPT !.body = b \o p.body] = PacketRead(c, next, yes)
  BY <1>3, <1>4, Zenon
<1>6. QED
  BY <1>1, <1>5, Zenon

(* Reading the first of several packets.                                     *)
LEMMA FirstOfMany ==
    ASSUME NEW stream, NEW i, NEW rest, NEW next, i <= Len(stream), ~(i > Len(stream)), ~Complete(stream[i]),
           RestOfPacket(stream, i + 1, stream[i].protocol) = Delivered(rest, next)
    PROVE  ReadNextProtocolFrom(stream, i) = Delivered(stream[i].body \o rest, next)
<1> DEFINE b == stream[i].body
           v == RestOfPacket(stream, i + 1, stream[i].protocol)
<1>1. ReadNextProtocolFrom(stream, i) = [v EXCEPT !.body = b \o @]
  BY DEF ReadNextProtocolFrom
<1>2. v = Delivered(rest, next)
  OBVIOUS
<1> HIDE DEF v, b
<1>3. ReadNextProtocolFrom(stream, i) = [Delivered(rest, next) EXCEPT !.body = b \o @]
  BY <1>1, <1>2, Zenon
<1>4. [Delivered(rest, next) EXCEPT !.body = b \o @] = Delivered(b \o rest, next)
  BY InFront
<1>5. ReadNextProtocolFrom(stream, i) = Delivered(b \o rest, next)
  BY <1>3, <1>4, Zenon
<1>6. QED
  BY <1>5 DEF b

(* A stream that has the packets of these bodies behind place at.            *)
Sent(stream, at, protocol, bodies) ==
    /\ at + Len(bodies) <= Len(stream)
    /\ \A j \in 1..Len(bodies) :
           stream[at + j] = [protocol |-> protocol, flag |-> Flag(j, Len(bodies)), body |-> bodies[j]]

(* A read that begins at a message ends behind it and returns all of it.     *)
LEMMA MessageRead ==
    ASSUME NEW Id, NEW P, NEW stream \in Seq(Packets(Id, P)), NEW protocol, NEW bodies, NEW t, NEW units,
           Carries(Id, bodies, t, units), NEW at \in Nat, Sent(stream, at, protocol, bodies)
    PROVE  /\ ReadNextProtocolFrom(stream, at + 1) = Delivered(t, at + Len(bodies) + 1)
           /\ ReadPacket(stream, at + 1) = Delivered(t, at + Len(bodies) + 1)
<1> DEFINE m == Len(bodies)
           n == Len(stream)
           next == at + m + 1
           W == WireWord(Id)
<1>1. /\ m \in Nat /\ m >= 1 /\ n \in Nat /\ at + m <= n
      /\ t \in Seq(W) /\ bodies \in Seq(Seq(W)) /\ \A j \in 1..m : bodies[j] \in Seq(W)
  BY DEF Carries, Sent
<1>2. PICK pos : PiecesOf(bodies, t, pos)
  BY DEF Carries, Pieces
<1>3. ASSUME NEW j \in 1..m
      PROVE  /\ stream[at + j].protocol = protocol /\ stream[at + j].flag = Flag(j, m)
             /\ stream[at + j].body = bodies[j]
  <2>1. stream[at + j] = [protocol |-> protocol, flag |-> Flag(j, m), body |-> bodies[j]]
    BY DEF Sent
  <2> HIDE DEF m
  <2>2. QED
    BY <2>1
<1> DEFINE rest(j) == SubSeq(t, pos[j] + 1, Len(t))
<1>4. rest(m) = <<>> /\ rest(0) = t /\ \A j \in 1..m : bodies[j] \o rest(j) = rest(j - 1)
  <2>1. pos[m] = Len(t) /\ pos[0] = 0
    BY <1>2 DEF PiecesOf
  <2>2. rest(m) = <<>>
    BY <1>1, <2>1
  <2>3. rest(0) = t
    BY <1>1, <2>1
  <2>4. \A j \in 1..m : bodies[j] \o rest(j) = rest(j - 1)
    BY <1>1, <1>2, PieceThenRest
  <2>5. QED
    BY <2>2, <2>3, <2>4
<1> HIDE DEF rest
<1>5. bodies[m] = rest(m - 1)
  <2>1. m \in 1..m
    BY <1>1
  <2>2. bodies[m] \o <<>> = rest(m - 1) /\ bodies[m] \in Seq(W)
    BY <1>1, <1>4, <2>1
  <2>3. QED
    BY <2>2
<1> HIDE DEF m, n
<1>6. 1 \in 1..m /\ at + 1 <= n
  BY <1>1
<1>7. CASE m = 1
  <2>1. Complete(stream[at + 1]) /\ stream[at + 1].body = t
    <3>1. stream[at + 1].flag = 0
      BY <1>1, <1>3, <1>6, <1>7, Flags
    <3>2. stream[at + 1].body = t
      BY <1>3, <1>4, <1>5, <1>6, <1>7
    <3>3. QED
      BY <3>1, <3>2 DEF Complete
  <2>2. ~(at + 1 > n) /\ (at + 1) + 1 = next
    BY <1>1, <1>6, <1>7
  <2>3. ReadNextProtocolFrom(stream, at + 1) = Delivered(t, next)
    BY <1>6, <2>1, <2>2 DEF ReadNextProtocolFrom, Delivered, n
  <2>4. ReadPacket(stream, at + 1) = Delivered(t, next)
    BY <2>1, <2>2, <2>3 DEF ReadPacket, Delivered
  <2>5. QED
    BY <2>3, <2>4 DEF m
<1>8. CASE m > 1
  <2>1. at + 2 \in 1..Len(stream) + 1 /\ (at + 1) + 1 = at + 2
    BY <1>1, <1>8 DEF n
  <2>2. PICK e : /\ RestOfPacket(stream, at + 2, protocol) = e[at + 2]
                 /\ \A i \in at + 2..n + 1 : e[i] = RestFrom(stream, protocol, e, i)
    <3>1. RestMeans(stream, at + 2, protocol)
      BY <2>1, RestIsRead
    <3>2. QED
      BY <3>1 DEF RestMeans, n
  <2> DEFINE T == { i \in 0..m - 2 : e[at + (m - i)] = Delivered(rest(m - i - 1), next) }
  <2>3. ASSUME NEW j \in 2..m
        PROVE  /\ at + j \in at + 2..n + 1 /\ j \in 1..m /\ at + j <= n /\ ~(at + j > n)
               /\ (at + j) + 1 = at + (j + 1)
    BY <1>1
  <2>4. e[at + m] = Delivered(rest(m - 1), next)
    <3>1. m \in 2..m
      BY <1>1, <1>8
    <3>2. stream[at + m].flag = 3 /\ stream[at + m].protocol = protocol /\ stream[at + m].body = rest(m - 1)
      BY <1>1, <1>3, <1>5, <1>8, <2>3, <3>1, Flags
    <3>3. (at + m) + 1 = next
      BY <1>1
    <3>4. RestFrom(stream, protocol, e, at + m) = Delivered(rest(m - 1), next)
      BY <2>3, <3>1, <3>2, <3>3 DEF RestFrom, Complete, Delivered, n
    <3>5. QED
      BY <2>2, <2>3, <3>1, <3>4
  <2>5. ASSUME NEW j \in 2..m - 1, e[at + (j + 1)] = Delivered(rest(j), next)
        PROVE  e[at + j] = Delivered(rest(j - 1), next)
    <3>1. j \in 2..m /\ j # 1 /\ j # m /\ j \in 1..m
      BY <1>1
    <3>2. stream[at + j].flag = 2 /\ stream[at + j].protocol = protocol /\ stream[at + j].body = bodies[j]
      BY <1>1, <1>3, <1>8, <3>1, Flags
    <3>7. e[(at + j) + 1] = Delivered(rest(j), next)
      BY <2>3, <2>5, <3>1
    <3>8. ~Complete(stream[at + j])
      BY <3>2 DEF Complete
    <3>9. at + j <= Len(stream) /\ ~(at + j > Len(stream))
      BY <2>3, <3>1 DEF n
    <3> HIDE DEF next
    <3>4. RestFrom(stream, protocol, e, at + j) = Delivered(bodies[j] \o rest(j), next)
      <4> DEFINE i == at + j
                 r == rest(j)
      <4>1. /\ i <= Len(stream) /\ ~(i > Len(stream)) /\ stream[i].protocol = protocol
            /\ ~Complete(stream[i]) /\ e[i + 1] = Delivered(r, next)
        BY <3>2, <3>7, <3>8, <3>9, Zenon
      <4>2. stream[i].body = bodies[j]
        BY <3>2
      <4> HIDE DEF i, r
      <4>3. RestFrom(stream, protocol, e, i) = Delivered(stream[i].body \o r, next)
        <5> DEFINE b == stream[i].body
                   v == e[i + 1]
        <5>1. RestFrom(stream, protocol, e, i) = [v EXCEPT !.body = b \o @]
          BY <4>1 DEF RestFrom
        <5>2. v = Delivered(r, next)
          BY <4>1
        <5> HIDE DEF v, b
        <5>3. [Delivered(r, next) EXCEPT !.body = b \o @] = Delivered(b \o r, next)
          BY InFront
        <5>4. RestFrom(stream, protocol, e, i) = Delivered(b \o r, next)
          BY <5>1, <5>2, <5>3, Zenon
        <5>5. QED
          BY <5>4 DEF b
      <4>4. QED
        BY <4>2, <4>3, Zenon DEF i, r
    <3>5. bodies[j] \o rest(j) = rest(j - 1)
      BY <1>4, <3>1
    <3>6. QED
      BY <2>2, <2>3, <3>1, <3>4, <3>5
  <2>6. 0 \in T
    <3>1. 0 \in 0..m - 2 /\ m - 0 = m /\ m - 0 - 1 = m - 1
      BY <1>1, <1>8
    <3>2. QED
      BY <2>4, <3>1
  <2>7. ASSUME NEW i \in 0..(m - 2) - 1, i \in T PROVE i + 1 \in T
    <3>1. /\ m - (i + 1) \in 2..m - 1 /\ (m - (i + 1)) + 1 = m - i /\ m - i - 1 = m - (i + 1)
          /\ i + 1 \in 0..m - 2 /\ m - (i + 1) - 1 = (m - (i + 1)) - 1
      BY <1>1, <1>8
    <3>2. e[at + ((m - (i + 1)) + 1)] = Delivered(rest(m - (i + 1)), next)
      BY <2>7, <3>1
    <3>3. e[at + (m - (i + 1))] = Delivered(rest((m - (i + 1)) - 1), next)
      BY <2>5, <3>1, <3>2
    <3>4. QED
      BY <3>1, <3>3
  <2> HIDE DEF T
  <2>8. e[at + 2] = Delivered(rest(1), next)
    <3>1. m - 2 \in Nat /\ m - (m - 2) = 2 /\ m - (m - 2) - 1 = 1
      BY <1>1, <1>8
    <3>2. \A i \in 0..m - 2 : i \in T
      BY <2>6, <2>7, <3>1, Upwards
    <3>3. m - 2 \in T
      BY <3>1, <3>2
    <3>4. QED
      BY <3>1, <3>3 DEF T
  <2>9. stream[at + 1].flag = 1 /\ stream[at + 1].protocol = protocol /\ stream[at + 1].body = bodies[1]
    BY <1>1, <1>3, <1>6, <1>8, Flags
  <2>10. ~(at + 1 > n)
    BY <1>1, <1>6
  <2>11. bodies[1] \o rest(1) = t
    BY <1>4, <1>6
  <2>12. ReadNextProtocolFrom(stream, at + 1) = Delivered(t, next)
    <3>1. ~Complete(stream[at + 1])
      BY <2>9 DEF Complete
    <3>2. at + 1 <= Len(stream) /\ ~(at + 1 > Len(stream))
      BY <1>6, <2>10 DEF n
    <3> HIDE DEF next
    <3>3. RestOfPacket(stream, (at + 1) + 1, stream[at + 1].protocol) = Delivered(rest(1), next)
      BY <2>1, <2>2, <2>8, <2>9
    <3>4. ReadNextProtocolFrom(stream, at + 1) =
            Delivered(stream[at + 1].body \o rest(1), next)
      BY <3>1, <3>2, <3>3, FirstOfMany
    <3>5. QED
      BY <2>9, <2>11, <3>4
  <2>13. bodies[1] # <<>>
    BY <1>6, <1>8 DEF Carries, GoodBody, m
  <2>14. ReadPacket(stream, at + 1) = Delivered(t, next)
    BY <2>9, <2>12, <2>13 DEF ReadPacket
  <2>15. QED
    BY <2>12, <2>14 DEF m
<1>9. m = 1 \/ m > 1
  BY <1>1
<1>10. QED
  BY <1>7, <1>8, <1>9, Zenon

(* The packets of a message, one for every body.                             *)
LEMMA MessagePackets ==
    ASSUME NEW Id, NEW units \in Seq(WireUnit(Id)), NEW P, NEW protocol \in P
    PROVE  /\ FinalizePackets(protocol, units) \in Seq(Packets(Id, P))
           /\ Len(FinalizePackets(protocol, units)) = Len(BodiesOf(units))
           /\ \A j \in 1..Len(BodiesOf(units)) :
                  FinalizePackets(protocol, units)[j] =
                      [protocol |-> protocol, flag |-> Flag(j, Len(BodiesOf(units))), body |-> BodiesOf(units)[j]]
<1> DEFINE bodies == BodiesOf(units)
           m == Len(bodies)
           packet(j) == [protocol |-> protocol, flag |-> Flag(j, m), body |-> bodies[j]]
           s == [j \in 1..m |-> packet(j)]
<1>1. FinalizePackets(protocol, units) = s
  BY DEF FinalizePackets, BodiesOf
<1>2. m \in Nat /\ \A j \in 1..m : bodies[j] \in Seq(WireWord(Id))
  <2>1. PICK t : Carries(Id, bodies, t, units)
    BY PacketBodies
  <2> HIDE DEF bodies
  <2>2. QED
    BY <2>1 DEF Carries
<1> HIDE DEF bodies, m
<1>3. ASSUME NEW j \in 1..m PROVE packet(j) \in Packets(Id, P)
  <2>1. Flag(j, m) \in Nat
    BY <1>2, Flags
  <2>2. QED
    BY <1>2, <2>1 DEF Packets
<1> HIDE DEF packet
<1>4. s \in [1..m -> Packets(Id, P)] /\ \A j \in 1..m : s[j] = packet(j)
  BY <1>3
<1> HIDE DEF s
<1>5. s \in Seq(Packets(Id, P)) /\ Len(s) = m
  BY <1>2, <1>4, SequenceOf
<1>6. QED
  BY <1>1, <1>4, <1>5 DEF packet, m, bodies

(* Units are no parse error.                                                 *)
LEMMA NoBadUnits ==
    ASSUME NEW Id, NEW us \in Seq(WireUnit(Id))
    PROVE  us # BadUnits
<1>1. Len(us) = 1 => us[1] \in WireUnit(Id)
  OBVIOUS
<1>2. Len(BadUnits) = 1 /\ BadUnits[1].type = "error"
  BY DEF BadUnits, UnitOf
<1>3. QED
  BY <1>1, <1>2 DEF WireUnit

(* No packet of a message is larger than the limit, unless it holds one unit *)
(* that is.                                                                  *)
LEMMA BodyFits ==
    ASSUME NEW Id, NEW bodies, NEW t, NEW units, Carries(Id, bodies, t, units), NEW j \in 1..Len(bodies),
           Len(bodies[j]) > MaxBody
    PROVE  Len(Units(bodies[j])) = 1
<1> DEFINE b == bodies[j]
<1>1. b \in Seq(WireWord(Id))
  BY DEF Carries
<1>2. b # <<>>
  BY MaxBodyAssumption
<1>3. GoodBody(Id, b)
  BY <1>2 DEF Carries
<1> HIDE DEF b
<1>4. PICK us \in Seq(WireUnit(Id)) : Spells(b, us) /\ (Len(b) > MaxBody => Len(us) = 1)
  BY <1>3 DEF GoodBody
<1>5. Units(b) = us
  BY <1>1, <1>4, UnitsRead
<1>6. QED
  BY <1>4, <1>5 DEF b

(* MessagesWhole with the reads given.                                       *)
ReadWhole(stream, messages, read) ==
    /\ \A k \in DOMAIN messages :
          /\ read[k].ok
          /\ read[k] = ReadNextProtocolFrom(stream, read[k - 1].next)
          /\ Units(read[k].body) # BadUnits /\ Len(Units(read[k].body)) = Len(messages[k])
          /\ \A u \in ToSet(messages[k]) :
                CollectUnits(Units(read[k].body), u.id) = CollectUnits(messages[k], u.id)
    /\ read[Len(messages)].next = Len(stream) + 1
    /\ \A i \in DOMAIN stream :
          Len(stream[i].body) > MaxBody => Len(Units(stream[i].body)) = 1

Reads(stream, n, read) ==
    read = [k \in 0..n |-> IF k = 0 THEN PacketRead(<<>>, 1, TRUE) ELSE ReadPacket(stream, read[k - 1].next)]

(* Messages read in turn are read whole.                                     *)
LEMMA WholeMeans ==
    ASSUME NEW protocols, NEW messages,
           ReadWhole(Stream(protocols, messages), messages,
                     CHOOSE read : Reads(Stream(protocols, messages), Len(messages), read))
    PROVE  MessagesWhole(protocols, messages)
  BY Zenon DEF MessagesWhole, ReadWhole, Reads

(* What a delivered message holds.                                           *)
LEMMA DeliveredParts ==
    ASSUME NEW body, NEW next
    PROVE  Delivered(body, next).body = body /\ Delivered(body, next).next = next /\ Delivered(body, next).ok
  BY DEF Delivered, PacketRead

(* The read of message k starts behind message k - 1 and returns text[k].    *)
ReadsOf(stream, start, text, n) ==
    /\ n \in Nat /\ start[0] = 0
    /\ \A k \in 1..n : /\ ReadPacket(stream, start[k - 1] + 1) = Delivered(text[k], start[k] + 1)
                       /\ ReadNextProtocolFrom(stream, start[k - 1] + 1) = Delivered(text[k], start[k] + 1)

(* Reads that follow one another, each beginning where the last one ended.   *)
LEMMA ReadInTurn ==
    ASSUME NEW stream, NEW start, NEW text, NEW n, ReadsOf(stream, start, text, n),
           NEW read, read = CHOOSE r : Reads(stream, n, r)
    PROVE  /\ \A k \in 1..n : read[k] = Delivered(text[k], start[k] + 1)
           /\ \A k \in 0..n : read[k].next = start[k] + 1
<1> DEFINE first == Delivered(<<>>, 1)
           h == [k \in 0..n |-> IF k = 0 THEN first ELSE Delivered(text[k], start[k] + 1)]
           none == PacketRead(<<>>, 1, TRUE)
<1>1. n \in Nat /\ start[0] = 0
  BY DEF ReadsOf
<1>2. none = first
  BY Zenon DEF Delivered
<1>3. first.next = 1
  BY DeliveredParts
<1> HIDE DEF first, none
<1>4. h[0] = first /\ \A k \in 1..n : h[k] = Delivered(text[k], start[k] + 1)
  BY <1>1
<1>5. h = [k \in 0..n |-> h[k]]
  OBVIOUS
<1> HIDE DEF h
<1>6. ASSUME NEW k \in 0..n PROVE h[k].next = start[k] + 1
  <2>1. CASE k = 0
    BY <1>1, <1>3, <1>4, <2>1
  <2>2. CASE k \in 1..n
    <3>1. h[k] = Delivered(text[k], start[k] + 1)
      BY <1>4, <2>2
    <3>2. QED
      BY <3>1, DeliveredParts
  <2>3. k = 0 \/ k \in 1..n
    BY <1>1
  <2>4. QED
    BY <2>1, <2>2, <2>3
<1>7. ASSUME NEW k \in 1..n PROVE h[k] = ReadPacket(stream, h[k - 1].next)
  <2>1. k - 1 \in 0..n
    BY <1>1, Places
  <2>2. h[k - 1].next = start[k - 1] + 1
    BY <1>6, <2>1
  <2>3. ReadPacket(stream, start[k - 1] + 1) = Delivered(text[k], start[k] + 1)
    BY DEF ReadsOf
  <2>4. QED
    BY <1>4, <2>2, <2>3
<1>8. ASSUME NEW k \in 0..n PROVE h[k] = IF k = 0 THEN none ELSE ReadPacket(stream, h[k - 1].next)
  <2>1. k = 0 \/ (k # 0 /\ k \in 1..n)
    BY <1>1
  <2>2. QED
    BY <1>2, <1>4, <1>7, <2>1
<1>9. Reads(stream, n, h)
  <2>1. h = [k \in 0..n |-> IF k = 0 THEN none ELSE ReadPacket(stream, h[k - 1].next)]
    BY <1>5, <1>8
  <2>2. QED
    BY <2>1, Zenon DEF Reads, none
<1>10. Reads(stream, n, read)
  <2>1. Reads(stream, n, CHOOSE r : Reads(stream, n, r))
    BY <1>9, Zenon
  <2>2. QED
    BY <2>1, Zenon
<1>11. read = [k \in 0..n |-> IF k = 0 THEN none ELSE ReadPacket(stream, read[k - 1].next)]
  BY <1>10, Zenon DEF Reads, none
<1>12. read[0] = none /\ \A k \in 1..n : read[k] = ReadPacket(stream, read[k - 1].next)
  <2>1. 0 \in 0..n /\ \A k \in 1..n : k \in 0..n /\ k # 0
    BY <1>1
  <2>2. QED
    BY <1>11, <2>1
<1> DEFINE T == { k \in 0..n : read[k] = h[k] }
<1>13. 0 \in T
  BY <1>1, <1>2, <1>4, <1>12
<1>14. ASSUME NEW k \in 0..n - 1, k \in T PROVE k + 1 \in T
  <2>1. k + 1 \in 1..n /\ (k + 1) - 1 = k /\ k + 1 \in 0..n
    BY <1>1
  <2>2. read[k + 1] = ReadPacket(stream, read[k].next) /\ h[k + 1] = ReadPacket(stream, h[k].next)
    BY <1>7, <1>12, <2>1
  <2>3. read[k] = h[k]
    BY <1>14
  <2>4. QED
    BY <2>1, <2>2, <2>3
<1> HIDE DEF T
<1>15. \A k \in 0..n : k \in T
  BY <1>1, <1>13, <1>14, Upwards
<1>16. \A k \in 0..n : read[k] = h[k]
  BY <1>15 DEF T
<1>17. \A k \in 1..n : k \in 0..n
  BY <1>1
<1>18. QED
  BY <1>4, <1>6, <1>16, <1>17

(* However many messages there are, of however many units of whatever        *)
(* lengths, cut into packets of any size, each is read whole and each read   *)
(* ends where the next one starts (MarshalWriter, Packet.Read,               *)
(* MarshalReader, collectUnits).                                             *)
THEOREM MessagesSentWhole ==
    ASSUME NEW Id, NEW messages \in Seq(Seq(WireUnit(Id))), NEW protocols
    PROVE  MessagesWhole(protocols, messages)
<1> DEFINE n == Len(messages)
           P == { protocols[k] : k \in 1..n }
           S == Packets(Id, P)
           q == [k \in DOMAIN messages |-> FinalizePackets(protocols[k], messages[k])]
           stream == FlattenSeq(q)
           bodies(k) == BodiesOf(messages[k])
           text == [k \in 1..n |-> CHOOSE t : Carries(Id, bodies(k), t, messages[k])]
<1>1. n \in Nat /\ DOMAIN messages = 1..n /\ \A k \in 1..n : messages[k] \in Seq(WireUnit(Id))
  OBVIOUS
<1>2. Stream(protocols, messages) = stream
  BY DEF Stream
<1> HIDE DEF n
<1>3. ASSUME NEW k \in 1..n
      PROVE  /\ FinalizePackets(protocols[k], messages[k]) \in Seq(S)
             /\ Len(FinalizePackets(protocols[k], messages[k])) = Len(bodies(k))
             /\ \A j \in 1..Len(bodies(k)) :
                  FinalizePackets(protocols[k], messages[k])[j] =
                      [protocol |-> protocols[k], flag |-> Flag(j, Len(bodies(k))), body |-> bodies(k)[j]]
  <2>1. protocols[k] \in P /\ messages[k] \in Seq(WireUnit(Id))
    BY <1>1
  <2> DEFINE protocol == protocols[k]
             us == messages[k]
             packets == FinalizePackets(protocol, us)
             B == BodiesOf(us)
  <2>2. protocol \in P /\ us \in Seq(WireUnit(Id))
    BY <2>1
  <2> HIDE DEF P, protocol, us
  <2>3. /\ packets \in Seq(Packets(Id, P)) /\ Len(packets) = Len(B)
        /\ \A j \in 1..Len(B) :
               packets[j] = [protocol |-> protocol, flag |-> Flag(j, Len(B)), body |-> B[j]]
    BY <2>2, MessagePackets
  <2>4. QED
    BY <2>3, Zenon DEF protocol, us
<1>4. ASSUME NEW k \in 1..n PROVE Carries(Id, bodies(k), text[k], messages[k])
  <2>1. messages[k] \in Seq(WireUnit(Id))
    BY <1>1
  <2>2. \E t : Carries(Id, bodies(k), t, messages[k])
    BY <2>1, PacketBodies
  <2>3. text[k] = CHOOSE t : Carries(Id, bodies(k), t, messages[k])
    OBVIOUS
  <2> HIDE DEF text, bodies
  <2>4. QED
    BY <2>2, <2>3, Zenon
<1> HIDE DEF text, bodies, S
<1>5. q \in [1..n -> Seq(S)] /\ \A k \in 1..n : q[k] = FinalizePackets(protocols[k], messages[k])
  BY <1>1, <1>3
<1> HIDE DEF q
<1>6. q \in Seq(Seq(S)) /\ Len(q) = n
  BY <1>1, <1>5, SequenceOf
<1>7. stream \in Seq(S)
  BY <1>6, FlattenPieces
<1>8. PICK start : PiecesOf(q, stream, start)
  BY <1>6, FlattenPieces
<1> HIDE DEF stream
<1>9. start \in [0..n -> Nat] /\ start[0] = 0 /\ start[n] = Len(stream)
  BY <1>6, <1>8 DEF PiecesOf
<1>10. ASSUME NEW k \in 1..n
       PROVE  /\ start[k - 1] \in Nat /\ start[k] \in Nat /\ start[k - 1] + Len(bodies(k)) = start[k]
              /\ start[k] <= Len(stream) /\ Sent(stream, start[k - 1], protocols[k], bodies(k))
  <2>1. k \in 0..n /\ k - 1 \in 0..n /\ n \in 0..n /\ k <= n
    BY <1>1, Places
  <2>2. start[k - 1] \in Nat /\ start[k] \in Nat
    BY <1>9, <2>1
  <2>3. start[k] <= Len(stream)
    <3>1. start[k] <= start[n]
      BY <1>6, <1>8, <2>1, PiecesAscend
    <3>2. QED
      BY <1>9, <3>1
  <2>4. start[k] = start[k - 1] + Len(q[k]) /\ \A j \in 1..Len(q[k]) : stream[start[k - 1] + j] = q[k][j]
    BY <1>6, <1>8 DEF PiecesOf
  <2>5. Len(q[k]) = Len(bodies(k))
    BY <1>3, <1>5
  <2>6. \A j \in 1..Len(bodies(k)) : stream[start[k - 1] + j] =
            [protocol |-> protocols[k], flag |-> Flag(j, Len(bodies(k))), body |-> bodies(k)[j]]
    BY <1>3, <1>5, <2>4, <2>5
  <2>7. start[k - 1] + Len(bodies(k)) = start[k]
    BY <2>4, <2>5
  <2>8. QED
    BY <2>2, <2>3, <2>6, <2>7 DEF Sent
<1>11. ReadsOf(stream, start, text, n)
  <2>1. ASSUME NEW k \in 1..n
        PROVE  /\ ReadPacket(stream, start[k - 1] + 1) = Delivered(text[k], start[k] + 1)
               /\ ReadNextProtocolFrom(stream, start[k - 1] + 1) = Delivered(text[k], start[k] + 1)
    <3> DEFINE at == start[k - 1]
               end == start[k]
               B == bodies(k)
               t == text[k]
               us == messages[k]
               protocol == protocols[k]
    <3>1. at \in Nat /\ at + Len(B) = end /\ Sent(stream, at, protocol, B) /\ Carries(Id, B, t, us)
      BY <1>4, <1>10
    <3> HIDE DEF at, end, B, t, us, protocol
    <3>2. /\ ReadNextProtocolFrom(stream, at + 1) = Delivered(t, at + Len(B) + 1)
          /\ ReadPacket(stream, at + 1) = Delivered(t, at + Len(B) + 1)
      BY <1>7, <3>1, MessageRead DEF S
    <3>3. at + Len(B) + 1 = end + 1
      BY <3>1
    <3>4. QED
      BY <3>2, <3>3 DEF at, end, t
  <2>2. QED
    BY <1>1, <1>9, <2>1 DEF ReadsOf
<1> DEFINE read == CHOOSE r : Reads(stream, n, r)
<1>12. read = CHOOSE r : Reads(stream, n, r)
  OBVIOUS
<1> HIDE DEF read
<1>13. /\ \A k \in 1..n : read[k] = Delivered(text[k], start[k] + 1)
       /\ \A k \in 0..n : read[k].next = start[k] + 1
  BY <1>11, <1>12, ReadInTurn
<1>14. ASSUME NEW k \in 1..n
       PROVE  /\ read[k].ok
              /\ read[k] = ReadNextProtocolFrom(stream, read[k - 1].next)
              /\ Units(read[k].body) = messages[k] /\ Units(read[k].body) # BadUnits
  <2>1. k - 1 \in 0..n
    BY <1>1, Places
  <2>2. read[k - 1].next = start[k - 1] + 1 /\ read[k] = Delivered(text[k], start[k] + 1)
    BY <1>13, <2>1
  <2>3. read[k] = ReadNextProtocolFrom(stream, read[k - 1].next)
    BY <1>11, <2>2 DEF ReadsOf
  <2>4. read[k].ok
    <3>1. Delivered(text[k], start[k] + 1).ok
      BY DeliveredParts
    <3>2. QED
      BY <2>2, <3>1, Zenon
  <2>5. read[k].body = text[k]
    BY <2>2, DeliveredParts
  <2>6. messages[k] \in Seq(WireUnit(Id)) /\ text[k] \in Seq(WireWord(Id)) /\ Spells(text[k], messages[k])
    BY <1>1, <1>4 DEF Carries
  <2>7. Units(text[k]) = messages[k]
    BY <2>6, UnitsRead
  <2>8. messages[k] # BadUnits
    BY <2>6, NoBadUnits
  <2>9. QED
    BY <2>3, <2>4, <2>5, <2>7, <2>8
<1>15. read[n].next = Len(stream) + 1
  <2>1. n \in 0..n
    BY <1>1
  <2>2. QED
    BY <1>9, <1>13, <2>1
<1>16. ASSUME NEW i \in DOMAIN stream, Len(stream[i].body) > MaxBody
       PROVE  Len(Units(stream[i].body)) = 1
  <2>1. i \in 1..Len(stream)
    BY <1>7
  <2>2. PICK k \in 1..Len(q) : \E j \in 1..Len(q[k]) : i = start[k - 1] + j
    <3>1. Within(q, start, i)
      BY <1>6, <1>7, <1>8, <2>1, Located
    <3>2. QED
      BY <3>1 DEF Within
  <2>3. PICK j \in 1..Len(q[k]) : i = start[k - 1] + j
    BY <2>2
  <2>4. k \in 1..n /\ j \in 1..Len(bodies(k))
    BY <1>3, <1>5, <1>6
  <2>5. stream[i] = [protocol |-> protocols[k], flag |-> Flag(j, Len(bodies(k))), body |-> bodies(k)[j]]
    BY <1>10, <2>3, <2>4 DEF Sent
  <2>6. stream[i].body = bodies(k)[j]
    BY <2>5
  <2> DEFINE B == bodies(k)
             t == text[k]
             us == messages[k]
  <2>7. Carries(Id, B, t, us) /\ j \in 1..Len(B) /\ Len(B[j]) > MaxBody
    BY <1>4, <1>16, <2>4, <2>6
  <2> HIDE DEF B, t, us
  <2>8. Len(Units(B[j])) = 1
    BY <2>7, BodyFits
  <2>9. QED
    BY <2>6, <2>8 DEF B
<1>17. ReadWhole(stream, messages, read)
  BY <1>1, <1>14, <1>15, <1>16 DEF ReadWhole, n
<1>18. QED
  BY <1>2, <1>12, <1>17, WholeMeans DEF n

-----------------------------------------------------------------------------
(* Append columns (AppendColumns).                                           *)

(* NULL bits: every column has its own, in the bytes there are.              *)
LEMMA NullBits ==
    ASSUME NEW n \in Nat, NEW i \in 1..n, NEW j \in 1..n
    PROVE  /\ NullBit(i) = NullBit(j) => i = j
           /\ NullBit(i)[1] < n \div ByteBits + 1
<1> DEFINE B == ByteBits
           a == i - 1
           b == j - 1
           qa == a \div B
           ra == a % B
           qb == b \div B
           rb == b % B
           qn == n \div B
           rn == n % B
<1>1. B \in Nat /\ B > 0
  BY ByteBitsAssumption
<1>2. a \in Nat /\ b \in Nat /\ a < n /\ b < n
  OBVIOUS
<1> HIDE DEF a, b, B
<1>3. a = B * qa + ra /\ qa \in Int /\ ra \in 0..B - 1
  BY <1>1, <1>2
<1>4. b = B * qb + rb /\ qb \in Int /\ rb \in 0..B - 1
  BY <1>1, <1>2
<1>5. n = B * qn + rn /\ qn \in Int /\ rn \in 0..B - 1
  BY <1>1, <1>2
<1>6. NullBit(i) = <<qa, ra>> /\ NullBit(j) = <<qb, rb>>
  BY DEF NullBit, a, b, B
<1> HIDE DEF qa, qb, qn, ra, rb, rn
<1>7. NullBit(i)[1] = qa
  BY <1>6
<1>8. ASSUME NullBit(i) = NullBit(j) PROVE i = j
  <2>1. qa = qb /\ ra = rb
    BY <1>6, <1>8
  <2>2. a = b
    BY <1>3, <1>4, <2>1
  <2>3. QED
    BY <2>2 DEF a, b
<1>9. qa < qn + 1
  <2>1. ASSUME qa >= qn + 1 PROVE FALSE
    <3>1. B * qa >= B * (qn + 1)
      BY <1>1, <1>3, <1>5, <2>1
    <3>2. B * (qn + 1) = B * qn + B
      BY <1>1, <1>5
    <3>3. B * qa \in Int /\ B * qn \in Int
      BY <1>1, <1>3, <1>5
    <3> DEFINE x == B * qa
               y == B * qn
               z == B * (qn + 1)
    <3>4. x >= z /\ z = y + B /\ x \in Int /\ y \in Int /\ a = x + ra /\ n = y + rn
      BY <1>3, <1>5, <3>1, <3>2, <3>3
    <3> HIDE DEF x, y, z
    <3>5. QED
      BY <1>1, <1>2, <1>3, <1>5, <3>4
  <2>2. QED
    BY <1>3, <1>5, <2>1
<1>10. QED
  BY <1>7, <1>8, <1>9 DEF B, qn

(* f counts the places up to each one whose NULL bit is not set.             *)
Counts(n, bits, f) ==
    /\ f \in [0..n -> Nat] /\ f[0] = 0
    /\ \A i \in 1..n : f[i] = f[i - 1] + (IF NullBit(i) \in bits THEN 0 ELSE 1)

(* The server takes the fields in this order.                                *)
ReadBy(columns, row, f) ==
    \A i \in 1..Len(columns) :
        ServerReads(columns, row)[i] =
            IF NullBit(i) \in row.bits THEN Nil
            ELSE IF f[i] \in DOMAIN row.fields THEN row.fields[f[i]] ELSE "missing"

(* The server reads a field for every column whose NULL bit is not set, in   *)
(* order.                                                                    *)
LEMMA ServerCounts ==
    ASSUME NEW C, NEW columns \in Seq(C), NEW row
    PROVE  \E f : Counts(Len(columns), row.bits, f) /\ ReadBy(columns, row, f)
<1> DEFINE n == Len(columns)
           bits == row.bits
           E(f) == f = [i \in 0..n |-> IF i = 0 THEN 0 ELSE f[i - 1] + (IF NullBit(i) \in bits THEN 0 ELSE 1)]
           e == CHOOSE f : E(f)
           F == [i \in 1..n |-> [v \in Nat |-> v + (IF NullBit(i) \in bits THEN 0 ELSE 1)]]
<1>1. n \in Nat /\ DOMAIN columns = 1..n
  OBVIOUS
<1>2. ServerReads(columns, row) =
          [i \in 1..n |-> IF NullBit(i) \in bits THEN Nil
                          ELSE IF e[i] \in DOMAIN row.fields THEN row.fields[e[i]] ELSE "missing"]
  BY <1>1, Zenon DEF ServerReads
<1> HIDE DEF n, bits
<1>3. F \in [1..n -> [Nat -> Nat]]
  <2>1. \A v \in Nat : v + 0 \in Nat /\ v + 1 \in Nat
    OBVIOUS
  <2>2. \A i \in 1..n : \A v \in Nat : v + (IF NullBit(i) \in bits THEN 0 ELSE 1) \in Nat
    BY <2>1
  <2>3. QED
    BY <2>2
<1>4. \A i \in 1..n : \A v \in Nat : F[i][v] = v + (IF NullBit(i) \in bits THEN 0 ELSE 1)
  OBVIOUS
<1> HIDE DEF F
<1>5. PICK f \in [0..n -> Nat] : \A i \in 0..n : f[i] = IF i = 0 THEN 0 ELSE F[i][f[i - 1]]
  <2>1. Along(n, Nat, 0, F)
    BY <1>1, <1>3, Recursion
  <2>2. QED
    BY <2>1 DEF Along
<1>6. E(f)
  <2>1. ASSUME NEW i \in 0..n
        PROVE  f[i] = IF i = 0 THEN 0 ELSE f[i - 1] + (IF NullBit(i) \in bits THEN 0 ELSE 1)
    <3>1. CASE i = 0
      BY <1>5, <3>1
    <3>2. CASE i # 0
      <4>1. i \in 1..n /\ i - 1 \in 0..n
        BY <1>1, <3>2
      <4>2. f[i - 1] \in Nat
        BY <4>1
      <4>3. QED
        BY <1>4, <1>5, <3>2, <4>1, <4>2
    <3>3. QED
      BY <3>1, <3>2
  <2>2. f = [i \in 0..n |-> f[i]]
    OBVIOUS
  <2>3. QED
    BY <2>1, <2>2
<1>7. E(e)
  <2> HIDE DEF E
  <2>1. QED
    BY <1>6
<1> HIDE DEF e
<1>8. e[0] = 0 /\ \A i \in 1..n : e[i] = e[i - 1] + (IF NullBit(i) \in bits THEN 0 ELSE 1)
  <2>1. \A i \in 0..n : e[i] = IF i = 0 THEN 0 ELSE e[i - 1] + (IF NullBit(i) \in bits THEN 0 ELSE 1)
    BY <1>7
  <2>2. 0 \in 0..n /\ \A i \in 1..n : i \in 0..n /\ i # 0
    BY <1>1
  <2>3. QED
    BY <2>1, <2>2
<1>9. e \in [0..n -> Nat]
  <2> DEFINE T == { i \in 0..n : e[i] \in Nat }
  <2>1. 0 \in T
    BY <1>1, <1>8
  <2>2. ASSUME NEW i \in 0..n - 1, i \in T PROVE i + 1 \in T
    <3>1. i + 1 \in 1..n /\ (i + 1) - 1 = i /\ i + 1 \in 0..n
      BY <1>1
    <3>2. e[i + 1] = e[i] + (IF NullBit(i + 1) \in bits THEN 0 ELSE 1)
      BY <1>8, <3>1
    <3>3. e[i] \in Nat
      BY <2>2
    <3>4. QED
      BY <3>1, <3>2, <3>3
  <2>3. \A i \in 0..n : e[i] \in Nat
    <3> HIDE DEF T
    <3>1. \A i \in 0..n : i \in T
      BY <1>1, <2>1, <2>2, Upwards
    <3>2. QED
      BY <3>1 DEF T
  <2>4. e = [i \in 0..n |-> e[i]]
    BY <1>7
  <2>5. QED
    BY <2>3, <2>4
<1>10. Counts(n, bits, e)
  BY <1>8, <1>9 DEF Counts
<1>11. ReadBy(columns, row, e)
  BY <1>2 DEF ReadBy, n, bits
<1>12. QED
  BY <1>10, <1>11 DEF n, bits

(* The bit of a column is set when it is NULL.                               *)
LEMMA BitSet ==
    ASSUME NEW C, NEW columns \in Seq(C), NEW bindings, NEW args, NEW i \in 1..Len(columns)
    PROVE  NullBit(i) \in EncodeAppendRow(columns, bindings, args).bits <=> IsNullIn(bindings, args, i)
<1> DEFINE n == Len(columns)
           N == { j \in 1..n : IsNullIn(bindings, args, j) /\ NullBit(j)[1] < NullBytes(columns) }
<1>1. n \in Nat /\ DOMAIN columns = 1..n /\ columns # <<>>
  OBVIOUS
<1>2. NullBytes(columns) = n \div ByteBits + 1
  BY <1>1 DEF NullBytes
<1>3. EncodeAppendRow(columns, bindings, args).bits = { NullBit(j) : j \in N }
  BY <1>1 DEF EncodeAppendRow
<1>4. N = { j \in 1..n : IsNullIn(bindings, args, j) }
  <2>1. \A j \in 1..n : NullBit(j)[1] < NullBytes(columns)
    BY <1>1, <1>2, NullBits
  <2>2. QED
    BY <2>1
<1> HIDE DEF N
<1>5. \A j \in N : NullBit(i) = NullBit(j) => i = j
  BY <1>1, <1>4, NullBits
<1>6. QED
  BY <1>3, <1>4, <1>5

(* What a field of a row can be.                                             *)
Fields(A) == A \cup {NoTime}

(* A field is an argument, or no time.                                       *)
LEMMA FieldTyped ==
    ASSUME NEW A, NEW args \in Seq(A), NEW bindings, NEW i
    PROVE  FieldIn(bindings, args, i) \in Fields(A)
<1> DEFINE arg == IF bindings.byColumn[i] = -1 THEN bindings.arrivalArg ELSE bindings.byColumn[i]
<1>1. FieldIn(bindings, args, i) = IF arg \in DOMAIN args /\ args[arg] # Nil THEN args[arg] ELSE NoTime
  BY Zenon DEF FieldIn
<1> HIDE DEF arg
<1>2. arg \in DOMAIN args => args[arg] \in A
  OBVIOUS
<1>3. QED
  BY <1>1, <1>2, Zenon DEF Fields

(* A field more makes a sequence of fields.                                  *)
LEMMA AddFieldTyped ==
    ASSUME NEW A, NEW args \in Seq(A), NEW bindings, NEW fields \in Seq(Fields(A)), NEW i
    PROVE  AddField(fields, bindings, args, i) \in Seq(Fields(A))
<1> DEFINE x == FieldIn(bindings, args, i)
<1>1. x \in Fields(A)
  BY FieldTyped
<1>2. AddField(fields, bindings, args, i) =
        IF IsNullIn(bindings, args, i) THEN fields ELSE Append(fields, x)
  BY Zenon DEF AddField
<1> HIDE DEF x
<1>3. Append(fields, x) \in Seq(Fields(A))
  BY <1>1
<1>4. QED
  BY <1>2, <1>3, Zenon

(* The fields that a row gets for columns.                                   *)
FieldsOf(bindings, args, base, word) ==
    FoldLeft(LAMBDA acc, i : AddField(acc, bindings, args, i), base, word)

(* The loop over the columns of a row, as a machine.                         *)
FieldMachine(A, bindings, args) ==
    [v \in Seq(Fields(A)) |-> [c \in Nat |-> AddField(v, bindings, args, c)]]

(* The loop of encodeAppendRow over the columns is a run of this machine.    *)
LEMMA FieldsLooped ==
    ASSUME NEW A, NEW args \in Seq(A), NEW bindings, NEW word \in Seq(Nat), NEW base \in Seq(Fields(A))
    PROVE  Run(FieldMachine(A, bindings, args), base, word, FieldsOf(bindings, args, base, word))
<1> DEFINE n == Len(word)
           V == Seq(Fields(A))
           F == [i \in 1..n |-> [v \in V |-> AddField(v, bindings, args, word[i])]]
           E(g) == g = [s \in SUBSET (1..n) |->
                          IF s = {} THEN base ELSE AddField(g[s \ {Max(s)}], bindings, args, word[Max(s)])]
           e == CHOOSE g : E(g)
<1>1. n \in Nat /\ DOMAIN word = 1..n /\ \A i \in 1..n : word[i] \in Nat
  OBVIOUS
<1>2. base \in V
  OBVIOUS
<1>3. F \in [1..n -> [V -> V]] /\ \A i \in 1..n : \A v \in V : F[i][v] = AddField(v, bindings, args, word[i])
  <2>1. \A i \in 1..n : \A v \in V : F[i][v] = AddField(v, bindings, args, word[i])
    OBVIOUS
  <2>2. \A i \in 1..n : \A v \in V : AddField(v, bindings, args, word[i]) \in V
    BY <1>1, AddFieldTyped
  <2>3. QED
    BY <2>1, <2>2
<1>4. FieldsOf(bindings, args, base, word) = e[1..n]
  BY <1>1 DEF FieldsOf, FoldLeft, MapThenFoldSet
<1> HIDE DEF n, V, F
<1>5. \E g : E(g)
  <2>1. OverSets(n, V, base, F)
    BY <1>1, <1>2, <1>3, Folding
  <2>2. PICK g \in [SUBSET (1..n) -> V] :
          \A s \in SUBSET (1..n) : g[s] = IF s = {} THEN base ELSE F[Max(s)][g[s \ {Max(s)}]]
    BY <2>1 DEF OverSets
  <2>3. ASSUME NEW s \in SUBSET (1..n), s # {}
        PROVE  F[Max(s)][g[s \ {Max(s)}]] = AddField(g[s \ {Max(s)}], bindings, args, word[Max(s)])
    <3>1. Max(s) \in 1..n /\ s \ {Max(s)} \in SUBSET (1..n)
      BY <1>1, <2>3, Largest
    <3>2. QED
      BY <1>3, <3>1
  <2>4. g = [s \in SUBSET (1..n) |->
               IF s = {} THEN base ELSE AddField(g[s \ {Max(s)}], bindings, args, word[Max(s)])]
    BY <2>2, <2>3
  <2>5. QED
    BY <2>4
<1>6. E(e)
  <2> HIDE DEF E
  <2>1. QED
    BY <1>5
<1>7. \A s \in SUBSET (1..n) : e[s] = IF s = {} THEN base
                                       ELSE AddField(e[s \ {Max(s)}], bindings, args, word[Max(s)])
  BY <1>6
<1> HIDE DEF e
<1>8. e[{}] = base
  BY <1>7
<1>9. \A s \in SUBSET (1..n) : s # {} /\ e[s \ {Max(s)}] \in V => e[s] = F[Max(s)][e[s \ {Max(s)}]]
  <2> SUFFICES ASSUME NEW s \in SUBSET (1..n), s # {}, e[s \ {Max(s)}] \in V
               PROVE  e[s] = F[Max(s)][e[s \ {Max(s)}]]
    OBVIOUS
  <2>1. Max(s) \in 1..n
    BY <1>1, Largest
  <2>2. QED
    BY <1>3, <1>7, <2>1
<1>10. /\ e[1..0] = base
       /\ \A i \in 0..n : e[1..i] \in V
       /\ \A i \in 1..n : e[1..i] = F[i][e[1..i - 1]]
  <2>1. OnSets(n, V, base, F, e)
    BY <1>8, <1>9 DEF OnSets
  <2>2. OnPlaces(n, V, base, F, e)
    BY <1>1, <1>2, <1>3, <2>1, Unfolding
  <2>3. QED
    BY <2>2 DEF OnPlaces
<1> DEFINE f == [i \in 0..n |-> e[1..i]]
           M == FieldMachine(A, bindings, args)
<1>11. f[0] = base /\ f[n] = e[1..n]
  BY <1>1, <1>10
<1>12. ASSUME NEW v \in V, NEW c \in Nat PROVE M[v][c] = AddField(v, bindings, args, c)
  BY DEF FieldMachine, V
<1> HIDE DEF M
<1>13. ASSUME NEW i \in 1..n PROVE f[i] = M[f[i - 1]][word[i]]
  <2>1. i - 1 \in 0..n /\ i \in 0..n
    BY <1>1
  <2>2. f[i] = e[1..i] /\ f[i - 1] = e[1..i - 1] /\ e[1..i - 1] \in V /\ word[i] \in Nat
    BY <1>1, <1>10, <2>1
  <2> HIDE DEF f
  <2>3. M[f[i - 1]][word[i]] = AddField(f[i - 1], bindings, args, word[i])
    BY <1>12, <2>2
  <2>4. QED
    BY <1>3, <1>10, <2>2, <2>3
<1> HIDE DEF f
<1>14. Run(M, base, word, e[1..n])
  BY <1>11, <1>13 DEF Run, n
<1>15. QED
  BY <1>4, <1>14 DEF M

(* fields holds, at the place f says, the field of each of the first i       *)
(* columns that is not NULL.                                                 *)
FieldsUpTo(fields, f, bindings, args, i) ==
    /\ Len(fields) = f[i]
    /\ \A j \in 1..i : ~IsNullIn(bindings, args, j) =>
           f[j] \in 1..Len(fields) /\ fields[f[j]] = FieldIn(bindings, args, j)

(* One more column puts its field where the count says.                      *)
LEMMA OneMoreField ==
    ASSUME NEW A, NEW args \in Seq(A), NEW bindings, NEW n \in Nat, NEW f \in [0..n -> Nat],
           NEW i \in 0..n - 1, NEW fields \in Seq(Fields(A)),
           FieldsUpTo(fields, f, bindings, args, i),
           f[i + 1] = f[i] + (IF IsNullIn(bindings, args, i + 1) THEN 0 ELSE 1)
    PROVE  FieldsUpTo(AddField(fields, bindings, args, i + 1), f, bindings, args, i + 1)
<1> DEFINE k == i + 1
           x == FieldIn(bindings, args, k)
           longer == AddField(fields, bindings, args, k)
<1>1. k \in 1..n /\ k \in Nat /\ i \in 0..n /\ i \in Nat /\ k \in 0..n /\ 1..k = 1..i \cup {k}
  OBVIOUS
<1>2. /\ Len(fields) = f[i] /\ f[i] \in Nat /\ f[k] \in Nat
      /\ \A j \in 1..i : ~IsNullIn(bindings, args, j) =>
           f[j] \in 1..Len(fields) /\ fields[f[j]] = FieldIn(bindings, args, j)
  BY <1>1 DEF FieldsUpTo
<1>3. f[k] = f[i] + (IF IsNullIn(bindings, args, k) THEN 0 ELSE 1)
  OBVIOUS
<1>4. x \in Fields(A)
  BY FieldTyped
<1>5. longer = IF IsNullIn(bindings, args, k) THEN fields ELSE Append(fields, x)
  BY Zenon DEF AddField
<1> HIDE DEF x, longer, k
<1>6. CASE IsNullIn(bindings, args, k)
  <2>1. longer = fields /\ Len(longer) = f[k]
    BY <1>2, <1>3, <1>5, <1>6
  <2>2. \A j \in 1..k : ~IsNullIn(bindings, args, j) =>
           f[j] \in 1..Len(fields) /\ fields[f[j]] = FieldIn(bindings, args, j)
    BY <1>1, <1>2, <1>6
  <2>3. FieldsUpTo(longer, f, bindings, args, k)
    BY <2>1, <2>2 DEF FieldsUpTo
  <2>4. QED
    BY <2>3 DEF longer, k
<1>7. CASE ~IsNullIn(bindings, args, k)
  <2>1. longer = Append(fields, x) /\ f[k] = f[i] + 1
    BY <1>2, <1>3, <1>5, <1>7
  <2>2. /\ Len(longer) = Len(fields) + 1 /\ longer[Len(fields) + 1] = x
        /\ \A p \in 1..Len(fields) : longer[p] = fields[p]
    BY <1>4, <2>1
  <2>3. Len(longer) = f[k] /\ longer[f[k]] = x /\ f[k] \in 1..Len(longer)
    BY <1>2, <2>1, <2>2
  <2>4. ASSUME NEW j \in 1..i, ~IsNullIn(bindings, args, j)
        PROVE  f[j] \in 1..Len(longer) /\ longer[f[j]] = FieldIn(bindings, args, j)
    <3>1. f[j] \in 1..Len(fields) /\ fields[f[j]] = FieldIn(bindings, args, j)
      BY <1>2, <2>4
    <3>2. Len(fields) \in Nat
      OBVIOUS
    <3>3. QED
      BY <2>2, <3>1, <3>2
  <2>5. \A j \in 1..k : ~IsNullIn(bindings, args, j) =>
           f[j] \in 1..Len(longer) /\ longer[f[j]] = FieldIn(bindings, args, j)
    BY <1>1, <2>3, <2>4 DEF x
  <2>6. FieldsUpTo(longer, f, bindings, args, k)
    BY <2>3, <2>5 DEF FieldsUpTo
  <2>7. QED
    BY <2>6 DEF longer, k
<1>8. QED
  BY <1>6, <1>7

(* The fields of a row lie where the server counts them.                     *)
LEMMA FieldPlaces ==
    ASSUME NEW C, NEW columns \in Seq(C), NEW A, NEW args \in Seq(A), NEW bindings, NEW f,
           Counts(Len(columns), EncodeAppendRow(columns, bindings, args).bits, f)
    PROVE  /\ EncodeAppendRow(columns, bindings, args).fields \in Seq(Fields(A))
           /\ FieldsUpTo(EncodeAppendRow(columns, bindings, args).fields, f, bindings, args, Len(columns))
<1> DEFINE n == Len(columns)
           row == EncodeAppendRow(columns, bindings, args)
           word == [i \in 1..n |-> i]
           F == FieldMachine(A, bindings, args)
           none == <<>>
<1>1. n \in Nat /\ DOMAIN columns = 1..n
  OBVIOUS
<1>2. row.fields = FieldsOf(bindings, args, none, word)
  BY <1>1 DEF EncodeAppendRow, FieldsOf
<1>3. f \in [0..n -> Nat] /\ f[0] = 0
  BY DEF Counts
<1>4. \A i \in 1..n : f[i] = f[i - 1] + (IF IsNullIn(bindings, args, i) THEN 0 ELSE 1)
  <2>1. \A i \in 1..n : f[i] = f[i - 1] + (IF NullBit(i) \in row.bits THEN 0 ELSE 1)
    BY DEF Counts
  <2>2. \A i \in 1..n : NullBit(i) \in row.bits <=> IsNullIn(bindings, args, i)
    BY BitSet
  <2>3. QED
    BY <2>1, <2>2
<1>5. word \in Seq(Nat) /\ Len(word) = n /\ \A i \in 1..n : word[i] = i
  BY <1>1
<1>6. none \in Seq(Fields(A)) /\ Len(none) = 0
  OBVIOUS
<1> HIDE DEF n, row, word, none
<1>7. Run(F, none, word, row.fields)
  BY <1>2, <1>5, <1>6, FieldsLooped
<1>8. PICK g : g[0] = none /\ g[n] = row.fields /\ \A i \in 1..n : g[i] = F[g[i - 1]][word[i]]
  BY <1>5, <1>7 DEF Run
<1>9. \A v \in Seq(Fields(A)) : \A i \in 1..n : F[v][i] = AddField(v, bindings, args, i)
  BY <1>1 DEF FieldMachine
<1> HIDE DEF F
<1> DEFINE T == { i \in 0..n : g[i] \in Seq(Fields(A)) /\ FieldsUpTo(g[i], f, bindings, args, i) }
<1>10. 0 \in T
  <2>1. Len(g[0]) = f[0] /\ g[0] \in Seq(Fields(A))
    BY <1>3, <1>6, <1>8
  <2>2. 1..0 = {} /\ 0 \in 0..n
    BY <1>1
  <2>3. FieldsUpTo(g[0], f, bindings, args, 0)
    BY <2>1, <2>2 DEF FieldsUpTo
  <2>4. QED
    BY <2>1, <2>2, <2>3
<1>11. ASSUME NEW i \in 0..n - 1, i \in T PROVE i + 1 \in T
  <2>1. i + 1 \in 1..n /\ (i + 1) - 1 = i /\ i + 1 \in 0..n
    BY <1>1
  <2>2. g[i] \in Seq(Fields(A)) /\ FieldsUpTo(g[i], f, bindings, args, i)
    BY <1>11
  <2> HIDE DEF T
  <2>3. g[i + 1] = AddField(g[i], bindings, args, i + 1)
    <3>1. g[i + 1] = F[g[i]][word[i + 1]] /\ word[i + 1] = i + 1
      BY <1>5, <1>8, <2>1
    <3>2. F[g[i]][i + 1] = AddField(g[i], bindings, args, i + 1)
      BY <1>9, <2>1, <2>2
    <3>3. QED
      BY <3>1, <3>2
  <2>4. f[i + 1] = f[i] + (IF IsNullIn(bindings, args, i + 1) THEN 0 ELSE 1)
    BY <1>4, <2>1
  <2>5. FieldsUpTo(AddField(g[i], bindings, args, i + 1), f, bindings, args, i + 1)
    BY <1>1, <1>3, <2>2, <2>4, OneMoreField
  <2>6. AddField(g[i], bindings, args, i + 1) \in Seq(Fields(A))
    BY <2>2, AddFieldTyped
  <2>7. QED
    BY <2>1, <2>3, <2>5, <2>6 DEF T
<1>12. n \in T
  <2> HIDE DEF T
  <2>1. QED
    BY <1>1, <1>10, <1>11, Upwards, SMTT(40)
<1>13. row.fields \in Seq(Fields(A)) /\ FieldsUpTo(row.fields, f, bindings, args, n)
  BY <1>8, <1>12
<1>14. QED
  BY <1>13 DEF row, n

(* A row of any number of columns, in NULL bits of any width, is read by the *)
(* server as it was bound: NULL where it has no argument, its argument where *)
(* it has one (encodeAppendRow, setAppendNullBit).                           *)
THEOREM RowReadBack ==
    ASSUME NEW C, NEW columns \in Seq(C), NEW A, NEW args \in Seq(A), NEW bindings,
           NEW i \in DOMAIN columns
    PROVE  ServerReads(columns, EncodeAppendRow(columns, bindings, args))[i] =
               IF IsNullIn(bindings, args, i) THEN Nil ELSE FieldIn(bindings, args, i)
<1> DEFINE n == Len(columns)
           row == EncodeAppendRow(columns, bindings, args)
<1>1. i \in 1..n /\ n \in Nat /\ i \in 0..n
  OBVIOUS
<1>2. PICK f : Counts(n, row.bits, f) /\ ReadBy(columns, row, f)
  BY ServerCounts
<1>3. row.fields \in Seq(Fields(A)) /\ FieldsUpTo(row.fields, f, bindings, args, n)
  BY <1>2, FieldPlaces
<1>4. ServerReads(columns, row)[i] =
        IF NullBit(i) \in row.bits THEN Nil
        ELSE IF f[i] \in DOMAIN row.fields THEN row.fields[f[i]] ELSE "missing"
  BY <1>1, <1>2 DEF ReadBy
<1>5. NullBit(i) \in row.bits <=> IsNullIn(bindings, args, i)
  BY <1>1, BitSet
<1>6. ASSUME ~IsNullIn(bindings, args, i)
      PROVE  f[i] \in 1..Len(row.fields) /\ row.fields[f[i]] = FieldIn(bindings, args, i)
  BY <1>1, <1>3, <1>6 DEF FieldsUpTo
<1>7. row.fields \in Seq(Fields(A))
  BY <1>3
<1> HIDE DEF row
<1>8. DOMAIN row.fields = 1..Len(row.fields)
  BY <1>7
<1>9. QED
  BY <1>4, <1>5, <1>6, <1>8 DEF row

(* Names with the arrival time at most once, under whichever of its names.   *)
OneArrival(names) ==
    \A i, j \in DOMAIN names : IsArrival(names[i]) /\ IsArrival(names[j]) => i = j

NoArrival(names) == \A i \in DOMAIN names : ~IsArrival(names[i])

(* The server's name of the arrival time is one of its names.                *)
LEMMA ArrivalTimeArrives == IsArrival(ArrivalTime)
  BY Zenon DEF IsArrival

(* What PlaceOf finds.                                                       *)
LEMMA PlaceFound ==
    ASSUME NEW C, NEW names \in Seq(C), NEW c
    PROVE  /\ PlaceOf(names, c) = 0 => \A i \in DOMAIN names : names[i] # c
           /\ PlaceOf(names, c) # 0 => /\ PlaceOf(names, c) \in DOMAIN names
                                       /\ names[PlaceOf(names, c)] = c
<1> DEFINE I == { i \in 1..Len(names) : names[i] = c }
<1>1. PlaceOf(names, c) = IF I # {} THEN Min(I) ELSE 0
  BY DEF PlaceOf, SelectInSeq
<1>2. I \in SUBSET Nat /\ DOMAIN names = 1..Len(names) /\ 0 \notin I
  OBVIOUS
<1>3. CASE I = {}
  BY <1>1, <1>2, <1>3
<1>4. CASE I # {}
  <2>1. Min(I) \in I
    BY <1>2, <1>4, Smallest
  <2>2. QED
    BY <1>1, <1>2, <1>4, <2>1
<1>5. QED
  BY <1>3, <1>4

(* What appenderArrivalIndex finds among names with the arrival time once.   *)
LEMMA ArrivalFound ==
    ASSUME NEW C, NEW names \in Seq(C), OneArrival(names)
    PROVE  /\ LastArrival(names) = ArrivalIndex(names)
           /\ ArrivalIndex(names) \in Nat
           /\ ArrivalIndex(names) = 0 => NoArrival(names)
           /\ ArrivalIndex(names) # 0 => /\ ArrivalIndex(names) \in DOMAIN names
                                         /\ IsArrival(names[ArrivalIndex(names)])
<1> DEFINE I == { i \in 1..Len(names) : IsArrival(names[i]) }
           n == Len(names)
<1>1. ArrivalIndex(names) = IF I # {} THEN Min(I) ELSE 0
  BY DEF ArrivalIndex, SelectInSeq
<1>2. LastArrival(names) = IF I # {} THEN Max(I) ELSE 0
  BY DEF LastArrival, SelectLastInSeq
<1>3. I \in SUBSET Nat /\ DOMAIN names = 1..n /\ 0 \notin I /\ I \in SUBSET (1..n) /\ n \in Nat
  OBVIOUS
<1>4. CASE I = {}
  BY <1>1, <1>2, <1>3, <1>4 DEF NoArrival
<1>5. CASE I # {}
  <2>1. Min(I) \in I
    BY <1>3, <1>5, Smallest
  <2>2. Max(I) \in I
    BY <1>3, <1>5, Largest
  <2>3. \A i, j \in I : i = j
    BY <1>3 DEF OneArrival
  <2>4. Max(I) = Min(I)
    BY <2>1, <2>2, <2>3
  <2>5. QED
    BY <1>1, <1>2, <1>3, <1>5, <2>1, <2>4
<1>6. QED
  BY <1>4, <1>5

(* The names kept are names.                                                 *)
LEMMA DropTyped ==
    ASSUME NEW C, NEW kept \in Seq(C), NEW target \in C
    PROVE  DropArrival(kept, target) \in Seq(C)
<1>1. Append(kept, target) \in Seq(C)
  OBVIOUS
<1>2. QED
  BY <1>1, Zenon DEF DropArrival

(* The loop that leaves the arrival time out, as a machine.                  *)
DropMachine(C) == [v \in Seq(C) |-> [c \in C |-> DropArrival(v, c)]]

(* The loop of appenderProjectionColumns is a run of this machine.           *)
LEMMA DropLooped ==
    ASSUME NEW C, NEW word \in Seq(C), NEW base \in Seq(C)
    PROVE  Run(DropMachine(C), base, word, FoldLeft(DropArrival, base, word))
<1> DEFINE n == Len(word)
           V == Seq(C)
           F == [i \in 1..n |-> [v \in V |-> DropArrival(v, word[i])]]
           E(g) == g = [s \in SUBSET (1..n) |->
                          IF s = {} THEN base ELSE DropArrival(g[s \ {Max(s)}], word[Max(s)])]
           e == CHOOSE g : E(g)
<1>1. n \in Nat /\ DOMAIN word = 1..n /\ \A i \in 1..n : word[i] \in C
  OBVIOUS
<1>2. base \in V
  OBVIOUS
<1>3. F \in [1..n -> [V -> V]] /\ \A i \in 1..n : \A v \in V : F[i][v] = DropArrival(v, word[i])
  <2>1. \A i \in 1..n : \A v \in V : F[i][v] = DropArrival(v, word[i])
    OBVIOUS
  <2>2. \A i \in 1..n : \A v \in V : DropArrival(v, word[i]) \in V
    BY <1>1, DropTyped
  <2>3. QED
    BY <2>1, <2>2
<1>4. FoldLeft(DropArrival, base, word) = e[1..n]
  BY <1>1 DEF FoldLeft, MapThenFoldSet
<1> HIDE DEF n, V, F
<1>5. \E g : E(g)
  <2>1. OverSets(n, V, base, F)
    BY <1>1, <1>2, <1>3, Folding
  <2>2. PICK g \in [SUBSET (1..n) -> V] :
          \A s \in SUBSET (1..n) : g[s] = IF s = {} THEN base ELSE F[Max(s)][g[s \ {Max(s)}]]
    BY <2>1 DEF OverSets
  <2>3. ASSUME NEW s \in SUBSET (1..n), s # {}
        PROVE  F[Max(s)][g[s \ {Max(s)}]] = DropArrival(g[s \ {Max(s)}], word[Max(s)])
    <3>1. Max(s) \in 1..n /\ s \ {Max(s)} \in SUBSET (1..n)
      BY <1>1, <2>3, Largest
    <3>2. QED
      BY <1>3, <3>1
  <2>4. g = [s \in SUBSET (1..n) |->
               IF s = {} THEN base ELSE DropArrival(g[s \ {Max(s)}], word[Max(s)])]
    BY <2>2, <2>3
  <2>5. QED
    BY <2>4
<1>6. E(e)
  <2> HIDE DEF E
  <2>1. QED
    BY <1>5
<1>7. \A s \in SUBSET (1..n) : e[s] = IF s = {} THEN base
                                       ELSE DropArrival(e[s \ {Max(s)}], word[Max(s)])
  BY <1>6
<1> HIDE DEF e
<1>8. e[{}] = base
  BY <1>7
<1>9. \A s \in SUBSET (1..n) : s # {} /\ e[s \ {Max(s)}] \in V => e[s] = F[Max(s)][e[s \ {Max(s)}]]
  <2> SUFFICES ASSUME NEW s \in SUBSET (1..n), s # {}, e[s \ {Max(s)}] \in V
               PROVE  e[s] = F[Max(s)][e[s \ {Max(s)}]]
    OBVIOUS
  <2>1. Max(s) \in 1..n
    BY <1>1, Largest
  <2>2. QED
    BY <1>3, <1>7, <2>1
<1>10. /\ e[1..0] = base
       /\ \A i \in 0..n : e[1..i] \in V
       /\ \A i \in 1..n : e[1..i] = F[i][e[1..i - 1]]
  <2>1. OnSets(n, V, base, F, e)
    BY <1>8, <1>9 DEF OnSets
  <2>2. OnPlaces(n, V, base, F, e)
    BY <1>1, <1>2, <1>3, <2>1, Unfolding
  <2>3. QED
    BY <2>2 DEF OnPlaces
<1> DEFINE f == [i \in 0..n |-> e[1..i]]
           M == DropMachine(C)
<1>11. f[0] = base /\ f[n] = e[1..n]
  BY <1>1, <1>10
<1>12. ASSUME NEW v \in V, NEW c \in C PROVE M[v][c] = DropArrival(v, c)
  BY DEF DropMachine, V
<1> HIDE DEF M
<1>13. ASSUME NEW i \in 1..n PROVE f[i] = M[f[i - 1]][word[i]]
  <2>1. i - 1 \in 0..n /\ i \in 0..n
    BY <1>1
  <2>2. f[i] = e[1..i] /\ f[i - 1] = e[1..i - 1] /\ e[1..i - 1] \in V /\ word[i] \in C
    BY <1>1, <1>10, <2>1
  <2> HIDE DEF f
  <2>3. M[f[i - 1]][word[i]] = DropArrival(f[i - 1], word[i])
    BY <1>12, <2>2
  <2>4. QED
    BY <1>3, <1>10, <2>2, <2>3
<1> HIDE DEF f
<1>14. Run(M, base, word, e[1..n])
  BY <1>11, <1>13 DEF Run, n
<1>15. QED
  BY <1>4, <1>14 DEF M

(* kept is the first i names without the one at idx.                         *)
Skipped(names, idx, i, kept) ==
    /\ Len(kept) = IF idx \in 1..i THEN i - 1 ELSE i
    /\ \A k \in 1..Len(kept) : kept[k] = IF idx \in 1..i /\ k >= idx THEN names[k + 1] ELSE names[k]

(* One more name is kept, unless it is the arrival time.                     *)
LEMMA OneMoreName ==
    ASSUME NEW C, NEW names \in Seq(C), NEW idx \in Nat, NEW i \in 0..Len(names) - 1,
           IsArrival(names[i + 1]) <=> i + 1 = idx,
           NEW kept \in Seq(C), Skipped(names, idx, i, kept)
    PROVE  Skipped(names, idx, i + 1, DropArrival(kept, names[i + 1]))
<1> DEFINE k1 == i + 1
           more == DropArrival(kept, names[k1])
           n == Len(names)
<1>1. i \in Nat /\ k1 \in 1..n /\ k1 \in Nat /\ n \in Nat /\ k1 = i + 1
  OBVIOUS
<1>2. Len(kept) \in Nat /\ names[k1] \in C
  BY <1>1
<1>3. /\ Len(kept) = IF idx \in 1..i THEN i - 1 ELSE i
      /\ \A k \in 1..Len(kept) : kept[k] = IF idx \in 1..i /\ k >= idx THEN names[k + 1] ELSE names[k]
  BY DEF Skipped
<1>4. more = IF IsArrival(names[k1]) THEN kept ELSE Append(kept, names[k1])
  BY Zenon DEF DropArrival
<1>5. IsArrival(names[k1]) <=> k1 = idx
  OBVIOUS
<1> HIDE DEF more, k1, n
<1>6. CASE k1 = idx
  <2>1. more = kept
    BY <1>4, <1>5, <1>6
  <2>2. idx \notin 1..i /\ idx \in 1..k1 /\ k1 - 1 = i
    BY <1>1, <1>6
  <2>3. Len(more) = i
    BY <1>3, <2>1, <2>2
  <2>4. \A k \in 1..Len(more) : ~(k >= idx)
    BY <1>1, <1>6, <2>3
  <2>5. \A k \in 1..Len(more) : more[k] = names[k]
    BY <1>3, <2>1, <2>2
  <2>6. Skipped(names, idx, k1, more)
    BY <2>2, <2>3, <2>4, <2>5 DEF Skipped
  <2>7. QED
    BY <2>6 DEF more, k1
<1>7. CASE k1 # idx
  <2>1. more = Append(kept, names[k1])
    BY <1>4, <1>5, <1>7
  <2>2. /\ Len(more) = Len(kept) + 1 /\ more[Len(kept) + 1] = names[k1]
        /\ \A k \in 1..Len(kept) : more[k] = kept[k]
    BY <1>2, <2>1
  <2>3. (idx \in 1..k1) <=> (idx \in 1..i)
    BY <1>1, <1>7
  <2>4. CASE idx \in 1..i
    <3>1. Len(kept) = i - 1 /\ i >= 1
      BY <1>1, <1>3, <2>4
    <3>2. Len(more) = k1 - 1 /\ more[i] = names[k1] /\ 1..Len(more) = 1..Len(kept) \cup {i}
      BY <1>1, <2>2, <3>1
    <3>3. i >= idx /\ i + 1 = k1
      BY <1>1, <2>4
    <3>4. \A k \in 1..Len(more) : more[k] = IF k >= idx THEN names[k + 1] ELSE names[k]
      BY <1>3, <2>2, <2>4, <3>2, <3>3
    <3>5. Skipped(names, idx, k1, more)
      BY <2>3, <2>4, <3>2, <3>4 DEF Skipped
    <3>6. QED
      BY <3>5 DEF more, k1
  <2>5. CASE idx \notin 1..i
    <3>1. Len(kept) = i
      BY <1>3, <2>5
    <3>2. Len(more) = k1 /\ more[k1] = names[k1] /\ 1..Len(more) = 1..Len(kept) \cup {k1}
      BY <1>1, <2>2, <3>1
    <3>3. \A k \in 1..Len(more) : more[k] = names[k]
      BY <1>3, <2>2, <2>5, <3>2
    <3>4. Skipped(names, idx, k1, more)
      BY <2>3, <2>5, <3>2, <3>3 DEF Skipped
    <3>5. QED
      BY <3>4 DEF more, k1
  <2>6. QED
    BY <2>4, <2>5
<1>8. QED
  BY <1>6, <1>7

(* Leaving out an arrival time that is named at most once.                   *)
LEMMA LeftOut ==
    ASSUME NEW C, NEW names \in Seq(C), OneArrival(names)
    PROVE  /\ WithoutArrival(names) \in Seq(C)
           /\ Skipped(names, ArrivalIndex(names), Len(names), WithoutArrival(names))
<1> DEFINE n == Len(names)
           idx == ArrivalIndex(names)
           F == DropMachine(C)
           none == <<>>
           W == WithoutArrival(names)
<1>1. n \in Nat /\ DOMAIN names = 1..n /\ \A i \in 1..n : names[i] \in C
  OBVIOUS
<1>2. idx \in Nat /\ \A i \in 1..n : IsArrival(names[i]) <=> i = idx
  <2>1. /\ idx \in Nat
        /\ idx = 0 => NoArrival(names)
        /\ idx # 0 => idx \in DOMAIN names /\ IsArrival(names[idx])
    BY ArrivalFound
  <2> HIDE DEF idx
  <2>2. QED
    BY <1>1, <2>1 DEF OneArrival, NoArrival
<1>3. none \in Seq(C) /\ Len(none) = 0
  OBVIOUS
<1>4. W = FoldLeft(DropArrival, none, names)
  BY DEF WithoutArrival
<1> HIDE DEF n, idx, none, W
<1>5. Run(F, none, names, W)
  BY <1>3, <1>4, DropLooped
<1>6. PICK g : g[0] = none /\ g[n] = W /\ \A i \in 1..n : g[i] = F[g[i - 1]][names[i]]
  BY <1>5 DEF Run, n
<1>7. \A v \in Seq(C) : \A c \in C : F[v][c] = DropArrival(v, c)
  BY DEF DropMachine
<1> HIDE DEF F
<1> DEFINE T == { i \in 0..n : g[i] \in Seq(C) /\ Skipped(names, idx, i, g[i]) }
<1>8. 0 \in T
  <2>1. g[0] \in Seq(C) /\ Len(g[0]) = 0
    BY <1>3, <1>6
  <2>2. 1..0 = {} /\ 0 \in 0..n
    BY <1>1
  <2>3. Skipped(names, idx, 0, g[0])
    BY <2>1, <2>2 DEF Skipped
  <2>4. QED
    BY <2>1, <2>2, <2>3
<1>9. ASSUME NEW i \in 0..n - 1, i \in T PROVE i + 1 \in T
  <2>1. i + 1 \in 1..n /\ (i + 1) - 1 = i /\ i + 1 \in 0..n
    BY <1>1
  <2>2. g[i] \in Seq(C) /\ Skipped(names, idx, i, g[i])
    BY <1>9
  <2> HIDE DEF T
  <2>3. g[i + 1] = DropArrival(g[i], names[i + 1]) /\ names[i + 1] \in C
    <3>1. g[i + 1] = F[g[i]][names[i + 1]] /\ names[i + 1] \in C
      BY <1>1, <1>6, <2>1
    <3>2. QED
      BY <1>7, <2>2, <3>1
  <2>4. IsArrival(names[i + 1]) <=> i + 1 = idx
    BY <1>2, <2>1
  <2>5. i \in 0..Len(names) - 1
    BY DEF n
  <2>6. Skipped(names, idx, i + 1, DropArrival(g[i], names[i + 1]))
    BY <1>2, <2>2, <2>4, <2>5, OneMoreName
  <2>7. DropArrival(g[i], names[i + 1]) \in Seq(C)
    BY <2>2, <2>3, DropTyped
  <2>8. QED
    BY <2>1, <2>3, <2>6, <2>7 DEF T
<1>10. n \in T
  <2> HIDE DEF T
  <2>1. QED
    BY <1>1, <1>8, <1>9, Upwards
<1>11. W \in Seq(C) /\ Skipped(names, idx, n, W)
  BY <1>6, <1>10
<1>12. QED
  BY <1>11 DEF W, idx, n

(* With no arrival time nothing is left out, with one only its place is.     *)
LEMMA LeftOutOf ==
    ASSUME NEW C, NEW names \in Seq(C), OneArrival(names)
    PROVE  /\ WithoutArrival(names) \in Seq(C)
           /\ ArrivalIndex(names) = 0 => WithoutArrival(names) = names
           /\ ArrivalIndex(names) # 0 =>
                /\ Len(WithoutArrival(names)) = Len(names) - 1
                /\ \A k \in 1..Len(names) - 1 :
                     WithoutArrival(names)[k] =
                         IF k >= ArrivalIndex(names) THEN names[k + 1] ELSE names[k]
<1> DEFINE idx == ArrivalIndex(names)
           W == WithoutArrival(names)
           n == Len(names)
<1>1. W \in Seq(C) /\ Skipped(names, idx, n, W)
  BY LeftOut
<1>2. idx \in Nat /\ (idx # 0 => idx \in 1..n) /\ n \in Nat
  BY ArrivalFound
<1> HIDE DEF idx, W, n
<1>3. /\ Len(W) = IF idx \in 1..n THEN n - 1 ELSE n
      /\ \A k \in 1..Len(W) : W[k] = IF idx \in 1..n /\ k >= idx THEN names[k + 1] ELSE names[k]
  BY <1>1 DEF Skipped
<1>4. CASE idx = 0
  <2>1. Len(W) = n /\ \A k \in 1..n : W[k] = names[k]
    BY <1>2, <1>3, <1>4
  <2>2. W = names
    BY <1>1, <2>1 DEF n
  <2>3. QED
    BY <1>1, <1>4, <2>2 DEF idx, W
<1>5. CASE idx # 0
  <2>1. Len(W) = n - 1 /\ \A k \in 1..n - 1 : W[k] = IF k >= idx THEN names[k + 1] ELSE names[k]
    BY <1>2, <1>3, <1>5
  <2>2. QED
    BY <1>1, <1>5, <2>1 DEF idx, W, n
<1>6. QED
  BY <1>4, <1>5

(* Where a name goes, and comes from, when the place idx is left out.        *)
To(idx, j) == IF idx # 0 /\ j > idx THEN j - 1 ELSE j
From(idx, k) == IF idx # 0 /\ k >= idx THEN k + 1 ELSE k

(* The names that are kept, place by place.                                  *)
LEMMA Corresponds ==
    ASSUME NEW C, NEW names \in Seq(C), OneArrival(names)
    PROVE  /\ \A k \in DOMAIN WithoutArrival(names) :
                /\ From(ArrivalIndex(names), k) \in DOMAIN names
                /\ names[From(ArrivalIndex(names), k)] = WithoutArrival(names)[k]
                /\ ~IsArrival(WithoutArrival(names)[k])
           /\ \A j \in DOMAIN names : ~IsArrival(names[j]) =>
                /\ To(ArrivalIndex(names), j) \in DOMAIN WithoutArrival(names)
                /\ WithoutArrival(names)[To(ArrivalIndex(names), j)] = names[j]
<1> DEFINE idx == ArrivalIndex(names)
           W == WithoutArrival(names)
           n == Len(names)
<1>1. /\ W \in Seq(C)
      /\ idx = 0 => W = names
      /\ idx # 0 => /\ Len(W) = n - 1
                    /\ \A k \in 1..n - 1 : W[k] = IF k >= idx THEN names[k + 1] ELSE names[k]
  BY LeftOutOf
<1>2. /\ idx \in Nat /\ n \in Nat /\ DOMAIN names = 1..n
      /\ idx = 0 => NoArrival(names)
      /\ idx # 0 => idx \in 1..n /\ IsArrival(names[idx])
  BY ArrivalFound
<1>3. \A i, j \in 1..n : IsArrival(names[i]) /\ IsArrival(names[j]) => i = j
  BY <1>2 DEF OneArrival
<1> HIDE DEF idx, W, n
<1>4. DOMAIN W = 1..Len(W)
  BY <1>1
<1>5. CASE idx = 0
  <2>1. W = names /\ NoArrival(names)
    BY <1>1, <1>2, <1>5
  <2>2. \A k : From(idx, k) = k /\ To(idx, k) = k
    BY <1>5 DEF From, To
  <2>3. QED
    BY <2>1, <2>2 DEF NoArrival, idx, W
<1>6. CASE idx # 0
  <2>1. Len(W) = n - 1 /\ idx \in 1..n /\ IsArrival(names[idx])
    BY <1>1, <1>2, <1>6
  <2>2. ASSUME NEW k \in DOMAIN W
        PROVE  From(idx, k) \in DOMAIN names /\ names[From(idx, k)] = W[k] /\ ~IsArrival(W[k])
    <3>1. k \in 1..n - 1
      BY <1>4, <2>1
    <3>2. W[k] = IF k >= idx THEN names[k + 1] ELSE names[k]
      BY <1>1, <1>6, <3>1
    <3>3. From(idx, k) = IF k >= idx THEN k + 1 ELSE k
      BY <1>6 DEF From
    <3>4. From(idx, k) \in 1..n /\ From(idx, k) # idx
      BY <1>2, <3>1, <3>3
    <3>5. W[k] = names[From(idx, k)]
      BY <3>2, <3>3
    <3>6. QED
      BY <1>2, <1>3, <2>1, <3>4, <3>5
  <2>3. ASSUME NEW j \in DOMAIN names, ~IsArrival(names[j])
        PROVE  To(idx, j) \in DOMAIN W /\ W[To(idx, j)] = names[j]
    <3>1. j \in 1..n /\ j # idx
      BY <1>2, <2>1, <2>3
    <3>2. CASE j > idx
      <4>1. To(idx, j) = j - 1
        BY <1>6, <3>2 DEF To
      <4>2. j - 1 \in 1..n - 1 /\ j - 1 >= idx /\ (j - 1) + 1 = j
        BY <1>2, <2>1, <3>1, <3>2
      <4>3. W[j - 1] = names[j]
        BY <1>1, <1>6, <4>2
      <4>4. QED
        BY <1>4, <2>1, <4>1, <4>2, <4>3
    <3>3. CASE ~(j > idx)
      <4>1. To(idx, j) = j
        BY <3>3 DEF To
      <4>2. j \in 1..n - 1 /\ ~(j >= idx)
        BY <1>2, <2>1, <3>1, <3>3
      <4>3. W[j] = names[j]
        BY <1>1, <1>6, <4>2
      <4>4. QED
        BY <1>4, <2>1, <4>1, <4>2, <4>3
    <3>4. QED
      BY <3>2, <3>3
  <2>4. QED
    BY <2>2, <2>3 DEF idx, W
<1>7. QED
  BY <1>5, <1>6

(* Left-out names are distinct just when the names are.                      *)
LEMMA DistinctLeft ==
    ASSUME NEW C, NEW names \in Seq(C), OneArrival(names)
    PROVE  /\ NoArrival(WithoutArrival(names))
           /\ Distinct(WithoutArrival(names)) <=> Distinct(names)
<1> DEFINE idx == ArrivalIndex(names)
           W == WithoutArrival(names)
<1>1. /\ \A k \in DOMAIN W : /\ From(idx, k) \in DOMAIN names /\ names[From(idx, k)] = W[k]
                             /\ ~IsArrival(W[k])
      /\ \A j \in DOMAIN names : ~IsArrival(names[j]) =>
           To(idx, j) \in DOMAIN W /\ W[To(idx, j)] = names[j]
  BY Corresponds
<1>2. idx \in Nat /\ W \in Seq(C) /\ (idx # 0 => IsArrival(names[idx]))
  BY ArrivalFound, LeftOutOf
<1>3. DOMAIN W \in SUBSET Nat
  BY <1>2
<1>4. DOMAIN names \in SUBSET Nat
  OBVIOUS
<1> HIDE DEF idx, W
<1>5. NoArrival(W)
  BY <1>1 DEF NoArrival
<1>6. ASSUME Distinct(names) PROVE Distinct(W)
  <2>1. \A i, j \in Nat : From(idx, i) = From(idx, j) => i = j
    BY <1>2 DEF From
  <2>2. QED
    BY <1>1, <1>3, <1>6, <2>1 DEF Distinct
<1>7. ASSUME Distinct(W) PROVE Distinct(names)
  <2> SUFFICES ASSUME NEW i \in DOMAIN names, NEW j \in DOMAIN names, names[i] = names[j]
               PROVE  i = j
    BY DEF Distinct
  <2>1. CASE IsArrival(names[i])
    BY <2>1 DEF OneArrival
  <2>2. CASE ~IsArrival(names[i])
    <3>1. To(idx, i) = To(idx, j)
      BY <1>1, <1>7, <2>2 DEF Distinct
    <3>2. idx # 0 => i # idx /\ j # idx
      BY <1>2, <2>2
    <3>3. i \in Nat /\ j \in Nat
      BY <1>4
    <3>4. QED
      BY <1>2, <3>1, <3>2, <3>3 DEF To
  <2>3. QED
    BY <2>1, <2>2
<1>8. QED
  BY <1>5, <1>6, <1>7 DEF W

(* What a column of the server gets from the names and values of a row.      *)
ReadFrom(names, values, column) ==
    IF column = ArrivalTime
    THEN IF LastArrival(names) \in DOMAIN values /\ values[LastArrival(names)] # Nil
         THEN values[LastArrival(names)] ELSE NoTime
    ELSE IF PlaceOf(names, column) = 0 THEN Nil ELSE values[PlaceOf(names, column)]

(* Names that bind to the columns.                                           *)
Bindable(columns, names) ==
    Distinct(names) /\ \A t \in ToSet(names) : IsArrival(t) \/ t \in ToSet(columns)

(* What buildAppendBindings returns.                                         *)
LEMMA Bindings ==
    ASSUME NEW columns, NEW names
    PROVE  /\ BuildAppendBindings(columns, names) # Refused <=> Bindable(columns, names)
           /\ BuildAppendBindings(columns, names) # Refused =>
                /\ BuildAppendBindings(columns, names).arrivalArg = LastArrival(names)
                /\ \A i \in DOMAIN columns :
                     BuildAppendBindings(columns, names).byColumn[i] =
                         IF columns[i] = ArrivalTime THEN -1 ELSE PlaceOf(names, columns[i])
<1> DEFINE b == BuildAppendBindings(columns, names)
           by == [i \in DOMAIN columns |->
                    IF columns[i] = ArrivalTime THEN -1 ELSE PlaceOf(names, columns[i])]
           last == LastArrival(names)
<1>1. b = IF ~Bindable(columns, names) THEN Refused ELSE [arrivalArg |-> last, byColumn |-> by]
  BY Zenon DEF BuildAppendBindings, Bindable
<1>2. \A i \in DOMAIN columns :
        by[i] = IF columns[i] = ArrivalTime THEN -1 ELSE PlaceOf(names, columns[i])
  BY Zenon
<1> HIDE DEF b, by, last
<1>3. [arrivalArg |-> last, byColumn |-> by] # Refused
  BY DEF Refused
<1>4. b # Refused <=> Bindable(columns, names)
  BY <1>1, <1>3
<1>5. ASSUME b # Refused PROVE b.arrivalArg = last /\ b.byColumn = by
  BY <1>1, <1>5
<1>6. QED
  BY <1>2, <1>4, <1>5 DEF b, last

(* The server reads what the bindings deliver.                               *)
LEMMA RowDelivered ==
    ASSUME NEW C, NEW columns \in Seq(C), NEW names \in Seq(C), NEW A, NEW values \in Seq(A),
           Len(names) = Len(values), BuildAppendBindings(columns, names) # Refused,
           NEW i \in DOMAIN columns
    PROVE  ServerReads(columns, EncodeAppendRow(columns, BuildAppendBindings(columns, names), values))[i] =
               ReadFrom(names, values, columns[i])
<1> DEFINE b == BuildAppendBindings(columns, names)
           c == columns[i]
           k == PlaceOf(names, c)
           last == LastArrival(names)
           read == ServerReads(columns, EncodeAppendRow(columns, b, values))[i]
<1>1. read = IF IsNullIn(b, values, i) THEN Nil ELSE FieldIn(b, values, i)
  BY RowReadBack
<1>2. b.arrivalArg = last /\ b.byColumn[i] = IF c = ArrivalTime THEN -1 ELSE k
  BY Bindings
<1>3. (k = 0 \/ k \in DOMAIN names) /\ DOMAIN names = DOMAIN values /\ 0 \notin DOMAIN values
  BY PlaceFound
<1>4. DOMAIN values = 1..Len(values)
  OBVIOUS
<1>5. k # -1 /\ (k = 0 \/ k \in DOMAIN values) /\ 0 \notin DOMAIN values
  BY <1>3, <1>4
<1> HIDE DEF b, k, last, read, c
<1>6. CASE c = ArrivalTime
  <2>1. b.byColumn[i] = -1
    BY <1>2, <1>6
  <2>2. ~IsNullIn(b, values, i)
    BY <2>1, Zenon DEF IsNullIn
  <2>3. FieldIn(b, values, i) = IF last \in DOMAIN values /\ values[last] # Nil THEN values[last] ELSE NoTime
    BY <1>2, <2>1, Zenon DEF FieldIn
  <2>4. read = ReadFrom(names, values, c)
    BY <1>1, <1>6, <2>2, <2>3 DEF ReadFrom, last
  <2>5. QED
    BY <2>4 DEF read, c, b
<1>7. CASE c # ArrivalTime
  <2>1. b.byColumn[i] = k
    BY <1>2, <1>7
  <2>2. IsNullIn(b, values, i) <=> k = 0 \/ values[k] = Nil
    BY <1>5, <2>1, Zenon DEF IsNullIn
  <2>3. k # 0 /\ values[k] # Nil => FieldIn(b, values, i) = values[k]
    BY <1>5, <2>1, Zenon DEF FieldIn
  <2>4. read = IF k = 0 THEN Nil ELSE values[k]
    BY <1>1, <2>2, <2>3
  <2>5. read = ReadFrom(names, values, c)
    BY <1>7, <2>4, Zenon DEF ReadFrom, k
  <2>6. QED
    BY <2>5 DEF read, c, b
<1>8. QED
  BY <1>6, <1>7

(* u is v with x inserted at idx.                                            *)
IsInserted(A, v, idx, x, u) ==
    /\ u \in Seq(A) /\ Len(u) = Len(v) + 1 /\ u[idx] = x
    /\ \A j \in 1..Len(v) + 1 : j # idx => u[j] = v[To(idx, j)]

(* What insertAppenderValue returns.                                         *)
LEMMA Inserted ==
    ASSUME NEW A, NEW v \in Seq(A), NEW idx \in 1..Len(v) + 1, NEW x \in A
    PROVE  IsInserted(A, v, idx, x, InsertValue(v, idx, x))
<1> DEFINE n == Len(v)
           left == SubSeq(v, 1, idx - 1)
           right == SubSeq(v, idx, n)
           one == <<x>>
           u == InsertValue(v, idx, x)
<1>1. n \in Nat /\ idx \in 1..n + 1 /\ idx \in Nat
  OBVIOUS
<1>2. left \in Seq(A) /\ Len(left) = idx - 1 /\ \A j \in 1..idx - 1 : left[j] = v[j]
  BY <1>1
<1>3. right \in Seq(A) /\ Len(right) = n - idx + 1 /\ \A j \in 1..n - idx + 1 : right[j] = v[idx + j - 1]
  BY <1>1
<1>4. one \in Seq(A)
  OBVIOUS
<1>5. Len(one) = 1
  OBVIOUS
<1>6. one[1] = x
  OBVIOUS
<1>7. u = (left \o one) \o right
  BY DEF InsertValue, InsertAt
<1> HIDE DEF n, left, right, one, u
<1> DEFINE front == left \o one
<1>8. front \in Seq(A)
  BY <1>2, <1>4
<1>9. left \in Seq(A)
  BY <1>2
<1>10. Len(front) = Len(left) + Len(one)
  BY <1>4, <1>9
<1>11. Len(front) = idx
  BY <1>1, <1>2, <1>5, <1>10
<1>12. front[idx] = x
  <2>1. idx = Len(left) + 1 /\ idx - Len(left) = 1 /\ Len(left) + 1 \in Nat
    BY <1>1, <1>2
  <2>2. front[Len(left) + 1] = one[1]
    <3>1. \A m \in 1..Len(one) : front[Len(left) + m] = one[m]
      BY <1>4, <1>9
    <3>2. 1 \in 1..Len(one)
      BY <1>5
    <3>3. QED
      BY <3>1, <3>2
  <2>3. QED
    BY <1>6, <2>1, <2>2
<1>13. \A j \in 1..idx - 1 : front[j] = v[j]
  BY <1>1, <1>2, <1>4, <1>5
<1>14. u = front \o right
  BY <1>7
<1> HIDE DEF front
<1>15. u \in Seq(A)
  BY <1>3, <1>8, <1>14
<1>16. Len(u) = n + 1
  BY <1>1, <1>3, <1>8, <1>11, <1>14
<1>17. \A j \in 1..idx : u[j] = front[j]
  BY <1>1, <1>3, <1>8, <1>11, <1>14
<1>18. \A j \in idx + 1..n + 1 : u[j] = right[j - idx]
  BY <1>1, <1>3, <1>8, <1>11, <1>14
<1>19. ASSUME NEW j \in 1..n + 1, j # idx PROVE u[j] = v[To(idx, j)]
  <2>1. CASE j < idx
    <3>1. j \in 1..idx /\ j \in 1..idx - 1 /\ To(idx, j) = j
      BY <1>1, <2>1 DEF To
    <3>2. QED
      BY <1>13, <1>17, <3>1
  <2>2. CASE j > idx
    <3>1. j \in idx + 1..n + 1 /\ To(idx, j) = j - 1 /\ j - idx \in 1..n - idx + 1
      BY <1>1, <2>2 DEF To
    <3>2. idx + (j - idx) - 1 = j - 1
      BY <1>1
    <3>3. QED
      BY <1>3, <1>18, <3>1, <3>2
  <2>3. QED
    BY <1>1, <1>19, <2>1, <2>2
<1>20. u[idx] = x
  BY <1>1, <1>12, <1>17
<1>21. QED
  BY <1>15, <1>16, <1>19, <1>20 DEF u, n, IsInserted

(* Every value given for a name but the arrival time is one of the row's,    *)
(* under the same name, and every name given is one of the row's.            *)
CarriesOver(names, values, given, v) ==
    /\ \A j \in DOMAIN names : ~IsArrival(names[j]) =>
           \E k \in DOMAIN given : given[k] = names[j] /\ v[k] = values[j]
    /\ \A k \in DOMAIN given : ~IsArrival(given[k]) => \E j \in DOMAIN names : names[j] = given[k]

(* Such a row puts the values where the names given put them.                *)
LEMMA SameElsewhere ==
    ASSUME NEW C, NEW names \in Seq(C), NEW given \in Seq(C), Distinct(names), Distinct(given),
           NEW values, NEW v, CarriesOver(names, values, given, v), NEW c, ~IsArrival(c)
    PROVE  ReadFrom(names, values, c) =
               IF PlaceOf(given, c) = 0 THEN Nil ELSE v[PlaceOf(given, c)]
<1> DEFINE p == PlaceOf(names, c)
           q == PlaceOf(given, c)
<1>1. c # ArrivalTime
  BY ArrivalTimeArrives
<1>2. ReadFrom(names, values, c) = IF p = 0 THEN Nil ELSE values[p]
  BY <1>1, Zenon DEF ReadFrom
<1>3. /\ p = 0 => \A i \in DOMAIN names : names[i] # c
      /\ p # 0 => p \in DOMAIN names /\ names[p] = c
  BY PlaceFound
<1>4. /\ q = 0 => \A i \in DOMAIN given : given[i] # c
      /\ q # 0 => q \in DOMAIN given /\ given[q] = c
  BY PlaceFound
<1> HIDE DEF p, q
<1>5. CASE p = 0
  <2>1. q = 0
    BY <1>3, <1>4, <1>5 DEF CarriesOver
  <2>2. QED
    BY <1>2, <1>5, <2>1 DEF q
<1>6. CASE p # 0
  <2>1. p \in DOMAIN names /\ names[p] = c
    BY <1>3, <1>6
  <2>2. PICK k \in DOMAIN given : given[k] = c /\ v[k] = values[p]
    BY <2>1 DEF CarriesOver
  <2>3. q # 0 /\ q = k
    BY <1>4, <2>2 DEF Distinct
  <2>4. QED
    BY <1>2, <1>6, <2>2, <2>3 DEF q
<1>7. QED
  BY <1>5, <1>6

(* The value is the one the caller meant.                                    *)
LEMMA MeantElsewhere ==
    ASSUME NEW names, NEW row, NEW c, ~IsArrival(c)
    PROVE  Meant(names, row, c) =
               IF PlaceOf(NamesFor(names, row), c) = 0 THEN Nil
               ELSE row.values[PlaceOf(NamesFor(names, row), c)]
<1>1. c # ArrivalTime
  BY ArrivalTimeArrives
<1>2. QED
  BY <1>1, Zenon DEF Meant

(* The arrival time the caller meant.                                        *)
LEMMA MeantArrival ==
    ASSUME NEW names, NEW row
    PROVE  /\ row.time # NoTime => Meant(names, row, ArrivalTime) = row.time
           /\ row.time = NoTime /\ ArrivalIndex(NamesFor(names, row)) = 0 =>
                Meant(names, row, ArrivalTime) = ZeroTime
           /\ row.time = NoTime /\ ArrivalIndex(NamesFor(names, row)) # 0 =>
                Meant(names, row, ArrivalTime) =
                    IF row.values[ArrivalIndex(NamesFor(names, row))] = Nil THEN NoTime
                    ELSE row.values[ArrivalIndex(NamesFor(names, row))]
<1> DEFINE k == ArrivalIndex(NamesFor(names, row))
           t == row.time
           x == row.values[k]
<1>1. Meant(names, row, ArrivalTime) =
        CASE t # NoTime -> t
          [] t = NoTime /\ k = 0 -> ZeroTime
          [] OTHER -> IF x = Nil THEN NoTime ELSE x
  BY Zenon DEF Meant
<1> HIDE DEF k, t, x
<1>2. QED
  BY <1>1 DEF k, t, x

(* The values of a row reach the columns that its caller named them for.     *)
AsMeant(names, values, given, row, c) ==
    Len(NamesFor(given, row)) = Len(row.values) /\ ReadFrom(names, values, c) = Meant(given, row, c)

(* The row as it was given.                                                  *)
LEMMA GivenWhole ==
    ASSUME NEW C, NEW names \in Seq(C), OneArrival(names), Distinct(names), NEW row,
           row.time = NoTime, NEW A, row.values \in Seq(A), Len(row.values) = Len(names),
           NEW c, ~IsArrival(c) \/ (c = ArrivalTime /\ ArrivalIndex(names) # 0)
    PROVE  AsMeant(names, row.values, names, row, c)
<1> DEFINE v == row.values
           idx == ArrivalIndex(names)
<1>1. NamesFor(names, row) = names
  BY Zenon DEF NamesFor
<1>2. DOMAIN names = DOMAIN v
  OBVIOUS
<1>3. CASE ~IsArrival(c)
  <2>1. CarriesOver(names, v, names, v)
    BY DEF CarriesOver
  <2>2. ReadFrom(names, v, c) = IF PlaceOf(names, c) = 0 THEN Nil ELSE v[PlaceOf(names, c)]
    BY <1>3, <2>1, SameElsewhere
  <2>3. Meant(names, row, c) = IF PlaceOf(names, c) = 0 THEN Nil ELSE v[PlaceOf(names, c)]
    BY <1>1, <1>3, MeantElsewhere
  <2>4. QED
    BY <1>1, <2>2, <2>3 DEF AsMeant
<1>4. CASE c = ArrivalTime /\ idx # 0
  <2>1. LastArrival(names) = idx /\ idx \in DOMAIN v
    BY <1>2, <1>4, ArrivalFound
  <2>2. Meant(names, row, ArrivalTime) = IF v[idx] = Nil THEN NoTime ELSE v[idx]
    BY <1>1, <1>4, MeantArrival
  <2> HIDE DEF v, idx
  <2>3. ReadFrom(names, v, ArrivalTime) = IF v[idx] # Nil THEN v[idx] ELSE NoTime
    BY <2>1, Zenon DEF ReadFrom
  <2>4. ReadFrom(names, v, c) = Meant(names, row, c)
    BY <1>4, <2>2, <2>3
  <2>5. QED
    BY <1>1, <2>4 DEF AsMeant, v
<1>5. QED
  BY <1>3, <1>4

(* What an inserted arrival time can be: the caller's, or the zero time.     *)
Inserts(row, time) ==
    /\ time # Nil
    /\ row.time # NoTime => time = row.time
    /\ row.time = NoTime => time = ZeroTime

(* The arrival time inserted at its place.                                   *)
LEMMA GivenWithout ==
    ASSUME NEW C, NEW names \in Seq(C), OneArrival(names), Distinct(names), NEW row, NEW time,
           NEW A, row.values \in Seq(A), time \in A, Len(row.values) = Len(names) - 1,
           ArrivalIndex(names) # 0, Inserts(row, time),
           NEW c, ~IsArrival(c) \/ c = ArrivalTime
    PROVE  AsMeant(names, InsertValue(row.values, ArrivalIndex(names), time), names, row, c)
<1> DEFINE v == row.values
           idx == ArrivalIndex(names)
           u == InsertValue(v, idx, time)
           W == WithoutArrival(names)
           n == Len(names)
<1>1. n \in Nat /\ DOMAIN names = 1..n /\ Len(v) = n - 1 /\ v \in Seq(A)
  OBVIOUS
<1>2. idx \in 1..n /\ LastArrival(names) = idx /\ IsArrival(names[idx])
  BY <1>1, ArrivalFound
<1>3. W \in Seq(C) /\ Len(W) = n - 1
  BY LeftOutOf
<1>4. NamesFor(names, row) = W
  <2> HIDE DEF n
  <2>1. n - 1 # n
    BY <1>1
  <2>2. Len(row.values) # Len(names)
    BY <1>1, <2>1, Zenon DEF n
  <2>3. QED
    BY <2>2, Zenon DEF NamesFor
<1>5. /\ u \in Seq(A) /\ Len(u) = n /\ u[idx] = time
      /\ \A j \in 1..n : j # idx => u[j] = v[To(idx, j)]
  <2> HIDE DEF v, n, idx
  <2>1. idx \in 1..Len(v) + 1 /\ Len(v) + 1 = n
    BY <1>1, <1>2
  <2>2. v \in Seq(A)
    BY <1>1
  <2>3. IsInserted(A, v, idx, time, u)
    BY <2>1, <2>2, Inserted
  <2> HIDE DEF u
  <2>4. QED
    BY <2>1, <2>3 DEF IsInserted
<1>6. DOMAIN u = 1..n
  <2> HIDE DEF u
  <2>1. QED
    BY <1>5
<1>7. Len(NamesFor(names, row)) = Len(row.values)
  BY <1>1, <1>3, <1>4
<1>8. /\ \A k \in DOMAIN W : From(idx, k) \in DOMAIN names /\ names[From(idx, k)] = W[k]
      /\ \A j \in DOMAIN names : ~IsArrival(names[j]) => To(idx, j) \in DOMAIN W /\ W[To(idx, j)] = names[j]
  BY Corresponds
<1>9. Distinct(W) /\ NoArrival(W)
  BY DistinctLeft
<1> HIDE DEF v, idx, u, W, n
<1>10. CASE ~IsArrival(c)
  <2>1. CarriesOver(names, u, W, v)
    <3>1. ASSUME NEW j \in DOMAIN names, ~IsArrival(names[j])
          PROVE  \E k \in DOMAIN W : W[k] = names[j] /\ v[k] = u[j]
      <4>1. j \in 1..n /\ j # idx
        BY <1>1, <1>2, <3>1
      <4>2. u[j] = v[To(idx, j)]
        BY <1>5, <4>1
      <4>3. To(idx, j) \in DOMAIN W /\ W[To(idx, j)] = names[j]
        BY <1>8, <3>1
      <4>4. QED
        BY <4>2, <4>3
    <3>2. \A k \in DOMAIN W : \E j \in DOMAIN names : names[j] = W[k]
      BY <1>8
    <3>3. QED
      BY <3>1, <3>2 DEF CarriesOver
  <2>2. ReadFrom(names, u, c) = IF PlaceOf(W, c) = 0 THEN Nil ELSE v[PlaceOf(W, c)]
    BY <1>3, <1>9, <1>10, <2>1, SameElsewhere
  <2>3. Meant(names, row, c) = IF PlaceOf(W, c) = 0 THEN Nil ELSE v[PlaceOf(W, c)]
    BY <1>4, <1>10, MeantElsewhere DEF v
  <2>4. QED
    BY <1>7, <2>2, <2>3 DEF AsMeant, u, v, idx
<1>11. CASE c = ArrivalTime
  <2>1. ReadFrom(names, u, ArrivalTime) = time
    <3>1. idx \in DOMAIN u /\ u[idx] # Nil
      BY <1>2, <1>5, <1>6 DEF Inserts
    <3>2. ReadFrom(names, u, ArrivalTime) = u[idx]
      BY <1>2, <3>1, Zenon DEF ReadFrom
    <3>3. QED
      BY <1>5, <3>2
  <2>2. ArrivalIndex(W) = 0
    <3>1. OneArrival(W)
      BY <1>9 DEF OneArrival, NoArrival
    <3>2. QED
      BY <1>3, <1>9, <3>1, ArrivalFound DEF NoArrival
  <2>3. Meant(names, row, ArrivalTime) = time
    BY <1>4, <2>2, MeantArrival DEF Inserts
  <2>4. ReadFrom(names, u, c) = Meant(names, row, c)
    BY <1>11, <2>1, <2>3
  <2>5. QED
    BY <1>7, <2>4 DEF AsMeant, u, v, idx
<1>12. QED
  BY <1>10, <1>11

(* u is s after x.                                                           *)
IsPrepended(X, x, s, u) ==
    /\ u \in Seq(X) /\ Len(u) = Len(s) + 1 /\ u[1] = x
    /\ \A k \in 1..Len(s) : u[k + 1] = s[k]

(* A sequence after one element.                                             *)
LEMMA Prepended ==
    ASSUME NEW X, NEW x \in X, NEW s \in Seq(X)
    PROVE  IsPrepended(X, x, s, <<x>> \o s)
<1> DEFINE one == <<x>>
           u == one \o s
<1>1. one \in Seq(X)
  OBVIOUS
<1>2. Len(one) = 1
  OBVIOUS
<1>3. one[1] = x
  OBVIOUS
<1> HIDE DEF one
<1>4. u \in Seq(X)
  BY <1>1
<1>5. Len(u) = Len(one) + Len(s)
  BY <1>1
<1>6. \A k \in 1..Len(one) : u[k] = one[k]
  BY <1>1
<1>7. \A k \in 1..Len(s) : u[Len(one) + k] = s[k]
  BY <1>1
<1> HIDE DEF u
<1>8. Len(s) \in Nat
  OBVIOUS
<1>9. Len(u) = Len(s) + 1
  BY <1>2, <1>5, <1>8
<1>10. u[1] = x
  <2>1. 1 \in 1..Len(one)
    BY <1>2
  <2>2. QED
    BY <1>3, <1>6, <2>1
<1>11. \A k \in 1..Len(s) : u[k + 1] = s[k]
  <2>1. \A k \in 1..Len(s) : Len(one) + k = k + 1
    BY <1>2, <1>8
  <2>2. QED
    BY <1>7, <2>1
<1>12. IsPrepended(X, x, s, u)
  BY <1>4, <1>9, <1>10, <1>11 DEF IsPrepended
<1>13. QED
  BY <1>12 DEF u, one

(* The arrival time put before the names and the values.                     *)
LEMMA GivenAfter ==
    ASSUME NEW C, ArrivalTime \in C, NEW given \in Seq(C), OneArrival(given), ArrivalIndex(given) = 0,
           Distinct(<<ArrivalTime>> \o given), NEW row, NEW time, NEW A, row.values \in Seq(A),
           time \in A, Len(row.values) = Len(given), Inserts(row, time),
           NEW c, ~IsArrival(c) \/ c = ArrivalTime
    PROVE  AsMeant(<<ArrivalTime>> \o given, <<time>> \o row.values, given, row, c)
<1> DEFINE v == row.values
           n == Len(given)
           names == <<ArrivalTime>> \o given
           u == <<time>> \o v
<1>1. n \in Nat /\ DOMAIN given = 1..n /\ Len(v) = n /\ v \in Seq(A)
  OBVIOUS
<1>2. NoArrival(given) /\ WithoutArrival(given) = given
  BY ArrivalFound, LeftOutOf
<1>3. NamesFor(given, row) = given
  BY <1>2, Zenon DEF NamesFor
<1>4. IsPrepended(C, ArrivalTime, given, names)
  BY Prepended
<1>5. IsPrepended(A, time, v, u)
  BY <1>1, Prepended
<1>6. Distinct(names)
  OBVIOUS
<1> HIDE DEF v, n, names, u
<1>7. /\ names \in Seq(C) /\ Len(names) = n + 1 /\ names[1] = ArrivalTime
      /\ \A k \in 1..n : names[k + 1] = given[k]
  BY <1>4 DEF IsPrepended, n
<1>8. /\ u \in Seq(A) /\ Len(u) = n + 1 /\ u[1] = time
      /\ \A k \in 1..n : u[k + 1] = v[k]
  BY <1>1, <1>5 DEF IsPrepended
<1>9. DOMAIN names = 1..n + 1
  BY <1>7
<1>10. DOMAIN u = 1..n + 1
  BY <1>8
<1>11. \A j \in 1..n + 1 : j = 1 \/ (j - 1 \in 1..n /\ (j - 1) + 1 = j)
  BY <1>1
<1>12. \A k \in 1..n : k + 1 \in 1..n + 1 /\ k + 1 # 1
  BY <1>1
<1>13. 1 \in 1..n + 1
  BY <1>1
<1>14. Distinct(given)
  <2> SUFFICES ASSUME NEW i \in 1..n, NEW j \in 1..n, given[i] = given[j] PROVE i = j
    BY <1>1 DEF Distinct
  <2>1. i + 1 \in DOMAIN names /\ j + 1 \in DOMAIN names /\ names[i + 1] = names[j + 1]
    BY <1>7, <1>9, <1>12
  <2>2. i + 1 = j + 1
    BY <1>6, <2>1 DEF Distinct
  <2>3. QED
    BY <1>1, <2>2
<1>15. Len(NamesFor(given, row)) = Len(row.values)
  BY <1>1, <1>3 DEF v, n
<1>16. CASE ~IsArrival(c)
  <2>1. CarriesOver(names, u, given, v)
    <3>1. ASSUME NEW j \in DOMAIN names, ~IsArrival(names[j])
          PROVE  \E k \in DOMAIN given : given[k] = names[j] /\ v[k] = u[j]
      <4>1. j # 1
        BY <1>7, <3>1, ArrivalTimeArrives
      <4>2. j - 1 \in 1..n /\ (j - 1) + 1 = j
        BY <1>9, <1>11, <4>1
      <4>3. given[j - 1] = names[j] /\ v[j - 1] = u[j]
        BY <1>7, <1>8, <4>2
      <4>4. QED
        BY <1>1, <4>2, <4>3
    <3>2. \A k \in DOMAIN given : \E j \in DOMAIN names : names[j] = given[k]
      BY <1>1, <1>7, <1>9, <1>12
    <3>3. QED
      BY <3>1, <3>2 DEF CarriesOver
  <2>2. ReadFrom(names, u, c) = IF PlaceOf(given, c) = 0 THEN Nil ELSE v[PlaceOf(given, c)]
    BY <1>6, <1>7, <1>14, <1>16, <2>1, SameElsewhere
  <2>3. Meant(given, row, c) = IF PlaceOf(given, c) = 0 THEN Nil ELSE v[PlaceOf(given, c)]
    BY <1>3, <1>16, MeantElsewhere DEF v
  <2>4. AsMeant(names, u, given, row, c)
    BY <1>15, <2>2, <2>3 DEF AsMeant
  <2>5. QED
    BY <2>4 DEF names, u, v
<1>17. CASE c = ArrivalTime
  <2>1. ASSUME NEW j \in DOMAIN names, IsArrival(names[j]) PROVE j = 1
    <3>1. ASSUME j # 1 PROVE FALSE
      <4>1. j - 1 \in 1..n /\ (j - 1) + 1 = j
        BY <1>9, <1>11, <3>1
      <4>2. names[j] = given[j - 1]
        BY <1>7, <4>1
      <4>3. QED
        BY <1>1, <1>2, <2>1, <4>1, <4>2 DEF NoArrival
    <3>2. QED
      BY <3>1
  <2>2. OneArrival(names)
    BY <2>1 DEF OneArrival
  <2>3. ~NoArrival(names)
    BY <1>7, <1>9, <1>13, ArrivalTimeArrives DEF NoArrival
  <2>4. LastArrival(names) = 1
    <3> DEFINE k == ArrivalIndex(names)
    <3>1. LastArrival(names) = k /\ (k = 0 => NoArrival(names)) /\ (k # 0 => k \in DOMAIN names /\ IsArrival(names[k]))
      BY <1>7, <2>2, ArrivalFound
    <3> HIDE DEF k
    <3>2. QED
      BY <2>1, <2>3, <3>1
  <2>5. ReadFrom(names, u, ArrivalTime) = time
    <3>1. 1 \in DOMAIN u /\ u[1] # Nil
      BY <1>8, <1>10, <1>13 DEF Inserts
    <3>2. ReadFrom(names, u, ArrivalTime) = u[1]
      BY <2>4, <3>1, Zenon DEF ReadFrom
    <3>3. QED
      BY <1>8, <3>2
  <2>6. Meant(given, row, ArrivalTime) = time
    BY <1>3, MeantArrival DEF Inserts
  <2>7. AsMeant(names, u, given, row, c)
    BY <1>15, <1>17, <2>5, <2>6 DEF AsMeant
  <2>8. QED
    BY <2>7 DEF names, u, v
<1>18. QED
  BY <1>16, <1>17

(* The arrival time of a row that names none.                                *)
TimeOf(row) == IF row.time = NoTime THEN ZeroTime ELSE row.time

(* The row goes out with these names and values.                             *)
SentAs(shape, names, values) == shape = Shape(names, values)

(* The shapes a row that is not refused can get, by the place of the arrival *)
(* time among the names.                                                     *)
LEMMA Shapes ==
    ASSUME NEW a, NEW row, Shaped(a, row.values, row.time) # Refused
    PROVE  \/ /\ a.table # "log" /\ row.time = NoTime
              /\ SentAs(Shaped(a, row.values, row.time), AppendColumnNames(a), row.values)
           \/ /\ a.table = "log" /\ row.time = NoTime /\ ArrivalIndex(AppendColumnNames(a)) > 0
              /\ Len(row.values) # Len(AppendColumnNames(a)) - 1
              /\ SentAs(Shaped(a, row.values, row.time), AppendColumnNames(a), row.values)
           \/ /\ a.table = "log" /\ ArrivalIndex(AppendColumnNames(a)) > 0
              /\ row.time = NoTime => Len(row.values) = Len(AppendColumnNames(a)) - 1
              /\ SentAs(Shaped(a, row.values, row.time), AppendColumnNames(a),
                      InsertValue(row.values, ArrivalIndex(AppendColumnNames(a)), TimeOf(row)))
           \/ /\ a.table = "log" /\ ~(ArrivalIndex(AppendColumnNames(a)) > 0)
              /\ SentAs(Shaped(a, row.values, row.time), <<ArrivalTime>> \o AppendColumnNames(a),
                      <<TimeOf(row)>> \o row.values)
<1> DEFINE names == AppendColumnNames(a)
           idx == ArrivalIndex(names)
           v == row.values
           t == row.time
           tau == TimeOf(row)
           log == a.table = "log"
           req == RequiresExplicitArrival(a)
           inserted == Shape(names, InsertValue(v, idx, tau))
           insertedZero == Shape(names, InsertValue(v, idx, ZeroTime))
           whole == Shape(names, v)
           after == Shape(<<ArrivalTime>> \o names, <<tau>> \o v)
           pos == idx > 0
           short == Len(v) = Len(names) - 1
           none == t = NoTime
           with == IF pos THEN inserted ELSE after
           shape == Shaped(a, v, t)
<1>1. with = WithArrival(names, v, tau)
  BY Zenon DEF WithArrival
<1>2. shape = CASE ~log -> IF none THEN whole ELSE Refused
                [] log /\ req -> Refused
                [] log /\ ~req /\ none /\ pos -> IF short THEN insertedZero ELSE whole
                [] OTHER -> with
  <2>1. tau = IF t = NoTime THEN ZeroTime ELSE t
    BY Zenon DEF TimeOf
  <2> HIDE DEF tau, with
  <2>2. shape = CASE ~log -> IF none THEN whole ELSE Refused
                  [] log /\ req -> Refused
                  [] log /\ ~req /\ none /\ pos -> IF short THEN insertedZero ELSE whole
                  [] OTHER -> WithArrival(names, v, tau)
    BY <2>1, Zenon DEF Shaped
  <2>3. QED
    BY <1>1, <2>2, Zenon
<1>3. none => insertedZero = inserted
  BY Zenon DEF TimeOf
<1>4. shape # Refused
  OBVIOUS
<1> HIDE DEF log, req, none, pos, short, inserted, insertedZero, whole, after, shape
<1>5. \/ ~log /\ none /\ shape = whole
      \/ log /\ none /\ pos /\ ~short /\ shape = whole
      \/ log /\ pos /\ (none => short) /\ shape = inserted
      \/ log /\ ~pos /\ shape = after
  <2>1. CASE ~log
    BY <1>2, <1>4, <2>1
  <2>2. CASE log /\ req
    BY <1>2, <1>4, <2>2
  <2>3. CASE log /\ ~req /\ none /\ pos
    BY <1>2, <1>3, <1>4, <2>3
  <2>4. CASE log /\ ~req /\ ~(none /\ pos)
    <3>1. shape = with
      BY <1>2, <2>4
    <3>2. QED
      BY <2>4, <3>1
  <2>5. QED
    BY <2>1, <2>2, <2>3, <2>4
<1>6. QED
  BY <1>5, Zenon DEF log, none, pos, short, inserted, whole, after, shape, SentAs

(* The names and the values of a row's shape.                                *)
LEMMA ShapeParts ==
    ASSUME NEW shape, NEW names, NEW values, SentAs(shape, names, values)
    PROVE  shape.names = names /\ shape.values = values
  BY DEF SentAs, Shape

(* A column of the server of this table.                                     *)
ServerColumn(table, c) ==
    /\ table = "log" => ~IsArrival(c) \/ c = ArrivalTime
    /\ table # "log" => ~IsArrival(c)

(* A row whose names and values pair off goes where it was meant to.         *)
LEMMA ShapedAsMeant ==
    ASSUME NEW a, NEW C, ArrivalTime \in C, AppendColumnNames(a) \in Seq(C),
           OneArrival(AppendColumnNames(a)),
           NEW row, NEW A, row.values \in Seq(A), TimeOf(row) \in A, row.time # Nil,
           NEW shape, shape = Shaped(a, row.values, row.time), shape # Refused,
           Len(shape.names) = Len(shape.values), Distinct(shape.names)
    PROVE  /\ shape.names \in Seq(C) /\ shape.values \in Seq(A)
           /\ \A c : ServerColumn(a.table, c) =>
                AsMeant(shape.names, shape.values, AppendColumnNames(a), row, c)
<1> DEFINE names == AppendColumnNames(a)
           idx == ArrivalIndex(names)
           v == row.values
           time == TimeOf(row)
<1>1. names \in Seq(C) /\ OneArrival(names)
  OBVIOUS
<1>2. v \in Seq(A)
  OBVIOUS
<1>3. Inserts(row, time)
  <2>1. ZeroTime # Nil
    BY DEF ZeroTime, Nil
  <2>2. QED
    BY <2>1, Zenon DEF Inserts, TimeOf
<1>4. idx \in Nat /\ (idx > 0 => idx \in 1..Len(names)) /\ Len(names) \in Nat
  <2>1. idx \in Nat /\ (idx # 0 => idx \in DOMAIN names)
    BY <1>1, ArrivalFound
  <2> HIDE DEF idx
  <2>2. QED
    BY <1>1, <2>1
<1>5. Len(v) \in Nat
  BY <1>2
<1>6. \/ a.table # "log" /\ row.time = NoTime /\ SentAs(shape, names, v)
      \/ a.table = "log" /\ row.time = NoTime /\ idx > 0 /\ SentAs(shape, names, v)
      \/ a.table = "log" /\ idx > 0 /\ SentAs(shape, names, InsertValue(v, idx, time))
      \/ a.table = "log" /\ ~(idx > 0) /\ SentAs(shape, <<ArrivalTime>> \o names, <<time>> \o v)
  BY Shapes, Zenon
<1>7. time \in A
  OBVIOUS
<1>8. row.time = NoTime \/ row.time # NoTime
  OBVIOUS
<1>9. CASE SentAs(shape, names, v) /\ row.time = NoTime /\ (a.table = "log" => idx > 0)
  <2>1. shape.names = names /\ shape.values = v
    BY <1>9, ShapeParts
  <2>2. Distinct(names) /\ Len(v) = Len(names)
    BY <2>1
  <2>3. ASSUME NEW c, ServerColumn(a.table, c) PROVE AsMeant(names, v, names, row, c)
    <3>1. ~IsArrival(c) \/ (c = ArrivalTime /\ idx # 0)
      BY <1>4, <1>9, <2>3 DEF ServerColumn
    <3>2. QED
      BY <1>1, <1>2, <1>9, <2>2, <3>1, GivenWhole
  <2>4. QED
    BY <1>1, <1>2, <2>1, <2>3
<1>10. CASE a.table = "log" /\ idx > 0 /\ SentAs(shape, names, InsertValue(v, idx, time))
  <2> DEFINE u == InsertValue(v, idx, time)
  <2>1. shape.names = names /\ shape.values = u
    BY <1>10, ShapeParts
  <2>2. Distinct(names) /\ Len(u) = Len(names)
    BY <2>1
  <2>3. idx \in 1..Len(v) + 1
    <3>1. ASSUME idx \notin 1..Len(v) + 1 PROVE FALSE
      <4>1. u = v
        BY <3>1, Zenon DEF InsertValue
      <4>2. Len(v) = Len(names)
        BY <2>2, <4>1
      <4>3. QED
        BY <1>4, <1>5, <1>10, <3>1, <4>2
    <3>2. QED
      BY <3>1
  <2>4. IsInserted(A, v, idx, time, u)
    <3> HIDE DEF idx, v, time
    <3>1. QED
      BY <1>2, <1>7, <2>3, Inserted
  <2>5. u \in Seq(A) /\ Len(u) = Len(v) + 1
    BY <2>4 DEF IsInserted
  <2>6. Len(v) = Len(names) - 1
    <3> HIDE DEF u, v, names
    <3>1. QED
      BY <1>4, <1>5, <2>2, <2>5
  <2>7. idx # 0
    BY <1>10
  <2>8. ASSUME NEW c, ServerColumn(a.table, c) PROVE AsMeant(names, u, names, row, c)
    <3>1. ~IsArrival(c) \/ c = ArrivalTime
      BY <1>10, <2>8 DEF ServerColumn
    <3>2. QED
      BY <1>1, <1>2, <1>3, <1>7, <2>2, <2>6, <2>7, <3>1, GivenWithout
  <2>9. QED
    BY <1>1, <2>1, <2>5, <2>8
<1>11. CASE a.table = "log" /\ ~(idx > 0) /\ SentAs(shape, <<ArrivalTime>> \o names, <<time>> \o v)
  <2> DEFINE s == <<ArrivalTime>> \o names
             u == <<time>> \o v
  <2>1. shape.names = s /\ shape.values = u
    BY <1>11, ShapeParts
  <2>2. Distinct(s) /\ Len(u) = Len(s)
    BY <2>1
  <2>3. IsPrepended(C, ArrivalTime, names, s)
    BY <1>1, Prepended
  <2>4. IsPrepended(A, time, v, u)
    BY <1>2, <1>7, Prepended
  <2>5. s \in Seq(C) /\ Len(s) = Len(names) + 1
    BY <2>3 DEF IsPrepended
  <2>6. u \in Seq(A) /\ Len(u) = Len(v) + 1
    BY <2>4 DEF IsPrepended
  <2>7. Len(v) = Len(names)
    <3> HIDE DEF u, v, names, s
    <3>1. QED
      BY <1>4, <1>5, <2>2, <2>5, <2>6
  <2>8. idx = 0
    <3> HIDE DEF idx
    <3>1. QED
      BY <1>4, <1>11
  <2>9. ASSUME NEW c, ServerColumn(a.table, c) PROVE AsMeant(s, u, names, row, c)
    <3>1. ~IsArrival(c) \/ c = ArrivalTime
      BY <1>11, <2>9 DEF ServerColumn
    <3>2. QED
      BY <1>1, <1>2, <1>3, <1>7, <2>2, <2>7, <2>8, <3>1, GivenAfter
  <2>10. QED
    BY <2>1, <2>5, <2>6, <2>9
<1>12. QED
  BY <1>6, <1>9, <1>10, <1>11

(* Cached bindings are those of the names they are kept under.               *)
CacheRight(cache, columns) ==
    cache # Refused => cache.bindings = BuildAppendBindings(columns, cache.names)

(* The cached bindings serve the names they are asked for.                   *)
LEMMA CacheServes ==
    ASSUME NEW cache, NEW columns, NEW names, CacheRight(cache, columns)
    PROVE  /\ CacheRight(CachedBindings(cache, columns, names), columns)
           /\ CachedBindings(cache, columns, names).bindings = BuildAppendBindings(columns, names)
<1> DEFINE b == BuildAppendBindings(columns, names)
           bound == CachedBindings(cache, columns, names)
           fresh == [names |-> names, bindings |-> b]
<1>1. bound = IF cache # Refused /\ cache.names = names THEN cache ELSE fresh
  BY Zenon DEF CachedBindings
<1>2. CASE cache # Refused /\ cache.names = names
  <2>1. bound = cache /\ cache.bindings = b
    BY <1>1, <1>2 DEF CacheRight
  <2>2. QED
    BY <2>1
<1>3. CASE ~(cache # Refused /\ cache.names = names)
  <2>1. bound = fresh
    BY <1>1, <1>3
  <2> HIDE DEF b
  <2>2. fresh.bindings = b /\ fresh.names = names
    OBVIOUS
  <2> HIDE DEF bound, fresh
  <2>3. bound.bindings = b /\ bound.names = names
    BY <2>1, <2>2
  <2>4. QED
    BY <2>3 DEF CacheRight, bound, b
<1>4. QED
  BY <1>2, <1>3

(* An accepted row is read by the server as its caller meant it.             *)
Right(a, row, read) ==
    read # Refused =>
        /\ Len(NamesFor(AppendColumnNames(a), row)) = Len(row.values)
        /\ \A i \in DOMAIN a.server : read[i] = Meant(AppendColumnNames(a), row, a.server[i])

(* The row pairs names and values, and its names bind.                       *)
Accepts(a, row, shape) ==
    /\ shape # Refused /\ CountFits(a, shape) /\ Len(shape.names) = Len(shape.values)
    /\ BuildAppendBindings(a.server, shape.names) # Refused

(* What becomes of a row.                                                    *)
LEMMA Outcome ==
    ASSUME NEW a, NEW cache, NEW row, CacheRight(cache, a.server),
           NEW shape, shape = Shaped(a, row.values, row.time)
    PROVE  /\ CacheRight(RowOutcome(a, cache, row).cache, a.server)
           /\ ~Accepts(a, row, shape) => RowOutcome(a, cache, row).read = Refused
           /\ Accepts(a, row, shape) =>
                RowOutcome(a, cache, row).read =
                    ServerReads(a.server, EncodeAppendRow(a.server,
                        BuildAppendBindings(a.server, shape.names), shape.values))
<1> DEFINE bound == CachedBindings(cache, a.server, shape.names)
           b == BuildAppendBindings(a.server, shape.names)
           sent == ServerReads(a.server, EncodeAppendRow(a.server, b, shape.values))
           out == RowOutcome(a, cache, row)
           refuse == [cache |-> cache, read |-> Refused]
           take == [cache |-> bound, read |-> sent]
           pairs == CountFits(a, shape) /\ Len(shape.names) = Len(shape.values)
<1>1. CacheRight(bound, a.server) /\ bound.bindings = b
  BY CacheServes
<1>2. out = IF shape = Refused THEN refuse
            ELSE IF ~CountFits(a, shape) \/ Len(shape.names) # Len(shape.values) THEN refuse
            ELSE IF b = Refused THEN refuse ELSE take
  <2>1. out = IF shape = Refused THEN refuse
              ELSE IF ~CountFits(a, shape) \/ Len(shape.names) # Len(shape.values) THEN refuse
              ELSE IF bound.bindings = Refused THEN refuse
              ELSE [cache |-> bound,
                    read |-> ServerReads(a.server, EncodeAppendRow(a.server, bound.bindings, shape.values))]
    BY Zenon DEF RowOutcome
  <2> HIDE DEF b, bound, refuse, out
  <2>2. QED
    BY <1>1, <2>1, Zenon
<1>3. Accepts(a, row, shape) <=> shape # Refused /\ pairs /\ b # Refused
  BY Zenon DEF Accepts
<1> HIDE DEF bound, b, sent, out, pairs
<1>4. refuse.cache = cache /\ refuse.read = Refused /\ take.cache = bound /\ take.read = sent
  BY DEF Refused
<1> HIDE DEF refuse, take
<1>5. CASE Accepts(a, row, shape)
  <2>1. out = take
    BY <1>2, <1>3, <1>5 DEF pairs
  <2>2. out.cache = bound /\ out.read = sent
    BY <1>4, <2>1
  <2>3. QED
    BY <1>1, <1>5, <2>2 DEF out, sent, b
<1>6. CASE ~Accepts(a, row, shape)
  <2>1. out = refuse
    BY <1>2, <1>3, <1>6 DEF pairs
  <2>2. out.cache = cache /\ out.read = Refused
    BY <1>4, <2>1
  <2>3. QED
    BY <1>6, <2>2 DEF out
<1>7. QED
  BY <1>5, <1>6

(* An appender leaves right bindings in the cache and accepts only rows it   *)
(* places right.                                                             *)
LEMMA OutcomeRight ==
    ASSUME NEW a, NEW C, ArrivalTime \in C, AppendColumnNames(a) \in Seq(C),
           OneArrival(AppendColumnNames(a)), a.server \in Seq(C),
           \A i \in DOMAIN a.server : ServerColumn(a.table, a.server[i]),
           NEW row, NEW A, row.values \in Seq(A), TimeOf(row) \in A, row.time # Nil,
           NEW cache, CacheRight(cache, a.server)
    PROVE  /\ CacheRight(RowOutcome(a, cache, row).cache, a.server)
           /\ Right(a, row, RowOutcome(a, cache, row).read)
<1> DEFINE names == AppendColumnNames(a)
           shape == Shaped(a, row.values, row.time)
           read == RowOutcome(a, cache, row).read
           b == BuildAppendBindings(a.server, shape.names)
<1>1. CacheRight(RowOutcome(a, cache, row).cache, a.server)
  BY Outcome
<1>2. ~Accepts(a, row, shape) => read = Refused
  BY Outcome
<1>3. Accepts(a, row, shape) => read = ServerReads(a.server, EncodeAppendRow(a.server, b, shape.values))
  BY Outcome
<1> HIDE DEF read
<1>4. ASSUME read # Refused
      PROVE  /\ Len(NamesFor(names, row)) = Len(row.values)
             /\ \A i \in DOMAIN a.server : read[i] = Meant(names, row, a.server[i])
  <2>1. shape # Refused /\ Len(shape.names) = Len(shape.values) /\ b # Refused
    BY <1>2, <1>4, Zenon DEF Accepts
  <2>2. read = ServerReads(a.server, EncodeAppendRow(a.server, b, shape.values))
    BY <1>2, <1>3, <1>4
  <2>3. Distinct(shape.names)
    BY <2>1, Bindings DEF Bindable
  <2>4. /\ shape.names \in Seq(C) /\ shape.values \in Seq(A)
        /\ \A c : ServerColumn(a.table, c) => AsMeant(shape.names, shape.values, names, row, c)
    <3> HIDE DEF shape
    <3>1. shape = Shaped(a, row.values, row.time)
      BY DEF shape
    <3>2. QED
      BY <2>1, <2>3, <3>1, ShapedAsMeant
  <2> HIDE DEF shape
  <2>5. Len(NamesFor(names, row)) = Len(row.values)
    <3> DEFINE nothing == <<>>
    <3>1. ~IsArrival(nothing)
      BY DEF IsArrival, ArrivalTime
    <3> HIDE DEF nothing
    <3>2. ServerColumn(a.table, nothing)
      BY <3>1 DEF ServerColumn
    <3>3. QED
      BY <2>4, <3>2 DEF AsMeant
  <2>6. ASSUME NEW i \in DOMAIN a.server PROVE read[i] = Meant(names, row, a.server[i])
    <3>1. read[i] = ReadFrom(shape.names, shape.values, a.server[i])
      <4>1. ServerReads(a.server, EncodeAppendRow(a.server, b, shape.values))[i] =
              ReadFrom(shape.names, shape.values, a.server[i])
        BY <2>1, <2>4, RowDelivered
      <4>2. QED
        BY <2>2, <4>1
    <3>2. AsMeant(shape.names, shape.values, names, row, a.server[i])
      BY <2>4
    <3>3. QED
      BY <3>1, <3>2 DEF AsMeant
  <2>7. QED
    BY <2>5, <2>6
<1>5. Right(a, row, read)
  BY <1>4, Zenon DEF Right
<1>6. QED
  BY <1>1, <1>5 DEF read

(* Names that fit a table: the arrival time at most once, and only for a log *)
(* table.                                                                    *)
NamesFit(C, table, names) ==
    /\ names \in Seq(C) /\ OneArrival(names)
    /\ table # "log" => NoArrival(names)

(* What is left of names that fit the table (appenderProjectionColumns).     *)
LEMMA Projected ==
    ASSUME NEW C, NEW table, NEW names, NamesFit(C, table, names)
    PROVE  /\ ProjectionColumns(table, names) \in Seq(C)
           /\ NoArrival(ProjectionColumns(table, names))
           /\ Distinct(ProjectionColumns(table, names)) <=> Distinct(names)
           /\ \A j \in DOMAIN names : ~IsArrival(names[j]) =>
                \E k \in DOMAIN ProjectionColumns(table, names) :
                    ProjectionColumns(table, names)[k] = names[j]
           /\ names = <<>> => ProjectionColumns(table, names) = <<>>
<1> DEFINE P == ProjectionColumns(table, names)
           W == WithoutArrival(names)
<1>1. names \in Seq(C) /\ OneArrival(names) /\ (table # "log" => NoArrival(names))
  BY DEF NamesFit
<1>2. CASE table = "log"
  <2>1. P = W
    BY <1>2, Zenon DEF ProjectionColumns
  <2>2. W \in Seq(C) /\ NoArrival(W) /\ (Distinct(W) <=> Distinct(names))
    BY <1>1, LeftOutOf, DistinctLeft
  <2>3. \A j \in DOMAIN names : ~IsArrival(names[j]) => \E k \in DOMAIN W : W[k] = names[j]
    BY <1>1, Corresponds
  <2>4. names = <<>> => W = <<>>
    <3>1. ASSUME names = <<>> PROVE ArrivalIndex(names) = 0
      <4>1. DOMAIN names = {}
        BY <3>1
      <4>2. QED
        BY <1>1, <4>1, ArrivalFound
    <3>2. QED
      BY <1>1, <3>1, LeftOutOf
  <2> HIDE DEF P, W
  <2>5. QED
    BY <2>1, <2>2, <2>3, <2>4 DEF P
<1>3. CASE table # "log"
  <2>1. P = names
    BY <1>3, Zenon DEF ProjectionColumns
  <2>2. NoArrival(names)
    BY <1>1, <1>3
  <2> HIDE DEF P
  <2>3. QED
    BY <1>1, <2>1, <2>2 DEF P
<1>4. QED
  BY <1>2, <1>3

(* The columns the server expects, and that they are the table's kind.       *)
LEMMA Serves ==
    ASSUME NEW C, ArrivalTime \in C, NEW table, NEW columns, NEW projection,
           NamesFit(C, table, columns), projection \in Seq(C), NoArrival(projection)
    PROVE  LET chosen == IF projection = <<>> THEN ProjectionColumns(table, columns) ELSE projection
               server == ServerColumns(table, columns, projection)
           IN  /\ server \in Seq(C)
               /\ \A i \in DOMAIN server : ServerColumn(table, server[i])
               /\ ToSet(chosen) \subseteq ToSet(server)
               /\ table = "log" => server # <<>>
               /\ table # "log" => server = chosen
<1> DEFINE chosen == IF projection = <<>> THEN ProjectionColumns(table, columns) ELSE projection
           server == ServerColumns(table, columns, projection)
<1>1. chosen \in Seq(C) /\ NoArrival(chosen)
  BY Projected
<1>2. server = (IF table = "log" THEN <<ArrivalTime>> ELSE <<>>) \o chosen
  BY Zenon DEF ServerColumns
<1> HIDE DEF chosen, server
<1>3. CASE table = "log"
  <2>1. server = <<ArrivalTime>> \o chosen
    BY <1>2, <1>3
  <2>2. IsPrepended(C, ArrivalTime, chosen, server)
    BY <1>1, <2>1, Prepended
  <2>3. /\ server \in Seq(C) /\ Len(server) = Len(chosen) + 1 /\ server[1] = ArrivalTime
        /\ \A k \in 1..Len(chosen) : server[k + 1] = chosen[k]
    BY <2>2 DEF IsPrepended
  <2> DEFINE m == Len(chosen)
  <2>4. m \in Nat /\ DOMAIN chosen = 1..m
    BY <1>1
  <2>5. server \in Seq(C) /\ Len(server) = m + 1
    BY <2>3
  <2> HIDE DEF m
  <2>6. DOMAIN server = 1..m + 1
    BY <2>5
  <2>7. \A k \in 1..m : k + 1 \in DOMAIN server /\ server[k + 1] = chosen[k]
    BY <2>3, <2>4, <2>6 DEF m
  <2>8. ASSUME NEW i \in DOMAIN server PROVE ServerColumn(table, server[i])
    <3>1. CASE i = 1
      BY <1>3, <2>3, <3>1 DEF ServerColumn
    <3>2. CASE i # 1
      <4>1. i - 1 \in 1..m /\ (i - 1) + 1 = i
        BY <2>4, <2>6, <3>2
      <4>2. server[i] = chosen[i - 1]
        BY <2>7, <4>1
      <4>3. ~IsArrival(server[i])
        BY <1>1, <2>4, <4>1, <4>2 DEF NoArrival
      <4>4. QED
        BY <1>3, <4>3 DEF ServerColumn
    <3>3. QED
      BY <3>1, <3>2
  <2>9. ToSet(chosen) \subseteq ToSet(server)
    BY <2>4, <2>7 DEF ToSet
  <2>10. server # <<>>
    BY <2>4, <2>5
  <2>11. QED
    BY <1>3, <2>3, <2>8, <2>9, <2>10 DEF server, chosen
<1>4. CASE table # "log"
  <2>1. server = <<>> \o chosen
    BY <1>2, <1>4
  <2>2. server = chosen
    BY <1>1, <2>1
  <2>3. \A i \in DOMAIN server : ServerColumn(table, server[i])
    BY <1>1, <1>4, <2>2 DEF ServerColumn, NoArrival
  <2>4. QED
    BY <1>1, <1>4, <2>2, <2>3 DEF server, chosen
<1>5. QED
  BY <1>3, <1>4

(* What an open appender keeps.                                              *)
Opened(a, table, columns, asked) ==
    /\ a.table = table /\ a.columns = columns /\ a.input = asked
    /\ a.inputAtOpen = (asked # <<>>)
    /\ a.server = ServerColumns(table, columns, ProjectionColumns(table, asked))
    /\ ProjectionColumns(table, asked) # <<>> => Distinct(ProjectionColumns(table, asked))

(* What Connect leaves in the appender.                                      *)
LEMMA Opening ==
    ASSUME NEW table, NEW columns, NEW asked, OpenAppender(table, columns, asked) # Refused
    PROVE  Opened(OpenAppender(table, columns, asked), table, columns, asked)
<1> DEFINE P == ProjectionColumns(table, asked)
           server == ServerColumns(table, columns, P)
           atOpen == asked # <<>>
           opened == [table |-> table, columns |-> columns, input |-> asked,
                      inputAtOpen |-> atOpen, server |-> server]
           a == OpenAppender(table, columns, asked)
<1>1. a = IF P # <<>> /\ ~EncodeAppendTargets(P) THEN Refused ELSE opened
  BY Zenon DEF OpenAppender
<1>2. P # <<>> => EncodeAppendTargets(P)
  <2> HIDE DEF P, opened
  <2>1. QED
    BY <1>1
<1>3. P # <<>> => Distinct(P)
  BY <1>2, Zenon DEF EncodeAppendTargets
<1>4. a = opened
  <2> HIDE DEF P, opened
  <2>1. QED
    BY <1>1, <1>2
<1> HIDE DEF a, P, server, atOpen
<1>5. /\ opened.table = table /\ opened.columns = columns /\ opened.input = asked
      /\ opened.inputAtOpen = atOpen /\ opened.server = server
  OBVIOUS
<1> HIDE DEF opened
<1>6. /\ a.table = table /\ a.columns = columns /\ a.input = asked
      /\ a.inputAtOpen = atOpen /\ a.server = server
  BY <1>4, <1>5
<1>7. Opened(a, table, columns, asked)
  BY <1>3, <1>6, Zenon DEF Opened, atOpen, server, P
<1>8. QED
  BY <1>7 DEF a

(* WithInputColumns after Connect changes the names and nothing else.        *)
LEMMA Renamed ==
    ASSUME NEW table, NEW columns, NEW asked, OpenAppender(table, columns, asked) # Refused, NEW names
    PROVE  LET a == OpenAppender(table, columns, asked)
               late == WithInputColumns(a, names)
           IN  late.table = a.table /\ late.server = a.server /\ late.input = names
<1> DEFINE P == ProjectionColumns(table, asked)
           server == ServerColumns(table, columns, P)
           atOpen == asked # <<>>
           opened == [table |-> table, columns |-> columns, input |-> asked,
                      inputAtOpen |-> atOpen, server |-> server]
           a == OpenAppender(table, columns, asked)
           late == WithInputColumns(a, names)
<1>1. a = IF P # <<>> /\ ~EncodeAppendTargets(P) THEN Refused ELSE opened
  BY Zenon DEF OpenAppender
<1>2. a = opened
  <2> HIDE DEF P, opened
  <2>1. QED
    BY <1>1
<1>3. late = [a EXCEPT !.input = names]
  BY Zenon DEF WithInputColumns
<1> HIDE DEF a, P, server, atOpen, late
<1>4. late.table = a.table /\ late.server = a.server /\ late.input = names
  BY <1>2, <1>3
<1>5. QED
  BY <1>4 DEF late, a

(* What a session may be given: distinct columns, with the arrival time      *)
(* first in a log table, names that fit the table, rows of any values, whose *)
(* times are not nil.                                                        *)
GoodRow(A, row) == row.values \in Seq(A) /\ TimeOf(row) \in A /\ row.time # Nil

AppendSession(C, A, session) ==
    /\ ArrivalTime \in C
    /\ session.columns # <<>> /\ Distinct(session.columns)
    /\ NamesFit(C, session.table, session.columns) /\ NamesFit(C, session.table, session.input)
    /\ session.table = "log" => session.columns[1] = ArrivalTime
    /\ session.late \in Seq(C) /\ OneArrival(session.late)
    /\ GoodRow(A, session.rows[1]) /\ GoodRow(A, session.rows[2])

(* The server's columns and the names of an open appender fit its table.     *)
LEMMA OpenedServer ==
    ASSUME NEW C, NEW A, NEW session, AppendSession(C, A, session), NEW a,
           Opened(a, session.table, session.columns, session.input)
    PROVE  /\ a.server \in Seq(C)
           /\ \A i \in DOMAIN a.server : ServerColumn(a.table, a.server[i])
           /\ AppendColumnNames(a) \in Seq(C) /\ OneArrival(AppendColumnNames(a))
<1> DEFINE P == ProjectionColumns(session.table, session.input)
           server == ServerColumns(session.table, session.columns, P)
<1>1. ArrivalTime \in C /\ NamesFit(C, session.table, session.columns)
      /\ NamesFit(C, session.table, session.input)
  BY DEF AppendSession
<1>2. P \in Seq(C) /\ NoArrival(P)
  BY <1>1, Projected
<1> HIDE DEF P
<1>3. server \in Seq(C) /\ \A i \in DOMAIN server : ServerColumn(session.table, server[i])
  BY <1>1, <1>2, Serves
<1>4. a.server = server /\ a.table = session.table /\ a.input = session.input /\ a.columns = session.columns
  BY DEF Opened, P
<1>5. AppendColumnNames(a) = IF session.input = <<>> THEN session.columns ELSE session.input
  BY <1>4, Zenon DEF AppendColumnNames
<1>6. QED
  BY <1>1, <1>3, <1>4, <1>5 DEF NamesFit

(* The shape of a row without a time, in an appender opened with the columns *)
(* it now has.                                                               *)
LEMMA FirstShape ==
    ASSUME NEW a, NEW v, a.inputAtOpen = (a.input # <<>>)
    PROVE  LET names == AppendColumnNames(a)
               shape == Shaped(a, v, NoTime)
           IN  /\ a.table # "log" => SentAs(shape, names, v)
               /\ a.table = "log" /\ ArrivalIndex(names) > 0 /\ Len(v) # Len(names) - 1 =>
                    SentAs(shape, names, v)
               /\ a.table = "log" /\ ~(ArrivalIndex(names) > 0) =>
                    SentAs(shape, <<ArrivalTime>> \o names, <<ZeroTime>> \o v)
<1> DEFINE names == AppendColumnNames(a)
           idx == ArrivalIndex(names)
           log == a.table = "log"
           req == RequiresExplicitArrival(a)
           insertedZero == Shape(names, InsertValue(v, idx, ZeroTime))
           whole == Shape(names, v)
           after == Shape(<<ArrivalTime>> \o names, <<ZeroTime>> \o v)
           pos == idx > 0
           short == Len(v) = Len(names) - 1
           shape == Shaped(a, v, NoTime)
<1>1. ~req
  BY Zenon DEF RequiresExplicitArrival
<1>2. ~pos => WithArrival(names, v, ZeroTime) = after
  BY Zenon DEF WithArrival
<1>3. shape = CASE ~log -> whole
                [] log /\ req -> Refused
                [] log /\ ~req /\ pos -> IF short THEN insertedZero ELSE whole
                [] OTHER -> WithArrival(names, v, ZeroTime)
  BY Zenon DEF Shaped
<1> HIDE DEF log, req, pos, short, insertedZero, whole, after, shape
<1>4. /\ ~log => shape = whole
      /\ log /\ pos /\ ~short => shape = whole
      /\ log /\ ~pos => shape = after
  <2>1. CASE ~log
    BY <1>3, <2>1
  <2>2. CASE log /\ pos
    BY <1>1, <1>3, <2>2
  <2>3. CASE log /\ ~pos
    <3>1. shape = WithArrival(names, v, ZeroTime)
      BY <1>1, <1>3, <2>3
    <3>2. QED
      BY <1>2, <2>3, <3>1
  <2>4. QED
    BY <2>1, <2>2, <2>3
<1>5. QED
  BY <1>4, Zenon DEF log, pos, short, whole, after, shape, SentAs

(* A shape is no refusal.                                                    *)
LEMMA ShapeAccepted ==
    ASSUME NEW names, NEW values, NEW shape, SentAs(shape, names, values)
    PROVE  shape # Refused
  BY DEF SentAs, Shape, Refused

(* The names given at Connect bind to what the server then expects.          *)
LEMMA NamesBind ==
    ASSUME NEW C, NEW A, NEW session, AppendSession(C, A, session), NEW a,
           Opened(a, session.table, session.columns, session.input)
    PROVE  /\ Bindable(a.server, AppendColumnNames(a))
           /\ a.server # <<>>
<1> DEFINE table == session.table
           columns == session.columns
           asked == session.input
           P == ProjectionColumns(table, asked)
           Q == ProjectionColumns(table, columns)
           chosen == IF P = <<>> THEN Q ELSE P
           names == AppendColumnNames(a)
           R == ProjectionColumns(table, names)
           server == ServerColumns(table, columns, P)
<1>1. /\ ArrivalTime \in C /\ NamesFit(C, table, columns) /\ NamesFit(C, table, asked)
      /\ columns # <<>> /\ Distinct(columns)
  BY DEF AppendSession
<1>2. /\ a.server = server /\ a.table = table /\ a.input = asked /\ a.columns = columns
      /\ P # <<>> => Distinct(P)
  BY DEF Opened
<1>3. names = IF asked = <<>> THEN columns ELSE asked
  BY <1>2, Zenon DEF AppendColumnNames
<1>4. NamesFit(C, table, names) /\ names # <<>>
  BY <1>1, <1>3
<1>5. P \in Seq(C) /\ NoArrival(P) /\ (Distinct(P) <=> Distinct(asked)) /\ (asked = <<>> => P = <<>>)
  BY <1>1, Projected
<1>6. Distinct(names)
  <2>1. CASE asked = <<>>
    BY <1>1, <1>3, <2>1
  <2>2. CASE asked # <<>>
    <3>1. P = <<>> => Distinct(P)
      BY DEF Distinct
    <3>2. QED
      BY <1>2, <1>3, <1>5, <2>2, <3>1
  <2>3. QED
    BY <2>1, <2>2
<1>7. ToSet(chosen) \subseteq ToSet(server) /\ (table = "log" => server # <<>>) /\ (table # "log" => server = chosen)
  <2> HIDE DEF P, table, columns
  <2>1. QED
    BY <1>1, <1>5, Serves
<1>8. R # <<>> => chosen = R
  <2>1. CASE asked = <<>>
    BY <1>3, <1>5, <2>1
  <2>2. CASE asked # <<>>
    BY <1>3, <2>2
  <2>3. QED
    BY <2>1, <2>2
<1>9. \A j \in DOMAIN names : ~IsArrival(names[j]) => \E k \in DOMAIN R : R[k] = names[j]
  BY <1>4, Projected
<1>10. R \in Seq(C)
  BY <1>4, Projected
<1> HIDE DEF chosen, server, P, Q, R, names
<1>11. ASSUME NEW t \in ToSet(names) PROVE IsArrival(t) \/ t \in ToSet(server)
  <2>1. PICK j \in DOMAIN names : names[j] = t
    BY <1>11 DEF ToSet
  <2>2. CASE ~IsArrival(t)
    <3>1. PICK k \in DOMAIN R : R[k] = t
      BY <1>9, <2>1, <2>2
    <3>2. R # <<>>
      BY <1>10, <3>1
    <3>3. t \in ToSet(R)
      BY <3>1 DEF ToSet
    <3>4. QED
      BY <1>7, <1>8, <3>2, <3>3
  <2>3. QED
    BY <2>2
<1>12. server # <<>>
  <2>1. CASE table = "log"
    BY <1>7, <2>1
  <2>2. CASE table # "log"
    <3>1. R = names
      BY <2>2, Zenon DEF ProjectionColumns, R
    <3>2. QED
      BY <1>4, <1>7, <1>8, <2>2, <3>1
  <2>3. QED
    BY <2>1, <2>2
<1>13. QED
  BY <1>2, <1>6, <1>11, <1>12 DEF Bindable, names

(* So do they after the arrival time that none of them names.                *)
LEMMA NamesBindAfter ==
    ASSUME NEW C, ArrivalTime \in C, NEW names \in Seq(C), NoArrival(names), NEW columns,
           Bindable(columns, names)
    PROVE  Bindable(columns, <<ArrivalTime>> \o names)
<1> DEFINE n == Len(names)
           u == <<ArrivalTime>> \o names
<1>1. IsPrepended(C, ArrivalTime, names, u)
  BY Prepended
<1>2. n \in Nat /\ DOMAIN names = 1..n
  OBVIOUS
<1> HIDE DEF u
<1>3. /\ u \in Seq(C) /\ Len(u) = n + 1 /\ u[1] = ArrivalTime
      /\ \A k \in 1..n : u[k + 1] = names[k]
  BY <1>1 DEF IsPrepended
<1> HIDE DEF n
<1>4. DOMAIN u = 1..n + 1
  BY <1>3
<1>5. ASSUME NEW j \in DOMAIN u, j # 1
      PROVE  j - 1 \in DOMAIN names /\ u[j] = names[j - 1] /\ ~IsArrival(u[j])
  <2>1. j - 1 \in 1..n /\ (j - 1) + 1 = j
    BY <1>2, <1>4, <1>5
  <2>2. u[j] = names[j - 1]
    BY <1>3, <2>1
  <2>3. QED
    BY <1>2, <2>1, <2>2 DEF NoArrival
<1>6. Distinct(u)
  <2> SUFFICES ASSUME NEW i \in DOMAIN u, NEW j \in DOMAIN u, u[i] = u[j] PROVE i = j
    BY DEF Distinct
  <2>1. CASE i = 1 \/ j = 1
    BY <1>3, <1>5, <2>1, ArrivalTimeArrives
  <2>2. CASE i # 1 /\ j # 1
    <3>1. i - 1 \in DOMAIN names /\ j - 1 \in DOMAIN names /\ names[i - 1] = names[j - 1]
      BY <1>5, <2>2
    <3>2. i - 1 = j - 1
      BY <3>1 DEF Bindable, Distinct
    <3>3. QED
      BY <1>2, <1>4, <3>2
  <2>3. QED
    BY <2>1, <2>2
<1>7. ASSUME NEW t \in ToSet(u) PROVE IsArrival(t) \/ t \in ToSet(columns)
  <2>1. PICK j \in DOMAIN u : u[j] = t
    BY <1>7 DEF ToSet
  <2>2. CASE j = 1
    BY <1>3, <2>1, <2>2, ArrivalTimeArrives
  <2>3. CASE j # 1
    <3>1. t \in ToSet(names)
      BY <1>5, <2>1, <2>3 DEF ToSet
    <3>2. QED
      BY <3>1 DEF Bindable
  <2>4. QED
    BY <2>2, <2>3
<1>8. Bindable(columns, u)
  BY <1>6, <1>7 DEF Bindable
<1>9. QED
  BY <1>8 DEF u

(* A row with a value for each name at Connect is accepted.                  *)
LEMMA FirstAccepted ==
    ASSUME NEW C, NEW A, NEW session, AppendSession(C, A, session), NEW a,
           Opened(a, session.table, session.columns, session.input),
           NEW row, GoodRow(A, row), row.time = NoTime, Len(row.values) = Len(AppendColumnNames(a))
    PROVE  Accepts(a, row, Shaped(a, row.values, row.time))
<1> DEFINE names == AppendColumnNames(a)
           idx == ArrivalIndex(names)
           v == row.values
           shape == Shaped(a, v, row.time)
<1>1. /\ a.table = session.table /\ a.columns = session.columns /\ a.input = session.input
      /\ a.inputAtOpen = (a.input # <<>>)
  BY DEF Opened
<1>2. ArrivalTime \in C /\ names \in Seq(C) /\ OneArrival(names)
  BY OpenedServer DEF AppendSession
<1>3. v \in Seq(A) /\ TimeOf(row) = ZeroTime /\ ZeroTime \in A
  BY DEF GoodRow, TimeOf
<1>4. Bindable(a.server, names)
  BY NamesBind
<1>5. names = IF a.input = <<>> THEN a.columns ELSE a.input
  BY Zenon DEF AppendColumnNames
<1>6. Len(names) \in Nat
  BY <1>2
<1>7. Len(v) = Len(names)
  OBVIOUS
<1>8. Len(v) # Len(names) - 1
  BY <1>6, <1>7
<1>9. \/ SentAs(shape, names, v)
      \/ a.table = "log" /\ ~(idx > 0) /\ SentAs(shape, <<ArrivalTime>> \o names, <<ZeroTime>> \o v)
  <2>1. /\ a.table # "log" => SentAs(shape, names, v)
        /\ a.table = "log" /\ idx > 0 /\ Len(v) # Len(names) - 1 => SentAs(shape, names, v)
        /\ a.table = "log" /\ ~(idx > 0) => SentAs(shape, <<ArrivalTime>> \o names, <<ZeroTime>> \o v)
    BY <1>1, FirstShape
  <2>2. QED
    BY <1>8, <2>1
<1> HIDE DEF shape
<1>10. CASE SentAs(shape, names, v)
  <2>1. shape.names = names /\ shape.values = v /\ shape # Refused
    BY <1>10, ShapeParts, ShapeAccepted
  <2>2. CountFits(a, shape)
    BY <1>5, <1>7, <2>1 DEF CountFits
  <2>3. BuildAppendBindings(a.server, shape.names) # Refused
    BY <1>4, <2>1, Bindings
  <2>4. QED
    BY <1>7, <2>1, <2>2, <2>3 DEF Accepts, shape
<1>11. CASE a.table = "log" /\ ~(idx > 0) /\ SentAs(shape, <<ArrivalTime>> \o names, <<ZeroTime>> \o v)
  <2> DEFINE s == <<ArrivalTime>> \o names
             u == <<ZeroTime>> \o v
  <2>1. shape.names = s /\ shape.values = u /\ shape # Refused
    BY <1>11, ShapeParts, ShapeAccepted
  <2>2. IsPrepended(C, ArrivalTime, names, s)
    BY <1>2, Prepended
  <2>3. IsPrepended(A, ZeroTime, v, u)
    BY <1>3, Prepended
  <2>4. NoArrival(names)
    <3>1. idx \in Nat /\ (idx = 0 => NoArrival(names))
      BY <1>2, ArrivalFound
    <3> HIDE DEF idx
    <3>2. QED
      BY <1>11, <3>1
  <2>5. Bindable(a.server, s)
    BY <1>2, <1>4, <2>4, NamesBindAfter
  <2> HIDE DEF s, u
  <2>6. Len(s) = Len(names) + 1 /\ Len(u) = Len(v) + 1
    BY <2>2, <2>3 DEF IsPrepended
  <2>7. Len(s) = Len(u)
    BY <1>7, <2>6
  <2>8. a.input # <<>>
    <3>1. ASSUME a.input = <<>> PROVE FALSE
      <4>1. names = session.columns /\ a.table = session.table
        BY <1>1, <1>5, <3>1
      <4>2. names[1] = ArrivalTime /\ names # <<>>
        BY <1>11, <4>1 DEF AppendSession
      <4>3. 1 \in DOMAIN names
        BY <1>2, <4>2
      <4>4. QED
        BY <2>4, <4>2, <4>3, ArrivalTimeArrives DEF NoArrival
    <3>2. QED
      BY <3>1
  <2>9. CountFits(a, shape)
    BY <2>1, <2>7, <2>8 DEF CountFits
  <2>10. BuildAppendBindings(a.server, shape.names) # Refused
    BY <2>1, <2>5, Bindings
  <2>11. QED
    BY <2>1, <2>7, <2>9, <2>10 DEF Accepts, shape
<1>12. QED
  BY <1>9, <1>10, <1>11

(* What the server reads is no refusal.                                      *)
LEMMA ReadsSomething ==
    ASSUME NEW C, NEW columns \in Seq(C), columns # <<>>, NEW row
    PROVE  ServerReads(columns, row) # Refused
<1>1. 1 \in DOMAIN columns
  OBVIOUS
<1>2. DOMAIN ServerReads(columns, row) = DOMAIN columns
  BY Zenon DEF ServerReads
<1>3. 1 \notin DOMAIN Refused
  BY DEF Refused
<1>4. QED
  BY <1>1, <1>2, <1>3

(* Every value of an accepted row reaches the column that its caller named,  *)
(* for any table, columns and rows of a session: names given at Connect or   *)
(* changed later, in any order, with or without the arrival time of a log    *)
(* table; a row for the names at Connect is accepted (Append, AppendLogTime, *)
(* WithInputColumns, AppendData, buildAppendBindings, encodeAppendRow).      *)
THEOREM SessionAsNamed ==
    ASSUME NEW C, NEW A, NEW session, AppendSession(C, A, session)
    PROVE  RowsAsNamed(session)
<1> DEFINE a == OpenAppender(session.table, session.columns, session.input)
           late == IF session.late = <<>> THEN a ELSE WithInputColumns(a, session.late)
           row1 == session.rows[1]
           row2 == session.rows[2]
           first == RowOutcome(a, Refused, row1)
           second == RowOutcome(late, first.cache, row2)
<1>1. ASSUME a # Refused
      PROVE  /\ Right(a, row1, first.read)
             /\ Right(late, row2, second.read)
             /\ Len(row1.values) = Len(AppendColumnNames(a)) /\ row1.time = NoTime => first.read # Refused
  <2>1. Opened(a, session.table, session.columns, session.input)
    BY <1>1, Opening
  <2>2. late = a \/ (late.table = a.table /\ late.server = a.server /\ late.input = session.late /\ session.late # <<>>)
    <3>1. CASE session.late = <<>>
      BY <3>1
    <3>2. CASE session.late # <<>>
      <4>1. late = WithInputColumns(a, session.late)
        BY <3>2
      <4>2. QED
        BY <1>1, <3>2, <4>1, Renamed
    <3>3. QED
      BY <3>1, <3>2
  <2> HIDE DEF a, late
  <2>3. /\ a.server \in Seq(C)
        /\ \A i \in DOMAIN a.server : ServerColumn(a.table, a.server[i])
        /\ AppendColumnNames(a) \in Seq(C) /\ OneArrival(AppendColumnNames(a))
    BY <2>1, OpenedServer
  <2>4. ArrivalTime \in C /\ GoodRow(A, row1) /\ GoodRow(A, row2)
        /\ session.late \in Seq(C) /\ OneArrival(session.late)
    BY DEF AppendSession
  <2> HIDE DEF row1, row2
  <2>5. row1.values \in Seq(A) /\ TimeOf(row1) \in A /\ row1.time # Nil
    BY <2>4 DEF GoodRow
  <2>6. row2.values \in Seq(A) /\ TimeOf(row2) \in A /\ row2.time # Nil
    BY <2>4 DEF GoodRow
  <2>7. CacheRight(Refused, a.server)
    BY DEF CacheRight
  <2>8. CacheRight(first.cache, a.server) /\ Right(a, row1, first.read)
    BY <2>3, <2>4, <2>5, <2>7, OutcomeRight
  <2>9. ASSUME Len(row1.values) = Len(AppendColumnNames(a)), row1.time = NoTime
        PROVE  first.read # Refused
    <3>1. Accepts(a, row1, Shaped(a, row1.values, row1.time))
      BY <2>1, <2>4, <2>9, FirstAccepted
    <3> DEFINE shape == Shaped(a, row1.values, row1.time)
               sent == EncodeAppendRow(a.server, BuildAppendBindings(a.server, shape.names), shape.values)
    <3>2. first.read = ServerReads(a.server, sent)
      BY <2>7, <3>1, Outcome
    <3>3. a.server # <<>>
      BY <2>1, NamesBind
    <3> HIDE DEF sent
    <3>4. QED
      BY <2>3, <3>2, <3>3, ReadsSomething
  <2> HIDE DEF first
  <2>10. AppendColumnNames(late) \in Seq(C) /\ OneArrival(AppendColumnNames(late))
    <3>1. CASE late = a
      BY <2>3, <3>1
    <3>2. CASE late.input = session.late /\ session.late # <<>>
      <4>1. AppendColumnNames(late) = session.late
        BY <3>2, Zenon DEF AppendColumnNames
      <4>2. QED
        BY <2>4, <4>1
    <3>3. QED
      BY <2>2, <3>1, <3>2
  <2>11. late.server = a.server /\ late.table = a.table
    BY <2>2
  <2>12. late.server \in Seq(C) /\ \A i \in DOMAIN late.server : ServerColumn(late.table, late.server[i])
    BY <2>3, <2>11
  <2>13. CacheRight(first.cache, late.server)
    BY <2>8, <2>11
  <2>14. Right(late, row2, second.read)
    BY <2>4, <2>6, <2>10, <2>12, <2>13, OutcomeRight
  <2>15. QED
    BY <2>8, <2>9, <2>14
<1>2. QED
  BY <1>1, Zenon DEF RowsAsNamed, Right

-----------------------------------------------------------------------------
(* Data source names (Dsn).                                                  *)

DsnScans(C) == [parts : Seq(Seq(C)), current : Seq(C), quote : Quotes \cup {NoQuote}, escaped : BOOLEAN]

(* A scan that is not, or is, behind a backslash.                            *)
Plain(parts, current, quote) ==
    [parts |-> parts, current |-> current, quote |-> quote, escaped |-> FALSE]
Escaped(parts, current, quote) ==
    [parts |-> parts, current |-> current, quote |-> quote, escaped |-> TRUE]

(* A character leaves a scan.                                                *)
LEMMA ScanCharTyped ==
    ASSUME NEW C, NEW s \in DsnScans(C), NEW c \in C
    PROVE  ScanChar(s, c) \in DsnScans(C)
<1>1. /\ s.parts \in Seq(Seq(C)) /\ s.current \in Seq(C) /\ s.quote \in Quotes \cup {NoQuote}
      /\ s.escaped \in BOOLEAN
  BY DEF DsnScans
<1> DEFINE keep == [s EXCEPT !.current = Append(@, c)]
           none == <<>>
<1>2. Append(s.current, c) \in Seq(C) /\ Append(s.parts, s.current) \in Seq(Seq(C)) /\ none \in Seq(C)
  BY <1>1
<1>3. keep \in DsnScans(C)
  BY <1>2 DEF DsnScans
<1>4. [keep EXCEPT !.escaped = FALSE] \in DsnScans(C)
  <2> HIDE DEF keep
  <2>1. QED
    BY <1>3 DEF DsnScans
<1>5. [keep EXCEPT !.escaped = s.quote # NoQuote] \in DsnScans(C)
  <2> HIDE DEF keep
  <2> DEFINE b == s.quote # NoQuote
  <2>1. b \in BOOLEAN
    OBVIOUS
  <2> HIDE DEF b
  <2>2. [keep EXCEPT !.escaped = b] \in DsnScans(C)
    BY <1>3, <2>1 DEF DsnScans
  <2>3. QED
    BY <2>2 DEF b
<1> DEFINE q == CASE s.quote = NoQuote -> c [] s.quote = c -> NoQuote [] OTHER -> s.quote
<1>6. ASSUME c \in Quotes PROVE [keep EXCEPT !.quote = q] \in DsnScans(C)
  <2>1. q \in Quotes \cup {NoQuote}
    BY <1>1, <1>6
  <2> HIDE DEF keep, q
  <2>2. QED
    BY <1>3, <2>1 DEF DsnScans
<1>7. [s EXCEPT !.parts = Append(@, s.current), !.current = <<>>] \in DsnScans(C)
  BY <1>2 DEF DsnScans
<1>8. \/ ScanChar(s, c) \in {keep, [keep EXCEPT !.escaped = FALSE], [keep EXCEPT !.escaped = s.quote # NoQuote],
                              [s EXCEPT !.parts = Append(@, s.current), !.current = <<>>]}
      \/ c \in Quotes /\ ScanChar(s, c) = [keep EXCEPT !.quote = q]
  BY DEF ScanChar
<1> HIDE DEF keep, q
<1>9. QED
  BY <1>3, <1>4, <1>5, <1>6, <1>7, <1>8

(* The loop of splitDSNSegments as a machine.                                *)
ScanMachine(C) == [s \in DsnScans(C) |-> [c \in C |-> ScanChar(s, c)]]

(* The loop of splitDSNSegments is a run of its machine.                     *)
LEMMA ScanLooped ==
    ASSUME NEW C, NEW word \in Seq(C), NEW base \in DsnScans(C)
    PROVE  Run(ScanMachine(C), base, word, FoldLeft(ScanChar, base, word))
<1> DEFINE n == Len(word)
           V == DsnScans(C)
           F == [i \in 1..n |-> [v \in V |-> ScanChar(v, word[i])]]
           E(g) == g = [s \in SUBSET (1..n) |->
                          IF s = {} THEN base ELSE ScanChar(g[s \ {Max(s)}], word[Max(s)])]
           e == CHOOSE g : E(g)
<1>1. n \in Nat /\ DOMAIN word = 1..n /\ \A i \in 1..n : word[i] \in C
  OBVIOUS
<1>2. base \in V
  OBVIOUS
<1>3. F \in [1..n -> [V -> V]] /\ \A i \in 1..n : \A v \in V : F[i][v] = ScanChar(v, word[i])
  <2>1. \A i \in 1..n : \A v \in V : F[i][v] = ScanChar(v, word[i])
    OBVIOUS
  <2>2. \A i \in 1..n : \A v \in V : ScanChar(v, word[i]) \in V
    BY <1>1, ScanCharTyped
  <2>3. QED
    BY <2>1, <2>2
<1>4. FoldLeft(ScanChar, base, word) = e[1..n]
  BY <1>1 DEF FoldLeft, MapThenFoldSet
<1> HIDE DEF n, V, F
<1>5. \E g : E(g)
  <2>1. OverSets(n, V, base, F)
    BY <1>1, <1>2, <1>3, Folding
  <2>2. PICK g \in [SUBSET (1..n) -> V] :
          \A s \in SUBSET (1..n) : g[s] = IF s = {} THEN base ELSE F[Max(s)][g[s \ {Max(s)}]]
    BY <2>1 DEF OverSets
  <2>3. ASSUME NEW s \in SUBSET (1..n), s # {}
        PROVE  F[Max(s)][g[s \ {Max(s)}]] = ScanChar(g[s \ {Max(s)}], word[Max(s)])
    <3>1. Max(s) \in 1..n /\ s \ {Max(s)} \in SUBSET (1..n)
      BY <1>1, <2>3, Largest
    <3>2. QED
      BY <1>3, <3>1
  <2>4. g = [s \in SUBSET (1..n) |->
               IF s = {} THEN base ELSE ScanChar(g[s \ {Max(s)}], word[Max(s)])]
    BY <2>2, <2>3
  <2>5. QED
    BY <2>4
<1>6. E(e)
  <2> HIDE DEF E
  <2>1. QED
    BY <1>5
<1>7. \A s \in SUBSET (1..n) : e[s] = IF s = {} THEN base
                                       ELSE ScanChar(e[s \ {Max(s)}], word[Max(s)])
  BY <1>6
<1> HIDE DEF e
<1>8. e[{}] = base
  BY <1>7
<1>9. \A s \in SUBSET (1..n) : s # {} /\ e[s \ {Max(s)}] \in V => e[s] = F[Max(s)][e[s \ {Max(s)}]]
  <2> SUFFICES ASSUME NEW s \in SUBSET (1..n), s # {}, e[s \ {Max(s)}] \in V
               PROVE  e[s] = F[Max(s)][e[s \ {Max(s)}]]
    OBVIOUS
  <2>1. Max(s) \in 1..n
    BY <1>1, Largest
  <2>2. QED
    BY <1>3, <1>7, <2>1
<1>10. /\ e[1..0] = base
       /\ \A i \in 0..n : e[1..i] \in V
       /\ \A i \in 1..n : e[1..i] = F[i][e[1..i - 1]]
  <2>1. OnSets(n, V, base, F, e)
    BY <1>8, <1>9 DEF OnSets
  <2>2. OnPlaces(n, V, base, F, e)
    BY <1>1, <1>2, <1>3, <2>1, Unfolding
  <2>3. QED
    BY <2>2 DEF OnPlaces
<1> DEFINE f == [i \in 0..n |-> e[1..i]]
           M == ScanMachine(C)
<1>11. f[0] = base /\ f[n] = e[1..n]
  BY <1>1, <1>10
<1>12. ASSUME NEW v \in V, NEW c \in C PROVE M[v][c] = ScanChar(v, c)
  BY DEF ScanMachine, V
<1> HIDE DEF M
<1>13. ASSUME NEW i \in 1..n PROVE f[i] = M[f[i - 1]][word[i]]
  <2>1. i - 1 \in 0..n /\ i \in 0..n
    BY <1>1
  <2>2. f[i] = e[1..i] /\ f[i - 1] = e[1..i - 1] /\ e[1..i - 1] \in V /\ word[i] \in C
    BY <1>1, <1>10, <2>1
  <2> HIDE DEF f
  <2>3. M[f[i - 1]][word[i]] = ScanChar(f[i - 1], word[i])
    BY <1>12, <2>2
  <2>4. QED
    BY <1>3, <1>10, <2>2, <2>3
<1> HIDE DEF f
<1>14. Run(M, base, word, e[1..n])
  BY <1>11, <1>13 DEF Run, n
<1>15. QED
  BY <1>4, <1>14 DEF M

(* A character leaves a scan in the second loop too.                         *)
LEMMA UnquoteCharTyped ==
    ASSUME NEW C, Backslash \in C, NEW s \in DsnScans(C), NEW c \in C
    PROVE  UnquoteChar(s, c) \in DsnScans(C)
<1>1. s.current \in Seq(C)
  BY DEF DsnScans
<1>2. <<c>> \in Seq(C) /\ <<Backslash, c>> \in Seq(C) /\ Append(s.current, c) \in Seq(C)
  BY <1>1
<1> DEFINE x == IF c \in {s.quote, Backslash} THEN <<c>> ELSE <<Backslash, c>>
<1>3. s.current \o x \in Seq(C)
  <2>1. x \in Seq(C)
    BY <1>2
  <2> HIDE DEF x
  <2>2. QED
    BY <1>1, <2>1
<1> DEFINE u == s.current \o x
<1>4. UnquoteChar(s, c) \in {[s EXCEPT !.escaped = FALSE, !.current = u], [s EXCEPT !.escaped = TRUE],
                             [s EXCEPT !.current = Append(@, c)]}
  BY DEF UnquoteChar
<1> HIDE DEF x, u
<1>5. [s EXCEPT !.escaped = FALSE, !.current = u] \in DsnScans(C)
  BY <1>3 DEF DsnScans, u
<1>6. [s EXCEPT !.escaped = TRUE] \in DsnScans(C)
  BY DEF DsnScans
<1>7. [s EXCEPT !.current = Append(@, c)] \in DsnScans(C)
  BY <1>2 DEF DsnScans
<1>8. QED
  BY <1>4, <1>5, <1>6, <1>7

(* The loop of unquoteDSNValue as a machine.                                 *)
UnquoteMachine(C) == [s \in DsnScans(C) |-> [c \in C |-> UnquoteChar(s, c)]]

(* The loop of unquoteDSNValue is a run of its machine.                      *)
LEMMA UnquoteLooped ==
    ASSUME NEW C, Backslash \in C, NEW word \in Seq(C), NEW base \in DsnScans(C)
    PROVE  Run(UnquoteMachine(C), base, word, FoldLeft(UnquoteChar, base, word))
<1> DEFINE n == Len(word)
           V == DsnScans(C)
           F == [i \in 1..n |-> [v \in V |-> UnquoteChar(v, word[i])]]
           E(g) == g = [s \in SUBSET (1..n) |->
                          IF s = {} THEN base ELSE UnquoteChar(g[s \ {Max(s)}], word[Max(s)])]
           e == CHOOSE g : E(g)
<1>1. n \in Nat /\ DOMAIN word = 1..n /\ \A i \in 1..n : word[i] \in C
  OBVIOUS
<1>2. base \in V
  OBVIOUS
<1>3. F \in [1..n -> [V -> V]] /\ \A i \in 1..n : \A v \in V : F[i][v] = UnquoteChar(v, word[i])
  <2>1. \A i \in 1..n : \A v \in V : F[i][v] = UnquoteChar(v, word[i])
    OBVIOUS
  <2>2. \A i \in 1..n : \A v \in V : UnquoteChar(v, word[i]) \in V
    BY <1>1, UnquoteCharTyped
  <2>3. QED
    BY <2>1, <2>2
<1>4. FoldLeft(UnquoteChar, base, word) = e[1..n]
  BY <1>1 DEF FoldLeft, MapThenFoldSet
<1> HIDE DEF n, V, F
<1>5. \E g : E(g)
  <2>1. OverSets(n, V, base, F)
    BY <1>1, <1>2, <1>3, Folding
  <2>2. PICK g \in [SUBSET (1..n) -> V] :
          \A s \in SUBSET (1..n) : g[s] = IF s = {} THEN base ELSE F[Max(s)][g[s \ {Max(s)}]]
    BY <2>1 DEF OverSets
  <2>3. ASSUME NEW s \in SUBSET (1..n), s # {}
        PROVE  F[Max(s)][g[s \ {Max(s)}]] = UnquoteChar(g[s \ {Max(s)}], word[Max(s)])
    <3>1. Max(s) \in 1..n /\ s \ {Max(s)} \in SUBSET (1..n)
      BY <1>1, <2>3, Largest
    <3>2. QED
      BY <1>3, <3>1
  <2>4. g = [s \in SUBSET (1..n) |->
               IF s = {} THEN base ELSE UnquoteChar(g[s \ {Max(s)}], word[Max(s)])]
    BY <2>2, <2>3
  <2>5. QED
    BY <2>4
<1>6. E(e)
  <2> HIDE DEF E
  <2>1. QED
    BY <1>5
<1>7. \A s \in SUBSET (1..n) : e[s] = IF s = {} THEN base
                                       ELSE UnquoteChar(e[s \ {Max(s)}], word[Max(s)])
  BY <1>6
<1> HIDE DEF e
<1>8. e[{}] = base
  BY <1>7
<1>9. \A s \in SUBSET (1..n) : s # {} /\ e[s \ {Max(s)}] \in V => e[s] = F[Max(s)][e[s \ {Max(s)}]]
  <2> SUFFICES ASSUME NEW s \in SUBSET (1..n), s # {}, e[s \ {Max(s)}] \in V
               PROVE  e[s] = F[Max(s)][e[s \ {Max(s)}]]
    OBVIOUS
  <2>1. Max(s) \in 1..n
    BY <1>1, Largest
  <2>2. QED
    BY <1>3, <1>7, <2>1
<1>10. /\ e[1..0] = base
       /\ \A i \in 0..n : e[1..i] \in V
       /\ \A i \in 1..n : e[1..i] = F[i][e[1..i - 1]]
  <2>1. OnSets(n, V, base, F, e)
    BY <1>8, <1>9 DEF OnSets
  <2>2. OnPlaces(n, V, base, F, e)
    BY <1>1, <1>2, <1>3, <2>1, Unfolding
  <2>3. QED
    BY <2>2 DEF OnPlaces
<1> DEFINE f == [i \in 0..n |-> e[1..i]]
           M == UnquoteMachine(C)
<1>11. f[0] = base /\ f[n] = e[1..n]
  BY <1>1, <1>10
<1>12. ASSUME NEW v \in V, NEW c \in C PROVE M[v][c] = UnquoteChar(v, c)
  BY DEF UnquoteMachine, V
<1> HIDE DEF M
<1>13. ASSUME NEW i \in 1..n PROVE f[i] = M[f[i - 1]][word[i]]
  <2>1. i - 1 \in 0..n /\ i \in 0..n
    BY <1>1
  <2>2. f[i] = e[1..i] /\ f[i - 1] = e[1..i - 1] /\ e[1..i - 1] \in V /\ word[i] \in C
    BY <1>1, <1>10, <2>1
  <2> HIDE DEF f
  <2>3. M[f[i - 1]][word[i]] = UnquoteChar(f[i - 1], word[i])
    BY <1>12, <2>2
  <2>4. QED
    BY <1>3, <1>10, <2>2, <2>3
<1> HIDE DEF f
<1>14. Run(M, base, word, e[1..n])
  BY <1>11, <1>13 DEF Run, n
<1>15. QED
  BY <1>4, <1>14 DEF M

(* A segment leaves segments.                                                *)
LEMMA KeepTyped ==
    ASSUME NEW C, NEW used \in Seq(Seq(C)), NEW part \in Seq(C)
    PROVE  KeepSegment(used, part) \in Seq(Seq(C))
  BY DEF KeepSegment

(* The loop over the segments as a machine.                                  *)
KeepMachine(C) == [used \in Seq(Seq(C)) |-> [part \in Seq(C) |-> KeepSegment(used, part)]]

(* The loop over the segments is a run of its machine.                       *)
LEMMA KeepLooped ==
    ASSUME NEW C, NEW word \in Seq(Seq(C)), NEW base \in Seq(Seq(C))
    PROVE  Run(KeepMachine(C), base, word, FoldLeft(KeepSegment, base, word))
<1> DEFINE n == Len(word)
           V == Seq(Seq(C))
           F == [i \in 1..n |-> [v \in V |-> KeepSegment(v, word[i])]]
           E(g) == g = [s \in SUBSET (1..n) |->
                          IF s = {} THEN base ELSE KeepSegment(g[s \ {Max(s)}], word[Max(s)])]
           e == CHOOSE g : E(g)
<1>1. n \in Nat /\ DOMAIN word = 1..n /\ \A i \in 1..n : word[i] \in Seq(C)
  OBVIOUS
<1>2. base \in V
  OBVIOUS
<1>3. F \in [1..n -> [V -> V]] /\ \A i \in 1..n : \A v \in V : F[i][v] = KeepSegment(v, word[i])
  <2>1. \A i \in 1..n : \A v \in V : F[i][v] = KeepSegment(v, word[i])
    OBVIOUS
  <2>2. \A i \in 1..n : \A v \in V : KeepSegment(v, word[i]) \in V
    BY <1>1, KeepTyped
  <2>3. QED
    BY <2>1, <2>2
<1>4. FoldLeft(KeepSegment, base, word) = e[1..n]
  BY <1>1 DEF FoldLeft, MapThenFoldSet
<1> HIDE DEF n, V, F
<1>5. \E g : E(g)
  <2>1. OverSets(n, V, base, F)
    BY <1>1, <1>2, <1>3, Folding
  <2>2. PICK g \in [SUBSET (1..n) -> V] :
          \A s \in SUBSET (1..n) : g[s] = IF s = {} THEN base ELSE F[Max(s)][g[s \ {Max(s)}]]
    BY <2>1 DEF OverSets
  <2>3. ASSUME NEW s \in SUBSET (1..n), s # {}
        PROVE  F[Max(s)][g[s \ {Max(s)}]] = KeepSegment(g[s \ {Max(s)}], word[Max(s)])
    <3>1. Max(s) \in 1..n /\ s \ {Max(s)} \in SUBSET (1..n)
      BY <1>1, <2>3, Largest
    <3>2. QED
      BY <1>3, <3>1
  <2>4. g = [s \in SUBSET (1..n) |->
               IF s = {} THEN base ELSE KeepSegment(g[s \ {Max(s)}], word[Max(s)])]
    BY <2>2, <2>3
  <2>5. QED
    BY <2>4
<1>6. E(e)
  <2> HIDE DEF E
  <2>1. QED
    BY <1>5
<1>7. \A s \in SUBSET (1..n) : e[s] = IF s = {} THEN base
                                       ELSE KeepSegment(e[s \ {Max(s)}], word[Max(s)])
  BY <1>6
<1> HIDE DEF e
<1>8. e[{}] = base
  BY <1>7
<1>9. \A s \in SUBSET (1..n) : s # {} /\ e[s \ {Max(s)}] \in V => e[s] = F[Max(s)][e[s \ {Max(s)}]]
  <2> SUFFICES ASSUME NEW s \in SUBSET (1..n), s # {}, e[s \ {Max(s)}] \in V
               PROVE  e[s] = F[Max(s)][e[s \ {Max(s)}]]
    OBVIOUS
  <2>1. Max(s) \in 1..n
    BY <1>1, Largest
  <2>2. QED
    BY <1>3, <1>7, <2>1
<1>10. /\ e[1..0] = base
       /\ \A i \in 0..n : e[1..i] \in V
       /\ \A i \in 1..n : e[1..i] = F[i][e[1..i - 1]]
  <2>1. OnSets(n, V, base, F, e)
    BY <1>8, <1>9 DEF OnSets
  <2>2. OnPlaces(n, V, base, F, e)
    BY <1>1, <1>2, <1>3, <2>1, Unfolding
  <2>3. QED
    BY <2>2 DEF OnPlaces
<1> DEFINE f == [i \in 0..n |-> e[1..i]]
           M == KeepMachine(C)
<1>11. f[0] = base /\ f[n] = e[1..n]
  BY <1>1, <1>10
<1>12. ASSUME NEW v \in V, NEW c \in Seq(C) PROVE M[v][c] = KeepSegment(v, c)
  BY DEF KeepMachine, V
<1> HIDE DEF M
<1>13. ASSUME NEW i \in 1..n PROVE f[i] = M[f[i - 1]][word[i]]
  <2>1. i - 1 \in 0..n /\ i \in 0..n
    BY <1>1
  <2>2. f[i] = e[1..i] /\ f[i - 1] = e[1..i - 1] /\ e[1..i - 1] \in V /\ word[i] \in Seq(C)
    BY <1>1, <1>10, <2>1
  <2> HIDE DEF f
  <2>3. M[f[i - 1]][word[i]] = KeepSegment(f[i - 1], word[i])
    BY <1>12, <2>2
  <2>4. QED
    BY <1>3, <1>10, <2>2, <2>3
<1> HIDE DEF f
<1>14. Run(M, base, word, e[1..n])
  BY <1>11, <1>13 DEF Run, n
<1>15. QED
  BY <1>4, <1>14 DEF M

(* The special characters differ.                                            *)
LEMMA Special ==
    /\ Backslash \notin Quotes /\ Semicolon \notin Quotes /\ NoQuote \notin Quotes
    /\ Backslash # Semicolon
  BY DEF Backslash, Semicolon, Quotes, NoQuote

(* What a character does to a scan.                                          *)
LEMMA ScanSteps2 ==
    ASSUME NEW p, NEW c, NEW q, NEW ch
    PROVE  /\ ScanChar(Escaped(p, c, q), ch) = Plain(p, Append(c, ch), q)
           /\ q \in Quotes /\ ch = Backslash => ScanChar(Plain(p, c, q), ch) = Escaped(p, Append(c, ch), q)
           /\ q \in Quotes /\ ch # q /\ ch # Backslash => ScanChar(Plain(p, c, q), ch) = Plain(p, Append(c, ch), q)
           /\ q \in Quotes /\ ch = q => ScanChar(Plain(p, c, q), ch) = Plain(p, Append(c, ch), NoQuote)
           /\ ch \in Quotes => ScanChar(Plain(p, c, NoQuote), ch) = Plain(p, Append(c, ch), ch)
           /\ ch \notin Quotes /\ ch # Backslash /\ ch # Semicolon =>
                ScanChar(Plain(p, c, NoQuote), ch) = Plain(p, Append(c, ch), NoQuote)
           /\ ScanChar(Plain(p, c, NoQuote), Semicolon) = Plain(Append(p, c), <<>>, NoQuote)
<1>1. ScanChar(Escaped(p, c, q), ch) = Plain(p, Append(c, ch), q)
  BY DEF ScanChar, Escaped, Plain
<1>2. ASSUME q \in Quotes, ch = Backslash PROVE ScanChar(Plain(p, c, q), ch) = Escaped(p, Append(c, ch), q)
  <2> DEFINE b == q # NoQuote
  <2>1. ScanChar(Plain(p, c, q), ch) =
            [parts |-> p, current |-> Append(c, ch), quote |-> q, escaped |-> b]
    BY <1>2, Special DEF ScanChar, Plain
  <2>2. b = TRUE
    BY <1>2, Special
  <2> HIDE DEF b
  <2>3. QED
    BY <2>1, <2>2, Zenon DEF Escaped
<1>3. ASSUME q \in Quotes, ch # q, ch # Backslash PROVE ScanChar(Plain(p, c, q), ch) = Plain(p, Append(c, ch), q)
  BY <1>3 DEF ScanChar, Plain, Quotes, NoQuote
<1>4. ASSUME q \in Quotes, ch = q PROVE ScanChar(Plain(p, c, q), ch) = Plain(p, Append(c, ch), NoQuote)
  BY <1>4 DEF ScanChar, Plain, Quotes, NoQuote, Backslash
<1>5. ASSUME ch \in Quotes PROVE ScanChar(Plain(p, c, NoQuote), ch) = Plain(p, Append(c, ch), ch)
  <2>1. ch # NoQuote /\ ch # Backslash /\ ch # Semicolon
    BY <1>5, Special
  <2>2. QED
    BY <1>5, <2>1 DEF ScanChar, Plain
<1>6. ASSUME ch \notin Quotes, ch # Backslash, ch # Semicolon
      PROVE  ScanChar(Plain(p, c, NoQuote), ch) = Plain(p, Append(c, ch), NoQuote)
  BY <1>6 DEF ScanChar, Plain
<1>7. ScanChar(Plain(p, c, NoQuote), Semicolon) = Plain(Append(p, c), <<>>, NoQuote)
  BY DEF ScanChar, Plain, Quotes, NoQuote, Backslash, Semicolon
<1>8. QED
  BY <1>1, <1>2, <1>3, <1>4, <1>5, <1>6, <1>7

(* What a backslash and an escaped character do to a value.                  *)
LEMMA UnquoteSteps ==
    ASSUME NEW C, NEW p, NEW c \in Seq(C), NEW q \in Quotes, NEW ch \in C
    PROVE  /\ UnquoteChar(Plain(p, c, q), Backslash) = Escaped(p, c, q)
           /\ ch \in {q, Backslash} => UnquoteChar(Escaped(p, c, q), ch) = Plain(p, Append(c, ch), q)
<1>1. UnquoteChar(Plain(p, c, q), Backslash) = Escaped(p, c, q)
  BY DEF UnquoteChar, Plain, Escaped
<1>2. ASSUME ch \in {q, Backslash} PROVE UnquoteChar(Escaped(p, c, q), ch) = Plain(p, Append(c, ch), q)
  <2>1. UnquoteChar(Escaped(p, c, q), ch) = Plain(p, c \o <<ch>>, q)
    BY <1>2 DEF UnquoteChar, Plain, Escaped
  <2>2. c \o <<ch>> = Append(c, ch)
    OBVIOUS
  <2>3. QED
    BY <2>1, <2>2
<1>3. QED
  BY <1>1, <1>2

(* Plain and escaped scans are scans.                                        *)
LEMMA ScansTyped ==
    ASSUME NEW C, NEW p \in Seq(Seq(C)), NEW c \in Seq(C), NEW q \in Quotes \cup {NoQuote}
    PROVE  Plain(p, c, q) \in DsnScans(C) /\ Escaped(p, c, q) \in DsnScans(C)
  BY DEF Plain, Escaped, DsnScans

(* One character on, in either loop.                                         *)
LEMMA ScanOne ==
    ASSUME NEW C, NEW s \in DsnScans(C), NEW ch \in C
    PROVE  Run(ScanMachine(C), s, <<ch>>, ScanChar(s, ch))
<1>1. ScanMachine(C)[s][ch] = ScanChar(s, ch)
  BY DEF ScanMachine
<1>2. Run(ScanMachine(C), s, <<ch>>, ScanMachine(C)[s][ch])
  BY RunOne
<1>3. QED
  BY <1>1, <1>2

(* One character on in unquoteDSNValue.                                      *)
LEMMA UnquoteOne ==
    ASSUME NEW C, NEW s \in DsnScans(C), NEW ch \in C
    PROVE  Run(UnquoteMachine(C), s, <<ch>>, UnquoteChar(s, ch))
<1>1. UnquoteMachine(C)[s][ch] = UnquoteChar(s, ch)
  BY DEF UnquoteMachine
<1>2. Run(UnquoteMachine(C), s, <<ch>>, UnquoteMachine(C)[s][ch])
  BY RunOne
<1>3. QED
  BY <1>1, <1>2

EscapedChar(ch, quote) == IF ch \in {quote, Backslash} THEN <<Backslash, ch>> ELSE <<ch>>
EscapedChars(value, quote) == [i \in DOMAIN value |-> EscapedChar(value[i], quote)]

(* An escaped character is a word.                                           *)
LEMMA EscapedCharTyped ==
    ASSUME NEW C, Backslash \in C, NEW ch \in C, NEW q
    PROVE  EscapedChar(ch, q) \in Seq(C)
  BY DEF EscapedChar

(* Two letters joined.                                                       *)
LEMMA Pair ==
    ASSUME NEW C, NEW a \in C, NEW b \in C
    PROVE  <<a>> \o <<b>> = <<a, b>>
<1> DEFINE u == <<a>>
           x == Append(u, b)
           w == <<a, b>>
<1>1. u \in Seq(C) /\ Len(u) = 1
  OBVIOUS
<1>9. u[1] = a
  OBVIOUS
<1>3. u \in Seq(C)
  OBVIOUS
<1>2. w \in Seq(C) /\ Len(w) = 2 /\ w[1] = a /\ w[2] = b
  OBVIOUS
<1> HIDE DEF u, w
<1>10. u \o <<b>> = x
  BY <1>1
<1>4. x \in Seq(C) /\ Len(x) = 2
  BY <1>1
<1>5. x[1] = a
  <2>1. \A i \in 1..Len(u) : x[i] = u[i]
    BY <1>3
  <2>2. QED
    BY <1>1, <1>9, <2>1
<1>6. x[2] = b
  <2>1. x[Len(u) + 1] = b
    BY <1>3
  <2>2. QED
    BY <1>1, <2>1
<1> HIDE DEF x
<1>7. x = w
  BY <1>2, <1>4, <1>5, <1>6
<1>8. QED
  BY <1>7, <1>10 DEF u, w

(* An escaped character between quotes is kept as it is in the segment.      *)
LEMMA ScanEscaped ==
    ASSUME NEW C, Backslash \in C, NEW p \in Seq(Seq(C)), NEW c \in Seq(C), NEW q \in Quotes, NEW ch \in C
    PROVE  Run(ScanMachine(C), Plain(p, c, q), EscapedChar(ch, q), Plain(p, c \o EscapedChar(ch, q), q))
<1> DEFINE B == Backslash
           M == ScanMachine(C)
<1>1. CASE ch \in {q, B}
  <2> DEFINE d == Append(c, B)
             u == <<B>>
             v == <<ch>>
  <2>1. d \in Seq(C) /\ Append(d, ch) \in Seq(C) /\ u \in Seq(C) /\ v \in Seq(C)
    OBVIOUS
  <2>2. u \o v = EscapedChar(ch, q)
    <3>1. EscapedChar(ch, q) = <<B, ch>>
      BY <1>1 DEF EscapedChar
    <3>2. u \o v = <<B, ch>>
      BY Pair
    <3>3. QED
      BY <3>1, <3>2
  <2>3. Append(d, ch) = c \o EscapedChar(ch, q)
    BY <1>1 DEF EscapedChar
  <2>4. Plain(p, c, q) \in DsnScans(C) /\ Escaped(p, d, q) \in DsnScans(C)
    BY <2>1, ScansTyped
  <2>5. ScanChar(Plain(p, c, q), B) = Escaped(p, d, q)
    BY ScanSteps2
  <2> HIDE DEF d
  <2>6. ScanChar(Escaped(p, d, q), ch) = Plain(p, Append(d, ch), q)
    BY ScanSteps2
  <2>7. Run(M, Plain(p, c, q), u, Escaped(p, d, q))
    BY <2>4, <2>5, ScanOne
  <2>8. Run(M, Escaped(p, d, q), v, Plain(p, Append(d, ch), q))
    BY <2>4, <2>6, ScanOne
  <2> HIDE DEF u, v, M
  <2>9. Run(M, Plain(p, c, q), u \o v, Plain(p, Append(d, ch), q))
    BY <2>1, <2>7, <2>8, RunJoined
  <2>10. QED
    BY <2>2, <2>3, <2>9 DEF M
<1>2. CASE ch \notin {q, B}
  <2>1. EscapedChar(ch, q) = <<ch>>
    BY <1>2 DEF EscapedChar
  <2>2. c \o <<ch>> = Append(c, ch)
    OBVIOUS
  <2>3. Plain(p, c, q) \in DsnScans(C)
    BY ScansTyped
  <2>4. ScanChar(Plain(p, c, q), ch) = Plain(p, Append(c, ch), q)
    BY <1>2, ScanSteps2
  <2>5. Run(M, Plain(p, c, q), <<ch>>, Plain(p, Append(c, ch), q))
    BY <2>3, <2>4, ScanOne
  <2>6. QED
    BY <2>1, <2>2, <2>5
<1>3. QED
  BY <1>1, <1>2

(* An escaped character is unquoted to the character.                        *)
LEMMA UnquoteEscaped ==
    ASSUME NEW C, Backslash \in C, NEW p \in Seq(Seq(C)), NEW c \in Seq(C), NEW q \in Quotes, NEW ch \in C
    PROVE  Run(UnquoteMachine(C), Plain(p, c, q), EscapedChar(ch, q), Plain(p, Append(c, ch), q))
<1> DEFINE B == Backslash
           M == UnquoteMachine(C)
<1>1. CASE ch \in {q, B}
  <2> DEFINE u == <<B>>
             v == <<ch>>
  <2>1. u \in Seq(C) /\ v \in Seq(C)
    OBVIOUS
  <2>2. u \o v = EscapedChar(ch, q)
    <3>1. EscapedChar(ch, q) = <<B, ch>>
      BY <1>1 DEF EscapedChar
    <3>2. u \o v = <<B, ch>>
      BY Pair
    <3>3. QED
      BY <3>1, <3>2
  <2>4. Plain(p, c, q) \in DsnScans(C) /\ Escaped(p, c, q) \in DsnScans(C)
    BY ScansTyped
  <2>5. UnquoteChar(Plain(p, c, q), B) = Escaped(p, c, q)
    BY UnquoteSteps
  <2>6. UnquoteChar(Escaped(p, c, q), ch) = Plain(p, Append(c, ch), q)
    BY <1>1, UnquoteSteps
  <2>7. Run(M, Plain(p, c, q), u, Escaped(p, c, q))
    BY <2>4, <2>5, UnquoteOne
  <2>8. Run(M, Escaped(p, c, q), v, Plain(p, Append(c, ch), q))
    BY <2>4, <2>6, UnquoteOne
  <2> HIDE DEF u, v, M
  <2>9. Run(M, Plain(p, c, q), u \o v, Plain(p, Append(c, ch), q))
    BY <2>1, <2>7, <2>8, RunJoined
  <2>10. QED
    BY <2>2, <2>9 DEF M
<1>2. CASE ch \notin {q, B}
  <2>1. EscapedChar(ch, q) = <<ch>>
    BY <1>2 DEF EscapedChar
  <2>3. Plain(p, c, q) \in DsnScans(C)
    BY ScansTyped
  <2>4. UnquoteChar(Plain(p, c, q), ch) = Plain(p, Append(c, ch), q)
    <3>1. ch # q /\ ch # Backslash
      BY <1>2
    <3>2. QED
      BY <3>1 DEF UnquoteChar, Plain
  <2>5. Run(M, Plain(p, c, q), <<ch>>, Plain(p, Append(c, ch), q))
    BY <2>3, <2>4, UnquoteOne
  <2>6. QED
    BY <2>1, <2>5
<1>3. QED
  BY <1>1, <1>2

(* The inside of a quoted value goes through the first loop as it is, and    *)
(* through the second one as the value it stands for.                        *)
LEMMA InsideRead ==
    ASSUME NEW C, Backslash \in C, NEW p \in Seq(Seq(C)), NEW c \in Seq(C), NEW q \in Quotes,
           NEW value \in Seq(C)
    PROVE  /\ FlattenSeq(EscapedChars(value, q)) \in Seq(C)
           /\ Run(ScanMachine(C), Plain(p, c, q), FlattenSeq(EscapedChars(value, q)),
                  Plain(p, c \o FlattenSeq(EscapedChars(value, q)), q))
           /\ Run(UnquoteMachine(C), Plain(p, <<>>, q), FlattenSeq(EscapedChars(value, q)),
                  Plain(p, value, q))
<1> DEFINE n == Len(value)
           esc == EscapedChars(value, q)
           M == ScanMachine(C)
           N == UnquoteMachine(C)
<1>1. n \in Nat /\ DOMAIN value = 1..n /\ \A i \in 1..n : value[i] \in C
  OBVIOUS
<1>2. esc \in [1..n -> Seq(C)] /\ \A i \in 1..n : esc[i] = EscapedChar(value[i], q)
  <2>1. \A i \in 1..n : EscapedChar(value[i], q) \in Seq(C)
    BY <1>1, EscapedCharTyped
  <2>2. QED
    BY <1>1, <2>1 DEF EscapedChars
<1> HIDE DEF n, esc
<1>3. esc \in Seq(Seq(C)) /\ Len(esc) = n
  BY <1>1, <1>2, SequenceOf
<1>4. PICK f \in [0..n -> Seq(C)] :
          f[0] = <<>> /\ (\A i \in 1..n : f[i] = f[i - 1] \o esc[i]) /\ FlattenSeq(esc) = f[n]
  <2>1. Joined(C, esc)
    BY <1>3, Flattening
  <2>2. QED
    BY <1>3, <2>1 DEF Joined
<1> DEFINE T == { i \in 0..n : /\ Run(M, Plain(p, c, q), f[i], Plain(p, c \o f[i], q))
                               /\ Run(N, Plain(p, <<>>, q), f[i], Plain(p, Initial(value, i), q)) }
<1>5. 0 \in T
  <2>1. c \o <<>> = c /\ Initial(value, 0) = <<>>
    BY InitialGrows
  <2>2. f[0] = <<>> /\ 0 \in 0..n
    BY <1>1, <1>4
  <2>3. Run(M, Plain(p, c, q), f[0], Plain(p, c \o f[0], q))
    <3>1. Run(M, Plain(p, c, q), <<>>, Plain(p, c, q))
      BY RunNothing
    <3>2. QED
      BY <2>1, <2>2, <3>1
  <2>4. Run(N, Plain(p, <<>>, q), f[0], Plain(p, Initial(value, 0), q))
    <3>1. Run(N, Plain(p, <<>>, q), <<>>, Plain(p, <<>>, q))
      BY RunNothing
    <3>2. QED
      BY <2>1, <2>2, <3>1
  <2> HIDE DEF M, N
  <2>5. QED
    BY <2>2, <2>3, <2>4
<1>6. ASSUME NEW i \in 0..n - 1, i \in T PROVE i + 1 \in T
  <2> DEFINE a == f[i]
             x == EscapedChar(value[i + 1], q)
             v == Initial(value, i)
             ch == value[i + 1]
  <2>1. i + 1 \in 1..n /\ i + 1 \in 0..n /\ (i + 1) - 1 = i /\ i \in 0..n
    BY <1>1
  <2>2. a \in Seq(C) /\ ch \in C /\ x \in Seq(C)
    BY <1>1, <2>1, EscapedCharTyped
  <2>3. f[i + 1] = a \o x
    BY <1>2, <1>4, <2>1
  <2>4. v \in Seq(C) /\ Initial(value, i + 1) = Append(v, ch)
    BY <2>1, InitialGrows DEF n
  <2>5. c \o a \in Seq(C) /\ (c \o a) \o x = c \o (a \o x)
    <3> HIDE DEF a, x
    <3>1. Associative(C)
      BY Associate
    <3>2. a \in Seq(C)
      BY <2>2
    <3>3. x \in Seq(C)
      BY <2>2
    <3>4. c \o a \in Seq(C)
      BY <3>2
    <3>5. QED
      BY <3>1, <3>2, <3>3, <3>4, ZenonT(40) DEF Associative
  <2>6. Run(M, Plain(p, c, q), a, Plain(p, c \o a, q)) /\ Run(N, Plain(p, <<>>, q), a, Plain(p, v, q))
    BY <1>6
  <2> HIDE DEF a, v, ch, M, N
  <2>7. Run(M, Plain(p, c \o a, q), x, Plain(p, (c \o a) \o x, q))
    BY <2>2, <2>5, ScanEscaped DEF M, ch
  <2>8. Run(N, Plain(p, v, q), x, Plain(p, Append(v, ch), q))
    BY <2>2, <2>4, UnquoteEscaped DEF N, ch
  <2> HIDE DEF x
  <2>9. Run(M, Plain(p, c, q), a \o x, Plain(p, (c \o a) \o x, q))
    BY <2>2, <2>6, <2>7, RunJoined
  <2>10. Run(N, Plain(p, <<>>, q), a \o x, Plain(p, Append(v, ch), q))
    BY <2>2, <2>6, <2>8, RunJoined
  <2>11. QED
    BY <2>1, <2>3, <2>4, <2>5, <2>9, <2>10
<1> HIDE DEF T
<1>7. n \in T
  <2>1. \A i \in 0..n : i \in T
    BY <1>1, <1>5, <1>6, Upwards
  <2>2. n \in 0..n
    BY <1>1
  <2>3. QED
    BY <2>1, <2>2
<1>8. Initial(value, n) = value
  BY InitialGrows DEF n
<1>9. FlattenSeq(esc) \in Seq(C)
  <2>1. n \in 0..n
    BY <1>1
  <2>2. QED
    BY <1>4, <2>1
<1>10. QED
  BY <1>4, <1>7, <1>8, <1>9 DEF T, esc

Appends(C) ==
    \A c, a \in Seq(C) : \A x \in C : Append(c \o a, x) = c \o Append(a, x)

(* Appending to a concatenation.                                             *)
LEMMA AppendJoined ==
    ASSUME NEW C
    PROVE  Appends(C)
<1> SUFFICES ASSUME NEW c \in Seq(C), NEW a \in Seq(C), NEW x \in C
             PROVE  Append(c \o a, x) = c \o Append(a, x)
  BY DEF Appends
<1> DEFINE v == <<x>>
           d == c \o a
<1>1. v \in Seq(C) /\ Append(a, x) = a \o v
  OBVIOUS
<1>2. d \in Seq(C)
  OBVIOUS
<1> HIDE DEF d
<1>3. Append(d, x) = d \o v
  BY <1>2
<1> HIDE DEF v
<1>4. c \o (a \o v) = (c \o a) \o v
  <2>1. Associative(C)
    BY Associate
  <2>2. QED
    BY <1>1, <2>1, Zenon DEF Associative
<1>5. QED
  BY <1>1, <1>3, <1>4 DEF d

(* Outside quotes, ordinary characters are kept.                             *)
LEMMA ScanOrdinary ==
    ASSUME NEW C, NEW p \in Seq(Seq(C)), NEW c \in Seq(C), NEW w \in Seq(C),
           \A i \in 1..Len(w) : w[i] \notin Quotes /\ w[i] # Backslash /\ w[i] # Semicolon
    PROVE  Run(ScanMachine(C), Plain(p, c, NoQuote), w, Plain(p, c \o w, NoQuote))
<1> DEFINE n == Len(w)
           M == ScanMachine(C)
           T == { i \in 0..n : Run(M, Plain(p, c, NoQuote), Initial(w, i), Plain(p, c \o Initial(w, i), NoQuote)) }
<1>1. n \in Nat
  OBVIOUS
<1>2. 0 \in T
  <2>1. c \o <<>> = c /\ Initial(w, 0) = <<>> /\ 0 \in 0..n
    BY <1>1, InitialGrows
  <2>2. Run(M, Plain(p, c, NoQuote), <<>>, Plain(p, c, NoQuote))
    BY RunNothing
  <2> HIDE DEF M, n
  <2>3. Run(M, Plain(p, c, NoQuote), Initial(w, 0), Plain(p, c \o Initial(w, 0), NoQuote))
    BY <2>1, <2>2
  <2>4. QED
    BY <2>1, <2>3
<1>3. ASSUME NEW i \in 0..n - 1, i \in T PROVE i + 1 \in T
  <2> DEFINE a == Initial(w, i)
             ch == w[i + 1]
             d == c \o a
  <2>1. i + 1 \in 1..n /\ i + 1 \in 0..n /\ (i + 1) - 1 = i /\ i \in 0..n
    BY <1>1
  <2>2. a \in Seq(C) /\ Initial(w, i + 1) = Append(a, ch)
    BY <2>1, InitialGrows
  <2>3. ch \in C /\ ch \notin Quotes /\ ch # Backslash /\ ch # Semicolon
    BY <2>1
  <2>4. Run(M, Plain(p, c, NoQuote), a, Plain(p, d, NoQuote))
    BY <1>3
  <2> HIDE DEF a, ch, M, n
  <2>5. d \in Seq(C)
    BY <2>2
  <2>6. Append(d, ch) = c \o Append(a, ch)
    <3>1. Appends(C)
      BY AppendJoined
    <3>2. QED
      BY <2>2, <2>3, <3>1, Zenon DEF Appends
  <2>7. a \o <<ch>> = Append(a, ch) /\ <<ch>> \in Seq(C)
    BY <2>2, <2>3
  <2> HIDE DEF d
  <2>8. Plain(p, d, NoQuote) \in DsnScans(C)
    BY <2>5, ScansTyped
  <2>9. ScanChar(Plain(p, d, NoQuote), ch) = Plain(p, Append(d, ch), NoQuote)
    BY <2>3, ScanSteps2
  <2>10. Run(M, Plain(p, d, NoQuote), <<ch>>, Plain(p, Append(d, ch), NoQuote))
    BY <2>3, <2>8, <2>9, ScanOne DEF M
  <2>11. Run(M, Plain(p, c, NoQuote), a \o <<ch>>, Plain(p, Append(d, ch), NoQuote))
    <3> DEFINE v == <<ch>>
    <3>1. v \in Seq(C) /\ Run(M, Plain(p, d, NoQuote), v, Plain(p, Append(d, ch), NoQuote))
      BY <2>7, <2>10
    <3> HIDE DEF v
    <3>2. Run(M, Plain(p, c, NoQuote), a \o v, Plain(p, Append(d, ch), NoQuote))
      BY <2>2, <2>4, <3>1, RunJoined
    <3>3. QED
      BY <3>2 DEF v
  <2>12. Run(M, Plain(p, c, NoQuote), Initial(w, i + 1), Plain(p, c \o Initial(w, i + 1), NoQuote))
    BY <2>2, <2>6, <2>7, <2>11
  <2>13. QED
    BY <2>1, <2>12
<1> HIDE DEF T
<1>4. n \in T
  <2>1. \A i \in 0..n : i \in T
    BY <1>1, <1>2, <1>3, Upwards
  <2>2. n \in 0..n
    BY <1>1
  <2>3. QED
    BY <2>1, <2>2
<1>5. Initial(w, n) = w
  BY InitialGrows
<1>6. QED
  BY <1>4, <1>5 DEF T

(* A loop that skips empty segments keeps the others.                        *)
LEMMA AllKept ==
    ASSUME NEW C, NEW parts \in Seq(Seq(C)), \A i \in 1..Len(parts) : parts[i] # <<>>
    PROVE  FoldLeft(KeepSegment, <<>>, parts) = parts
<1> DEFINE n == Len(parts)
           M == KeepMachine(C)
           none == <<>>
           T == { i \in 0..n : Run(M, none, Initial(parts, i), Initial(parts, i)) }
<1>1. n \in Nat /\ none \in Seq(Seq(C))
  OBVIOUS
<1>2. 0 \in T
  <2>1. Initial(parts, 0) = none /\ 0 \in 0..n
    BY <1>1, InitialGrows
  <2>2. Run(M, none, none, none)
    BY RunNothing
  <2> HIDE DEF M, n, none
  <2>3. QED
    BY <2>1, <2>2
<1>3. ASSUME NEW i \in 0..n - 1, i \in T PROVE i + 1 \in T
  <2> DEFINE a == Initial(parts, i)
             x == parts[i + 1]
             v == <<x>>
  <2>1. i + 1 \in 1..n /\ i + 1 \in 0..n /\ (i + 1) - 1 = i /\ i \in 0..n
    BY <1>1
  <2>2. a \in Seq(Seq(C)) /\ Initial(parts, i + 1) = Append(a, x)
    BY <2>1, InitialGrows
  <2>3. x \in Seq(C) /\ x # <<>>
    <3>1. x \in Seq(C)
      BY <2>1
    <3>2. x # <<>>
      BY <2>1
    <3>3. QED
      BY <3>1, <3>2
  <2>4. Run(M, none, a, a)
    BY <1>3
  <2> HIDE DEF a, x, n, none
  <2>5. M[a][x] = Append(a, x)
    <3>1. M[a][x] = KeepSegment(a, x)
      BY <2>2, <2>3 DEF KeepMachine
    <3>2. QED
      BY <2>3, <3>1 DEF KeepSegment
  <2> HIDE DEF M
  <2>6. Run(M, a, v, Append(a, x))
    <3>1. Run(M, a, v, M[a][x])
      BY RunOne
    <3>2. QED
      BY <2>5, <3>1
  <2>7. a \o v = Append(a, x) /\ v \in Seq(Seq(C))
    BY <2>2, <2>3
  <2> HIDE DEF v
  <2>8. Run(M, none, a \o v, Append(a, x))
    BY <2>2, <2>4, <2>6, <2>7, RunJoined
  <2>9. Run(M, none, Initial(parts, i + 1), Initial(parts, i + 1))
    BY <2>2, <2>7, <2>8
  <2>10. QED
    BY <2>1, <2>9
<1> HIDE DEF T
<1>4. n \in T
  <2>1. \A i \in 0..n : i \in T
    BY <1>1, <1>2, <1>3, Upwards
  <2>2. n \in 0..n
    BY <1>1
  <2>3. QED
    BY <2>1, <2>2
<1>5. Initial(parts, n) = parts
  BY InitialGrows
<1>6. Run(M, none, parts, parts)
  BY <1>4, <1>5 DEF T
<1> HIDE DEF none
<1>7. Run(M, none, parts, FoldLeft(KeepSegment, none, parts))
  BY <1>1, KeepLooped
<1> HIDE DEF M
<1>8. FoldLeft(KeepSegment, none, parts) = parts
  <2> DEFINE r == FoldLeft(KeepSegment, none, parts)
             S == Seq(C)
  <2>1. Run(M, none, parts, r) /\ parts \in Seq(S)
    BY <1>7
  <2> HIDE DEF r, S
  <2>2. r = parts
    BY <1>6, <2>1, RunDetermined
  <2>3. QED
    BY <2>2 DEF r
<1>9. QED
  BY <1>8 DEF none

(* The two parts of a concatenation.                                         *)
LEMMA FrontOfJoined ==
    ASSUME NEW C, NEW a \in Seq(C), NEW b \in Seq(C)
    PROVE  /\ a \o b \in Seq(C) /\ Len(a \o b) = Len(a) + Len(b)
           /\ \A i \in 1..Len(a) : (a \o b)[i] = a[i]
           /\ \A i \in 1..Len(b) : (a \o b)[Len(a) + i] = b[i]
  OBVIOUS

(* What is left of a concatenation without its first part.                   *)
LEMMA RestOfJoined ==
    ASSUME NEW C, NEW a \in Seq(C), NEW b \in Seq(C)
    PROVE  SubSeq(a \o b, Len(a) + 1, Len(a \o b)) = b
<1> DEFINE w == a \o b
           n == Len(a)
           m == Len(b)
           r == SubSeq(w, n + 1, Len(w))
<1>1. w \in Seq(C) /\ Len(w) = n + m /\ n \in Nat /\ m \in Nat
  OBVIOUS
<1>2. \A i \in 1..m : w[n + i] = b[i]
  BY FrontOfJoined
<1> HIDE DEF w, n
<1>3. r \in Seq(C) /\ Len(r) = m
  BY <1>1
<1>4. \A i \in 1..m : r[i] = w[n + i]
  BY <1>1
<1> HIDE DEF r
<1>5. r = b
  BY <1>2, <1>3, <1>4
<1>6. QED
  BY <1>5 DEF r, w, n

(* Quoted values in both loops.                                              *)
LEMMA QuotedRead ==
    ASSUME NEW C, Backslash \in C, Quotes \subseteq C, NEW p \in Seq(Seq(C)), NEW c \in Seq(C),
           NEW value \in Seq(C), NEW q \in Quotes
    PROVE  /\ Quoted(value, q) \in Seq(C)
           /\ Run(ScanMachine(C), Plain(p, c, NoQuote), Quoted(value, q), Plain(p, c \o Quoted(value, q), NoQuote))
           /\ UnquoteDSNValue(Quoted(value, q)) = value
<1> DEFINE inner == FlattenSeq(EscapedChars(value, q))
           v == <<q>>
           d == Append(c, q)
           e == d \o inner
           M == ScanMachine(C)
           N == UnquoteMachine(C)
           none == <<>>
           x == v \o inner
           w == x \o v
           s == Plain(none, none, q)
<1>1. Quoted(value, q) = w
  BY DEF Quoted, EscapedChars, EscapedChar
<1>2. /\ inner \in Seq(C)
      /\ Run(M, Plain(p, d, q), inner, Plain(p, e, q))
      /\ Run(N, s, inner, Plain(none, value, q))
  <2>1. d \in Seq(C) /\ none \in Seq(Seq(C))
    OBVIOUS
  <2> HIDE DEF d
  <2>2. inner \in Seq(C) /\ Run(M, Plain(p, d, q), inner, Plain(p, e, q))
    BY <2>1, InsideRead
  <2>3. Run(N, s, inner, Plain(none, value, q))
    BY <2>1, InsideRead
  <2>4. QED
    BY <2>2, <2>3
<1>3. v \in Seq(C) /\ d \in Seq(C) /\ q \in C
  OBVIOUS
<1>4. Len(v) = 1 /\ v[1] = q
  OBVIOUS
<1>5. c \o v = d
  OBVIOUS
<1> HIDE DEF inner
<1>6. x \in Seq(C) /\ Len(x) = 1 + Len(inner)
  <2> HIDE DEF v
  <2>1. v \in Seq(C) /\ inner \in Seq(C)
    BY <1>2, <1>3
  <2>2. x \in Seq(C) /\ Len(x) = Len(v) + Len(inner)
    BY <2>1, FrontOfJoined
  <2> HIDE DEF x
  <2>3. QED
    BY <1>4, <2>2
<1>7. w \in Seq(C) /\ Len(w) = 2 + Len(inner) /\ Len(inner) \in Nat
  <2> HIDE DEF x, v
  <2>1. v \in Seq(C) /\ x \in Seq(C)
    BY <1>3, <1>6
  <2>2. w \in Seq(C) /\ Len(w) = Len(x) + Len(v)
    BY <2>1, FrontOfJoined
  <2>3. Len(inner) \in Nat
    <3>1. inner \in Seq(C)
      BY <1>2
    <3>2. QED
      BY <3>1
  <2> HIDE DEF w
  <2>4. QED
    BY <1>4, <1>6, <2>2, <2>3
<1>8. w[1] = q /\ w[Len(w)] = q
  <2>1. 1 \in 1..Len(v) /\ 1 \in 1..Len(x) /\ Len(x) + 1 = Len(w)
    BY <1>2, <1>4, <1>6, <1>7
  <2>2. x[1] = v[1]
    <3> HIDE DEF v
    <3>1. \A i \in 1..Len(v) : x[i] = v[i]
      BY <1>2, <1>3, FrontOfJoined
    <3>2. QED
      BY <2>1, <3>1
  <2>3. w[1] = x[1] /\ w[Len(x) + 1] = v[1]
    <3> HIDE DEF v, x
    <3>1. (\A i \in 1..Len(x) : w[i] = x[i]) /\ \A i \in 1..Len(v) : w[Len(x) + i] = v[i]
      BY <1>3, <1>6, FrontOfJoined
    <3>2. QED
      BY <2>1, <3>1
  <2>4. QED
    BY <1>4, <2>1, <2>2, <2>3
<1>9. SubSeq(w, 2, Len(w) - 1) = inner
  <2> DEFINE k == Len(inner)
             r == SubSeq(w, 2, Len(w) - 1)
  <2>1. \A i \in 1..k : x[1 + i] = inner[i]
    <3> HIDE DEF v
    <3>1. \A i \in 1..Len(inner) : x[Len(v) + i] = inner[i]
      BY <1>2, <1>3, FrontOfJoined
    <3>2. QED
      BY <1>4, <3>1
  <2>2. \A i \in 1..Len(x) : w[i] = x[i]
    <3> HIDE DEF v, x
    <3>1. QED
      BY <1>3, <1>6, FrontOfJoined
  <2> HIDE DEF w, x
  <2>3. r \in Seq(C) /\ Len(r) = k
    BY <1>7
  <2>4. \A i \in 1..k : r[i] = w[1 + i]
    BY <1>7
  <2>5. \A i \in 1..k : 1 + i \in 1..Len(x)
    BY <1>6, <1>7
  <2> HIDE DEF r
  <2>6. \A i \in 1..k : r[i] = inner[i]
    BY <2>1, <2>2, <2>4, <2>5
  <2>7. r = inner
    <3>1. inner \in Seq(C) /\ Len(inner) = Len(r)
      BY <1>2, <2>3
    <3>2. r \in Seq(C)
      BY <2>3
    <3>3. \A i \in 1..Len(inner) : r[i] = inner[i]
      BY <2>6
    <3> HIDE DEF k
    <3>4. QED
      BY <3>1, <3>2, <3>3
  <2>8. QED
    BY <2>7 DEF r
<1>10. Append(e, q) = c \o w
  <2>1. e = c \o x
    <3> HIDE DEF v, d
    <3>1. c \o (v \o inner) = (c \o v) \o inner
      <4>1. Associative(C)
        BY Associate
      <4>2. QED
        BY <1>2, <1>3, <4>1, Zenon DEF Associative
    <3>2. QED
      BY <1>5, <3>1
  <2>2. w = Append(x, q)
    <3> HIDE DEF x
    <3>1. QED
      BY <1>3, <1>6
  <2>3. Appends(C)
    BY AppendJoined
  <2> HIDE DEF e, w, x
  <2>4. QED
    BY <1>3, <1>6, <2>1, <2>2, <2>3, Zenon DEF Appends
<1>11. Run(M, Plain(p, c, NoQuote), w, Plain(p, c \o w, NoQuote))
  <2>1. e \in Seq(C)
    <3> HIDE DEF d
    <3>1. QED
      BY <1>2, <1>3
  <2> HIDE DEF e
  <2>2. Plain(p, c, NoQuote) \in DsnScans(C) /\ Plain(p, e, q) \in DsnScans(C)
    BY <2>1, ScansTyped
  <2>3. ScanChar(Plain(p, c, NoQuote), q) = Plain(p, d, q)
    BY ScanSteps2
  <2>4. ScanChar(Plain(p, e, q), q) = Plain(p, Append(e, q), NoQuote)
    BY ScanSteps2
  <2>5. Run(M, Plain(p, c, NoQuote), v, Plain(p, d, q))
    BY <1>3, <2>2, <2>3, ScanOne
  <2>6. Run(M, Plain(p, e, q), v, Plain(p, Append(e, q), NoQuote))
    BY <1>3, <2>2, <2>4, ScanOne
  <2> HIDE DEF v, d, M
  <2>7. Run(M, Plain(p, c, NoQuote), x, Plain(p, e, q))
    BY <1>2, <1>3, <2>5, RunJoined DEF M
  <2> HIDE DEF x
  <2>8. Run(M, Plain(p, c, NoQuote), w, Plain(p, Append(e, q), NoQuote))
    BY <1>3, <1>6, <2>6, <2>7, RunJoined
  <2>9. QED
    BY <1>10, <2>8
<1>12. UnquoteDSNValue(w) = value
  <2> DEFINE t == FoldLeft(UnquoteChar, s, inner)
  <2>1. s \in DsnScans(C)
    <3>1. none \in Seq(Seq(C)) /\ none \in Seq(C) /\ q \in Quotes \cup {NoQuote}
      OBVIOUS
    <3> HIDE DEF none
    <3>2. QED
      BY <3>1, ScansTyped
  <2>2. [NewScan EXCEPT !.quote = q] = s
    <3> DEFINE no == FALSE
    <3>1. NewScan = [parts |-> none, current |-> none, quote |-> NoQuote, escaped |-> no]
      BY Zenon DEF NewScan
    <3>2. s = [parts |-> none, current |-> none, quote |-> q, escaped |-> no]
      BY Zenon DEF Plain
    <3> HIDE DEF no, none, s
    <3>3. QED
      BY <3>1, <3>2
  <2> HIDE DEF s
  <2>3. Run(N, s, inner, t)
    BY <1>2, <2>1, UnquoteLooped
  <2> HIDE DEF t
  <2>4. t = Plain(none, value, q)
    BY <1>2, <2>3, RunDetermined
  <2>5. ~t.escaped /\ t.current = value
    BY <2>4 DEF Plain
  <2> HIDE DEF w, inner
  <2>6. ~(Len(w) < 2) /\ Len(w) >= 2
    BY <1>7
  <2>7. FoldLeft(UnquoteChar, [NewScan EXCEPT !.quote = w[1]], SubSeq(w, 2, Len(w) - 1)) = t
    BY <1>8, <1>9, <2>2 DEF t
  <2>8. w[1] \in Quotes /\ w[Len(w)] = w[1]
    BY <1>8
  <2>9. QED
    BY <2>5, <2>6, <2>7, <2>8 DEF UnquoteDSNValue
<1>13. QED
  BY <1>1, <1>7, <1>11, <1>12

(* The segments that the first loop leaves of a word with a quoted value.    *)
LEMMA QuotedSplit ==
    ASSUME NEW C, Backslash \in C, Semicolon \in C, Quotes \subseteq C,
           NEW lead \in Seq(C), NEW rest \in Seq(C), NEW value \in Seq(C), NEW q \in Quotes,
           \A i \in 1..Len(lead) : lead[i] \notin Quotes /\ lead[i] # Backslash /\ lead[i] # Semicolon,
           \A i \in 1..Len(rest) : rest[i] \notin Quotes /\ rest[i] # Backslash /\ rest[i] # Semicolon
    PROVE  SplitDSNSegments((lead \o Quoted(value, q)) \o (<<Semicolon>> \o rest)) =
               <<lead \o Quoted(value, q), rest>>
<1> DEFINE none == <<>>
           mid == Quoted(value, q)
           head == lead \o mid
           semi == <<Semicolon>>
           tail == semi \o rest
           w == head \o tail
           M == ScanMachine(C)
           one == Append(none, head)
           s0 == Plain(none, none, NoQuote)
           s4 == Plain(one, rest, NoQuote)
<1>1. none \in Seq(Seq(C)) /\ none \in Seq(C)
  OBVIOUS
<1>2. mid \in Seq(C)
  BY <1>1, QuotedRead
<1>3. semi \in Seq(C)
  OBVIOUS
<1> HIDE DEF mid, semi
<1>4. head \in Seq(C)
  BY <1>2
<1>5. tail \in Seq(C)
  BY <1>3
<1>6. none \o lead = lead
  OBVIOUS
<1>7. none \o rest = rest
  OBVIOUS
<1> HIDE DEF head, tail
<1>8. one \in Seq(Seq(C)) /\ one = <<head>>
  BY <1>4
<1> HIDE DEF none, one
<1>9. Run(M, s0, lead, Plain(none, lead, NoQuote))
  <2>1. Run(M, s0, lead, Plain(none, none \o lead, NoQuote))
    BY <1>1, ScanOrdinary
  <2>2. QED
    BY <1>6, <2>1
<1>10. Run(M, Plain(none, lead, NoQuote), mid, Plain(none, head, NoQuote))
  BY <1>1, QuotedRead DEF mid, head
<1>11. Run(M, Plain(none, head, NoQuote), semi, Plain(one, none, NoQuote))
  <2>1. NoQuote \in Quotes \cup {NoQuote}
    OBVIOUS
  <2>2. Plain(none, head, NoQuote) \in DsnScans(C)
    BY <1>1, <1>4, <2>1, ScansTyped
  <2>3. ScanChar(Plain(none, head, NoQuote), Semicolon) = Plain(one, none, NoQuote)
    BY ScanSteps2 DEF one, none
  <2>4. QED
    BY <2>2, <2>3, ScanOne DEF semi
<1>12. Run(M, Plain(one, none, NoQuote), rest, s4)
  <2>1. Run(M, Plain(one, none, NoQuote), rest, Plain(one, none \o rest, NoQuote))
    BY <1>1, <1>8, ScanOrdinary
  <2>2. QED
    BY <1>7, <2>1
<1> HIDE DEF M, s0, s4
<1>13. Run(M, s0, head, Plain(none, head, NoQuote))
  BY <1>2, <1>9, <1>10, RunJoined DEF head
<1>14. Run(M, Plain(none, head, NoQuote), tail, s4)
  BY <1>3, <1>11, <1>12, RunJoined DEF tail
<1>15. Run(M, s0, w, s4)
  BY <1>4, <1>5, <1>13, <1>14, RunJoined
<1>16. w \in Seq(C)
  BY <1>4, <1>5
<1> HIDE DEF w
<1>17. FoldLeft(ScanChar, NewScan, w) = s4
  <2> DEFINE t == FoldLeft(ScanChar, s0, w)
  <2>1. s0 \in DsnScans(C)
    <3>1. NoQuote \in Quotes \cup {NoQuote}
      OBVIOUS
    <3>2. QED
      BY <1>1, <3>1, ScansTyped DEF s0
  <2>2. Run(M, s0, w, t)
    BY <1>16, <2>1, ScanLooped DEF M
  <2> HIDE DEF t
  <2>3. t = s4
    BY <1>15, <1>16, <2>2, RunDetermined
  <2>4. NewScan = s0
    BY Zenon DEF NewScan, Plain, s0, none
  <2>5. QED
    BY <2>3, <2>4 DEF t
<1>18. ~s4.escaped /\ s4.quote = NoQuote /\ s4.parts = one /\ s4.current = rest
  BY DEF s4, Plain
<1>19. SplitDSNSegments(w) = Append(one, rest)
  BY <1>17, <1>18 DEF SplitDSNSegments
<1>20. Append(one, rest) = <<head, rest>>
  <2> DEFINE u == <<head>>
             S == Seq(C)
  <2>1. head \in S /\ rest \in S /\ u \in Seq(S)
    BY <1>4
  <2>2. one = u
    BY <1>8
  <2> HIDE DEF S
  <2>3. u \o <<rest>> = <<head, rest>>
    BY <2>1, Pair
  <2> HIDE DEF u
  <2>4. Append(u, rest) = u \o <<rest>>
    BY <2>1
  <2>5. QED
    BY <2>2, <2>3, <2>4
<1>21. QED
  BY <1>19, <1>20 DEF w, head, tail, mid, semi

(* The end of a word is a word.                                              *)
LEMMA EndTyped ==
    ASSUME NEW C, NEW s \in Seq(C), NEW m \in 1..Len(s)
    PROVE  SubSeq(s, m, Len(s)) \in Seq(C)
  OBVIOUS

(* A segment with a one-character key and a value that can be read, and what *)
(* is read.                                                                  *)
Assigned(part) ==
    /\ ~(Len(part) < 2) /\ part[2] = "="
    /\ UnquoteDSNValue(SubSeq(part, 3, Len(part))) # BadDsnValue
PairOf(part) == [key |-> part[1], value |-> UnquoteDSNValue(SubSeq(part, 3, Len(part)))]

(* What parseKeyValueDSN makes of two segments with one-character keys.      *)
LEMMA TwoSegments ==
    ASSUME NEW C, NEW dsn, NEW head \in Seq(C), NEW rest \in Seq(C),
           SplitDSNSegments(dsn) = <<head, rest>>, Assigned(head), Assigned(rest)
    PROVE  KeyValues(dsn) = << PairOf(head), PairOf(rest) >>
<1> DEFINE parts == <<head, rest>>
           S == Seq(C)
           kept == FoldLeft(KeepSegment, <<>>, parts)
<1>1. Len(parts) = 2 /\ DOMAIN parts = 1..2
  OBVIOUS
<1>2. parts[1] = head /\ parts[2] = rest
  OBVIOUS
<1>3. parts # BadDsn
  <2>1. Len(BadDsn) = 1
    BY DEF BadDsn
  <2>2. ASSUME parts = BadDsn PROVE FALSE
    <3> HIDE DEF parts
    <3>1. Len(parts) = Len(BadDsn)
      BY <2>2, Zenon
    <3>2. 2 = 1
      BY <1>1, <2>1, <3>1, Zenon
    <3>3. QED
      BY <3>2
  <2>3. QED
    BY <2>2
<1>4. \A p \in {head, rest} : ~(Len(p) < 2) /\ p[2] = "="
  BY DEF Assigned
<1>5. \A p \in {head, rest} : UnquoteDSNValue(SubSeq(p, 3, Len(p))) # BadDsnValue
  BY Zenon DEF Assigned
<1>6. parts \in Seq(S)
  OBVIOUS
<1> HIDE DEF parts
<1>7. kept = parts
  <2>1. \A i \in 1..Len(parts) : parts[i] # <<>>
    <3>1. head # <<>> /\ rest # <<>>
      BY DEF Assigned
    <3>2. QED
      BY <1>1, <1>2, <3>1
  <2>2. parts \in Seq(Seq(C))
    BY <1>6
  <2>3. QED
    BY <2>1, <2>2, AllKept
<1>8. ToSet(kept) = {head, rest}
  <2>1. ToSet(parts) = { parts[i] : i \in 1..2 }
    BY <1>1 DEF ToSet
  <2>2. { parts[i] : i \in 1..2 } = {head, rest}
    BY <1>2
  <2>3. QED
    BY <1>7, <2>1, <2>2
<1>9. SplitDSNSegments(dsn) = parts
  BY DEF parts
<1>10. KeyValues(dsn) = [i \in DOMAIN kept |-> PairOf(kept[i])]
  <2> DEFINE used == IF parts = BadDsn THEN <<>> ELSE kept
  <2>1. used = kept
    BY <1>3
  <2> HIDE DEF kept
  <2>2. ~ \E p \in ToSet(used) : Len(p) < 2 \/ p[2] # "="
    BY <1>4, <1>8, <2>1
  <2>3. ~ \E p \in ToSet(used) : UnquoteDSNValue(SubSeq(p, 3, Len(p))) = BadDsnValue
    BY <1>5, <1>8, <2>1
  <2>4. KeyValues(dsn) = IF \/ parts = BadDsn
                            \/ \E p \in ToSet(used) : Len(p) < 2 \/ p[2] # "="
                            \/ \E p \in ToSet(used) : UnquoteDSNValue(SubSeq(p, 3, Len(p))) = BadDsnValue
                         THEN BadDsn
                         ELSE [i \in DOMAIN used |-> PairOf(used[i])]
    BY <1>9, Zenon DEF KeyValues, kept, PairOf
  <2> HIDE DEF used
  <2>5. KeyValues(dsn) = [i \in DOMAIN used |-> PairOf(used[i])]
    BY <1>3, <2>2, <2>3, <2>4, Zenon
  <2>6. QED
    BY <2>1, <2>5
<1>11. KeyValues(dsn) = [i \in 1..2 |-> PairOf(parts[i])]
  BY <1>1, <1>7, <1>10
<1>12. QED
  BY <1>2, <1>11

(* A value quoted as the comment of ParseDSN says comes back as it was, for  *)
(* every value over any characters, and the segment after it is read as its  *)
(* own (splitDSNSegments, unquoteDSNValue).  "error" stands for the error    *)
(* return of unquoteDSNValue and is no character.                            *)
THEOREM QuotedComesBack ==
    ASSUME NEW T, "error" \notin T, NEW value \in Seq(T), NEW quote \in Quotes
    PROVE  QuotedSurvives(value, quote)
<1> DEFINE C == T \cup Quotes \cup {Backslash, Semicolon, "password", "user", "=", "a"}
           lead == <<"password", "=">>
           user == <<"user", "=">>
           rest == <<"user", "=", "a">>
           last == <<"a">>
           semi == <<Semicolon>>
           mid == Quoted(value, quote)
           head == lead \o mid
           end == <<Semicolon, "user", "=", "a">>
<1>1. /\ Backslash \in C /\ Semicolon \in C /\ Quotes \subseteq C
      /\ "password" \in C /\ "user" \in C /\ "=" \in C /\ "a" \in C
  OBVIOUS
<1>2. value \in Seq(C)
  <2>1. T \subseteq C
    OBVIOUS
  <2> HIDE DEF C
  <2>2. Len(value) \in Nat /\ value \in [1..Len(value) -> C]
    BY <2>1
  <2>3. QED
    BY <2>2, SequenceOf
<1> HIDE DEF C
<1>3. lead \in Seq(C) /\ user \in Seq(C) /\ rest \in Seq(C) /\ last \in Seq(C) /\ semi \in Seq(C)
  BY <1>1
<1>4. Len(lead) = 2 /\ lead[1] = "password" /\ lead[2] = "="
  OBVIOUS
<1>5. Len(rest) = 3 /\ rest[1] = "user" /\ rest[2] = "=" /\ rest[3] = "a"
  OBVIOUS
<1>6. semi \o rest = end
  <2> DEFINE b == semi \o rest
  <2>1. Len(semi) = 1 /\ semi[1] = Semicolon
    OBVIOUS
  <2>2. end \in Seq(C) /\ Len(end) = 4
    BY <1>1
  <2>3. end[1] = Semicolon /\ end[2] = "user" /\ end[3] = "=" /\ end[4] = "a"
    OBVIOUS
  <2> HIDE DEF semi, rest, end
  <2>4. /\ b \in Seq(C) /\ Len(b) = Len(semi) + Len(rest)
        /\ \A i \in 1..Len(semi) : b[i] = semi[i]
        /\ \A i \in 1..Len(rest) : b[Len(semi) + i] = rest[i]
    BY <1>3, FrontOfJoined
  <2> HIDE DEF b
  <2>5. Len(b) = 4
    BY <1>5, <2>1, <2>4
  <2>6. b[1] = semi[1] /\ b[1 + 1] = rest[1] /\ b[1 + 2] = rest[2] /\ b[1 + 3] = rest[3]
    <3>1. 1 \in 1..Len(semi) /\ 1 \in 1..Len(rest) /\ 2 \in 1..Len(rest) /\ 3 \in 1..Len(rest)
      BY <1>5, <2>1
    <3>2. QED
      BY <2>1, <2>4, <3>1
  <2>7. b[1] = Semicolon /\ b[2] = "user" /\ b[3] = "=" /\ b[4] = "a"
    BY <1>5, <2>1, <2>6
  <2>8. \A i \in 1..4 : b[i] = end[i]
    BY <2>3, <2>7
  <2>9. b \in Seq(C)
    BY <2>4
  <2>10. end \in Seq(C) /\ Len(b) = Len(end) /\ \A i \in 1..Len(b) : b[i] = end[i]
    BY <2>2, <2>5, <2>8
  <2>11. b = end
    BY <2>9, <2>10
  <2>12. QED
    BY <2>11 DEF b
<1>7. \A i \in 1..Len(lead) : lead[i] \notin Quotes /\ lead[i] # Backslash /\ lead[i] # Semicolon
  BY <1>4 DEF Quotes, Backslash, Semicolon
<1>8. \A i \in 1..Len(rest) : rest[i] \notin Quotes /\ rest[i] # Backslash /\ rest[i] # Semicolon
  BY <1>5 DEF Quotes, Backslash, Semicolon
<1>9. mid \in Seq(C) /\ UnquoteDSNValue(mid) = value
  <2> DEFINE none == <<>>
  <2>1. none \in Seq(Seq(C)) /\ none \in Seq(C)
    OBVIOUS
  <2> HIDE DEF none
  <2>2. QED
    BY <1>1, <1>2, <2>1, QuotedRead
<1>10. SubSeq(rest, 3, Len(rest)) = last
  <2> DEFINE r == SubSeq(rest, 3, Len(rest))
  <2>1. Len(last) = 1 /\ last[1] = "a"
    OBVIOUS
  <2> HIDE DEF rest, last
  <2>2. r \in Seq(C) /\ Len(r) = 1 /\ r[1] = rest[3]
    <3>1. rest \in Seq(C) /\ Len(rest) = 3
      BY <1>3, <1>5
    <3>2. r \in Seq(C)
      <4>1. 3 \in 1..Len(rest)
        BY <3>1
      <4>2. QED
        BY <3>1, <4>1, EndTyped
    <3>3. Len(r) = 1
      BY <3>1
    <3>4. r[1] = rest[3]
      BY <3>1
    <3>5. QED
      BY <3>2, <3>3, <3>4
  <2> HIDE DEF r
  <2>3. \A i \in 1..1 : r[i] = last[i]
    BY <1>5, <2>1, <2>2
  <2>4. r = last
    BY <1>3, <2>1, <2>2, <2>3
  <2>5. QED
    BY <2>4 DEF r
<1>11. UnquoteDSNValue(last) = last
  <2>1. Len(last) = 1
    OBVIOUS
  <2> HIDE DEF last
  <2>2. QED
    BY <2>1 DEF UnquoteDSNValue
<1>12. last # BadDsnValue
  BY DEF BadDsnValue
<1>13. value # BadDsnValue
  <2>1. Len(BadDsnValue) = 1 /\ BadDsnValue[1] = "error"
    BY DEF BadDsnValue
  <2>2. SUFFICES ASSUME value = BadDsnValue PROVE FALSE
    OBVIOUS
  <2>3. 1 \in 1..Len(value)
    BY <2>1, <2>2
  <2>4. value[1] \in T
    BY <2>3
  <2>5. QED
    BY <2>1, <2>2, <2>4
<1> HIDE DEF lead, rest, mid, semi, end
<1>14. head \in Seq(C) /\ Len(head) = 2 + Len(mid) /\ Len(mid) \in Nat
  <2>1. lead \in Seq(C) /\ mid \in Seq(C)
    BY <1>3, <1>9
  <2>2. head \in Seq(C) /\ Len(head) = Len(lead) + Len(mid)
    BY <2>1, FrontOfJoined
  <2>3. Len(mid) \in Nat
    BY <2>1
  <2> HIDE DEF head
  <2>4. QED
    BY <1>4, <2>2, <2>3
<1>15. head[1] = "password" /\ head[2] = "="
  <2>1. \A i \in 1..Len(lead) : head[i] = lead[i]
    BY <1>3, <1>9, FrontOfJoined
  <2>2. 1 \in 1..Len(lead) /\ 2 \in 1..Len(lead)
    BY <1>4
  <2> HIDE DEF head
  <2>3. QED
    BY <1>4, <2>1, <2>2
<1>16. SubSeq(head, 3, Len(head)) = mid
  <2>1. SubSeq(head, Len(lead) + 1, Len(head)) = mid
    BY <1>3, <1>9, RestOfJoined
  <2>2. Len(lead) + 1 = 3
    BY <1>4
  <2>3. QED
    BY <2>1, <2>2
<1>17. SplitDSNSegments(head \o (semi \o rest)) = <<head, rest>>
  BY <1>1, <1>2, <1>3, <1>7, <1>8, QuotedSplit, ZenonT(40) DEF mid, semi
<1> HIDE DEF head
<1>18. KeyValues(head \o end) = << [key |-> "password", value |-> value], [key |-> "user", value |-> last] >>
  <2>1. SplitDSNSegments(head \o end) = <<head, rest>>
    BY <1>6, <1>17
  <2>2. ~(Len(head) < 2) /\ ~(Len(rest) < 2)
    BY <1>5, <1>14
  <2>3. UnquoteDSNValue(SubSeq(head, 3, Len(head))) = value
    BY <1>9, <1>16
  <2>4. UnquoteDSNValue(SubSeq(rest, 3, Len(rest))) = last
    BY <1>10, <1>11
  <2>5. head \in Seq(C) /\ rest \in Seq(C)
    BY <1>3, <1>14
  <2> HIDE DEF last
  <2>6. Assigned(head) /\ Assigned(rest)
    BY <1>5, <1>12, <1>13, <1>15, <2>2, <2>3, <2>4 DEF Assigned
  <2>7. PairOf(head) = [key |-> "password", value |-> value]
    BY <1>15, <2>3, Zenon DEF PairOf
  <2>8. PairOf(rest) = [key |-> "user", value |-> last]
    BY <1>5, <2>4, Zenon DEF PairOf
  <2> DEFINE dsn == head \o end
  <2>9. SplitDSNSegments(dsn) = <<head, rest>>
    BY <2>1
  <2> HIDE DEF dsn
  <2>10. KeyValues(dsn) = << PairOf(head), PairOf(rest) >>
    BY <2>5, <2>6, <2>9, TwoSegments
  <2>11. QED
    BY <2>7, <2>8, <2>10 DEF dsn
<1>19. QED
  BY <1>18 DEF QuotedSurvives, head, lead, mid, end

(* Configurations, parts of a server value and options over the values V:    *)
(* the ones that only set a field, those of a query, and those between       *)
(* semicolons that are known.                                                *)
Configs(V) == [ConfigFields -> V]
PartsOver(V) == UNION { [D -> V] : D \in SUBSET ConfigFields }
PlainOver(V) ==
    [key : ConfigFields \ {"user", "proxy"}, value : V] \cup [key : {"user"}, value : [login : V, proxy : V]]
QueryOver(V) ==
    PlainOver(V) \cup [key : {"as", "unknown", "invalid"}, value : V]
        \cup [key : {"server"}, value : [parts : PartsOver(V), query : {<<>>}]]
ServersOver(V) == [parts : PartsOver(V), query : Seq(QueryOver(V))]
KnownOver(V) == PlainOver(V) \cup [key : {"server"}, value : ServersOver(V)]
OptionsOver(V) == KnownOver(V) \cup [key : {"as", "unknown", "invalid"}, value : V]

(* The values hold the ones a field has before any option.                   *)
HoldsDefaults(V) == \A f \in ConfigFields : EmptyConfig[f] \in V

(* The configuration r is cfg where G[f], if it is not empty, has the value  *)
(* of the field f.                                                           *)
Takes(V, cfg, r, G) ==
    r \in Configs(V) /\ \A f \in ConfigFields : r[f] \in OneOf(G[f], cfg[f])

(* What every query option and every known option gives, and what a whole    *)
(* list of them gives together.                                              *)
QueryGiving(o) == [f \in ConfigFields |-> QueryGives(o, f)]
OptionGiving(o) == [f \in ConfigFields |-> OptionGives(o, f)]
Together(give, word) == [f \in ConfigFields |-> UNION { give[word[i]][f] : i \in DOMAIN word }]

(* The fields by name.                                                       *)
LEMMA ConfigFieldNames ==
    /\ {"host", "port", "user", "proxy", "password", "database", "mode", "keyFile"} = ConfigFields
    /\ "as" \notin ConfigFields /\ "unknown" \notin ConfigFields
    /\ "invalid" \notin ConfigFields /\ "server" \notin ConfigFields
  BY DEF ConfigFields

(* An option of applyDSNOption but for the server.                           *)
LEMMA PlainTakes ==
    ASSUME NEW V, NEW cfg \in Configs(V), NEW o \in PlainOver(V)
    PROVE  /\ Takes(V, cfg, ApplyPlainOption(cfg, o), QueryGiving(o))
           /\ o.key \in ConfigFields
<1>1. CASE o \in [key : ConfigFields \ {"user", "proxy"}, value : V]
  <2>1. o.key \in ConfigFields /\ o.key \notin {"user", "proxy"} /\ o.value \in V
    BY <1>1
  <2>2. o.key \notin {"server", "as", "user"}
    BY <2>1, ConfigFieldNames
  <2>3. ApplyPlainOption(cfg, o) = [cfg EXCEPT ![o.key] = o.value]
    BY <2>2 DEF ApplyPlainOption
  <2>4. \A f \in ConfigFields : QueryGives(o, f) = IF f = o.key THEN {o.value} ELSE {}
    BY <2>2 DEF QueryGives
  <2> DEFINE r == ApplyPlainOption(cfg, o)
  <2>5. r = [cfg EXCEPT ![o.key] = o.value]
    BY <2>3
  <2> HIDE DEF r
  <2>6. r \in Configs(V) /\ \A f \in ConfigFields : r[f] = IF f = o.key THEN o.value ELSE cfg[f]
    BY <2>1, <2>5 DEF Configs
  <2>7. QED
    BY <2>1, <2>4, <2>6 DEF Takes, QueryGiving, OneOf, r
<1>2. CASE o \in [key : {"user"}, value : [login : V, proxy : V]]
  <2> DEFINE P == ProxyOf(o.value)
             l == o.value.login
             p == IF P # "" THEN P ELSE cfg.proxy
             c == [cfg EXCEPT !["user"] = l]
             r == [c EXCEPT !["proxy"] = p]
  <2>1. o.key = "user" /\ l \in V /\ o.value.proxy \in V
    BY <1>2
  <2>2. "user" \in ConfigFields /\ "proxy" \in ConfigFields
    BY ConfigFieldNames
  <2>3. p \in V
    BY <2>1, <2>2 DEF ProxyOf, Configs
  <2>4. ApplyPlainOption(cfg, o) = r
    BY <2>1, <2>2 DEF ApplyPlainOption, Configs
  <2>5. \A f \in ConfigFields : QueryGives(o, f) = CASE f = "user" -> {l}
                                              [] f = "proxy" -> {P} \ {""}
                                              [] OTHER -> {}
    BY <2>1 DEF QueryGives
  <2> HIDE DEF P, l, p
  <2> HIDE DEF c, r
  <2>6. c \in Configs(V) /\ \A f \in ConfigFields : c[f] = IF f = "user" THEN l ELSE cfg[f]
    <3>1. c = [cfg EXCEPT !["user"] = l]
      BY DEF c
    <3>2. QED
      BY <2>1, <3>1 DEF Configs
  <2>7. r \in Configs(V) /\ \A f \in ConfigFields : r[f] = IF f = "proxy" THEN p ELSE c[f]
    <3>1. r = [c EXCEPT !["proxy"] = p]
      BY DEF r
    <3>2. QED
      BY <2>3, <2>6, <3>1 DEF Configs
  <2>8. ASSUME NEW f \in ConfigFields PROVE r[f] \in OneOf(QueryGives(o, f), cfg[f])
    <3>1. CASE f = "user"
      <4>1. QueryGives(o, f) = {l} /\ r[f] = l
        BY <2>5, <2>6, <2>7, <3>1
      <4>2. QED
        BY <4>1 DEF OneOf
    <3>2. CASE f = "proxy"
      BY <2>5, <2>6, <2>7, <3>2 DEF OneOf, p
    <3>3. CASE f \notin {"user", "proxy"}
      BY <2>5, <2>6, <2>7, <3>3 DEF OneOf
    <3>4. QED
      BY <3>1, <3>2, <3>3
  <2>9. QED
    BY <2>1, <2>2, <2>4, <2>7, <2>8 DEF Takes, QueryGiving
<1>3. QED
  BY <1>1, <1>2 DEF PlainOver

(* The parts of a server value.                                              *)
LEMMA PartsTake ==
    ASSUME NEW V, NEW cfg \in Configs(V), NEW parts \in PartsOver(V)
    PROVE  Takes(V, cfg, ApplyParts(cfg, parts), [f \in ConfigFields |-> PartGives(parts, f)])
<1> DEFINE r == ApplyParts(cfg, parts)
<1>1. PICK D \in SUBSET ConfigFields : parts \in [D -> V]
  BY DEF PartsOver
<1>2. DOMAIN parts = D /\ \A f \in D : parts[f] \in V
  BY <1>1
<1>3. r = [f \in ConfigFields |-> IF f \in D THEN parts[f] ELSE cfg[f]]
  BY <1>2 DEF ApplyParts
<1> HIDE DEF r
<1>4. r \in Configs(V) /\ \A f \in ConfigFields : r[f] = IF f \in D THEN parts[f] ELSE cfg[f]
  BY <1>2, <1>3 DEF Configs
<1>5. \A f \in ConfigFields : PartGives(parts, f) = IF f \in D THEN {parts[f]} ELSE {}
  BY <1>2 DEF PartGives
<1>6. QED
  BY <1>4, <1>5 DEF Takes, OneOf, r

(* An option of a query.                                                     *)
LEMMA QueryTakes ==
    ASSUME NEW V, NEW cfg \in Configs(V), NEW o \in QueryOver(V)
    PROVE  Takes(V, cfg, ApplyQueryOption(cfg, o), QueryGiving(o))
<1> DEFINE r == ApplyQueryOption(cfg, o)
<1>1. CASE o \in PlainOver(V)
  <2>1. o.key \in ConfigFields /\ Takes(V, cfg, ApplyPlainOption(cfg, o), QueryGiving(o))
    BY <1>1, PlainTakes
  <2>2. o.key \notin {"as", "unknown", "server"}
    BY <2>1, ConfigFieldNames
  <2>3. r = ApplyPlainOption(cfg, o)
    BY <2>2 DEF ApplyQueryOption
  <2> HIDE DEF r
  <2>4. QED
    BY <2>1, <2>3 DEF r
<1>2. CASE o \in [key : {"as", "unknown", "invalid"}, value : V]
  <2>1. o.key \in {"as", "unknown", "invalid"} /\ o.value \in V
    BY <1>2
  <2>2. CASE o.key = "as"
    <3>1. r = [cfg EXCEPT !["proxy"] = o.value]
      BY <2>2 DEF ApplyQueryOption
    <3>2. \A f \in ConfigFields : QueryGives(o, f) = IF f = "proxy" THEN {o.value} ELSE {}
      BY <2>2 DEF QueryGives
    <3> HIDE DEF r
    <3>3. r \in Configs(V) /\ \A f \in ConfigFields : r[f] = IF f = "proxy" THEN o.value ELSE cfg[f]
      BY <2>1, <3>1 DEF Configs
    <3>4. QED
      BY <3>2, <3>3 DEF Takes, QueryGiving, OneOf, r
  <2>3. CASE o.key # "as"
    <3>1. o.key \notin ConfigFields /\ o.key \notin {"server", "user", "as"}
      BY <2>1, <2>3, ConfigFieldNames
    <3>2. \A f \in ConfigFields : QueryGives(o, f) = {}
      BY <3>1 DEF QueryGives
    <3>3. r = cfg
      <4>1. [cfg EXCEPT ![o.key] = o.value] = cfg
        BY <3>1 DEF Configs
      <4>2. ApplyPlainOption(cfg, o) = [cfg EXCEPT ![o.key] = o.value]
        BY <3>1 DEF ApplyPlainOption
      <4>3. QED
        BY <3>1, <4>1, <4>2 DEF ApplyQueryOption
    <3> HIDE DEF r
    <3>4. QED
      BY <3>2, <3>3 DEF Takes, QueryGiving, OneOf, r
  <2>4. QED
    BY <2>2, <2>3
<1>3. CASE o \in [key : {"server"}, value : [parts : PartsOver(V), query : {<<>>}]]
  <2>1. o.key = "server" /\ o.value.parts \in PartsOver(V)
    BY <1>3
  <2>2. r = ApplyParts(cfg, o.value.parts)
    BY <2>1 DEF ApplyQueryOption
  <2>3. QueryGiving(o) = [f \in ConfigFields |-> PartGives(o.value.parts, f)]
    BY <2>1 DEF QueryGiving, QueryGives
  <2> HIDE DEF r
  <2>4. QED
    BY <2>1, <2>2, <2>3, PartsTake DEF r
<1>4. QED
  BY <1>1, <1>2, <1>3 DEF QueryOver

(* One after the other: the later one has the last word.                     *)
LEMMA TakesAfter ==
    ASSUME NEW V, NEW a, NEW b, NEW c, NEW G, NEW H,
           Takes(V, a, b, G), Takes(V, b, c, H)
    PROVE  Takes(V, a, c, [f \in ConfigFields |-> IF H[f] = {} THEN G[f] ELSE H[f]])
  BY DEF Takes, OneOf

(* A machine F that reads one option after the other gives every field what  *)
(* one of them gives it.                                                     *)
LEMMA LoopTakes ==
    ASSUME NEW V, NEW O, NEW F, NEW give, NEW base \in Configs(V), NEW word \in Seq(O), NEW r,
           Run(F, base, word, r),
           \A cfg \in Configs(V) : \A o \in O : Takes(V, cfg, F[cfg][o], give[o])
    PROVE  Takes(V, base, r, Together(give, word))
<1> DEFINE n == Len(word)
           Upto(i) == [f \in ConfigFields |-> UNION { give[word[j]][f] : j \in 1..i }]
<1>1. n \in Nat /\ DOMAIN word = 1..n /\ \A i \in 1..n : word[i] \in O
  OBVIOUS
<1>2. PICK g : g[0] = base /\ g[n] = r /\ \A i \in 1..n : g[i] = F[g[i - 1]][word[i]]
  BY DEF Run
<1> HIDE DEF n
<1> DEFINE T == { i \in 0..n : Takes(V, base, g[i], Upto(i)) }
<1>3. 0 \in T
  <2>1. \A f \in ConfigFields : Upto(0)[f] = {}
    OBVIOUS
  <2> HIDE DEF Upto
  <2>2. Takes(V, base, g[0], Upto(0))
    BY <1>2, <2>1 DEF Takes, OneOf
  <2>3. QED
    BY <1>1, <2>2
<1>4. ASSUME NEW i \in 0..n - 1, i \in T PROVE i + 1 \in T
  <2>1. i + 1 \in 1..n /\ i + 1 \in 0..n /\ (i + 1) - 1 = i
    BY <1>1
  <2>2. Takes(V, base, g[i], Upto(i))
    BY <1>4
  <2> DEFINE H == give[word[i + 1]]
  <2>3. \A f \in ConfigFields : Upto(i + 1)[f] = Upto(i)[f] \cup H[f]
    <3> SUFFICES ASSUME NEW f \in ConfigFields PROVE Upto(i + 1)[f] = Upto(i)[f] \cup H[f]
      OBVIOUS
    <3>1. 1..i + 1 = (1..i) \cup {i + 1}
      BY <1>1
    <3>2. QED
      BY <3>1
  <2> HIDE DEF Upto, H
  <2>4. g[i] \in Configs(V)
    BY <2>2 DEF Takes
  <2>5. g[i + 1] = F[g[i]][word[i + 1]]
    BY <1>2, <2>1
  <2>6. Takes(V, g[i], g[i + 1], H)
    BY <1>1, <2>1, <2>4, <2>5 DEF H
  <2>7. Takes(V, base, g[i + 1], Upto(i + 1))
    BY <2>2, <2>3, <2>6 DEF Takes, OneOf
  <2>8. QED
    BY <2>1, <2>7
<1> HIDE DEF T
<1>5. n \in T
  <2>1. \A i \in 0..n : i \in T
    BY <1>1, <1>3, <1>4, Upwards
  <2>2. QED
    BY <1>1, <2>1
<1>6. Upto(n) = Together(give, word)
  BY <1>1 DEF Together
<1> HIDE DEF Upto
<1>7. QED
  BY <1>2, <1>5, <1>6 DEF T

(* The loop of applyServerValue over the options as a machine.               *)
QueryMachine(U) ==
    [cfg \in Configs(U) |-> [o \in QueryOver(U) |-> ApplyQueryOption(cfg, o)]]

(* The loop over the options of a URL is a run of its machine.               *)
LEMMA QueryLooped ==
    ASSUME NEW U, NEW word \in Seq(QueryOver(U)), NEW base \in Configs(U)
    PROVE  Run(QueryMachine(U), base, word, FoldLeft(ApplyQueryOption, base, word))
<1> DEFINE n == Len(word)
           V == Configs(U)
           F == [i \in 1..n |-> [v \in V |-> ApplyQueryOption(v, word[i])]]
           E(g) == g = [s \in SUBSET (1..n) |->
                          IF s = {} THEN base ELSE ApplyQueryOption(g[s \ {Max(s)}], word[Max(s)])]
           e == CHOOSE g : E(g)
<1>1. n \in Nat /\ DOMAIN word = 1..n /\ \A i \in 1..n : word[i] \in QueryOver(U)
  OBVIOUS
<1>2. base \in V
  OBVIOUS
<1>3. F \in [1..n -> [V -> V]] /\ \A i \in 1..n : \A v \in V : F[i][v] = ApplyQueryOption(v, word[i])
  <2>1. \A i \in 1..n : \A v \in V : F[i][v] = ApplyQueryOption(v, word[i])
    OBVIOUS
  <2>2. \A i \in 1..n : \A v \in V : ApplyQueryOption(v, word[i]) \in V
    BY <1>1, QueryTakes DEF Takes, V
  <2>3. QED
    BY <2>1, <2>2
<1>4. FoldLeft(ApplyQueryOption, base, word) = e[1..n]
  BY <1>1 DEF FoldLeft, MapThenFoldSet
<1> HIDE DEF n, V, F
<1>5. \E g : E(g)
  <2>1. OverSets(n, V, base, F)
    BY <1>1, <1>2, <1>3, Folding
  <2>2. PICK g \in [SUBSET (1..n) -> V] :
          \A s \in SUBSET (1..n) : g[s] = IF s = {} THEN base ELSE F[Max(s)][g[s \ {Max(s)}]]
    BY <2>1 DEF OverSets
  <2>3. ASSUME NEW s \in SUBSET (1..n), s # {}
        PROVE  F[Max(s)][g[s \ {Max(s)}]] = ApplyQueryOption(g[s \ {Max(s)}], word[Max(s)])
    <3>1. Max(s) \in 1..n /\ s \ {Max(s)} \in SUBSET (1..n)
      BY <1>1, <2>3, Largest
    <3>2. QED
      BY <1>3, <3>1
  <2>4. g = [s \in SUBSET (1..n) |->
               IF s = {} THEN base ELSE ApplyQueryOption(g[s \ {Max(s)}], word[Max(s)])]
    BY <2>2, <2>3
  <2>5. QED
    BY <2>4
<1>6. E(e)
  <2> HIDE DEF E
  <2>1. QED
    BY <1>5
<1>7. \A s \in SUBSET (1..n) : e[s] = IF s = {} THEN base
                                       ELSE ApplyQueryOption(e[s \ {Max(s)}], word[Max(s)])
  BY <1>6
<1> HIDE DEF e
<1>8. e[{}] = base
  BY <1>7
<1>9. \A s \in SUBSET (1..n) : s # {} /\ e[s \ {Max(s)}] \in V => e[s] = F[Max(s)][e[s \ {Max(s)}]]
  <2> SUFFICES ASSUME NEW s \in SUBSET (1..n), s # {}, e[s \ {Max(s)}] \in V
               PROVE  e[s] = F[Max(s)][e[s \ {Max(s)}]]
    OBVIOUS
  <2>1. Max(s) \in 1..n
    BY <1>1, Largest
  <2>2. QED
    BY <1>3, <1>7, <2>1
<1>10. /\ e[1..0] = base
       /\ \A i \in 0..n : e[1..i] \in V
       /\ \A i \in 1..n : e[1..i] = F[i][e[1..i - 1]]
  <2>1. OnSets(n, V, base, F, e)
    BY <1>8, <1>9 DEF OnSets
  <2>2. OnPlaces(n, V, base, F, e)
    BY <1>1, <1>2, <1>3, <2>1, Unfolding
  <2>3. QED
    BY <2>2 DEF OnPlaces
<1> DEFINE f == [i \in 0..n |-> e[1..i]]
           M == QueryMachine(U)
<1>11. f[0] = base /\ f[n] = e[1..n]
  BY <1>1, <1>10
<1>12. ASSUME NEW v \in V, NEW c \in QueryOver(U) PROVE M[v][c] = ApplyQueryOption(v, c)
  BY DEF QueryMachine, V
<1> HIDE DEF M
<1>13. ASSUME NEW i \in 1..n PROVE f[i] = M[f[i - 1]][word[i]]
  <2>1. i - 1 \in 0..n /\ i \in 0..n
    BY <1>1
  <2>2. f[i] = e[1..i] /\ f[i - 1] = e[1..i - 1] /\ e[1..i - 1] \in V /\ word[i] \in QueryOver(U)
    BY <1>1, <1>10, <2>1
  <2> HIDE DEF f
  <2>3. M[f[i - 1]][word[i]] = ApplyQueryOption(f[i - 1], word[i])
    BY <1>12, <2>2
  <2>4. QED
    BY <1>3, <1>10, <2>2, <2>3
<1> HIDE DEF f
<1>14. Run(M, base, word, e[1..n])
  BY <1>11, <1>13 DEF Run, n
<1>15. QED
  BY <1>4, <1>14 DEF M

(* A server value: its parts, and then its query.                            *)
LEMMA ServerTakes ==
    ASSUME NEW V, NEW cfg \in Configs(V), NEW server \in ServersOver(V)
    PROVE  Takes(V, cfg, ApplyServerValue(cfg, server), [f \in ConfigFields |-> ServerGives(server, f)])
<1> DEFINE base == ApplyParts(cfg, server.parts)
           word == server.query
           r == FoldLeft(ApplyQueryOption, base, word)
           O == QueryOver(V)
           F == QueryMachine(V)
           give == [o \in O |-> QueryGiving(o)]
           G == [f \in ConfigFields |-> PartGives(server.parts, f)]
           H == Together(give, word)
<1>1. server.parts \in PartsOver(V) /\ word \in Seq(O)
  BY DEF ServersOver
<1>2. Takes(V, cfg, base, G)
  BY <1>1, PartsTake
<1>3. ApplyServerValue(cfg, server) = r
  BY DEF ApplyServerValue
<1>4. \A f \in ConfigFields : ServerGives(server, f) = IF H[f] = {} THEN G[f] ELSE H[f]
  <2> SUFFICES ASSUME NEW f \in ConfigFields PROVE ServerGives(server, f) = IF H[f] = {} THEN G[f] ELSE H[f]
    OBVIOUS
  <2>1. \A i \in DOMAIN word : give[word[i]][f] = QueryGives(word[i], f)
    <3>1. \A i \in DOMAIN word : word[i] \in O
      BY <1>1
    <3> HIDE DEF O, word
    <3>2. QED
      BY <3>1 DEF QueryGiving
  <2> HIDE DEF give
  <2>2. H[f] = UNION { QueryGives(word[i], f) : i \in DOMAIN word }
    BY <2>1 DEF Together
  <2>3. QED
    BY <2>2 DEF ServerGives
<1> HIDE DEF base
<1>5. base \in Configs(V)
  BY <1>2 DEF Takes
<1> HIDE DEF word, r, G
<1>6. Run(F, base, word, r)
  BY <1>1, <1>5, QueryLooped DEF r
<1>7. \A c \in Configs(V) : \A o \in O : Takes(V, c, F[c][o], give[o])
  BY QueryTakes DEF QueryMachine
<1> HIDE DEF O, F, give
<1>8. Takes(V, base, r, H)
  BY <1>1, <1>5, <1>6, <1>7, LoopTakes
<1> HIDE DEF H
<1>9. Takes(V, cfg, r, [f \in ConfigFields |-> IF H[f] = {} THEN G[f] ELSE H[f]])
  BY <1>2, <1>8, TakesAfter
<1>10. [f \in ConfigFields |-> ServerGives(server, f)] = [f \in ConfigFields |-> IF H[f] = {} THEN G[f] ELSE H[f]]
  BY <1>4
<1>11. QED
  BY <1>3, <1>9, <1>10

(* A known option between semicolons.                                        *)
LEMMA KnownTakes ==
    ASSUME NEW V, NEW cfg \in Configs(V), NEW o \in KnownOver(V)
    PROVE  Takes(V, cfg, ApplyDSNOption(cfg, o), OptionGiving(o))
<1>1. CASE o \in PlainOver(V)
  <2>1. o.key \in ConfigFields /\ Takes(V, cfg, ApplyPlainOption(cfg, o), QueryGiving(o))
    BY <1>1, PlainTakes
  <2>2. o.key # "server"
    BY <2>1, ConfigFieldNames
  <2>3. ApplyDSNOption(cfg, o) = ApplyPlainOption(cfg, o) /\ OptionGiving(o) = QueryGiving(o)
    BY <2>2 DEF ApplyDSNOption, OptionGiving, OptionGives, QueryGiving
  <2>4. QED
    BY <2>1, <2>3
<1>2. CASE o \in [key : {"server"}, value : ServersOver(V)]
  <2>1. o.key = "server" /\ o.value \in ServersOver(V)
    BY <1>2
  <2>2. ApplyDSNOption(cfg, o) = ApplyServerValue(cfg, o.value)
    BY <2>1 DEF ApplyDSNOption
  <2>3. OptionGiving(o) = [f \in ConfigFields |-> ServerGives(o.value, f)]
    BY <2>1 DEF OptionGiving, OptionGives
  <2>4. QED
    BY <2>1, <2>2, <2>3, ServerTakes
<1>3. QED
  BY <1>1, <1>2 DEF KnownOver

(* The loop of parseKeyValueDSN over the options as a machine.               *)
DsnMachine(U) ==
    [cfg \in Configs(U) |-> [o \in KnownOver(U) |-> ApplyDSNOption(cfg, o)]]

(* The loop over the options between semicolons is a run of its machine.     *)
LEMMA DsnLooped ==
    ASSUME NEW U, NEW word \in Seq(KnownOver(U)), NEW base \in Configs(U)
    PROVE  Run(DsnMachine(U), base, word, FoldLeft(ApplyDSNOption, base, word))
<1> DEFINE n == Len(word)
           V == Configs(U)
           F == [i \in 1..n |-> [v \in V |-> ApplyDSNOption(v, word[i])]]
           E(g) == g = [s \in SUBSET (1..n) |->
                          IF s = {} THEN base ELSE ApplyDSNOption(g[s \ {Max(s)}], word[Max(s)])]
           e == CHOOSE g : E(g)
<1>1. n \in Nat /\ DOMAIN word = 1..n /\ \A i \in 1..n : word[i] \in KnownOver(U)
  OBVIOUS
<1>2. base \in V
  OBVIOUS
<1>3. F \in [1..n -> [V -> V]] /\ \A i \in 1..n : \A v \in V : F[i][v] = ApplyDSNOption(v, word[i])
  <2>1. \A i \in 1..n : \A v \in V : F[i][v] = ApplyDSNOption(v, word[i])
    OBVIOUS
  <2>2. \A i \in 1..n : \A v \in V : ApplyDSNOption(v, word[i]) \in V
    BY <1>1, KnownTakes DEF Takes, V
  <2>3. QED
    BY <2>1, <2>2
<1>4. FoldLeft(ApplyDSNOption, base, word) = e[1..n]
  BY <1>1 DEF FoldLeft, MapThenFoldSet
<1> HIDE DEF n, V, F
<1>5. \E g : E(g)
  <2>1. OverSets(n, V, base, F)
    BY <1>1, <1>2, <1>3, Folding
  <2>2. PICK g \in [SUBSET (1..n) -> V] :
          \A s \in SUBSET (1..n) : g[s] = IF s = {} THEN base ELSE F[Max(s)][g[s \ {Max(s)}]]
    BY <2>1 DEF OverSets
  <2>3. ASSUME NEW s \in SUBSET (1..n), s # {}
        PROVE  F[Max(s)][g[s \ {Max(s)}]] = ApplyDSNOption(g[s \ {Max(s)}], word[Max(s)])
    <3>1. Max(s) \in 1..n /\ s \ {Max(s)} \in SUBSET (1..n)
      BY <1>1, <2>3, Largest
    <3>2. QED
      BY <1>3, <3>1
  <2>4. g = [s \in SUBSET (1..n) |->
               IF s = {} THEN base ELSE ApplyDSNOption(g[s \ {Max(s)}], word[Max(s)])]
    BY <2>2, <2>3
  <2>5. QED
    BY <2>4
<1>6. E(e)
  <2> HIDE DEF E
  <2>1. QED
    BY <1>5
<1>7. \A s \in SUBSET (1..n) : e[s] = IF s = {} THEN base
                                       ELSE ApplyDSNOption(e[s \ {Max(s)}], word[Max(s)])
  BY <1>6
<1> HIDE DEF e
<1>8. e[{}] = base
  BY <1>7
<1>9. \A s \in SUBSET (1..n) : s # {} /\ e[s \ {Max(s)}] \in V => e[s] = F[Max(s)][e[s \ {Max(s)}]]
  <2> SUFFICES ASSUME NEW s \in SUBSET (1..n), s # {}, e[s \ {Max(s)}] \in V
               PROVE  e[s] = F[Max(s)][e[s \ {Max(s)}]]
    OBVIOUS
  <2>1. Max(s) \in 1..n
    BY <1>1, Largest
  <2>2. QED
    BY <1>3, <1>7, <2>1
<1>10. /\ e[1..0] = base
       /\ \A i \in 0..n : e[1..i] \in V
       /\ \A i \in 1..n : e[1..i] = F[i][e[1..i - 1]]
  <2>1. OnSets(n, V, base, F, e)
    BY <1>8, <1>9 DEF OnSets
  <2>2. OnPlaces(n, V, base, F, e)
    BY <1>1, <1>2, <1>3, <2>1, Unfolding
  <2>3. QED
    BY <2>2 DEF OnPlaces
<1> DEFINE f == [i \in 0..n |-> e[1..i]]
           M == DsnMachine(U)
<1>11. f[0] = base /\ f[n] = e[1..n]
  BY <1>1, <1>10
<1>12. ASSUME NEW v \in V, NEW c \in KnownOver(U) PROVE M[v][c] = ApplyDSNOption(v, c)
  BY DEF DsnMachine, V
<1> HIDE DEF M
<1>13. ASSUME NEW i \in 1..n PROVE f[i] = M[f[i - 1]][word[i]]
  <2>1. i - 1 \in 0..n /\ i \in 0..n
    BY <1>1
  <2>2. f[i] = e[1..i] /\ f[i - 1] = e[1..i - 1] /\ e[1..i - 1] \in V /\ word[i] \in KnownOver(U)
    BY <1>1, <1>10, <2>1
  <2> HIDE DEF f
  <2>3. M[f[i - 1]][word[i]] = ApplyDSNOption(f[i - 1], word[i])
    BY <1>12, <2>2
  <2>4. QED
    BY <1>3, <1>10, <2>2, <2>3
<1> HIDE DEF f
<1>14. Run(M, base, word, e[1..n])
  BY <1>11, <1>13 DEF Run, n
<1>15. QED
  BY <1>4, <1>14 DEF M

(* Data source names over the values V.                                      *)
DsnsOver(V) ==
    [style : {"server"}, server : ServersOver(V)] \cup [style : {"options"}, options : Seq(OptionsOver(V))]

(* A data source name that is not refused gives every field of its           *)
(* configuration.                                                            *)
LEMMA Collected ==
    ASSUME NEW V, HoldsDefaults(V), NEW dsn \in DsnsOver(V), Collect(dsn) # BadConfig
    PROVE  Takes(V, EmptyConfig, Collect(dsn), [f \in ConfigFields |-> Gives(dsn, f)])
<1>1. EmptyConfig \in Configs(V)
  <2>1. EmptyConfig = [f \in ConfigFields |-> EmptyConfig[f]]
    BY DEF EmptyConfig
  <2>2. QED
    BY <2>1 DEF HoldsDefaults, Configs
<1>2. CASE dsn \in [style : {"server"}, server : ServersOver(V)]
  <2>1. dsn.style = "server" /\ dsn.server \in ServersOver(V)
    BY <1>2
  <2>2. Collect(dsn) = ApplyServerValue(EmptyConfig, dsn.server)
    BY <2>1 DEF Collect
  <2>3. [f \in ConfigFields |-> Gives(dsn, f)] = [f \in ConfigFields |-> ServerGives(dsn.server, f)]
    BY <2>1 DEF Gives
  <2>4. Takes(V, EmptyConfig, ApplyServerValue(EmptyConfig, dsn.server),
              [f \in ConfigFields |-> ServerGives(dsn.server, f)])
    BY <1>1, <2>1, ServerTakes
  <2>5. QED
    BY <2>2, <2>3, <2>4
<1>3. CASE dsn \in [style : {"options"}, options : Seq(OptionsOver(V))]
  <2> DEFINE word == dsn.options
             O == KnownOver(V)
             F == DsnMachine(V)
             give == [o \in O |-> OptionGiving(o)]
             r == FoldLeft(ApplyDSNOption, EmptyConfig, word)
  <2>1. dsn.style = "options" /\ word \in Seq(OptionsOver(V))
    BY <1>3
  <2> HIDE DEF word
  <2>2. Collect(dsn) = IF \E i \in DOMAIN word : RefusedOption(word[i]) THEN BadConfig ELSE r
    BY <2>1 DEF Collect, ParseKeyValueDSN, word
  <2>3. Collect(dsn) = r /\ \A i \in DOMAIN word : ~RefusedOption(word[i])
    BY <2>2
  <2>4. word \in Seq(O)
    <3>1. \A i \in 1..Len(word) : word[i] \in OptionsOver(V) /\ ~RefusedOption(word[i])
      BY <2>1, <2>3
    <3>2. \A i \in 1..Len(word) : word[i] \in O
      BY <3>1 DEF OptionsOver, RefusedOption
    <3>3. Len(word) \in Nat /\ word = [i \in 1..Len(word) |-> word[i]]
      BY <2>1
    <3> HIDE DEF O
    <3>4. word \in [1..Len(word) -> O]
      BY <3>2, <3>3
    <3>5. QED
      BY <3>3, <3>4, SequenceOf
  <2>5. Run(F, EmptyConfig, word, r)
    BY <1>1, <2>4, DsnLooped
  <2>6. \A c \in Configs(V) : \A o \in O : Takes(V, c, F[c][o], give[o])
    BY KnownTakes DEF DsnMachine
  <2>7. \A f \in ConfigFields : Together(give, word)[f] = Gives(dsn, f)
    <3> SUFFICES ASSUME NEW f \in ConfigFields PROVE Together(give, word)[f] = Gives(dsn, f)
      OBVIOUS
    <3>1. \A i \in DOMAIN word : give[word[i]][f] = OptionGives(word[i], f)
      <4>1. \A i \in DOMAIN word : word[i] \in O
        BY <2>4
      <4> HIDE DEF O
      <4>2. QED
        BY <4>1 DEF OptionGiving
    <3> HIDE DEF give
    <3>2. Together(give, word)[f] = UNION { OptionGives(word[i], f) : i \in DOMAIN word }
      BY <3>1 DEF Together
    <3>3. QED
      BY <2>1, <3>2 DEF Gives, word
  <2> HIDE DEF O, F, give, r
  <2>8. Takes(V, EmptyConfig, r, Together(give, word))
    BY <1>1, <2>4, <2>5, <2>6, LoopTakes
  <2>9. Together(give, word) = [f \in ConfigFields |-> Gives(dsn, f)]
    BY <2>7 DEF Together
  <2>10. QED
    BY <2>3, <2>8, <2>9
<1>4. QED
  BY <1>2, <1>3 DEF DsnsOver

(* A value that is not the default is one that is given.                     *)
LEMMA NotDefault ==
    ASSUME NEW G, NEW default, NEW v, v \in OneOf(G, default), v # default
    PROVE  v \in G
  BY DEF OneOf

(* Every field of a configuration that is read is what some option or some   *)
(* part of a server value gives it, or its default when none does, so that   *)
(* options which give no field two values mean the same in every order; the  *)
(* login is another name only for sys; and an accepted configuration has its *)
(* host, user and credential from what was given: for both styles, server    *)
(* values that are URLs with any parts and query, and any number of options  *)
(* with any values (applyDSNOption, applyServerValue, normalize, validate).  *)
THEOREM OptionsMeanTheSame ==
    ASSUME NEW V, HoldsDefaults(V), NEW dsn \in DsnsOver(V)
    PROVE  MeansTheSame(dsn)
<1> DEFINE raw == Collect(dsn)
           cfg == ParseDSN(dsn)
           none == ""
<1> SUFFICES ASSUME raw # BadConfig
             PROVE  /\ \A f \in ConfigFields : raw[f] \in OneOf(Gives(dsn, f), EmptyConfig[f])
                    /\ \/ cfg.loginName[1] \in OneOf(Gives(dsn, "user"), none) /\ Len(cfg.loginName) = 1
                       \/ /\ cfg.loginName[1] = "sys" /\ "sys" \in Gives(dsn, "user")
                          /\ cfg.loginName[2] \in Gives(dsn, "proxy") \ {"sys"} /\ Len(cfg.loginName) = 2
                    /\ Validate(cfg) =>
                          /\ cfg.host \in Gives(dsn, "host") /\ cfg.user \in Gives(dsn, "user")
                          /\ cfg.mode = "PASSWORD" => cfg.password \in Gives(dsn, "password")
                          /\ cfg.mode = "CHALLENGE" => cfg.keyFile \in Gives(dsn, "keyFile")
                          /\ cfg.mode # "CHALLENGE" => none \in OneOf(Gives(dsn, "keyFile"), none)
  BY Zenon DEF MeansTheSame
<1>1. \A f \in ConfigFields : raw[f] \in OneOf(Gives(dsn, f), EmptyConfig[f])
  <2>1. Takes(V, EmptyConfig, raw, [f \in ConfigFields |-> Gives(dsn, f)])
    BY Collected
  <2>2. QED
    BY <2>1 DEF Takes
<1>2. cfg = Normalize(raw)
  BY DEF ParseDSN
<1> HIDE DEF raw
<1>3. /\ raw.host \in OneOf(Gives(dsn, "host"), none) /\ raw.user \in OneOf(Gives(dsn, "user"), none)
      /\ raw.proxy \in OneOf(Gives(dsn, "proxy"), none)
      /\ raw.password \in OneOf(Gives(dsn, "password"), none)
      /\ raw.keyFile \in OneOf(Gives(dsn, "keyFile"), none)
  BY <1>1 DEF EmptyConfig, ConfigFields
<1> HIDE DEF cfg, none
<1>4. /\ cfg.host = raw.host /\ cfg.user = raw.user /\ cfg.password = raw.password /\ cfg.keyFile = raw.keyFile
      /\ raw.keyFile # none <=> cfg.keyFile # none
      /\ raw.keyFile # none => cfg.mode = "CHALLENGE"
  BY <1>2 DEF Normalize, none
<1>5. cfg.loginName = IF raw.user = "sys" /\ raw.proxy \notin {none, "sys"} THEN <<"sys", raw.proxy>>
                      ELSE <<raw.user>>
  BY <1>2 DEF Normalize, none
<1>6. \/ cfg.loginName[1] \in OneOf(Gives(dsn, "user"), none) /\ Len(cfg.loginName) = 1
      \/ /\ cfg.loginName[1] = "sys" /\ "sys" \in Gives(dsn, "user")
         /\ cfg.loginName[2] \in Gives(dsn, "proxy") \ {"sys"} /\ Len(cfg.loginName) = 2
  <2>1. CASE raw.user = "sys" /\ raw.proxy \notin {none, "sys"}
    <3>1. "sys" # none
      BY DEF none
    <3>2. "sys" \in Gives(dsn, "user") /\ raw.proxy \in Gives(dsn, "proxy")
      BY <1>3, <2>1, <3>1, NotDefault
    <3>3. cfg.loginName = <<"sys", raw.proxy>>
      BY <1>5, <2>1
    <3>4. cfg.loginName[1] = "sys" /\ cfg.loginName[2] = raw.proxy /\ Len(cfg.loginName) = 2
      BY <3>3
    <3>5. QED
      BY <2>1, <3>2, <3>4
  <2>2. CASE ~(raw.user = "sys" /\ raw.proxy \notin {none, "sys"})
    <3>1. cfg.loginName = <<raw.user>>
      BY <1>5, <2>2
    <3>2. cfg.loginName[1] = raw.user /\ Len(cfg.loginName) = 1
      BY <3>1
    <3>3. QED
      BY <1>3, <3>2
  <2>3. QED
    BY <2>1, <2>2
<1>7. ASSUME Validate(cfg)
      PROVE  /\ cfg.host \in Gives(dsn, "host") /\ cfg.user \in Gives(dsn, "user")
             /\ cfg.mode = "PASSWORD" => cfg.password \in Gives(dsn, "password")
             /\ cfg.mode = "CHALLENGE" => cfg.keyFile \in Gives(dsn, "keyFile")
             /\ cfg.mode # "CHALLENGE" => none \in OneOf(Gives(dsn, "keyFile"), none)
  <2>1. /\ cfg.host # none /\ cfg.user # none
        /\ cfg.mode = "PASSWORD" => cfg.password # none
        /\ cfg.mode = "CHALLENGE" => cfg.keyFile # none
    BY <1>7 DEF Validate, none
  <2>2. cfg.host \in Gives(dsn, "host") /\ cfg.user \in Gives(dsn, "user")
    BY <1>3, <1>4, <2>1, NotDefault
  <2>3. cfg.mode = "PASSWORD" => cfg.password \in Gives(dsn, "password")
    BY <1>3, <1>4, <2>1, NotDefault
  <2>4. cfg.mode = "CHALLENGE" => cfg.keyFile \in Gives(dsn, "keyFile")
    BY <1>3, <1>4, <2>1, NotDefault
  <2>5. cfg.mode # "CHALLENGE" => none \in OneOf(Gives(dsn, "keyFile"), none)
    BY <1>3, <1>4
  <2>6. QED
    BY <2>2, <2>3, <2>4, <2>5
<1>8. QED
  BY <1>1, <1>6, <1>7

-----------------------------------------------------------------------------
(* The invariants of Conversions.                                            *)

(* Every step chooses an input of its own kind.                              *)
LEMMA Kinds ==
    /\ Init => input.kind = "none"
    /\ Send => input'.kind = "messages"
    /\ Bind => input'.kind = "bind"
    /\ AppendAndRead => input'.kind = "readback"
    /\ AppendRows => input'.kind = "append"
    /\ Quote => input'.kind = "quoted"
    /\ Parse => input'.kind = "dsn"
    /\ ScanStructs => input'.kind = "scan"
    /\ NameParams => input'.kind = "named"
    /\ BuildArray => input'.kind = "array"
    /\ WriteLiteral => input'.kind = "literal"
    /\ SendDecimal => input'.kind = "decimal"
    /\ ScanTexts => input'.kind = "texts"
<1>1. Init => input.kind = "none"
  BY DEF Init
<1>2. Send => input'.kind = "messages"
  BY DEF Send
<1>3. Bind => input'.kind = "bind"
  BY DEF Bind
<1>4. AppendAndRead => input'.kind = "readback"
  BY DEF AppendAndRead
<1>5. AppendRows => input'.kind = "append"
  BY DEF AppendRows
<1>6. Quote => input'.kind = "quoted"
  BY DEF Quote
<1>7. Parse => input'.kind = "dsn"
  BY DEF Parse
<1>8. ScanStructs => input'.kind = "scan"
  BY DEF ScanStructs
<1>9. NameParams => input'.kind = "named"
  BY DEF NameParams
<1>10. BuildArray => input'.kind = "array"
  BY DEF BuildArray
<1>11. WriteLiteral => input'.kind = "literal"
  BY DEF WriteLiteral
<1>12. SendDecimal => input'.kind = "decimal"
  BY DEF SendDecimal
<1>13. ScanTexts => input'.kind = "texts"
  BY DEF ScanTexts
<1>14. QED
  BY <1>1, <1>2, <1>3, <1>4, <1>5, <1>6, <1>7, <1>8, <1>9, <1>10, <1>11, <1>12, <1>13

(* Every integer argument that is tried is bound as itself or refused.       *)
THEOREM BindSound == Spec => []IntegersBoundExactly
<1>1. Init => IntegersBoundExactly
  BY Kinds DEF IntegersBoundExactly
<1>2. IntegersBoundExactly /\ [Next]_vars => IntegersBoundExactly'
  <2> SUFFICES ASSUME IntegersBoundExactly, [Next]_vars, input'.kind = "bind" PROVE BoundExactly(input'.x)
    BY DEF IntegersBoundExactly
  <2>1. CASE UNCHANGED vars
    BY <2>1 DEF vars, IntegersBoundExactly
  <2>2. CASE Bind
    BY <2>2, ArgumentsBoundExactly DEF Bind, Integer
  <2>3. QED
    BY <2>1, <2>2, Kinds DEF Next
<1>3. QED
  BY <1>1, <1>2, PTL DEF Spec

(* Every appended integer that is tried is read back as itself or not at     *)
(* all.                                                                      *)
THEOREM ReadBackSound == Spec => []IntegersReadBackExactly
<1>1. Init => IntegersReadBackExactly
  BY Kinds DEF IntegersReadBackExactly
<1>2. IntegersReadBackExactly /\ [Next]_vars => IntegersReadBackExactly'
  <2> SUFFICES ASSUME IntegersReadBackExactly, [Next]_vars, input'.kind = "readback"
               PROVE  ReadBackExactly(input'.column, input'.x, input'.element, input'.form)
    BY DEF IntegersReadBackExactly
  <2>1. CASE UNCHANGED vars
    BY <2>1 DEF vars, IntegersReadBackExactly
  <2>2. CASE AppendAndRead
    BY <2>2, AppendedReadBackExactly DEF AppendAndRead, Integer
  <2>3. QED
    BY <2>1, <2>2, Kinds DEF Next
<1>3. QED
  BY <1>1, <1>2, PTL DEF Spec

Texts == {"", "-", "a", "b", "c", "p", "plain", "time", "nulltime", "int", "datetime", "unknown"}

(* The declarations that are tried are declarations.                         *)
LEMMA DeclaredFields == Declarations \subseteq Declaration(Texts)
<1>1. "a" \in Texts /\ "b" \in Texts /\ "c" \in Texts /\ "p" \in Texts /\ "-" \in Texts /\ "" \in Texts
      /\ "plain" \in Texts /\ "time" \in Texts /\ "nulltime" \in Texts
  BY DEF Texts
<1> DEFINE none == <<>>
<1>2. none \in Seq(Leaf(Texts))
  OBVIOUS
<1>3. ASSUME NEW tag \in Texts, NEW kind \in Texts, NEW nullable \in BOOLEAN, NEW options \in BOOLEAN
      PROVE  Field(tag, kind, nullable, options) \in Leaf(Texts) /\ Field(tag, kind, nullable, options) \in Declaration(Texts)
  BY <1>2 DEF Field, Leaf, Declaration
<1>4. ASSUME NEW tag \in Texts, NEW fields \in Seq(Leaf(Texts))
      PROVE  Struct(tag, fields) \in Declaration(Texts)
  BY <1>1 DEF Struct, Declaration
<1>5. <<Field("a", "plain", FALSE, FALSE), Field("-", "time", FALSE, FALSE)>> \in Seq(Leaf(Texts))
  <2> DEFINE x == Field("a", "plain", FALSE, FALSE)
             y == Field("-", "time", FALSE, FALSE)
  <2>1. x \in Leaf(Texts) /\ y \in Leaf(Texts)
    BY <1>1, <1>3
  <2> HIDE DEF x, y
  <2>2. <<x, y>> \in Seq(Leaf(Texts))
    BY <2>1
  <2>3. QED
    BY <2>2 DEF x, y
<1>6. <<Field("a", "time", TRUE, FALSE), Field("c", "plain", FALSE, FALSE)>> \in Seq(Leaf(Texts))
  <2> DEFINE x == Field("a", "time", TRUE, FALSE)
             y == Field("c", "plain", FALSE, FALSE)
  <2>1. x \in Leaf(Texts) /\ y \in Leaf(Texts)
    BY <1>1, <1>3
  <2> HIDE DEF x, y
  <2>2. <<x, y>> \in Seq(Leaf(Texts))
    BY <2>1
  <2>3. QED
    BY <2>2 DEF x, y
<1>7. Struct("p", <<Field("a", "plain", FALSE, FALSE), Field("-", "time", FALSE, FALSE)>>) \in Declaration(Texts)
  BY <1>1, <1>4, <1>5
<1>8. Struct("", <<Field("a", "time", TRUE, FALSE), Field("c", "plain", FALSE, FALSE)>>) \in Declaration(Texts)
  BY <1>1, <1>4, <1>6
<1>9. QED
  BY <1>1, <1>3, <1>7, <1>8 DEF Declarations

(* The columns that are tried are columns.                                   *)
LEMMA ReportedColumns == Columns \subseteq ResultColumn(Texts)
<1>1. "a" \in Texts /\ "b" \in Texts /\ "p" \in Texts
      /\ "int" \in Texts /\ "datetime" \in Texts /\ "unknown" \in Texts
  BY DEF Texts
<1>2. <<"a">> \in Seq(Texts) /\ <<"b">> \in Seq(Texts) /\ <<"p", "a">> \in Seq(Texts)
  BY <1>1
<1>3. ASSUME NEW name \in Seq(Texts), NEW type \in Texts, NEW reported \in Texts,
             type = "datetime" => reported \in {"unknown", "datetime"}
      PROVE  Column(name, type, reported) \in ResultColumn(Texts)
  BY <1>3 DEF Column, ResultColumn
<1>4. QED
  BY <1>1, <1>2, <1>3 DEF Columns

(* Every struct that is tried gives back as parameters what is scanned into  *)
(* it.                                                                       *)
THEOREM NamedSound == Spec => []StructsNamedAsScanned
<1>1. Init => StructsNamedAsScanned
  BY Kinds DEF StructsNamedAsScanned
<1>2. StructsNamedAsScanned /\ [Next]_vars => StructsNamedAsScanned'
  <2> SUFFICES ASSUME StructsNamedAsScanned, [Next]_vars, input'.kind = "named"
               PROVE  NamedAsScanned(input'.decls, input'.params)
    BY DEF StructsNamedAsScanned
  <2>1. CASE UNCHANGED vars
    BY <2>1 DEF vars, StructsNamedAsScanned
  <2>2. CASE NameParams
    <3> DEFINE names == { <<"a">>, <<"b">>, <<"c">>, <<"p", "a">>, <<>> }
    <3>1. PICK decls \in SeqOf(Declarations, 2), params \in SeqOf(names, 3) :
              input' = [kind |-> "named", decls |-> decls, params |-> params]
      BY <2>2 DEF NameParams
    <3>2. names \subseteq Seq(Texts)
      <4>1. "a" \in Texts /\ "b" \in Texts /\ "c" \in Texts /\ "p" \in Texts
        BY DEF Texts
      <4>2. QED
        BY <4>1
    <3> HIDE DEF names
    <3>3. decls \in Seq(Declarations) /\ params \in Seq(names)
      BY BoundedSequence
    <3>4. decls \in Seq(Declaration(Texts)) /\ params \in Seq(Seq(Texts))
      BY <3>2, <3>3, DeclaredFields
    <3>5. input'.decls = decls /\ input'.params = params
      BY <3>1
    <3>6. QED
      BY <3>4, <3>5, NamedParametersAsScanned
  <2>3. QED
    BY <2>1, <2>2, Kinds DEF Next
<1>3. QED
  BY <1>1, <1>2, PTL DEF Spec

(* Every scan that is tried fills the fields from their own columns, all     *)
(* rows or none.                                                             *)
THEOREM ScanSound == Spec => []StructsScannedByName
<1>1. Init => StructsScannedByName
  BY Kinds DEF StructsScannedByName
<1>2. StructsScannedByName /\ [Next]_vars => StructsScannedByName'
  <2> SUFFICES ASSUME StructsScannedByName, [Next]_vars, input'.kind = "scan"
               PROVE  RowsScanned(input')
    BY DEF StructsScannedByName
  <2>1. CASE UNCHANGED vars
    BY <2>1 DEF vars, StructsScannedByName
  <2>2. CASE ScanStructs
    <3>1. PICK decls \in SeqOf(Declarations, 2), columns \in SeqOf(Columns, 2) \ {<<>>} :
              \E laxColumns, laxFields \in BOOLEAN, rows \in RowSets(Len(columns)), limit \in Limits :
                input' = [kind |-> "scan", decls |-> decls, columns |-> columns,
                          laxColumns |-> laxColumns, laxFields |-> laxFields,
                          maxRows |-> limit[1], rows |-> rows, broken |-> limit[2]]
      BY <2>2 DEF ScanStructs
    <3>2. PICK laxColumns, laxFields \in BOOLEAN, rows \in RowSets(Len(columns)), limit \in Limits :
              input' = [kind |-> "scan", decls |-> decls, columns |-> columns,
                        laxColumns |-> laxColumns, laxFields |-> laxFields,
                        maxRows |-> limit[1], rows |-> rows, broken |-> limit[2]]
      BY <3>1
    <3>3. decls \in Seq(Declaration(Texts)) /\ columns \in Seq(ResultColumn(Texts))
      <4>1. decls \in Seq(Declarations) /\ columns \in Seq(Columns)
        BY BoundedSequence
      <4>2. QED
        BY <4>1, DeclaredFields, ReportedColumns
    <3>4. limit[1] \in Nat /\ limit[2] \in BOOLEAN
      <4>1. ASSUME NEW n \in Nat, NEW b \in BOOLEAN, limit = <<n, b>>
            PROVE  limit[1] \in Nat /\ limit[2] \in BOOLEAN
        BY <4>1
      <4>2. QED
        BY <4>1 DEF Limits
    <3> DEFINE full(r) == [c \in 1..Len(columns) |-> <<r, c>>]
               null(r) == [full(r) EXCEPT ![Len(columns)] = NilValue]
               R == {full(1), full(2), full(3), null(2)}
    <3>5. rows \in { << >>, <<full(1)>>, <<full(1), null(2)>>, <<full(1), full(2), full(3)>> }
      BY DEF RowSets
    <3> HIDE DEF full, null
    <3>6. rows \in Seq(R)
      <4>1. full(1) \in R /\ full(2) \in R /\ full(3) \in R /\ null(2) \in R
        OBVIOUS
      <4> HIDE DEF R
      <4>2. /\ << >> \in Seq(R) /\ <<full(1)>> \in Seq(R) /\ <<full(1), null(2)>> \in Seq(R)
            /\ <<full(1), full(2), full(3)>> \in Seq(R)
        BY <4>1
      <4>3. QED
        BY <3>5, <4>2
    <3> HIDE DEF R
    <3>7. /\ input'.decls = decls /\ input'.columns = columns /\ input'.rows = rows
          /\ input'.maxRows = limit[1] /\ input'.broken = limit[2]
      BY <3>2
    <3>8. /\ input'.decls \in Seq(Declaration(Texts)) /\ input'.columns \in Seq(ResultColumn(Texts))
          /\ input'.rows \in Seq(R) /\ input'.maxRows \in Nat /\ input'.broken \in BOOLEAN
      BY <3>3, <3>4, <3>6, <3>7
    <3>9. QED
      BY <3>8, RowsScannedByName
  <2>3. QED
    BY <2>1, <2>2, Kinds DEF Next
<1>3. QED
  BY <1>1, <1>2, PTL DEF Spec

(* The messages that are tried are read whole and in order, for every packet *)
(* size.                                                                     *)
THEOREM MessagesSound == Spec => []MessagesReadWhole
<1>1. Init => MessagesReadWhole
  BY Kinds DEF MessagesReadWhole
<1>2. MessagesReadWhole /\ [Next]_vars => MessagesReadWhole'
  <2> SUFFICES ASSUME MessagesReadWhole, [Next]_vars, input'.kind = "messages"
               PROVE  MessagesWhole(input'.protocols, input'.messages)
    BY DEF MessagesReadWhole
  <2>1. CASE UNCHANGED vars
    BY <2>1 DEF vars, MessagesReadWhole
  <2>2. CASE Send
    <3> DEFINE Id == {"count", "rows"}
               U == FixedUnits \cup VariableUnits
    <3>1. PICK first \in SeqOf(U, MaxUnits), second \in SeqOf(U, 1), protocol \in {"p1", "p2"} :
              input' = [kind |-> "messages", protocols |-> <<"p1", protocol>>,
                        messages |-> <<first, second>>]
      BY <2>2 DEF Send
    <3>2. U \subseteq WireUnit(Id)
      <4>1. 8 * MaxBody \in Nat
        BY MaxBodyAssumption
      <4>2. QED
        BY <4>1 DEF FixedUnits, VariableUnits, UnitOf, WireUnit
    <3> DEFINE messages == <<first, second>>
               protocols == <<"p1", protocol>>
    <3>3. input'.messages = messages /\ input'.protocols = protocols
      BY <3>1
    <3> HIDE DEF U, Id
    <3>4. first \in Seq(WireUnit(Id)) /\ second \in Seq(WireUnit(Id))
      <4>1. first \in Seq(U) /\ second \in Seq(U)
        BY <3>1, BoundedSequence
      <4>2. QED
        BY <3>2, <4>1
    <3>5. messages \in Seq(Seq(WireUnit(Id)))
      BY <3>4
    <3> HIDE DEF messages, protocols
    <3>6. QED
      BY <3>3, <3>5, MessagesSentWhole
  <2>3. QED
    BY <2>1, <2>2, Kinds DEF Next
<1>3. QED
  BY <1>1, <1>2, PTL DEF Spec

(* Every quoted value that is tried comes out of the data source name as it  *)
(* was put in (ParseDSN).                                                    *)
THEOREM QuotedSound == Spec => []QuotedValuesSurvive
<1>1. Init => QuotedValuesSurvive
  BY Kinds DEF QuotedValuesSurvive
<1>2. QuotedValuesSurvive /\ [Next]_vars => QuotedValuesSurvive'
  <2> SUFFICES ASSUME QuotedValuesSurvive, [Next]_vars, input'.kind = "quoted"
               PROVE  QuotedSurvives(input'.value, input'.quote)
    BY DEF QuotedValuesSurvive
  <2>1. CASE UNCHANGED vars
    BY <2>1 DEF vars, QuotedValuesSurvive
  <2>2. CASE Quote
    <3> DEFINE T == {"a", Semicolon, Backslash} \cup Quotes
    <3>1. PICK value \in SeqOf(T, 4), quote \in Quotes :
              input' = [kind |-> "quoted", value |-> value, quote |-> quote]
      BY <2>2 DEF Quote
    <3>2. "error" \notin T
      BY DEF Semicolon, Backslash, Quotes
    <3> HIDE DEF T
    <3>3. value \in Seq(T)
      BY <3>1, BoundedSequence
    <3>4. QuotedSurvives(value, quote)
      BY <3>1, <3>2, <3>3, QuotedComesBack
    <3>5. QED
      BY <3>1, <3>4
  <2>3. QED
    BY <2>1, <2>2, Kinds DEF Next
<1>3. QED
  BY <1>1, <1>2, PTL DEF Spec

(* The values that are tried in data source names.                           *)
TriedValues ==
    {0, 1, 2, "", "h", "s", "secret", "pw", "db", "other", "CHALLENGE", "unknown", "key.pem", "unreadable",
     "sys", "amy", "ann", "carol", "bob", "x"}

(* The parts that are tried.                                                 *)
LEMMA TriedParts == \A i \in DOMAIN Parts : Parts[i] \in PartsOver(TriedValues)
<1> DEFINE V == TriedValues
<1>1. /\ "s" \in V /\ 2 \in V /\ "sys" \in V /\ "pw" \in V /\ "ann" \in V /\ "" \in V /\ "other" \in V
  BY DEF TriedValues
<1> HIDE DEF V
<1>2. ASSUME NEW D \in SUBSET ConfigFields, NEW p \in [D -> V] PROVE p \in PartsOver(V)
  BY <1>2 DEF PartsOver
<1>3. Parts[1] \in PartsOver(V)
  <2>1. [host |-> "s"] \in [host : V]
    BY <1>1
  <2>2. \A p \in [host : V] : p \in [{"host"} -> V]
    OBVIOUS
  <2>3. QED
    BY <1>2, <2>1, <2>2 DEF Parts, ConfigFields
<1>4. Parts[2] \in PartsOver(V)
  <2>1. [host |-> "s", port |-> 2] \in [host : V, port : V]
    BY <1>1
  <2>2. \A p \in [host : V, port : V] : p \in [{"host", "port"} -> V]
    OBVIOUS
  <2>3. QED
    BY <1>2, <2>1, <2>2 DEF Parts, ConfigFields
<1>5. Parts[3] \in PartsOver(V)
  <2>1. [host |-> "s", user |-> "sys", password |-> "pw"] \in [host : V, user : V, password : V]
    BY <1>1
  <2>2. \A p \in [host : V, user : V, password : V] : p \in [{"host", "user", "password"} -> V]
    OBVIOUS
  <2>3. QED
    BY <1>2, <2>1, <2>2 DEF Parts, ConfigFields
<1>6. Parts[4] \in PartsOver(V)
  <2> DEFINE R == [host : V, port : V, user : V, password : V, database : V]
  <2>1. [host |-> "s", port |-> 2, user |-> "ann", password |-> "", database |-> "other"] \in R
    BY <1>1
  <2>2. \A p \in R : p \in [{"host", "port", "user", "password", "database"} -> V]
    OBVIOUS
  <2> HIDE DEF R
  <2>3. QED
    BY <1>2, <2>1, <2>2 DEF Parts, ConfigFields
<1>7. DOMAIN Parts = 1..4
  BY DEF Parts
<1>8. QED
  BY <1>3, <1>4, <1>5, <1>6, <1>7 DEF V

(* The options that are tried, where a server has this query.                *)
LEMMA TriedOptions ==
    ASSUME NEW label \in Labels
    PROVE  /\ OptionOf(label, <<>>) \in QueryOver(TriedValues)
           /\ \A query \in Seq(QueryOver(TriedValues)) : OptionOf(label, query) \in OptionsOver(TriedValues)
<1> DEFINE V == TriedValues
<1>1. CASE label \in PlainLabels
  <2> DEFINE key == label[1]
             n == label[2]
             value == Settings[key][n]
             o == [key |-> key, value |-> value]
  <2>1. key \in DOMAIN Settings /\ n \in DOMAIN Settings[key]
    BY <1>1 DEF PlainLabels
  <2>2. DOMAIN Settings = {"host", "port", "password", "database", "mode", "keyFile", "user", "as", "invalid",
                           "unknown"}
    BY DEF Settings
  <2>3. key # "server"
    BY <2>1, <2>2
  <2>4. \A query : OptionOf(label, query) = o
    BY <2>3 DEF OptionOf
  <2>5. CASE key = "user"
    <3>1. Settings["user"] = Users
      BY DEF Settings
    <3>2. "sys" \in V /\ "" \in V /\ "carol" \in V /\ "amy" \in V
      BY DEF TriedValues
    <3> HIDE DEF V
    <3>3. value \in [login : V, proxy : V]
      <4>1. DOMAIN Users = 1..3
        BY DEF Users
      <4>2. Users[1] \in [login : V, proxy : V]
        BY <3>2 DEF Users
      <4>3. Users[2] \in [login : V, proxy : V]
        BY <3>2 DEF Users
      <4>4. Users[3] \in [login : V, proxy : V]
        BY <3>2 DEF Users
      <4>5. n = 1 \/ n = 2 \/ n = 3
        BY <2>1, <2>5, <3>1, <4>1
      <4> HIDE DEF n, key
      <4>6. QED
        BY <2>5, <3>1, <4>2, <4>3, <4>4, <4>5
    <3> HIDE DEF value, key
    <3>4. o \in PlainOver(V)
      BY <2>5, <3>3 DEF PlainOver
    <3> HIDE DEF o
    <3>5. QED
      BY <2>4, <3>4 DEF QueryOver, OptionsOver, KnownOver, V
  <2>6. CASE key # "user"
    <3>1. value \in V
      <4>1. /\ Settings["host"] = <<"h">> /\ Settings["port"] = <<1>> /\ Settings["password"] = <<"secret">>
            /\ Settings["database"] = <<"db">> /\ Settings["mode"] = <<"CHALLENGE", "unknown">>
            /\ Settings["keyFile"] = <<"key.pem", "unreadable">> /\ Settings["as"] = <<"bob">>
            /\ Settings["invalid"] = <<"x">> /\ Settings["unknown"] = <<"x">>
        BY DEF Settings
      <4>2. key \in {"host", "port", "password", "database", "mode", "keyFile", "as", "invalid", "unknown"}
        BY <2>1, <2>2, <2>6
      <4>3. /\ "h" \in V /\ 1 \in V /\ "secret" \in V /\ "db" \in V /\ "CHALLENGE" \in V /\ "unknown" \in V
            /\ "key.pem" \in V /\ "unreadable" \in V /\ "bob" \in V /\ "x" \in V
        BY DEF TriedValues
      <4> HIDE DEF V, key, n
      <4>4. CASE key \in {"mode", "keyFile"}
        BY <2>1, <4>1, <4>3, <4>4
      <4>5. CASE key \in {"host", "port", "password", "database", "as", "invalid", "unknown"}
        BY <2>1, <4>1, <4>3, <4>5
      <4>6. QED
        BY <4>2, <4>4, <4>5
    <3> HIDE DEF V, value
    <3>2. CASE key \in ConfigFields
      <4>1. key \notin {"user", "proxy"}
        BY <2>1, <2>2, <2>6
      <4> HIDE DEF key
      <4>2. o \in PlainOver(V)
        BY <3>1, <3>2, <4>1 DEF PlainOver
      <4> HIDE DEF o
      <4>3. QED
        BY <2>4, <4>2 DEF QueryOver, OptionsOver, KnownOver, V
    <3>3. CASE key \notin ConfigFields
      <4>1. key \in {"as", "unknown", "invalid"}
        BY <2>1, <2>2, <2>6, <3>3 DEF ConfigFields
      <4> HIDE DEF key
      <4>2. o \in [key : {"as", "unknown", "invalid"}, value : V]
        BY <3>1, <4>1
      <4> HIDE DEF o
      <4>3. QED
        BY <2>4, <4>2 DEF QueryOver, OptionsOver, V
    <3>4. QED
      BY <3>2, <3>3
  <2>7. QED
    BY <2>5, <2>6
<1>2. CASE label \in ServerLabels
  <2> DEFINE parts == Parts[label[2]]
  <2>1. label[1] = "server" /\ label[2] \in DOMAIN Parts
    BY <1>2 DEF ServerLabels
  <2>2. parts \in PartsOver(V)
    BY <2>1, TriedParts
  <2>3. \A query : OptionOf(label, query) = [key |-> "server", value |-> [parts |-> parts, query |-> query]]
    BY <2>1 DEF OptionOf
  <2> HIDE DEF parts, V
  <2>4. OptionOf(label, <<>>) \in QueryOver(V)
    <3>1. OptionOf(label, <<>>) \in [key : {"server"}, value : [parts : PartsOver(V), query : {<<>>}]]
      BY <2>2, <2>3
    <3>2. QED
      BY <3>1 DEF QueryOver
  <2>5. ASSUME NEW query \in Seq(QueryOver(V)) PROVE OptionOf(label, query) \in OptionsOver(V)
    <3>1. [parts |-> parts, query |-> query] \in ServersOver(V)
      BY <2>2 DEF ServersOver
    <3>2. OptionOf(label, query) \in [key : {"server"}, value : ServersOver(V)]
      BY <2>3, <3>1
    <3>3. QED
      BY <3>2 DEF OptionsOver, KnownOver
  <2>6. QED
    BY <2>4, <2>5 DEF V
<1>3. QED
  BY <1>1, <1>2 DEF Labels

(* Sequences of options that are tried.                                      *)
LEMMA TriedLists ==
    ASSUME NEW labels \in Seq(Labels)
    PROVE  /\ OptionsOf(labels, <<>>) \in Seq(QueryOver(TriedValues))
           /\ \A query \in Seq(QueryOver(TriedValues)) :
                 OptionsOf(labels, query) \in Seq(OptionsOver(TriedValues))
<1> DEFINE n == Len(labels)
<1>1. n \in Nat /\ DOMAIN labels = 1..n /\ \A i \in 1..n : labels[i] \in Labels
  OBVIOUS
<1> HIDE DEF n
<1>2. OptionsOf(labels, <<>>) \in [1..n -> QueryOver(TriedValues)]
  BY <1>1, TriedOptions DEF OptionsOf
<1>3. ASSUME NEW query \in Seq(QueryOver(TriedValues))
      PROVE  OptionsOf(labels, query) \in [1..n -> OptionsOver(TriedValues)]
  BY <1>1, <1>3, TriedOptions DEF OptionsOf
<1>4. QED
  BY <1>1, <1>2, <1>3, SequenceOf

(* Every data source name that is tried, with and without a URL, means the   *)
(* same in every order of its options (ParseDSN).                            *)
THEOREM OptionsSound == Spec => []OptionOrderIrrelevant
<1>1. Init => OptionOrderIrrelevant
  BY Kinds DEF OptionOrderIrrelevant
<1>2. OptionOrderIrrelevant /\ [Next]_vars => OptionOrderIrrelevant'
  <2> SUFFICES ASSUME OptionOrderIrrelevant, [Next]_vars, input'.kind = "dsn"
               PROVE  MeansTheSame(input'.dsn)
    BY DEF OptionOrderIrrelevant
  <2>1. CASE UNCHANGED vars
    BY <2>1 DEF vars, OptionOrderIrrelevant
  <2>2. CASE Parse
    <3> DEFINE V == TriedValues
               FromServer(labels, parts) ==
                   [style |-> "server", server |-> [parts |-> Parts[parts], query |-> OptionsOf(labels, <<>>)]]
               FromOptions(labels, query) ==
                   [style |-> "options", options |-> OptionsOf(labels, OptionsOf(query, <<>>))]
    <3>1. PICK labels \in SeqOf(Labels, 3) :
              \/ \E parts \in DOMAIN Parts : input' = [kind |-> "dsn", dsn |-> FromServer(labels, parts)]
              \/ \E query \in SeqOf(Labels, 1) : input' = [kind |-> "dsn", dsn |-> FromOptions(labels, query)]
      BY <2>2 DEF Parse
    <3>2. labels \in Seq(Labels)
      BY <3>1, BoundedSequence
    <3>3. HoldsDefaults(V)
      BY DEF HoldsDefaults, EmptyConfig, TriedValues
    <3>4. ASSUME NEW parts \in DOMAIN Parts PROVE MeansTheSame(FromServer(labels, parts))
      <4>1. Parts[parts] \in PartsOver(V) /\ OptionsOf(labels, <<>>) \in Seq(QueryOver(V))
        BY <3>2, TriedParts, TriedLists
      <4> HIDE DEF V
      <4>2. [parts |-> Parts[parts], query |-> OptionsOf(labels, <<>>)] \in ServersOver(V)
        BY <4>1 DEF ServersOver
      <4>3. FromServer(labels, parts) \in DsnsOver(V)
        BY <4>2 DEF DsnsOver
      <4> HIDE DEF FromServer
      <4>4. QED
        BY <3>3, <4>3, OptionsMeanTheSame
    <3>5. ASSUME NEW query \in SeqOf(Labels, 1) PROVE MeansTheSame(FromOptions(labels, query))
      <4>1. query \in Seq(Labels)
        BY <3>5, BoundedSequence
      <4>2. OptionsOf(query, <<>>) \in Seq(QueryOver(V))
        BY <4>1, TriedLists
      <4>3. OptionsOf(labels, OptionsOf(query, <<>>)) \in Seq(OptionsOver(V))
        BY <3>2, <4>2, TriedLists
      <4> HIDE DEF V
      <4>4. FromOptions(labels, query) \in DsnsOver(V)
        BY <4>3 DEF DsnsOver
      <4> HIDE DEF FromOptions
      <4>5. QED
        BY <3>3, <4>4, OptionsMeanTheSame
    <3> HIDE DEF FromServer, FromOptions
    <3>6. QED
      BY <3>1, <3>4, <3>5
  <2>3. QED
    BY <2>1, <2>2, Kinds DEF Next
<1>3. QED
  BY <1>1, <1>2, PTL DEF Spec

(* The targets and the values of the sessions that are tried.                *)
Targets == NamesOf("log") \cup {ArrivalTime}
GivenValues == {"v1", "v2", "v3", "v4", "w", "w1", "w2", "w3", "w4", "t", Nil, ZeroTime}

(* The names that are tried hold one name of the arrival time, for log       *)
(* tables only.                                                              *)
LEMMA TriedTargets ==
    /\ ArrivalTime \in Targets
    /\ NamesOf("tag") \subseteq Targets /\ NamesOf("log") \subseteq Targets
    /\ \A t \in NamesOf("tag") : ~IsArrival(t)
    /\ \A t, u \in NamesOf("log") : IsArrival(t) /\ IsArrival(u) => t = u
<1>1. ArrivalTime \in Targets
  BY DEF Targets
<1> DEFINE plain == { <<"A", 0>>, <<"B", 0>>, <<"ARRAY", 0>>, <<"ARRAY", 2>> }
           time == <<"ARRIVAL_TIME", 0>>
<1>2. \A t \in plain : ~IsArrival(t)
  BY DEF IsArrival, ArrivalTime
<1>3. NamesOf("tag") = plain /\ NamesOf("log") = plain \cup {time}
  BY DEF NamesOf
<1> HIDE DEF plain, time
<1>4. QED
  BY <1>1, <1>2, <1>3 DEF Targets

(* The names that are tried fit their table.                                 *)
LEMMA TriedNames ==
    ASSUME NEW table \in {"tag", "log"}, NEW n, NEW names \in Inputs(table, n)
    PROVE  NamesFit(Targets, table, names)
<1>1. names \in SeqOf(NamesOf(table), n) /\ Distinct(names)
  BY DEF Inputs
<1>2. names \in Seq(NamesOf(table))
  BY <1>1, BoundedSequence
<1>3. NamesOf(table) \subseteq Targets
  BY TriedTargets
<1> DEFINE S == NamesOf(table)
<1> HIDE DEF S
<1>4. names \in Seq(S) /\ S \subseteq Targets
  BY <1>2, <1>3 DEF S
<1>5. names \in Seq(Targets) /\ \A i \in DOMAIN names : names[i] \in S
  BY <1>4
<1>6. table # "log" => NoArrival(names)
  BY <1>5, TriedTargets DEF S, NoArrival
<1>7. OneArrival(names)
  <2>1. \A t, u \in S : IsArrival(t) /\ IsArrival(u) => t = u
    BY TriedTargets DEF S
  <2>2. QED
    BY <1>1, <1>5, <2>1 DEF OneArrival, Distinct
<1>8. QED
  BY <1>5, <1>6, <1>7 DEF NamesFit

(* The columns that are tried fit their table.                               *)
LEMMA TriedColumns ==
    ASSUME NEW table \in {"tag", "log"}
    PROVE  LET columns == TableColumns(table)
           IN  /\ NamesFit(Targets, table, columns) /\ Distinct(columns) /\ columns # <<>>
               /\ table = "log" => columns[1] = ArrivalTime
<1> DEFINE x == <<"A", 0>>
           y == <<"B", 0>>
           z == <<"ARRAY", 0>>
           base == <<x, y, z>>
           columns == TableColumns(table)
<1>1. x \in Targets /\ y \in Targets /\ z \in Targets /\ x # y /\ x # z /\ y # z
  BY DEF Targets, NamesOf
<1>2. ~IsArrival(x) /\ ~IsArrival(y) /\ ~IsArrival(z)
  BY DEF IsArrival, ArrivalTime
<1>3. columns = (IF table = "log" THEN <<ArrivalTime>> ELSE <<>>) \o base
  BY Zenon DEF TableColumns
<1> HIDE DEF x, y, z
<1>4. base \in Seq(Targets)
  BY <1>1
<1>5. Len(base) = 3 /\ DOMAIN base = 1..3
  OBVIOUS
<1>6. base[1] = x /\ base[2] = y /\ base[3] = z
  OBVIOUS
<1> HIDE DEF base, columns
<1>7. NoArrival(base)
  BY <1>2, <1>5, <1>6 DEF NoArrival
<1>8. Distinct(base)
  BY <1>1, <1>5, <1>6 DEF Distinct
<1>9. CASE table = "tag"
  <2>1. columns = base
    BY <1>3, <1>4, <1>9
  <2>2. columns # <<>>
    BY <1>5, <2>1
  <2>3. QED
    BY <1>4, <1>7, <1>8, <1>9, <2>1, <2>2 DEF columns, NamesFit, OneArrival, NoArrival
<1>10. CASE table = "log"
  <2>1. columns = <<ArrivalTime>> \o base
    BY <1>3, <1>10
  <2>2. Bindable(base, base)
    BY <1>8 DEF Bindable
  <2>3. Distinct(columns)
    BY <1>4, <1>7, <2>1, <2>2, TriedTargets, NamesBindAfter DEF Bindable
  <2>4. IsPrepended(Targets, ArrivalTime, base, columns)
    BY <1>4, <2>1, TriedTargets, Prepended
  <2>5. /\ columns \in Seq(Targets) /\ Len(columns) = 4 /\ columns[1] = ArrivalTime
        /\ \A k \in 1..3 : columns[k + 1] = base[k]
    BY <1>5, <2>4 DEF IsPrepended
  <2>6. columns \in Seq(Targets)
    BY <2>5
  <2>7. Len(columns) = 4
    BY <2>5
  <2>8. DOMAIN columns = 1..4 /\ columns # <<>>
    BY <2>6, <2>7
  <2>9. \A j \in 2..4 : ~IsArrival(columns[j])
    <3>1. \A j \in 2..4 : j - 1 \in 1..3 /\ (j - 1) + 1 = j
      OBVIOUS
    <3>2. \A j \in 2..4 : columns[j] = base[j - 1]
      BY <2>5, <3>1
    <3>3. QED
      BY <1>5, <1>7, <3>1, <3>2 DEF NoArrival
  <2>10. OneArrival(columns)
    <3>1. \A j \in DOMAIN columns : IsArrival(columns[j]) => j = 1
      BY <2>8, <2>9
    <3>2. QED
      BY <3>1 DEF OneArrival
  <2>11. QED
    BY <1>10, <2>3, <2>5, <2>8, <2>10 DEF columns, NamesFit
<1>11. QED
  BY <1>9, <1>10

(* The rows that are tried hold values, and times that are not nil.          *)
LEMMA TriedRows ==
    /\ \A v \in FirstValues : v \in Seq(GivenValues)
    /\ \A w \in SecondValues : w \in Seq(GivenValues)
    /\ NoTime # Nil /\ "t" # Nil /\ ZeroTime \in GivenValues /\ "t" \in GivenValues
<1>1. \A v \in FirstValues : v \in Seq(GivenValues)
  <2> DEFINE a == "v1"
             b == "v2"
             c == "v3"
             d == "v4"
  <2>1. a \in GivenValues /\ b \in GivenValues /\ c \in GivenValues /\ d \in GivenValues
    BY Zenon DEF GivenValues
  <2>2. FirstValues = { <<>>, <<a, b>>, <<a, b, c>>, <<a, b, c, d>> }
    BY Zenon DEF FirstValues
  <2> HIDE DEF a, b, c, d
  <2>3. <<>> \in Seq(GivenValues) /\ <<a, b>> \in Seq(GivenValues) /\ <<a, b, c>> \in Seq(GivenValues) /\ <<a, b, c, d>> \in Seq(GivenValues)
    BY <2>1
  <2>4. QED
    BY <2>2, <2>3, Zenon
<1>2. \A x \in [1..2 -> {"w", Nil}] : x \in Seq(GivenValues)
  <2> DEFINE S == {"w", Nil}
  <2>1. S \subseteq GivenValues
    BY Zenon DEF GivenValues
  <2> HIDE DEF S
  <2>2. ASSUME NEW x \in [1..2 -> S] PROVE x \in Seq(GivenValues)
    <3>1. x \in [1..2 -> GivenValues]
      BY <2>1
    <3>2. QED
      BY <3>1, SequenceOf
  <2>3. QED
    BY <2>2 DEF S
<1>3. <<"w1", Nil, "w3">> \in Seq(GivenValues) /\ <<Nil, "w2", "w3", "w4">> \in Seq(GivenValues)
  <2> DEFINE a == "w1"
             b == "w2"
             c == "w3"
             d == "w4"
  <2>1. a \in GivenValues /\ b \in GivenValues /\ c \in GivenValues /\ d \in GivenValues /\ Nil \in GivenValues
    BY Zenon DEF GivenValues
  <2> HIDE DEF a, b, c, d
  <2>2. <<a, Nil, c>> \in Seq(GivenValues) /\ <<Nil, b, c, d>> \in Seq(GivenValues)
    BY <2>1
  <2>3. QED
    BY <2>2, Zenon DEF a, b, c, d
<1>4. \A w \in SecondValues : w \in Seq(GivenValues)
  BY <1>2, <1>3 DEF SecondValues
<1>5. NoTime # Nil /\ "t" # Nil
  BY Zenon DEF NoTime, Nil
<1>6. ZeroTime \in GivenValues /\ "t" \in GivenValues
  BY Zenon DEF GivenValues
<1>7. QED
  BY <1>1, <1>4, <1>5, <1>6, Zenon

(* Every row of every session that is tried is read by the server as its     *)
(* caller named it (Append, AppendLogTime, AppendData).                      *)
THEOREM AppendedSound == Spec => []AppendedAsNamed
<1>1. Init => AppendedAsNamed
  BY Kinds DEF AppendedAsNamed
<1>2. AppendedAsNamed /\ [Next]_vars => AppendedAsNamed'
  <2> SUFFICES ASSUME AppendedAsNamed, [Next]_vars, input'.kind = "append"
               PROVE  RowsAsNamed(input')
    BY DEF AppendedAsNamed
  <2>1. CASE UNCHANGED vars
    BY <2>1 DEF vars, AppendedAsNamed
  <2>2. CASE AppendRows
    <3>1. PICK table \in {"tag", "log"} :
            \E at \in Inputs(table, 3), late \in Inputs(table, 2), v \in FirstValues, w \in SecondValues,
               time \in {NoTime, "t"} :
                input' = [kind |-> "append", table |-> table, columns |-> TableColumns(table),
                          input |-> at, late |-> late,
                          rows |-> << [values |-> v, time |-> NoTime], [values |-> w, time |-> time] >>]
      BY <2>2, Zenon DEF AppendRows
    <3>2. PICK at \in Inputs(table, 3), late \in Inputs(table, 2), v \in FirstValues, w \in SecondValues,
               time \in {NoTime, "t"} :
                input' = [kind |-> "append", table |-> table, columns |-> TableColumns(table),
                          input |-> at, late |-> late,
                          rows |-> << [values |-> v, time |-> NoTime], [values |-> w, time |-> time] >>]
      BY <3>1, Zenon
    <3> DEFINE one == [values |-> v, time |-> NoTime]
               two == [values |-> w, time |-> time]
               rows == <<one, two>>
               columns == TableColumns(table)
               session == input'
    <3>3. GoodRow(GivenValues, one) /\ GoodRow(GivenValues, two)
      <4>1. one.values = v /\ one.time = NoTime /\ two.values = w /\ two.time = time
        OBVIOUS
      <4>2. v \in Seq(GivenValues) /\ w \in Seq(GivenValues)
        BY <3>2, TriedRows, Zenon
      <4>3. /\ time = NoTime \/ time \in GivenValues
            /\ NoTime # Nil /\ time # Nil /\ ZeroTime \in GivenValues
        BY <3>2, TriedRows, Zenon
      <4> HIDE DEF one, two
      <4>4. TimeOf(one) \in GivenValues /\ TimeOf(two) \in GivenValues
        BY <4>1, <4>3, Zenon DEF TimeOf
      <4>5. QED
        BY <4>1, <4>2, <4>3, <4>4 DEF GoodRow
    <3>4. rows[1] = one /\ rows[2] = two
      OBVIOUS
    <3> HIDE DEF one, two, rows, columns
    <3>5. /\ session.table = table /\ session.columns = columns /\ session.input = at
          /\ session.late = late /\ session.rows = rows
      BY <3>2 DEF rows, one, two, columns
    <3>6. NamesFit(Targets, table, at) /\ NamesFit(Targets, table, late)
      BY <3>2, TriedNames
    <3>7. /\ NamesFit(Targets, table, columns) /\ Distinct(columns) /\ columns # <<>>
          /\ table = "log" => columns[1] = ArrivalTime
      BY <3>2, TriedColumns DEF columns
    <3> HIDE DEF session
    <3>8. late \in Seq(Targets) /\ OneArrival(late)
      BY <3>6 DEF NamesFit
    <3>9. AppendSession(Targets, GivenValues, session)
      BY <3>3, <3>4, <3>5, <3>6, <3>7, <3>8, TriedTargets DEF AppendSession
    <3>10. RowsAsNamed(session)
      BY <3>9, SessionAsNamed
    <3>11. QED
      BY <3>10 DEF session
  <2>3. QED
    BY <2>1, <2>2, Kinds DEF Next
<1>3. QED
  BY <1>1, <1>2, PTL DEF Spec
=============================================================================
