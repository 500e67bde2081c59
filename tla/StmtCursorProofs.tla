-------------------------- MODULE StmtCursorProofs --------------------------
(***************************************************************************)
(* Proofs about StmtCursor for any number of executions, any result sizes  *)
(* and any chunk size.  A call's outcomes are shown to keep what is asked  *)
(* of the statement call by call, as the handlers are composed.            *)
(***************************************************************************)
EXTENDS StmtCursor, TLAPS

(* The state of a statement is well formed; a cursor belongs to an           *)
(* execution.                                                                *)
Typed(s) ==
    /\ s \in Systems /\ Len(s.h.buf) <= Chunk
    /\ s.srv.open => s.n > 0

(* The handle knows of an open cursor, and none was run into.                *)
Known(s) == s.up /\ s.h.state = "open" /\ s.h.last => ~s.srv.open
Orderly(s) == Known(s) /\ ~s.rejected

(* Prepare and Execute may be sent.                                          *)
Clear(s) == (s.up /\ s.h.state = "open" => ~s.srv.open) /\ ~s.rejected

(* A call adds at most one execution and leaves the results of the others.   *)
Extends(s, t) ==
    /\ t.n = s.n \/ t.n = s.n + 1
    /\ \A q \in Executions : t.n = s.n \/ q # t.n => t.size[q] = s.size[q]

(* A call that executes nothing.                                             *)
SameResults(s, t) == t.n = s.n /\ t.size = s.size

(* After `got` rows of the current execution, the next ones are buffered,    *)
(* and the rest is still to come or there is none.                           *)
Streaming(s, got) ==
    /\ ~s.eof /\ s.n > 0
    /\ s.h.buf = RowRange(s.n, got + 1, got + Len(s.h.buf))
    /\ s.h.last => got + Len(s.h.buf) = s.size[s.n]
    /\ ~s.h.last => select /\ s.srv.next = got + Len(s.h.buf) + 1

(* Executions to come have left no trace.                                    *)
Untouched == \A q \in Executions : q > sys.n => sys.size[q] = 0 /\ rows[q] = NoRows

(* A Rows that is open and has the statement to itself is that of the last   *)
(* execution, and the only one.                                              *)
AloneIsLast ==
    \A q \in Executions : rows[q].status = "open" /\ rows[q].alone =>
        /\ q = sys.n
        /\ \A p \in Executions : rows[p].status = "open" => p = q
        /\ rows[q].end = "none" => Streaming(sys, Len(rows[q].seen))

Delivers == TypeOK /\ Typed(sys) /\ Untouched /\ AloneIsLast /\ ResultExact
IInv == Delivers /\ Orderly(sys)

-----------------------------------------------------------------------------
(* Ranges of rows.                                                           *)

LEMMA SequenceOf ==
    ASSUME NEW S, NEW n \in Nat, NEW f \in [1..n -> S]
    PROVE  f \in Seq(S) /\ Len(f) = n
  OBVIOUS

LEMMA SameSequence ==
    ASSUME NEW S, NEW s \in Seq(S), NEW t \in Seq(S), Len(s) = Len(t),
           \A k \in 1..Len(s) : s[k] = t[k]
    PROVE  s = t
  OBVIOUS

LEMMA TailFacts ==
    ASSUME NEW S, NEW n \in Nat, NEW s \in Seq(S), Len(s) = n + 1
    PROVE  /\ Head(s) = s[1] /\ Tail(s) \in Seq(S) /\ Len(Tail(s)) = n
           /\ \A k \in 1..n : Tail(s)[k] = s[k + 1]
  OBVIOUS

LEMMA AppendFacts ==
    ASSUME NEW S, NEW s \in Seq(S), NEW e \in S
    PROVE  /\ Append(s, e) \in Seq(S) /\ Len(Append(s, e)) = Len(s) + 1
           /\ \A k \in 1..Len(s) : Append(s, e)[k] = s[k]
           /\ Append(s, e)[Len(s) + 1] = e
  OBVIOUS

LEMMA RangeType ==
    ASSUME NEW q \in Executions, NEW i \in Nat \ {0}, NEW j \in 0..MaxRows, i <= j + 1
    PROVE  /\ RowRange(q, i, j) \in RowSeq
           /\ Len(RowRange(q, i, j)) = j + 1 - i
           /\ \A k \in 1..(j + 1 - i) : RowRange(q, i, j)[k] = <<q, i + k - 1>>
<1> DEFINE S == Executions \X (1..MaxRows)
<1>1. MaxRows \in Nat
  BY StmtCursorAssumption
<1>2. j + 1 - i \in Nat
  BY <1>1
<1>3. \A k \in 1..(j + 1 - i) : <<q, i + k - 1>> \in S
  BY <1>1
<1>4. RowRange(q, i, j) \in [1..(j + 1 - i) -> S]
  BY <1>3 DEF RowRange
<1>5. RowRange(q, i, j) \in Seq(S) /\ Len(RowRange(q, i, j)) = j + 1 - i
  BY <1>2, <1>4, SequenceOf
<1>6. \A k \in 1..(j + 1 - i) : RowRange(q, i, j)[k] = <<q, i + k - 1>>
  BY DEF RowRange
<1>7. QED
  BY <1>5, <1>6 DEF RowSeq

LEMMA RangeEmpty == ASSUME NEW q \in Executions PROVE RowRange(q, 1, 0) = <<>>
<1>1. MaxRows \in Nat
  BY StmtCursorAssumption
<1>2. RowRange(q, 1, 0) \in RowSeq /\ Len(RowRange(q, 1, 0)) = 0 + 1 - 1
  BY <1>1, RangeType
<1>3. QED
  BY <1>2 DEF RowSeq

LEMMA RangeTail ==
    ASSUME NEW q \in Executions, NEW i \in Nat \ {0}, NEW j \in 0..MaxRows, i <= j
    PROVE  /\ Head(RowRange(q, i, j)) = <<q, i>>
           /\ Tail(RowRange(q, i, j)) = RowRange(q, i + 1, j)
<1> DEFINE S == Executions \X (1..MaxRows)
           s == RowRange(q, i, j)
           t == RowRange(q, i + 1, j)
<1>1. MaxRows \in Nat
  BY StmtCursorAssumption
<1>2. s \in Seq(S) /\ Len(s) = j + 1 - i
  <2>1. i <= j + 1
    BY <1>1
  <2>2. QED
    BY <2>1, RangeType DEF RowSeq
<1>3. t \in Seq(S) /\ Len(t) = j + 1 - (i + 1)
  <2>1. i + 1 \in Nat \ {0} /\ i + 1 <= j + 1
    BY <1>1
  <2>2. QED
    BY <2>1, RangeType DEF RowSeq
<1>4. \A k \in 1..(j - i) : s[k + 1] = t[k]
  <2> SUFFICES ASSUME NEW k \in 1..(j - i) PROVE s[k + 1] = t[k]
    OBVIOUS
  <2>1. k + 1 \in 1..(j + 1 - i) /\ k \in 1..(j + 1 - (i + 1))
    BY <1>1
  <2>2. s[k + 1] = <<q, i + (k + 1) - 1>> /\ t[k] = <<q, (i + 1) + k - 1>>
    BY <2>1 DEF RowRange
  <2>3. i + (k + 1) - 1 = (i + 1) + k - 1
    BY <1>1
  <2>4. QED
    BY <2>2, <2>3
<1>5. s[1] = <<q, i>>
  BY <1>1 DEF RowRange
<1> HIDE DEF s, t
<1>6. j - i \in Nat /\ Len(s) = (j - i) + 1 /\ Len(t) = j - i
  BY <1>1, <1>2, <1>3
<1>7. /\ Head(s) = s[1] /\ Tail(s) \in Seq(S) /\ Len(Tail(s)) = j - i
      /\ \A k \in 1..(j - i) : Tail(s)[k] = s[k + 1]
  BY <1>2, <1>6, TailFacts
<1>8. Tail(s) = t
  BY <1>3, <1>4, <1>6, <1>7, SameSequence
<1>9. QED
  BY <1>5, <1>7, <1>8 DEF s, t

LEMMA RangeAppend ==
    ASSUME NEW q \in Executions, NEW j \in Nat, j < MaxRows
    PROVE  Append(RowRange(q, 1, j), <<q, j + 1>>) = RowRange(q, 1, j + 1)
<1> DEFINE S == Executions \X (1..MaxRows)
           s == RowRange(q, 1, j)
           t == RowRange(q, 1, j + 1)
           e == <<q, j + 1>>
<1>1. MaxRows \in Nat
  BY StmtCursorAssumption
<1>2. s \in Seq(S) /\ Len(s) = j /\ \A k \in 1..j : s[k] = <<q, k>>
  <2>1. j \in 0..MaxRows /\ 1 \in Nat \ {0} /\ 1 <= j + 1 /\ j + 1 - 1 = j
    BY <1>1
  <2>2. s \in Seq(S) /\ Len(s) = j + 1 - 1
    BY <2>1, RangeType DEF RowSeq
  <2>3. \A k \in 1..j : s[k] = <<q, k>>
    BY <1>1 DEF RowRange
  <2>4. QED
    BY <2>1, <2>2, <2>3
<1>3. t \in Seq(S) /\ Len(t) = j + 1 /\ \A k \in 1..(j + 1) : t[k] = <<q, k>>
  <2>1. j + 1 \in 0..MaxRows /\ 1 \in Nat \ {0} /\ 1 <= (j + 1) + 1 /\ (j + 1) + 1 - 1 = j + 1
    BY <1>1
  <2>2. t \in Seq(S) /\ Len(t) = (j + 1) + 1 - 1
    BY <2>1, RangeType DEF RowSeq
  <2>3. \A k \in 1..(j + 1) : t[k] = <<q, k>>
    BY <1>1 DEF RowRange
  <2>4. QED
    BY <2>1, <2>2, <2>3
<1>4. e \in S
  BY <1>1
<1> HIDE DEF s, t
<1>5. Append(s, e) \in Seq(S) /\ Len(Append(s, e)) = j + 1
  BY <1>2, <1>4
<1>6. \A k \in 1..(j + 1) : Append(s, e)[k] = t[k]
  <2>1. \A k \in 1..j : Append(s, e)[k] = s[k]
    BY <1>2, <1>4, AppendFacts
  <2>2. Append(s, e)[j + 1] = e
    BY <1>2, <1>4, AppendFacts
  <2>3. \A k \in 1..j : k \in 1..(j + 1)
    OBVIOUS
  <2>4. j + 1 \in 1..(j + 1) /\ \A k \in 1..(j + 1) : k \in 1..j \/ k = j + 1
    OBVIOUS
  <2>5. \A k \in 1..j : s[k] = t[k]
    BY <1>2, <1>3, <2>3
  <2>6. e = t[j + 1]
    BY <1>3, <2>4
  <2>7. QED
    BY <2>1, <2>2, <2>4, <2>5, <2>6
<1>7. Append(s, e) = t
  BY <1>3, <1>5, <1>6, SameSequence
<1>8. QED
  BY <1>7 DEF s, t

-----------------------------------------------------------------------------
(* The outcomes of each call.  All of them keep a statement well formed.     *)

LEMMA FreshTypes ==
    /\ FreshServer \in Servers /\ ~FreshServer.open
    /\ FreshHandle \in Handles /\ Len(FreshHandle.buf) = 0 /\ FreshHandle.state = "open"
<1>1. 1 \in 1..(MaxRows + 1)
  BY StmtCursorAssumption
<1>2. QED
  BY <1>1 DEF FreshServer, Servers, FreshHandle, Handles, RowSeq

LEMMA PrepareOutcomes ==
    ASSUME NEW s, Typed(s), NEW r \in Prepare(s)
    PROVE  /\ r.ok \in BOOLEAN /\ Typed(r.sys) /\ SameResults(s, r.sys)
           /\ Clear(s) => Clear(r.sys)
<1>1. CASE r = Fail(s)
  BY <1>1 DEF Fail, SameResults
<1>2. CASE r = Fail([s EXCEPT !.up = FALSE])
  BY <1>2 DEF Fail, SameResults, Typed, Systems, Clear
<1>3. CASE r = Fail([s EXCEPT !.rejected = TRUE]) /\ s.up /\ s.h.state = "open" /\ s.srv.open
  BY <1>3 DEF Fail, SameResults, Typed, Systems, Clear
<1>4. CASE /\ ~s.srv.open
           /\ r = Ok([s EXCEPT !.h.prepared = TRUE, !.h.buf = <<>>, !.h.last = TRUE,
                               !.eof = FALSE, !.srv.prepared = TRUE])
  <2> DEFINE t == [s EXCEPT !.h.prepared = TRUE, !.h.buf = <<>>, !.h.last = TRUE,
                            !.eof = FALSE, !.srv.prepared = TRUE]
  <2>1. t.h = [s.h EXCEPT !.prepared = TRUE, !.buf = <<>>, !.last = TRUE]
    BY DEF Typed, Systems
  <2>2. t.srv \in Servers /\ t.srv.open = s.srv.open
    BY DEF Typed, Systems, Servers
  <2>3. /\ t = [s EXCEPT !.h = t.h, !.eof = FALSE, !.srv = t.srv]
        /\ t.up = s.up /\ t.n = s.n /\ t.size = s.size /\ t.rejected = s.rejected
    BY DEF Typed, Systems
  <2>4. r.sys = t /\ r.ok = TRUE
    BY <1>4 DEF Ok
  <2> HIDE DEF t
  <2>5. t.h \in Handles /\ t.h.buf = <<>> /\ t.h.state = s.h.state
    <3>1. s.h \in Handles /\ <<>> \in RowSeq
      BY DEF Typed, Systems, RowSeq
    <3>2. QED
      BY <2>1, <3>1 DEF Handles
  <2>6. t \in Systems
    BY <2>2, <2>3, <2>5 DEF Typed, Systems
  <2>7. Typed(t)
    BY <2>2, <2>5, <2>6, <1>4, StmtCursorAssumption DEF Typed
  <2>8. Clear(s) => Clear(t)
    BY <2>2, <2>3, <2>5, <1>4 DEF Clear
  <2>9. QED
    BY <2>3, <2>4, <2>7, <2>8 DEF SameResults
<1>5. QED
  BY <1>1, <1>2, <1>3, <1>4 DEF Prepare, Lost, Refused, InProgress

LEMMA CloseOutcomes ==
    ASSUME NEW s, Typed(s), NEW r \in Close(s)
    PROVE  /\ r.ok \in BOOLEAN /\ Typed(r.sys) /\ SameResults(s, r.sys)
           /\ r.sys.h.state = (IF r.ok THEN "nil" ELSE "closed")
           /\ r.sys.rejected = s.rejected
<1>1. CASE r = Ok(s) /\ s.h.state = "nil"
  BY <1>1 DEF Ok, SameResults
<1>2. CASE r = Ok([s EXCEPT !.h.state = "nil"])
  BY <1>2 DEF Ok, SameResults, Typed, Systems, Handles
<1>3. CASE r = Fail([[s EXCEPT !.h.state = "closed"] EXCEPT !.up = FALSE])
  BY <1>3 DEF Fail, SameResults, Typed, Systems, Handles
<1>4. CASE r = Fail([s EXCEPT !.h.state = "closed"])
  BY <1>4 DEF Fail, SameResults, Typed, Systems, Handles
<1>5. CASE r = Ok([s EXCEPT !.h.state = "nil", !.srv = FreshServer])
  BY <1>5, FreshTypes DEF Ok, SameResults, Typed, Systems, Handles
<1>6. QED
  BY <1>1, <1>2, <1>3, <1>4, <1>5 DEF Close, Lost, Refused

LEMMA AllocOutcomes ==
    ASSUME NEW s, Typed(s), s.h.state = "nil", NEW r \in Alloc(s)
    PROVE  /\ r.ok \in BOOLEAN /\ Typed(r.sys) /\ SameResults(s, r.sys)
           /\ ~s.rejected => Clear(r.sys)
<1>1. CASE r = Fail(s)
  BY <1>1 DEF Fail, SameResults, Clear
<1>2. CASE r = Ok([s EXCEPT !.h = FreshHandle, !.srv = FreshServer, !.eof = FALSE])
  <2>1. 0 <= Chunk
    BY StmtCursorAssumption
  <2>2. QED
    BY <1>2, <2>1, FreshTypes DEF Ok, SameResults, Typed, Systems, Clear
<1>3. QED
  BY <1>1, <1>2 DEF Alloc, Refused

LEMMA RenewOutcomes ==
    ASSUME NEW s, Typed(s), NEW r \in RenewHandle(s)
    PROVE  /\ r.ok \in BOOLEAN /\ Typed(r.sys) /\ SameResults(s, r.sys)
           /\ ~s.rejected => Clear(r.sys)
<1>1. CASE r \in Close(s) /\ ~r.ok
  BY <1>1, CloseOutcomes DEF Clear
<1>2. CASE \E c \in Close(s) : c.ok /\ r \in Alloc(c.sys) /\ ~r.ok
  <2>1. PICK c \in Close(s) : c.ok /\ r \in Alloc(c.sys)
    BY <1>2
  <2>2. Typed(c.sys) /\ SameResults(s, c.sys) /\ c.sys.h.state = "nil" /\ c.sys.rejected = s.rejected
    BY <2>1, CloseOutcomes
  <2>3. QED
    BY <2>1, <2>2, AllocOutcomes DEF SameResults
<1>3. CASE \E c \in Close(s) : c.ok /\ \E a \in Alloc(c.sys) : a.ok /\ r \in Prepare(a.sys)
  <2>1. PICK c \in Close(s) : c.ok /\ \E a \in Alloc(c.sys) : a.ok /\ r \in Prepare(a.sys)
    BY <1>3
  <2>2. Typed(c.sys) /\ SameResults(s, c.sys) /\ c.sys.h.state = "nil" /\ c.sys.rejected = s.rejected
    BY <2>1, CloseOutcomes
  <2>3. PICK a \in Alloc(c.sys) : a.ok /\ r \in Prepare(a.sys)
    BY <2>1
  <2>4. Typed(a.sys) /\ SameResults(c.sys, a.sys) /\ (~s.rejected => Clear(a.sys))
    BY <2>2, AllocOutcomes
  <2>5. QED
    BY <2>2, <2>3, <2>4, PrepareOutcomes DEF SameResults
<1>4. QED
  BY <1>1, <1>2, <1>3 DEF RenewHandle, Then

LEMMA ReadyOutcomes ==
    ASSUME NEW s, Typed(s), NEW r \in Ready(s)
    PROVE  /\ r.ok \in BOOLEAN /\ Typed(r.sys) /\ SameResults(s, r.sys)
           /\ Orderly(s) => Clear(r.sys)
<1>1. \A d \in DiscardOpenCursor(s) :
        /\ d.ok \in BOOLEAN /\ Typed(d.sys) /\ SameResults(s, d.sys)
        /\ Orderly(s) => Clear(d.sys)
  <2> SUFFICES ASSUME NEW d \in DiscardOpenCursor(s)
               PROVE  /\ d.ok \in BOOLEAN /\ Typed(d.sys) /\ SameResults(s, d.sys)
                      /\ Orderly(s) => Clear(d.sys)
    OBVIOUS
  <2>1. CASE d = Ok(s) /\ (s.h.state = "nil" \/ s.h.last)
    BY <2>1 DEF Ok, SameResults, Orderly, Known, Clear
  <2>2. CASE d \in RenewHandle(s)
    BY <2>2, RenewOutcomes DEF Orderly
  <2>3. QED
    BY <2>1, <2>2 DEF DiscardOpenCursor
<1>2. \A t : Typed(t) => \A p \in ReprepareIfSupported(t) :
        /\ p.ok \in BOOLEAN /\ Typed(p.sys) /\ SameResults(t, p.sys)
        /\ Clear(t) => Clear(p.sys)
  <2> SUFFICES ASSUME NEW t, Typed(t), NEW p \in ReprepareIfSupported(t)
               PROVE  /\ p.ok \in BOOLEAN /\ Typed(p.sys) /\ SameResults(t, p.sys)
                      /\ Clear(t) => Clear(p.sys)
    OBVIOUS
  <2>1. CASE p = Ok(t)
    BY <2>1 DEF Ok, SameResults
  <2>2. CASE p \in Prepare(t)
    BY <2>2, PrepareOutcomes
  <2>3. QED
    BY <2>1, <2>2 DEF ReprepareIfSupported
<1>3. CASE r \in DiscardOpenCursor(s)
  BY <1>1, <1>3
<1>4. CASE \E d \in DiscardOpenCursor(s) : d.ok /\ r \in ReprepareIfSupported(d.sys)
  <2>1. PICK d \in DiscardOpenCursor(s) : d.ok /\ r \in ReprepareIfSupported(d.sys)
    BY <1>4
  <2>2. Typed(d.sys) /\ SameResults(s, d.sys) /\ (Orderly(s) => Clear(d.sys))
    BY <1>1
  <2>3. QED
    BY <1>2, <2>1, <2>2 DEF SameResults
<1>5. QED
  BY <1>3, <1>4 DEF Ready, Then

(* The chunk a reply brings.                                                 *)
LEMMA ReplyFacts ==
    ASSUME NEW from \in 1..(MaxRows + 1), NEW size \in 0..MaxRows, NEW r \in Replies(from, size)
    PROVE  /\ r.upto \in 0..MaxRows /\ r.last \in BOOLEAN
           /\ r.upto < from + Chunk /\ from <= r.upto + 1
           /\ r.last => r.upto = size
           /\ ~r.last => from <= r.upto
           /\ r.upto + 1 \in 1..(MaxRows + 1)
<1>1. MaxRows \in Nat /\ Chunk \in Nat
  BY StmtCursorAssumption
<1>2. /\ r.upto \in (from - 1)..size /\ r.last \in BOOLEAN
      /\ r.upto < from + Chunk
      /\ r.last => r.upto = size
      /\ r.upto < from => r.last
  BY DEF Replies
<1>3. r.upto \in 0..MaxRows /\ from <= r.upto + 1 /\ r.upto + 1 \in 1..(MaxRows + 1)
  BY <1>1, <1>2
<1>4. QED
  BY <1>1, <1>2, <1>3

LEMMA ExecutedOutcomes ==
    ASSUME NEW s, Typed(s), s.n < MaxQueries, NEW size \in 0..MaxRows, NEW r \in Executed(s, size)
    PROVE  /\ r.ok = TRUE /\ Typed(r.sys)
           /\ r.sys.n = s.n + 1 /\ r.sys.rejected = s.rejected /\ Known(r.sys)
           /\ \A q \in Executions : q # s.n + 1 => r.sys.size[q] = s.size[q]
           /\ select /\ ~s.eof => Streaming(r.sys, 0)
<1>1. MaxRows \in Nat /\ Chunk \in Nat \ {0} /\ MaxQueries \in Nat /\ s.n \in Nat
  BY StmtCursorAssumption DEF Typed, Systems
<1> DEFINE q1 == s.n + 1
<1>2. q1 \in Executions
  BY <1>1 DEF Executions
<1>3. PICK p \in Replies(1, size) \cup {[upto |-> 0, last |-> FALSE]} :
        r = Ok([s EXCEPT !.n = @ + 1, !.size[s.n + 1] = size,
                  !.h.buf = RowRange(s.n + 1, 1, p.upto), !.h.last = p.last,
                  !.srv.open = ~p.last, !.srv.next = p.upto + 1])
  BY DEF Executed
<1>4. /\ p.upto \in 0..MaxRows /\ p.last \in BOOLEAN /\ p.upto <= Chunk
      /\ p.last => p.upto = size
      /\ p.upto + 1 \in 1..(MaxRows + 1)
  <2>1. CASE p \in Replies(1, size)
    <3>1. 1 \in 1..(MaxRows + 1)
      BY <1>1
    <3>2. /\ p.upto \in 0..MaxRows /\ p.last \in BOOLEAN /\ p.upto < 1 + Chunk
          /\ p.last => p.upto = size
          /\ p.upto + 1 \in 1..(MaxRows + 1)
      BY <2>1, <3>1, ReplyFacts
    <3>3. p.upto <= Chunk
      BY <1>1, <3>2
    <3>4. QED
      BY <3>2, <3>3
  <2>2. CASE p = [upto |-> 0, last |-> FALSE]
    BY <1>1, <2>2
  <2>3. QED
    BY <2>1, <2>2
<1> DEFINE b == RowRange(q1, 1, p.upto)
           t == [s EXCEPT !.n = @ + 1, !.size[s.n + 1] = size,
                  !.h.buf = b, !.h.last = p.last,
                  !.srv.open = ~p.last, !.srv.next = p.upto + 1]
<1>5. b \in RowSeq /\ Len(b) = p.upto
  <2>1. 1 <= p.upto + 1 /\ p.upto + 1 - 1 = p.upto /\ 1 \in Nat \ {0}
    BY <1>1, <1>4
  <2>2. QED
    BY <1>2, <1>4, <2>1, RangeType
<1>6. r = Ok(t)
  BY <1>3
<1> HIDE DEF b
<1>7. t.n = q1 /\ t.size = [s.size EXCEPT ![q1] = size] /\ t.up = s.up /\ t.eof = s.eof
      /\ t.rejected = s.rejected
  BY DEF Typed, Systems
<1>8. t.h = [s.h EXCEPT !.buf = b, !.last = p.last]
  BY DEF Typed, Systems
<1>9. t.srv = [s.srv EXCEPT !.open = ~p.last, !.next = p.upto + 1]
  BY DEF Typed, Systems
<1> HIDE DEF t
<1>11. t.h \in Handles /\ t.h.buf = b /\ t.h.last = p.last
  BY <1>4, <1>5, <1>8 DEF Typed, Systems, Handles
<1>12. t.srv \in Servers /\ t.srv.open = ~p.last /\ t.srv.next = p.upto + 1
  BY <1>4, <1>9 DEF Typed, Systems, Servers
<1>13. t.n \in 0..MaxQueries /\ t.n > 0 /\ t.size \in [Executions -> 0..MaxRows]
  BY <1>1, <1>2, <1>7 DEF Typed, Systems
<1>14. t \in Systems
  BY <1>11, <1>12, <1>13 DEF t, Typed, Systems
<1>15. Typed(t) /\ Known(t)
  <2>1. Len(t.h.buf) <= Chunk
    BY <1>4, <1>5, <1>11
  <2>2. Typed(t)
    BY <1>13, <1>14, <2>1 DEF Typed
  <2>3. Known(t)
    BY <1>11, <1>12 DEF Known
  <2>4. QED
    BY <2>2, <2>3
<1>16. t.size[q1] = size /\ \A q \in Executions : q # q1 => t.size[q] = s.size[q]
  BY <1>2, <1>7 DEF Typed, Systems
<1>17. select /\ ~s.eof => Streaming(t, 0)
  <2>1. 0 + 1 = 1 /\ 0 + p.upto = p.upto
    BY <1>4
  <2>2. t.h.buf = RowRange(t.n, 0 + 1, 0 + Len(t.h.buf))
    BY <1>5, <1>7, <1>11, <2>1 DEF b
  <2>3. t.h.last => 0 + Len(t.h.buf) = t.size[t.n]
    BY <1>4, <1>5, <1>7, <1>11, <1>16, <2>1
  <2>4. t.srv.next = 0 + Len(t.h.buf) + 1
    BY <1>5, <1>11, <1>12, <2>1
  <2>5. QED
    BY <1>7, <1>13, <2>2, <2>3, <2>4 DEF Streaming
<1>18. r.sys = t /\ r.ok = TRUE
  BY <1>6 DEF Ok
<1>19. QED
  BY <1>7, <1>15, <1>16, <1>17, <1>18

(* An execution that succeeds leaves its result ready to be handed out; one  *)
(* that is not of a SELECT leaves no cursor.                                 *)
LEMMA ExecuteOutcomes ==
    ASSUME NEW s0, Typed(s0), s0.n < MaxQueries, s0.size[s0.n + 1] = 0, select \in BOOLEAN,
           NEW r \in Execute(s0)
    PROVE  /\ r.ok \in BOOLEAN /\ Typed(r.sys) /\ Extends(s0, r.sys)
           /\ r.ok => r.sys.n = s0.n + 1 /\ Streaming(r.sys, 0)
           /\ Clear(s0) => Orderly(r.sys)
           /\ Clear(s0) /\ ~select => Clear(r.sys)
<1> DEFINE s == [s0 EXCEPT !.eof = FALSE]
<1>1. s \in Systems /\ s.eof = FALSE
  BY DEF Typed, Systems
<1>2. s.h = s0.h /\ s.srv = s0.srv /\ s.up = s0.up /\ s.n = s0.n /\ s.size = s0.size
      /\ s.rejected = s0.rejected
  BY DEF Typed, Systems
<1>3. r = Fail(s) \/ r = Fail([s EXCEPT !.up = FALSE])
      \/ (s.up /\ s.h.state = "open" /\ s.srv.open /\ r = Fail([s EXCEPT !.rejected = TRUE]))
      \/ (select /\ \E size \in 0..MaxRows : r \in Executed(s, size))
      \/ (~select /\ ~s.srv.open /\ r = Ok([s EXCEPT !.n = @ + 1, !.h.buf = <<>>, !.h.last = TRUE]))
  BY DEF Execute, Lost, Refused, InProgress
<1> HIDE DEF s
<1>4. Typed(s) /\ s.n < MaxQueries /\ s.n \in Nat /\ (Clear(s0) => Clear(s))
  BY <1>1, <1>2 DEF Typed, Clear, Systems
<1>5. CASE r = Fail(s)
  BY <1>2, <1>4, <1>5 DEF Fail, Extends, Clear, Orderly, Known
<1>6. CASE r = Fail([s EXCEPT !.up = FALSE])
  BY <1>2, <1>4, <1>6 DEF Fail, Extends, Clear, Orderly, Known, Typed, Systems
<1>7. CASE s.up /\ s.h.state = "open" /\ s.srv.open /\ r = Fail([s EXCEPT !.rejected = TRUE])
  BY <1>2, <1>4, <1>7 DEF Fail, Extends, Clear, Typed, Systems
<1>8. CASE select /\ \E size \in 0..MaxRows : r \in Executed(s, size)
  <2>1. PICK size \in 0..MaxRows : r \in Executed(s, size)
    BY <1>8
  <2>2. /\ r.ok = TRUE /\ Typed(r.sys)
        /\ r.sys.n = s.n + 1 /\ r.sys.rejected = s.rejected /\ Known(r.sys)
        /\ \A q \in Executions : q # s.n + 1 => r.sys.size[q] = s.size[q]
        /\ select /\ ~s.eof => Streaming(r.sys, 0)
    BY <1>4, <2>1, ExecutedOutcomes
  <2>3. Extends(s0, r.sys)
    BY <1>2, <1>4, <2>2 DEF Extends
  <2>4. QED
    BY <1>1, <1>2, <1>4, <1>8, <2>2, <2>3 DEF Clear, Orderly
<1>9. CASE /\ ~select /\ ~s.srv.open
           /\ r = Ok([s EXCEPT !.n = @ + 1, !.h.buf = <<>>, !.h.last = TRUE])
  <2> DEFINE t == [s EXCEPT !.n = @ + 1, !.h.buf = <<>>, !.h.last = TRUE]
  <2>1. r.sys = t /\ r.ok = TRUE
    BY <1>9 DEF Ok
  <2>2. t.h = [s.h EXCEPT !.buf = <<>>, !.last = TRUE] /\ t.n = s.n + 1
    BY <1>1 DEF Systems
  <2>3. t.srv = s.srv /\ t.up = s.up /\ t.eof = FALSE /\ t.size = s.size /\ t.rejected = s.rejected
    BY <1>1 DEF Systems
  <2> HIDE DEF t
  <2>4. t.h \in Handles /\ t.h.buf = <<>> /\ t.h.last = TRUE /\ Len(t.h.buf) = 0
    <3>1. s.h \in Handles /\ <<>> \in RowSeq
      BY <1>1 DEF Systems, RowSeq
    <3>2. t.h \in Handles /\ t.h.buf = <<>> /\ t.h.last = TRUE
      BY <2>2, <3>1 DEF Handles
    <3>3. QED
      BY <3>2
  <2>5. t.n \in 0..MaxQueries /\ t.n \in Executions /\ t.n > 0
    BY <1>4, <2>2, StmtCursorAssumption DEF Executions
  <2>6. t \in Systems
    BY <1>1, <2>4, <2>5 DEF t, Systems
  <2>7. Typed(t)
    BY <2>4, <2>5, <2>6, StmtCursorAssumption DEF Typed
  <2>8. Streaming(t, 0)
    <3>1. t.h.buf = RowRange(t.n, 0 + 1, 0 + Len(t.h.buf))
      BY <2>4, <2>5, RangeEmpty
    <3>2. 0 + Len(t.h.buf) = t.size[t.n]
      BY <1>2, <2>2, <2>3, <2>4
    <3>3. ~t.eof /\ t.h.last
      BY <2>3, <2>4
    <3>4. QED
      BY <2>5, <3>1, <3>2, <3>3 DEF Streaming
  <2>9. Extends(s0, t)
    BY <1>2, <2>2, <2>3 DEF Extends
  <2>10. (Clear(s0) => Clear(t)) /\ (Clear(t) => Orderly(t))
    BY <1>2, <1>9, <2>3 DEF Clear, Orderly, Known
  <2>11. QED
    BY <1>2, <2>1, <2>2, <2>7, <2>8, <2>9, <2>10
<1>10. QED
  BY <1>3, <1>5, <1>6, <1>7, <1>8, <1>9

LEMMA RunOutcomes ==
    ASSUME NEW s, Typed(s), s.n < MaxQueries, s.size[s.n + 1] = 0, select \in BOOLEAN,
           NEW r \in Run(s)
    PROVE  /\ r.ok \in BOOLEAN /\ Typed(r.sys) /\ Extends(s, r.sys)
           /\ r.ok => r.sys.n = s.n + 1 /\ Streaming(r.sys, 0)
           /\ Clear(s) => Orderly(r.sys)
           /\ Clear(s) /\ ~select => Clear(r.sys)
<1>1. CASE r = Fail(s)
  BY <1>1 DEF Fail, Extends, Clear, Orderly, Known
<1>2. CASE r \in Execute(s)
  BY <1>2, ExecuteOutcomes
<1>3. QED
  BY <1>1, <1>2 DEF Run, BindParams, Then, Refused, Ok, Fail

LEMMA FetchOutcomes ==
    ASSUME NEW s, Typed(s), NEW r \in FetchChunk(s)
    PROVE  /\ r.ok \in BOOLEAN /\ Typed(r.sys) /\ SameResults(s, r.sys)
           /\ Orderly(s) => Orderly(r.sys)
           /\ r.ok => (r.sys.h.buf = <<>> => r.sys.h.last)
           /\ r.ok /\ s.h.buf = <<>> /\ ~s.h.last
                => \A got \in Nat : Streaming(s, got) => Streaming(r.sys, got)
<1> DEFINE e == [s EXCEPT !.h.last = FALSE]
<1>1. /\ e.h = [s.h EXCEPT !.last = FALSE]
      /\ e.srv = s.srv /\ e.up = s.up /\ e.n = s.n /\ e.size = s.size /\ e.rejected = s.rejected
  BY DEF Typed, Systems
<1>2. e.h \in Handles /\ e.h.last = FALSE /\ e.h.buf = s.h.buf
  BY <1>1 DEF Typed, Systems, Handles
<1>3. e \in Systems
  BY <1>2 DEF Typed, Systems
<1>4. FetchError(s) = e
  BY DEF FetchError
<1> HIDE DEF e
<1>5. Typed(e) /\ (Orderly(s) => Orderly(e))
  BY <1>1, <1>2, <1>3 DEF Typed, Orderly, Known
<1>6. \/ r = Fail(e) \/ r = Fail([e EXCEPT !.up = FALSE]) \/ r = Fail([e EXCEPT !.srv.open = FALSE])
      \/ /\ s.srv.open
         /\ \E p \in Replies(s.srv.next, s.size[s.n]) :
              r = Ok([s EXCEPT !.h.buf = RowRange(s.n, s.srv.next, p.upto), !.h.last = p.last,
                               !.srv.open = ~p.last, !.srv.next = p.upto + 1])
  BY <1>4 DEF FetchChunk
<1>7. CASE r = Fail(e)
  BY <1>1, <1>5, <1>7 DEF Fail, SameResults
<1>8. CASE r = Fail([e EXCEPT !.up = FALSE])
  BY <1>1, <1>2, <1>5, <1>8 DEF Fail, SameResults, Orderly, Known, Typed, Systems
<1>9. CASE r = Fail([e EXCEPT !.srv.open = FALSE])
  BY <1>1, <1>2, <1>5, <1>9 DEF Fail, SameResults, Orderly, Known, Typed, Systems, Servers
<1>10. CASE /\ s.srv.open
            /\ \E p \in Replies(s.srv.next, s.size[s.n]) :
                 r = Ok([s EXCEPT !.h.buf = RowRange(s.n, s.srv.next, p.upto), !.h.last = p.last,
                                  !.srv.open = ~p.last, !.srv.next = p.upto + 1])
  <2>1. PICK p \in Replies(s.srv.next, s.size[s.n]) :
             r = Ok([s EXCEPT !.h.buf = RowRange(s.n, s.srv.next, p.upto), !.h.last = p.last,
                              !.srv.open = ~p.last, !.srv.next = p.upto + 1])
    BY <1>10
  <2>2. MaxRows \in Nat /\ Chunk \in Nat \ {0} /\ MaxQueries \in Nat
    BY StmtCursorAssumption
  <2>3. s.n \in Executions /\ s.n > 0
    BY <1>10, <2>2 DEF Typed, Systems, Executions
  <2>4. s.srv.next \in 1..(MaxRows + 1) /\ s.size[s.n] \in 0..MaxRows
    BY <2>3 DEF Typed, Systems, Servers
  <2> DEFINE from == s.srv.next
             b    == RowRange(s.n, from, p.upto)
             t    == [s EXCEPT !.h.buf = b, !.h.last = p.last,
                               !.srv.open = ~p.last, !.srv.next = p.upto + 1]
  <2>5. /\ p.upto \in 0..MaxRows /\ p.last \in BOOLEAN
        /\ p.upto < from + Chunk /\ from <= p.upto + 1
        /\ p.last => p.upto = s.size[s.n]
        /\ ~p.last => from <= p.upto
        /\ p.upto + 1 \in 1..(MaxRows + 1)
    BY <2>4, ReplyFacts
  <2>6. b \in RowSeq /\ Len(b) = p.upto + 1 - from
    <3>1. from \in Nat \ {0}
      BY <2>2, <2>4
    <3>2. QED
      BY <2>3, <2>5, <3>1, RangeType
  <2>7. r.sys = t /\ r.ok = TRUE
    BY <2>1 DEF Ok
  <2> HIDE DEF b, from
  <2>8. t.n = s.n /\ t.size = s.size /\ t.up = s.up /\ t.eof = s.eof /\ t.rejected = s.rejected
    BY DEF Typed, Systems
  <2>9. t.h = [s.h EXCEPT !.buf = b, !.last = p.last]
    BY DEF Typed, Systems
  <2>10. t.srv = [s.srv EXCEPT !.open = ~p.last, !.next = p.upto + 1]
    BY DEF Typed, Systems
  <2> HIDE DEF t
  <2>11. t.h \in Handles /\ t.h.buf = b /\ t.h.last = p.last
    BY <2>5, <2>6, <2>9 DEF Typed, Systems, Handles
  <2>12. t.srv \in Servers /\ t.srv.open = ~p.last /\ t.srv.next = p.upto + 1
    BY <2>5, <2>10 DEF Typed, Systems, Servers
  <2>13. t \in Systems
    BY <2>11, <2>12 DEF t, Typed, Systems
  <2>14. Len(b) <= Chunk /\ (b = <<>> => p.last)
    <3>1. from \in Nat /\ p.upto \in Nat /\ Chunk \in Nat
      BY <2>2, <2>4, <2>5 DEF from
    <3>2. p.upto + 1 - from <= Chunk
      BY <2>5, <3>1
    <3>3. ~p.last => p.upto + 1 - from # 0
      BY <2>5, <3>1
    <3>4. b = <<>> => Len(b) = 0
      OBVIOUS
    <3>5. QED
      BY <2>6, <3>2, <3>3, <3>4
  <2>15. Typed(t)
    BY <2>3, <2>8, <2>11, <2>13, <2>14 DEF Typed
  <2>16. Orderly(s) => Orderly(t)
    BY <2>8, <2>11, <2>12 DEF Orderly, Known
  <2>17. ASSUME s.h.buf = <<>>, ~s.h.last, NEW got \in Nat, Streaming(s, got)
         PROVE  Streaming(t, got)
    <3>1. from = got + 1 /\ select /\ ~s.eof
      <4>1. Len(s.h.buf) = 0
        BY <2>17
      <4>2. s.srv.next = got + Len(s.h.buf) + 1 /\ select /\ ~s.eof
        BY <2>17 DEF Streaming
      <4>3. QED
        BY <4>1, <4>2 DEF from
    <3>2. got + Len(b) = p.upto
      BY <2>5, <2>6, <3>1
    <3>3. t.h.buf = RowRange(t.n, got + 1, got + Len(t.h.buf))
      BY <2>8, <2>11, <3>1, <3>2 DEF b
    <3>4. t.h.last => got + Len(t.h.buf) = t.size[t.n]
      BY <2>5, <2>8, <2>11, <3>2
    <3>5. t.srv.next = got + Len(t.h.buf) + 1
      BY <2>11, <2>12, <3>2
    <3>6. QED
      BY <2>3, <2>8, <3>1, <3>3, <3>4, <3>5 DEF Streaming
  <2>18. QED
    BY <2>7, <2>8, <2>11, <2>14, <2>15, <2>16, <2>17 DEF SameResults
<1>11. QED
  BY <1>6, <1>7, <1>8, <1>9, <1>10

LEMMA BufferedOutcomes ==
    ASSUME NEW s, Typed(s), NEW r \in Buffered(s)
    PROVE  /\ r.ok \in BOOLEAN /\ Typed(r.sys) /\ SameResults(s, r.sys)
           /\ Orderly(s) => Orderly(r.sys)
           /\ \A got \in Nat : r.ok /\ Streaming(s, got) =>
                /\ Streaming(r.sys, got)
                /\ r.sys.h.buf = <<>> => r.sys.h.last
<1>1. CASE r = Fail(s)
  BY <1>1 DEF Fail, SameResults
<1>2. CASE r = Ok(s) /\ (s.h.buf # <<>> \/ s.h.last \/ ~select)
  BY <1>2 DEF Ok, SameResults, Streaming
<1>3. CASE r \in FetchChunk(s) /\ s.h.buf = <<>> /\ ~s.h.last
  BY <1>3, FetchOutcomes
<1>4. QED
  BY <1>1, <1>2, <1>3 DEF Buffered, Refused

LEMMA PoppedFacts ==
    ASSUME NEW s, Typed(s)
    PROVE  /\ Typed(Popped(s)) /\ SameResults(s, Popped(s))
           /\ Orderly(s) => Orderly(Popped(s))
<1>1. CASE s.h.buf # <<>>
  <2> DEFINE t == [s EXCEPT !.h.buf = Tail(s.h.buf)]
  <2>1. s.h.buf \in RowSeq /\ Len(s.h.buf) <= Chunk /\ Chunk \in Nat
    BY StmtCursorAssumption DEF Typed, Systems, Handles
  <2>2. Tail(s.h.buf) \in RowSeq /\ Len(Tail(s.h.buf)) <= Chunk
    BY <1>1, <2>1 DEF RowSeq
  <2>3. Popped(s) = t
    BY <1>1 DEF Popped
  <2>4. /\ t.h = [s.h EXCEPT !.buf = Tail(s.h.buf)]
        /\ t.srv = s.srv /\ t.up = s.up /\ t.n = s.n /\ t.size = s.size /\ t.rejected = s.rejected
    BY DEF Typed, Systems
  <2> HIDE DEF t
  <2>5. t.h \in Handles /\ t.h.last = s.h.last /\ t.h.state = s.h.state /\ Len(t.h.buf) <= Chunk
    BY <2>2, <2>4 DEF Typed, Systems, Handles
  <2>6. t \in Systems
    BY <2>5 DEF t, Typed, Systems
  <2>7. QED
    BY <2>3, <2>4, <2>5, <2>6 DEF Typed, SameResults, Orderly, Known
<1>2. CASE s.h.buf = <<>>
  BY <1>2 DEF Popped, Typed, Systems, SameResults, Orderly, Known
<1>3. QED
  BY <1>1, <1>2

LEMMA CleanedFacts ==
    ASSUME NEW s, Typed(s)
    PROVE  /\ Typed(Cleaned(s)) /\ SameResults(s, Cleaned(s))
           /\ Clear(s) => Orderly(Cleaned(s))
<1>1. CASE s.h.state = "nil"
  BY <1>1 DEF Cleaned, SameResults, Clear, Orderly, Known
<1>2. CASE s.h.state # "nil"
  <2> DEFINE t == [s EXCEPT !.h.buf = <<>>, !.h.last = TRUE]
  <2>1. <<>> \in RowSeq /\ 0 <= Chunk
    BY StmtCursorAssumption DEF RowSeq
  <2>2. Cleaned(s) = t
    BY <1>2 DEF Cleaned
  <2>3. /\ t.h = [s.h EXCEPT !.buf = <<>>, !.last = TRUE]
        /\ t.srv = s.srv /\ t.up = s.up /\ t.n = s.n /\ t.size = s.size /\ t.rejected = s.rejected
    BY DEF Typed, Systems
  <2> HIDE DEF t
  <2>4. t.h \in Handles /\ t.h.state = s.h.state /\ t.h.buf = <<>>
    BY <2>1, <2>3 DEF Typed, Systems, Handles
  <2>5. t \in Systems
    BY <2>4 DEF t, Typed, Systems
  <2>6. QED
    BY <2>1, <2>2, <2>3, <2>4, <2>5 DEF Typed, SameResults, Clear, Orderly, Known
<1>3. QED
  BY <1>1, <1>2

-----------------------------------------------------------------------------
(* The Rows.                                                                 *)

LEMMA SharedFacts ==
    ASSUME TypeOK
    PROVE  /\ Shared \in [Executions -> Results]
           /\ \A q \in Executions :
                /\ rows[q].status = "open" => Shared[q].status = "open" /\ Shared[q].alone = FALSE
                /\ rows[q].status # "open" => Shared[q] = rows[q]
<1>1. rows \in [Executions -> Results] /\ <<>> \in RowSeq
  BY DEF TypeOK, Results, RowSeq
<1>2. ASSUME NEW q \in Executions
      PROVE  /\ Shared[q] \in Results
             /\ rows[q].status = "open" => Shared[q].status = "open" /\ Shared[q].alone = FALSE
             /\ rows[q].status # "open" => Shared[q] = rows[q]
  <2>1. rows[q] \in Results
    BY <1>1
  <2>2. CASE rows[q].status = "open"
    <3>1. Shared[q] = [rows[q] EXCEPT !.alone = FALSE, !.seen = <<>>]
      BY <2>2 DEF Shared, OpenRows
    <3>2. QED
      BY <1>1, <2>1, <2>2, <3>1 DEF Results
  <2>3. CASE rows[q].status # "open"
    <3>1. Shared[q] = rows[q]
      BY <2>3 DEF Shared, OpenRows
    <3>2. QED
      BY <2>1, <2>3, <3>1
  <2>4. QED
    BY <2>2, <2>3
<1>3. Shared \in [Executions -> Results]
  BY <1>2 DEF Shared
<1>4. QED
  BY <1>2, <1>3

(* What is left to show once the statement is known to be well formed.       *)
LEMMA TypesAgain ==
    ASSUME TypeOK, UNCHANGED <<select, v403>>, Typed(sys)', rows' \in [Executions -> Results]
    PROVE  TypeOK'
  BY DEF TypeOK, Typed, Results

LEMMA NoTrace == NoRows \in Results /\ NoRows.status = "none" /\ NoRows.end = "none"
                 /\ NoRows.alone = TRUE /\ NoRows.seen = <<>>
<1>1. <<>> \in RowSeq
  BY DEF RowSeq
<1>2. QED
  BY <1>1 DEF NoRows, Results

(* A call on the statement that returns no Rows.                             *)
LEMMA SharedKeeps ==
    ASSUME Delivers, Typed(sys)', Extends(sys, sys'), rows' = Shared, UNCHANGED <<select, v403>>
    PROVE  Delivers'
<1>1. /\ Shared \in [Executions -> Results]
      /\ \A q \in Executions :
           /\ rows[q].status = "open" => Shared[q].status = "open" /\ Shared[q].alone = FALSE
           /\ rows[q].status # "open" => Shared[q] = rows[q]
  BY SharedFacts DEF Delivers
<1>2. TypeOK'
  BY <1>1, TypesAgain DEF Delivers
<1>3. sys.n \in Nat /\ (sys'.n = sys.n \/ sys'.n = sys.n + 1)
      /\ Executions \subseteq Nat
      /\ \A q \in Executions : sys'.n = sys.n \/ q # sys'.n => sys'.size[q] = sys.size[q]
  BY DEF Delivers, Typed, Systems, Extends, Executions
<1>4. Untouched'
  <2> SUFFICES ASSUME NEW q \in Executions, q > sys'.n
               PROVE  sys'.size[q] = 0 /\ rows'[q] = NoRows
    BY DEF Untouched
  <2>1. q > sys.n /\ q # sys'.n
    BY <1>3
  <2>2. sys.size[q] = 0 /\ rows[q] = NoRows
    BY <2>1 DEF Delivers, Untouched
  <2>3. rows'[q] = rows[q]
    BY <1>1, <2>2, NoTrace
  <2>4. QED
    BY <1>3, <2>1, <2>2, <2>3
<1>5. AloneIsLast'
  <2>1. \A q \in Executions : ~(rows'[q].status = "open" /\ rows'[q].alone)
    BY <1>1
  <2>2. QED
    BY <2>1 DEF AloneIsLast
<1>6. ResultExact'
  <2> SUFFICES ASSUME NEW q \in Executions, rows'[q].alone
               PROVE  /\ rows'[q].seen = RowRange(q, 1, Len(rows'[q].seen))
                      /\ rows'[q].end = "eof" => Len(rows'[q].seen) = sys'.size[q]
    BY DEF ResultExact
  <2>1. rows'[q] = rows[q]
    BY <1>1
  <2>2. /\ rows[q].seen = RowRange(q, 1, Len(rows[q].seen))
        /\ rows[q].end = "eof" => Len(rows[q].seen) = sys.size[q]
    BY <2>1 DEF Delivers, ResultExact
  <2>3. rows[q].end = "eof" => ~(q > sys.n)
    BY NoTrace DEF Delivers, Untouched
  <2>4. ~(q > sys.n) => sys'.size[q] = sys.size[q]
    BY <1>3
  <2>5. QED
    BY <2>1, <2>2, <2>3, <2>4
<1>7. QED
  BY <1>2, <1>4, <1>5, <1>6 DEF Delivers

-----------------------------------------------------------------------------
(* One lemma per action: what it does to the statement, then to the Rows.    *)

LEMMA Callable ==
    ASSUME Delivers, MayCall, NEW s, SameResults(sys, s)
    PROVE  s.n < MaxQueries /\ s.size[s.n + 1] = 0
<1>1. sys.n \in Nat /\ sys.n < MaxQueries /\ MaxQueries \in Nat
  BY StmtCursorAssumption DEF Delivers, Typed, Systems, MayCall
<1>2. sys.n + 1 \in Executions /\ sys.n + 1 > sys.n
  BY <1>1 DEF Executions
<1>3. sys.size[sys.n + 1] = 0
  BY <1>2 DEF Delivers, Untouched
<1>4. QED
  BY <1>1, <1>3 DEF SameResults

(* The common part of exec, queryRows and QueryRow.                          *)
LEMMA CallOutcomes ==
    ASSUME Delivers, MayCall, NEW r \in Then(Ready(sys), Run)
    PROVE  /\ r.ok \in BOOLEAN /\ Typed(r.sys) /\ Extends(sys, r.sys)
           /\ r.ok => r.sys.n = sys.n + 1 /\ Streaming(r.sys, 0)
           /\ Orderly(sys) => Orderly(r.sys)
<1>1. Typed(sys) /\ select \in BOOLEAN
  BY DEF Delivers, TypeOK
<1>2. CASE r \in Ready(sys) /\ ~r.ok
  <2>1. /\ r.ok \in BOOLEAN /\ Typed(r.sys) /\ SameResults(sys, r.sys)
        /\ Orderly(sys) => Clear(r.sys)
    BY <1>1, <1>2, ReadyOutcomes
  <2>2. QED
    BY <1>2, <2>1 DEF SameResults, Extends, Clear, Orderly, Known
<1>3. CASE \E d \in Ready(sys) : d.ok /\ r \in Run(d.sys)
  <2>1. PICK d \in Ready(sys) : d.ok /\ r \in Run(d.sys)
    BY <1>3
  <2>2. Typed(d.sys) /\ SameResults(sys, d.sys) /\ (Orderly(sys) => Clear(d.sys))
    BY <1>1, ReadyOutcomes
  <2>3. d.sys.n < MaxQueries /\ d.sys.size[d.sys.n + 1] = 0
    BY <2>2, Callable
  <2>4. /\ r.ok \in BOOLEAN /\ Typed(r.sys) /\ Extends(d.sys, r.sys)
        /\ r.ok => r.sys.n = d.sys.n + 1 /\ Streaming(r.sys, 0)
        /\ Clear(d.sys) => Orderly(r.sys)
    BY <1>1, <2>1, <2>2, <2>3, RunOutcomes
  <2>5. QED
    BY <2>2, <2>4 DEF SameResults, Extends
<1>4. QED
  BY <1>2, <1>3 DEF Then

LEMMA ExecStep ==
    ASSUME Delivers, Exec
    PROVE  Delivers' /\ (ExecSelect = FALSE /\ Orderly(sys) => Orderly(sys)')
<1>1. Typed(sys) /\ select \in BOOLEAN
  BY DEF Delivers, TypeOK
<1>2. PICK d \in Ready(sys) : IF d.ok THEN \E x \in Run(d.sys) : sys' = Cleaned(x.sys)
                                      ELSE sys' = d.sys
  BY DEF Exec
<1>3. Typed(d.sys) /\ SameResults(sys, d.sys) /\ (Orderly(sys) => Clear(d.sys))
  BY <1>1, ReadyOutcomes
<1>4. /\ Typed(sys') /\ Extends(sys, sys')
      /\ ExecSelect = FALSE /\ Orderly(sys) => Orderly(sys')
  <2>1. CASE d.ok
    <3>1. PICK x \in Run(d.sys) : sys' = Cleaned(x.sys)
      BY <1>2, <2>1
    <3>2. d.sys.n < MaxQueries /\ d.sys.size[d.sys.n + 1] = 0
      BY <1>3, Callable DEF Exec
    <3>3. Typed(x.sys) /\ Extends(d.sys, x.sys) /\ (Clear(d.sys) /\ ~select => Clear(x.sys))
      BY <1>1, <1>3, <3>1, <3>2, RunOutcomes
    <3>4. /\ Typed(sys') /\ SameResults(x.sys, sys')
          /\ Clear(x.sys) => Orderly(sys')
      BY <3>1, <3>3, CleanedFacts
    <3>5. ExecSelect = FALSE => ~select
      BY DEF Exec
    <3>6. Extends(sys, sys')
      BY <1>3, <3>3, <3>4 DEF SameResults, Extends
    <3>7. QED
      BY <1>3, <3>3, <3>4, <3>5, <3>6
  <2>2. CASE ~d.ok
    BY <1>2, <1>3, <2>2 DEF SameResults, Extends, Clear, Orderly, Known
  <2>3. QED
    BY <2>1, <2>2
<1>5. rows' = Shared /\ UNCHANGED <<select, v403>>
  BY DEF Exec
<1>6. Delivers'
  BY <1>4, <1>5, SharedKeeps
<1>7. QED
  BY <1>4, <1>6

LEMMA QueryRowStep ==
    ASSUME Delivers, QueryRow
    PROVE  Delivers' /\ (Orderly(sys) => Orderly(sys)')
<1>1. PICK r \in Then(Then(Ready(sys), Run), Buffered) :
          sys' = IF r.ok THEN Popped(r.sys) ELSE r.sys
  BY DEF QueryRow
<1>2. Typed(r.sys) /\ Extends(sys, r.sys) /\ (Orderly(sys) => Orderly(r.sys))
  <2>1. CASE r \in Then(Ready(sys), Run)
    BY <2>1, CallOutcomes DEF QueryRow
  <2>2. CASE \E c \in Then(Ready(sys), Run) : c.ok /\ r \in Buffered(c.sys)
    <3>1. PICK c \in Then(Ready(sys), Run) : r \in Buffered(c.sys)
      BY <2>2
    <3>2. Typed(c.sys) /\ Extends(sys, c.sys) /\ (Orderly(sys) => Orderly(c.sys))
      BY CallOutcomes DEF QueryRow
    <3>3. Typed(r.sys) /\ SameResults(c.sys, r.sys) /\ (Orderly(c.sys) => Orderly(r.sys))
      BY <3>1, <3>2, BufferedOutcomes
    <3>4. QED
      BY <3>2, <3>3 DEF SameResults, Extends
  <2>3. r \in Then(Ready(sys), Run) \/ \E c \in Then(Ready(sys), Run) : c.ok /\ r \in Buffered(c.sys)
    <3> DEFINE R == Then(Ready(sys), Run)
    <3> HIDE DEF R
    <3>1. r \in Then(R, Buffered)
      BY <1>1 DEF R
    <3>2. r \in R \/ \E c \in R : c.ok /\ r \in Buffered(c.sys)
      BY <3>1 DEF Then
    <3>3. QED
      BY <3>2 DEF R
  <2>4. QED
    BY <2>1, <2>2, <2>3
<1>3. Typed(sys') /\ Extends(sys, sys') /\ (Orderly(sys) => Orderly(sys'))
  <2>1. /\ Typed(Popped(r.sys)) /\ SameResults(r.sys, Popped(r.sys))
        /\ Orderly(r.sys) => Orderly(Popped(r.sys))
    BY <1>2, PoppedFacts
  <2>2. QED
    BY <1>1, <1>2, <2>1 DEF SameResults, Extends
<1>4. rows' = Shared /\ UNCHANGED <<select, v403>>
  BY DEF QueryRow
<1>5. Delivers'
  BY <1>3, <1>4, SharedKeeps
<1>6. QED
  BY <1>3, <1>5

LEMMA QueryRowsStep ==
    ASSUME Delivers, QueryRows
    PROVE  Delivers' /\ (Orderly(sys) => Orderly(sys)')
<1>1. PICK r \in Then(Ready(sys), Run) :
         /\ sys' = r.sys
         /\ rows' = IF r.ok
                    THEN [Shared EXCEPT ![r.sys.n].status = "open",
                                        ![r.sys.n].alone = (OpenRows = {})]
                    ELSE Shared
  BY DEF QueryRows
<1>2. /\ r.ok \in BOOLEAN /\ Typed(r.sys) /\ Extends(sys, r.sys)
      /\ r.ok => r.sys.n = sys.n + 1 /\ Streaming(r.sys, 0)
      /\ Orderly(sys) => Orderly(r.sys)
  BY CallOutcomes DEF QueryRows
<1>3. UNCHANGED <<select, v403>>
  BY DEF QueryRows
<1>4. CASE ~r.ok
  <2>1. Delivers'
    BY <1>1, <1>2, <1>3, <1>4, SharedKeeps
  <2>2. QED
    BY <1>1, <1>2, <2>1
<1>5. CASE r.ok
  <2> DEFINE q1 == sys.n + 1
             x  == [NoRows EXCEPT !.status = "open", !.alone = (OpenRows = {})]
  <2>1. sys.n \in Nat /\ q1 \in Executions /\ Executions \subseteq Nat
    BY StmtCursorAssumption DEF Delivers, Typed, Systems, QueryRows, MayCall, Executions
  <2>2. /\ Shared \in [Executions -> Results]
        /\ \A q \in Executions :
             /\ rows[q].status = "open" => Shared[q].status = "open" /\ Shared[q].alone = FALSE
             /\ rows[q].status # "open" => Shared[q] = rows[q]
    BY SharedFacts DEF Delivers
  <2>3. rows[q1] = NoRows
    BY <2>1 DEF Delivers, Untouched
  <2>4. Shared[q1] = NoRows
    BY <2>1, <2>2, <2>3, NoTrace
  <2>5. x \in Results /\ x.status = "open" /\ x.end = "none" /\ x.seen = <<>>
        /\ (x.alone <=> OpenRows = {})
    <3>1. <<>> \in RowSeq
      BY DEF RowSeq
    <3>2. CASE OpenRows = {}
      <4>1. x = [NoRows EXCEPT !.status = "open", !.alone = TRUE]
        BY <3>2
      <4> HIDE DEF x
      <4>2. QED
        BY <3>1, <3>2, <4>1 DEF NoRows, Results
    <3>3. CASE OpenRows # {}
      <4>1. x = [NoRows EXCEPT !.status = "open", !.alone = FALSE]
        BY <3>3
      <4> HIDE DEF x
      <4>2. QED
        BY <3>1, <3>3, <4>1 DEF NoRows, Results
    <3>4. QED
      BY <3>2, <3>3
  <2>6. r.sys.n = q1
    BY <1>2, <1>5
  <2>7. rows' = [Shared EXCEPT ![q1].status = "open", ![q1].alone = (OpenRows = {})]
    BY <1>1, <1>5, <2>6
  <2>8. rows'[q1] = x /\ \A q \in Executions \ {q1} : rows'[q] = Shared[q]
    BY <2>1, <2>2, <2>4, <2>7
  <2>9. DOMAIN rows' = Executions /\ rows' = [q \in Executions |-> rows'[q]]
    BY <2>1, <2>2, <2>7
  <2> HIDE DEF x
  <2>10. rows' \in [Executions -> Results]
    BY <2>2, <2>5, <2>8, <2>9
  <2>11. TypeOK'
    BY <1>1, <1>2, <1>3, <2>10, TypesAgain DEF Delivers
  <2>12. sys'.n = q1 /\ \A q \in Executions \ {q1} : sys'.size[q] = sys.size[q]
    BY <1>1, <1>2, <2>6 DEF Extends
  <2>13. Untouched'
    <3> SUFFICES ASSUME NEW q \in Executions, q > sys'.n
                 PROVE  sys'.size[q] = 0 /\ rows'[q] = NoRows
      BY DEF Untouched
    <3>1. q > sys.n /\ q # q1
      BY <2>1, <2>12
    <3>2. sys.size[q] = 0 /\ rows[q] = NoRows
      BY <3>1 DEF Delivers, Untouched
    <3>3. QED
      BY <2>2, <2>8, <2>12, <3>1, <3>2, NoTrace
  <2>14. AloneIsLast'
    <3> SUFFICES ASSUME NEW q \in Executions, rows'[q].status = "open", rows'[q].alone
                 PROVE  /\ q = sys'.n
                        /\ \A p \in Executions : rows'[p].status = "open" => p = q
                        /\ rows'[q].end = "none" => Streaming(sys, Len(rows[q].seen))'
      BY DEF AloneIsLast
    <3>1. q = q1 /\ OpenRows = {}
      BY <2>2, <2>5, <2>8
    <3>2. \A p \in Executions : rows'[p].status = "open" => p = q
      BY <2>2, <2>8, <3>1 DEF OpenRows
    <3>3. Len(rows'[q].seen) = 0
      BY <2>5, <2>8, <3>1
    <3>4. Streaming(sys, Len(rows[q].seen))'
      BY <1>1, <1>2, <1>3, <1>5, <3>3 DEF Streaming
    <3>5. QED
      BY <2>12, <3>1, <3>2, <3>4
  <2>15. ResultExact'
    <3> SUFFICES ASSUME NEW q \in Executions, rows'[q].alone
                 PROVE  /\ rows'[q].seen = RowRange(q, 1, Len(rows'[q].seen))
                        /\ rows'[q].end = "eof" => Len(rows'[q].seen) = sys'.size[q]
      BY DEF ResultExact
    <3>1. CASE q = q1
      <4>1. rows'[q].seen = <<>> /\ rows'[q].end = "none" /\ Len(rows'[q].seen) = 0
        BY <2>5, <2>8, <3>1
      <4>2. QED
        BY <4>1, RangeEmpty
    <3>2. CASE q # q1
      <4>1. rows'[q] = rows[q]
        BY <2>2, <2>8, <3>2
      <4>2. QED
        BY <2>12, <3>2, <4>1 DEF Delivers, ResultExact
    <3>3. QED
      BY <3>1, <3>2
  <2>16. QED
    BY <1>1, <1>2, <2>11, <2>13, <2>14, <2>15 DEF Delivers
<1>6. QED
  BY <1>4, <1>5

(* A step on one open Rows, q.                                               *)
LEMMA OneRows ==
    ASSUME Delivers, Typed(sys)', SameResults(sys, sys'), UNCHANGED <<select, v403>>,
           NEW q \in Executions, rows[q].status = "open",
           rows' \in [Executions -> Results],
           \A p \in Executions \ {q} : rows'[p] = rows[p],
           rows'[q].alone => /\ rows[q].alone
                             /\ rows'[q].seen = RowRange(q, 1, Len(rows'[q].seen))
                             /\ rows'[q].end = "eof" => Len(rows'[q].seen) = sys.size[q],
           rows'[q].status = "open" /\ rows'[q].alone /\ rows'[q].end = "none"
             => Streaming(sys', Len(rows'[q].seen))
    PROVE  Delivers'
<1>1. TypeOK'
  BY TypesAgain DEF Delivers
<1>2. sys'.n = sys.n /\ sys'.size = sys.size
  BY DEF SameResults
<1>3. Untouched'
  <2> SUFFICES ASSUME NEW p \in Executions, p > sys.n
               PROVE  sys.size[p] = 0 /\ rows'[p] = NoRows
    BY <1>2 DEF Untouched
  <2>1. sys.size[p] = 0 /\ rows[p] = NoRows
    BY DEF Delivers, Untouched
  <2>2. QED
    BY <2>1, NoTrace
<1>4. AloneIsLast'
  <2> SUFFICES ASSUME NEW p \in Executions, rows'[p].status = "open", rows'[p].alone
               PROVE  /\ p = sys'.n
                      /\ \A o \in Executions : rows'[o].status = "open" => o = p
                      /\ rows'[p].end = "none" => Streaming(sys, Len(rows[p].seen))'
    BY DEF AloneIsLast
  <2>1. rows[p].status = "open" /\ rows[p].alone
    OBVIOUS
  <2>2. p = sys.n /\ \A o \in Executions : rows[o].status = "open" => o = p
    BY <2>1 DEF Delivers, AloneIsLast
  <2>3. p = q
    BY <2>2
  <2>4. rows'[p].end = "none" => Streaming(sys, Len(rows[p].seen))'
    BY <2>3 DEF Streaming
  <2>5. QED
    BY <1>2, <2>2, <2>3, <2>4
<1>5. ResultExact'
  <2> SUFFICES ASSUME NEW p \in Executions, rows'[p].alone
               PROVE  /\ rows'[p].seen = RowRange(p, 1, Len(rows'[p].seen))
                      /\ rows'[p].end = "eof" => Len(rows'[p].seen) = sys.size[p]
    BY <1>2 DEF ResultExact
  <2>1. CASE p = q
    BY <2>1
  <2>2. CASE p # q
    BY <2>2 DEF Delivers, ResultExact
  <2>3. QED
    BY <2>1, <2>2
<1>6. QED
  BY <1>1, <1>3, <1>4, <1>5 DEF Delivers

(* The next row of the buffer is the next row of the result.                 *)
LEMMA StreamingPopped ==
    ASSUME NEW s, Typed(s), NEW got \in Nat, Streaming(s, got), s.h.buf # <<>>
    PROVE  /\ Head(s.h.buf) = <<s.n, got + 1>> /\ s.n \in Executions /\ got < MaxRows
           /\ Streaming(Popped(s), got + 1)
<1> DEFINE l == Len(s.h.buf)
<1>1. MaxRows \in Nat /\ MaxQueries \in Nat
  BY StmtCursorAssumption
<1>2. s.h.buf \in RowSeq /\ s.srv.next \in 1..(MaxRows + 1) /\ s.h.last \in BOOLEAN
  BY DEF Typed, Systems, Handles, Servers
<1>3. l \in Nat /\ l # 0
  BY <1>2 DEF RowSeq
<1>4. s.n \in Executions
  BY <1>1 DEF Typed, Systems, Streaming, Executions
<1>5. /\ ~s.eof /\ s.n > 0
      /\ s.h.buf = RowRange(s.n, got + 1, got + l)
      /\ s.h.last => got + l = s.size[s.n]
      /\ ~s.h.last => select /\ s.srv.next = got + l + 1
  BY DEF Streaming
<1>6. s.size[s.n] \in 0..MaxRows
  BY <1>4 DEF Typed, Systems
<1> DEFINE t == [s EXCEPT !.h.buf = Tail(s.h.buf)]
<1>7. /\ t.h.buf = Tail(s.h.buf) /\ t.h.last = s.h.last
      /\ t.srv = s.srv /\ t.n = s.n /\ t.size = s.size /\ t.eof = s.eof
  BY DEF Typed, Systems, Handles
<1>8. Popped(s) = t
  BY DEF Popped
<1>9. Len(Tail(s.h.buf)) = l - 1
  BY <1>2 DEF RowSeq
<1> HIDE DEF l, t
<1>10. got + l \in 0..MaxRows /\ got < MaxRows /\ got + 1 <= got + l /\ got + 1 \in Nat \ {0}
  BY <1>1, <1>2, <1>3, <1>5, <1>6
<1>11. Head(s.h.buf) = <<s.n, got + 1>> /\ Tail(s.h.buf) = RowRange(s.n, (got + 1) + 1, got + l)
  BY <1>4, <1>5, <1>10, RangeTail
<1>12. (got + 1) + (l - 1) = got + l
  BY <1>3
<1>13. Streaming(t, got + 1)
  BY <1>5, <1>7, <1>9, <1>11, <1>12 DEF Streaming
<1>14. QED
  BY <1>4, <1>8, <1>10, <1>11, <1>13

LEMMA RowsNextStep ==
    ASSUME Delivers, NEW q \in Executions, RowsNext(q)
    PROVE  Delivers' /\ (Orderly(sys) => Orderly(sys)')
<1>1. /\ Typed(sys) /\ rows \in [Executions -> Results] /\ rows[q] \in Results
      /\ rows[q].status = "open" /\ rows[q].end = "none" /\ UNCHANGED <<select, v403>>
  BY DEF Delivers, TypeOK, Results, RowsNext
<1>2. rows[q].alone => /\ rows[q].seen = RowRange(q, 1, Len(rows[q].seen))
                       /\ q = sys.n /\ Streaming(sys, Len(rows[q].seen))
  BY <1>1 DEF Delivers, AloneIsLast, ResultExact
<1>3. rows[q].seen \in RowSeq /\ Len(rows[q].seen) \in Nat
  BY <1>1 DEF Results, RowSeq
<1> DEFINE got == Len(rows[q].seen)
<1>4. CASE sys.eof
  <2>1. sys' = sys /\ rows' = [rows EXCEPT ![q].end = "eof"]
    BY <1>4 DEF RowsNext
  <2>2. ~rows[q].alone
    BY <1>2, <1>4 DEF Streaming
  <2>3. rows'[q] = [rows[q] EXCEPT !.end = "eof"]
    BY <1>1, <2>1
  <2>4. rows'[q] \in Results /\ ~rows'[q].alone
    BY <1>1, <2>2, <2>3 DEF Results
  <2>5. rows' \in [Executions -> Results] /\ \A p \in Executions \ {q} : rows'[p] = rows[p]
    BY <1>1, <2>1, <2>3, <2>4
  <2>6. Typed(sys)' /\ SameResults(sys, sys')
    BY <1>1, <2>1 DEF SameResults, Typed
  <2>7. Delivers'
    BY <1>1, <2>4, <2>5, <2>6, OneRows
  <2>8. QED
    BY <2>1, <2>7 DEF Orderly, Known
<1>5. CASE ~sys.eof
  <2>1. PICK r \in Buffered(sys) :
              IF ~r.ok
              THEN sys' = r.sys /\ rows' = [rows EXCEPT ![q].end = "error"]
              ELSE /\ sys' = Popped(r.sys)
                   /\ rows' = IF r.sys.h.buf # <<>>
                              THEN [rows EXCEPT ![q].seen =
                                      IF rows[q].alone THEN Append(@, Head(r.sys.h.buf)) ELSE @]
                              ELSE [rows EXCEPT ![q].end = "eof"]
    BY <1>5 DEF RowsNext
  <2>2. /\ r.ok \in BOOLEAN /\ Typed(r.sys) /\ SameResults(sys, r.sys)
        /\ Orderly(sys) => Orderly(r.sys)
        /\ r.ok /\ rows[q].alone => /\ Streaming(r.sys, got)
                                    /\ r.sys.h.buf = <<>> => r.sys.h.last
    BY <1>1, <1>2, <1>3, BufferedOutcomes
  <2>3. /\ Typed(Popped(r.sys)) /\ SameResults(sys, Popped(r.sys))
        /\ Orderly(sys) => Orderly(Popped(r.sys))
    BY <2>2, PoppedFacts DEF SameResults
  <2>4. /\ Typed(sys') /\ SameResults(sys, sys')
        /\ Orderly(sys) => Orderly(sys')
    BY <2>1, <2>2, <2>3
  <2>5. CASE ~r.ok
    <3>1. rows' = [rows EXCEPT ![q].end = "error"]
      BY <2>1, <2>5
    <3>2. rows'[q] = [rows[q] EXCEPT !.end = "error"]
      BY <1>1, <3>1
    <3>3. rows'[q] \in Results /\ rows'[q].alone = rows[q].alone
          /\ rows'[q].seen = rows[q].seen /\ rows'[q].end = "error"
      BY <1>1, <3>2 DEF Results
    <3>4. rows' \in [Executions -> Results] /\ \A p \in Executions \ {q} : rows'[p] = rows[p]
      BY <1>1, <3>1, <3>2, <3>3
    <3>5. Delivers'
      BY <1>1, <1>2, <2>4, <3>3, <3>4, OneRows
    <3>6. QED
      BY <2>4, <3>5
  <2>6. CASE r.ok /\ r.sys.h.buf = <<>>
    <3>1. rows' = [rows EXCEPT ![q].end = "eof"]
      BY <2>1, <2>6
    <3>2. rows'[q] = [rows[q] EXCEPT !.end = "eof"]
      BY <1>1, <3>1
    <3>3. rows'[q] \in Results /\ rows'[q].alone = rows[q].alone
          /\ rows'[q].seen = rows[q].seen /\ rows'[q].end = "eof"
      BY <1>1, <3>2 DEF Results
    <3>4. rows' \in [Executions -> Results] /\ \A p \in Executions \ {q} : rows'[p] = rows[p]
      BY <1>1, <3>1, <3>2, <3>3
    <3>5. rows[q].alone => got = sys.size[q]
      <4>1. SUFFICES ASSUME rows[q].alone PROVE got = sys.size[q]
        OBVIOUS
      <4>2. got + Len(r.sys.h.buf) = r.sys.size[r.sys.n]
        BY <2>2, <2>6, <4>1 DEF Streaming
      <4>3. got + 0 = r.sys.size[r.sys.n]
        BY <2>6, <4>2
      <4>4. QED
        BY <1>2, <1>3, <2>2, <4>1, <4>3 DEF SameResults
    <3>6. Delivers'
      BY <1>1, <1>2, <2>4, <3>3, <3>4, <3>5, OneRows
    <3>7. QED
      BY <2>4, <3>6
  <2>7. CASE r.ok /\ r.sys.h.buf # <<>> /\ rows[q].alone
    <3> DEFINE e == Head(r.sys.h.buf)
               w == Append(rows[q].seen, e)
    <3>1. rows' = [rows EXCEPT ![q].seen = w]
      BY <2>1, <2>7
    <3>2. /\ e = <<r.sys.n, got + 1>> /\ r.sys.n \in Executions /\ got < MaxRows
          /\ Streaming(Popped(r.sys), got + 1)
      BY <1>3, <2>2, <2>7, StreamingPopped
    <3>3. r.sys.n = q
      BY <1>2, <2>2, <2>7 DEF SameResults
    <3>4. e \in Executions \X (1..MaxRows)
      <4>1. got + 1 \in 1..MaxRows
        BY <1>3, <3>2, StmtCursorAssumption
      <4> HIDE DEF got, e
      <4>2. QED
        BY <3>2, <4>1
    <3>5. w \in RowSeq /\ Len(w) = got + 1
      BY <1>3, <3>4, AppendFacts DEF RowSeq
    <3>6. w = RowRange(q, 1, Len(w))
      <4>1. rows[q].seen = RowRange(q, 1, got)
        BY <1>2, <2>7
      <4>2. Append(RowRange(q, 1, got), <<q, got + 1>>) = RowRange(q, 1, got + 1)
        BY <1>3, <3>2, RangeAppend
      <4> HIDE DEF got, e
      <4>3. QED
        BY <3>2, <3>3, <3>5, <4>1, <4>2
    <3> HIDE DEF w, e
    <3>7. rows'[q] = [rows[q] EXCEPT !.seen = w]
      BY <1>1, <3>1
    <3>8. rows'[q] \in Results /\ rows'[q].alone = rows[q].alone
          /\ rows'[q].seen = w /\ rows'[q].end = "none"
      BY <1>1, <3>5, <3>7 DEF Results
    <3>9. rows' \in [Executions -> Results] /\ \A p \in Executions \ {q} : rows'[p] = rows[p]
      BY <1>1, <3>1, <3>7, <3>8
    <3>10. Streaming(sys', Len(rows'[q].seen))
      BY <2>1, <2>7, <3>2, <3>5, <3>8
    <3>11. Delivers'
      BY <1>1, <2>4, <2>7, <3>6, <3>8, <3>9, <3>10, OneRows
    <3>12. QED
      BY <2>4, <3>11
  <2>8. CASE r.ok /\ r.sys.h.buf # <<>> /\ ~rows[q].alone
    <3>1. rows' = [rows EXCEPT ![q].seen = rows[q].seen]
      BY <1>1, <2>1, <2>8
    <3>2. rows' = rows
      BY <1>1, <3>1 DEF Results
    <3>3. Delivers'
      BY <1>1, <2>4, <2>8, <3>2, OneRows
    <3>4. QED
      BY <2>4, <3>3
  <2>9. QED
    BY <2>2, <2>5, <2>6, <2>7, <2>8
<1>6. QED
  BY <1>4, <1>5

LEMMA RowsCloseStep ==
    ASSUME Delivers, NEW q \in Executions, RowsClose(q)
    PROVE  Delivers' /\ (Orderly(sys) => Orderly(sys)')
<1>1. /\ Typed(sys) /\ rows \in [Executions -> Results] /\ rows[q] \in Results
      /\ rows[q].status = "open" /\ UNCHANGED <<select, v403>>
      /\ rows' = [rows EXCEPT ![q].status = "closed"]
  BY DEF Delivers, TypeOK, Results, RowsClose
<1> DEFINE s == [sys EXCEPT !.eof = FALSE]
<1>2. /\ Typed(s) /\ SameResults(sys, s) /\ (Orderly(sys) => Orderly(s))
  BY <1>1 DEF Typed, Systems, SameResults, Orderly, Known
<1>3. IF s.h.state # "nil" /\ ~s.h.last
      THEN \E r \in RenewHandle(s) : sys' = r.sys
      ELSE sys' = Cleaned(s)
  BY DEF RowsClose
<1> HIDE DEF s
<1>4. /\ Typed(sys') /\ SameResults(sys, sys') /\ (Orderly(sys) => Orderly(sys'))
  <2>1. CASE s.h.state # "nil" /\ ~s.h.last
    <3>1. PICK r \in RenewHandle(s) : sys' = r.sys
      BY <1>3, <2>1
    <3>2. Typed(r.sys) /\ SameResults(s, r.sys) /\ (~s.rejected => Clear(r.sys))
      BY <1>2, RenewOutcomes
    <3>3. QED
      BY <1>2, <3>1, <3>2 DEF SameResults, Orderly, Known, Clear
  <2>2. CASE ~(s.h.state # "nil" /\ ~s.h.last)
    <3>1. sys' = Cleaned(s)
      BY <1>3, <2>2
    <3>2. Orderly(s) => Clear(s)
      BY <2>2 DEF Orderly, Known, Clear
    <3>3. Typed(sys') /\ SameResults(s, sys') /\ (Clear(s) => Orderly(sys'))
      BY <1>2, <3>1, CleanedFacts
    <3>4. QED
      BY <1>2, <3>2, <3>3 DEF SameResults
  <2>3. QED
    BY <2>1, <2>2
<1>5. rows'[q] = [rows[q] EXCEPT !.status = "closed"]
  BY <1>1
<1>6. /\ rows'[q] \in Results /\ rows'[q].status = "closed" /\ rows'[q].alone = rows[q].alone
      /\ rows'[q].seen = rows[q].seen /\ rows'[q].end = rows[q].end
  BY <1>1, <1>5 DEF Results
<1>7. rows' \in [Executions -> Results] /\ \A p \in Executions \ {q} : rows'[p] = rows[p]
  BY <1>1, <1>5, <1>6
<1>8. rows[q].alone => /\ rows[q].seen = RowRange(q, 1, Len(rows[q].seen))
                       /\ rows[q].end = "eof" => Len(rows[q].seen) = sys.size[q]
  BY DEF Delivers, ResultExact
<1>9. Delivers'
  BY <1>1, <1>4, <1>6, <1>7, <1>8, OneRows
<1>10. QED
  BY <1>4, <1>9

(* A step that leaves all Rows alone, and the statement if one of them could *)
(* still be read.                                                            *)
LEMMA RowsUnchanged ==
    ASSUME Delivers, Typed(sys)', SameResults(sys, sys'), UNCHANGED <<select, v403, rows>>,
           \A got \in Nat : OpenRows # {} /\ Streaming(sys, got) => Streaming(sys', got)
    PROVE  Delivers'
<1>1. sys'.n = sys.n /\ sys'.size = sys.size
  BY DEF SameResults
<1>2. rows \in [Executions -> Results]
  BY DEF Delivers, TypeOK, Results
<1>3. TypeOK'
  BY <1>2, TypesAgain DEF Delivers
<1>4. Untouched' /\ ResultExact'
  BY <1>1 DEF Delivers, Untouched, ResultExact
<1>5. AloneIsLast'
  <2> SUFFICES ASSUME NEW q \in Executions, rows[q].status = "open", rows[q].alone
               PROVE  /\ q = sys'.n
                      /\ \A p \in Executions : rows[p].status = "open" => p = q
                      /\ rows[q].end = "none" => Streaming(sys, Len(rows[q].seen))'
    BY DEF AloneIsLast
  <2>1. /\ q = sys.n
        /\ \A p \in Executions : rows[p].status = "open" => p = q
        /\ rows[q].end = "none" => Streaming(sys, Len(rows[q].seen))
    BY DEF Delivers, AloneIsLast
  <2>2. OpenRows # {}
    BY DEF OpenRows
  <2>3. Len(rows[q].seen) \in Nat
    BY <1>2 DEF Results, RowSeq
  <2>4. rows[q].end = "none" => Streaming(sys', Len(rows[q].seen))
    BY <2>1, <2>2, <2>3
  <2>5. rows[q].end = "none" => Streaming(sys, Len(rows[q].seen))'
    BY <2>4 DEF Streaming
  <2>6. QED
    BY <1>1, <2>1, <2>5
<1>6. QED
  BY <1>3, <1>4, <1>5 DEF Delivers

LEMMA CloseStmtStep ==
    ASSUME Delivers, CloseStmt
    PROVE  Delivers' /\ (Orderly(sys) => Orderly(sys)')
<1>1. PICK r \in Close(sys) : sys' = r.sys
  BY DEF CloseStmt
<1>2. /\ Typed(r.sys) /\ SameResults(sys, r.sys) /\ r.ok \in BOOLEAN
      /\ r.sys.h.state = (IF r.ok THEN "nil" ELSE "closed")
      /\ r.sys.rejected = sys.rejected
  BY CloseOutcomes DEF Delivers
<1>3. OpenRows = {} /\ UNCHANGED <<select, v403, rows>>
  BY DEF CloseStmt
<1>4. Delivers'
  BY <1>1, <1>2, <1>3, RowsUnchanged
<1>5. QED
  BY <1>1, <1>2, <1>4 DEF Orderly, Known

LEMMA ConnectionLostStep ==
    ASSUME Delivers, ConnectionLost
    PROVE  Delivers' /\ (Orderly(sys) => Orderly(sys)')
<1>1. Typed(sys) /\ sys' = [sys EXCEPT !.up = FALSE] /\ UNCHANGED <<select, v403, rows>>
  BY DEF ConnectionLost, Delivers
<1>2. /\ sys' \in Systems /\ sys'.up = FALSE
      /\ sys'.h = sys.h /\ sys'.srv = sys.srv /\ sys'.n = sys.n /\ sys'.size = sys.size
      /\ sys'.eof = sys.eof /\ sys'.rejected = sys.rejected
  BY <1>1 DEF Typed, Systems
<1>3. Typed(sys') /\ SameResults(sys, sys') /\ (Orderly(sys) => Orderly(sys'))
  BY <1>1, <1>2 DEF Typed, SameResults, Orderly, Known
<1>4. \A got \in Nat : Streaming(sys, got) => Streaming(sys', got)
  BY <1>2 DEF Streaming
<1>5. Delivers'
  BY <1>1, <1>3, <1>4, RowsUnchanged
<1>6. QED
  BY <1>3, <1>5

-----------------------------------------------------------------------------
(* Theorems.                                                                 *)

LEMMA InitHolds == Init => Delivers /\ Orderly(sys)
<1> SUFFICES ASSUME Init PROVE Delivers /\ Orderly(sys)
  OBVIOUS
<1>1. MaxRows \in Nat /\ MaxQueries \in Nat /\ Chunk \in Nat
  BY StmtCursorAssumption
<1>2. sys.h = [FreshHandle EXCEPT !.prepared = TRUE] /\ sys.srv = [FreshServer EXCEPT !.prepared = TRUE]
  BY DEF Init
<1>3. sys.h \in Handles /\ sys.h.buf = <<>>
  <2>1. <<>> \in RowSeq
    BY DEF RowSeq
  <2>2. QED
    BY <1>2, <2>1 DEF FreshHandle, Handles
<1>4. sys.srv \in Servers /\ sys.srv.open = FALSE
  <2>1. 1 \in 1..(MaxRows + 1)
    BY <1>1
  <2>2. QED
    BY <1>2, <2>1 DEF FreshServer, Servers
<1>5. sys.n = 0 /\ sys.size = [q \in Executions |-> 0] /\ sys.rejected = FALSE
  BY DEF Init
<1>6. sys \in Systems
  <2> DEFINE h == [FreshHandle EXCEPT !.prepared = TRUE]
             v == [FreshServer EXCEPT !.prepared = TRUE]
             z == [q \in Executions |-> 0]
  <2>1. 0 \in 0..MaxQueries /\ z \in [Executions -> 0..MaxRows]
    BY <1>1
  <2>2. sys = [h |-> h, eof |-> FALSE, srv |-> v, up |-> TRUE, n |-> 0, size |-> z,
               rejected |-> FALSE]
    BY DEF Init
  <2>3. h \in Handles /\ v \in Servers
    BY <1>2, <1>3, <1>4
  <2> HIDE DEF h, v, z
  <2>4. QED
    BY <2>1, <2>2, <2>3 DEF Systems
<1>7. Typed(sys) /\ Orderly(sys)
  BY <1>1, <1>3, <1>4, <1>5, <1>6 DEF Typed, Orderly, Known
<1>8. rows = [q \in Executions |-> NoRows] /\ rows \in [Executions -> Results]
  BY NoTrace DEF Init
<1>9. TypeOK
  BY <1>7, <1>8 DEF Init, TypeOK, Typed, Results
<1>10. Untouched
  BY <1>5, <1>8 DEF Untouched
<1>11. AloneIsLast
  BY <1>8, NoTrace DEF AloneIsLast
<1>12. ResultExact
  <2> SUFFICES ASSUME NEW q \in Executions
               PROVE  /\ rows[q].seen = RowRange(q, 1, Len(rows[q].seen))
                      /\ rows[q].end = "none"
    BY DEF ResultExact
  <2>1. rows[q].seen = <<>> /\ Len(rows[q].seen) = 0 /\ rows[q].end = "none"
    BY <1>8, NoTrace
  <2>2. QED
    BY <2>1, RangeEmpty
<1>13. QED
  BY <1>7, <1>9, <1>10, <1>11, <1>12 DEF Delivers

LEMMA StepKeeps ==
    ASSUME Delivers, [Next]_vars
    PROVE  Delivers' /\ (ExecSelect = FALSE /\ Orderly(sys) => Orderly(sys)')
<1>1. CASE Exec
  BY <1>1, ExecStep
<1>2. CASE QueryRows
  BY <1>2, QueryRowsStep
<1>3. CASE QueryRow
  BY <1>3, QueryRowStep
<1>4. CASE CloseStmt
  BY <1>4, CloseStmtStep
<1>5. CASE ConnectionLost
  BY <1>5, ConnectionLostStep
<1>6. CASE \E q \in Executions : RowsNext(q)
  BY <1>6, RowsNextStep
<1>7. CASE \E q \in Executions : RowsClose(q)
  BY <1>7, RowsCloseStep
<1>8. CASE UNCHANGED vars
  <2>1. sys' = sys /\ UNCHANGED <<select, v403, rows>>
    BY <1>8 DEF vars
  <2>2. Typed(sys') /\ SameResults(sys, sys')
    BY <2>1 DEF Delivers, SameResults, Typed
  <2>3. \A got \in Nat : Streaming(sys, got) => Streaming(sys', got)
    BY <2>1 DEF Streaming
  <2>4. Delivers'
    BY <2>1, <2>2, <2>3, RowsUnchanged
  <2>5. QED
    BY <2>1, <2>4 DEF Orderly, Known
<1>9. QED
  BY <1>1, <1>2, <1>3, <1>4, <1>5, <1>6, <1>7, <1>8 DEF Next

(* Whatever the calls on a statement, the handle's buffer holds the next     *)
(* rows of the result that the only open Rows is reading, and the server's   *)
(* cursor stands behind them.                                                *)
THEOREM Invariance == Spec => []Delivers
<1>1. Init => Delivers
  BY InitHolds
<1>2. Delivers /\ [Next]_vars => Delivers'
  BY StepKeeps
<1>3. QED
  BY <1>1, <1>2, PTL DEF Spec

(* TypeOK for any number of executions, rows and rows per reply; the buffer  *)
(* of StmtHandle never outgrows one reply.                                   *)
THEOREM TypeCorrect == Spec => []TypeOK
<1>1. Delivers => TypeOK
  BY DEF Delivers
<1>2. QED
  BY <1>1, Invariance, PTL

(* A Rows that has the statement to itself delivers exactly the rows of its  *)
(* own execution, in order, and its end only after the last of them, in      *)
(* whatever sizes the server sends them and whatever failed or was abandoned *)
(* before (Rows.Next, Stmt.fetch, StmtHandle.Fetch).                         *)
THEOREM ResultsExact == Spec => []ResultExact
<1>1. Delivers => ResultExact
  BY DEF Delivers
<1>2. QED
  BY <1>1, Invariance, PTL

(* If no SELECT is run through Stmt.exec, the handle knows of every cursor   *)
(* the server keeps open, and no Prepare or Execute is sent into one.        *)
THEOREM OrderlyCalls == ExecSelect = FALSE => (Spec => []IInv)
<1> SUFFICES ASSUME ExecSelect = FALSE PROVE Spec => []IInv
  OBVIOUS
<1>1. Init => IInv
  BY InitHolds DEF IInv
<1>2. IInv /\ [Next]_vars => IInv'
  BY StepKeeps DEF IInv
<1>3. QED
  BY <1>1, <1>2, PTL DEF Spec

(* Then FetchCompleted, which is all the driver has to decide whether a      *)
(* handle must be renewed, is right whenever it says that nothing is open.   *)
THEOREM CursorsKnown == ExecSelect = FALSE => (Spec => []CursorKnown)
<1> SUFFICES ASSUME ExecSelect = FALSE PROVE Spec => []CursorKnown
  OBVIOUS
<1>1. IInv => CursorKnown
  BY DEF IInv, Orderly, Known, CursorKnown
<1>2. Spec => []IInv
  BY OrderlyCalls
<1>3. QED
  BY <1>1, <1>2, PTL

(* And the server never answers "Fetch in progress" (MACHCLI-ERR-3008):      *)
(* renewHandle drops every cursor that is left behind before the statement   *)
(* is used again.                                                            *)
THEOREM NothingRejected == ExecSelect = FALSE => (Spec => []NeverRejected)
<1> SUFFICES ASSUME ExecSelect = FALSE PROVE Spec => []NeverRejected
  OBVIOUS
<1>1. IInv => NeverRejected
  BY DEF IInv, Orderly, NeverRejected
<1>2. Spec => []IInv
  BY OrderlyCalls
<1>3. QED
  BY <1>1, <1>2, PTL
=============================================================================
