-------------------------- MODULE NativeConnProofs --------------------------
(***************************************************************************)
(* Proofs about NativeConn for any number of callers and calls, and        *)
(* replies that are split anywhere.                                        *)
(***************************************************************************)
EXTENDS NativeConn, TLAPS

(* The callers between mu.Lock and mu.Unlock.                                *)
Holding == {"write", "read", "garbage", "unwind"}

(* mu is held by the caller inside a round trip; the watcher and the write   *)
(* deadline are its own; close runs when nobody is inside and goes no        *)
(* further.                                                                  *)
OneInside == \A c \in Callers : pc[c] \in Holding <=> mu = c
WatcherInside == \A c \in watcher : mu = c
WriteBoundInside == mu = NoCaller => wd = "none"
OpenInside ==
    \A c \in Callers : pc[c] \in {"write", "read", "garbage"} => ~closed /\ call[c].op # "close"

Inside == OneInside /\ WatcherInside /\ WriteBoundInside /\ OpenInside

(* Packets in a row: whole, or a head with its tail right behind it, of      *)
(* which only the last segment of all may not have arrived.                  *)
Framed(box, late) ==
    /\ late = 1 => box # <<>> /\ box[Len(box)].part = "tail"
    /\ box # <<>> => box[1].part # "tail"
    /\ \A i \in 1..Len(box) : box[i].part = "head" =>
           /\ i + 1 \in 1..Len(box) /\ box[i + 1].part = "tail"
           /\ box[i + 1].proto = box[i].proto /\ box[i + 1].tag = box[i].tag
    /\ \A i \in 1..Len(box) : box[i].part = "tail" => i - 1 \in 1..Len(box) /\ box[i - 1].part = "head"

(* Somebody must wait for it.                                                *)
Awaited(p, given) ==
    p.proto \in {"Exec", "Free"} \/ (p.proto = "AppendClose" /\ "unread close" \notin given)

NoneAwaited(box, given) == \A i \in 1..Len(box) : ~Awaited(box[i], given)

NothingAwaited ==
    Framed(inbox, held) /\ NoneAwaited(inbox, slips) /\ NoneAwaited(outbox, slips)

(* What is awaited while the call k reads is k's own, and the last thing on  *)
(* the way.                                                                  *)
Own(p, k) == p.tag = k.tag /\ p.proto = Proto(k.op)
Ends(box, i) == i = Len(box) \/ (i + 1 = Len(box) /\ box[i].part = "head")
ReplyLast(box, given, k) ==
    \A i \in 1..Len(box) : Awaited(box[i], given) => Own(box[i], k) /\ Ends(box, i)
RequestLast(out, given, k) ==
    \A i \in 1..Len(out) : Awaited(out[i], given) => Own(out[i], k) /\ i = Len(out)

OnWay(c) ==
    /\ Framed(inbox, held)
    /\ \/ ReplyLast(inbox, slips, call[c]) /\ outbox = <<>>
       \/ NoneAwaited(inbox, slips) /\ RequestLast(outbox, slips, call[c])

ReaderAwaits == \A c \in Callers : pc[c] = "read" => OnWay(c)

(* Between round trips, and before the request is written, nothing is        *)
(* awaited on a connection that works.                                       *)
NobodyAwaits ==
    peerUp /\ ~closed /\ (\A c \in Callers : pc[c] # "read") => NothingAwaited

(* Nobody reads from the middle of a packet.                                 *)
NoGarbage == \A c \in Callers : pc[c] # "garbage"

InStep == "half reply" \notin slips => ReaderAwaits /\ NobodyAwaits /\ NoGarbage

IInv ==
    /\ TypeOK /\ RequestGetsOwnReply
    /\ Inside /\ InStep

-----------------------------------------------------------------------------
(* Types.                                                                    *)

PCs == {"idle", "lock", "write", "read", "garbage", "unwind"}

(* Leaving a round trip.                                                     *)
LEMMA FinishType ==
    ASSUME TypeOK, NEW c \in Callers, NEW outcome \in Outcome, NEW got \in Nat,
           Finish(c, outcome, got)
    PROVE  pc' \in [Callers -> PCs] /\ call' \in [Callers -> Call]
BY ZenonT(40) DEF Finish, TypeOK, Call, PCs

(* What an I/O error comes to is an outcome.                                 *)
LEMMA AbortType ==
    ASSUME NEW c, NEW timedOut
    PROVE  AbortOutcome(c, timedOut) \in Outcome
BY DEF AbortOutcome, Outcome

(* A reply taken from the stream leaves segments.                            *)
LEMMA AfterPacketType ==
    ASSUME inbox \in Seq(Segment), held \in {0, 1}, PacketReady
    PROVE  AfterPacket \in Seq(Segment) /\ inbox[1] \in Segment
BY DEF PacketReady, AfterPacket, Arrived

(* Every step of every caller keeps the types.                               *)
LEMMA TypeStep == TypeOK /\ [Next]_vars => TypeOK'
<1> SUFFICES ASSUME TypeOK, [Next]_vars  PROVE TypeOK'
  OBVIOUS
<1> USE DEF PCs
<1>b. closed \in BOOLEAN /\ peerUp \in BOOLEAN
  BY Zenon DEF TypeOK
<1>m. \A cond : MarkBrokenIf(cond) => closed' \in BOOLEAN
  BY Zenon DEF MarkBrokenIf
<1>1. ASSUME NEW c \in Callers, NEW op \in AllOps, NEW ctx \in Contexts, Enter(c, op, ctx)
      PROVE  TypeOK'
  BY <1>1 DEF Enter, TypeOK, Call, Outcome, connVars, netVars
<1>2. ASSUME NEW c \in Callers, Cancel(c)  PROVE TypeOK'
  BY <1>2 DEF Cancel, TypeOK, connVars, netVars
<1>3. ASSUME NEW c \in Callers, Lock(c)  PROVE TypeOK'
  <2>1. UNCHANGED <<cancelled, calls, outbox, inbox, held, peerUp, slips>>
    BY <1>3 DEF Lock, netVars
  <2>2. closed' \in BOOLEAN
    BY <1>3, <1>b, Zenon DEF Lock
  <2>3. mu' \in Callers \cup {NoCaller} /\ rd' \in Deadline /\ wd' \in Deadline
        /\ watcher' \subseteq Callers
    BY <1>3 DEF Lock, TypeOK, Deadline
  <2>4. pc' \in [Callers -> PCs]
    BY <1>3 DEF Lock, TypeOK
  <2>5. call' \in [Callers -> Call]
    <3>1. \/ \E o \in Outcome : call' = [call EXCEPT ![c].outcome = o]
          \/ \E b \in BOOLEAN : call' = [call EXCEPT ![c].clears = b]
      <4>1. "ok" \in Outcome /\ "closed" \in Outcome
        BY DEF Outcome
      <4>2. QED
        BY <1>3, <4>1 DEF Lock
    <3>2. CASE \E o \in Outcome : call' = [call EXCEPT ![c].outcome = o]
      BY <3>2, ZenonT(40) DEF TypeOK, Call
    <3>3. CASE \E b \in BOOLEAN : call' = [call EXCEPT ![c].clears = b]
      BY <3>3, ZenonT(40) DEF TypeOK, Call
    <3>4. QED
      BY <3>1, <3>2, <3>3
  <2>6. QED
    BY <2>1, <2>2, <2>3, <2>4, <2>5 DEF TypeOK
<1>4. ASSUME NEW c \in Callers, Fire(c)  PROVE TypeOK'
  BY <1>4 DEF Fire, TypeOK, Deadline, netVars
<1>5. ASSUME NEW c \in Callers, Write(c)  PROVE TypeOK'
  <2>1. UNCHANGED <<mu, closed, wd, cancelled, watcher, inbox, held, peerUp, calls, slips>>
    BY <1>5 DEF Write
  <2>2. outbox' \in Seq(Request) /\ rd' \in Deadline
    BY <1>5 DEF Write, TypeOK, Request, Call, Proto, Protocols, Deadline
  <2>3. pc' \in [Callers -> PCs] /\ call' \in [Callers -> Call]
    <3>1. CASE Finish(c, "ok", 0)
      BY <3>1, FinishType DEF Outcome
    <3>2. CASE /\ pc' = [pc EXCEPT ![c] = "read"]
               /\ call' = [call EXCEPT ![c].clears = @ \/ call[c].op \in {"check", "appendClose"}]
      BY ZenonT(40), <3>2 DEF TypeOK, Call
    <3>3. QED
      BY <1>5, <3>1, <3>2 DEF Write
  <2>4. QED
    BY <2>1, <2>2, <2>3 DEF TypeOK
<1>6. ASSUME NEW c \in Callers, WriteFails(c)  PROVE TypeOK'
  <2>1. UNCHANGED <<mu, rd, wd, cancelled, watcher, calls, outbox, inbox, held, peerUp, slips>>
    BY <1>6 DEF WriteFails, netVars
  <2>2. PICK timedOut \in BOOLEAN :
          Finish(c, AbortOutcome(c, timedOut), 0) /\ MarkBrokenIf(Retires(c, timedOut))
    BY <1>6 DEF WriteFails
  <2>3. pc' \in [Callers -> PCs] /\ call' \in [Callers -> Call] /\ closed' \in BOOLEAN
    BY <2>2, <1>m, FinishType, AbortType
  <2>4. QED
    BY <2>1, <2>3 DEF TypeOK
<1>7. ASSUME NEW c \in Callers, Read(c)  PROVE TypeOK'
  <2>1. UNCHANGED <<mu, rd, wd, cancelled, watcher, outbox, held, peerUp, calls>>
    BY <1>7 DEF Read
  <2>2. inbox' \in Seq(Segment) /\ inbox[1].tag \in Nat
    BY <1>7, AfterPacketType DEF Read, TypeOK, Segment
  <2>3. /\ closed' \in BOOLEAN
        /\ \/ UNCHANGED <<pc, call>>
           \/ \E o \in Outcome, n \in Nat : Finish(c, o, n)
    <3>1. {"ok", "failed", "swallowed", "mismatch"} \subseteq Outcome
      BY DEF Outcome
    <3>2. QED
      BY <1>7, <1>b, <1>m, <2>2, <3>1 DEF Read, UnexpectedProtocol
  <2>4. pc' \in [Callers -> PCs] /\ call' \in [Callers -> Call]
    BY <2>3, FinishType DEF TypeOK
  <2>5. slips' \subseteq Slips
    BY <1>7 DEF Read, TypeOK, Slips
  <2>6. QED
    BY <2>1, <2>2, <2>3, <2>4, <2>5 DEF TypeOK
<1>8. ASSUME NEW c \in Callers, ReadGarbage(c)  PROVE TypeOK'
  <2>1. UNCHANGED <<mu, rd, wd, cancelled, watcher, outbox, held, peerUp, calls, slips>>
    BY <1>8 DEF ReadGarbage
  <2>2. inbox' \in Seq(Segment)
    <3>1. inbox \in Seq(Segment) /\ Len(inbox) \in Nat /\ Len(inbox) > 0
      BY <1>8 DEF ReadGarbage, TypeOK, Arrived
    <3>2. Tail(inbox) \in Seq(Segment)
      BY <3>1
    <3>3. [inbox EXCEPT ![1].part = "tail"] \in Seq(Segment)
      <4>1. inbox[1] \in Segment
        BY <3>1
      <4>2. [inbox[1] EXCEPT !.part = "tail"] \in Segment
        BY <4>1 DEF Segment
      <4>3. QED
        BY <3>1, <4>2
    <3>4. inbox' \in {Tail(inbox), [inbox EXCEPT ![1].part = "tail"]}
      BY <1>8, Zenon DEF ReadGarbage
    <3>5. QED
      BY <3>2, <3>3, <3>4
  <2>3. /\ closed' \in BOOLEAN
        /\ \/ (\E next \in {"garbage", "read"} : pc' = [pc EXCEPT ![c] = next]) /\ UNCHANGED call
           \/ \E o \in Outcome, n \in Nat : Finish(c, o, n)
    <3>1. {"ok", "failed", "swallowed", "mismatch"} \subseteq Outcome
      BY DEF Outcome
    <3>2. QED
      BY <1>8, <1>b, <1>m, <3>1 DEF ReadGarbage
  <2>4. pc' \in [Callers -> PCs] /\ call' \in [Callers -> Call]
    <3>1. CASE (\E next \in {"garbage", "read"} : pc' = [pc EXCEPT ![c] = next]) /\ UNCHANGED call
      BY <3>1 DEF TypeOK
    <3>2. QED
      BY <2>3, <3>1, FinishType
  <2>5. QED
    BY <2>1, <2>2, <2>3, <2>4 DEF TypeOK
<1>9. ASSUME NEW c \in Callers, ReadTimeout(c)  PROVE TypeOK'
  <2>1. UNCHANGED <<mu, rd, wd, cancelled, watcher, outbox, held, peerUp, calls>>
    BY <1>9 DEF ReadTimeout
  <2>0. PICK halfway \in BOOLEAN :
          /\ halfway => pc[c] = "read" /\ Arrived > 0 /\ inbox[1].part = "head"
          /\ inbox' = IF halfway THEN Tail(inbox) ELSE inbox
          /\ IF call[c].op = "check"
             THEN /\ Finish(c, "noresponse", 0) /\ UNCHANGED closed
                  /\ slips' = IF halfway THEN slips \cup {"half reply"} ELSE slips
             ELSE /\ Finish(c, AbortOutcome(c, TRUE), 0)
                  /\ MarkBrokenIf(Retires(c, TRUE))
                  /\ UNCHANGED slips
    BY <1>9 DEF ReadTimeout
  <2>2. inbox' \in Seq(Segment)
    <3>0. inbox \in Seq(Segment) /\ held \in {0, 1} /\ Len(inbox) \in Nat
      BY DEF TypeOK
    <3>1. CASE halfway
      <4>1. inbox' = Tail(inbox) /\ Arrived > 0
        BY <2>0, <3>1, Zenon
      <4>2. Len(inbox) > 0
        BY <3>0, <4>1 DEF Arrived
      <4>3. QED
        BY <3>0, <4>1, <4>2
    <3>2. CASE ~halfway
      BY <2>0, <3>0, <3>2
    <3>3. QED
      BY <3>1, <3>2
  <2>3. closed' \in BOOLEAN /\ \E o \in Outcome : Finish(c, o, 0)
    <3>1. "noresponse" \in Outcome
      BY DEF Outcome
    <3>2. QED
      BY <2>0, <1>b, <1>m, <3>1, AbortType
  <2>4. pc' \in [Callers -> PCs] /\ call' \in [Callers -> Call]
    BY <2>3, FinishType
  <2>5. slips' \subseteq Slips
    BY <2>0 DEF TypeOK, Slips
  <2>6. QED
    BY <2>1, <2>2, <2>3, <2>4, <2>5 DEF TypeOK
<1>10. ASSUME NEW c \in Callers, ReadEOF(c)  PROVE TypeOK'
  <2>1. UNCHANGED <<mu, rd, wd, cancelled, watcher, calls, outbox, inbox, held, peerUp, slips>>
    BY <1>10 DEF ReadEOF, netVars
  <2>2. pc' \in [Callers -> PCs] /\ call' \in [Callers -> Call] /\ closed' \in BOOLEAN
    BY <1>10, <1>m, FinishType, AbortType DEF ReadEOF
  <2>3. QED
    BY <2>1, <2>2 DEF TypeOK
<1>11. ASSUME NEW c \in Callers, Unwind(c)  PROVE TypeOK'
  BY <1>11 DEF Unwind, TypeOK, Deadline, netVars
<1>12. CASE Answer
  <2>1. UNCHANGED <<mu, closed, rd, wd, pc, call, cancelled, watcher, peerUp, calls, slips>>
    BY <1>12 DEF Answer
  <2>2. outbox' \in Seq(Request) /\ Head(outbox) \in Request
    BY <1>12 DEF Answer, TypeOK
  <2>3. \A part \in {"whole", "head", "tail"}, e \in BOOLEAN :
          [tag |-> Head(outbox).tag, proto |-> Head(outbox).proto, part |-> part,
           error |-> e] \in Segment
    BY <2>2 DEF Request, Segment
  <2>4. inbox' \in Seq(Segment) /\ held' \in {0, 1}
    <3>1. \/ inbox' = inbox /\ held' = held
          \/ \E s \in Segment : inbox' = Append(inbox, s) /\ held' = held
          \/ \E s, r \in Segment : inbox' = inbox \o <<s, r>> /\ held' = 1
      BY <1>12, <2>3 DEF Answer
    <3>2. inbox \in Seq(Segment) /\ held \in {0, 1}
      BY DEF TypeOK
    <3>3. \A s, r \in Segment : Append(inbox, s) \in Seq(Segment) /\ inbox \o <<s, r>> \in Seq(Segment)
      BY <3>2
    <3>4. QED
      BY <3>1, <3>2, <3>3
  <2>5. QED
    BY <2>1, <2>2, <2>4 DEF TypeOK
<1>13. CASE SendRest
  BY <1>13 DEF SendRest, TypeOK
<1>14. CASE PeerGone
  <2>1. peerUp' \in BOOLEAN
    BY <1>14, Zenon DEF PeerGone
  <2>2. QED
    BY <1>14, <2>1 DEF PeerGone, TypeOK
<1>15. CASE UNCHANGED vars
  BY <1>15 DEF vars, TypeOK
<1>16. QED
  BY <1>1, <1>2, <1>3, <1>4, <1>5, <1>6, <1>7, <1>8, <1>9, <1>10, <1>11, <1>12, <1>13, <1>14,
     <1>15 DEF Next, Step, Environment

-----------------------------------------------------------------------------
(* One round trip at a time.                                                 *)

(* The caller that leaves its round trip, and only it, goes on to unwind.    *)
LEMMA Leaves ==
    ASSUME TypeOK, NEW c \in Callers, NEW outcome, NEW got, Finish(c, outcome, got)
    PROVE  /\ pc'[c] = "unwind" /\ \A a \in Callers \ {c} : pc'[a] = pc[a] /\ call'[a] = call[a]
           /\ call'[c].outcome = outcome /\ call'[c].got = got
           /\ \A a \in Callers : call'[a].op = call[a].op /\ call'[a].tag = call[a].tag
                                 /\ call'[a].ctx = call[a].ctx
BY DEF TypeOK, Finish, Call

(* Leaving, or going on reading, keeps everyone else out.                    *)
LEMMA InsideLeaves ==
    ASSUME TypeOK, Inside, NEW c \in Callers, pc[c] \in {"write", "read", "garbage"},
           UNCHANGED <<mu, wd, watcher>>,
           \/ /\ UNCHANGED <<call, closed>>
              /\ UNCHANGED pc \/ \E next \in {"read", "garbage"} : pc' = [pc EXCEPT ![c] = next]
           \/ \E outcome, got : Finish(c, outcome, got)
    PROVE  Inside'
<1>0. mu = c /\ \A a \in Callers \ {c} : pc[a] \notin Holding
  BY DEF Inside, OneInside, Holding
<1>1. CASE UNCHANGED <<pc, call, closed>>
  BY <1>1 DEF Inside, OneInside, WatcherInside, WriteBoundInside, OpenInside
<1>4. CASE UNCHANGED <<call, closed>> /\ \E next \in {"read", "garbage"} : pc' = [pc EXCEPT ![c] = next]
  <2>1. pc'[c] \in {"read", "garbage"} /\ \A a \in Callers \ {c} : pc'[a] = pc[a]
    BY <1>4 DEF TypeOK
  <2>2. QED
    BY <1>0, <1>4, <2>1 DEF Inside, OneInside, WatcherInside, WriteBoundInside, OpenInside, Holding
<1>2. CASE \E outcome, got : Finish(c, outcome, got)
  <2>1. /\ pc'[c] = "unwind" /\ \A a \in Callers \ {c} : pc'[a] = pc[a] /\ call'[a] = call[a]
    BY <1>2, Leaves
  <2>2. QED
    BY <1>0, <2>1 DEF Inside, OneInside, WatcherInside, WriteBoundInside, OpenInside, Holding
<1>3. QED
  BY <1>1, <1>2, <1>4

(* Every step keeps the round trips apart.                                   *)
LEMMA InsideStep == TypeOK /\ Inside /\ [Next]_vars => Inside'
<1> SUFFICES ASSUME TypeOK, Inside, [Next]_vars  PROVE Inside'
  OBVIOUS
<1> USE NativeConnAssumption DEF Inside
<1>t. pc \in [Callers -> PCs] /\ call \in [Callers -> Call] /\ mu \in Callers \cup {NoCaller}
  BY DEF TypeOK, PCs
<1>1. ASSUME NEW c \in Callers, NEW op \in AllOps, NEW ctx \in Contexts, Enter(c, op, ctx)
      PROVE  Inside'
  <2>1. /\ pc[c] = "idle" /\ pc'[c] = "lock"
        /\ \A a \in Callers \ {c} : pc'[a] = pc[a] /\ call'[a] = call[a]
        /\ UNCHANGED <<mu, watcher, wd, closed>>
    BY <1>1, <1>t DEF Enter, connVars
  <2>2. QED
    BY <2>1 DEF OneInside, WatcherInside, WriteBoundInside, OpenInside, Holding
<1>2. ASSUME NEW c \in Callers, Cancel(c)  PROVE Inside'
  BY <1>2 DEF Cancel, connVars, OneInside, WatcherInside, WriteBoundInside, OpenInside
<1>3. ASSUME NEW c \in Callers, Lock(c)  PROVE Inside'
  <2>1. pc[c] = "lock" /\ mu = NoCaller /\ \A a \in Callers : pc[a] \notin Holding
    BY <1>3 DEF Lock, OneInside, Holding
  <2>2. \A a \in Callers : call'[a].op = call[a].op
    BY <1>3, <1>t DEF Lock, Call
  <2>3. CASE pc' = [pc EXCEPT ![c] = "idle"] /\ UNCHANGED <<mu, wd, watcher>>
    <3>1. pc'[c] = "idle" /\ \A a \in Callers \ {c} : pc'[a] = pc[a]
      BY <1>t, <2>3
    <3>2. QED
      BY <2>1, <2>3, <3>1 DEF OneInside, WatcherInside, WriteBoundInside, OpenInside, Holding
  <2>4. CASE /\ ~closed /\ call[c].op # "close" /\ mu' = c
             /\ watcher' = (IF call[c].ctx = "background" THEN watcher ELSE watcher \cup {c})
             /\ pc' = [pc EXCEPT ![c] = "write"] /\ UNCHANGED closed
    <3>1. pc'[c] = "write" /\ \A a \in Callers \ {c} : pc'[a] = pc[a]
      BY <1>t, <2>4
    <3>2. watcher' \subseteq {c}
      BY <2>1, <2>4 DEF WatcherInside, TypeOK
    <3>3. QED
      BY <2>1, <2>2, <2>4, <3>1, <3>2
      DEF OneInside, WatcherInside, WriteBoundInside, OpenInside, Holding
  <2>5. QED
    BY <1>3, <2>3, <2>4 DEF Lock
<1>4. ASSUME NEW c \in Callers, Fire(c)  PROVE Inside'
  <2>1. mu = c /\ UNCHANGED <<mu, closed, pc, call>> /\ watcher' = watcher \ {c}
    BY <1>4 DEF Fire, WatcherInside
  <2>2. QED
    BY <2>1 DEF OneInside, WatcherInside, WriteBoundInside, OpenInside
<1>5. ASSUME NEW c \in Callers, Write(c)  PROVE Inside'
  <2>1. pc[c] = "write" /\ UNCHANGED <<mu, closed, wd, watcher>>
    BY <1>5 DEF Write
  <2>2. CASE Finish(c, "ok", 0)
    BY <2>1, <2>2, InsideLeaves
  <2>3. CASE /\ pc' = [pc EXCEPT ![c] = "read"]
             /\ \E b \in BOOLEAN : call' = [call EXCEPT ![c].clears = b]
    <3>1. pc'[c] = "read" /\ \A a \in Callers \ {c} : pc'[a] = pc[a]
      BY <1>t, <2>3
    <3>2. \A a \in Callers : call'[a].op = call[a].op
      BY <1>t, <2>3 DEF Call
    <3>3. QED
      BY <2>1, <3>1, <3>2 DEF OneInside, WatcherInside, WriteBoundInside, OpenInside, Holding
  <2>4. QED
    BY <1>5, <2>2, <2>3 DEF Write
<1>6. ASSUME NEW c \in Callers, WriteFails(c) \/ ReadEOF(c)  PROVE Inside'
  BY <1>6, InsideLeaves DEF WriteFails, ReadEOF
<1>7. ASSUME NEW c \in Callers, Read(c)  PROVE Inside'
  BY <1>7, InsideLeaves DEF Read, UnexpectedProtocol
<1>8. ASSUME NEW c \in Callers, ReadGarbage(c)  PROVE Inside'
  BY <1>8, InsideLeaves DEF ReadGarbage
<1>9. ASSUME NEW c \in Callers, ReadTimeout(c)  PROVE Inside'
  BY <1>9, InsideLeaves DEF ReadTimeout
<1>11. ASSUME NEW c \in Callers, Unwind(c)  PROVE Inside'
  <2>1. /\ pc[c] = "unwind" /\ mu' = NoCaller /\ wd' = "none" /\ watcher' = watcher \ {c}
        /\ pc'[c] = "idle" /\ (\A a \in Callers \ {c} : pc'[a] = pc[a]) /\ UNCHANGED <<closed, call>>
    BY <1>11, <1>t DEF Unwind
  <2>2. mu = c /\ (\A a \in Callers \ {c} : pc[a] \notin Holding) /\ watcher' = {}
    <3>1. mu = c
      BY <2>1 DEF OneInside, Holding
    <3>2. QED
      BY <2>1, <3>1 DEF OneInside, WatcherInside
  <2>3. QED
    BY <2>1, <2>2 DEF OneInside, WatcherInside, WriteBoundInside, OpenInside, Holding
<1>12. CASE UNCHANGED <<mu, closed, wd, pc, call, watcher>>
  BY <1>12 DEF OneInside, WatcherInside, WriteBoundInside, OpenInside
<1>13. QED
  <2>1. Answer \/ SendRest \/ PeerGone \/ UNCHANGED vars
          => UNCHANGED <<mu, closed, wd, pc, call, watcher>>
    BY DEF Answer, SendRest, PeerGone, vars
  <2>2. QED
    BY <1>1, <1>2, <1>3, <1>4, <1>5, <1>6, <1>7, <1>8, <1>9, <1>11, <1>12, <2>1
    DEF Next, Step, Environment

-----------------------------------------------------------------------------
(* What is on the way.                                                       *)

(* Nothing is awaited where nothing is.                                      *)
LEMMA NothingInNothing ==
    ASSUME NEW given  PROVE NoneAwaited(<<>>, given)
<1>1. 1..Len(<<>>) = {}
  OBVIOUS
<1>2. QED
  BY <1>1 DEF NoneAwaited

(* A segment that is on its way has its head before it.                      *)
LEMMA HeldBehindHead ==
    ASSUME NEW box \in Seq(Segment), NEW late, Framed(box, late)
    PROVE  /\ box # <<>> => box[1].part # "tail"
           /\ late = 1 => Len(box) > 1
<1> DEFINE n == Len(box)
<1>1. n \in Nat /\ (box # <<>> => n # 0)
  OBVIOUS
<1>2. late = 1 => box # <<>> /\ box[n].part = "tail"
  BY DEF Framed
<1>3. box # <<>> => box[1].part # "tail"
  BY DEF Framed
<1> HIDE DEF n
<1>4. late = 1 => n > 1
  BY <1>1, <1>2, <1>3
<1>5. QED
  BY <1>3, <1>4 DEF n

(* A whole packet behind others.                                             *)
LEMMA FramedWhole ==
    ASSUME NEW box \in Seq(Segment), NEW s \in Segment, NEW given, NEW k,
           s.part = "whole", Framed(box, 0)
    PROVE  /\ Framed(Append(box, s), 0)
           /\ NoneAwaited(box, given) /\ ~Awaited(s, given) => NoneAwaited(Append(box, s), given)
           /\ NoneAwaited(box, given) /\ Own(s, k) => ReplyLast(Append(box, s), given, k)
<1> DEFINE new == Append(box, s)
           n == Len(box)
<1>1. /\ Len(new) = n + 1 /\ n \in Nat /\ new[n + 1] = s /\ new # <<>>
      /\ \A i \in 1..n : new[i] = box[i]
      /\ box # <<>> => n > 0
  OBVIOUS
<1>e. box = <<>> => n = 0
  OBVIOUS
<1> HIDE DEF new, n
<1>r. \A i \in 1..(n + 1) : i = n + 1 \/ i \in 1..n
  BY <1>1
<1>f. /\ n > 0 => box[1].part # "tail"
      /\ \A i \in 1..n : box[i].part = "head" =>
           /\ i + 1 \in 1..n /\ box[i + 1].part = "tail"
           /\ box[i + 1].proto = box[i].proto /\ box[i + 1].tag = box[i].tag
      /\ \A i \in 1..n : box[i].part = "tail" => i - 1 \in 1..n /\ box[i - 1].part = "head"
  BY <1>1, <1>e DEF Framed, n
<1>2. new[1].part # "tail"
  <2>1. CASE n > 0
    BY <1>1, <1>f, <2>1
  <2>2. CASE n = 0
    BY <1>1, <2>2
  <2>3. QED
    BY <1>1, <2>1, <2>2
<1>3. ASSUME NEW i \in 1..(n + 1), new[i].part = "head"
      PROVE  /\ i + 1 \in 1..(n + 1) /\ new[i + 1].part = "tail"
             /\ new[i + 1].proto = new[i].proto /\ new[i + 1].tag = new[i].tag
  BY <1>1, <1>r, <1>f, <1>3
<1>4. ASSUME NEW i \in 1..(n + 1), new[i].part = "tail"
      PROVE  i - 1 \in 1..(n + 1) /\ new[i - 1].part = "head"
  BY <1>1, <1>r, <1>f, <1>4
<1>5. Framed(new, 0)
  BY <1>1, <1>2, <1>3, <1>4 DEF Framed
<1>6. NoneAwaited(box, given) /\ ~Awaited(s, given) => NoneAwaited(new, given)
  BY <1>1, <1>r DEF NoneAwaited, n
<1>7. NoneAwaited(box, given) /\ Own(s, k) => ReplyLast(new, given, k)
  BY <1>1, <1>r DEF NoneAwaited, ReplyLast, Ends, n
<1>8. QED
  BY <1>5, <1>6, <1>7 DEF new

(* A packet in two segments behind others, the second on its way.            *)
LEMMA FramedSplit ==
    ASSUME NEW box \in Seq(Segment), NEW s \in Segment, NEW r \in Segment, NEW given, NEW k,
           s.part = "head", r.part = "tail", s.proto = r.proto, s.tag = r.tag, Framed(box, 0)
    PROVE  /\ Framed(box \o <<s, r>>, 1)
           /\ NoneAwaited(box, given) /\ ~Awaited(s, given) => NoneAwaited(box \o <<s, r>>, given)
           /\ NoneAwaited(box, given) /\ Own(s, k) => ReplyLast(box \o <<s, r>>, given, k)
<1> DEFINE new == box \o <<s, r>>
           n == Len(box)
<1>1. /\ Len(new) = n + 2 /\ n \in Nat /\ new[n + 1] = s /\ new[n + 2] = r /\ new # <<>>
      /\ \A i \in 1..n : new[i] = box[i]
      /\ box # <<>> => n > 0
  OBVIOUS
<1>e. box = <<>> => n = 0
  OBVIOUS
<1> HIDE DEF new, n
<1>r. \A i \in 1..(n + 2) : i = n + 2 \/ i = n + 1 \/ i \in 1..n
  BY <1>1
<1>f. /\ n > 0 => box[1].part # "tail"
      /\ \A i \in 1..n : box[i].part = "head" =>
           /\ i + 1 \in 1..n /\ box[i + 1].part = "tail"
           /\ box[i + 1].proto = box[i].proto /\ box[i + 1].tag = box[i].tag
      /\ \A i \in 1..n : box[i].part = "tail" => i - 1 \in 1..n /\ box[i - 1].part = "head"
  BY <1>1, <1>e DEF Framed, n
<1>2. new[1].part # "tail"
  <2>1. CASE n > 0
    BY <1>1, <1>f, <2>1
  <2>2. CASE n = 0
    BY <1>1, <2>2
  <2>3. QED
    BY <1>1, <2>1, <2>2
<1>3. ASSUME NEW i \in 1..(n + 2), new[i].part = "head"
      PROVE  /\ i + 1 \in 1..(n + 2) /\ new[i + 1].part = "tail"
             /\ new[i + 1].proto = new[i].proto /\ new[i + 1].tag = new[i].tag
  <2>1. CASE i \in 1..n
    BY <1>1, <1>f, <1>3, <2>1
  <2>2. CASE i = n + 1
    BY <1>1, <2>2
  <2>3. QED
    BY <1>1, <1>r, <1>3, <2>1, <2>2
<1>4. ASSUME NEW i \in 1..(n + 2), new[i].part = "tail"
      PROVE  i - 1 \in 1..(n + 2) /\ new[i - 1].part = "head"
  <2>1. CASE i \in 1..n
    BY <1>1, <1>f, <1>4, <2>1
  <2>2. CASE i = n + 2
    BY <1>1, <2>2
  <2>3. QED
    BY <1>1, <1>r, <1>4, <2>1, <2>2
<1>5. Framed(new, 1)
  BY <1>1, <1>2, <1>3, <1>4 DEF Framed
<1>a. Awaited(s, given) <=> Awaited(r, given)
  BY DEF Awaited
<1>6. NoneAwaited(box, given) /\ ~Awaited(s, given) => NoneAwaited(new, given)
  BY <1>1, <1>r, <1>a DEF NoneAwaited, n
<1>7. NoneAwaited(box, given) /\ Own(s, k) => ReplyLast(new, given, k)
  <2> SUFFICES ASSUME NoneAwaited(box, given), Own(s, k), NEW i \in 1..(n + 2), Awaited(new[i], given)
               PROVE  Own(new[i], k) /\ Ends(new, i)
    BY <1>1 DEF ReplyLast
  <2>1. i = n + 2 \/ i = n + 1
    BY <1>1, <1>r DEF NoneAwaited, n
  <2>2. Own(r, k)
    BY DEF Own
  <2>3. QED
    BY <1>1, <2>1, <2>2 DEF Ends
<1>8. QED
  BY <1>5, <1>6, <1>7 DEF new

(* The stream without its first packet.                                      *)
LEMMA FramedAfter ==
    ASSUME NEW box \in Seq(Segment), NEW late \in {0, 1}, NEW given, NEW k, NEW w \in {1, 2},
           Len(box) - late >= w, box[1].part = IF w = 1 THEN "whole" ELSE "head",
           Framed(box, late)
    PROVE  /\ Framed(SubSeq(box, w + 1, Len(box)), late)
           /\ NoneAwaited(box, given) => NoneAwaited(SubSeq(box, w + 1, Len(box)), given)
           /\ ReplyLast(box, given, k) => ReplyLast(SubSeq(box, w + 1, Len(box)), given, k)
<1> DEFINE n == Len(box)
           new == SubSeq(box, w + 1, n)
<1>1. /\ n \in Nat /\ n >= w /\ Len(new) = n - w
      /\ \A i \in 1..(n - w) : new[i] = box[i + w] /\ i + w \in 1..n
  OBVIOUS
<1>e. new # <<>> <=> n > w
  <2>1. new \in Seq(Segment)
    OBVIOUS
  <2> HIDE DEF new, n
  <2>2. QED
    BY <1>1, <2>1
<1>c. box # <<>>
  OBVIOUS
<1> HIDE DEF new, n
<1>f. /\ late = 1 => box[n].part = "tail"
      /\ \A i \in 1..n : box[i].part = "head" =>
           /\ i + 1 \in 1..n /\ box[i + 1].part = "tail"
           /\ box[i + 1].proto = box[i].proto /\ box[i + 1].tag = box[i].tag
      /\ \A i \in 1..n : box[i].part = "tail" => i - 1 \in 1..n /\ box[i - 1].part = "head"
  BY <1>c DEF Framed, n
<1>g. w = 2 => box[2].part = "tail"
  BY <1>1, <1>f
<1>2. late = 1 => n > w
  BY <1>1, <1>f DEF n
<1>3. n > w => box[w + 1].part # "tail"
  <2> SUFFICES ASSUME n > w, box[w + 1].part = "tail"  PROVE FALSE
    OBVIOUS
  <2>1. w + 1 \in 1..n /\ (w + 1) - 1 = w
    BY <1>1
  <2>2. box[w].part = "head"
    BY <1>f, <2>1
  <2>3. QED
    BY <1>g, <2>2
<1>4. ASSUME NEW i \in 1..(n - w), new[i].part = "head"
      PROVE  /\ i + 1 \in 1..(n - w) /\ new[i + 1].part = "tail"
             /\ new[i + 1].proto = new[i].proto /\ new[i + 1].tag = new[i].tag
  <2>1. /\ (i + w) + 1 \in 1..n /\ box[(i + w) + 1].part = "tail"
        /\ box[(i + w) + 1].proto = box[i + w].proto /\ box[(i + w) + 1].tag = box[i + w].tag
    BY <1>1, <1>f, <1>4
  <2>2. i + 1 \in 1..(n - w) /\ (i + w) + 1 = (i + 1) + w
    BY <1>1, <2>1
  <2>3. new[i + 1] = box[(i + w) + 1]
    BY <1>1, <2>2
  <2>4. QED
    BY <1>1, <2>1, <2>2, <2>3
<1>5. ASSUME NEW i \in 1..(n - w), new[i].part = "tail"
      PROVE  i - 1 \in 1..(n - w) /\ new[i - 1].part = "head"
  <2>1. (i + w) - 1 \in 1..n /\ box[(i + w) - 1].part = "head"
    BY SMTT(40), <1>1, <1>f, <1>5
  <2>2. i # 1
    BY <1>1, <1>3, <1>5
  <2>3. i - 1 \in 1..(n - w) /\ (i + w) - 1 = (i - 1) + w
    BY <1>1, <2>2
  <2>4. new[i - 1] = box[(i + w) - 1]
    BY <1>1, <2>3
  <2>5. QED
    BY <2>1, <2>3, <2>4
<1>6. late = 1 => new # <<>> /\ new[n - w].part = "tail"
  <2> SUFFICES ASSUME late = 1  PROVE new # <<>> /\ new[n - w].part = "tail"
    OBVIOUS
  <2>1. n - w \in 1..(n - w) /\ (n - w) + w = n
    BY <1>1, <1>2
  <2>2. new[n - w] = box[n]
    BY <1>1, <2>1
  <2>3. QED
    BY <1>2, <1>e, <1>f, <2>2
<1>7. new # <<>> => new[1].part # "tail"
  <2> SUFFICES ASSUME new # <<>>  PROVE new[1].part # "tail"
    OBVIOUS
  <2>1. 1 \in 1..(n - w) /\ 1 + w = w + 1
    BY <1>1, <1>e
  <2>2. QED
    BY <1>1, <1>3, <1>e, <2>1
<1>8. Framed(new, late)
  BY <1>1, <1>4, <1>5, <1>6, <1>7 DEF Framed
<1>9. NoneAwaited(box, given) => NoneAwaited(new, given)
  BY <1>1 DEF NoneAwaited, n
<1>10. ReplyLast(box, given, k) => ReplyLast(new, given, k)
  <2> SUFFICES ASSUME ReplyLast(box, given, k), NEW i \in 1..(n - w), Awaited(new[i], given)
               PROVE  Own(new[i], k) /\ Ends(new, i)
    BY <1>1 DEF ReplyLast
  <2>1. i + w \in 1..n /\ new[i] = box[i + w]
    BY <1>1
  <2>2. Own(box[i + w], k) /\ Ends(box, i + w)
    BY <2>1 DEF ReplyLast, n
  <2>3. i + w = n \/ ((i + w) + 1 = n /\ box[i + w].part = "head")
    BY <2>2 DEF Ends, n
  <2>4. QED
    BY <1>1, <2>1, <2>2, <2>3 DEF Ends
<1>11. QED
  BY <1>8, <1>9, <1>10 DEF new, n

(* A packet taken from the stream.                                           *)
LEMMA Taken ==
    ASSUME TypeOK, PacketReady, Framed(inbox, held), NEW given, NEW k
    PROVE  /\ Framed(AfterPacket, held)
           /\ NoneAwaited(inbox, given) => NoneAwaited(AfterPacket, given)
           /\ ReplyLast(inbox, given, k) => ReplyLast(AfterPacket, given, k)
<1> DEFINE w == IF inbox[1].part = "whole" THEN 1 ELSE 2
<1>1. inbox \in Seq(Segment) /\ held \in {0, 1}
  BY DEF TypeOK
<1>2. /\ w \in {1, 2} /\ Len(inbox) - held >= w
      /\ inbox[1].part = IF w = 1 THEN "whole" ELSE "head"
  BY <1>1 DEF PacketReady, Arrived
<1>3. AfterPacket = SubSeq(inbox, w + 1, Len(inbox))
  BY DEF AfterPacket
<1> HIDE DEF w
<1>4. QED
  BY <1>1, <1>2, <1>3, FramedAfter

(* The reply a caller waits for is its own, and the last thing on the way.   *)
LEMMA TakeOwn ==
    ASSUME TypeOK, NEW c \in Callers, OnWay(c), PacketReady, Awaited(inbox[1], slips)
    PROVE  inbox[1].tag = call[c].tag /\ AfterPacket = <<>> /\ outbox = <<>>
<1>1. inbox \in Seq(Segment) /\ held \in {0, 1} /\ Len(inbox) \in Nat
  BY DEF TypeOK
<1>2. Len(inbox) > 0 /\ 1 \in 1..Len(inbox)
  BY <1>1 DEF PacketReady, Arrived
<1>3. ReplyLast(inbox, slips, call[c]) /\ outbox = <<>>
  BY <1>2 DEF OnWay, NoneAwaited
<1>4. Own(inbox[1], call[c]) /\ Ends(inbox, 1)
  BY <1>2, <1>3 DEF ReplyLast
<1>5. \/ inbox[1].part = "whole" /\ Len(inbox) = 1
      \/ inbox[1].part = "head" /\ Len(inbox) = 2
  <2> DEFINE n == Len(inbox)
             p == inbox[1].part
  <2>1. /\ n = 1 \/ (1 + 1 = n /\ p = "head")
        /\ (n - held > 0 /\ p = "whole") \/ (n - held > 1 /\ p = "head")
    BY <1>4 DEF PacketReady, Arrived, Ends
  <2>2. n \in Nat
    BY <1>1
  <2> HIDE DEF n, p
  <2>3. (n = 1 /\ p = "whole") \/ (n = 2 /\ p = "head")
    BY <1>1, <2>1, <2>2
  <2>4. QED
    BY <2>3 DEF n, p
<1>6. AfterPacket = <<>>
  <2>1. CASE inbox[1].part = "whole" /\ Len(inbox) = 1
    BY <1>1, <2>1 DEF AfterPacket
  <2>2. CASE inbox[1].part = "head" /\ Len(inbox) = 2
    BY <1>1, <2>2 DEF AfterPacket
  <2>3. QED
    BY <1>5, <2>1, <2>2
<1>7. QED
  BY <1>3, <1>4, <1>6 DEF Own

(* A caller whose protocol nobody has to wait for.                           *)
LEMMA OthersAwaitNothing ==
    ASSUME NEW c \in Callers, OnWay(c), NEW given, slips \subseteq given,
           \A p : Own(p, call[c]) => ~Awaited(p, given)
    PROVE  /\ NoneAwaited(inbox, given) /\ NoneAwaited(outbox, given)
<1>1. \A p : Awaited(p, given) => Awaited(p, slips)
  BY DEF Awaited
<1>2. QED
  BY <1>1 DEF OnWay, NoneAwaited, ReplyLast, RequestLast

(* While one caller is inside, nobody else reads.                            *)
LEMMA OthersOutside ==
    ASSUME Inside, NEW c \in Callers, pc[c] \in Holding
    PROVE  \A a \in Callers \ {c} : pc[a] \notin Holding /\ pc[a] \notin {"read", "garbage"}
BY DEF Inside, OneInside, Holding

(* A request behind others.                                                  *)
LEMMA RequestAdded ==
    ASSUME NEW out \in Seq(Request), NEW e \in Request, NEW given, NEW k, NoneAwaited(out, given)
    PROVE  /\ ~Awaited(e, given) => NoneAwaited(Append(out, e), given)
           /\ Own(e, k) => RequestLast(Append(out, e), given, k)
<1> DEFINE new == Append(out, e)
           n == Len(out)
<1>1. /\ Len(new) = n + 1 /\ n \in Nat /\ new[n + 1] = e
      /\ \A i \in 1..n : new[i] = out[i]
  OBVIOUS
<1> HIDE DEF new, n
<1>2. \A i \in 1..(n + 1) : i = n + 1 \/ i \in 1..n
  BY <1>1
<1>3. \A i \in 1..n : ~Awaited(new[i], given)
  BY <1>1 DEF NoneAwaited, n
<1>4. ~Awaited(e, given) => NoneAwaited(new, given)
  BY <1>1, <1>2, <1>3 DEF NoneAwaited
<1>5. Own(e, k) => RequestLast(new, given, k)
  BY <1>1, <1>2, <1>3 DEF RequestLast
<1>6. QED
  BY <1>4, <1>5 DEF new

(* The oldest request taken.                                                 *)
LEMMA RequestTaken ==
    ASSUME NEW out \in Seq(Request), out # <<>>, NEW given, NEW k
    PROVE  /\ Head(out) \in Request
           /\ NoneAwaited(out, given) => ~Awaited(Head(out), given) /\ NoneAwaited(Tail(out), given)
           /\ RequestLast(out, given, k) => RequestLast(Tail(out), given, k)
           /\ RequestLast(out, given, k) /\ Awaited(Head(out), given)
                => Own(Head(out), k) /\ Tail(out) = <<>>
<1> DEFINE n == Len(out)
           new == Tail(out)
           r == Head(out)
<1>1. /\ n \in Nat /\ n > 0 /\ r = out[1] /\ r \in Request
  OBVIOUS
<1>2. /\ new \in Seq(Request) /\ Len(new) = n - 1
      /\ \A i \in 1..(n - 1) : new[i] = out[i + 1]
  OBVIOUS
<1> HIDE DEF new, r
<1>3. n = 1 => new = <<>>
  BY <1>2
<1> HIDE DEF n
<1>4. 1 \in 1..n /\ \A i \in 1..(n - 1) : i + 1 \in 1..n
  BY <1>1
<1>5. NoneAwaited(out, given) => ~Awaited(r, given) /\ NoneAwaited(new, given)
  BY <1>1, <1>2, <1>4 DEF NoneAwaited, n
<1>6. RequestLast(out, given, k) => RequestLast(new, given, k)
  <2> SUFFICES ASSUME RequestLast(out, given, k), NEW i \in 1..(n - 1), Awaited(new[i], given)
               PROVE  Own(new[i], k) /\ i = n - 1
    BY <1>2 DEF RequestLast
  <2>1. i + 1 \in 1..n /\ new[i] = out[i + 1]
    BY <1>2, <1>4
  <2>2. Own(out[i + 1], k) /\ i + 1 = n
    BY <2>1 DEF RequestLast, n
  <2>3. QED
    BY <1>1, <2>1, <2>2
<1>7. RequestLast(out, given, k) /\ Awaited(r, given) => Own(r, k) /\ new = <<>>
  BY <1>1, <1>3, <1>4 DEF RequestLast, n
<1>8. QED
  BY <1>1, <1>5, <1>6, <1>7 DEF new, r

(* Steps that leave the stream as it is.                                     *)
LEMMA StreamUntouched ==
    ASSUME InStep, UNCHANGED <<outbox, inbox, held, slips>>, peerUp' => peerUp, closed => closed',
           \A a \in Callers : pc'[a] = "read" <=> pc[a] = "read",
           \A a \in Callers : pc'[a] = "garbage" => pc[a] = "garbage",
           \A a \in Callers : pc[a] = "read" =>
               call'[a].op = call[a].op /\ call'[a].tag = call[a].tag
    PROVE  InStep'
<1> SUFFICES ASSUME "half reply" \notin slips  PROVE ReaderAwaits' /\ NobodyAwaits' /\ NoGarbage'
  BY DEF InStep
<1>0. ReaderAwaits /\ NobodyAwaits /\ NoGarbage
  BY DEF InStep
<1>1. NothingAwaited' <=> NothingAwaited
  BY DEF NothingAwaited
<1>2. ASSUME NEW a \in Callers, pc[a] = "read"  PROVE OnWay(a)'
  <2>1. OnWay(a)
    BY <1>0, <1>2 DEF ReaderAwaits
  <2>2. ReplyLast(inbox, slips, call[a]) => ReplyLast(inbox, slips, call'[a])
    BY <1>2 DEF ReplyLast, Own
  <2>3. RequestLast(outbox, slips, call[a]) => RequestLast(outbox, slips, call'[a])
    BY <1>2 DEF RequestLast, Own
  <2>4. QED
    BY <2>1, <2>2, <2>3 DEF OnWay
<1>3. QED
  BY <1>0, <1>1, <1>2 DEF ReaderAwaits, NobodyAwaits, NoGarbage

(* Nobody reads and the connection is of no more use, or nothing is awaited. *)
LEMMA StreamOver ==
    ASSUME \A a \in Callers : pc'[a] \notin {"read", "garbage"},
           closed' \/ ~peerUp' \/ NothingAwaited'
    PROVE  InStep'
BY DEF InStep, ReaderAwaits, NobodyAwaits, NoGarbage

(* A request is written when nothing is awaited.                             *)
LEMMA WriteStream ==
    ASSUME IInv, NEW c \in Callers, Write(c)
    PROVE  InStep'
<1>0. TypeOK /\ Inside /\ InStep
  BY DEF IInv
<1>1. /\ pc[c] = "write" /\ peerUp /\ UNCHANGED <<closed, inbox, held, peerUp, slips>>
      /\ outbox' = Append(outbox, [tag |-> call[c].tag, proto |-> Proto(call[c].op)])
  BY DEF Write
<1> SUFFICES ASSUME "half reply" \notin slips  PROVE ReaderAwaits' /\ NobodyAwaits' /\ NoGarbage'
  BY <1>1 DEF InStep
<1>2. \A a \in Callers \ {c} : pc[a] \notin {"read", "garbage"}
  BY <1>0, <1>1, OthersOutside DEF Holding
<1>3. NothingAwaited
  BY <1>0, <1>1, <1>2 DEF InStep, NobodyAwaits, Inside, OpenInside
<1> DEFINE e == [tag |-> call[c].tag, proto |-> Proto(call[c].op)]
<1>4. /\ outbox' = Append(outbox, e) /\ e.tag = call[c].tag /\ e.proto = Proto(call[c].op)
      /\ e \in Request /\ outbox \in Seq(Request)
  BY <1>0, <1>1 DEF TypeOK, Call, Request, Proto, Protocols
<1> HIDE DEF e
<1>5. /\ ~Awaited(e, slips) => NoneAwaited(outbox', slips)
      /\ \A k : Own(e, k) => RequestLast(outbox', slips, k)
  BY <1>3, <1>4, RequestAdded DEF NothingAwaited
<1>7. CASE pc'[c] # "read"
  <2>1. call[c].op = "append" /\ pc'[c] = "unwind" /\ \A a \in Callers \ {c} : pc'[a] = pc[a]
    BY <1>0, <1>7, Leaves DEF Write, TypeOK
  <2>2. ~Awaited(e, slips)
    BY <1>4, <2>1 DEF Awaited, Proto
  <2>3. NothingAwaited'
    BY <1>1, <1>3, <1>5, <2>2 DEF NothingAwaited
  <2>4. QED
    BY <1>2, <2>1, <2>3 DEF ReaderAwaits, NobodyAwaits, NoGarbage
<1>8. CASE pc'[c] = "read"
  <2>1. call[c].op # "append"
    BY <1>0, <1>8, Leaves DEF Write
  <2>2. /\ pc' = [pc EXCEPT ![c] = "read"]
        /\ \E b \in BOOLEAN : call' = [call EXCEPT ![c].clears = b]
    BY <2>1 DEF Write
  <2>3. /\ \A a \in Callers \ {c} : pc'[a] = pc[a]
        /\ call'[c].op = call[c].op /\ call'[c].tag = call[c].tag
    BY <1>0, <2>2 DEF TypeOK, Call
  <2>4. Own(e, call'[c])
    BY <1>4, <2>3 DEF Own
  <2>5. RequestLast(outbox', slips, call'[c])
    BY <1>5, <2>4
  <2>6. OnWay(c)'
    BY <1>1, <1>3, <2>5 DEF OnWay, NothingAwaited
  <2>7. QED
    BY <1>2, <1>8, <2>3, <2>6 DEF ReaderAwaits, NobodyAwaits, NoGarbage
<1>9. QED
  BY <1>7, <1>8

(* The server answers in order.                                              *)
LEMMA AnswerStream ==
    ASSUME IInv, Answer
    PROVE  InStep'
<1>0. TypeOK /\ InStep /\ UNCHANGED <<closed, pc, call, peerUp, slips>>
  BY DEF IInv, Answer
<1> SUFFICES ASSUME "half reply" \notin slips  PROVE ReaderAwaits' /\ NobodyAwaits' /\ NoGarbage'
  BY <1>0 DEF InStep
<1> DEFINE r == Head(outbox)
           seg(part, e) == [tag |-> r.tag, proto |-> r.proto, part |-> part, error |-> e]
<1>1. /\ outbox \in Seq(Request) /\ inbox \in Seq(Segment) /\ held = 0
      /\ outbox # <<>> /\ outbox' = Tail(outbox)
  BY <1>0 DEF Answer, TypeOK
<1>2. \/ inbox' = inbox /\ held' = 0 /\ r.proto = "AppendData"
      \/ \E e \in BOOLEAN : inbox' = Append(inbox, seg("whole", e)) /\ held' = 0
      \/ \E e \in BOOLEAN : inbox' = inbox \o <<seg("head", e), seg("tail", e)>> /\ held' = 1
  BY <1>1 DEF Answer
<1>n. /\ r \in Request
      /\ NoneAwaited(outbox, slips) => ~Awaited(r, slips) /\ NoneAwaited(outbox', slips)
      /\ \A k : RequestLast(outbox, slips, k) => RequestLast(outbox', slips, k)
      /\ \A k : RequestLast(outbox, slips, k) /\ Awaited(r, slips) => Own(r, k) /\ outbox' = <<>>
  BY <1>1, RequestTaken
<1> HIDE DEF r
<1>3. \A e \in BOOLEAN :
         /\ seg("whole", e) \in Segment /\ seg("whole", e).part = "whole"
         /\ seg("head", e) \in Segment /\ seg("head", e).part = "head"
         /\ seg("tail", e) \in Segment /\ seg("tail", e).part = "tail"
         /\ \A part \in {"whole", "head", "tail"} :
               /\ seg(part, e).proto = r.proto /\ seg(part, e).tag = r.tag
               /\ Awaited(seg(part, e), slips) <=> Awaited(r, slips)
               /\ \A k : Own(seg(part, e), k) <=> Own(r, k)
  BY <1>n DEF Segment, Request, Awaited, Own
<1> HIDE DEF seg
<1>4. ASSUME NEW k, Framed(inbox, 0), NoneAwaited(inbox, slips)
      PROVE  /\ Framed(inbox', held')
             /\ ~Awaited(r, slips) => NoneAwaited(inbox', slips)
             /\ Own(r, k) => ReplyLast(inbox', slips, k)
  <2>1. CASE inbox' = inbox /\ held' = 0 /\ r.proto = "AppendData"
    BY <1>4, <2>1 DEF NoneAwaited, ReplyLast
  <2>2. ASSUME NEW e \in BOOLEAN, inbox' = Append(inbox, seg("whole", e)), held' = 0
        PROVE  /\ Framed(inbox', held')
               /\ ~Awaited(r, slips) => NoneAwaited(inbox', slips)
               /\ Own(r, k) => ReplyLast(inbox', slips, k)
    <3> DEFINE s == seg("whole", e)
    <3>1. /\ s \in Segment /\ s.part = "whole" /\ (Awaited(s, slips) <=> Awaited(r, slips))
          /\ (Own(s, k) <=> Own(r, k)) /\ inbox' = Append(inbox, s)
      BY <1>3, <2>2
    <3> HIDE DEF s
    <3>2. QED
      BY <1>1, <1>4, <2>2, <3>1, FramedWhole
  <2>3. ASSUME NEW e \in BOOLEAN, inbox' = inbox \o <<seg("head", e), seg("tail", e)>>, held' = 1
        PROVE  /\ Framed(inbox', held')
               /\ ~Awaited(r, slips) => NoneAwaited(inbox', slips)
               /\ Own(r, k) => ReplyLast(inbox', slips, k)
    <3> DEFINE s == seg("head", e)
               u == seg("tail", e)
    <3>1. /\ s \in Segment /\ s.part = "head" /\ (Awaited(s, slips) <=> Awaited(r, slips))
          /\ (Own(s, k) <=> Own(r, k)) /\ inbox' = inbox \o <<s, u>>
          /\ u \in Segment /\ u.part = "tail" /\ s.proto = u.proto /\ s.tag = u.tag
      BY <1>3, <2>3
    <3> HIDE DEF s, u
    <3>2. QED
      BY <1>1, <1>4, <2>3, <3>1, FramedSplit
  <2>4. QED
    BY <1>2, <2>1, <2>2, <2>3
<1>6. NothingAwaited => NothingAwaited'
  BY <1>0, <1>1, <1>4, <1>n DEF NothingAwaited
<1>7. ASSUME NEW c \in Callers, OnWay(c)  PROVE OnWay(c)'
  <2>1. Framed(inbox, 0) /\ NoneAwaited(inbox, slips) /\ RequestLast(outbox, slips, call[c])
    BY <1>1, <1>7 DEF OnWay
  <2>2. QED
    BY <1>0, <1>n, <1>4, <2>1 DEF OnWay
<1>8. QED
  BY <1>0, <1>6, <1>7 DEF InStep, ReaderAwaits, NobodyAwaits, NoGarbage

(* The rest of a split reply arrives.                                        *)
LEMMA SendRestStream ==
    ASSUME IInv, SendRest
    PROVE  InStep'
<1>0. InStep /\ UNCHANGED <<closed, pc, call, peerUp, slips, inbox, outbox>> /\ held' = 0
  BY DEF IInv, SendRest
<1>1. Framed(inbox, held) => Framed(inbox, 0)
  BY DEF Framed
<1>2. NothingAwaited => NothingAwaited'
  BY <1>0, <1>1 DEF NothingAwaited
<1>3. \A c \in Callers : OnWay(c) => OnWay(c)'
  BY <1>0, <1>1 DEF OnWay
<1>4. QED
  BY <1>0, <1>2, <1>3 DEF InStep, ReaderAwaits, NobodyAwaits, NoGarbage

-----------------------------------------------------------------------------
(* The inductive invariant.                                                  *)

(* What a caller was given: nothing, or its own reply, or something it does  *)
(* not look at.                                                              *)
GivenRight(k, given) ==
    \/ k.outcome # "ok" \/ k.op \notin {"request", "free", "appendClose"}
    \/ k.got = k.tag \/ (k.op = "appendClose" /\ "unread close" \in given)

(* A caller whose call is as it was, or that has no result, has no reply of  *)
(* someone else's.                                                           *)
LEMMA OthersKeepReplies ==
    ASSUME RequestGetsOwnReply, NEW c \in Callers, slips \subseteq slips',
           \A a \in Callers \ {c} : call'[a] = call[a],
           "half reply" \notin slips' => GivenRight(call'[c], slips')
    PROVE  RequestGetsOwnReply'
<1> SUFFICES ASSUME "half reply" \notin slips', NEW a \in Callers, call'[a].outcome = "ok",
                    call'[a].op \in {"request", "free"} \cup
                        (IF "unread close" \in slips' THEN {} ELSE {"appendClose"})
             PROVE  call'[a].got = call'[a].tag
  BY DEF RequestGetsOwnReply
<1>1. CASE a = c
  BY <1>1 DEF GivenRight
<1>2. CASE a # c
  <2>1. call'[a] = call[a] /\ "half reply" \notin slips
    BY <1>2
  <2>2. call[a].op \in {"request", "free"} \cup
            (IF "unread close" \in slips THEN {} ELSE {"appendClose"})
    BY <2>1
  <2>3. QED
    BY <2>1, <2>2 DEF RequestGetsOwnReply
<1>3. QED
  BY <1>1, <1>2

LEMMA CallUntouched ==
    ASSUME RequestGetsOwnReply, NEW c \in Callers, UNCHANGED slips,
           \A a \in Callers \ {c} : call'[a] = call[a],
           call'[c].op = call[c].op, call'[c].outcome = call[c].outcome,
           call'[c].got = call[c].got, call'[c].tag = call[c].tag
    PROVE  RequestGetsOwnReply'
<1>1. "half reply" \notin slips => GivenRight(call[c], slips)
  BY DEF RequestGetsOwnReply, GivenRight
<1>2. GivenRight(call[c], slips) => GivenRight(call'[c], slips')
  BY DEF GivenRight
<1>3. QED
  BY <1>1, <1>2, OthersKeepReplies

(* What an I/O error comes to is no success.                                 *)
LEMMA AbortIsNotOk ==
    ASSUME NEW c, NEW timedOut
    PROVE  AbortOutcome(c, timedOut) # "ok"
BY DEF AbortOutcome

(* A call ends.                                                              *)
LEMMA CallEnds ==
    ASSUME IInv, NEW c \in Callers, pc[c] \in {"write", "read", "garbage"}, slips \subseteq slips',
           NEW outcome, NEW got, Finish(c, outcome, got),
           \/ "half reply" \in slips'
           \/ /\ \/ outcome # "ok" \/ got = call[c].tag
                 \/ call[c].op \notin {"request", "free", "appendClose"}
                 \/ call[c].op = "appendClose" /\ "unread close" \in slips'
              /\ closed' \/ ~peerUp' \/ NothingAwaited'
    PROVE  RequestGetsOwnReply' /\ InStep'
<1>0. TypeOK /\ Inside /\ RequestGetsOwnReply
  BY DEF IInv
<1>1. /\ pc'[c] = "unwind" /\ (\A a \in Callers \ {c} : pc'[a] = pc[a] /\ call'[a] = call[a])
      /\ call'[c].outcome = outcome /\ call'[c].got = got
      /\ call'[c].op = call[c].op /\ call'[c].tag = call[c].tag
  BY <1>0, Leaves
<1>2. "half reply" \notin slips' => GivenRight(call'[c], slips')
  BY <1>1 DEF GivenRight
<1>3. RequestGetsOwnReply'
  BY <1>0, <1>1, <1>2, OthersKeepReplies
<1>4. \A a \in Callers : pc'[a] \notin {"read", "garbage"}
  BY <1>0, <1>1, OthersOutside DEF Holding
<1>5. InStep'
  <2>1. CASE "half reply" \in slips'
    BY <2>1 DEF InStep
  <2>2. CASE "half reply" \notin slips'
    BY <1>4, <2>2, StreamOver
  <2>3. QED
    BY <2>1, <2>2
<1>6. QED
  BY <1>3, <1>5

(* A reply is taken.                                                         *)
LEMMA ReadStep ==
    ASSUME IInv, NEW c \in Callers, Read(c)
    PROVE  RequestGetsOwnReply' /\ InStep'
<1>0. TypeOK /\ Inside /\ RequestGetsOwnReply /\ InStep
  BY DEF IInv
<1>1. /\ pc[c] = "read" /\ PacketReady /\ inbox' = AfterPacket
      /\ UNCHANGED <<outbox, held, peerUp>> /\ slips \subseteq slips'
  BY DEF Read
<1>2. "half reply" \in slips' <=> "half reply" \in slips
  BY DEF Read
<1>3. CASE Expected(c, inbox[1]) /\ Finish(c, "ok", inbox[1].tag) /\ UNCHANGED slips
  <2>1. CASE "half reply" \in slips
    BY <1>1, <1>2, <2>1, <1>3, CallEnds
  <2> SUFFICES ASSUME "half reply" \notin slips  PROVE RequestGetsOwnReply' /\ InStep'
    BY <2>1
  <2>2. OnWay(c)
    BY <1>0, <1>1 DEF InStep, ReaderAwaits
  <2>3. CASE Awaited(inbox[1], slips)
    <3>1. inbox[1].tag = call[c].tag /\ inbox' = <<>> /\ outbox' = <<>>
      BY <1>0, <1>1, <2>2, <2>3, TakeOwn
    <3>2. NothingAwaited'
      <4>1. Framed(AfterPacket, held)
        BY <1>0, <1>1, <2>2, Taken DEF OnWay
      <4>2. Framed(inbox', held')
        BY <1>1, <4>1
      <4>3. NoneAwaited(inbox', slips') /\ NoneAwaited(outbox', slips')
        BY <3>1, NothingInNothing
      <4>4. QED
        BY <4>2, <4>3 DEF NothingAwaited
    <3>3. QED
      BY <1>1, <1>3, <3>1, <3>2, CallEnds
  <2>4. CASE ~Awaited(inbox[1], slips)
    <3>1. \A p : Own(p, call[c]) => ~Awaited(p, slips)
      BY <1>3, <2>4 DEF Expected, Own, Awaited
    <3>2. NoneAwaited(inbox, slips) /\ NoneAwaited(outbox, slips)
      BY <2>2, <3>1, OthersAwaitNothing
    <3>3. NothingAwaited'
      BY <1>0, <1>1, <1>3, <2>2, <3>2, Taken DEF OnWay, NothingAwaited
    <3>4. call[c].op \notin {"request", "free", "appendClose"}
          \/ (call[c].op = "appendClose" /\ "unread close" \in slips)
      BY <1>3, <2>4 DEF Expected, Proto, Awaited
    <3>5. QED
      BY <1>1, <1>3, <3>3, <3>4, CallEnds
  <2>5. QED
    BY <2>3, <2>4
<1>4. CASE /\ call[c].op = "appendClose" /\ Finish(c, "failed", 0) /\ UNCHANGED closed
           /\ slips' = slips \cup {"unread close"}
  <2>1. CASE "half reply" \in slips
    BY <1>1, <1>2, <2>1, <1>4, CallEnds
  <2> SUFFICES ASSUME "half reply" \notin slips  PROVE RequestGetsOwnReply' /\ InStep'
    BY <2>1
  <2>2. OnWay(c)
    BY <1>0, <1>1 DEF InStep, ReaderAwaits
  <2>3. \A p : Own(p, call[c]) => ~Awaited(p, slips')
    BY <1>4 DEF Own, Awaited, Proto
  <2>4. NoneAwaited(inbox, slips') /\ NoneAwaited(outbox, slips')
    BY <1>1, <2>2, <2>3, OthersAwaitNothing
  <2>5. NothingAwaited'
    BY <1>0, <1>1, <2>2, <2>4, Taken DEF OnWay, NothingAwaited
  <2>6. QED
    BY <1>1, <1>4, <2>5, CallEnds
<1>5. CASE inbox[1].proto = "AppendData" /\ UNCHANGED <<pc, call, closed, slips>>
  <2>1. RequestGetsOwnReply'
    BY <1>0, <1>5 DEF RequestGetsOwnReply
  <2>2. CASE "half reply" \in slips
    BY <1>5, <2>1, <2>2 DEF InStep
  <2>3. CASE "half reply" \notin slips
    <3>1. ReaderAwaits /\ NoGarbage
      BY <1>0, <2>3 DEF InStep
    <3>2. \A a \in Callers \ {c} : pc'[a] # "read"
      BY <1>0, <1>1, <1>5, OthersOutside DEF Holding
    <3>3. OnWay(c)'
      <4>1. OnWay(c)
        BY <1>1, <3>1 DEF ReaderAwaits
      <4>2. QED
        BY <1>0, <1>1, <1>5, <4>1, Taken DEF OnWay
    <3>4. ReaderAwaits' /\ NobodyAwaits' /\ NoGarbage'
      BY <1>1, <1>5, <3>1, <3>2, <3>3 DEF ReaderAwaits, NobodyAwaits, NoGarbage
    <3>5. QED
      BY <2>1, <3>4 DEF InStep
  <2>4. QED
    BY <2>2, <2>3
<1>6. CASE UnexpectedProtocol(c) /\ UNCHANGED slips
  <2>1. closed' /\ \E outcome : outcome # "ok" /\ Finish(c, outcome, 0)
    BY <1>6 DEF UnexpectedProtocol, MarkBrokenIf
  <2>2. QED
    BY <1>1, <1>6, <2>1, CallEnds
<1>7. QED
  BY <1>3, <1>4, <1>5, <1>6 DEF Read

(* The deadline expires.                                                     *)
LEMMA ReadTimeoutStep ==
    ASSUME IInv, NEW c \in Callers, ReadTimeout(c)
    PROVE  RequestGetsOwnReply' /\ InStep'
<1>0. TypeOK /\ Inside /\ InStep
  BY DEF IInv
<1>1. /\ pc[c] \in {"read", "garbage"} /\ UNCHANGED <<outbox, held, peerUp>>
      /\ slips \subseteq slips'
  BY DEF ReadTimeout
<1>2. CASE call[c].op = "check"
  <2>1. /\ Finish(c, "noresponse", 0)
        /\ "half reply" \in slips' \/ (inbox' = inbox /\ slips' = slips)
    BY <1>2 DEF ReadTimeout
  <2>2. CASE "half reply" \in slips'
    BY <1>1, <2>1, <2>2, CallEnds
  <2>3. CASE "half reply" \notin slips'
    <3>1. inbox' = inbox /\ slips' = slips /\ "half reply" \notin slips
      BY <2>1, <2>3
    <3>2. OnWay(c)
      BY <1>0, <1>1, <3>1 DEF InStep, ReaderAwaits, NoGarbage
    <3>3. \A p : Own(p, call[c]) => ~Awaited(p, slips)
      BY <1>2 DEF Own, Awaited, Proto
    <3>4. NothingAwaited'
      BY <1>1, <3>1, <3>2, <3>3, OthersAwaitNothing DEF OnWay, NothingAwaited
    <3>5. QED
      BY <1>1, <2>1, <3>4, CallEnds
  <2>4. QED
    BY <2>2, <2>3
<1>3. CASE call[c].op # "check"
  <2>1. Finish(c, AbortOutcome(c, TRUE), 0) /\ closed'
    BY <1>3 DEF ReadTimeout, MarkBrokenIf, Retires
  <2>2. QED
    BY <1>1, <2>1, AbortIsNotOk, CallEnds
<1>4. QED
  BY <1>2, <1>3

(* Bytes that are no packet are read after a response check timed out inside *)
(* a reply, and at no other time.                                            *)
LEMMA ReadGarbageStep ==
    ASSUME IInv, NEW c \in Callers, ReadGarbage(c)
    PROVE  RequestGetsOwnReply' /\ InStep'
<1>0. TypeOK /\ InStep /\ slips' = slips
  BY DEF IInv, ReadGarbage
<1>1. CASE "half reply" \in slips
  BY <1>0, <1>1 DEF InStep, RequestGetsOwnReply
<1>2. CASE "half reply" \notin slips
  <2>1. pc[c] = "read" /\ Arrived > 0 /\ inbox[1].part = "tail"
    BY <1>0, <1>2 DEF InStep, NoGarbage, ReadGarbage
  <2>2. Framed(inbox, held)
    BY <1>0, <1>2, <2>1 DEF InStep, ReaderAwaits, OnWay
  <2>3. inbox # <<>>
    BY <1>0, <2>1 DEF Arrived, TypeOK
  <2>4. QED
    BY <2>1, <2>2, <2>3 DEF Framed
<1>3. QED
  BY <1>1, <1>2

(* Every step keeps the stream in order.                                     *)
LEMMA StreamStep ==
    ASSUME IInv, [Next]_vars
    PROVE  RequestGetsOwnReply' /\ InStep'
<1>0. TypeOK /\ Inside /\ RequestGetsOwnReply /\ InStep
  BY DEF IInv
<1>t. pc \in [Callers -> PCs] /\ call \in [Callers -> Call]
  BY <1>0 DEF TypeOK, PCs
<1>1. ASSUME NEW c \in Callers, NEW op \in AllOps, NEW ctx \in Contexts, Enter(c, op, ctx)
      PROVE  RequestGetsOwnReply' /\ InStep'
  <2>1. /\ pc[c] = "idle" /\ pc'[c] = "lock" /\ call'[c].outcome = "none"
        /\ \A a \in Callers \ {c} : pc'[a] = pc[a] /\ call'[a] = call[a]
        /\ UNCHANGED <<outbox, inbox, held, peerUp, closed, slips>>
    BY <1>1, <1>t DEF Enter, connVars, netVars
  <2>2. RequestGetsOwnReply'
    BY <1>0, <2>1, OthersKeepReplies DEF GivenRight
  <2>3. QED
    BY <1>0, <2>1, <2>2, StreamUntouched
<1>2. ASSUME NEW c \in Callers, Lock(c)
      PROVE  RequestGetsOwnReply' /\ InStep'
  <2>1. /\ pc[c] = "lock" /\ pc'[c] \notin {"read", "garbage"}
        /\ (\A a \in Callers \ {c} : pc'[a] = pc[a] /\ call'[a] = call[a])
        /\ (closed => closed')
        /\ UNCHANGED <<outbox, inbox, held, peerUp, slips>>
    BY <1>2, <1>t DEF Lock, netVars
  <2>2. RequestGetsOwnReply'
    <3>1. CASE \E b \in BOOLEAN : call' = [call EXCEPT ![c].clears = b]
      <4>1. /\ call'[c].op = call[c].op /\ call'[c].outcome = call[c].outcome
            /\ call'[c].got = call[c].got /\ call'[c].tag = call[c].tag
        BY <1>t, <3>1 DEF Call
      <4>2. QED
        BY <1>0, <2>1, <4>1, CallUntouched
    <3>2. CASE call' = [call EXCEPT ![c].outcome =
                          IF call[c].op = "close" THEN "ok" ELSE "closed"]
      <4>1. GivenRight(call'[c], slips')
        BY <1>t, <3>2 DEF Call, GivenRight
      <4>2. QED
        BY <1>0, <2>1, <4>1, OthersKeepReplies
    <3>3. QED
      BY <1>2, <3>1, <3>2 DEF Lock
  <2>3. QED
    BY <1>0, <2>1, <2>2, StreamUntouched
<1>3. ASSUME NEW c \in Callers, Cancel(c) \/ Fire(c) \/ Unwind(c)
      PROVE  RequestGetsOwnReply' /\ InStep'
  <2>1. /\ \A a \in Callers : pc'[a] = "read" <=> pc[a] = "read"
        /\ \A a \in Callers : pc'[a] = "garbage" => pc[a] = "garbage"
        /\ UNCHANGED <<outbox, inbox, held, peerUp, closed, call, slips>>
    BY <1>3, <1>t DEF Cancel, Fire, Unwind, connVars, netVars
  <2>2. QED
    BY <1>0, <2>1, StreamUntouched DEF RequestGetsOwnReply
<1>4. ASSUME NEW c \in Callers, Write(c)
      PROVE  RequestGetsOwnReply' /\ InStep'
  <2>0. UNCHANGED slips
    BY <1>4 DEF Write
  <2>1. CASE call[c].op = "append"
    <3>1. call'[c].op = "append" /\ \A a \in Callers \ {c} : call'[a] = call[a]
      BY <1>0, <1>4, <2>1, Leaves DEF Write
    <3>2. RequestGetsOwnReply'
      BY <1>0, <2>0, <3>1, OthersKeepReplies DEF GivenRight
    <3>3. QED
      BY <1>4, <3>2, WriteStream
  <2>2. CASE call[c].op # "append"
    <3>1. \E b \in BOOLEAN : call' = [call EXCEPT ![c].clears = b]
      BY <1>4, <2>2 DEF Write
    <3>2. /\ call'[c].op = call[c].op /\ call'[c].outcome = call[c].outcome
          /\ call'[c].got = call[c].got /\ call'[c].tag = call[c].tag
          /\ \A a \in Callers \ {c} : call'[a] = call[a]
      BY <1>t, <3>1 DEF Call
    <3>3. RequestGetsOwnReply'
      BY <1>0, <2>0, <3>2, CallUntouched
    <3>4. QED
      BY <1>4, <3>3, WriteStream
  <2>3. QED
    BY <2>1, <2>2
<1>6. ASSUME NEW c \in Callers, WriteFails(c)
      PROVE  RequestGetsOwnReply' /\ InStep'
  <2>1. PICK timedOut \in BOOLEAN :
          /\ Finish(c, AbortOutcome(c, timedOut), 0)
          /\ MarkBrokenIf(Retires(c, timedOut))
          /\ timedOut \/ ~peerUp
    BY <1>6 DEF WriteFails
  <2>2. pc[c] = "write" /\ peerUp' = peerUp /\ UNCHANGED slips
    BY <1>6 DEF WriteFails, netVars
  <2>3. closed' \/ ~peerUp'
    BY <2>1, <2>2 DEF MarkBrokenIf, Retires
  <2>4. QED
    BY <2>1, <2>2, <2>3, AbortIsNotOk, CallEnds
<1>7. ASSUME NEW c \in Callers, ReadEOF(c)
      PROVE  RequestGetsOwnReply' /\ InStep'
  <2>1. /\ pc[c] \in {"read", "garbage"} /\ ~peerUp' /\ Finish(c, AbortOutcome(c, FALSE), 0)
        /\ UNCHANGED slips
    BY <1>7 DEF ReadEOF, netVars
  <2>2. QED
    BY <2>1, AbortIsNotOk, CallEnds
<1>11. CASE Answer
  BY <1>0, <1>11, AnswerStream DEF Answer, RequestGetsOwnReply
<1>12. CASE SendRest
  BY <1>0, <1>12, SendRestStream DEF SendRest, RequestGetsOwnReply
<1>13. CASE PeerGone \/ UNCHANGED vars
  <2>1. UNCHANGED <<outbox, inbox, held, pc, call, closed, slips>> /\ (peerUp' => peerUp)
    BY <1>13 DEF PeerGone, vars
  <2>2. QED
    BY <1>0, <2>1, StreamUntouched DEF RequestGetsOwnReply
<1>14. QED
  BY <1>1, <1>2, <1>3, <1>4, <1>6, <1>7, <1>11, <1>12, <1>13,
     ReadStep, ReadTimeoutStep, ReadGarbageStep
  DEF Next, Step, Environment

(* At first nobody is inside and nothing is on the way.                      *)
LEMMA InitInvariant == Init => IInv
<1> SUFFICES ASSUME Init  PROVE IInv
  OBVIOUS
<1>1. closed \in BOOLEAN /\ peerUp \in BOOLEAN
  BY Zenon DEF Init
<1>2. NoCall \in Call /\ NoCall.outcome = "none"
  BY DEF NoCall, Call, AllOps, Contexts, Outcome
<1>3. TypeOK
  BY <1>1, <1>2 DEF Init, TypeOK, Deadline
<1>4. RequestGetsOwnReply
  BY <1>2 DEF Init, RequestGetsOwnReply
<1>5. Inside
  BY NativeConnAssumption
  DEF Init, Inside, OneInside, WatcherInside, WriteBoundInside, OpenInside, Holding
<1>6. InStep
  BY DEF Init, InStep, ReaderAwaits, NobodyAwaits, NoGarbage, NothingAwaited, NoneAwaited, Framed
<1>7. QED
  BY <1>3, <1>4, <1>5, <1>6 DEF IInv

(* The invariant holds at first and every action keeps it.                   *)
THEOREM Invariance == Spec => []IInv
<1>1. IInv /\ [Next]_vars => IInv'
  BY TypeStep, InsideStep, StreamStep DEF IInv
<1>2. QED
  BY <1>1, InitInvariant, PTL DEF Spec

(* No step leaves the types.                                                 *)
THEOREM TypeCorrect == Spec => []TypeOK
BY Invariance, PTL DEF IInv

(* A request, a free or an appendClose that succeeds got the reply to its    *)
(* own request, whatever other calls, timeouts, cancellations and late       *)
(* replies came before and wherever replies were split (sendPackets, free,   *)
(* appendClose), unless a response check timed out inside a reply; for an    *)
(* appendClose also unless an earlier one left its own reply behind.         *)
THEOREM EveryReplyItsOwn == Spec => []RequestGetsOwnReply
BY Invariance, PTL DEF IInv

(* The members of a sequence.                                                *)
LEMMA MemberAt ==
    ASSUME NEW S, NEW s \in Seq(S), NEW p \in Range(s)
    PROVE  \E i \in 1..Len(s) : p = s[i] /\ p \in S
<1>1. DOMAIN s = 1..Len(s) /\ \A i \in 1..Len(s) : s[i] \in S
  OBVIOUS
<1>2. \E i \in DOMAIN s : p = s[i]
  BY Zenon DEF Range
<1>3. QED
  BY <1>1, <1>2

(* A connection that can be handed out again has no write deadline and,      *)
(* unless a response check timed out inside a reply, stands at a packet      *)
(* boundary; what is still on the way is AppendData replies, and AppendClose *)
(* replies if an appendClose returned on the error of a batch.               *)
THEOREM ConnectionLeftInOrder == Spec => []LeftInOrder
<1>1. IInv => LeftInOrder
  <2> SUFFICES ASSUME IInv, mu = NoCaller, ~closed
               PROVE  /\ wd = "none"
                      /\ peerUp /\ "half reply" \notin slips =>
                           /\ AtPacketBoundary
                           /\ \A p \in Range(inbox) \cup Range(outbox) :
                                \/ p.proto = "AppendData"
                                \/ p.proto = "AppendClose" /\ "unread close" \in slips
    BY DEF LeftInOrder
  <2>1. TypeOK /\ Inside
    BY DEF IInv
  <2>2. wd = "none" /\ \A c \in Callers : pc[c] # "read"
    BY <2>1, NativeConnAssumption DEF Inside, WriteBoundInside, OneInside, Holding
  <2> SUFFICES ASSUME peerUp, "half reply" \notin slips
               PROVE  /\ AtPacketBoundary
                      /\ \A p \in Range(inbox) \cup Range(outbox) :
                           \/ p.proto = "AppendData"
                           \/ p.proto = "AppendClose" /\ "unread close" \in slips
    BY <2>2
  <2>3. NothingAwaited
    BY <2>2 DEF IInv, InStep, NobodyAwaits
  <2>4. inbox \in Seq(Segment) /\ outbox \in Seq(Request)
    BY <2>1 DEF TypeOK
  <2>5. AtPacketBoundary
    <3>1. Framed(inbox, held)
      BY <2>3 DEF NothingAwaited
    <3>2. QED
      BY <2>4, <3>1, HeldBehindHead DEF AtPacketBoundary
  <2>6. ASSUME NEW p \in Range(inbox) \cup Range(outbox)
        PROVE  ~Awaited(p, slips) /\ p.proto \in Protocols
    <3>1. CASE p \in Range(inbox)
      <4>1. PICK i \in 1..Len(inbox) : p = inbox[i] /\ p \in Segment
        BY <2>4, <3>1, MemberAt
      <4>2. ~Awaited(p, slips)
        BY <2>3, <4>1 DEF NothingAwaited, NoneAwaited
      <4>3. QED
        BY <4>1, <4>2 DEF Segment
    <3>2. CASE p \in Range(outbox)
      <4>1. PICK i \in 1..Len(outbox) : p = outbox[i] /\ p \in Request
        BY <2>4, <3>2, MemberAt
      <4>2. ~Awaited(p, slips)
        BY <2>3, <4>1 DEF NothingAwaited, NoneAwaited
      <4>3. QED
        BY <4>1, <4>2 DEF Request
    <3>3. QED
      BY <2>6, <3>1, <3>2
  <2>7. QED
    BY <2>5, <2>6 DEF Awaited, Protocols
<1>2. QED
  BY <1>1, Invariance, PTL
=============================================================================
