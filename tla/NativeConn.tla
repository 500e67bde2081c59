----------------------------- MODULE NativeConn -----------------------------
(***************************************************************************)
(* One CMI session: machnet.NativeConn over its TCP socket.                *)
(*                                                                         *)
(* Goroutines (Callers) share the connection.  NativeConn.mu serializes    *)
(* whole request/response round trips; while a round trip runs, the        *)
(* watchContext goroutine of that call may force the socket deadlines into *)
(* the past.  The server (external) answers requests in order, possibly    *)
(* late, possibly in two network segments, possibly never.                 *)
(*                                                                         *)
(* A round trip is the steps                                               *)
(*   Call -> Lock -> Write -> Read ... -> Unwind                           *)
(* where Unwind is the run of the deferred functions: stop() first, then   *)
(* the deadline clears, then mu.Unlock.                                    *)
(***************************************************************************)
EXTENDS Integers, Sequences, Functions

CONSTANTS
    Callers,    \* goroutines using the connection
    Ops,        \* the entry points they use, a subset of AllOps
    MaxCalls,   \* bound: calls made over the life of the connection
    Split,      \* the protocols whose replies may arrive in two segments
    NoCaller    \* nobody holds mu

\* The entry points of NativeConn that touch the socket.  "request" stands for
\* every sendPackets caller with a caller's context (execDirect, prepare,
\* executePrepared, fetchRowsChunk), "free" for free(), "append" for appendData
\* without and "check" for appendData with a response check, "appendClose" and
\* "close" for the functions of these names.
AllOps == {"request", "free", "append", "check", "appendClose", "close"}

Protocols == {"Exec", "Free", "AppendData", "AppendClose"}

ASSUME NativeConnAssumption ==
    /\ Ops \subseteq AllOps
    /\ MaxCalls \in Nat
    /\ Split \subseteq Protocols
    /\ NoCaller \notin Callers

VARIABLES
    mu,        \* NativeConn.mu: its holder, or NoCaller
    closed,    \* NativeConn.closed (atomic)
    rd, wd,    \* read and write deadline of the socket
    pc,        \* where each caller stands
    call,      \* the call each caller is making or made last
    cancelled, \* callers whose context is done
    watcher,   \* callers whose watchContext goroutine is running
    outbox,    \* requests on the way to the server
    inbox,     \* segments the server has sent or is about to send
    held,      \* how many of them, 0 or 1, have not arrived yet
    peerUp,    \* the server side of the TCP connection is up
    calls,     \* number of calls made
    slips      \* history: how a call went wrong and left the connection in service

vars == <<mu, closed, rd, wd, pc, call, cancelled, watcher,
          outbox, inbox, held, peerUp, calls, slips>>

Deadline == {"none", "armed", "past"}
Outcome  == {"none", "ok", "aborted", "timeout", "mismatch", "closed", "eof",
             "noresponse", "failed", "swallowed"}

(* What a caller asked for: the entry point, the kind of its context         *)
(* (Background, cancellable, with a deadline), the tag of its request, the   *)
(* outcome, the tag of the reply it accepted, and whether it has deferred a  *)
(* clear of the read deadline.                                               *)
Contexts == {"background", "cancel", "deadline"}
Call == [op: AllOps, ctx: Contexts, tag: Nat, outcome: Outcome, got: Nat, clears: BOOLEAN]

NoCall == [op |-> "close", ctx |-> "background", tag |-> 0,
           outcome |-> "none", got |-> 0, clears |-> FALSE]

(* The protocol byte of a request; a reply repeats it.                       *)
Proto(op) == CASE op \in {"append", "check"} -> "AppendData"
               [] op = "appendClose"         -> "AppendClose"
               [] op = "free"                -> "Free"
               [] OTHER                      -> "Exec"

(* A response check that timed out inside a packet; an appendClose that      *)
(* returned before its own reply.                                            *)
Slips == {"half reply", "unread close"}

Request == [tag: Nat, proto: Protocols]
Segment == [tag: Nat, proto: Protocols, part: {"whole", "head", "tail"}, error: BOOLEAN]

TypeOK ==
    /\ mu \in Callers \cup {NoCaller}
    /\ closed \in BOOLEAN
    /\ rd \in Deadline /\ wd \in Deadline
    /\ pc \in [Callers -> {"idle", "lock", "write", "read", "garbage", "unwind"}]
    /\ call \in [Callers -> Call]
    /\ cancelled \subseteq Callers /\ watcher \subseteq Callers
    /\ outbox \in Seq(Request)
    /\ inbox \in Seq(Segment) /\ held \in {0, 1}
    /\ peerUp \in BOOLEAN
    /\ calls \in Nat
    /\ slips \subseteq Slips

Init ==
    /\ mu = NoCaller /\ closed = FALSE
    /\ rd = "none" /\ wd = "none"
    /\ pc = [c \in Callers |-> "idle"]
    /\ call = [c \in Callers |-> NoCall]
    /\ cancelled = {} /\ watcher = {}
    /\ outbox = <<>> /\ inbox = <<>> /\ held = 0
    /\ peerUp = TRUE /\ calls = 0 /\ slips = {}

-----------------------------------------------------------------------------
(* Callers.                                                                  *)

netVars  == <<outbox, inbox, held, peerUp>>
connVars == <<closed, rd, wd>>

(* A goroutine enters one of the entry points and asks for mu.  Only         *)
(* "request" takes the caller's context; the others use Background.          *)
Enter(c, op, ctx) ==
    /\ pc[c] = "idle" /\ calls < MaxCalls
    /\ op \in Ops /\ (op # "request" => ctx = "background")
    /\ calls' = calls + 1
    /\ pc' = [pc EXCEPT ![c] = "lock"]
    /\ call' = [call EXCEPT ![c] = [op |-> op, ctx |-> ctx, tag |-> calls + 1,
                                    outcome |-> "none", got |-> 0,
                                    clears |-> FALSE]]
    /\ cancelled' = cancelled \ {c}
    /\ UNCHANGED <<mu, watcher, slips, connVars, netVars>>

(* The caller's context is cancelled, or its deadline passes.                *)
Cancel(c) ==
    /\ pc[c] # "idle" /\ call[c].ctx # "background" /\ c \notin cancelled
    /\ cancelled' = cancelled \cup {c}
    /\ UNCHANGED <<mu, pc, call, watcher, calls, slips, connVars, netVars>>

(* Mutation: the closed check returns without unlocking mu.                  *)
LockLeaksMu(c) ==
    /\ pc[c] = "lock" /\ mu = NoCaller
    /\ mu' = c
    /\ closed' = (closed \/ call[c].op = "close")
    /\ pc' = [pc EXCEPT ![c] = IF closed' THEN "idle" ELSE "write"]
    /\ wd' = "armed"
    /\ UNCHANGED <<rd, call, watcher, cancelled, calls, slips, netVars>>

(* mu.Lock() and the closed check.  A refused call and close() itself are    *)
(* over at once.  Otherwise the deadlines are set: sendPackets arms the read *)
(* deadline only for a context with a deadline, sendPacketsNoResponse arms   *)
(* both, sendPacketsOptional arms the read deadline after the write and      *)
(* appendClose before each read.                                             *)
Lock(c) ==
    /\ pc[c] = "lock" /\ mu = NoCaller
    /\ \/ /\ closed \/ call[c].op = "close"
          /\ closed' = TRUE
          /\ pc' = [pc EXCEPT ![c] = "idle"]
          /\ call' = [call EXCEPT ![c].outcome =
                        IF call[c].op = "close" THEN "ok" ELSE "closed"]
          /\ UNCHANGED <<mu, rd, wd, watcher>>
       \/ /\ ~closed /\ call[c].op # "close"
          /\ mu' = c
          /\ wd' = "armed"
          /\ LET arms == call[c].op = "append" \/ call[c].ctx = "deadline" IN
             /\ rd' = IF arms THEN "armed" ELSE rd
             /\ call' = [call EXCEPT ![c].clears = arms]
          /\ watcher' = IF call[c].ctx = "background" THEN watcher ELSE watcher \cup {c}
          /\ pc' = [pc EXCEPT ![c] = "write"]
          /\ UNCHANGED closed
    /\ UNCHANGED <<cancelled, calls, slips, netVars>>

(* Mutation: the watcher interrupts writes only.                             *)
FireWriteOnly(c) ==
    /\ c \in watcher /\ c \in cancelled
    /\ wd' = "past"
    /\ watcher' = watcher \ {c}
    /\ UNCHANGED <<mu, closed, rd, pc, call, cancelled, calls, slips, netVars>>

(* watchContext: the context is done before stop() ends the goroutine.       *)
Fire(c) ==
    /\ c \in watcher /\ c \in cancelled
    /\ rd' = "past" /\ wd' = "past"
    /\ watcher' = watcher \ {c}
    /\ UNCHANGED <<mu, closed, pc, call, cancelled, calls, slips, netVars>>

(* Mutations: the context error is returned without a "connection closed"    *)
(* wrapping; a failure leaves the connection in service.                     *)
RawAbortOutcome(c, timedOut) == IF c \in cancelled THEN "canceled" ELSE "timeout"
NeverRetires(c, timedOut) == FALSE

(* ctxAbortErr with retireOnTimeout behind it: what becomes of an I/O error, *)
(* `timedOut` when it is a deadline expiry.                                  *)
AbortOutcome(c, timedOut) ==
    IF c \in cancelled THEN "aborted" ELSE IF timedOut THEN "timeout" ELSE "eof"

Retires(c, timedOut) == c \in cancelled \/ timedOut

(* markBrokenLocked                                                          *)
MarkBrokenIf(cond) == closed' = (closed \/ cond)

Finish(c, outcome, got) ==
    /\ pc' = [pc EXCEPT ![c] = "unwind"]
    /\ call' = [call EXCEPT ![c].outcome = outcome, ![c].got = got]

(* Writing the packets and flushing.                                         *)
Write(c) ==
    /\ pc[c] = "write" /\ wd # "past" /\ peerUp
    /\ outbox' = Append(outbox, [tag |-> call[c].tag, proto |-> Proto(call[c].op)])
    /\ LET arms == call[c].op \in {"check", "appendClose"} IN
       /\ rd' = IF arms THEN "armed" ELSE rd
       /\ IF call[c].op = "append"
          THEN Finish(c, "ok", 0)
          ELSE /\ pc' = [pc EXCEPT ![c] = "read"]
               /\ call' = [call EXCEPT ![c].clears = @ \/ arms]
    /\ UNCHANGED <<mu, closed, wd, cancelled, watcher, inbox, held, peerUp, calls, slips>>

(* The write fails: the deadline expires half way through, or the peer is    *)
(* gone.                                                                     *)
WriteFails(c) ==
    /\ pc[c] = "write"
    /\ \E timedOut \in BOOLEAN :
         /\ IF timedOut THEN wd # "none" ELSE ~peerUp
         /\ Finish(c, AbortOutcome(c, timedOut), 0)
         /\ MarkBrokenIf(Retires(c, timedOut))
    /\ UNCHANGED <<mu, rd, wd, cancelled, watcher, calls, slips, netVars>>

(* Segments that have arrived; a whole packet among them at the front.       *)
Arrived == Len(inbox) - held

PacketReady ==
    \/ Arrived > 0 /\ inbox[1].part = "whole"
    \/ Arrived > 1 /\ inbox[1].part = "head"

AfterPacket == SubSeq(inbox, IF inbox[1].part = "whole" THEN 2 ELSE 3, Len(inbox))

Expected(c, p) == p.proto = Proto(call[c].op)

(* A reply of another protocol.  free() reports success for it.              *)
UnexpectedProtocol(c) ==
    /\ MarkBrokenIf(TRUE)
    /\ Finish(c, IF call[c].op = "free" THEN "swallowed" ELSE "mismatch", 0)

(* Packet.Read returns a packet and the caller looks at its protocol; the    *)
(* last byte is read from the socket before the read deadline passes.        *)
(* appendClose goes on reading after an AppendData reply, unless that reply  *)
(* reports an error: then it returns with its own reply still to come.       *)
Read(c) ==
    /\ pc[c] = "read" /\ PacketReady /\ rd # "past"
    /\ inbox' = AfterPacket
    /\ LET p == inbox[1]
           drained == call[c].op = "appendClose" /\ p.proto = "AppendData"
       IN  \/ /\ Expected(c, p)
              /\ Finish(c, "ok", p.tag) /\ UNCHANGED <<closed, slips>>
           \/ /\ drained /\ p.error
              /\ Finish(c, "failed", 0) /\ UNCHANGED closed
              /\ slips' = slips \cup {"unread close"}
           \/ /\ drained /\ ~p.error
              /\ UNCHANGED <<pc, call, closed, slips>>
           \/ /\ ~Expected(c, p) /\ ~drained
              /\ UnexpectedProtocol(c) /\ UNCHANGED slips
    /\ UNCHANGED <<mu, rd, wd, cancelled, watcher, outbox, held, peerUp, calls>>

(* The front of the stream is the middle of a packet: whatever bytes are     *)
(* there are taken for a header, whose made-up length takes in as much of    *)
(* the stream as it says, replies that others wait for included ("garbage":  *)
(* it asks for more).  The made-up packet ends anywhere, also inside a       *)
(* segment.  Its made-up protocol may be the expected one, whatever the body *)
(* then parses to, or not; a mismatch may only show at the next fragment,    *)
(* which Packet.Read reports without marking the connection broken; and      *)
(* appendClose goes on after what looks like an AppendData reply.            *)
ReadGarbage(c) ==
    /\ Arrived > 0
    /\ pc[c] = "garbage" \/ (pc[c] = "read" /\ inbox[1].part = "tail")
    /\ \/ /\ inbox' = Tail(inbox)
          /\ \E next \in {"garbage"} \cup (IF call[c].op = "appendClose" THEN {"read"} ELSE {}) :
                pc' = [pc EXCEPT ![c] = next]
          /\ UNCHANGED <<call, closed>>
       \/ /\ inbox' \in {Tail(inbox), [inbox EXCEPT ![1].part = "tail"]}
          /\ \/ \E outcome \in {"ok", "failed"} : Finish(c, outcome, 0) /\ UNCHANGED closed
             \/ \E atHeader \in BOOLEAN :
                  /\ MarkBrokenIf(atHeader)
                  /\ Finish(c, IF call[c].op = "free" THEN "swallowed" ELSE "mismatch", 0)
    /\ UNCHANGED <<mu, rd, wd, cancelled, watcher, outbox, held, peerUp, calls, slips>>

(* The read deadline expires.  The first segment of a split packet may have  *)
(* been taken from the stream by then and is lost.  sendPacketsOptional      *)
(* takes the expiry for "no response"; everyone else retires the connection. *)
ReadTimeout(c) ==
    /\ pc[c] \in {"read", "garbage"} /\ rd # "none"
    /\ \E halfway \in BOOLEAN :
         /\ halfway => pc[c] = "read" /\ Arrived > 0 /\ inbox[1].part = "head"
         /\ inbox' = IF halfway THEN Tail(inbox) ELSE inbox
         /\ IF call[c].op = "check"
            THEN /\ Finish(c, "noresponse", 0) /\ UNCHANGED closed
                 /\ slips' = IF halfway THEN slips \cup {"half reply"} ELSE slips
            ELSE /\ Finish(c, AbortOutcome(c, TRUE), 0)
                 /\ MarkBrokenIf(Retires(c, TRUE))
                 /\ UNCHANGED slips
    /\ UNCHANGED <<mu, rd, wd, cancelled, watcher, outbox, held, peerUp, calls>>

(* The peer closed the connection and the packet that is being read is not   *)
(* all there.                                                                *)
ReadEOF(c) ==
    /\ ~peerUp
    /\ (pc[c] = "read" /\ ~PacketReady) \/ (pc[c] = "garbage" /\ Arrived = 0)
    /\ Finish(c, AbortOutcome(c, FALSE), 0)
    /\ MarkBrokenIf(Retires(c, FALSE))
    /\ UNCHANGED <<mu, rd, wd, cancelled, watcher, calls, slips, netVars>>

(* Mutation: stop() is not called, the watcher outlives its call.            *)
UnwindWithoutStop(c) ==
    /\ pc[c] = "unwind"
    /\ wd' = "none"
    /\ rd' = IF call[c].clears THEN "none" ELSE rd
    /\ mu' = NoCaller
    /\ pc' = [pc EXCEPT ![c] = "idle"]
    /\ UNCHANGED <<closed, call, cancelled, watcher, calls, slips, netVars>>

(* The deferred functions: stop() (which ends the watcher), the deadline     *)
(* clears, mu.Unlock.  sendPackets clears the read deadline only if it set   *)
(* one.                                                                      *)
Unwind(c) ==
    /\ pc[c] = "unwind"
    /\ watcher' = watcher \ {c}
    /\ wd' = "none"
    /\ rd' = IF call[c].clears THEN "none" ELSE rd
    /\ mu' = NoCaller
    /\ pc' = [pc EXCEPT ![c] = "idle"]
    /\ UNCHANGED <<closed, call, cancelled, calls, slips, netVars>>

-----------------------------------------------------------------------------
(* The server (external).                                                    *)

(* It answers the oldest request, in one or two segments.  AppendData is     *)
(* answered at its discretion, everything else always.                       *)
Answer ==
    /\ peerUp /\ outbox # <<>> /\ held = 0
    /\ outbox' = Tail(outbox)
    /\ LET r == Head(outbox)
           seg(part, e) == [tag |-> r.tag, proto |-> r.proto, part |-> part, error |-> e]
       IN  \E e \in IF r.proto = "AppendData" THEN BOOLEAN ELSE {FALSE} :
             \/ /\ inbox' = Append(inbox, seg("whole", e))
                /\ UNCHANGED held
             \/ /\ r.proto \in Split
                /\ inbox' = inbox \o <<seg("head", e), seg("tail", e)>>
                /\ held' = 1
             \/ /\ r.proto = "AppendData" /\ ~e
                /\ UNCHANGED <<inbox, held>>
    /\ UNCHANGED <<mu, closed, rd, wd, pc, call, cancelled, watcher, peerUp, calls, slips>>

SendRest ==
    /\ peerUp /\ held = 1
    /\ held' = 0
    /\ UNCHANGED <<mu, closed, rd, wd, pc, call, cancelled, watcher, outbox, inbox, peerUp, calls, slips>>

PeerGone ==
    /\ peerUp /\ peerUp' = FALSE
    /\ UNCHANGED <<mu, closed, rd, wd, pc, call, cancelled, watcher,
                   outbox, inbox, held, calls, slips>>

-----------------------------------------------------------------------------
Step(c) ==
    \/ Lock(c) \/ Write(c) \/ WriteFails(c)
    \/ Read(c) \/ ReadGarbage(c) \/ ReadTimeout(c) \/ ReadEOF(c)
    \/ Unwind(c)

Environment(c) ==
    \/ \E op \in AllOps, ctx \in Contexts : Enter(c, op, ctx)
    \/ Cancel(c)

Next ==
    \/ \E c \in Callers : Step(c) \/ Environment(c) \/ Fire(c)
    \/ Answer \/ SendRest \/ PeerGone

Spec == Init /\ [][Next]_vars

(* Fairness: goroutines are scheduled, and a context's watcher goroutine     *)
(* runs.  A context with a deadline is eventually done.  Nothing is assumed  *)
(* of the server or of cancellation.                                         *)
Fairness ==
    \A c \in Callers :
        /\ WF_vars(Step(c))
        /\ WF_vars(Fire(c))
        /\ WF_vars(call[c].ctx = "deadline" /\ Cancel(c))

FairSpec == Spec /\ Fairness

(* A server that answers as long as its side is up.                          *)
Served == WF_vars(Answer) /\ WF_vars(SendRest)

-----------------------------------------------------------------------------
(* Properties.                                                               *)

(* A call that succeeds was given the reply to its own request, however late *)
(* earlier replies were and however earlier calls ended (sendPackets, free,  *)
(* appendClose).  The exceptions are after-effects of one slip each: a       *)
(* response check that timed out inside a reply, and, for appendClose, an    *)
(* earlier one that left its own reply behind.                               *)
RequestGetsOwnReply ==
    "half reply" \notin slips =>
        \A c \in Callers :
            /\ call[c].outcome = "ok"
            /\ call[c].op \in {"request", "free"} \cup
                   (IF "unread close" \in slips THEN {} ELSE {"appendClose"})
            => call[c].got = call[c].tag

AtPacketBoundary ==
    /\ inbox # <<>> => inbox[1].part # "tail"
    /\ held = 1 => Len(inbox) > 1

(* What a call leaves behind.  A connection that can be handed out again (mu *)
(* free, IsOpen) has no write deadline (stop() waits for the watcher before  *)
(* the deferred clears run), is at a packet boundary unless a response check *)
(* timed out inside a reply, and every reply still on the way is one nobody  *)
(* waited for: an AppendData reply, or the AppendClose reply of an           *)
(* appendClose that returned on the error of a batch.  No other timeout,     *)
(* cancellation or failed call leaves anything (markBrokenLocked).           *)
LeftInOrder ==
    mu = NoCaller /\ ~closed =>
        /\ wd = "none"
        /\ peerUp /\ "half reply" \notin slips =>
             /\ AtPacketBoundary
             /\ \A p \in Range(inbox) \cup Range(outbox) :
                    \/ p.proto = "AppendData"
                    \/ p.proto = "AppendClose" /\ "unread close" \in slips

(* A connection that can be handed out again stands at a packet boundary:    *)
(* after a timed out read "the byte stream cannot be resynchronized, so the  *)
(* connection must never go back into the database/sql pool"                 *)
(* (markBrokenLocked; retireOnTimeout says the same).                        *)
TimedOutReadsRetire ==
    mu = NoCaller /\ ~closed /\ peerUp => AtPacketBoundary

(* A call without a context deadline is never failed by a read deadline: the *)
(* fixed timeout "only ever guarded the write side" (sendPackets).           *)
ReadBoundOnlyByOwnDeadline ==
    [][\A c \in Callers :
         ReadTimeout(c) /\ call[c].op \in {"request", "free"} =>
             call[c].ctx = "deadline" \/ c \in cancelled]_vars

(* A context that is done interrupts its call, even if the server never      *)
(* answers and no fixed timeout applies (watchContext).                      *)
CancelInterrupts ==
    \A c \in Callers :
        c \in cancelled /\ pc[c] \in {"write", "read", "garbage"} ~> pc[c] \in {"unwind", "idle"}

(* With a server that answers, everybody waiting for mu or for a reply       *)
(* returns, close() included, unless a response check has timed out inside a *)
(* reply: the next reader then takes the middle of that reply for a header   *)
(* and may wait for ever for the bytes of a made-up packet, with mu.         *)
CallsReturn ==
    Served => \A c \in Callers : pc[c] # "idle" ~> pc[c] = "idle" \/ "half reply" \in slips
=============================================================================
