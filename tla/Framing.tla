------------------------------ MODULE Framing -------------------------------
(***************************************************************************)
(* CMI packets and marshal units as pure operators (machnet/packet.go,     *)
(* machnet/marshal.go).                                                    *)
(*                                                                         *)
(* A body is a sequence of 8-byte words.  A unit has two header words, one *)
(* with its id and type and one with its value or its length in bytes; a   *)
(* variable unit adds its payload, padded to whole words.                  *)
(***************************************************************************)
EXTENDS Naturals, Sequences, SequencesExt

CONSTANT MaxBody    \* cmiPacketMaxBody, in words

ASSUME MaxBodyAssumption == MaxBody \in Nat /\ MaxBody >= 2

HeaderWords == 2

(* align8, in words                                                          *)
Align8(bytes) == (bytes + 7) \div 8

(* A unit as the callers of MarshalWriter see it: length is 0 for a fixed    *)
(* unit.                                                                     *)
UnitOf(id, type, length) == [id |-> id, type |-> type, length |-> length]

Padded(unit) == IF unit.type = "variable" THEN Align8(unit.length) ELSE 0

(* addString, addBinary, addVariable; addUInt32, addSInt32, addUInt64,       *)
(* addSInt64                                                                 *)
UnitWords(unit) ==
    [i \in 1..HeaderWords + Padded(unit) |->
        CASE i = 1 -> [word |-> "head", id |-> unit.id, type |-> unit.type]
          [] i = 2 -> [word |-> "size", length |-> unit.length]
          [] OTHER -> [word |-> "data", id |-> unit.id, at |-> i]]

-----------------------------------------------------------------------------
(* MarshalWriter                                                             *)

NewWriter == [current |-> <<>>, bodies |-> <<>>]

FlushCurrent(w) ==
    IF w.current = <<>> THEN w
    ELSE [current |-> <<>>, bodies |-> Append(w.bodies, w.current)]

(* Mutation: an oversized unit does not push out the units before it.        *)
EnqueueOvertaking(w, words) ==
    IF Len(words) > MaxBody
    THEN [w EXCEPT !.bodies = Append(@, words)]
    ELSE LET room == IF Len(w.current) + Len(words) > MaxBody THEN FlushCurrent(w) ELSE w
         IN  [room EXCEPT !.current = @ \o words]

(* A unit larger than a packet gets a body of its own.                       *)
Enqueue(w, words) ==
    IF Len(words) > MaxBody
    THEN LET flushed == FlushCurrent(w)
         IN  [flushed EXCEPT !.bodies = Append(@, words)]
    ELSE LET room == IF Len(w.current) + Len(words) > MaxBody THEN FlushCurrent(w) ELSE w
         IN  [room EXCEPT !.current = @ \o words]

Bodies(units) ==
    FlushCurrent(FoldLeft(LAMBDA w, u : Enqueue(w, UnitWords(u)), NewWriter, units)).bodies

(* The fragment flags: 0 whole, 1 first, 2 middle, 3 last.                   *)
Flag(i, total) ==
    CASE total = 1 -> 0
      [] total > 1 /\ i = 1 -> 1
      [] total > 1 /\ i = total -> 3
      [] OTHER -> 2

(* finalize with buildPacket: the packets of one message.                    *)
FinalizePackets(protocol, units) ==
    LET bodies == IF Bodies(units) = <<>> THEN << <<>> >> ELSE Bodies(units)
    IN  [i \in 1..Len(bodies) |->
            [protocol |-> protocol, flag |-> Flag(i, Len(bodies)), body |-> bodies[i]]]

-----------------------------------------------------------------------------
(* Packet.Read and readNextProtocolFrom, from packet i of a stream: the      *)
(* body, the packet the next read starts at, and whether it succeeded.       *)

PacketRead(body, next, ok) == [body |-> body, next |-> next, ok |-> ok]

Complete(packet) == packet.flag \in {0, 3}

(* The loop over the further fragments.                                      *)
RestOfPacket(stream, first, protocol) ==
    LET rest[i \in first..Len(stream) + 1] ==
            CASE i > Len(stream) -> PacketRead(<<>>, i, FALSE)
              [] i <= Len(stream) /\ stream[i].protocol # protocol -> PacketRead(<<>>, i, FALSE)
              [] i <= Len(stream) /\ stream[i].protocol = protocol /\ Complete(stream[i])
                   -> PacketRead(stream[i].body, i + 1, TRUE)
              [] OTHER -> [rest[i + 1] EXCEPT !.body = stream[i].body \o @]
    IN  rest[first]

(* readNextProtocolFrom                                                      *)
ReadNextProtocolFrom(stream, i) ==
    CASE i > Len(stream) -> PacketRead(<<>>, i, FALSE)
      [] i <= Len(stream) /\ Complete(stream[i]) -> PacketRead(stream[i].body, i + 1, TRUE)
      [] OTHER -> LET rest == RestOfPacket(stream, i + 1, stream[i].protocol)
                  IN  [rest EXCEPT !.body = stream[i].body \o @]

(* Packet.Read returns at once on an empty body, whatever the flag says.     *)
ReadPacket(stream, i) ==
    IF i <= Len(stream) /\ stream[i].body = <<>>
    THEN PacketRead(<<>>, i + 1, TRUE)
    ELSE ReadNextProtocolFrom(stream, i)

-----------------------------------------------------------------------------
(* MarshalReader.next and collectUnits                                       *)

BadUnits == <<UnitOf("none", "error", 0)>>

(* The offset behind the unit at off, as next leaves it.                     *)
NextOffset(body, off) ==
    off + HeaderWords
        + (IF body[off + 1].type = "variable" THEN Align8(body[off + 2].length) ELSE 0)

(* What was written as data reads as garbage when it is taken for a header.  *)
Units(body) ==
    LET n == Len(body)
        from[off \in 0..n] ==
            CASE off = n -> <<>>
              [] off < n /\ off + HeaderWords > n -> BadUnits
              [] off + HeaderWords <= n /\ body[off + 1].word # "head" -> BadUnits
              [] OTHER -> IF NextOffset(body, off) > n THEN BadUnits
                          ELSE LET after == from[NextOffset(body, off)]
                               IN  IF after = BadUnits THEN BadUnits
                                   ELSE <<UnitOf(body[off + 1].id, body[off + 1].type,
                                                 body[off + 2].length)>> \o after
    IN  from[0]

(* collectUnits and firstUnit: the units of one id keep their order.         *)
CollectUnits(units, id) == SelectSeq(units, LAMBDA u : u.id = id)

-----------------------------------------------------------------------------
(* A conversation: what a reader finds when it reads message after message.  *)

Stream(protocols, messages) ==
    FlattenSeq([k \in DOMAIN messages |-> FinalizePackets(protocols[k], messages[k])])

(* Messages, one after the other, reach the other side whole and in order:   *)
(* every read ends where the next message begins, however a message was cut  *)
(* into packets, and no packet is larger than the limit unless it holds one  *)
(* unit that is (MarshalWriter, Packet.Read, MarshalReader).                 *)
MessagesWhole(protocols, messages) ==
    LET stream == Stream(protocols, messages)
        read[k \in 0..Len(messages)] ==
            IF k = 0 THEN PacketRead(<<>>, 1, TRUE) ELSE ReadPacket(stream, read[k - 1].next)
    IN  /\ \A k \in DOMAIN messages :
              LET units == Units(read[k].body)
              IN  /\ read[k].ok
                  /\ read[k] = ReadNextProtocolFrom(stream, read[k - 1].next)
                  /\ units # BadUnits /\ Len(units) = Len(messages[k])
                  /\ \A u \in ToSet(messages[k]) :
                        CollectUnits(units, u.id) = CollectUnits(messages[k], u.id)
        /\ read[Len(messages)].next = Len(stream) + 1
        /\ \A i \in DOMAIN stream :
              Len(stream[i].body) > MaxBody => Len(Units(stream[i].body)) = 1
=============================================================================
