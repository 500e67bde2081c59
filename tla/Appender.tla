------------------------------ MODULE Appender ------------------------------
(***************************************************************************)
(* The append path: Appender (appender.go) over StmtHandle's append buffer *)
(* (machnet/cli.go AppendData, flushAppendBufferedLocked, AppendFlush,     *)
(* AppendClose) and NativeConn.appendData / appendClose.                   *)
(*                                                                         *)
(* Rows are numbered by the Append call that brings them.  A call encodes  *)
(* its row, queues it, and sends the whole queue when a limit is reached.  *)
(* Batches are not acknowledged, except that every ErrCheck-th row waits   *)
(* five milliseconds for an answer.                                        *)
(***************************************************************************)
EXTENDS Naturals, Sequences, FiniteSets, SequencesExt

CONSTANTS
    MaxCalls,   \* bound: Append calls
    BatchRows,  \* appendBatchMaxRows
    ErrCheck    \* errCheckCnt; 0: never wait for an answer

ASSUME AppendAssumption ==
    MaxCalls \in Nat /\ BatchRows \in Nat \ {0} /\ ErrCheck \in Nat

VARIABLES
    calls,     \* Append calls so far: row n belongs to call n
    pending,   \* pendingRows
    expired,   \* the oldest queued row has waited appendBatchMaxDelay
    addCount, sentCount, failCnt,  \* the AppendState counters
    wire,      \* rows written to the socket, in order
    refused,   \* rows that were never queued or whose batch failed (history)
    accepted, rejected,  \* what the server did with the rows (external)
    up,        \* the connection works
    phase,     \* Appender: "open" or "closed"
    result     \* what Appender.Close returned

buffer   == <<pending, expired>>
counters == <<addCount, sentCount, failCnt>>
server   == <<wire, accepted, rejected, up>>
vars == <<calls, buffer, counters, server, refused, phase, result>>

RowNumbers == 1..MaxCalls
NoResult == [success |-> 0, fail |-> 0, ok |-> FALSE]

TypeOK ==
    /\ calls \in 0..MaxCalls
    /\ pending \in Seq(RowNumbers) /\ Len(pending) <= BatchRows
    /\ expired \in BOOLEAN
    /\ addCount \in 0..MaxCalls /\ sentCount \in 0..MaxCalls /\ failCnt \in 0..MaxCalls
    /\ wire \in Seq(RowNumbers)
    /\ refused \subseteq RowNumbers
    /\ accepted \subseteq RowNumbers /\ rejected \subseteq RowNumbers
    /\ up \in BOOLEAN /\ phase \in {"open", "closed"}
    /\ result \in [success: 0..MaxCalls, fail: 0..MaxCalls, ok: BOOLEAN]

(* The state after Appender.Connect and AppendOpen.                          *)
Init ==
    /\ calls = 0 /\ pending = <<>> /\ expired = FALSE
    /\ addCount = 0 /\ sentCount = 0 /\ failCnt = 0
    /\ wire = <<>> /\ refused = {} /\ accepted = {} /\ rejected = {}
    /\ up = TRUE /\ phase = "open" /\ result = NoResult

-----------------------------------------------------------------------------
(* The server takes a batch and stores some of its rows.                     *)
Processes(batch) ==
    /\ wire' = wire \o batch
    /\ \E good \in SUBSET ToSet(batch) :
         /\ accepted' = accepted \cup good
         /\ rejected' = rejected \cup (ToSet(batch) \ good)

(* Mutation: a failed batch is not counted.                                  *)
FailUncounted(batch) ==
    /\ refused' = refused \cup ToSet(batch)
    /\ UNCHANGED <<failCnt, sentCount>>

FailCounted(batch) ==
    /\ failCnt' = failCnt + Len(batch)
    /\ refused' = refused \cup ToSet(batch)
    /\ UNCHANGED sentCount

(* Mutation: the queue is emptied only after a successful send.              *)
QueueAfterFlushKept(batch) == pending' = batch /\ UNCHANGED expired

QueueAfterFlush(batch) == pending' = <<>> /\ expired' = FALSE

(* flushAppendBufferedLocked with appendData.  The queue is emptied first.   *)
(* Without a check the batch is written and that is all.  With one, the      *)
(* server's answer may report an error, possibly about an earlier batch,     *)
(* whose answer came too late for its own check.  The write or the read may  *)
(* also lose the connection, before or after the server took the batch.      *)
FlushOk(batch) ==
    /\ up /\ Processes(batch) /\ UNCHANGED up
    /\ QueueAfterFlush(batch)
    /\ sentCount' = sentCount + Len(batch)
    /\ UNCHANGED <<failCnt, refused>>

FlushFails(batch, check) ==
    /\ QueueAfterFlush(batch)
    /\ FailCounted(batch)
    /\ \/ check /\ up /\ Processes(batch) /\ UNCHANGED up
       \/ check /\ up /\ Processes(batch) /\ up' = FALSE
       \/ up' = FALSE /\ UNCHANGED <<wire, accepted, rejected>>

CheckDue(n) == ErrCheck > 0 /\ n % ErrCheck = 0

BatchFull(batch) == Len(batch) >= BatchRows

(* Appender.Append: AppendData.  A call with the wrong number of values      *)
(* returns before anything is counted.  Otherwise the row cannot be bound or *)
(* encoded, or it is queued, and the queue is sent if a response check is    *)
(* due, the batch is full in rows or bytes, or its oldest row has waited     *)
(* long enough.                                                              *)
AppendBad ==
    /\ phase = "open" /\ calls < MaxCalls
    /\ calls' = calls + 1
    /\ failCnt' = failCnt + 1
    /\ refused' = refused \cup {calls + 1}
    /\ UNCHANGED <<buffer, addCount, sentCount, server, phase, result>>

AppendRow ==
    /\ phase = "open" /\ calls < MaxCalls
    /\ calls' = calls + 1
    /\ addCount' = addCount + 1
    /\ LET batch == Append(pending, calls + 1)
           check == CheckDue(addCount + 1)
       IN  \E bytesFull \in BOOLEAN :
             IF check \/ bytesFull \/ expired \/ BatchFull(batch)
             THEN FlushOk(batch) \/ FlushFails(batch, check)
             ELSE /\ pending' = batch
                  /\ UNCHANGED <<expired, sentCount, failCnt, refused, server>>
    /\ UNCHANGED <<phase, result>>

(* Appender.Flush: AppendFlush.                                              *)
Flush ==
    /\ phase = "open" /\ pending # <<>>
    /\ FlushOk(pending) \/ FlushFails(pending, FALSE)
    /\ UNCHANGED <<calls, addCount, phase, result>>

(* The counts AppendClose makes up when it fails.                            *)
LocalCounts(sent, fail) ==
    [success |-> IF sent < fail THEN 0 ELSE sent - fail, fail |-> fail, ok |-> FALSE]

(* Mutation: Close only asks for the counts, and leaves the queue unsent.     *)
CloseWithoutFlush ==
    /\ phase = "open" /\ phase' = "closed" /\ up
    /\ result' = [success |-> Cardinality(accepted), fail |-> Cardinality(rejected), ok |-> TRUE]
    /\ UNCHANGED <<calls, buffer, counters, server, refused>>

(* Appender.Close: AppendClose sends what is queued and asks the server for  *)
(* its counts.  Draining late AppendData answers on the way, it fails on the *)
(* first that reports an error; the connection may be lost as well.          *)
Close ==
    /\ phase = "open" /\ phase' = "closed"
    /\ \/ /\ pending # <<>> /\ FlushFails(pending, FALSE)
          /\ result' = LocalCounts(sentCount', failCnt')
       \/ /\ IF pending # <<>> THEN FlushOk(pending)
             ELSE up /\ UNCHANGED <<buffer, sentCount, failCnt, refused, server>>
          /\ \/ result' = [success |-> Cardinality(accepted'),
                           fail |-> Cardinality(rejected'), ok |-> TRUE]
             \/ result' = LocalCounts(sentCount', failCnt')
       \/ /\ pending = <<>> /\ up' = FALSE
          /\ UNCHANGED <<buffer, sentCount, failCnt, refused, wire, accepted, rejected>>
          /\ result' = LocalCounts(sentCount, failCnt)
    /\ UNCHANGED <<calls, addCount>>

(* appendBatchMaxDelay passes.                                               *)
DelayPasses ==
    /\ phase = "open" /\ pending # <<>> /\ ~expired /\ expired' = TRUE
    /\ UNCHANGED <<calls, pending, counters, server, refused, phase, result>>

ConnectionLost ==
    /\ up /\ up' = FALSE
    /\ UNCHANGED <<calls, buffer, counters, wire, accepted, rejected, refused, phase, result>>

Next == AppendBad \/ AppendRow \/ Flush \/ Close \/ DelayPasses \/ ConnectionLost

Spec == Init /\ [][Next]_vars

-----------------------------------------------------------------------------
(* Properties.                                                               *)

(* Every row that passes Append's argument count check is queued, sent or    *)
(* counted as failed, and only one of these, however flushes fail            *)
(* (AppendData, flushAppendBufferedLocked).                                  *)
Accounted == calls = Len(pending) + sentCount + failCnt

(* Rows go out in the order of the calls and never twice: a batch that       *)
(* failed is not sent again (flushAppendBufferedLocked empties the queue     *)
(* before it sends).                                                         *)
WireInOrder == \A i, j \in 1..Len(wire) : i < j => wire[i] < wire[j]

(* A Close without error leaves nothing behind: every row is at the server   *)
(* or was refused to its Append or Flush caller, and the counts cover all    *)
(* rows sent (AppendClose).                                                  *)
CleanClose ==
    result.ok =>
        /\ pending = <<>>
        /\ ToSet(wire) \cup refused = 1..calls
        /\ result.success + result.fail = Len(wire)
=============================================================================
