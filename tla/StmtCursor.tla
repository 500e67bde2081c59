----------------------------- MODULE StmtCursor -----------------------------
(***************************************************************************)
(* A prepared statement of the driver (driver.go Stmt and Rows) on top of  *)
(* its StmtHandle (machnet/cli.go) and the server-side cursor behind it.   *)
(*                                                                         *)
(* The server keeps a cursor open until it has delivered the last chunk of *)
(* a result set, and rejects Prepare and Execute meanwhile ("Fetch in      *)
(* progress", MACHCLI-ERR-3008).  The client only has fetchLast to know    *)
(* it, and gets rid of an open cursor by renewing the handle.              *)
(*                                                                         *)
(* database/sql runs one call at a time on a connection, so a handler is   *)
(* one step; what is uncertain is how each of its round trips ends.  A     *)
(* handler is written as a composition of its calls, each mapping a state  *)
(* to the set of its outcomes.                                             *)
(***************************************************************************)
EXTENDS Naturals, Sequences

CONSTANTS
    MaxQueries,  \* bound: executions over the life of the statement
    MaxRows,     \* bound: rows of a result set
    Chunk,       \* rows the server puts into one reply (fetch_rows)
    ExecSelect   \* may a SELECT be run through Stmt.exec?

ASSUME StmtCursorAssumption ==
    /\ MaxQueries \in Nat /\ MaxRows \in Nat /\ Chunk \in Nat \ {0}
    /\ ExecSelect \in BOOLEAN

VARIABLES
    select, \* the statement is a SELECT
    v403,   \* SupportsReprepare
    sys,    \* Stmt, StmtHandle, and the server's statement under its id
    rows    \* the Rows returned by execution q

vars == <<select, v403, sys, rows>>

Executions == 1..MaxQueries

(* A Rows: how it ended; as history, whether no other call was made on the   *)
(* statement while it was open, and what the program has seen of it as long  *)
(* as that is so.                                                            *)
NoRows == [status |-> "none", seen |-> <<>>, end |-> "none", alone |-> TRUE]

(* The StmtHandle: "nil" when Stmt.handle is nil, "closed" after a failed    *)
(* Free.  A row is <<execution, number>>.                                    *)
FreshHandle == [state |-> "open", prepared |-> FALSE, buf |-> <<>>, last |-> TRUE]
FreshServer == [prepared |-> FALSE, open |-> FALSE, next |-> 1]

Init ==
    /\ select \in BOOLEAN /\ v403 \in BOOLEAN
    /\ sys = [h    |-> [FreshHandle EXCEPT !.prepared = TRUE],
              eof  |-> FALSE,
              srv  |-> [FreshServer EXCEPT !.prepared = TRUE],
              up   |-> TRUE,      \* the connection works
              n    |-> 0,         \* executions so far
              size |-> [q \in Executions |-> 0],
              rejected |-> FALSE] \* the server has answered "fetch in progress"
    /\ rows = [q \in Executions |-> NoRows]

RowSeq == Seq(Executions \X (1..MaxRows))

Handles == [state: {"nil", "open", "closed"}, prepared: BOOLEAN, buf: RowSeq, last: BOOLEAN]
Servers == [prepared: BOOLEAN, open: BOOLEAN, next: 1..(MaxRows + 1)]
Systems == [h: Handles, eof: BOOLEAN, srv: Servers, up: BOOLEAN, n: 0..MaxQueries,
            size: [Executions -> 0..MaxRows], rejected: BOOLEAN]
Results == [status: {"none", "open", "closed"}, seen: RowSeq,
            end: {"none", "eof", "error"}, alone: BOOLEAN]

TypeOK ==
    /\ select \in BOOLEAN /\ v403 \in BOOLEAN
    /\ sys \in Systems /\ Len(sys.h.buf) <= Chunk
    /\ rows \in [Executions -> Results]

-----------------------------------------------------------------------------
(* Outcomes of a call.                                                       *)

Ok(s)   == [sys |-> s, ok |-> TRUE]
Fail(s) == [sys |-> s, ok |-> FALSE]

(* First the outcomes R; f continues the successful ones.                    *)
Then(R, f(_)) == {r \in R : ~r.ok} \cup UNION {f(r.sys) : r \in {x \in R : x.ok}}

(* A round trip that the connection or the server makes fail.                *)
Lost(s)    == {Fail([s EXCEPT !.up = FALSE])}
Refused(s) == {Fail(s)}

(* What the server does with Prepare or Execute while a cursor is open.      *)
InProgress(s) == {Fail([s EXCEPT !.rejected = TRUE])}

-----------------------------------------------------------------------------
(* StmtHandle and the round trips it makes.                                  *)

(* Stmt.prepare with StmtHandle.Prepare.                                     *)
Prepare(s) ==
    IF s.h.state # "open" THEN Refused(s)
    ELSE Lost(s) \cup
         IF ~s.up THEN {}
         ELSE IF s.srv.open THEN InProgress(s)
         ELSE Refused(s) \cup
              {Ok([s EXCEPT !.h.prepared = TRUE, !.h.buf = <<>>, !.h.last = TRUE,
                            !.eof = FALSE, !.srv.prepared = TRUE])}

(* The rows i..j of execution q.                                             *)
RowRange(q, i, j) == [k \in 1..(j + 1 - i) |-> <<q, i + k - 1>>]

(* The server's replies with at most Chunk rows from number `from` on, and   *)
(* whether it says LAST: it may hold that back until the client asks again.  *)
Replies(from, size) ==
    {r \in [upto: (from - 1)..size, last: BOOLEAN] :
        /\ r.upto < from + Chunk
        /\ r.last => r.upto = size
        /\ r.upto < from => r.last}

(* Mutation: the rows still buffered from the last execution are kept.       *)
ExecutedKeepsRows(s, size) ==
    {Ok([s EXCEPT !.n = @ + 1, !.size[s.n + 1] = size,
                  !.h.buf = @ \o RowRange(s.n + 1, 1, r.upto), !.h.last = r.last,
                  !.srv.open = ~r.last, !.srv.next = r.upto + 1])
        : r \in Replies(1, size) \cup {[upto |-> 0, last |-> FALSE]}}

(* StmtHandle.Execute on a SELECT that finds `size` rows.  The first reply   *)
(* may also be empty without being the last.                                 *)
Executed(s, size) ==
    {Ok([s EXCEPT !.n = @ + 1, !.size[s.n + 1] = size,
                  !.h.buf = RowRange(s.n + 1, 1, r.upto), !.h.last = r.last,
                  !.srv.open = ~r.last, !.srv.next = r.upto + 1])
        : r \in Replies(1, size) \cup {[upto |-> 0, last |-> FALSE]}}

(* Mutation: reachEOF is left as the previous result set had it.             *)
ExecuteKeepsEOF(s) ==
    IF s.h.state # "open" \/ ~s.h.prepared THEN Refused(s)
    ELSE Lost(s) \cup
         IF ~s.up THEN {}
         ELSE IF s.srv.open THEN InProgress(s)
         ELSE Refused(s) \cup
              IF select THEN UNION {Executed(s, size) : size \in 0..MaxRows}
              ELSE {Ok([s EXCEPT !.n = @ + 1, !.h.buf = <<>>, !.h.last = TRUE])}

(* Stmt.execute with StmtHandle.Execute.                                     *)
Execute(s0) ==
    LET s == [s0 EXCEPT !.eof = FALSE] IN
    IF s.h.state # "open" \/ ~s.h.prepared THEN Refused(s)
    ELSE Lost(s) \cup
         IF ~s.up THEN {}
         ELSE IF s.srv.open THEN InProgress(s)
         ELSE Refused(s) \cup
              IF select THEN UNION {Executed(s, size) : size \in 0..MaxRows}
              ELSE {Ok([s EXCEPT !.n = @ + 1, !.h.buf = <<>>, !.h.last = TRUE])}

(* StmtHandle.ExecuteClean                                                   *)
Cleaned(s) == IF s.h.state = "nil" THEN s
              ELSE [s EXCEPT !.h.buf = <<>>, !.h.last = TRUE]

(* Mutation: a failed fetch is taken for the end of the result set.          *)
FetchErrorMeansLast(s) == [s EXCEPT !.h.last = TRUE]

(* fetchRowsChunk returns (nil, false, err).                                 *)
FetchError(s) == [s EXCEPT !.h.last = FALSE]

(* One fetchRowsChunk.  After a server error the cursor may be gone or not.  *)
FetchChunk(s) ==
    {Fail([FetchError(s) EXCEPT !.up = FALSE])} \cup
    IF ~s.up THEN {}
    ELSE {Fail(FetchError(s)), Fail([FetchError(s) EXCEPT !.srv.open = FALSE])} \cup
         IF ~s.srv.open THEN {}
         ELSE {Ok([s EXCEPT !.h.buf = RowRange(s.n, s.srv.next, r.upto), !.h.last = r.last,
                            !.srv.open = ~r.last, !.srv.next = r.upto + 1])
                 : r \in Replies(s.srv.next, s.size[s.n])}

(* StmtHandle.Fetch: the handle is ready to hand out a row or the end.       *)
Buffered(s) ==
    IF s.h.state = "nil" THEN Refused(s)
    ELSE IF s.h.buf # <<>> \/ s.h.last \/ ~select THEN {Ok(s)}
    ELSE FetchChunk(s)

(* StmtHandle.Free with Stmt.Close: the second Free of a handle succeeds.    *)
Close(s) ==
    IF s.h.state = "nil" THEN {Ok(s)}
    ELSE IF s.h.state = "closed" THEN {Ok([s EXCEPT !.h.state = "nil"])}
    ELSE Lost([s EXCEPT !.h.state = "closed"]) \cup
         IF ~s.up THEN {}
         ELSE Refused([s EXCEPT !.h.state = "closed"]) \cup
              {Ok([s EXCEPT !.h.state = "nil", !.srv = FreshServer])}

(* ConnHandle.AllocStmt, which may run out of ids: a fresh handle on an id   *)
(* of its own.                                                               *)
Alloc(s) == Refused(s) \cup {Ok([s EXCEPT !.h = FreshHandle, !.srv = FreshServer, !.eof = FALSE])}

-----------------------------------------------------------------------------
(* Stmt.                                                                     *)

RenewHandle(s) == Then(Then(Close(s), Alloc), Prepare)

DiscardOpenCursor(s) ==
    IF s.h.state = "nil" \/ s.h.last THEN {Ok(s)} ELSE RenewHandle(s)

ReprepareIfSupported(s) ==
    IF s.h.state = "nil" \/ ~v403 THEN {Ok(s)} ELSE Prepare(s)

(* The arguments may not fit.                                                *)
BindParams(s) == Refused(s) \cup {Ok(s)}

(* The head that exec, queryRows and QueryRow share.                         *)
Ready(s) == Then(DiscardOpenCursor(s), ReprepareIfSupported)
Run(s)   == Then(BindParams(s), Execute)

(* The bound on executions.                                                  *)
MayCall == sys.n < MaxQueries

(* A call is made: Rows still open share the statement with it.              *)
OpenRows == {q \in Executions : rows[q].status = "open"}
Shared == [q \in Executions |-> IF q \in OpenRows THEN [rows[q] EXCEPT !.alone = FALSE, !.seen = <<>>]
                                                  ELSE rows[q]]

(* Stmt.exec: the deferred ExecuteClean runs once the statement was ready.   *)
Exec ==
    /\ MayCall /\ sys.h.state # "nil" /\ (select => ExecSelect)
    /\ \E r \in Ready(sys) :
         IF r.ok THEN \E x \in Run(r.sys) : sys' = Cleaned(x.sys)
                 ELSE sys' = r.sys
    /\ rows' = Shared
    /\ UNCHANGED <<select, v403>>

(* Stmt.queryRows returns the Rows of this execution.                        *)
QueryRows ==
    /\ MayCall /\ sys.h.state # "nil"
    /\ \E r \in Then(Ready(sys), Run) :
         /\ sys' = r.sys
         /\ rows' = IF r.ok
                    THEN [Shared EXCEPT ![r.sys.n].status = "open",
                                        ![r.sys.n].alone = (OpenRows = {})]
                    ELSE Shared
    /\ UNCHANGED <<select, v403>>

(* Stmt.fetch: hand out a row of the buffer, or the end.                     *)
Popped(s) == IF s.h.buf # <<>> THEN [s EXCEPT !.h.buf = Tail(@)] ELSE [s EXCEPT !.eof = TRUE]

(* Stmt.QueryRow takes one row and leaves the rest to discardOpenCursor.     *)
(* Its callers must not use a statement whose handle is gone: ErrorOf would  *)
(* dereference it.                                                           *)
QueryRow ==
    /\ MayCall /\ sys.h.state # "nil"
    /\ \E r \in Then(Then(Ready(sys), Run), Buffered) :
         sys' = IF r.ok THEN Popped(r.sys) ELSE r.sys
    /\ rows' = Shared
    /\ UNCHANGED <<select, v403>>

(* Rows.Next.  database/sql does not call it again after an error or EOF.    *)
RowsNext(q) ==
    /\ rows[q].status = "open" /\ rows[q].end = "none"
    /\ IF sys.eof
       THEN UNCHANGED sys /\ rows' = [rows EXCEPT ![q].end = "eof"]
       ELSE \E r \in Buffered(sys) :
              LET s == r.sys IN
              IF ~r.ok
              THEN sys' = s /\ rows' = [rows EXCEPT ![q].end = "error"]
              ELSE /\ sys' = Popped(s)
                   /\ rows' = IF s.h.buf # <<>>
                              THEN [rows EXCEPT ![q].seen =
                                      IF rows[q].alone THEN Append(@, Head(s.h.buf)) ELSE @]
                              ELSE [rows EXCEPT ![q].end = "eof"]
    /\ UNCHANGED <<select, v403>>

(* Mutation: the cursor is forgotten instead of dropped.                     *)
RowsCloseCleansOnly(q) ==
    /\ rows[q].status = "open"
    /\ rows' = [rows EXCEPT ![q].status = "closed"]
    /\ sys' = Cleaned([sys EXCEPT !.eof = FALSE])
    /\ UNCHANGED <<select, v403>>

(* Rows.Close of a prepared statement's result set.                          *)
RowsClose(q) ==
    /\ rows[q].status = "open"
    /\ rows' = [rows EXCEPT ![q].status = "closed"]
    /\ LET s == [sys EXCEPT !.eof = FALSE] IN
       IF s.h.state # "nil" /\ ~s.h.last
       THEN \E r \in RenewHandle(s) : sys' = r.sys
       ELSE sys' = Cleaned(s)
    /\ UNCHANGED <<select, v403>>

(* Stmt.Close by database/sql, which waits for the open Rows.                *)
CloseStmt ==
    /\ sys.h.state # "nil" /\ OpenRows = {}
    /\ \E r \in Close(sys) : sys' = r.sys
    /\ UNCHANGED <<select, v403, rows>>

(* Something else on this connection retired it.                             *)
ConnectionLost ==
    /\ sys.up /\ sys' = [sys EXCEPT !.up = FALSE]
    /\ UNCHANGED <<select, v403, rows>>

Next ==
    \/ Exec \/ QueryRows \/ QueryRow \/ CloseStmt \/ ConnectionLost
    \/ \E q \in Executions : RowsNext(q) \/ RowsClose(q)

Spec == Init /\ [][Next]_vars

-----------------------------------------------------------------------------
(* Properties.                                                               *)

(* FetchCompleted never says yes while the server keeps a cursor open: "While *)
(* it is false the server keeps the cursor open" is all the driver has to    *)
(* decide whether a handle must be renewed.                                  *)
CursorKnown == sys.up /\ sys.h.state = "open" /\ sys.h.last => ~sys.srv.open

(* However result sets are abandoned and whatever fails in between, the      *)
(* driver never sends Prepare or Execute into an open cursor (renewHandle).  *)
NeverRejected == ~sys.rejected

(* A Rows that has the statement to itself while it is open delivers the     *)
(* rows of its own execution, in order and without gaps, and reports the end *)
(* only after the last of them, whatever was abandoned or failed before      *)
(* (Rows.Next, Stmt.fetch, StmtHandle.Fetch).                                *)
ResultExact ==
    \A q \in Executions : rows[q].alone =>
        /\ rows[q].seen = RowRange(q, 1, Len(rows[q].seen))
        /\ rows[q].end = "eof" => Len(rows[q].seen) = sys.size[q]
=============================================================================
