--------------------------- MODULE AppendColumns ----------------------------
(***************************************************************************)
(* Which value of an Append call goes to which column: the input columns   *)
(* of the Appender, the arrival time of log tables, the cached bindings of *)
(* the statement and the row with its NULL bits (appender.go;              *)
(* machnet/append_encode.go, machnet/cli.go AppendData).                   *)
(*                                                                         *)
(* A target is a column or one element of an ARRAY column, spelled one     *)
(* way: <<name, position>> with position 0 for the whole column.           *)
(***************************************************************************)
EXTENDS Integers, Sequences, SequencesExt

CONSTANT ByteBits    \* the NULL bits in a byte, 8 scaled down

ASSUME ByteBitsAssumption == ByteBits \in Nat \ {0}

Refused == <<>>
Nil == "nil"
ZeroTime == "zero time"     \* time.Time{}
NoTime == "no time"

ArrivalTime == <<"_ARRIVAL_TIME", 0>>

(* isAppenderArrivalColumn, appenderArrivalIndex (0 for none)                *)
IsArrival(target) == target \in {ArrivalTime, <<"ARRIVAL_TIME", 0>>}
ArrivalIndex(names) == SelectInSeq(names, IsArrival)
DropArrival(kept, target) == IF IsArrival(target) THEN kept ELSE Append(kept, target)
WithoutArrival(names) == FoldLeft(DropArrival, <<>>, names)

(* The place of a target among names, 0 when it is not there.                *)
PlaceOf(names, target) == SelectInSeq(names, LAMBDA t : t = target)

Distinct(names) == \A i, j \in DOMAIN names : names[i] = names[j] => i = j

-----------------------------------------------------------------------------
(* Opening.                                                                  *)

(* encodeAppendTargets: no target twice, and no ARRAY both as a whole and by *)
(* element.                                                                  *)
EncodeAppendTargets(targets) ==
    /\ Distinct(targets)
    /\ \A t, u \in ToSet(targets) : t[1] = u[1] => (t[2] = 0) = (u[2] = 0)

(* appenderProjectionColumns                                                 *)
ProjectionColumns(table, names) == IF table = "log" THEN WithoutArrival(names) ELSE names

(* The columns the server then expects in a row (external): the projection   *)
(* or the whole table, after the arrival time of a log table.                *)
ServerColumns(table, columns, projection) ==
    (IF table = "log" THEN <<ArrivalTime>> ELSE <<>>)
        \o (IF projection = <<>> THEN ProjectionColumns(table, columns) ELSE projection)

(* Appender.Connect and Appender.appender: the columns of the call, or those *)
(* an earlier WithInputColumns left, or all.                                 *)
OpenAppender(table, columns, input) ==
    LET projection == ProjectionColumns(table, input)
    IN  IF projection # <<>> /\ ~EncodeAppendTargets(projection) THEN Refused
        ELSE [table |-> table, columns |-> columns, input |-> input,
              inputAtOpen |-> input # <<>>,
              server |-> ServerColumns(table, columns, projection)]

(* WithInputColumns after Connect.                                           *)
WithInputColumns(ap, names) == [ap EXCEPT !.input = names]

-----------------------------------------------------------------------------
(* Append and AppendLogTime.                                                 *)

(* appendColumnNames                                                         *)
AppendColumnNames(ap) == IF ap.input = <<>> THEN ap.columns ELSE ap.input

(* requiresExplicitArrival                                                   *)
RequiresExplicitArrival(ap) ==
    ap.input # <<>> /\ ~ap.inputAtOpen /\ ArrivalIndex(AppendColumnNames(ap)) = 0

(* insertAppenderValue                                                       *)
InsertValue(values, idx, value) ==
    IF idx \in 1..Len(values) + 1 THEN InsertAt(values, idx, value) ELSE values

Shape(names, values) == [names |-> names, values |-> values]

(* withAppenderArrival                                                       *)
WithArrival(names, values, time) ==
    LET idx == ArrivalIndex(names)
    IN  IF idx > 0 THEN Shape(names, InsertValue(values, idx, time))
        ELSE Shape(<<ArrivalTime>> \o names, <<time>> \o values)

(* Append (time = NoTime) and AppendLogTime: names and values of the row.    *)
Shaped(ap, values, time) ==
    LET names == AppendColumnNames(ap)
        idx == ArrivalIndex(names)
    IN  CASE ap.table # "log" -> IF time = NoTime THEN Shape(names, values) ELSE Refused
          [] ap.table = "log" /\ RequiresExplicitArrival(ap) -> Refused
          [] ap.table = "log" /\ ~RequiresExplicitArrival(ap) /\ time = NoTime /\ idx > 0 ->
               IF Len(values) = Len(names) - 1
               THEN Shape(names, InsertValue(values, idx, ZeroTime))
               ELSE Shape(names, values)
          [] OTHER -> WithArrival(names, values, IF time = NoTime THEN ZeroTime ELSE time)

(* appendNamed                                                               *)
CountFits(ap, row) ==
    Len(row.values) = IF ap.input # <<>> THEN Len(row.names) ELSE Len(ap.columns)

-----------------------------------------------------------------------------
(* StmtHandle.AppendData.                                                    *)

LastArrival(names) == SelectLastInSeq(names, IsArrival)

(* buildAppendBindings: for every server column the argument it takes, 0 for *)
(* NULL.  Every name but the arrival time must be a column.                  *)
BuildAppendBindings(columns, names) ==
    IF \/ ~Distinct(names)
       \/ \E t \in ToSet(names) : ~IsArrival(t) /\ t \notin ToSet(columns)
    THEN Refused
    ELSE [arrivalArg |-> LastArrival(names),
          byColumn |-> [i \in DOMAIN columns |->
              IF columns[i] = ArrivalTime THEN -1
              ELSE PlaceOf(names, columns[i])]]

(* Mutation: the bindings of the first row serve all rows.                   *)
CachedBindingsAlways(cache, columns, names) ==
    IF cache # Refused THEN cache
    ELSE [names |-> names, bindings |-> BuildAppendBindings(columns, names)]

(* AppendData with sameAppendBindingNames: bindings are kept while the names *)
(* stay the same.                                                            *)
CachedBindings(cache, columns, names) ==
    IF cache # Refused /\ cache.names = names THEN cache
    ELSE [names |-> names, bindings |-> BuildAppendBindings(columns, names)]

(* setAppendNullBit                                                          *)
NullBit(i) == <<(i - 1) \div ByteBits, (i - 1) % ByteBits>>

NullBytes(columns) == IF columns = <<>> THEN 0 ELSE Len(columns) \div ByteBits + 1

(* The column i of a row is NULL, or holds this field (encodeAppendRow,      *)
(* isNilAppendValue).                                                        *)
IsNullIn(bindings, args, i) ==
    LET arg == bindings.byColumn[i] IN arg # -1 /\ (arg \notin DOMAIN args \/ args[arg] = Nil)
FieldIn(bindings, args, i) ==
    LET arg == IF bindings.byColumn[i] = -1 THEN bindings.arrivalArg ELSE bindings.byColumn[i]
    IN  IF arg \in DOMAIN args /\ args[arg] # Nil THEN args[arg] ELSE NoTime

AddField(fields, bindings, args, i) ==
    IF IsNullIn(bindings, args, i) THEN fields ELSE Append(fields, FieldIn(bindings, args, i))

(* encodeAppendRow: the NULL bits, and the fields of the other columns.      *)
EncodeAppendRow(columns, bindings, args) ==
    [bits |-> { NullBit(i) : i \in { j \in DOMAIN columns :
                    IsNullIn(bindings, args, j) /\ NullBit(j)[1] < NullBytes(columns) } },
     fields |-> FoldLeft(LAMBDA acc, i : AddField(acc, bindings, args, i), <<>>,
                         [i \in DOMAIN columns |-> i])]

(* How the server reads a row (external): a field for every column whose     *)
(* NULL bit is not set.                                                      *)
ServerReads(columns, row) ==
    LET set(i) == NullBit(i) \in row.bits
        before[i \in 0..Len(columns)] ==
            IF i = 0 THEN 0 ELSE before[i - 1] + (IF set(i) THEN 0 ELSE 1)
    IN  [i \in DOMAIN columns |->
            IF set(i) THEN Nil
            ELSE IF before[i] \in DOMAIN row.fields THEN row.fields[before[i]] ELSE "missing"]

-----------------------------------------------------------------------------
(* A session of the appender: every row is refused or read by the server.    *)

RowOutcome(ap, cache, row) ==
    LET shape == Shaped(ap, row.values, row.time)
    IN  IF shape = Refused THEN [cache |-> cache, read |-> Refused]
        ELSE IF ~CountFits(ap, shape) \/ Len(shape.names) # Len(shape.values)
             THEN [cache |-> cache, read |-> Refused]
        ELSE LET bound == CachedBindings(cache, ap.server, shape.names)
             IN  IF bound.bindings = Refused THEN [cache |-> cache, read |-> Refused]
                 ELSE [cache |-> bound,
                       read |-> ServerReads(ap.server,
                                    EncodeAppendRow(ap.server, bound.bindings, shape.values))]

(* The names a caller's values stand for, one for one.                       *)
NamesFor(names, row) ==
    IF row.time # NoTime \/ Len(row.values) # Len(names) THEN WithoutArrival(names) ELSE names

(* What the caller meant for a column of the server.                         *)
Meant(names, row, column) ==
    LET given == PlaceOf(NamesFor(names, row), column)
        arrivalGiven == ArrivalIndex(NamesFor(names, row))
    IN  IF column = ArrivalTime
        THEN CASE row.time # NoTime -> row.time
               [] row.time = NoTime /\ arrivalGiven = 0 -> ZeroTime
               [] OTHER -> IF row.values[arrivalGiven] = Nil THEN NoTime ELSE row.values[arrivalGiven]
        ELSE IF given = 0 THEN Nil ELSE row.values[given]

(* Every value of an accepted row reaches the column its caller named, in    *)
(* this row's order of names and not an earlier row's, every other column is *)
(* NULL, and a row with one value for each column named at Connect is        *)
(* accepted (Append, AppendData, buildAppendBindings, encodeAppendRow).      *)
RowsAsNamed(session) ==
    LET ap == OpenAppender(session.table, session.columns, session.input)
    IN  ap # Refused =>
        LET late == IF session.late = <<>> THEN ap ELSE WithInputColumns(ap, session.late)
            first == RowOutcome(ap, Refused, session.rows[1])
            second == RowOutcome(late, first.cache, session.rows[2])
            right(a, row, read) ==
                read # Refused =>
                    LET names == AppendColumnNames(a)
                    IN  /\ Len(NamesFor(names, row)) = Len(row.values)
                        /\ \A i \in DOMAIN a.server : read[i] = Meant(names, row, a.server[i])
        IN  /\ right(ap, session.rows[1], first.read)
            /\ right(late, session.rows[2], second.read)
            /\ Len(session.rows[1].values) = Len(AppendColumnNames(ap)) /\ session.rows[1].time = NoTime
                 => first.read # Refused
=============================================================================
