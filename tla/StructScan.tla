----------------------------- MODULE StructScan -----------------------------
(***************************************************************************)
(* Struct mapping: the fields of a struct type, result columns scanned     *)
(* into them, and structs as sources of named parameters (structmap.go,    *)
(* scanstruct.go, named.go; driver.go mapNamedParams).                     *)
(*                                                                         *)
(* Names are compared without case everywhere, so a name stands for all    *)
(* its spellings.                                                          *)
(***************************************************************************)
EXTENDS Naturals, Sequences, SequencesExt

(* Values are tuples: a column's value is <<row, column>>.                   *)
BadPlan == <<>>
Unscannable == <<"unscannable">>
NilValue == <<>>
Unset == <<"zero", "value", "of the field">>

-----------------------------------------------------------------------------
(* The fields of a struct type.  A declaration has a tag: the name it gives, *)
(* "-" to leave it out, or "" if there is none; "nested" holds the fields of *)
(* a struct type, and is empty for a single value.                           *)

(* walkStruct on the fields of a nested struct, with fieldName: a field      *)
(* without a tag has no column.                                              *)
WalkNested(prefix, nested, at) ==
    LET leaf(j) == IF nested[j].tag \in {"", "-"} THEN <<>>
                   ELSE << [name |-> Append(prefix, nested[j].tag), index |-> <<at, j>>,
                            kind |-> nested[j].kind, nullable |-> nested[j].nullable,
                            options |-> nested[j].options] >>
    IN  FlattenSeq([j \in DOMAIN nested |-> leaf(j)])

(* walkStruct: an embedded struct without a tag adds its fields under their  *)
(* own names, a tagged struct under its name and a dot.                      *)
WalkStruct(decls) ==
    LET walk(i) ==
            LET d == decls[i] IN
            CASE d.tag = "-" -> <<>>
              [] d.tag = "" /\ d.nested # <<>> /\ d.anonymous -> WalkNested(<<>>, d.nested, i)
              [] d.tag \notin {"", "-"} /\ d.nested # <<>> -> WalkNested(<<d.tag>>, d.nested, i)
              [] d.tag \notin {"", "-"} /\ d.nested = <<>> ->
                   << [name |-> <<d.tag>>, index |-> <<i>>, kind |-> d.kind,
                       nullable |-> d.nullable, options |-> d.options] >>
              [] OTHER -> <<>>
    IN  FlattenSeq([i \in DOMAIN decls |-> walk(i)])

(* parseTimeFieldOpts: timeformat and tz are for fields that can hold a time.*)
OptionsApply(field) == field.options => field.kind # "plain"

(* structMapOf with structMap.add: no field, two fields of one name, or an   *)
(* option on the wrong field are errors.                                     *)
StructMapOf(decls) ==
    LET fields == WalkStruct(decls)
    IN  IF \/ fields = <<>>
           \/ \E i, j \in DOMAIN fields : i # j /\ fields[i].name = fields[j].name
           \/ \E f \in ToSet(fields) : ~OptionsApply(f)
        THEN BadPlan ELSE fields

(* structMap.lookup (0 for none)                                             *)
Lookup(fields, name) == SelectInSeq(fields, LAMBDA f : f.name = name)

-----------------------------------------------------------------------------
(* Plans.  A column has the type the driver reports ("unknown" if it reports *)
(* none) and the type its values really have.                                *)

(* isConfirmedNonDateTime                                                    *)
ConfirmedNonDateTime(column) == column.reported \notin {"unknown", "datetime"}

(* newScanPlan and bindStruct: for every column its field (0 discards it)    *)
(* and whether it takes the way for times.                                   *)
BindStruct(fields, columns, laxColumns, laxFields) ==
    LET at(i) == Lookup(fields, columns[i].name)
        timed(i) == at(i) # 0 /\ fields[at(i)].kind # "plain"
    IN  IF \/ \E i, j \in DOMAIN columns : i # j /\ columns[i].name = columns[j].name
           \/ ~laxColumns /\ \E i \in DOMAIN columns : at(i) = 0
           \/ \E i \in DOMAIN columns :
                timed(i) /\ ConfirmedNonDateTime(columns[i]) /\ fields[at(i)].options
           \/ ~laxFields /\ \E f \in DOMAIN fields : \A i \in DOMAIN columns : at(i) # f
        THEN BadPlan
        ELSE [i \in DOMAIN columns |->
                [field |-> at(i), time |-> timed(i) /\ ~ConfirmedNonDateTime(columns[i])]]

-----------------------------------------------------------------------------
(* Rows.                                                                     *)

Converted(v) == v \o v
FreshItem(fields) == [f \in DOMAIN fields |-> Unset]

(* The raw way: rows.Scan stores into the field itself, NULL needs a pointer *)
(* or a wrapper (a "nulltime" is one).                                       *)
ScanField(field, v) ==
    CASE v = NilValue -> IF field.nullable \/ field.kind = "nulltime" THEN NilValue ELSE Unscannable
      [] OTHER -> v

(* timeFieldOpts.apply and applyTZ: a value that is not a time is scanned as *)
(* usual.                                                                    *)
ApplyTime(field, column, v) ==
    CASE v = NilValue -> IF field.nullable \/ field.kind = "nulltime" THEN NilValue ELSE Unscannable
      [] v # NilValue /\ column.type = "datetime" -> Converted(v)
      [] OTHER -> v

(* rowReader.scanValue into a new item.                                      *)
ScanValue(fields, columns, plan, row) ==
    LET stored(i) == IF plan[i].time THEN ApplyTime(fields[plan[i].field], columns[i], row[i])
                     ELSE ScanField(fields[plan[i].field], row[i])
        used == { i \in DOMAIN columns : plan[i].field # 0 }
    IN  IF \E i \in used : stored(i) = Unscannable THEN BadPlan
        ELSE [f \in DOMAIN fields |->
                IF \E i \in used : plan[i].field = f
                THEN stored(CHOOSE i \in used : plan[i].field = f) ELSE Unset]

Reading == [status |-> "reading", out |-> <<>>]

(* The loop bodies of ScanRows and ScanAll: the limit is tested before the   *)
(* scan in one and after it in the other.                                    *)
ScanRowsStep(s, item, maxRows) ==
    CASE s.status # "reading" -> s
      [] s.status = "reading" /\ maxRows > 0 /\ Len(s.out) + 1 > maxRows ->
           [s EXCEPT !.status = "tooMany"]
      [] OTHER -> IF item = BadPlan THEN [s EXCEPT !.status = "scanError"]
                  ELSE [s EXCEPT !.out = Append(@, item)]

(* Mutation: the limit counts the row that reaches it.                       *)
ScanAllStepEarly(s, item, maxRows) ==
    CASE s.status # "reading" -> s
      [] s.status = "reading" /\ item = BadPlan -> [s EXCEPT !.status = "scanError"]
      [] OTHER -> IF maxRows > 0 /\ Len(s.out) + 1 >= maxRows THEN [s EXCEPT !.status = "tooMany"]
                  ELSE [s EXCEPT !.out = Append(@, item)]

ScanAllStep(s, item, maxRows) ==
    CASE s.status # "reading" -> s
      [] s.status = "reading" /\ item = BadPlan -> [s EXCEPT !.status = "scanError"]
      [] OTHER -> IF maxRows > 0 /\ Len(s.out) + 1 > maxRows THEN [s EXCEPT !.status = "tooMany"]
                  ELSE [s EXCEPT !.out = Append(@, item)]

(* The end of the rows, with the error the rows may have ended by.           *)
Finished(s, broken) ==
    CASE s.status # "reading" -> s.status
      [] s.status = "reading" /\ broken -> "rowsError"
      [] OTHER -> "ok"

(* ScanRows assigns the destination only when all went well.                 *)
ScanRows(items, maxRows, broken, before) ==
    LET s == FoldLeft(LAMBDA acc, item : ScanRowsStep(acc, item, maxRows), Reading, items)
    IN  [status |-> Finished(s, broken), dest |-> IF Finished(s, broken) = "ok" THEN s.out ELSE before]

(* ScanAll with typedReader.next returns no rows with an error.              *)
ScanAll(items, maxRows, broken) ==
    LET s == FoldLeft(LAMBDA acc, item : ScanAllStep(acc, item, maxRows), Reading, items)
    IN  [status |-> Finished(s, broken), dest |-> IF Finished(s, broken) = "ok" THEN s.out ELSE <<>>]

(* Every field of every item holds the value its own column has in the same  *)
(* row, a time exactly if the column is a DATETIME, whatever the driver      *)
(* reports; discarded columns and unmatched fields disturb nothing; the      *)
(* destination is all rows or none; and ScanRows and ScanAll take and refuse *)
(* the same result sets, up to the limit and not past it (bindStruct,        *)
(* scanValue, ScanRows, ScanAll).                                            *)
RowsScanned(q) ==
    LET fields == StructMapOf(q.decls)
        plan == IF fields = BadPlan THEN BadPlan
                ELSE BindStruct(fields, q.columns, q.laxColumns, q.laxFields)
    IN  plan # BadPlan =>
        LET items == [r \in DOMAIN q.rows |-> ScanValue(fields, q.columns, plan, q.rows[r])]
            rows == ScanRows(items, q.maxRows, q.broken, Unset)
            all == ScanAll(items, q.maxRows, q.broken)
            expected(f, r) ==
                LET i == SelectInSeq(q.columns, LAMBDA c : c.name = fields[f].name)
                IN  CASE i = 0 -> Unset
                      [] i # 0 /\ q.rows[r][i] # NilValue /\ q.columns[i].type = "datetime"
                               /\ fields[f].kind # "plain" -> Converted(q.rows[r][i])
                      [] OTHER -> q.rows[r][i]
        IN  /\ (rows.status = "ok") = (all.status = "ok")
            /\ rows.status = "ok" =>
                 /\ rows.dest = all.dest /\ Len(all.dest) = Len(q.rows)
                 /\ \A r \in DOMAIN q.rows : \A f \in DOMAIN fields : all.dest[r][f] = expected(f, r)
            /\ rows.status # "ok" => rows.dest = Unset /\ all.dest = <<>>
            /\ rows.status = "tooMany" <=> \E n \in DOMAIN items :
                   /\ q.maxRows > 0 /\ n = q.maxRows + 1
                   /\ \A r \in 1..n - 1 : items[r] # BadPlan

-----------------------------------------------------------------------------
(* Named parameters.                                                         *)

(* NamedArgs of a struct: one argument for every field of the map.           *)
NamedArgs(fields, values) ==
    [f \in DOMAIN fields |-> [name |-> fields[f].name, value |-> values[fields[f].index]]]

(* Mutation: arguments are taken in their own order.                         *)
MapNamedParamsInOrder(args, params) ==
    IF Len(args) # Len(params) THEN BadPlan ELSE [i \in DOMAIN params |-> args[i].value]

(* mapNamedParams: a value for every parameter of the statement, by name.    *)
MapNamedParams(args, params) ==
    IF \/ \E i, j \in DOMAIN args : i # j /\ args[i].name = args[j].name
       \/ <<>> \in ToSet(params)
       \/ \E p \in ToSet(params) : \A a \in ToSet(args) : a.name # p
       \/ \E a \in ToSet(args) : a.name \notin ToSet(params)
    THEN BadPlan
    ELSE [i \in DOMAIN params |-> args[SelectInSeq(args, LAMBDA a : a.name = params[i])].value]

(* A struct that a result set was scanned into gives back, as named          *)
(* parameters, to every placeholder the value of the field that the column   *)
(* of that name fills, also if a placeholder occurs twice, and is refused if *)
(* a placeholder or a field is left over (NamedArgs, mapNamedParams).        *)
NamedAsScanned(decls, params) ==
    LET fields == StructMapOf(decls)
    IN  fields # BadPlan =>
        LET values == [ix \in { f.index : f \in ToSet(fields) } |-> ix]
            bound == MapNamedParams(NamedArgs(fields, values), params)
            names == { f.name : f \in ToSet(fields) }
        IN  IF names = ToSet(params)
            THEN bound # BadPlan /\ \A i \in DOMAIN params :
                    bound[i] = fields[Lookup(fields, params[i])].index
            ELSE bound = BadPlan
=============================================================================
