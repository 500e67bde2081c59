----------------------------- MODULE Conversions ----------------------------
(***************************************************************************)
(* The pure algorithms of the client on every input of small sets: one     *)
(* step chooses an input for one of them, and the invariants compare what  *)
(* the algorithm computes with what it should.                             *)
(***************************************************************************)
EXTENDS Framing, AppendColumns, Dsn, StructScan, ArrayValues

VARIABLE input

vars == <<input>>

Init == input = [kind |-> "none"]

Fresh == input.kind = "none"

-----------------------------------------------------------------------------
(* Framing: a first message of up to MaxUnits units, which is cut at every   *)
(* place, and a second one behind it.                                        *)

CONSTANT MaxUnits

FixedUnits == { UnitOf("count", "fixed", 0) }
VariableUnits == { UnitOf("rows", "variable", n) : n \in {0, 1, 8, 9, 8 * MaxBody} }

Send ==
    /\ Fresh
    /\ \E first \in SeqOf(FixedUnits \cup VariableUnits, MaxUnits),
          second \in SeqOf(FixedUnits \cup VariableUnits, 1), protocol \in {"p1", "p2"} :
           input' = [kind |-> "messages", protocols |-> <<"p1", protocol>>,
                     messages |-> <<first, second>>]

(* Messages are read whole and in order, however they were cut.              *)
MessagesReadWhole ==
    input.kind = "messages" => MessagesWhole(input.protocols, input.messages)

-----------------------------------------------------------------------------
(* Integers: every value of every type.                                      *)

Integer == UNION { { Value(t, v) : v \in MinOf(t)..MaxOf(t) } : t \in GoTypes }

Bind == Fresh /\ \E x \in Integer : input' = [kind |-> "bind", x |-> x]

AppendAndRead ==
    /\ Fresh
    /\ \E x \in Integer, column \in ColumnTypes, element \in BOOLEAN,
          form \in {"plain", "wrapper", "pointer"} :
           input' = [kind |-> "readback", x |-> x, column |-> column, element |-> element,
                     form |-> form]

(* An integer argument reaches the server as itself or is refused.           *)
IntegersBoundExactly == input.kind = "bind" => BoundExactly(input.x)

(* An appended integer is read back as itself, or not at all.                *)
IntegersReadBackExactly ==
    input.kind = "readback" =>
        ReadBackExactly(input.column, input.x, input.element, input.form)

-----------------------------------------------------------------------------
(* Appending: input columns in every order at Connect and later, two rows.   *)

TableColumns(table) ==
    (IF table = "log" THEN <<ArrivalTime>> ELSE <<>>)
        \o << <<"A", 0>>, <<"B", 0>>, <<"ARRAY", 0>> >>

NamesOf(table) ==
    { <<"A", 0>>, <<"B", 0>>, <<"ARRAY", 0>>, <<"ARRAY", 2>> }
        \cup (IF table = "log" THEN { <<"ARRIVAL_TIME", 0>> } ELSE {})

Inputs(table, n) == { s \in SeqOf(NamesOf(table), n) : Distinct(s) }

FirstValues == { << >>, <<"v1", "v2">>, <<"v1", "v2", "v3">>, <<"v1", "v2", "v3", "v4">> }
SecondValues == [1..2 -> {"w", Nil}] \cup { <<"w1", Nil, "w3">>, <<Nil, "w2", "w3", "w4">> }

AppendRows ==
    /\ Fresh
    /\ \E table \in {"tag", "log"} :
           \E at \in Inputs(table, 3), late \in Inputs(table, 2), v \in FirstValues, w \in SecondValues,
              time \in {NoTime, "t"} :
               input' = [kind |-> "append", table |-> table, columns |-> TableColumns(table),
                         input |-> at, late |-> late,
                         rows |-> << [values |-> v, time |-> NoTime], [values |-> w, time |-> time] >>]

(* Every value reaches the column its caller named.                          *)
AppendedAsNamed == input.kind = "append" => RowsAsNamed(input)

-----------------------------------------------------------------------------
(* Data source names.                                                        *)

Quote ==
    /\ Fresh
    /\ \E value \in SeqOf({"a", Semicolon, Backslash} \cup Quotes, 4), quote \in Quotes :
           input' = [kind |-> "quoted", value |-> value, quote |-> quote]

(* The values that are tried of every key, by number; the parts of a server  *)
(* value; and data source names of both styles.                              *)
Users ==
    << [login |-> "sys", proxy |-> ""], [login |-> "sys", proxy |-> "carol"],
       [login |-> "amy", proxy |-> "carol"] >>
Settings ==
    [host |-> <<"h">>, port |-> <<1>>, password |-> <<"secret">>, database |-> <<"db">>,
     mode |-> <<"CHALLENGE", "unknown">>, keyFile |-> <<"key.pem", "unreadable">>,
     user |-> Users, as |-> <<"bob">>, invalid |-> <<"x">>, unknown |-> <<"x">>]
Parts ==
    << [host |-> "s"], [host |-> "s", port |-> 2], [host |-> "s", user |-> "sys", password |-> "pw"],
       [host |-> "s", port |-> 2, user |-> "ann", password |-> "", database |-> "other"] >>

PlainLabels == UNION { {key} \X DOMAIN Settings[key] : key \in DOMAIN Settings }
ServerLabels == {"server"} \X DOMAIN Parts
Labels == PlainLabels \cup ServerLabels

(* The option of a label, where a server value has this query.               *)
OptionOf(label, query) ==
    [key |-> label[1],
     value |-> IF label[1] = "server" THEN [parts |-> Parts[label[2]], query |-> query]
               ELSE Settings[label[1]][label[2]]]
OptionsOf(labels, query) == [i \in DOMAIN labels |-> OptionOf(labels[i], query)]

Parse ==
    /\ Fresh
    /\ \E labels \in SeqOf(Labels, 3) :
           \/ \E parts \in DOMAIN Parts :
                  input' = [kind |-> "dsn",
                            dsn |-> [style |-> "server",
                                     server |-> [parts |-> Parts[parts], query |-> OptionsOf(labels, <<>>)]]]
           \/ \E query \in SeqOf(Labels, 1) :
                  input' = [kind |-> "dsn",
                            dsn |-> [style |-> "options",
                                     options |-> OptionsOf(labels, OptionsOf(query, <<>>))]]

(* A quoted value comes out of a data source name as it was put in.          *)
QuotedValuesSurvive == input.kind = "quoted" => QuotedSurvives(input.value, input.quote)

(* The options mean the same in every order.                                 *)
OptionOrderIrrelevant == input.kind = "dsn" => MeansTheSame(input.dsn)

-----------------------------------------------------------------------------
(* Structs.                                                                  *)

Field(tag, kind, nullable, options) ==
    [tag |-> tag, anonymous |-> FALSE, nested |-> <<>>, kind |-> kind, nullable |-> nullable,
     options |-> options]
Struct(tag, fields) ==
    [tag |-> tag, anonymous |-> tag = "", nested |-> fields, kind |-> "plain", nullable |-> FALSE,
     options |-> FALSE]

Declarations ==
    { Field("a", "plain", FALSE, FALSE), Field("a", "time", FALSE, TRUE), Field("b", "plain", TRUE, FALSE),
      Field("b", "nulltime", FALSE, FALSE), Field("b", "plain", FALSE, TRUE), Field("", "time", FALSE, FALSE),
      Struct("p", <<Field("a", "plain", FALSE, FALSE), Field("-", "time", FALSE, FALSE)>>),
      Struct("", <<Field("a", "time", TRUE, FALSE), Field("c", "plain", FALSE, FALSE)>>) }

Column(name, type, reported) == [name |-> name, type |-> type, reported |-> reported]

Columns ==
    { Column(<<"a">>, "int", "int"), Column(<<"a">>, "datetime", "datetime"),
      Column(<<"a">>, "datetime", "unknown"), Column(<<"b">>, "int", "unknown"),
      Column(<<"b">>, "datetime", "datetime"), Column(<<"p", "a">>, "int", "int") }

(* Rows of two columns; a row holds <<row, column>> or NULL.                 *)
RowSets(width) ==
    LET full(r) == [c \in 1..width |-> <<r, c>>]
        null(r) == [full(r) EXCEPT ![width] = NilValue]
    IN  { << >>, <<full(1)>>, <<full(1), null(2)>>, <<full(1), full(2), full(3)>> }

Limits == { <<0, FALSE>>, <<0, TRUE>>, <<1, FALSE>>, <<2, FALSE>> }

ScanStructs ==
    /\ Fresh
    /\ \E decls \in SeqOf(Declarations, 2), columns \in SeqOf(Columns, 2) \ {<<>>} :
           \E laxColumns, laxFields \in BOOLEAN, rows \in RowSets(Len(columns)), limit \in Limits :
               input' = [kind |-> "scan", decls |-> decls, columns |-> columns,
                         laxColumns |-> laxColumns, laxFields |-> laxFields,
                         maxRows |-> limit[1], rows |-> rows, broken |-> limit[2]]

NameParams ==
    /\ Fresh
    /\ \E decls \in SeqOf(Declarations, 2),
          params \in SeqOf({ <<"a">>, <<"b">>, <<"c">>, <<"p", "a">>, <<>> }, 3) :
           input' = [kind |-> "named", decls |-> decls, params |-> params]

(* Every field holds the value of its own column and row, all rows or none.  *)
StructsScannedByName == input.kind = "scan" => RowsScanned(input)

(* A struct gives back as parameters what was scanned into it.               *)
StructsNamedAsScanned == input.kind = "named" => NamedAsScanned(input.decls, input.params)

-----------------------------------------------------------------------------
(* Arrays and decimals.                                                      *)

Elements(type) ==
    { Null } \cup { Value("int", v) : v \in { MinOf(type) - 1, MinOf(type), 0, MaxOf(type) } }

Calls(type, cardinality) ==
    [position : 0..cardinality, value : Elements(type)]

BuildArray ==
    /\ Fresh
    /\ \E type \in ColumnTypes, cardinality \in 1..3 :
           \E calls \in SeqOf(Calls(type, cardinality), IF cardinality = 3 THEN 2 ELSE 3) :
               input' = [kind |-> "array", type |-> type, cardinality |-> cardinality, calls |-> calls]

WriteLiteral ==
    /\ Fresh
    /\ \E type \in {"int16", "uint64"}, cardinality \in {0, 2} :
           \E tokens \in SeqOf([position : -1..2, value : Elements(type)], 2) :
               input' = [kind |-> "literal", type |-> type, cardinality |-> cardinality, tokens |-> tokens]

SendDecimal ==
    /\ Fresh
    /\ \E unscaled \in (-120..120) \cup {-999, -995, -994, 994, 995, 999, 445, 450},
          scale \in 0..3, precision \in 1..6, to \in 0..4 :
           to <= precision /\
           input' = [kind |-> "decimal", value |-> NewDecimal(unscaled, 3, scale),
                     precision |-> precision, scale |-> to]

NumberTexts ==
    {NullText} \cup
    [negative : BOOLEAN,
     integer : { <<0>>, <<7>>, <<8>>, <<9>>, <<1, 5>>, <<1, 6>>, <<0, 0, 9>>, <<9, 9, 9>>, <<1, 2, 3, 4>> },
     fraction : { <<>>, <<0>>, <<5>>, <<0, 5>>, <<9, 9, 5>>, <<0, 0, 0, 0, 1>> }]

ScanTexts ==
    /\ Fresh
    /\ \E texts \in SeqOf(NumberTexts, 2) : input' = [kind |-> "texts", texts |-> texts]

(* Arrays keep their elements and their NULLs through bytes and text.        *)
ArraysKept ==
    /\ input.kind = "array" => ArrayKept(input.type, input.cardinality, input.calls)
    /\ input.kind = "literal" => LiteralKept(input.type, input.cardinality, input.tokens)

(* Decimals come back as the nearest number of the column, and texts without *)
(* a type as the numbers they spell.                                         *)
DecimalsKept ==
    /\ input.kind = "decimal" => DecimalKept(input.value, input.precision, input.scale)
    /\ input.kind = "texts" => ScannedExactly(input.texts)

-----------------------------------------------------------------------------
Next == \/ Send \/ Bind \/ AppendAndRead \/ AppendRows \/ Quote \/ Parse
        \/ ScanStructs \/ NameParams \/ BuildArray \/ WriteLiteral \/ SendDecimal \/ ScanTexts

Spec == Init /\ [][Next]_vars
=============================================================================
