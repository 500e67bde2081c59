---------------------------- MODULE ArrayValues -----------------------------
(***************************************************************************)
(* ARRAY and DECIMAL values: how a program builds them, their text, their  *)
(* bytes on the wire and what is read back (api/array.go, api/decimal.go,  *)
(* machnet/array.go, machnet/decimal.go).                                  *)
(***************************************************************************)
EXTENDS IntegerValues, Sequences, SequencesExt, FiniteSets, Functions

(* 65 and 30 in the code.                                                    *)
CONSTANTS DecimalMaxPrecision, DecimalMaxScale

ASSUME DecimalAssumption == DecimalMaxPrecision \in Nat \ {0} /\ DecimalMaxScale \in Nat

-----------------------------------------------------------------------------
(* Array: entries holds the elements that are not NULL, by 0-based position. *)

NewSparseArray(type, cardinality) ==
    [type |-> type, cardinality |-> cardinality, entries |-> <<>>]

NoArray == NewSparseArray("error", 0)

Entries(a, positions, value(_)) == [a EXCEPT !.entries = [p \in positions |-> value(p)]]

(* normalizeArrayElement for integers: the NULL sentinel is accepted.        *)
NormalizeArrayElement(type, x) == IF InRange(x.v, type) THEN Value(type, x.v) ELSE Failure

(* Array.Set: nil removes the element; an error leaves the array as it was.  *)
SetElement(a, position, x) ==
    CASE position \notin 0..a.cardinality - 1 -> a
      [] position \in 0..a.cardinality - 1 /\ x = Null ->
           [a EXCEPT !.entries = Restrict(@, DOMAIN @ \ {position})]
      [] OTHER -> LET y == NormalizeArrayElement(a.type, x)
                  IN  IF y = Failure THEN a
                      ELSE Entries(a, DOMAIN a.entries \cup {position},
                                   LAMBDA p : IF p = position THEN y.v ELSE a.entries[p])

(* computeColumnLength, computeArrayColumnLength and the sizes of the two    *)
(* forms, in bytes.                                                          *)
ElementSize(type) == CASE type \in {"int16", "uint16"} -> 2
                       [] type \in {"int32", "uint32"} -> 4
                       [] OTHER -> 8
BitmapSize(a) == (a.cardinality + 7) \div 8
DenseSize(a) == 2 + BitmapSize(a) + a.cardinality * ElementSize(a.type)
SparseSize(a) == 8 + Cardinality(DOMAIN a.entries) * (2 + ElementSize(a.type))

(* encodeArrayElement refuses the NULL sentinel.                             *)
ElementEncodes(type, v) == InRange(v, type) /\ v # NullSentinel(type)

BadPayload == [form |-> "error", cardinality |-> 0, nulls |-> {}, fields |-> <<>>]

(* The positions that hold an element, in increasing order.                  *)
Positions(a) == SetToSortSeq(DOMAIN a.entries, <)

(* Mutation: sparse positions are sent from 0.                               *)
SparsePayloadFromZero(a) ==
    [form |-> "sparse", cardinality |-> a.cardinality, nulls |-> {},
     fields |-> [i \in DOMAIN Positions(a) |-> <<Positions(a)[i], a.entries[Positions(a)[i]]>>]]

(* encodeArrayPayload for a column of this type and cardinality: the shorter *)
(* form (both callers allow the sparse one).  Positions start at 1 on the    *)
(* wire; dense fields of NULL elements are left zero, with their bit set.    *)
SparsePayload(a) ==
    [form |-> "sparse", cardinality |-> a.cardinality, nulls |-> {},
     fields |-> [i \in DOMAIN Positions(a) |->
                    <<Positions(a)[i] + 1, a.entries[Positions(a)[i]]>>]]
DensePayload(a) ==
    [form |-> "dense", cardinality |-> a.cardinality,
     nulls |-> (0..a.cardinality - 1) \ DOMAIN a.entries,
     fields |-> [i \in 1..a.cardinality |->
                    <<i, IF i - 1 \in DOMAIN a.entries THEN a.entries[i - 1] ELSE 0>>]]
EncodeArrayPayload(a, type, cardinality) ==
    IF \/ a.cardinality # cardinality \/ a.type # type
       \/ \E p \in DOMAIN a.entries : ~ElementEncodes(a.type, a.entries[p])
    THEN BadPayload
    ELSE IF SparseSize(a) < DenseSize(a) THEN SparsePayload(a) ELSE DensePayload(a)

(* What the server stores and sends back, always dense (external).           *)
ServerPayload(payload) ==
    LET given == { f[1] : f \in ToSet(payload.fields) }
        field(i) == (CHOOSE f \in ToSet(payload.fields) : f[1] = i)[2]
    IN  IF payload.form = "dense" THEN payload
        ELSE [form |-> "dense", cardinality |-> payload.cardinality,
              nulls |-> { p \in 0..payload.cardinality - 1 : p + 1 \notin given },
              fields |-> [i \in 1..payload.cardinality |->
                            <<i, IF i \in given THEN field(i) ELSE 0>>]]

(* decodeArrayPayload and decodeArrayElement                                 *)
DecodeArrayPayload(type, cardinality, payload) ==
    LET present == (0..cardinality - 1) \ payload.nulls
    IN  IF \/ payload.cardinality # cardinality \/ Len(payload.fields) # cardinality
           \/ \E p \in payload.nulls : p >= cardinality
           \/ \E p \in present : payload.fields[p + 1][2] = NullSentinel(type)
        THEN NoArray
        ELSE Entries(NewSparseArray(type, cardinality), present,
                     LAMBDA p : payload.fields[p + 1][2])

-----------------------------------------------------------------------------
(* Literals.  A token is [position, value]: position -1 for a plain value.   *)

(* Array.String                                                              *)
ArrayTokens(a) ==
    [i \in 1..a.cardinality |->
        [position |-> -1,
         value |-> IF i - 1 \in DOMAIN a.entries THEN Value(a.type, a.entries[i - 1]) ELSE Null]]

(* ParseArray: all plain or all with a position; cardinality 0 is taken from *)
(* the largest position.  A null token sets nothing.                         *)
ParseArray(tokens, type, cardinality) ==
    LET sparse == \E t \in ToSet(tokens) : t.position >= 0
        dense == \E t \in ToSet(tokens) : t.position < 0
        place(i) == IF dense THEN i - 1 ELSE tokens[i].position
        places == { place(i) : i \in DOMAIN tokens }
        size == IF cardinality > 0 THEN cardinality
                ELSE 1 + Max(places)
        put(a, i) == IF tokens[i].value = Null THEN a ELSE SetElement(a, place(i), tokens[i].value)
    IN  IF \/ tokens = <<>>
           \/ dense /\ sparse
           \/ \E p \in places : p >= size
           \/ \E t \in ToSet(tokens) : t.value # Null /\ ~InRange(t.value.v, type)
        THEN NoArray
        ELSE FoldLeft(put, NewSparseArray(type, size), [i \in DOMAIN tokens |-> i])

(* parseArrayToken looks at 64 bits, not at the width of the element type.   *)
TokenType(type) == IF type \in SignedTypes THEN "int64" ELSE "uint64"

(* Array.Scan of text, with parseCanonicalArrayTokens: all plain.            *)
ScanText(tokens, type) ==
    LET given == { i \in DOMAIN tokens : tokens[i].value # Null }
    IN  IF \E i \in given : ~InRange(tokens[i].value.v, TokenType(type)) THEN NoArray
        ELSE Entries(NewSparseArray(type, Len(tokens)), { i - 1 : i \in given },
                     LAMBDA p : tokens[p + 1].value.v)

-----------------------------------------------------------------------------
(* Decimal: unscaled * 10^-scale.  A text is a sign and two sequences of     *)
(* digits, the second one empty without a point.                             *)

BadDecimal == [unscaled |-> 0, precision |-> 0, scale |-> 0]
Abs(v) == IF v < 0 THEN -v ELSE v
Zeros(n) == [i \in 1..n |-> 0]

(* NewDecimal and validateDecimalPrecisionScale                              *)
NewDecimal(unscaled, precision, scale) ==
    IF \/ precision \notin 1..DecimalMaxPrecision \/ scale > DecimalMaxScale \/ scale > precision
       \/ Abs(unscaled) >= 10^precision
    THEN BadDecimal
    ELSE [unscaled |-> unscaled, precision |-> precision, scale |-> scale]

Digits(v) ==
    LET of[n \in 0..v] == IF n < 10 THEN <<n>> ELSE Append(of[n \div 10], n % 10) IN of[v]
NumberOf(digits) == FoldLeft(LAMBDA n, d : 10 * n + d, 0, digits)

(* Decimal.String                                                            *)
DecimalText(d) ==
    LET plain == Digits(Abs(d.unscaled))
        digits == IF Len(plain) <= d.scale THEN Zeros(d.scale - Len(plain) + 1) \o plain ELSE plain
        cut == Len(digits) - d.scale
    IN  [negative |-> d.unscaled < 0, integer |-> SubSeq(digits, 1, cut),
         fraction |-> SubSeq(digits, cut + 1, Len(digits))]

(* Mutation: excess digits are cut off.                                      *)
ParseDecimalTruncates(text, precision, scale) ==
    LET padded == SubSeq(text.fraction \o Zeros(scale), 1, scale)
        n == NumberOf(text.integer \o padded)
    IN  NewDecimal(IF text.negative THEN -n ELSE n, precision, scale)

(* ParseDecimal: the first digit past the scale rounds, away from zero.      *)
ParseDecimal(text, precision, scale) ==
    LET padded == SubSeq(text.fraction \o Zeros(scale), 1, scale)
        roundUp == Len(text.fraction) > scale /\ text.fraction[scale + 1] >= 5
        n == NumberOf(text.integer \o padded) + (IF roundUp THEN 1 ELSE 0)
    IN  NewDecimal(IF text.negative THEN -n ELSE n, precision, scale)

(* decimalSizes for the precisions that are tried.                           *)
DecimalSize(precision) == <<1, 2, 2, 2, 3, 3>>[precision]

(* encodeDecimal: the column's precision and scale count, not the value's.   *)
BadBits == 0 - 1
EncodeDecimal(d, precision, scale) ==
    LET bits == 8 * DecimalSize(precision)
        parsed == ParseDecimal(DecimalText(d), precision, scale)
        encoded == 2^(bits - 1) + 2^(bits - 2) + parsed.unscaled
    IN  IF parsed = BadDecimal \/ encoded >= 2^bits THEN BadBits ELSE encoded

(* decodeDecimal: without the valid bit only zero, for NULL, is right.       *)
DecodeDecimal(encoded, precision, scale) ==
    LET bits == 8 * DecimalSize(precision)
    IN  IF encoded < 2^(bits - 1) THEN BadDecimal
        ELSE NewDecimal(encoded - 2^(bits - 1) - 2^(bits - 2), precision, scale)

(* A decimal comes back from a column as the nearest number of the column's  *)
(* scale, ties away from zero, unless that has too many digits; every number *)
(* of the column's type has an encoding of its own, never the one for NULL   *)
(* (ParseDecimal, String, encodeDecimal, decodeDecimal).                     *)
DecimalKept(d, precision, scale) ==
    LET encoded == EncodeDecimal(d, precision, scale)
        back == DecodeDecimal(encoded, precision, scale)
        up == 10^(IF scale > d.scale THEN scale - d.scale ELSE 0)     \* finer than the value
        down == 10^(IF scale < d.scale THEN d.scale - scale ELSE 0)   \* coarser
        nearest(n) == LET off == Abs(n * down - d.unscaled * up)
                      IN  2 * off < down \/ (2 * off = down /\ Abs(n * down) > Abs(d.unscaled * up))
    IN  IF encoded = BadBits
        THEN 2 * Abs(d.unscaled * up) >= (2 * 10^precision - 1) * down
        ELSE /\ encoded # 0 /\ back # BadDecimal
             /\ nearest(back.unscaled)
             /\ ParseDecimal(DecimalText(back), precision, scale) = back
             /\ EncodeDecimal(back, precision, scale) = encoded

-----------------------------------------------------------------------------
(* Array.Scan of texts into an array without a type, for texts without an    *)
(* exponent or a plus sign.  A text without digits stands for null.          *)

NullText == [negative |-> FALSE, integer |-> <<>>, fraction |-> <<>>]
TextOf(v) == [negative |-> v < 0, integer |-> Digits(Abs(v)), fraction |-> <<>>]
ArrayTexts(a) ==
    [i \in 1..a.cardinality |-> IF i - 1 \in DOMAIN a.entries THEN TextOf(a.entries[i - 1]) ELSE NullText]

Signed(text, n) == IF text.negative THEN -n ELSE n
Whole(text) == text.fraction = <<>>
IntegerDigits(text) ==
    LET first == SelectInSeq(text.integer, LAMBDA d : d # 0)
    IN  IF first = 0 THEN 1 ELSE Len(text.integer) - first + 1

ElementType(type, precision, scale) == [type |-> type, precision |-> precision, scale |-> scale]
NoType == ElementType("error", 0, 0)

(* inferArrayElementType: room for the longest integer part and the longest  *)
(* fraction if any text has a fraction, 64 bits if none has.                 *)
InferArrayElementType(texts) ==
    LET given == ToSet(texts) \ {NullText}
        whole == { t \in given : Whole(t) }
        scale == Max({0} \cup { Len(t.fraction) : t \in given })
        precision == Max({1} \cup { IntegerDigits(t) : t \in given }) + scale
        unsigned == \E t \in whole : ~t.negative /\ NumberOf(t.integer) > MaxOf("int64")
        negative == \E t \in given : t.negative
    IN  IF \E t \in whole : NumberOf(t.integer) > MaxOf("uint64") THEN NoType
        ELSE IF whole # given
             THEN IF precision > DecimalMaxPrecision \/ scale > DecimalMaxScale THEN NoType
                  ELSE ElementType("decimal", precision, scale)
        ELSE CASE unsigned /\ negative -> NoType
               [] unsigned /\ ~negative -> ElementType("uint64", 0, 0)
               [] OTHER -> ElementType("int64", 0, 0)

(* parseArrayToken for the types that are inferred; an integer is a decimal  *)
(* of scale 0 here.                                                          *)
ParseArrayToken(text, type) ==
    LET n == Signed(text, NumberOf(text.integer))
    IN  CASE type.type = "decimal" -> ParseDecimal(text, type.precision, type.scale)
          [] type.type # "decimal" /\ Whole(text) /\ InRange(n, type.type) ->
               [unscaled |-> n, precision |-> Bits64, scale |-> 0]
          [] OTHER -> BadDecimal

(* Array.Scan: one text that is refused refuses the array.                   *)
Given(texts) == { i \in DOMAIN texts : texts[i] # NullText }
ScanRefuses(texts) ==
    LET type == InferArrayElementType(texts)
    IN  type = NoType \/ \E i \in Given(texts) : ParseArrayToken(texts[i], type) = BadDecimal

(* What an array scanned from texts without a type holds is what the texts   *)
(* say, without rounding; it is refused only if a whole number has more than *)
(* 64 bits, if one with a minus is beside one past INT64, or if a fraction   *)
(* leaves no room for the integers (inferArrayElementType, parseArrayToken,  *)
(* ParseDecimal).  The comment of Array.Scan knows only INT64 and DOUBLE.    *)
ScannedExactly(texts) ==
    LET type == InferArrayElementType(texts)
        number(i) == Signed(texts[i], NumberOf(texts[i].integer \o texts[i].fraction))
        whole == { number(i) : i \in { j \in Given(texts) : Whole(texts[j]) } }
        longest == Max({0} \cup { Len(texts[i].fraction) : i \in Given(texts) })
        widest == Max({0} \cup { IntegerDigits(texts[i]) : i \in Given(texts) })
    IN  IF ScanRefuses(texts)
        THEN \/ \E n \in whole : n \notin MinOf("int64")..MaxOf("uint64")
             \/ /\ longest = 0 /\ \E i \in Given(texts) : texts[i].negative
                /\ \E n \in whole : n > MaxOf("int64")
             \/ longest > 0 /\ (longest > DecimalMaxScale \/ widest + longest > DecimalMaxPrecision)
        ELSE \A i \in Given(texts) :
                 LET d == ParseArrayToken(texts[i], type)
                 IN  d.unscaled * 10^Len(texts[i].fraction) = number(i) * 10^d.scale

-----------------------------------------------------------------------------
(* The array a sequence of Set calls [position, value] makes, by definition: *)
(* a position holds what the last accepted call for it gave.                 *)
LastSet(type, cardinality, calls) ==
    LET accepted(i, p) == /\ calls[i].position = p
                          /\ calls[i].value = Null \/ InRange(calls[i].value.v, type)
        last(p) == LET is == { i \in DOMAIN calls : accepted(i, p) }
                   IN  IF is = {} THEN Null
                       ELSE calls[Max(is)].value
    IN  Entries(NewSparseArray(type, cardinality),
                { p \in 0..cardinality - 1 : last(p) # Null }, LAMBDA p : last(p).v)

(* An array holds what Set was last given for each position; it is sent in   *)
(* the shorter form, and read back with the same elements and the same NULL  *)
(* positions, or refused if an element is the NULL sentinel, exactly when    *)
(* the same value is refused as a single element; from any column it comes   *)
(* back as it was, or not at all; its text is read as the same array by      *)
(* ParseArray and by Scan, and the type Scan infers holds all its elements   *)
(* (Array.Set, encodeArrayPayload, decodeArrayPayload, ParseArray,           *)
(* Array.Scan).                                                              *)
ArrayKept(type, cardinality, calls) ==
    LET a == FoldLeft(LAMBDA acc, c : SetElement(acc, c.position, c.value),
                      NewSparseArray(type, cardinality), calls)
        refused == EncodeArrayPayload(a, type, cardinality) = BadPayload
        single(p) == EncodeAppendColumnValue(type, Value(type, a.entries[p]), TRUE)
        inferred == InferArrayElementType(ArrayTexts(a)).type
    IN  /\ a = LastSet(type, cardinality, calls)
        /\ refused <=> \E p \in DOMAIN a.entries : single(p) = Failure
        /\ \A t \in ColumnTypes, n \in cardinality..cardinality + 1 :
              LET payload == EncodeArrayPayload(a, t, n)
              IN  payload # BadPayload => DecodeArrayPayload(t, n, ServerPayload(payload)) = a
        /\ ParseArray(ArrayTokens(a), type, 0) = a
        /\ ScanText(ArrayTokens(a), type) = a
        /\ inferred # "error" /\ ScanText(ArrayTokens(a), inferred) = [a EXCEPT !.type = inferred]

(* The place a token of a literal refers to, and whether it is the last one  *)
(* to do so.                                                                 *)
PlaceOfToken(tokens, i) == IF tokens[i].position < 0 THEN i - 1 ELSE tokens[i].position
LastFor(tokens, i) ==
    \A j \in DOMAIN tokens : PlaceOfToken(tokens, j) = PlaceOfToken(tokens, i) => j <= i

(* A literal holds at each place the value of its last token for it, nothing *)
(* where it has null tokens only or none, and no literal mixes the two       *)
(* spellings (ParseArray).  Where a null comes after a value, the comment of *)
(* ParseArray says NULL and the code keeps the value; this says neither.     *)
LiteralKept(type, cardinality, tokens) ==
    LET a == ParseArray(tokens, type, cardinality)
        plain == { i \in DOMAIN tokens : tokens[i].position < 0 }
        valued == { i \in DOMAIN tokens : tokens[i].value # Null }
    IN  a # NoArray =>
          /\ plain \in { {}, DOMAIN tokens }
          /\ DOMAIN a.entries \subseteq { PlaceOfToken(tokens, i) : i \in valued }
          /\ \A i \in valued : LastFor(tokens, i) => a.entries[PlaceOfToken(tokens, i)] = tokens[i].value.v
=============================================================================
