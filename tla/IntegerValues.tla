--------------------------- MODULE IntegerValues ----------------------------
(***************************************************************************)
(* The way of an integer through the client: as a bind parameter, and as   *)
(* an appended column value that is read back (util.go, driver.go          *)
(* bindParams and Rows; machnet/bind.go, append_encode.go, decode.go;      *)
(* scan.go).                                                               *)
(*                                                                         *)
(* The widths are parameters so that every value of every type can be      *)
(* tried.  Go's int and uint are as wide as int64 and uint64.              *)
(***************************************************************************)
EXTENDS Integers

CONSTANTS Bits8, Bits16, Bits32, Bits64    \* 8, 16, 32, 64, scaled down

ASSUME WidthAssumption ==
    /\ Bits8 \in Nat /\ Bits16 \in Nat /\ Bits32 \in Nat /\ Bits64 \in Nat
    /\ 1 <= Bits8 /\ Bits8 < Bits16 /\ Bits16 < Bits32 /\ Bits32 < Bits64

(* True of any such widths, and all that is needed of 2^w.                   *)
ASSUME PowersOfTwo ==
    /\ \A w \in {Bits8, Bits16, Bits32, Bits64} : 2^(w - 1) \in Nat \ {0} /\ 2^w = 2 * 2^(w - 1)
    /\ 2^Bits8 <= 2^(Bits16 - 1) /\ 2^Bits16 <= 2^(Bits32 - 1) /\ 2^Bits32 <= 2^(Bits64 - 1)

SignedTypes == {"int16", "int32", "int64", "int"}
UnsignedTypes == {"uint16", "uint32", "uint64", "uint", "uint8"}
GoTypes == SignedTypes \cup UnsignedTypes
ColumnTypes == {"int16", "uint16", "int32", "uint32", "int64", "uint64"}

Bits(t) == CASE t = "uint8" -> Bits8
             [] t \in {"int16", "uint16"} -> Bits16
             [] t \in {"int32", "uint32"} -> Bits32
             [] OTHER -> Bits64

MinOf(t) == IF t \in SignedTypes THEN -(2^(Bits(t) - 1)) ELSE 0
MaxOf(t) == IF t \in SignedTypes THEN 2^(Bits(t) - 1) - 1 ELSE 2^Bits(t) - 1
InRange(v, t) == MinOf(t) <= v /\ v <= MaxOf(t)

(* A Go conversion to t keeps the low bits.                                  *)
Convert(v, t) ==
    LET low == v % 2^Bits(t)
    IN  IF low > MaxOf(t) THEN low - 2^Bits(t) ELSE low

(* shortNull, ushortNull, intNull, uintNull, longNull, ulongNull             *)
NullSentinel(t) == IF t \in SignedTypes THEN MinOf(t) ELSE MaxOf(t)

(* A Go value and the two other outcomes of a conversion.                    *)
Value(t, v) == [type |-> t, v |-> v]
Null == [type |-> "nil", v |-> 0]
Failure == [type |-> "error", v |-> 0]

-----------------------------------------------------------------------------
(* Bind parameters.                                                          *)

(* Mutation: an int is left to the 32-bit binding, whatever it holds.        *)
NormalizeNamedValueInt32(x) ==
    IF x.type \in SignedTypes THEN x
    ELSE IF x.v > MaxOf("int64") THEN Failure ELSE Value("int64", x.v)

(* normalizeNamedValue                                                       *)
NormalizeNamedValue(x) ==
    CASE x.type = "int" -> IF InRange(x.v, "int32") THEN x ELSE Value("int64", x.v)
      [] x.type \in {"int16", "int32", "int64"} -> x
      [] OTHER -> IF x.v > MaxOf("int64") THEN Failure ELSE Value("int64", x.v)

(* bindParams: the SQL type a Go integer is bound as.                        *)
BindType(t) == IF t = "int" THEN "int32" ELSE t

(* encodeBoundParam, with toInt64 and toUint64: signed values are cut to the *)
(* width, unsigned ones are checked.                                         *)
EncodeBoundParam(sqlType, x) ==
    CASE sqlType \in SignedTypes /\ x.v <= MaxOf("int64") -> Value(sqlType, Convert(x.v, sqlType))
      [] sqlType \in UnsignedTypes /\ x.v >= 0 /\ x.v <= MaxOf(sqlType) -> Value(sqlType, x.v)
      [] OTHER -> Failure

(* CheckNamedValue, bindParams and encodeBoundParam: what the server is sent *)
(* for an argument of a database/sql call.  NULL is sent as the sentinel.    *)
BoundParam(x) ==
    LET y == NormalizeNamedValue(x)
    IN  IF y = Failure THEN Failure ELSE EncodeBoundParam(BindType(y.type), y)

-----------------------------------------------------------------------------
(* Appended values.                                                          *)

(* toInt64 and toUint64 accept any of these types but uint8.                 *)
ToColumnInteger(column, x) ==
    CASE x.type = "uint8" -> Failure
      [] column \in SignedTypes /\ x.type # "uint8" /\ x.v > MaxOf("int64") -> Failure
      [] column \in UnsignedTypes /\ x.type # "uint8" /\ x.v < 0 -> Failure
      [] OTHER -> x

(* Mutation: only the narrow columns are checked against their width.        *)
EncodeAppendColumnValueShort(column, x, element) ==
    LET y == ToColumnInteger(column, x)
    IN  IF y = Failure \/ (Bits(column) = Bits16 /\ ~InRange(y.v, column)) THEN Failure
        ELSE Value(column, Convert(y.v, column))

(* encodeAppendColumnValue: out of range is an error, and so is the NULL     *)
(* sentinel for an element of an ARRAY and, always, for UINT64.              *)
EncodeAppendColumnValue(column, x, element) ==
    LET y == ToColumnInteger(column, x)
    IN  IF \/ y = Failure
           \/ ~InRange(y.v, column)
           \/ (element \/ column = "uint64") /\ y.v = NullSentinel(column)
        THEN Failure
        ELSE Value(column, y.v)

-----------------------------------------------------------------------------
(* Reading.                                                                  *)

(* decodeFixedField: unsigned columns come as the next larger signed type,   *)
(* UINT64 as the int64 with the same bits.                                   *)
DecodeFixedField(column, wire) ==
    IF wire = NullSentinel(column) THEN Null
    ELSE CASE column = "uint16" -> Value("int32", wire)
           [] column = "uint32" -> Value("int64", wire)
           [] column = "uint64" -> Value("int64", Convert(wire, "int64"))
           [] OTHER -> Value(column, wire)

(* ColumnTypeScanType                                                        *)
ColumnTypeScanType(column) == column

(* Rows.Next with toDriverValue, then the conversion database/sql makes to   *)
(* the destination: a number that does not fit is an error (external).       *)
ReadThroughSql(column, decoded) ==
    CASE decoded = Null -> Null
      [] decoded # Null /\ InRange(decoded.v, ColumnTypeScanType(column))
           -> Value(ColumnTypeScanType(column), decoded.v)
      [] OTHER -> Failure

(* ScanNull: into *sql.Null[T] or **T, not into *T.                          *)
ScanNull(form) == IF form = "plain" THEN Failure ELSE Null

(* The destination wrappers scanInt16, scanInt32 and scanInt64 know.         *)
NullWrappers(source) ==
    CASE source = "int16" -> {"int", "int16", "int32", "int64", "uint16", "uint32", "uint64"}
      [] source = "int32" -> {"int", "int32", "int64", "uint32", "uint64"}
      [] OTHER -> {"int", "int64", "uint64"}

(* scanInt16, scanInt32, scanInt64 and scanIndirect: into *T, *sql.Null[T]   *)
(* or **T.  The smallest number of the source type is taken for NULL.        *)
ScanInteger(decoded, type, form) ==
    IF \/ decoded.v = MinOf(decoded.type)
       \/ form = "wrapper" /\ type \notin NullWrappers(decoded.type)
    THEN Failure
    ELSE Value(type, Convert(decoded.v, type))

(* Rows.Scan and Row.Scan with Scan.                                         *)
ScanInto(decoded, type, form) ==
    IF decoded = Null THEN ScanNull(form) ELSE ScanInteger(decoded, type, form)

-----------------------------------------------------------------------------
(* An integer argument of a database/sql call reaches the server as itself,  *)
(* or is refused; the one value of its type that means NULL on the wire is   *)
(* also sent as itself (normalizeNamedValue, bindParams, encodeBoundParam).  *)
BoundExactly(x) ==
    LET sent == BoundParam(x)
    IN  IF x.v > MaxOf("int64") THEN sent = Failure ELSE sent # Failure /\ sent.v = x.v

(* An appended integer is refused if the column cannot hold it; otherwise it *)
(* is read back as the same number, or as NULL if it was the sentinel, and   *)
(* an ARRAY element is never the sentinel.  It can be unreadable, but never  *)
(* another number: UINT64 values of 2^63 and more, and wrappers that have no *)
(* case (encodeAppendColumnValue, decodeFixedField, Scan, toDriverValue).    *)
ReadBackExactly(column, x, element, form) ==
    LET encoded == EncodeAppendColumnValue(column, x, element)
        decoded == DecodeFixedField(column, encoded.v)
        expected == IF x.v = NullSentinel(column) THEN Null ELSE Value(column, x.v)
        sqlRead == ReadThroughSql(column, decoded)
        native == ScanInto(decoded, ColumnTypeScanType(column), form)
    IN  IF encoded = Failure
        THEN \/ ~InRange(x.v, column) \/ x.type = "uint8"
             \/ (element \/ column = "uint64") /\ x.v = NullSentinel(column)
        ELSE /\ element => expected # Null
             /\ sqlRead = expected \/ (sqlRead = Failure /\ column = "uint64" /\ x.v > MaxOf("int64"))
             /\ \/ native = expected
                \/ native = Failure /\ \/ expected = Null /\ form = "plain"
                                       \/ column = "uint64" /\ x.v = MaxOf("int64") + 1
                                       \/ form = "wrapper" /\ column \in {"uint16", "uint32"}
=============================================================================
