SPECIFICATION Spec
CONSTANTS
    MaxBody = 6
    MaxUnits = 4
    Bits8 = 1
    Bits16 = 2
    Bits32 = 3
    Bits64 = 4
    ByteBits = 2
    DecimalMaxPrecision = 6
    DecimalMaxScale = 4
INVARIANT MessagesReadWhole
INVARIANT IntegersBoundExactly
INVARIANT IntegersReadBackExactly
INVARIANT AppendedAsNamed
INVARIANT QuotedValuesSurvive
INVARIANT OptionOrderIrrelevant
INVARIANT StructsScannedByName
INVARIANT StructsNamedAsScanned
INVARIANT ArraysKept
INVARIANT DecimalsKept
CHECK_DEADLOCK FALSE
