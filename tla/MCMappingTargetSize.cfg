\* The numeric parameter of an OPTIMIZE.
CONSTANTS
    Requests <- Lists
    ForeignFiles <- Foreign
    Numeral <- Numerals
    Types <- ColumnTypes
    Texts <- ColumnTexts
    Scalar <- Scalars
    MaxCommits = 3
SPECIFICATION Spec
INVARIANT TargetSizeAsDeclared
