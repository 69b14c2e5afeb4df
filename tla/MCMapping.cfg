\* A creating commit and two more, of every kind, from the service and others.
CONSTANTS
    Requests <- Lists
    ForeignFiles <- Foreign
    Numeral <- Numerals
    Types <- ColumnTypes
    Texts <- ColumnTexts
    Scalar <- Scalars
    MaxCommits = 3
SPECIFICATION Spec
INVARIANTS
    IInv
    AllOrNothing
    FilesReadBack
    MetadataReadBack
    OperationAsDeclared
PROPERTIES
    CopyIsStable
