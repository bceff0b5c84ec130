\* Every table of one column of up to six rows and of two columns of up to two,
\* with a distant number for outliers; the samples are shorter than a column.
SPECIFICATION Spec
CONSTANTS
    Cells <- SmallCells
    MaxRows = 6
    MaxPairs = 2
    Sample = 4
    TypeSample = 3
    Services = {"pandas", "lightweight", "none"}
INVARIANTS ProfileAddsUp NumericMeansNumeric
CHECK_DEADLOCK FALSE
