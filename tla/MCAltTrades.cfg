\* Three keys, so that a row between two others can be replaced; two values
\* of quote_decimals, so that a stale one shows.
CONSTANTS
    Keys = {k1, k2, k3}
    Values = {Null, 6, 9}
    Null = Null
    NoRow = NoRow
    MaxRows = 4
SYMMETRY KeySymmetry
SPECIFICATION Spec
INVARIANTS TypeOK OneLastRowPerKey LatestDecimalsWin
PROPERTY DecimalsNeverLost
