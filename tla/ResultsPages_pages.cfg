\* Two queries of up to three rows, plain or pivoted, two changes of the one on the screen
\* or cancellations, and one failed request.
CONSTANTS
    a = a
    b = b
    g1 = g1
    g2 = g2
    s1 = s1
    s2 = s2
    Queries = {a, b}
    Groups = {g1, g2}
    Names = {s1, s2}
    suffixOf <- TwoNames
    KindsOf <- ShownOrPivoted
    NoGroup = NoGroup
    MaxRows = 3
    PageSize = 2
    MaxChanges = 2
    MaxFaults = 1
    NoQuery = NoQuery
SPECIFICATION FairSpec
CHECK_DEADLOCK FALSE
INVARIANTS
    TypeOK
    FileIsRight
    RowsAreAPrefix
    AllRowsAreThere
    OnlyPagesThatExist
    ScreenIsNotStuck
PROPERTIES
    RowsCome
