SPECIFICATION Spec
CONSTANTS
    Requests = {1, 2, 3, 4}
    Sources = {gstr2a, gstr2b}
    Invoices = {1, 2}
    Keys = {k}
    NoKey = blank
    NoBook = 0
    NoRecord <- MCNoRecord
    NoSource = none
    TaxableTolerance = 1
    TaxTolerance = 1
    BookEntry <- MCBookEntry
    Files <- MCFile
SYMMETRY Symmetry
INVARIANTS NothingDropped RiskCoversExcess SomeoneGoesOn OneKindNeverDeadlocks
PROPERTIES ActsInTurn
CHECK_DEADLOCK FALSE
