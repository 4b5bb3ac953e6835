SPECIFICATION Spec
CONSTANTS
    Returns = {r1}
    Tasks = {k1, k2, k3}
    Users = {u1, u2}
    Workers = {w1}
    Figures = {f1, f2}
    Notes = {none, n1}
    NoNotes = none
    NoUser = nobody
    NoKey = nokey
    NoFigures = nofigures
SYMMETRY Symmetry
INVARIANTS ReviewQuotesFigures ApprovalIsBacked DecidedOnce ExportFileMatches
PROPERTIES ApprovedFiguresFrozen

