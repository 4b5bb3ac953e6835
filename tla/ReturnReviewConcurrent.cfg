SPECIFICATION Spec
CONSTANTS
    Returns = {r1}
    Tasks = {k1, k2}
    Users = {u1, u2}
    Workers = {w1, w2}
    Figures = {f1}
    Notes = {none}
    NoNotes = none
    NoUser = nobody
    NoKey = nokey
    NoFigures = nofigures
SYMMETRY Symmetry
INVARIANTS UnderReviewHasTask ApprovalHasDecision LastDecisionOnRecord
