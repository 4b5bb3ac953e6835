SPECIFICATION Spec
CONSTANTS
    Returns = {r1}
    Tasks = {k1}
    Users = {u1}
    Workers = {w1}
    Figures = {f1, f2}
    Notes = {none}
    NoNotes = none
    NoUser = nobody
    NoKey = nokey
    NoFigures = nofigures
SYMMETRY Symmetry
PROPERTIES ApprovedNotRegenerated
