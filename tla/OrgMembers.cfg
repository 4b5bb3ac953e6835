SPECIFICATION Spec
CONSTANTS
    Users = {u1, u2, u3}
    Roles = {"org_admin", "viewer"}
    AdminRoles = {"org_admin"}
    Workers = {w1, w2}
    NoRole = none
    Keep = keep
    NoUser = nobody
SYMMETRY Symmetry
INVARIANTS AdminRemainsUnlessRaced
PROPERTIES RevocationSticks
CHECK_DEADLOCK FALSE
