SPECIFICATION Spec
CONSTANTS
    r1 = r1
    r2 = r2
    NoRole = NoRole
    Roles <- TwoRoles
    MaxSocket = 3
    MaxSession = 2
    MaxLogin = 3
SYMMETRY RoleSymmetry
INVARIANTS TypeOK NoDanglingPointer ClientsExact MirrorSound
CHECK_DEADLOCK FALSE
