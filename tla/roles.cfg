SPECIFICATION Spec
CONSTANTS
    operators = operators
    approvers = approvers
    Lookup = {l1, l2}
    Email = {e1, e2}
    Mover = {e1}
    Group <- MCGroup
    RoleOf <- MCRoleOf
    TTL = 2
    CallTime = 1
    MaxEntries = 1
    MaxTime = 5
    None = None
SYMMETRY Symmetry
INVARIANTS
    RolesTypeOK
    RoleNotStale
    MemberIsGranted
