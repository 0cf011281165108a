CONSTANTS
    Roles = {r1, r2, r3}
    Names = {n1, n2, n3}
    Permissions = {p1}
    Subjects = {s1}
    AssignmentIds = {a1, a2}
    Workers = {w1}
    Editors = {w1}
    None = None
SYMMETRY IdSymmetry
SPECIFICATION Spec
INVARIANTS
    HierarchyAcyclic
    NoDanglingParents
    UniqueNames
    NoDanglingAssignments
PROPERTY StoreImplemented
