CONSTANTS
    k1 = k1
    k2 = k2
    ua1 = ua1
    ua2 = ua2
    oa1 = oa1
    pc1 = pc1
    pc2 = pc2
    Nodes <- MCNodes
    TypeOf <- MCTypeOf
    OwnerOf <- MCOwnerOf
    Callers = {k1, k2}
    Admins = {}
    Operations = {read}
    MaxNodes = 4
    MaxEdges = 3
    MaxAssoc = 2
    Workers = {w1}
    None = None
SYMMETRY NodeSymmetry
SPECIFICATION Spec
INVARIANTS
    AssignmentsAcyclic
    DanglingOnlyWhereCut
    DecisionSound
PROPERTY DecisionsMoveAsExpected
