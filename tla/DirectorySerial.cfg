\* One request at a time, each of which may stop at any await.
CONSTANTS
    UserIds = {u1, u2, u3}
    Usernames = {ann, bob}
    Fold <- DifferentNames
    Scopes = {s1}
    GroupIds = {g1}
    GroupNames = {n1, n2}
    Workers = {w1}
    MaxCopies = 2
    MaxReferences = 1
    None = None
SPECIFICATION Spec
SYMMETRY Symmetry
INVARIANTS   CompensationIsComplete
\* Ids of users and groups are drawn once; when they are used up it stops.
CHECK_DEADLOCK FALSE
