\* Two requests that overlap and may fail.
CONSTANTS
    Ids = {i1, i2}
    Passwords = {p1, p2}
    Sessions = {s1, s2}
    Workers = {w1, w2}
    None = None
SPECIFICATION CalmSpec
SYMMETRY Symmetry
INVARIANTS RevokedIsRejected CalmSessionsAreSound
PROPERTY SessionsOnlyAge
\* Sessions and Ids bound what is ever drawn; when both are used up it stops.
CHECK_DEADLOCK FALSE
