CONSTANTS
    Ids = {i1, i2}
    Names = {n1, n2}
    Passwords = {p1, p2}
    Permissions = {manage}
    ReadOnly = {}
    MANAGE = manage
    Tokens = {t1, t2}
    Workers = {w1}
    None = None
SYMMETRY IdSymmetry
SPECIFICATION Spec
INVARIANTS AdminRemains GuestsOnlyRead 
  
