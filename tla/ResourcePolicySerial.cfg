CONSTANTS
    u1 = u1
    u2 = u2
    Users = {u1, u2}
    Groups = {g1}
    MemberOf <- OneMember
    Permissions = {read, manage}
    MANAGE = manage
    Admin = Admin
    Workers = {w1}
SPECIFICATION Spec
INVARIANT OwnedByOne
   
