CONSTANTS
    Roles = {r1, r2}
    Rights = {p1}
    Holders = {u1, g1}
    Users = {u1}
    Groups = {g1}
    Nothing = Nothing
SPECIFICATION QuerySpec
PROPERTIES
    GrantsAreWarranted
    NothingKeptIsMissed
