\* It stops when the search has its answer and ABAC its request.
CONSTANTS
    Roles = {r1, r2, r3}
    Day = 4
    Days = 3
    Zones <- MCZones
    Offset <- MCOffset
    UTC = "utc"
    Values <- MCValues
    Patterns <- MCPatterns
    Glob <- MCGlob
    Wildcard = "*"
    Places = {"home", "away"}
    Unstated = Unstated
    Windows <- MCWindows
    EventLists <- MCEventLists
    AccessRequests <- MCAccessRequests
    MaxPolicies = 2
SPECIFICATION MCSpec
INVARIANTS
    AnswerIsReachability
    WalksAgree
    
    
PROPERTY Terminates
CHECK_DEADLOCK FALSE
