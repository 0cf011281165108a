SPECIFICATION GatewaySpec
CHECK_DEADLOCK FALSE
CONSTANTS
    a1 = a1  a2 = a2  k1 = k1  k2 = k2   s1 = s1  u1 = u1  t1 = t1
    Absent = Absent
    Classes <- MCClasses
    Areas <- MCAreas
    Accounts = {a1, a2}
    Keys = {k1, k2}
    KeyAccount <- MCKeyAccount
    KeyScopes <- MCKeyScopes
    Sessions = {s1}
    SessionUser <- MCSessionUser
    PlatformUsers = {u1}
    Profiles <- MCProfiles
    Tenants = {t1}
    TenantAccount <- MCTenantAccount
    Bundles <- MCBundles
    Requests = {q1}
INVARIANTS
    
    ReadersDoNotWrite
    EndedIsRefused
    AuditTrailHolds
