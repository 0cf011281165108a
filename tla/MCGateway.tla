----------------------------- MODULE MCGateway -----------------------------
(* The gateway in front of the real route tables, with a few callers.      *)
EXTENDS Gateway, Routes, TLC

CONSTANTS a1, a2, k1, k2, s1, u1, t1

MCAreas == {"accounts", "platform_users", "api_keys", "users", "scopes", "licenses",
            "acl", "groups", "rbac", "abac", "ngac", "audit"}

\* Every route that some request is dispatched to, without its name.
MCClasses == {ServedBy(Routes[i]) : i \in DOMAIN Routes}

MCKeyAccount == k1 :> a1 @@ k2 :> a2
MCKeyScopes == k1 :> {"all"} @@ k2 :> {"acl", "users", "service"}
MCSessionUser == s1 :> u1
MCTenantAccount == t1 :> a1

Reader == [role |-> "user", permissions |-> {p \in Permission : p[2] = "READ"},
           allowed |-> {a1}, active |-> TRUE, must_change |-> FALSE]
MCProfiles == {
    Reader,
    [Reader EXCEPT !.permissions = Permission, !.allowed = {a2}],
    [Reader EXCEPT !.role = "guest", !.permissions = Permission, !.allowed = {a1}],
    [Reader EXCEPT !.role = "admin", !.permissions = {}],
    [Reader EXCEPT !.role = "admin", !.active = FALSE] }

Bare == [admin |-> FALSE, csrf |-> TRUE, cookie |-> Absent, key |-> Absent, token |-> Absent]
MCBundles == {
    [Bare EXCEPT !.admin = TRUE],
    [Bare EXCEPT !.cookie = s1],
    [Bare EXCEPT !.key = k1, !.token = t1],
    [Bare EXCEPT !.key = k2, !.token = t1] }
============================================================================
