------------------------------- MODULE Routes -------------------------------
(***************************************************************************)
(* The HTTP interface: the route table of every controller, in the order   *)
(* in which the server registers it, the choice of the route that serves a *)
(* request, and what the middleware concludes from method and path.        *)
(*                                                                         *)
(* A route tells what its decorator and its dependencies say (method,      *)
(* path, guard, whether a tenant session is asked for) and whether its     *)
(* handler writes.  What the handler does with the service is modelled in  *)
(* the module of its component; logging, DTOs and status codes are left    *)
(* out.  "*" stands for a path parameter.                                  *)
(***************************************************************************)
EXTENDS Sequences, Naturals

\* A guard and what it asks for: a set of areas (API key scopes), and the
\* platform permission where the route names one.
Open == [by |-> "open", areas |-> {}, permission |-> <<>>]
SignedIn == [by |-> "signed_in", areas |-> {}, permission |-> <<>>]
Member == [by |-> "member", areas |-> {}, permission |-> <<>>]
Key(area) == [by |-> "key", areas |-> {area}, permission |-> <<>>]
AnyKey(areas) == [by |-> "any_key", areas |-> areas, permission |-> <<>>]
ServiceKey(area) == [by |-> "service_key", areas |-> {area}, permission |-> <<>>]
AdminOrKey(area) == [by |-> "admin_or_key", areas |-> {area}, permission |-> <<>>]
AdminOr(area, suffix) ==
    [by |-> "admin_or_platform", areas |-> {}, permission |-> <<area, suffix>>]
Platform(area, suffix) ==
    [by |-> "platform", areas |-> {}, permission |-> <<area, suffix>>]

\* One decorated handler.
R(method, path, handler, guard, session, writes) ==
    [method |-> method, path |-> path, handler |-> handler, guard |-> guard,
     session |-> session, writes |-> writes, account |-> "existing"]

Alone == "none"       \* no tenant session
With == "active"      \* get_current_user
AnyState == "any"     \* __get_current_user: a disabled user passes

\* The routes of a router under its prefix.
Under(prefix, routes) ==
    [i \in DOMAIN routes |-> [routes[i] EXCEPT !.path = prefix \o @]]

-----------------------------------------------------------------------------
(* ACL *)

AclResourceRoutes == <<
    R("POST",   <<"resources">>, "create_resource", Key("acl"), Alone, TRUE),
    R("GET",    <<"resources">>, "get_resources", Key("acl"), With, FALSE),
    R("GET",    <<"resources", "*", "grants">>, "list_resource_grants", Key("acl"), With, FALSE),
    R("GET",    <<"policies">>, "list_resource_policy_inventory", Key("acl"), Alone, FALSE),
    R("GET",    <<"resources", "*", "deletion-impact">>, "resource_deletion_impact", Key("acl"), Alone, FALSE) >>

AclPolicyRoutes == <<
    R("POST",   <<"resources", "*", "owner">>, "transfer_resource_owner", Key("acl"), With, TRUE),
    R("DELETE", <<"resources", "*", "policy">>, "delete_resource_policy", Key("acl"), With, TRUE),
    R("DELETE", <<"resources", "*", "grants", "*">>, "revoke_resource_grant", Key("acl"), With, TRUE),
    R("PATCH",  <<"resources", "*", "grants", "*">>, "update_resource_grant", Key("acl"), With, TRUE),
    R("GET",    <<"resources", "*", "effective-access", "*">>, "inspect_effective_access", Key("acl"), Alone, FALSE) >>

AclGrantRoutes == <<
    R("POST",   <<"claim">>, "claim_resource", Key("acl"), With, TRUE),
    R("POST",   <<"grant">>, "grant_permission", Key("acl"), With, TRUE),
    R("DELETE", <<"revoke">>, "revoke_permission", Key("acl"), With, TRUE) >>

AclQueryRoutes == <<
    R("POST",   <<"check">>, "check_permission", Key("acl"), With, FALSE) >>

AclServiceGrantRoutes == <<
    R("POST",   <<"service", "claim">>, "service_claim_resource", ServiceKey("acl"), Alone, TRUE),
    R("POST",   <<"service", "grant">>, "service_grant_permission", ServiceKey("acl"), Alone, TRUE),
    R("DELETE", <<"service", "revoke">>, "service_revoke_permission", ServiceKey("acl"), Alone, TRUE) >>

AclServiceReadRoutes == <<
    R("GET",    <<"service", "resources", "*", "users", "*", "access">>, "service_effective_access", ServiceKey("acl"), Alone, FALSE),
    R("GET",    <<"service", "resources", "*", "grants">>, "service_list_resource_grants", ServiceKey("acl"), Alone, FALSE),
    R("GET",    <<"service", "users", "*", "resources">>, "service_get_user_resources", ServiceKey("acl"), Alone, FALSE) >>

AclServiceOwnerRoutes == <<
    R("POST",   <<"service", "resources", "*", "owner">>, "service_transfer_resource_owner", ServiceKey("acl"), Alone, TRUE),
    R("DELETE", <<"service", "resources", "*">>, "service_delete_resource_policy", ServiceKey("acl"), Alone, TRUE),
    R("POST",   <<"service", "groups">>, "service_create_group", ServiceKey("groups"), Alone, TRUE),
    R("POST",   <<"service", "groups", "*", "members">>, "service_add_group_members", ServiceKey("groups"), Alone, TRUE),
    R("DELETE", <<"service", "groups", "*", "members">>, "service_remove_group_members", ServiceKey("groups"), Alone, TRUE),
    R("GET",    <<"service", "groups", "*", "members">>, "service_list_group_members", ServiceKey("groups"), Alone, FALSE),
    R("POST",   <<"service", "groups", "*", "owner">>, "service_transfer_group_owner", ServiceKey("groups"), Alone, TRUE),
    R("DELETE", <<"service", "groups", "*">>, "service_delete_group", ServiceKey("groups"), Alone, TRUE) >>

AclDiscoveryRoutes == <<
    R("GET",    <<"principals", "list">>, "list_principals_discovery", AdminOrKey("acl"), Alone, FALSE),
    R("GET",    <<"resources", "list">>, "list_resources_discovery", AdminOrKey("acl"), Alone, FALSE) >>

AclRoutes ==
    Under(<<"acl">>, AclResourceRoutes \o AclPolicyRoutes \o AclGrantRoutes
                     \o AclQueryRoutes \o AclServiceGrantRoutes \o AclServiceReadRoutes
                     \o AclServiceOwnerRoutes \o AclDiscoveryRoutes)

-----------------------------------------------------------------------------
(* RBAC *)

RbacRoleRoutes == <<
    R("POST",   <<"roles">>, "create_role", Key("rbac"), With, TRUE),
    R("GET",    <<"roles">>, "list_roles", Key("rbac"), With, FALSE),
    R("GET",    <<"roles", "*">>, "get_role", Key("rbac"), With, FALSE),
    R("PATCH",  <<"roles", "*">>, "update_role", Key("rbac"), With, TRUE),
    R("DELETE", <<"roles", "*">>, "delete_role", Key("rbac"), With, TRUE),
    R("POST",   <<"roles", "*", "permissions">>, "add_permission", Key("rbac"), With, TRUE),
    R("DELETE", <<"roles", "*", "permissions">>, "remove_permission", Key("rbac"), With, TRUE) >>

RbacHierarchyRoutes == <<
    R("POST",   <<"roles", "*", "parents">>, "add_parent", Key("rbac"), With, TRUE),
    R("DELETE", <<"roles", "*", "parents">>, "remove_parent", Key("rbac"), With, TRUE),
    R("POST",   <<"assignments">>, "assign_role", Key("rbac"), With, TRUE),
    R("GET",    <<"assignments">>, "list_assignments", Key("rbac"), With, FALSE),
    R("PATCH",  <<"assignments", "*">>, "update_assignment", Key("rbac"), Alone, TRUE) >>

RbacAssignmentRoutes == <<
    R("DELETE", <<"assignments", "*">>, "delete_assignment", Key("rbac"), With, TRUE),
    R("DELETE", <<"assignments">>, "unassign_role", Key("rbac"), With, TRUE),
    R("GET",    <<"subjects", "*", "roles">>, "get_subject_roles", Key("rbac"), With, FALSE),
    R("POST",   <<"check">>, "check_permission", Key("rbac"), With, FALSE),
    R("POST",   <<"has-role">>, "has_role", Key("rbac"), With, FALSE),
    R("GET",    <<"effective">>, "get_effective_permissions_by_identifier", Key("rbac"), Alone, FALSE),
    R("GET",    <<"subjects", "*", "permissions">>, "get_effective_permissions", Key("rbac"), With, FALSE) >>

RbacDiscoveryRoutes == <<
    R("GET",    <<"roles", "list">>, "list_roles_discovery", AdminOrKey("rbac"), Alone, FALSE),
    R("GET",    <<"permissions", "list">>, "list_permissions_discovery", AdminOrKey("rbac"), Alone, FALSE) >>

RbacRoutes ==
    Under(<<"rbac">>, RbacRoleRoutes \o RbacHierarchyRoutes \o RbacAssignmentRoutes
                      \o RbacDiscoveryRoutes)

-----------------------------------------------------------------------------
(* NGAC and ABAC *)

NgacNodeRoutes == <<
    R("POST",   <<"nodes">>, "create_node", Key("ngac"), With, TRUE),
    R("GET",    <<"nodes">>, "list_nodes", Key("ngac"), With, FALSE),
    R("GET",    <<"nodes", "list">>, "list_nodes_discovery", Key("ngac"), Alone, FALSE),
    R("GET",    <<"nodes", "*">>, "get_node", Key("ngac"), With, FALSE),
    R("PATCH",  <<"nodes", "*">>, "update_node", Key("ngac"), With, TRUE),
    R("DELETE", <<"nodes", "*">>, "delete_node", Key("ngac"), With, TRUE),
    R("GET",    <<"nodes", "*", "deletion-impact">>, "node_deletion_impact", Key("ngac"), With, FALSE) >>

NgacEdgeRoutes == <<
    R("POST",   <<"assign">>, "assign", Key("ngac"), With, TRUE),
    R("DELETE", <<"assign">>, "remove_assignment", Key("ngac"), With, TRUE),
    R("GET",    <<"assignments">>, "list_assignments", Key("ngac"), With, FALSE),
    R("POST",   <<"associate">>, "associate", Key("ngac"), With, TRUE),
    R("DELETE", <<"associate", "*">>, "remove_association", Key("ngac"), With, TRUE),
    R("PATCH",  <<"associations", "*">>, "update_association", Key("ngac"), With, TRUE) >>

NgacQueryRoutes == <<
    R("GET",    <<"associations">>, "list_associations", Key("ngac"), With, FALSE),
    R("GET",    <<"graph">>, "resolved_graph", Key("ngac"), With, FALSE),
    R("POST",   <<"check">>, "check_access", Key("ngac"), With, FALSE),
    R("GET",    <<"assignments", "list">>, "list_assignments_discovery", Key("ngac"), Alone, FALSE),
    R("GET",    <<"associations", "list">>, "list_associations_discovery", Key("ngac"), Alone, FALSE) >>

NgacRoutes == Under(<<"ngac">>, NgacNodeRoutes \o NgacEdgeRoutes \o NgacQueryRoutes)

AbacPolicyRoutes == <<
    R("GET",    <<"timezones">>, "timezones", Key("abac"), Alone, FALSE),
    R("POST",   <<"policies">>, "create_policy", Key("abac"), With, TRUE),
    R("GET",    <<"policies">>, "list_policies", Key("abac"), With, FALSE),
    R("GET",    <<"policies", "list">>, "list_policies_discovery", Key("abac"), Alone, FALSE),
    R("GET",    <<"policies", "*">>, "get_policy", Key("abac"), With, FALSE),
    R("PUT",    <<"policies", "*">>, "update_policy", Key("abac"), With, TRUE),
    R("POST",   <<"policies", "*", "upgrade-matcher">>, "upgrade_matcher", Key("abac"), With, TRUE),
    R("DELETE", <<"policies", "*">>, "delete_policy", Key("abac"), With, TRUE) >>

AbacQueryRoutes == <<
    R("POST",   <<"evaluate">>, "evaluate", Key("abac"), With, FALSE),
    R("GET",    <<"subjects", "list">>, "list_subjects_discovery", Key("abac"), Alone, FALSE),
    R("GET",    <<"resources", "list">>, "list_abac_resources_discovery", Key("abac"), Alone, FALSE),
    R("GET",    <<"locations", "list">>, "list_locations_discovery", Key("abac"), Alone, FALSE) >>

AbacRoutes == Under(<<"abac">>, AbacPolicyRoutes \o AbacQueryRoutes)

-----------------------------------------------------------------------------
(* Users *)

UserAdminRoutes == <<
    R("POST",   <<>>, "create_user", AdminOr("users", "MANAGE"), Alone, TRUE),
    R("GET",    <<"list">>, "list_users", AdminOr("users", "READ"), Alone, FALSE),
    R("GET",    <<"references">>, "user_references",
                AnyKey({"users", "groups", "acl", "rbac", "ngac"}), Alone, FALSE),
    R("POST",   <<"signup">>, "signup", Key("users"), Alone, TRUE),
    R("POST",   <<"verify">>, "verify", Open, Alone, FALSE),
    R("POST",   <<"introspect">>, "introspect_session", ServiceKey("users"), Alone, FALSE),
    R("POST",   <<"password-recovery">>, "request_password_recovery", Open, Alone, TRUE),
    R("POST",   <<"password-recovery", "confirm">>, "confirm_password_recovery", Open, Alone, TRUE) >>

UserSessionRoutes == <<
    R("POST",   <<"logout">>, "logout", Open, With, TRUE),
    R("POST",   <<"refresh">>, "refresh_token", Open, With, TRUE),
    R("POST",   <<"auth">>, "auth", Key("users"), Alone, TRUE),
    R("POST",   <<"password">>, "change_my_password", Open, With, TRUE),
    R("GET",    <<>>, "me", Open, With, FALSE),
    R("GET",    <<"all">>, "list_users", AdminOr("users", "READ"), Alone, FALSE) >>

UserStateRoutes == <<
    R("DELETE", <<"*">>, "delete_user", Key("users"), Alone, TRUE),
    R("POST",   <<"*", "block">>, "block_user", AdminOr("users", "MANAGE"), Alone, TRUE),
    R("POST",   <<"*", "unblock">>, "unblock_user", AdminOr("users", "MANAGE"), Alone, TRUE),
    R("POST",   <<"*", "enable">>, "enable_user", Open, AnyState, TRUE),
    R("POST",   <<"*", "disable">>, "disable_user", Open, With, TRUE) >>

UserRoutes == Under(<<"users">>, UserAdminRoutes \o UserSessionRoutes \o UserStateRoutes)

-----------------------------------------------------------------------------
(* Scopes, licences, groups, API keys *)

ScopeRoutes == Under(<<"scopes">>, <<
    R("GET",    <<>>, "list_scopes", AdminOrKey("scopes"), Alone, FALSE),
    R("GET",    <<"assignments">>, "list_scope_assignments", AdminOrKey("scopes"), Alone, FALSE),
    R("GET",    <<"list">>, "list_scopes_discovery", AdminOrKey("scopes"), Alone, FALSE),
    R("POST",   <<>>, "create_scope", AdminOrKey("scopes"), Alone, TRUE),
    R("POST",   <<"assign">>, "assign_scope", AdminOrKey("scopes"), Alone, TRUE),
    R("DELETE", <<"assign">>, "unassign_scope", AdminOrKey("scopes"), Alone, TRUE),
    R("DELETE", <<>>, "delete_scope", AdminOrKey("scopes"), Alone, TRUE) >>)

LicenseRoutes == Under(<<"licenses">>, <<
    R("GET",    <<>>, "list_licenses", AdminOrKey("licenses"), Alone, FALSE),
    R("POST",   <<>>, "create_license", AdminOrKey("licenses"), Alone, TRUE),
    R("DELETE", <<>>, "delete_license", AdminOrKey("licenses"), Alone, TRUE),
    R("POST",   <<"rotate">>, "rotate_license", AdminOrKey("licenses"), Alone, TRUE),
    R("DELETE", <<"self">>, "self_delete_license", Open, Alone, TRUE) >>)

GroupCatalogRoutes == <<
    R("GET",    <<"references">>, "references", AnyKey({"groups", "acl", "rbac"}), Alone, FALSE),
    R("GET",    <<>>, "list_groups", Key("groups"), Alone, FALSE),
    R("POST",   <<>>, "create_group", Key("groups"), Alone, TRUE),
    R("GET",    <<"*">>, "get_group", Key("groups"), Alone, FALSE),
    R("PATCH",  <<"*">>, "update_group", Key("groups"), With, TRUE),
    R("DELETE", <<"*">>, "delete_group", Key("groups"), With, TRUE),
    R("POST",   <<"*", "owner">>, "transfer_owner", Key("groups"), With, TRUE),
    R("POST",   <<"*", "status">>, "set_status", Key("groups"), Alone, TRUE) >>

GroupMemberRoutes == <<
    R("GET",    <<"*", "members">>, "list_members", Key("groups"), With, FALSE),
    R("POST",   <<"*", "members">>, "add_members", Key("groups"), With, TRUE),
    R("DELETE", <<"*", "members">>, "remove_members", Key("groups"), With, TRUE),
    R("DELETE", <<"*", "members", "me">>, "leave_group", Key("groups"), With, TRUE),
    R("GET",    <<"*", "usage">>, "usage", Key("groups"), Alone, FALSE) >>

GroupRoutes == Under(<<"groups">>, GroupCatalogRoutes \o GroupMemberRoutes)

APIKeyReadRoutes == <<
    R("POST",   <<>>, "create_api_key", AdminOr("api_keys", "MANAGE"), Alone, TRUE),
    R("GET",    <<>>, "list_api_keys", AdminOr("api_keys", "READ"), Alone, FALSE),
    R("GET",    <<"scopes">>, "list_api_key_scopes", AdminOr("api_keys", "MANAGE"), Alone, FALSE),
    R("GET",    <<"*">>, "get_api_key", AdminOr("api_keys", "READ"), Alone, FALSE) >>

APIKeyWriteRoutes == <<
    R("DELETE", <<"*">>, "revoke_api_key", AdminOr("api_keys", "MANAGE"), Alone, TRUE),
    R("DELETE", <<"*", "permanent">>, "delete_api_key", AdminOr("api_keys", "MANAGE"), Alone, TRUE),
    R("POST",   <<"*", "rotate">>, "rotate_api_key", AdminOr("api_keys", "MANAGE"), Alone, TRUE) >>

APIKeyRoutes == Under(<<"apikeys">>, APIKeyReadRoutes \o APIKeyWriteRoutes)

-----------------------------------------------------------------------------
(* Audit, notifications, accounts, console *)

AuditRoutes == Under(<<"authorization", "audit">>, <<
    R("GET",    <<>>, "query_audit", Key("audit"), Alone, FALSE) >>)

NotificationRoutes == Under(<<"notifications">>, <<
    R("GET",    <<>>, "list_notifications", Member, Alone, FALSE),
    R("GET",    <<"unread-count">>, "unread_count", Member, Alone, FALSE),
    R("POST",   <<"read-all">>, "mark_all_read", Member, Alone, TRUE),
    R("POST",   <<"*", "read">>, "mark_read", Member, Alone, TRUE) >>)

\* These do not look the account up first; two of them have none in their path.
AccountRoutes == <<
    [R("GET",    <<"accounts">>, "list_accounts", AdminOr("accounts", "READ"), Alone, FALSE)
        EXCEPT !.account = "none"],
    [R("POST",   <<"accounts">>, "create_account", AdminOr("accounts", "MANAGE"), Alone, TRUE)
        EXCEPT !.account = "none"],
    [R("DELETE", <<"accounts", "*">>, "delete_account", AdminOr("accounts", "MANAGE"), Alone, TRUE)
        EXCEPT !.account = "path"],
    [R("PATCH",  <<"accounts", "*">>, "update_account", AdminOr("accounts", "MANAGE"), Alone, TRUE)
        EXCEPT !.account = "path"] >>

ConsoleRoutes ==
    LET table == <<
            R("POST",   <<"session">>, "login", Open, Alone, TRUE),
            R("GET",    <<"session">>, "current_session", SignedIn, Alone, FALSE),
            R("DELETE", <<"session">>, "logout", SignedIn, Alone, TRUE),
            R("PUT",    <<"password">>, "change_password", SignedIn, Alone, TRUE),
            R("GET",    <<"options">>, "options", SignedIn, Alone, FALSE),
            R("GET",    <<"users">>, "list_platform_users", Platform("platform_users", "READ"), Alone, FALSE),
            R("POST",   <<"users">>, "create_platform_user", Platform("platform_users", "MANAGE"), Alone, TRUE),
            R("PATCH",  <<"users", "*">>, "update_platform_user", Platform("platform_users", "MANAGE"), Alone, TRUE),
            R("PUT",    <<"users", "*", "password">>, "reset_platform_password", Platform("platform_users", "MANAGE"), Alone, TRUE),
            R("DELETE", <<"users", "*">>, "delete_platform_user", Platform("platform_users", "MANAGE"), Alone, TRUE) >>
    IN  [i \in DOMAIN table |->
            [table[i] EXCEPT !.account = "none", !.path = <<"platform">> \o @]]

-----------------------------------------------------------------------------
(* The application *)

\* app.include_router, in the order of server.py.
Routes ==
    AccountRoutes \o
    Under(<<"accounts", "*">>,
          UserRoutes \o LicenseRoutes \o ScopeRoutes \o AclRoutes \o AbacRoutes
          \o NgacRoutes \o APIKeyRoutes \o RbacRoutes \o GroupRoutes
          \o AuditRoutes \o NotificationRoutes)
    \o ConsoleRoutes

\* A concrete path fits a pattern.
Fits(path, pattern) ==
    /\ Len(path) = Len(pattern)
    /\ \A i \in DOMAIN path : pattern[i] \in {"*", path[i]}

\* Starlette's router: the first registered route that fits method and path.
Dispatch(method, path) ==
    LET fits == {i \in DOMAIN Routes : Routes[i].method = method /\ Fits(path, Routes[i].path)}
    IN  Routes[CHOOSE i \in fits : \A j \in fits : i <= j]

\* _platform_permission_suffix
Suffix(r) ==
    IF \/ r.method = "GET"
       \/ r.method = "POST" /\ r.path[Len(r.path)] \in {"check", "evaluate", "has-role"}
    THEN "READ"
    ELSE "MANAGE"

\* authorization_model: the first of these names that occurs in the path.
Model(r) ==
    LET names == <<"groups", "rbac", "acl", "abac", "ngac">>
        found == {i \in DOMAIN names : \E j \in DOMAIN r.path : r.path[j] = names[i]}
    IN  IF found = {} THEN "none" ELSE names[CHOOSE i \in found : \A j \in found : i <= j]

Mutating(r) == r.method \in {"POST", "PUT", "PATCH", "DELETE"}

\* A request for a route, with parameters that are no names of the interface.
Concrete(path) == [i \in DOMAIN path |-> IF path[i] = "*" THEN "x" ELSE path[i]]

\* What the middleware tells apart of the route a request is dispatched to.
ServedBy(asked) ==
    LET r == Dispatch(asked.method, Concrete(asked.path))
    IN  [guard |-> r.guard, suffix |-> Suffix(r), mutating |-> Mutating(r),
         session |-> r.session, writes |-> r.writes, model |-> Model(r),
         account |-> r.account]
=============================================================================
