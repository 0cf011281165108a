---------------------------- MODULE ResourcePolicy ----------------------------
(***************************************************************************)
(* The ACL component: ACLService over the policy document of one resource. *)
(* A request reads the document, works out a new one from what it has read *)
(* and writes it back whole at a later await, with replace_one(upsert) and *)
(* without a version check; requests interleave between the two.           *)
(*                                                                         *)
(* Group membership does not change here, and the reads of groups and      *)
(* users between the two steps leave nothing behind, so they are not steps *)
(* of their own.  Abort ends a request at any await: a storage error or    *)
(* the crash of the server.                                                *)
(***************************************************************************)
EXTENDS AccessGrants

CONSTANT Workers   \* requests that can be in flight together

VARIABLES
    policy,   \* the policy document of the resource
    job       \* the request each worker is serving

vars == <<policy, job>>

Doc(grants) == [stored |-> TRUE, grants |-> grants]
Absent == [stored |-> FALSE, grants |-> {}]

Ops == {"claim", "claim_for", "create", "grant", "revoke", "update",
        "transfer", "delete"}
Request == [op: Ops, caller: Callers, principal: Principals \cup {Admin},
            permissions: SUBSET Permissions]
Req(op, caller, p, ps) ==
    [op |-> op, caller |-> caller, principal |-> p, permissions |-> ps]
NoRequest == [op |-> "none"]
Idle == [at |-> "idle", req |-> NoRequest, draft |-> {}]

Job == [at: {"idle", "save", "insert", "load_owner", "delete"},
        req: Request \cup {NoRequest}, draft: SUBSET Grant]

TypeOK ==
    /\ policy \in [stored: BOOLEAN, grants: SUBSET Grant]
    /\ job \in [Workers -> Job]

Init ==
    /\ policy = Absent
    /\ job = [w \in Workers |-> Idle]

At(w, step) == job[w].at = step
Finish(w) == job' = [job EXCEPT ![w] = Idle]

\* The request is accepted on the document just read and will write a draft.
Plan(w, step, r, draft) ==
    /\ At(w, "idle")
    /\ job' = [job EXCEPT ![w] = [at |-> step, req |-> r, draft |-> draft]]
    /\ UNCHANGED policy

-----------------------------------------------------------------------------
\* claim_resource: a user claims for itself.  No document counts as a policy
\* without grants.
ClaimResource(w, u) ==
    \E new \in Claimed(policy.grants, u) :
       Plan(w, "save", Req("claim", u, u, {}), new)

\* claim_resource_for_principal, for a trusted service.
ClaimResourceForPrincipal(w, p) ==
    \E new \in ClaimedForPrincipal(policy.grants, p) :
       Plan(w, "save", Req("claim_for", Admin, p, {}), new)

\* create_resource inserts without a read.
CreateResource(w, p) ==
    Plan(w, "insert", Req("create", Admin, p, {}), {OwnerGrant(p)})

GrantTo(w, caller, p, ps) ==
    /\ policy.stored
    /\ Manages(caller, policy.grants)
    /\ \E new \in Granted(policy.grants, p, ps) :
          Plan(w, "save", Req("grant", caller, p, ps), new)

\* A caller may give up its own permissions.
Revoke(w, caller, p, ps) ==
    /\ policy.stored
    /\ caller = p \/ Manages(caller, policy.grants)
    /\ \E new \in Revoked(policy.grants, p, ps) :
          Plan(w, "save", Req("revoke", caller, p, ps), new)

\* revoke_grant, by grant_id: everything a plain grant lists.
RevokeGrant(w, caller, g) ==
    /\ g \in policy.grants \ Owners(policy.grants)
    /\ Revoke(w, caller, g.principal, g.permissions)

UpdateGrantPermissions(w, caller, g, ps) ==
    /\ Manages(caller, policy.grants)
    /\ \E new \in UpdatedGrant(policy.grants, g, ps) :
          Plan(w, "save", Req("update", caller, g.principal, ps), new)

\* The controller checks the caller; a trusted service is not checked.
AuthorizeTransfer(w, caller, p, keep) ==
    /\ caller # Admin => policy.stored /\ Manages(caller, policy.grants)
    /\ Plan(w, "load_owner", Req("transfer", caller, p, keep), {})

\* transfer_owner reads the document again.
LoadOwner(w) ==
    LET r == job[w].req
        results == Transferred(policy.grants, r.principal, r.permissions)
    IN  /\ At(w, "load_owner")
        /\ \/ \E new \in results :
                 job' = [job EXCEPT ![w] = [at |-> "save", req |-> r, draft |-> new]]
           \/ results = {} /\ Finish(w)
        /\ UNCHANGED policy

\* replace_one(..., upsert=True).
Save(w) ==
    /\ At(w, "save")
    /\ policy' = Doc(job[w].draft)
    /\ Finish(w)

\* Mutant: inserts over an existing document.
Insert_NoIndex(w) ==
    /\ At(w, "insert")
    /\ policy' = Doc(job[w].draft)
    /\ Finish(w)

\* insert_one, refused by the unique index if there is a document.
Insert(w) ==
    /\ At(w, "insert")
    /\ policy' = IF policy.stored THEN policy ELSE Doc(job[w].draft)
    /\ Finish(w)

\* An administrator's deletion is not preceded by a read.
AuthorizeDelete(w, caller) ==
    /\ caller # Admin => policy.stored /\ Manages(caller, policy.grants)
    /\ Plan(w, "delete", Req("delete", caller, Admin, {}), {})

DeleteResource(w) ==
    /\ At(w, "delete")
    /\ policy' = Absent
    /\ Finish(w)

\* delete_all_by_user, the ACL part of deleting a user: policies that name
\* the user in any grant.
PurgeUser(w, u) ==
    /\ At(w, "idle")
    /\ GrantsTo(policy.grants, u) # {}
    /\ policy' = Absent
    /\ UNCHANGED job

Abort(w) ==
    /\ ~At(w, "idle")
    /\ Finish(w)
    /\ UNCHANGED policy

Accept(w) ==
    \/ \E u \in Users : ClaimResource(w, u)
    \/ \E p \in Principals : ClaimResourceForPrincipal(w, p) \/ CreateResource(w, p)
    \/ \E c \in Callers :
          \/ \E ps \in SUBSET Permissions :
                \/ \E p \in Principals :
                      GrantTo(w, c, p, ps) \/ Revoke(w, c, p, ps)
                      \/ AuthorizeTransfer(w, c, p, ps)
                \/ \E g \in policy.grants : UpdateGrantPermissions(w, c, g, ps)
          \/ \E g \in policy.grants : RevokeGrant(w, c, g)
          \/ AuthorizeDelete(w, c)

Next ==
    \E w \in Workers :
       \/ Accept(w) \/ LoadOwner(w) \/ Save(w) \/ Insert(w) \/ DeleteResource(w)
       \/ Abort(w)
       \/ \E u \in Users : PurgeUser(w, u)

Spec == Init /\ [][Next]_vars

-----------------------------------------------------------------------------
(* A set of grants that ACLService may write: no principal has two grants, *)
(* one grant is the owner's, and it lists MANAGE.                          *)
WellOwned(grants) ==
    /\ \A g, h \in grants : g.principal = h.principal => g = h
    /\ \E o \in grants : Owners(grants) = {o} /\ MANAGE \in o.permissions

(* A stored policy has exactly one owner, so that somebody can always      *)
(* manage the resource, and one grant for each principal, so that looking  *)
(* for the first grant of a principal finds all of its permissions.  It    *)
(* holds however requests overlap: revoke without MANAGE must never empty  *)
(* the owner's grant, and a draft made from a stale policy must carry its  *)
(* owner along.                                                            *)
OwnedByOne == policy.stored => WellOwned(policy.grants)

(* The strengthening: the drafts in flight are well owned too.             *)
DraftsOwned ==
    /\ OwnedByOne
    /\ ~policy.stored => policy.grants = {}
    /\ \A w \in Workers : job[w].at \in {"save", "insert"} => WellOwned(job[w].draft)

(* "the first claimer becomes owner": completing a claim never takes a     *)
(* resource from the owner it has at that moment.                          *)
Completes(w, ops) == At(w, "save") /\ job[w].req.op \in ops /\ ~At(w, "save")'
OwnersOf(pol) == {g.principal : g \in Owners(pol.grants)}

ClaimTakesNothing ==
    [][\A w \in Workers :
          Completes(w, {"claim", "claim_for"}) =>
             OwnersOf(policy) \subseteq OwnersOf(policy')]_vars

(* Completing a revocation gives nothing to anybody: on a policy that is   *)
(* still stored, whoever does not own the resource has no more permissions *)
(* than before.  Of two revocations that were answered, none is undone.    *)
RevokingGivesNothing ==
    [][\A w \in Workers :
          Completes(w, {"revoke"}) /\ policy.stored =>
             \A p \in Principals \ OwnersOf(policy') :
                Effective(policy'.grants, {p}) \subseteq Effective(policy.grants, {p})]_vars

(* With one request at a time the service keeps to AccessControl: what it  *)
(* writes is what the request makes of the policy it replaces, and the     *)
(* caller still has the authority it was checked for.                      *)
Atomic == INSTANCE AccessControl WITH pending <- [w \in Workers |-> job[w].req]
ActsAtomically == Atomic!Spec
==============================================================================
