---------------------------- MODULE AccessControl ----------------------------
(***************************************************************************)
(* What the ACL component promises for one resource: a request that is     *)
(* accepted acts in one step, on the policy of that moment and with the    *)
(* authority its caller has at that moment.  ResourcePolicy shows how far  *)
(* ACLService, which reads the policy and writes it back, keeps to it.     *)
(***************************************************************************)
EXTENDS AccessGrants

CONSTANT Workers   \* requests that can be in flight together

VARIABLES
    policy,   \* the policy document of the resource
    pending   \* the request of each worker

Doc(grants) == [stored |-> TRUE, grants |-> grants]
Absent == [stored |-> FALSE, grants |-> {}]

Ops == {"claim", "claim_for", "create", "grant", "revoke", "update",
        "transfer", "delete"}
Request == [op: Ops, caller: Callers, principal: Principals \cup {Admin},
            permissions: SUBSET Permissions]
NoRequest == [op |-> "none"]

Init ==
    /\ policy = Absent
    /\ pending = [w \in Workers |-> NoRequest]

Invoke(w) ==
    /\ pending[w] = NoRequest
    /\ \E r \in Request : pending' = [pending EXCEPT ![w] = r]
    /\ UNCHANGED policy

\* The policies an accepted request may leave behind.
Effect(r) ==
    LET grants == policy.grants
        managed == policy.stored /\ Manages(r.caller, grants)
    IN  \/ /\ r.op = "claim"
           /\ \E new \in Claimed(grants, r.principal) : policy' = Doc(new)
        \/ /\ r.op = "claim_for"
           /\ \E new \in ClaimedForPrincipal(grants, r.principal) : policy' = Doc(new)
        \/ /\ r.op = "create"
           /\ ~policy.stored
           /\ policy' = Doc({OwnerGrant(r.principal)})
        \/ /\ r.op = "grant"
           /\ managed
           /\ \E new \in Granted(grants, r.principal, r.permissions) : policy' = Doc(new)
        \/ /\ r.op = "revoke"
           /\ policy.stored
           /\ r.caller = r.principal \/ managed
           /\ \E new \in Revoked(grants, r.principal, r.permissions) : policy' = Doc(new)
        \/ /\ r.op = "update"
           /\ managed
           /\ \E g \in GrantsTo(grants, r.principal) :
                 \E new \in UpdatedGrant(grants, g, r.permissions) : policy' = Doc(new)
        \/ /\ r.op = "transfer"
           /\ managed
           /\ \E new \in Transferred(grants, r.principal, r.permissions) : policy' = Doc(new)
        \/ /\ r.op = "delete"
           /\ managed
           /\ policy' = Absent

Act(w) ==
    /\ Effect(pending[w])
    /\ pending' = [pending EXCEPT ![w] = NoRequest]

Refuse(w) ==
    /\ pending' = [pending EXCEPT ![w] = NoRequest]
    /\ UNCHANGED policy

\* A user who has a grant is deleted, and every policy that names it with it.
PurgeUser(u) ==
    /\ GrantsTo(policy.grants, u) # {}
    /\ policy' = Absent
    /\ UNCHANGED pending

Next ==
    \/ \E w \in Workers : Invoke(w) \/ Act(w) \/ Refuse(w)
    \/ \E u \in Users : PurgeUser(u)

Spec == Init /\ [][Next]_<<policy, pending>>
==============================================================================
