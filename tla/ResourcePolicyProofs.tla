------------------------- MODULE ResourcePolicyProofs -------------------------
(***************************************************************************)
(* Ownership in the ACL component, for every set of users, groups and      *)
(* permissions and every number of overlapping requests, and the atomicity *)
(* of requests that come one at a time; and what the other evaluator of     *)
(* policies, ABAC, decides on whatever policies an account may have.       *)
(***************************************************************************)
EXTENDS ResourcePolicy, PolicyDecisions, FiniteSetTheorems, WellFoundedInduction, TLAPS

-----------------------------------------------------------------------------
(* The methods of the aggregate keep grants well owned.                    *)

LEMMA ResetFields ==
    ASSUME NEW g \in Grant, NEW ps \in SUBSET Permissions
    PROVE  /\ [g EXCEPT !.permissions = ps] \in Grant
           /\ [g EXCEPT !.permissions = ps].principal = g.principal
           /\ [g EXCEPT !.permissions = ps].owner = g.owner
           /\ [g EXCEPT !.permissions = ps].permissions = ps
BY DEF Grant

(* A grant's permissions may change freely, an owner's as long as MANAGE   *)
(* stays among them.                                                       *)
LEMMA ResetWellOwned ==
    ASSUME NEW grants \in SUBSET Grant, WellOwned(grants), NEW g \in grants,
           NEW ps \in SUBSET Permissions, g.owner => MANAGE \in ps
    PROVE  Reset(grants, g, ps) \in SUBSET Grant /\ WellOwned(Reset(grants, g, ps))
<1> DEFINE h == [g EXCEPT !.permissions = ps]
           new == Reset(grants, g, ps)
<1>1. h \in Grant /\ h.principal = g.principal /\ h.owner = g.owner /\ h.permissions = ps
  BY ResetFields
<1> HIDE DEF h
<1>2. new = (grants \ {g}) \cup {h}
  BY DEF Reset, h
<1>3. new \in SUBSET Grant
  BY <1>1, <1>2
<1>4. \A x, y \in new : x.principal = y.principal => x = y
  BY <1>1, <1>2 DEF WellOwned
<1>5. \E o \in new : Owners(new) = {o} /\ MANAGE \in o.permissions
  <2>1. PICK o \in grants : Owners(grants) = {o} /\ MANAGE \in o.permissions
    BY DEF WellOwned
  <2>2. \A x \in grants : x.owner <=> x = o
    BY <2>1 DEF Owners, Grant
  <2>3. CASE g = o
    <3>1. Owners(new) = {h}
      BY <1>1, <1>2, <2>2, <2>3 DEF Owners
    <3> QED
      BY <1>1, <1>2, <2>2, <2>3, <3>1
  <2>4. CASE g # o
    <3>1. Owners(new) = {o}
      BY <1>1, <1>2, <2>2, <2>4 DEF Owners
    <3> QED
      BY <1>2, <2>1, <2>4, <3>1
  <2> QED
    BY <2>3, <2>4
<1> QED
  BY <1>3, <1>4, <1>5 DEF WellOwned

LEMMA NewGrants ==
    ASSUME NEW p \in Principals, NEW ps \in SUBSET Permissions
    PROVE  /\ OwnerGrant(p) \in Grant /\ OwnerGrant(p).owner
           /\ OwnerGrant(p).principal = p /\ MANAGE \in OwnerGrant(p).permissions
           /\ PlainGrant(p, ps) \in Grant /\ ~PlainGrant(p, ps).owner
           /\ PlainGrant(p, ps).principal = p
BY ManageIsAPermission DEF OwnerGrant, PlainGrant, Grant

LEMMA OwnerAlone ==
    ASSUME NEW p \in Principals
    PROVE  {OwnerGrant(p)} \in SUBSET Grant /\ WellOwned({OwnerGrant(p)})
BY NewGrants DEF WellOwned, Owners

LEMMA ClaimedWellOwned ==
    ASSUME NEW grants \in SUBSET Grant, grants = {} \/ WellOwned(grants),
           NEW p \in Principals, NEW new \in Claimed(grants, p)
    PROVE  new \in SUBSET Grant /\ WellOwned(new)
<1>1. CASE grants = {}
  <2>1. new = {OwnerGrant(p)}
    BY <1>1 DEF Claimed, GrantsTo, Owners
  <2> QED
    BY <2>1, OwnerAlone
<1>2. CASE WellOwned(grants)
  <2>1. Owners(grants) # {}
    BY <1>2 DEF WellOwned
  <2>2. new = grants
    BY <2>1 DEF Claimed
  <2> QED
    BY <1>2, <2>2
<1> QED
  BY <1>1, <1>2

LEMMA ClaimedForWellOwned ==
    ASSUME NEW grants \in SUBSET Grant, grants = {} \/ WellOwned(grants),
           NEW p \in Principals, NEW new \in ClaimedForPrincipal(grants, p)
    PROVE  new \in SUBSET Grant /\ WellOwned(new)
<1>1. CASE \E g \in GrantsTo(grants, p) : g.owner
  <2>1. PICK g \in GrantsTo(grants, p) : new = Reset(grants, g, Permissions)
    BY <1>1 DEF ClaimedForPrincipal
  <2>2. g \in grants /\ WellOwned(grants)
    BY <2>1 DEF GrantsTo
  <2> QED
    BY <2>1, <2>2, ResetWellOwned, ManageIsAPermission
<1>2. CASE ~\E g \in GrantsTo(grants, p) : g.owner
  BY <1>2, ClaimedWellOwned DEF ClaimedForPrincipal
<1> QED
  BY <1>1, <1>2

LEMMA GrantedWellOwned ==
    ASSUME NEW grants \in SUBSET Grant, WellOwned(grants), NEW p \in Principals,
           NEW ps \in SUBSET Permissions, NEW new \in Granted(grants, p, ps)
    PROVE  new \in SUBSET Grant /\ WellOwned(new)
<1>1. CASE GrantsTo(grants, p) = {}
  <2> DEFINE h == PlainGrant(p, ps)
  <2>1. new = grants \cup {h}
    BY <1>1 DEF Granted
  <2>2. h \in Grant /\ ~h.owner /\ h.principal = p
    BY NewGrants
  <2> HIDE DEF h
  <2>3. \A g \in grants : g.principal # p
    BY <1>1 DEF GrantsTo
  <2>4. \A x, y \in new : x.principal = y.principal => x = y
    BY <2>1, <2>2, <2>3 DEF WellOwned
  <2>5. Owners(new) = Owners(grants)
    BY <2>1, <2>2 DEF Owners
  <2> QED
    BY <2>1, <2>2, <2>4, <2>5 DEF WellOwned
<1>2. CASE GrantsTo(grants, p) # {}
  <2>1. PICK g \in GrantsTo(grants, p) :
           new = Reset(grants, g, g.permissions \cup ps)
    BY <1>2 DEF Granted
  <2>2. g \in grants /\ g \in Grant /\ g.permissions \cup ps \in SUBSET Permissions
    BY <2>1 DEF GrantsTo, Grant
  <2>3. g.owner => MANAGE \in g.permissions \cup ps
    BY <2>2 DEF WellOwned, Owners
  <2> QED
    BY <2>1, <2>2, <2>3, ResetWellOwned
<1> QED
  BY <1>1, <1>2

(* The owner's grant survives every revocation: it lists MANAGE, and       *)
(* MANAGE is never revoked from it.                                        *)
LEMMA RevokedWellOwned ==
    ASSUME NEW grants \in SUBSET Grant, WellOwned(grants), NEW p \in Principals,
           NEW ps \in SUBSET Permissions, NEW new \in Revoked(grants, p, ps)
    PROVE  new \in SUBSET Grant /\ WellOwned(new)
<1>1. CASE GrantsTo(grants, p) = {}
  <2>1. new = grants
    BY <1>1 DEF Revoked
  <2> QED
    BY <2>1
<1>2. CASE GrantsTo(grants, p) # {}
  <2>1. PICK g \in GrantsTo(grants, p) :
           /\ ~(g.owner /\ MANAGE \in ps /\ Owners(grants) = {g})
           /\ new = IF g.permissions \subseteq ps THEN grants \ {g}
                    ELSE Reset(grants, g, g.permissions \ ps)
    BY <1>2 DEF Revoked
  <2>2. g \in grants /\ g \in Grant
    BY <2>1 DEF GrantsTo
  <2>3. PICK o \in grants : Owners(grants) = {o} /\ MANAGE \in o.permissions
    BY DEF WellOwned
  <2>4. g.owner => g = o /\ MANAGE \notin ps /\ MANAGE \in g.permissions
    BY <2>1, <2>2, <2>3 DEF Owners
  <2>5. CASE g.permissions \subseteq ps
    <3>1. ~g.owner
      BY <2>4, <2>5
    <3>2. new = grants \ {g}
      BY <2>1, <2>5
    <3>3. Owners(new) = {o} /\ o \in new
      BY <2>3, <3>1, <3>2 DEF Owners
    <3> QED
      BY <2>3, <3>2, <3>3 DEF WellOwned
  <2>6. CASE ~(g.permissions \subseteq ps)
    <3>1. new = Reset(grants, g, g.permissions \ ps)
      BY <2>1, <2>6
    <3>2. g.permissions \ ps \in SUBSET Permissions
      BY <2>2 DEF Grant
    <3> QED
      BY <2>2, <2>4, <3>1, <3>2, ResetWellOwned
  <2> QED
    BY <2>5, <2>6
<1> QED
  BY <1>1, <1>2

LEMMA UpdatedWellOwned ==
    ASSUME NEW grants \in SUBSET Grant, WellOwned(grants), NEW g \in grants,
           NEW ps \in SUBSET Permissions, NEW new \in UpdatedGrant(grants, g, ps)
    PROVE  new \in SUBSET Grant /\ WellOwned(new)
<1>1. ~g.owner /\ new = Reset(grants, g, ps)
  BY DEF UpdatedGrant, Owners
<1> QED
  BY <1>1, ResetWellOwned

LEMMA TransferredWellOwned ==
    ASSUME NEW grants \in SUBSET Grant, WellOwned(grants), NEW p \in Principals,
           NEW keep \in SUBSET Permissions, NEW new \in Transferred(grants, p, keep)
    PROVE  new \in SUBSET Grant /\ WellOwned(new)
<1>1. PICK o \in grants : Owners(grants) = {o} /\ MANAGE \in o.permissions
  BY DEF WellOwned
<1> DEFINE rest == {g \in grants \ {o} : g.principal # p}
           kept == {PlainGrant(q, keep) : q \in IF keep = {} THEN {}
                                                ELSE {o.principal} \ {p}}
<1>2. new = rest \cup {OwnerGrant(p)} \cup kept
  BY <1>1 DEF Transferred
<1>3. \A k \in kept : k = PlainGrant(o.principal, keep) /\ o.principal # p
  OBVIOUS
<1>4. o.principal \in Principals
  BY <1>1 DEF Grant
<1>5. \A k \in kept : k \in Grant /\ ~k.owner /\ k.principal = o.principal
                      /\ k.principal # p
  BY <1>3, <1>4, NewGrants
<1>6. \A g \in rest : g \in Grant /\ ~g.owner /\ g.principal # p
                      /\ g.principal # o.principal
  BY <1>1 DEF WellOwned, Owners
<1>7. OwnerGrant(p) \in Grant /\ OwnerGrant(p).owner /\ OwnerGrant(p).principal = p
      /\ MANAGE \in OwnerGrant(p).permissions
  BY NewGrants
<1>8. \A x, y \in kept : x = y
  BY <1>3
<1>9. \A x, y \in rest : x.principal = y.principal => x = y
  BY DEF WellOwned
<1> HIDE DEF rest, kept
<1>10. \A x, y \in new : x.principal = y.principal => x = y
  BY <1>2, <1>5, <1>6, <1>7, <1>8, <1>9
<1>11. Owners(new) = {OwnerGrant(p)}
  BY <1>2, <1>5, <1>6, <1>7 DEF Owners
<1> QED
  BY <1>2, <1>5, <1>6, <1>7, <1>10, <1>11 DEF WellOwned

-----------------------------------------------------------------------------
(* The inductive invariant: policies and drafts are well typed and well    *)
(* owned, and a request that still has to work out its draft is known.     *)
PolicyOK(pol) ==
    /\ pol \in [stored: BOOLEAN, grants: SUBSET Grant]
    /\ pol.stored => WellOwned(pol.grants)
    /\ ~pol.stored => pol.grants = {}

JobOK(j) ==
    /\ j \in Job
    /\ j.at \in {"save", "insert"} => WellOwned(j.draft)
    /\ j.at # "idle" => j.req \in Request
    /\ j.at = "load_owner" => j.req.principal \in Principals

Inv ==
    /\ PolicyOK(policy)
    /\ job \in [Workers -> Job]
    /\ \A w \in Workers : JobOK(job[w])

LEMMA IdleOK == JobOK(Idle)
BY DEF JobOK, Job, Idle

LEMMA AbsentOK == PolicyOK(Absent)
BY DEF PolicyOK, Absent

LEMMA DocOK ==
    ASSUME NEW grants \in SUBSET Grant, WellOwned(grants)
    PROVE  PolicyOK(Doc(grants))
BY DEF PolicyOK, Doc

(* A step that leaves worker w with a good job and the policy good.        *)
LEMMA GoodStep ==
    ASSUME Inv, NEW w, NEW j, JobOK(j), job' = [job EXCEPT ![w] = j],
           PolicyOK(policy')
    PROVE  Inv'
<1>1. j \in Job
  BY DEF JobOK
<1>2. job' \in [Workers -> Job]
  BY <1>1 DEF Inv
<1>3. \A v \in Workers : JobOK(job'[v])
  BY DEF Inv
<1>4. (\A v \in Workers : JobOK(job[v]))'
  BY <1>3 DEF JobOK, Job, Request, WellOwned, Owners
<1>5. PolicyOK(policy)'
  BY DEF PolicyOK, WellOwned, Owners
<1> QED
  BY <1>2, <1>4, <1>5 DEF Inv

LEMMA GoodPlan ==
    ASSUME Inv, NEW w \in Workers, NEW step \in {"save", "insert"},
           NEW r \in Request, NEW draft \in SUBSET Grant, WellOwned(draft),
           Plan(w, step, r, draft)
    PROVE  Inv'
<1>1. JobOK([at |-> step, req |-> r, draft |-> draft])
  BY DEF JobOK, Job
<1> QED
  BY <1>1, GoodStep DEF Plan, Inv

LEMMA RequestType ==
    ASSUME NEW op \in Ops, NEW c \in Callers, NEW p \in Principals,
           NEW ps \in SUBSET Permissions
    PROVE  Req(op, c, p, ps) \in Request /\ Req(op, c, p, ps).principal = p
BY DEF Req, Request

LEMMA RevokeKeepsInv ==
    ASSUME Inv, NEW w \in Workers, NEW c \in Callers, NEW p \in Principals,
           NEW ps \in SUBSET Permissions, Revoke(w, c, p, ps)
    PROVE  Inv'
<1>0. policy.grants \in SUBSET Grant /\ WellOwned(policy.grants)
  BY DEF Inv, PolicyOK, Revoke
<1>1. PICK new \in Revoked(policy.grants, p, ps) :
         Plan(w, "save", Req("revoke", c, p, ps), new)
  BY DEF Revoke
<1>2. new \in SUBSET Grant /\ WellOwned(new)
  BY <1>0, RevokedWellOwned
<1>3. Req("revoke", c, p, ps) \in Request
  BY RequestType DEF Ops
<1> QED
  BY <1>1, <1>2, <1>3, GoodPlan

LEMMA AcceptKeepsInv ==
    ASSUME Inv, NEW w \in Workers, Accept(w)
    PROVE  Inv'
<1> DEFINE grants == policy.grants
<1>0. /\ grants \in SUBSET Grant
      /\ grants = {} \/ WellOwned(grants)
      /\ policy.stored => WellOwned(grants)
      /\ \A g \in grants : policy.stored
      /\ Admin \in Callers /\ Users \subseteq Principals /\ Users \subseteq Callers
      /\ {} \in SUBSET Permissions
  BY DEF Inv, PolicyOK, Callers, Principals
<1>1. ASSUME NEW u \in Users, ClaimResource(w, u) PROVE Inv'
  <2>1. PICK new \in Claimed(grants, u) : Plan(w, "save", Req("claim", u, u, {}), new)
    BY <1>1 DEF ClaimResource
  <2>2. new \in SUBSET Grant /\ WellOwned(new)
    BY <1>0, ClaimedWellOwned
  <2>3. Req("claim", u, u, {}) \in Request
    BY <1>0, RequestType DEF Ops
  <2> QED
    BY <2>1, <2>2, <2>3, GoodPlan
<1>2. ASSUME NEW p \in Principals, ClaimResourceForPrincipal(w, p) PROVE Inv'
  <2>1. PICK new \in ClaimedForPrincipal(grants, p) :
           Plan(w, "save", Req("claim_for", Admin, p, {}), new)
    BY <1>2 DEF ClaimResourceForPrincipal
  <2>2. new \in SUBSET Grant /\ WellOwned(new)
    BY <1>0, ClaimedForWellOwned
  <2>3. Req("claim_for", Admin, p, {}) \in Request
    BY <1>0, RequestType DEF Ops
  <2> QED
    BY <2>1, <2>2, <2>3, GoodPlan
<1>3. ASSUME NEW p \in Principals, CreateResource(w, p) PROVE Inv'
  <2>1. Req("create", Admin, p, {}) \in Request
    BY <1>0, RequestType DEF Ops
  <2> QED
    BY <1>3, <2>1, OwnerAlone, GoodPlan DEF CreateResource
<1>4. ASSUME NEW c \in Callers, NEW ps \in SUBSET Permissions,
             NEW p \in Principals, GrantTo(w, c, p, ps)
      PROVE  Inv'
  <2>1. PICK new \in Granted(grants, p, ps) : Plan(w, "save", Req("grant", c, p, ps), new)
    BY <1>4 DEF GrantTo
  <2>2. new \in SUBSET Grant /\ WellOwned(new)
    BY <1>0, <1>4, GrantedWellOwned DEF GrantTo
  <2>3. Req("grant", c, p, ps) \in Request
    BY RequestType DEF Ops
  <2> QED
    BY <2>1, <2>2, <2>3, GoodPlan
<1>5. ASSUME NEW c \in Callers, NEW ps \in SUBSET Permissions,
             NEW p \in Principals, AuthorizeTransfer(w, c, p, ps)
      PROVE  Inv'
  <2> DEFINE r == Req("transfer", c, p, ps)
  <2>1. r \in Request /\ r.principal = p
    BY RequestType DEF Ops
  <2> HIDE DEF r
  <2>2. JobOK([at |-> "load_owner", req |-> r, draft |-> {}])
    BY <2>1 DEF JobOK, Job
  <2>3. job' = [job EXCEPT ![w] = [at |-> "load_owner", req |-> r, draft |-> {}]]
        /\ policy' = policy
    BY <1>5 DEF AuthorizeTransfer, Plan, r
  <2> QED
    BY <2>2, <2>3, GoodStep DEF Inv
<1>6. ASSUME NEW c \in Callers, NEW ps \in SUBSET Permissions,
             NEW g \in grants, UpdateGrantPermissions(w, c, g, ps)
      PROVE  Inv'
  <2>1. PICK new \in UpdatedGrant(grants, g, ps) :
           Plan(w, "save", Req("update", c, g.principal, ps), new)
    BY <1>6 DEF UpdateGrantPermissions
  <2>2. new \in SUBSET Grant /\ WellOwned(new)
    BY <1>0, UpdatedWellOwned
  <2>3. g.principal \in Principals
    BY <1>0 DEF Grant
  <2>4. Req("update", c, g.principal, ps) \in Request
    BY <2>3, RequestType DEF Ops
  <2> QED
    BY <2>1, <2>2, <2>4, GoodPlan
<1>7. ASSUME NEW c \in Callers, NEW g \in grants, RevokeGrant(w, c, g) PROVE Inv'
  <2>1. g.principal \in Principals /\ g.permissions \in SUBSET Permissions
    BY <1>0 DEF Grant
  <2> QED
    BY <1>7, <2>1, RevokeKeepsInv DEF RevokeGrant
<1>8. ASSUME NEW c \in Callers, AuthorizeDelete(w, c) PROVE Inv'
  <2> DEFINE r == Req("delete", c, Admin, {})
  <2>1. r \in Request
    BY DEF Req, Request, Ops
  <2> HIDE DEF r
  <2>2. JobOK([at |-> "delete", req |-> r, draft |-> {}])
    BY <2>1 DEF JobOK, Job
  <2>3. job' = [job EXCEPT ![w] = [at |-> "delete", req |-> r, draft |-> {}]]
        /\ policy' = policy
    BY <1>8 DEF AuthorizeDelete, Plan, r
  <2> QED
    BY <2>2, <2>3, GoodStep DEF Inv
<1> QED
  BY <1>1, <1>2, <1>3, <1>4, <1>5, <1>6, <1>7, <1>8, RevokeKeepsInv DEF Accept

LEMMA InvInductive ==
    /\ Init => Inv
    /\ Inv /\ [Next]_vars => Inv'
<1>1. ASSUME Init PROVE Inv
  <2>1. job \in [Workers -> Job] /\ \A w \in Workers : JobOK(job[w])
    BY <1>1, IdleOK DEF Init, JobOK
  <2> QED
    BY <1>1, <2>1, AbsentOK DEF Init, Inv
<1>2. ASSUME Inv, NEW w \in Workers, LoadOwner(w) PROVE Inv'
  <2> DEFINE r == job[w].req
             grants == policy.grants
  <2>1. JobOK(job[w]) /\ r \in Request /\ r.principal \in Principals
        /\ r.permissions \in SUBSET Permissions
    BY <1>2 DEF Inv, JobOK, LoadOwner, At, Request
  <2>2. CASE Transferred(grants, r.principal, r.permissions) = {} /\ Finish(w)
    BY <1>2, <2>2, IdleOK, GoodStep DEF LoadOwner, Finish, Inv
  <2>3. ASSUME NEW new \in Transferred(grants, r.principal, r.permissions),
               job' = [job EXCEPT ![w] = [at |-> "save", req |-> r, draft |-> new]]
        PROVE  Inv'
    <3>1. grants \in SUBSET Grant /\ WellOwned(grants)
      <4>1. grants # {}
        BY <2>3 DEF Transferred, Owners
      <4> QED
        BY <1>2, <4>1 DEF Inv, PolicyOK
    <3>2. new \in SUBSET Grant /\ WellOwned(new)
      BY <2>1, <3>1, TransferredWellOwned
    <3> DEFINE j == [at |-> "save", req |-> r, draft |-> new]
    <3>3. JobOK(j)
      BY <2>1, <3>2 DEF JobOK, Job
    <3>4. job' = [job EXCEPT ![w] = j]
      BY <2>3
    <3> QED
      BY <1>2, <3>3, <3>4, GoodStep DEF LoadOwner, Inv
  <2> QED
    BY <1>2, <2>2, <2>3 DEF LoadOwner
<1>3. ASSUME Inv, NEW w \in Workers, Save(w) \/ Insert(w) PROVE Inv'
  <2>1. job[w].draft \in SUBSET Grant /\ WellOwned(job[w].draft)
    BY <1>3 DEF Inv, JobOK, Job, Save, Insert, At
  <2>2. PolicyOK(policy') /\ Finish(w)
    BY <1>3, <2>1, DocOK DEF Save, Insert, Inv
  <2> QED
    BY <1>3, <2>2, IdleOK, GoodStep DEF Finish
<1>4. ASSUME Inv, NEW w \in Workers, DeleteResource(w) PROVE Inv'
  BY <1>4, AbsentOK, IdleOK, GoodStep DEF DeleteResource, Finish
<1>5. ASSUME Inv, NEW w \in Workers, Abort(w) PROVE Inv'
  BY <1>5, IdleOK, GoodStep DEF Abort, Finish, Inv
<1>6. ASSUME Inv, NEW w \in Workers, NEW u \in Users, PurgeUser(w, u) PROVE Inv'
  <2>1. PolicyOK(policy') /\ job' = job
    BY <1>6, AbsentOK DEF PurgeUser
  <2>2. job' = [job EXCEPT ![w] = job[w]] /\ JobOK(job[w])
    BY <1>6, <2>1 DEF Inv
  <2> QED
    BY <1>6, <2>1, <2>2, GoodStep
<1>7. ASSUME Inv, UNCHANGED vars PROVE Inv'
  BY <1>7 DEF vars, Inv, PolicyOK, JobOK, Job, Request, WellOwned, Owners
<1> QED
  BY <1>1, <1>2, <1>3, <1>4, <1>5, <1>6, <1>7, AcceptKeepsInv DEF Next

(* Policies and requests in flight stay well typed.                        *)
THEOREM ResourcePolicyTyping == Spec => []TypeOK
<1>1. Inv => TypeOK
  BY DEF Inv, PolicyOK, TypeOK
<1> QED
  BY <1>1, InvInductive, PTL DEF Spec

(* However many requests overlap, in any order and cut off anywhere, every *)
(* stored policy has exactly one owner, who holds MANAGE, and at most one  *)
(* grant for each principal.                                               *)
THEOREM PoliciesAlwaysOwned == Spec => []DraftsOwned
<1>1. Inv => DraftsOwned
  BY DEF Inv, PolicyOK, JobOK, DraftsOwned, OwnedByOne
<1> QED
  BY <1>1, InvInductive, PTL DEF Spec

(* However many requests overlap and write back stale copies, the stored    *)
(* policy of a resource has exactly one owner, who may manage it, and one   *)
(* grant for each principal: a conjunct of DraftsOwned.                     *)
THEOREM PoliciesHaveOneOwner == Spec => []OwnedByOne
<1>1. DraftsOwned => OwnedByOne
  BY DEF DraftsOwned
<1> QED
  BY <1>1, PoliciesAlwaysOwned, PTL

-----------------------------------------------------------------------------
(* One request at a time.  What a request in flight has worked out it has  *)
(* worked out on the present policy, with the authority its caller has on  *)
(* it: with one worker nobody writes in between.                           *)
OneWorker == \A v, w \in Workers : v = w

Managed(r, pol) == pol.stored /\ Manages(r.caller, pol.grants)

(* The grants that request r may make of policy pol.                       *)
Makes(r, pol, new) ==
    \/ r.op = "claim" /\ new \in Claimed(pol.grants, r.principal)
    \/ r.op = "claim_for" /\ new \in ClaimedForPrincipal(pol.grants, r.principal)
    \/ r.op = "grant" /\ Managed(r, pol)
       /\ new \in Granted(pol.grants, r.principal, r.permissions)
    \/ r.op = "revoke" /\ pol.stored /\ (r.caller = r.principal \/ Managed(r, pol))
       /\ new \in Revoked(pol.grants, r.principal, r.permissions)
    \/ r.op = "update" /\ Managed(r, pol)
       /\ \E g \in GrantsTo(pol.grants, r.principal) :
             new \in UpdatedGrant(pol.grants, g, r.permissions)
    \/ r.op = "transfer" /\ Managed(r, pol)
       /\ new \in Transferred(pol.grants, r.principal, r.permissions)

PlanOK(j, pol) ==
    /\ j.at = "idle" => j = Idle
    /\ j.at = "save" => Makes(j.req, pol, j.draft)
    /\ j.at = "insert" => j.req.op = "create" /\ j.draft = {OwnerGrant(j.req.principal)}
    /\ j.at = "load_owner" =>
          j.req.op = "transfer" /\ (j.req.caller # Admin => Managed(j.req, pol))
    /\ j.at = "delete" =>
          j.req.op = "delete" /\ (j.req.caller # Admin => Managed(j.req, pol))

SerialInv == Inv /\ \A w \in Workers : PlanOK(job[w], policy)

(* The state of AccessControl: who waits with which request.               *)
Pending == [w \in Workers |-> job[w].req]

LEMMA AdminManages ==
    ASSUME NEW grants \in SUBSET Grant, WellOwned(grants)
    PROVE  Manages(Admin, grants)
<1>1. PICK o \in grants : Owners(grants) = {o}
  BY DEF WellOwned
<1> DEFINE ps == PrincipalsOf(Admin, grants)
<1>2. o.owner /\ o.principal \in ps
  BY <1>1 DEF PrincipalsOf, Owners
<1> HIDE DEF ps
<1>3. o \in {h \in grants : h.principal \in ps}
  BY <1>2
<1>4. MANAGE \in Effective(grants, ps)
  BY <1>2, <1>3, ManageIsAPermission DEF Effective
<1> QED
  BY <1>4 DEF Manages, ps

LEMMA IdlePlanOK == ASSUME NEW pol PROVE PlanOK(Idle, pol)
BY DEF PlanOK, Idle

LEMMA SerialStep ==
    ASSUME OneWorker, SerialInv, Inv', NEW w \in Workers, NEW j,
           job' = [job EXCEPT ![w] = j], PlanOK(j, policy')
    PROVE  SerialInv'
<1>1. job'[w] = j
  BY DEF SerialInv, Inv
<1>2. \A v \in Workers : PlanOK(job'[v], policy')
  BY <1>1 DEF OneWorker
<1> QED
  BY <1>2 DEF SerialInv, PlanOK, Makes, Managed

LEMMA PendingStep ==
    ASSUME Inv, NEW w \in Workers, NEW j, job' = [job EXCEPT ![w] = j]
    PROVE  Pending' = [Pending EXCEPT ![w] = j.req]
<1>1. \A v \in Workers : job'[v] = IF v = w THEN j ELSE job[v]
  BY DEF Inv
<1> DEFINE moved == [v \in Workers |-> IF v = w THEN j.req ELSE Pending[v]]
<1>2. \A v \in Workers : job'[v].req = moved[v]
  BY <1>1 DEF Pending
<1>3. moved = [Pending EXCEPT ![w] = j.req]
  BY DEF Pending
<1>4. Pending' = [v \in Workers |-> job'[v].req]
  BY DEF Pending
<1>5. Pending' = [v \in Workers |-> moved[v]]
  BY <1>2, <1>4, Zenon
<1> QED
  BY <1>3, <1>5

(* A request that has been accepted waits, in AccessControl as well.       *)
LEMMA PlanInvokes ==
    ASSUME OneWorker, SerialInv, Inv', NEW w \in Workers, NEW step, NEW r \in Request,
           NEW draft, Plan(w, step, r, draft),
           PlanOK([at |-> step, req |-> r, draft |-> draft], policy)
    PROVE  SerialInv' /\ Atomic!Invoke(w)
<1> DEFINE j == [at |-> step, req |-> r, draft |-> draft]
<1>1. job' = [job EXCEPT ![w] = j] /\ policy' = policy /\ job[w].at = "idle"
  BY DEF Plan, At
<1>2. j.req = r
  OBVIOUS
<1> HIDE DEF j
<1>3. SerialInv'
  BY <1>1, SerialStep DEF j
<1>4. Pending' = [Pending EXCEPT ![w] = r]
  BY <1>1, <1>2, PendingStep DEF SerialInv
<1>5. Pending[w] = NoRequest
  BY <1>1 DEF SerialInv, PlanOK, Idle, Pending
<1>6. Atomic!Invoke(w)
  BY <1>1, <1>4, <1>5
  DEF Atomic!Invoke, Atomic!NoRequest, NoRequest, Pending, Atomic!Request, Request,
      Atomic!Ops, Ops, Atomic!Callers, Callers, Atomic!Principals, Principals
<1> QED
  BY <1>3, <1>6

LEMMA RevokeInvokes ==
    ASSUME OneWorker, SerialInv, Inv', NEW w \in Workers, NEW c \in Callers,
           NEW p \in Principals, NEW ps \in SUBSET Permissions, Revoke(w, c, p, ps)
    PROVE  SerialInv' /\ Atomic!Invoke(w)
<1> DEFINE r == Req("revoke", c, p, ps)
<1>1. PICK new \in Revoked(policy.grants, p, ps) : Plan(w, "save", r, new)
  BY DEF Revoke
<1>2. r \in Request
  BY RequestType DEF Ops
<1>3. Makes(r, policy, new)
  BY DEF Makes, Managed, Revoke, Req
<1>4. PlanOK([at |-> "save", req |-> r, draft |-> new], policy)
  BY <1>3 DEF PlanOK
<1> QED
  BY <1>1, <1>2, <1>4, PlanInvokes

LEMMA AcceptInvokes ==
    ASSUME OneWorker, SerialInv, Inv', NEW w \in Workers, Accept(w)
    PROVE  SerialInv' /\ Atomic!Invoke(w)
<1> DEFINE grants == policy.grants
           Goal == SerialInv' /\ Atomic!Invoke(w)
<1>0. /\ grants \in SUBSET Grant
      /\ \A g \in grants : policy.stored
      /\ Admin \in Callers /\ Users \subseteq Principals /\ Users \subseteq Callers
      /\ {} \in SUBSET Permissions
  BY DEF SerialInv, Inv, PolicyOK, Callers, Principals
<1> HIDE DEF Goal
<1>a. ASSUME NEW r \in Request, NEW new, Makes(r, policy, new), Plan(w, "save", r, new)
      PROVE  Goal
  <2>1. PlanOK([at |-> "save", req |-> r, draft |-> new], policy)
    BY <1>a DEF PlanOK
  <2> QED
    BY <1>a, <2>1, PlanInvokes DEF Goal
<1>1. ASSUME NEW u \in Users, ClaimResource(w, u) PROVE Goal
  <2>1. Req("claim", u, u, {}) \in Request
    BY <1>0, RequestType DEF Ops
  <2>2. PICK new \in Claimed(grants, u) : Plan(w, "save", Req("claim", u, u, {}), new)
    BY <1>1 DEF ClaimResource
  <2>3. Makes(Req("claim", u, u, {}), policy, new)
    BY <2>2 DEF Makes, Req
  <2> QED
    BY <1>a, <2>1, <2>2, <2>3
<1>2. ASSUME NEW p \in Principals, ClaimResourceForPrincipal(w, p) PROVE Goal
  <2>1. Req("claim_for", Admin, p, {}) \in Request
    BY <1>0, RequestType DEF Ops
  <2>2. PICK new \in ClaimedForPrincipal(grants, p) :
           Plan(w, "save", Req("claim_for", Admin, p, {}), new)
    BY <1>2 DEF ClaimResourceForPrincipal
  <2>3. Makes(Req("claim_for", Admin, p, {}), policy, new)
    BY <2>2 DEF Makes, Req
  <2> QED
    BY <1>a, <2>1, <2>2, <2>3
<1>3. ASSUME NEW p \in Principals, CreateResource(w, p) PROVE Goal
  <2> DEFINE r == Req("create", Admin, p, {})
  <2>1. r \in Request
    BY <1>0, RequestType DEF Ops
  <2>2. PlanOK([at |-> "insert", req |-> r, draft |-> {OwnerGrant(p)}], policy)
    BY DEF PlanOK, Req
  <2>3. Plan(w, "insert", r, {OwnerGrant(p)})
    BY <1>3 DEF CreateResource
  <2> QED
    BY <2>1, <2>2, <2>3, PlanInvokes DEF Goal
<1>4. ASSUME NEW c \in Callers, NEW ps \in SUBSET Permissions,
             NEW p \in Principals, GrantTo(w, c, p, ps)
      PROVE  Goal
  <2>1. Req("grant", c, p, ps) \in Request
    BY RequestType DEF Ops
  <2>2. PICK new \in Granted(grants, p, ps) : Plan(w, "save", Req("grant", c, p, ps), new)
    BY <1>4 DEF GrantTo
  <2>3. Makes(Req("grant", c, p, ps), policy, new)
    BY <1>4, <2>2 DEF Makes, Req, Managed, GrantTo
  <2> QED
    BY <1>a, <2>1, <2>2, <2>3
<1>5. ASSUME NEW c \in Callers, NEW ps \in SUBSET Permissions,
             NEW p \in Principals, AuthorizeTransfer(w, c, p, ps)
      PROVE  Goal
  <2> DEFINE r == Req("transfer", c, p, ps)
  <2>1. r \in Request
    BY RequestType DEF Ops
  <2>2. PlanOK([at |-> "load_owner", req |-> r, draft |-> {}], policy)
    BY <1>5 DEF PlanOK, Req, Managed, AuthorizeTransfer
  <2>3. Plan(w, "load_owner", r, {})
    BY <1>5 DEF AuthorizeTransfer
  <2> QED
    BY <2>1, <2>2, <2>3, PlanInvokes DEF Goal
<1>6. ASSUME NEW c \in Callers, NEW ps \in SUBSET Permissions,
             NEW g \in grants, UpdateGrantPermissions(w, c, g, ps)
      PROVE  Goal
  <2> DEFINE r == Req("update", c, g.principal, ps)
  <2>1. g.principal \in Principals /\ g \in GrantsTo(grants, g.principal)
    BY <1>0 DEF Grant, GrantsTo
  <2>2. r \in Request
    BY <2>1, RequestType DEF Ops
  <2>3. PICK new \in UpdatedGrant(grants, g, ps) : Plan(w, "save", r, new)
    BY <1>6 DEF UpdateGrantPermissions
  <2>4. Managed(r, policy)
    BY <1>0, <1>6 DEF Managed, Req, UpdateGrantPermissions
  <2>5. Makes(r, policy, new)
    BY <2>1, <2>3, <2>4 DEF Makes, Req
  <2> QED
    BY <1>a, <2>2, <2>3, <2>5
<1>7. ASSUME NEW c \in Callers, NEW g \in grants, RevokeGrant(w, c, g) PROVE Goal
  <2>1. g.principal \in Principals /\ g.permissions \in SUBSET Permissions
    BY <1>0 DEF Grant
  <2> QED
    BY <1>7, <2>1, RevokeInvokes DEF RevokeGrant, Goal
<1>8. ASSUME NEW c \in Callers, AuthorizeDelete(w, c) PROVE Goal
  <2> DEFINE r == Req("delete", c, Admin, {})
  <2>1. r \in Request
    BY DEF Req, Request, Ops
  <2>2. PlanOK([at |-> "delete", req |-> r, draft |-> {}], policy)
    BY <1>8 DEF PlanOK, Req, Managed, AuthorizeDelete
  <2>3. Plan(w, "delete", r, {})
    BY <1>8 DEF AuthorizeDelete
  <2> QED
    BY <2>1, <2>2, <2>3, PlanInvokes DEF Goal
<1> QED
  BY <1>1, <1>2, <1>3, <1>4, <1>5, <1>6, <1>7, <1>8, RevokeInvokes DEF Accept, Goal

-----------------------------------------------------------------------------
(* AccessControl works with the same methods of the aggregate.             *)
LEMMA SameMethods ==
    ASSUME NEW grants, NEW p, NEW ps
    PROVE  /\ Atomic!Claimed(grants, p) = Claimed(grants, p)
           /\ Atomic!ClaimedForPrincipal(grants, p) = ClaimedForPrincipal(grants, p)
           /\ Atomic!Granted(grants, p, ps) = Granted(grants, p, ps)
           /\ Atomic!Revoked(grants, p, ps) = Revoked(grants, p, ps)
           /\ Atomic!UpdatedGrant(grants, p, ps) = UpdatedGrant(grants, p, ps)
           /\ Atomic!Transferred(grants, p, ps) = Transferred(grants, p, ps)
           /\ Atomic!Manages(p, grants) = Manages(p, grants)
           /\ Atomic!GrantsTo(grants, p) = GrantsTo(grants, p)
           /\ Atomic!OwnerGrant(p) = OwnerGrant(p)
           /\ Atomic!Doc(grants) = Doc(grants)
           /\ Atomic!Absent = Absent
<1>1. /\ Atomic!GrantsTo(grants, p) = GrantsTo(grants, p)
      /\ Atomic!Owners(grants) = Owners(grants)
      /\ Atomic!OwnerGrant(p) = OwnerGrant(p)
      /\ Atomic!PlainGrant(p, ps) = PlainGrant(p, ps)
      /\ Atomic!Doc(grants) = Doc(grants)
      /\ Atomic!Absent = Absent
  BY DEF Atomic!GrantsTo, GrantsTo, Atomic!Owners, Owners, Atomic!OwnerGrant, OwnerGrant,
         Atomic!PlainGrant, PlainGrant, Atomic!Doc, Doc, Atomic!Absent, Absent
<1>2. \A g, qs : Atomic!Reset(grants, g, qs) = Reset(grants, g, qs)
  BY DEF Atomic!Reset, Reset
<1>3. Atomic!Claimed(grants, p) = Claimed(grants, p)
  BY <1>1 DEF Atomic!Claimed, Claimed
<1>4. Atomic!ClaimedForPrincipal(grants, p) = ClaimedForPrincipal(grants, p)
  BY <1>1, <1>2, <1>3 DEF Atomic!ClaimedForPrincipal, ClaimedForPrincipal
<1>5. Atomic!Granted(grants, p, ps) = Granted(grants, p, ps)
  BY <1>1, <1>2 DEF Atomic!Granted, Granted
<1>6. Atomic!Revoked(grants, p, ps) = Revoked(grants, p, ps)
  BY <1>1, <1>2 DEF Atomic!Revoked, Revoked
<1>7. Atomic!UpdatedGrant(grants, p, ps) = UpdatedGrant(grants, p, ps)
  BY <1>1, <1>2 DEF Atomic!UpdatedGrant, UpdatedGrant
<1>8. Atomic!Transferred(grants, p, ps) = Transferred(grants, p, ps)
  BY DEF Atomic!Transferred, Transferred, Atomic!Owners, Owners, Atomic!OwnerGrant,
         OwnerGrant, Atomic!PlainGrant, PlainGrant
<1>9. Atomic!Manages(p, grants) = Manages(p, grants)
  BY DEF Atomic!Manages, Manages, Atomic!Effective, Effective, Atomic!PrincipalsOf,
         PrincipalsOf, Atomic!Owners, Owners
<1> QED
  BY <1>1, <1>3, <1>4, <1>5, <1>6, <1>7, <1>8, <1>9

(* Writing what a request makes of the present policy is its effect.       *)
LEMMA MakesEffect ==
    ASSUME NEW r, NEW new, Makes(r, policy, new), policy' = Doc(new)
    PROVE  Atomic!Effect(r)
BY SameMethods DEF Makes, Managed, Atomic!Effect

-----------------------------------------------------------------------------
(* The other steps: what ends a request acts or refuses it.                *)
AtomicStep == Atomic!Next \/ UNCHANGED <<policy, Pending>>

LEMMA FinishEnds ==
    ASSUME OneWorker, SerialInv, Inv', NEW w \in Workers, Finish(w)
    PROVE  /\ SerialInv'
           /\ Pending' = [Pending EXCEPT ![w] = NoRequest]
           /\ policy' = policy => Atomic!Refuse(w)
           /\ Atomic!Effect(job[w].req) => Atomic!Act(w)
<1>1. job' = [job EXCEPT ![w] = Idle] /\ Idle.req = NoRequest
  BY DEF Finish, Idle
<1>2. SerialInv'
  BY <1>1, IdlePlanOK, SerialStep
<1>3. Pending' = [Pending EXCEPT ![w] = NoRequest]
  BY <1>1, PendingStep DEF SerialInv
<1>4. policy' = policy => Atomic!Refuse(w)
  BY <1>3 DEF Atomic!Refuse, Pending, Atomic!NoRequest, NoRequest
<1>5. Pending[w] = job[w].req
  BY DEF Pending
<1>6. Atomic!Effect(job[w].req) => Atomic!Act(w)
  BY <1>3, <1>5 DEF Atomic!Act, Pending, Atomic!NoRequest, NoRequest
<1> QED
  BY <1>2, <1>3, <1>4, <1>6

LEMMA SerialSteps ==
    ASSUME OneWorker, SerialInv, Inv', [Next]_vars
    PROVE  SerialInv' /\ AtomicStep
<1> DEFINE Goal == SerialInv' /\ AtomicStep
<1> HIDE DEF Goal
<1>0. /\ Inv /\ PolicyOK(policy)
      /\ \A w \in Workers : JobOK(job[w]) /\ PlanOK(job[w], policy)
  BY DEF SerialInv, Inv
<1>a. ASSUME NEW w \in Workers, Atomic!Invoke(w) \/ Atomic!Act(w) \/ Atomic!Refuse(w)
      PROVE  AtomicStep
  BY <1>a DEF AtomicStep, Atomic!Next
<1>1. ASSUME NEW w \in Workers, Accept(w) PROVE Goal
  BY <1>1, <1>a, AcceptInvokes DEF Goal
<1>2. ASSUME NEW w \in Workers, LoadOwner(w) PROVE Goal
  <2> DEFINE r == job[w].req
             grants == policy.grants
  <2>1. r.op = "transfer" /\ (r.caller # Admin => Managed(r, policy))
    BY <1>0, <1>2 DEF LoadOwner, At, PlanOK
  <2>2. CASE Finish(w)
    BY <1>2, <1>a, <2>2, FinishEnds DEF LoadOwner, Goal
  <2>3. ASSUME NEW new \in Transferred(grants, r.principal, r.permissions),
               job' = [job EXCEPT ![w] = [at |-> "save", req |-> r, draft |-> new]]
        PROVE  Goal
    <3> DEFINE j == [at |-> "save", req |-> r, draft |-> new]
    <3>1. grants \in SUBSET Grant /\ policy.stored /\ WellOwned(grants)
      <4>1. grants # {}
        BY <2>3 DEF Transferred, Owners
      <4> QED
        BY <1>0, <4>1 DEF PolicyOK
    <3>2. Managed(r, policy)
      BY <2>1, <3>1, AdminManages DEF Managed
    <3>3. PlanOK(j, policy)
      BY <2>1, <2>3, <3>2 DEF PlanOK, Makes
    <3>4. policy' = policy /\ job' = [job EXCEPT ![w] = j] /\ j.req = Pending[w]
      BY <1>2, <2>3 DEF LoadOwner, Pending
    <3> HIDE DEF j
    <3>5. SerialInv'
      BY <3>3, <3>4, SerialStep
    <3>6. Pending' = [Pending EXCEPT ![w] = Pending[w]]
      BY <1>0, <3>4, PendingStep
    <3>7. Pending' = Pending
      BY <3>6 DEF Pending
    <3> QED
      BY <3>4, <3>5, <3>7 DEF AtomicStep, Goal
  <2> QED
    BY <1>2, <2>2, <2>3 DEF LoadOwner
<1>3. ASSUME NEW w \in Workers, Save(w) PROVE Goal
  <2>1. Makes(job[w].req, policy, job[w].draft)
    BY <1>0, <1>3 DEF Save, At, PlanOK
  <2>2. Atomic!Effect(job[w].req)
    BY <1>3, <2>1, MakesEffect DEF Save
  <2> QED
    BY <1>3, <1>a, <2>2, FinishEnds DEF Save, Goal
<1>4. ASSUME NEW w \in Workers, Insert(w) PROVE Goal
  <2>1. CASE policy.stored
    BY <1>3, <1>4, <1>a, <2>1, FinishEnds DEF Insert, Goal
  <2>2. CASE ~policy.stored
    <3>1. policy' = Doc({OwnerGrant(job[w].req.principal)}) /\ job[w].req.op = "create"
      BY <1>0, <1>4, <2>2 DEF Insert, At, PlanOK
    <3>2. Atomic!Effect(job[w].req)
      BY <2>2, <3>1, SameMethods DEF Atomic!Effect
    <3> QED
      BY <1>4, <1>a, <3>2, FinishEnds DEF Insert, Goal
  <2> QED
    BY <2>1, <2>2
<1>5. ASSUME NEW w \in Workers, DeleteResource(w) PROVE Goal
  <2> DEFINE r == job[w].req
  <2>1. r.op = "delete" /\ (r.caller # Admin => Managed(r, policy)) /\ policy' = Absent
    BY <1>0, <1>5 DEF DeleteResource, At, PlanOK
  <2>2. CASE policy.stored
    <3>1. Managed(r, policy)
      BY <1>0, <2>1, <2>2, AdminManages DEF Managed, PolicyOK
    <3>2. Atomic!Effect(r)
      BY <2>1, <3>1, SameMethods DEF Atomic!Effect, Managed
    <3> QED
      BY <1>5, <1>a, <3>2, FinishEnds DEF DeleteResource, Goal
  <2>3. CASE ~policy.stored
    <3>1. policy = Absent
      BY <1>0, <2>3 DEF PolicyOK, Absent
    <3> QED
      BY <1>5, <1>a, <2>1, <3>1, FinishEnds DEF DeleteResource, Goal
  <2> QED
    BY <2>2, <2>3
<1>6. ASSUME NEW w \in Workers, Abort(w) PROVE Goal
  BY <1>6, <1>a, FinishEnds DEF Abort, Goal
<1>7. ASSUME NEW w \in Workers, NEW u \in Users, PurgeUser(w, u) PROVE Goal
  <2>1. policy' = Absent /\ job' = job /\ Pending' = Pending
    BY <1>7 DEF PurgeUser, Pending
  <2>2. job' = [job EXCEPT ![w] = job[w]] /\ PlanOK(job[w], policy')
    BY <1>0, <1>7, <2>1 DEF Inv, PurgeUser, At, PlanOK
  <2>3. SerialInv'
    BY <2>2, SerialStep
  <2>4. Atomic!PurgeUser(u)
    BY <1>7, <2>1, SameMethods DEF PurgeUser, Atomic!PurgeUser, Pending
  <2> QED
    BY <2>3, <2>4 DEF AtomicStep, Atomic!Next, Goal
<1>8. CASE UNCHANGED vars
  <2>1. policy' = policy /\ job' = job /\ Pending' = Pending
    BY <1>8 DEF vars, Pending
  <2> QED
    BY <2>1 DEF SerialInv, PlanOK, Makes, Managed, AtomicStep, Goal
<1> QED
  BY <1>1, <1>2, <1>3, <1>4, <1>5, <1>6, <1>7, <1>8 DEF Next, Goal

(* With one request at a time the service implements AccessControl: what    *)
(* ACLService reads, works out and writes back acts in one step, on the     *)
(* policy it replaces and with the authority its caller has on that.        *)
THEOREM OneWorkerActsAtomically ==
    ASSUME OneWorker
    PROVE  Spec => ActsAtomically
<1>1. Init => SerialInv /\ Atomic!Init
  <2>1. Init => SerialInv
    BY InvInductive, IdlePlanOK DEF Init, SerialInv
  <2>2. Init => Atomic!Init
    BY SameMethods DEF Init, Atomic!Init, Idle, Atomic!NoRequest, NoRequest
  <2> QED
    BY <2>1, <2>2
<1>2. SerialInv /\ [Next]_vars => SerialInv' /\ [Atomic!Next]_<<policy, Pending>>
  <2> SUFFICES ASSUME SerialInv, [Next]_vars
               PROVE  SerialInv' /\ [Atomic!Next]_<<policy, Pending>>
    OBVIOUS
  <2>1. Inv'
    BY InvInductive DEF SerialInv
  <2> QED
    BY <2>1, SerialSteps DEF AtomicStep
<1>3. SerialInv /\ [Next]_vars
        => SerialInv' /\ [Atomic!Next]_<<policy, [w \in Workers |-> job[w].req]>>
  BY <1>2 DEF Pending
<1> QED
  BY <1>1, <1>3, PTL DEF Spec, ActsAtomically, Atomic!Spec

-----------------------------------------------------------------------------
(* What completing a claim or a revocation does to the present policy.     *)
LEMMA SerialAlways == ASSUME OneWorker PROVE Spec => []SerialInv
<1>1. Init => SerialInv
  BY InvInductive, IdlePlanOK DEF Init, SerialInv
<1>2. SerialInv /\ [Next]_vars => SerialInv'
  BY InvInductive, SerialSteps DEF SerialInv
<1> QED
  BY <1>1, <1>2, PTL DEF Spec

(* A step that ends a request at its save writes its draft or nothing.     *)
LEMMA CompletionWrites ==
    ASSUME OneWorker, SerialInv, [Next]_vars, NEW ops, NEW w \in Workers, Completes(w, ops)
    PROVE  /\ job[w].req.op \in ops
           /\ policy' = policy \/ (Makes(job[w].req, policy, job[w].draft)
                                   /\ policy' = Doc(job[w].draft))
<1>0. job[w].at = "save" /\ job[w].req.op \in ops /\ job'[w].at # "save"
  BY DEF Completes, At
<1>1. ~UNCHANGED vars
  BY <1>0 DEF vars
<1>2. PICK v \in Workers :
         \/ Accept(v) \/ LoadOwner(v) \/ Save(v) \/ Insert(v) \/ DeleteResource(v)
         \/ Abort(v) \/ \E u \in Users : PurgeUser(v, u)
  BY <1>1 DEF Next
<1>3. v = w
  BY DEF OneWorker
<1>4. Save(w) \/ Abort(w)
  <2>1. Accept(w) => job[w].at = "idle"
    BY DEF Accept, ClaimResource, ClaimResourceForPrincipal, CreateResource, GrantTo, Revoke,
           RevokeGrant, UpdateGrantPermissions, AuthorizeTransfer, AuthorizeDelete, Plan, At
  <2> QED
    BY <1>0, <1>2, <1>3, <2>1 DEF LoadOwner, Insert, DeleteResource, PurgeUser, At
<1> QED
  BY <1>0, <1>4 DEF Save, Abort, SerialInv, PlanOK

LEMMA ClaimKeepsOwners ==
    ASSUME NEW grants \in SUBSET Grant, NEW p,
           NEW new, new \in Claimed(grants, p) \/ new \in ClaimedForPrincipal(grants, p)
    PROVE  \A o \in Owners(grants) : \E q \in Owners(new) : q.principal = o.principal
<1>1. CASE new \in Claimed(grants, p)
  BY <1>1 DEF Claimed, Owners
<1>2. CASE new \in ClaimedForPrincipal(grants, p) /\ new \notin Claimed(grants, p)
  <2>1. PICK g \in GrantsTo(grants, p) : new = Reset(grants, g, Permissions)
    BY <1>2 DEF ClaimedForPrincipal
  <2> DEFINE h == [g EXCEPT !.permissions = Permissions]
  <2>2. g \in Grant /\ h.principal = g.principal /\ h.owner = g.owner
    BY <2>1, ResetFields DEF GrantsTo
  <2> HIDE DEF h
  <2>3. new = (grants \ {g}) \cup {h}
    BY <2>1 DEF Reset, h
  <2> QED
    BY <2>2, <2>3 DEF Owners
<1> QED
  BY <1>1, <1>2

(* With one request at a time, completing a claim takes the resource from  *)
(* no owner it has at that moment.                                         *)
THEOREM OneWorkerClaimsTakeNothing ==
    ASSUME OneWorker
    PROVE  Spec => ClaimTakesNothing
<1> DEFINE Keeps == \A w \in Workers :
              Completes(w, {"claim", "claim_for"}) => OwnersOf(policy) \subseteq OwnersOf(policy')
<1>1. ASSUME SerialInv, [Next]_vars PROVE Keeps
  <2> SUFFICES ASSUME NEW w \in Workers, Completes(w, {"claim", "claim_for"}),
                      policy' # policy
               PROVE  OwnersOf(policy) \subseteq OwnersOf(policy')
    OBVIOUS
  <2> DEFINE r == job[w].req
             new == job[w].draft
  <2>1. r.op \in {"claim", "claim_for"} /\ Makes(r, policy, new) /\ policy' = Doc(new)
    BY <1>1, CompletionWrites
  <2>2. \/ new \in Claimed(policy.grants, r.principal)
        \/ new \in ClaimedForPrincipal(policy.grants, r.principal)
    BY <2>1 DEF Makes
  <2>3. policy.grants \in SUBSET Grant
    BY <1>1 DEF SerialInv, Inv, PolicyOK
  <2>4. \A o \in Owners(policy.grants) : \E q \in Owners(new) : q.principal = o.principal
    BY <2>2, <2>3, ClaimKeepsOwners
  <2>5. policy'.grants = new
    BY <2>1 DEF Doc
  <2> QED
    BY <2>4, <2>5 DEF OwnersOf
<1>2. Spec => [][Keeps]_vars
  BY <1>1, SerialAlways, PTL DEF Spec
<1> QED
  BY <1>2 DEF ClaimTakesNothing

LEMMA EffectiveOfOne ==
    ASSUME NEW grants, NEW p, NEW x
    PROVE  x \in Effective(grants, {p}) <=>
              \E g \in grants : g.principal = p
                                /\ x \in IF g.owner THEN Permissions ELSE g.permissions
BY DEF Effective

LEMMA RevokingGivesNoGrant ==
    ASSUME NEW grants \in SUBSET Grant, NEW p, NEW ps, NEW new \in Revoked(grants, p, ps),
           NEW q, \A g \in Owners(new) : g.principal # q
    PROVE  Effective(new, {q}) \subseteq Effective(grants, {q})
<1> SUFFICES ASSUME NEW x \in Effective(new, {q}) PROVE x \in Effective(grants, {q})
  OBVIOUS
<1>1. PICK h \in new : h.principal = q /\ x \in IF h.owner THEN Permissions ELSE h.permissions
  BY EffectiveOfOne
<1>2. ~h.owner /\ x \in h.permissions
  BY <1>1 DEF Owners
<1>3. PICK g \in grants : g.principal = q /\ ~g.owner /\ x \in g.permissions
  <2>1. CASE h \in grants
    BY <1>1, <1>2, <2>1
  <2>2. CASE h \notin grants
    <3>1. PICK g \in grants : new = Reset(grants, g, g.permissions \ ps)
      BY <2>2 DEF Revoked, GrantsTo
    <3>2. h = [g EXCEPT !.permissions = g.permissions \ ps] /\ g \in Grant
      BY <2>2, <3>1 DEF Reset
    <3>3. g.permissions \ ps \in SUBSET Permissions
      BY <3>2 DEF Grant
    <3>4. h.principal = g.principal /\ h.owner = g.owner /\ h.permissions = g.permissions \ ps
      BY <3>2, <3>3, ResetFields
    <3> QED
      BY <1>1, <1>2, <3>4
  <2> QED
    BY <2>1, <2>2
<1> QED
  BY <1>3, EffectiveOfOne

(* With one request at a time, completing a revocation gives no permission  *)
(* to anybody who does not own the resource.                                *)
THEOREM OneWorkerRevocationsGiveNothing ==
    ASSUME OneWorker
    PROVE  Spec => RevokingGivesNothing
<1> DEFINE GivesNothing == \A w \in Workers :
              Completes(w, {"revoke"}) /\ policy.stored =>
                 \A p \in Principals \ OwnersOf(policy') :
                    Effective(policy'.grants, {p}) \subseteq Effective(policy.grants, {p})
<1>1. ASSUME SerialInv, [Next]_vars PROVE GivesNothing
  <2> SUFFICES ASSUME NEW w \in Workers, Completes(w, {"revoke"}), policy' # policy,
                      NEW p \in Principals \ OwnersOf(policy')
               PROVE  Effective(policy'.grants, {p}) \subseteq Effective(policy.grants, {p})
    OBVIOUS
  <2> DEFINE r == job[w].req
             new == job[w].draft
  <2>1. r.op = "revoke" /\ Makes(r, policy, new) /\ policy' = Doc(new)
    BY <1>1, CompletionWrites
  <2>2. new \in Revoked(policy.grants, r.principal, r.permissions)
    BY <2>1 DEF Makes
  <2>3. policy.grants \in SUBSET Grant /\ policy'.grants = new
    BY <1>1, <2>1 DEF SerialInv, Inv, PolicyOK, Doc
  <2>4. \A g \in Owners(new) : g.principal # p
    BY <2>3 DEF OwnersOf
  <2> QED
    BY <2>2, <2>3, <2>4, RevokingGivesNoGrant
<1>2. Spec => [][GivesNothing]_vars
  BY <1>1, SerialAlways, PTL DEF Spec
<1> QED
  BY <1>2 DEF RevokingGivesNothing

-----------------------------------------------------------------------------
(* ABAC: what is put to it.                                                *)

Asked == request \in AccessRequests \cup {Unstated}

LEMMA RequestIsTyped == AskSpec => []Asked
<1>1. AskInit => Asked
  BY DEF AskInit, Asked
<1>2. Asked /\ [Ask]_request => Asked'
  BY DEF Asked, Ask
<1> QED
  BY <1>1, <1>2, PTL DEF AskSpec

-----------------------------------------------------------------------------
(* Days and times of day.                                                  *)

(* Quotient and remainder.                                                 *)
LEMMA DivMod ==
    ASSUME NEW d \in Nat \ {0}, NEW x \in Int
    PROVE  /\ x % d \in 0..d - 1
           /\ x \div d \in Int
           /\ x = d * (x \div d) + (x % d)
OBVIOUS

LEMMA DivModUnique ==
    ASSUME NEW d \in Nat \ {0}, NEW q \in Int, NEW r \in 0..d - 1, NEW x, x = d * q + r
    PROVE  x \div d = q /\ x % d = r
OBVIOUS

(* Less than a day later.                                                  *)
LEMMA Later ==
    ASSUME NEW d \in Nat \ {0}, NEW x \in Int, NEW k \in 0..d - 1
    PROVE  /\ (x + k) % d = IF (x % d) + k < d THEN (x % d) + k ELSE (x % d) + k - d
           /\ (x + k) \div d = IF (x % d) + k < d THEN x \div d ELSE (x \div d) + 1
<1> DEFINE q == x \div d
           r == x % d
<1>1. r \in 0..d - 1 /\ q \in Int /\ x = d * q + r
  BY DivMod
<1> HIDE DEF q, r
<1>2. CASE r + k < d
  <2> DEFINE y == x + k
             s == r + k
  <2>1. y = d * q + s /\ s \in 0..d - 1
    BY <1>1, <1>2
  <2> HIDE DEF y, s
  <2>2. y \div d = q /\ y % d = s
    BY <1>1, <2>1, DivModUnique, Zenon
  <2> QED
    BY <1>2, <2>2 DEF q, r, y, s
<1>3. CASE ~(r + k < d)
  <2>1. d * (q + 1) = d * q + d
    BY <1>1
  <2> DEFINE y == x + k
             p == q + 1
             s == r + k - d
  <2>2. y = d * p + s /\ s \in 0..d - 1 /\ p \in Int
    BY <1>1, <1>3, <2>1
  <2> HIDE DEF y, p, s
  <2>3. y \div d = p /\ y % d = s
    BY <2>2, DivModUnique, Zenon
  <2> QED
    BY <1>3, <2>3 DEF q, r, y, p, s
<1> QED
  BY <1>2, <1>3

(* The next instant, also of days of a single one.                         *)
LEMMA NextInstant ==
    ASSUME NEW d \in Nat \ {0}, NEW x \in Int
    PROVE  /\ (x % d) # d - 1 => (x + 1) % d = (x % d) + 1 /\ (x + 1) \div d = x \div d
           /\ (x % d) = d - 1 => (x + 1) % d = 0 /\ (x + 1) \div d = (x \div d) + 1
<1>1. CASE d = 1
  <2>1. x % d = 0 /\ x = d * (x \div d) + (x % d) /\ x \div d \in Int
    BY <1>1, DivMod
  <2>2. x = x \div d
    BY <1>1, <2>1
  <2> DEFINE y == x + 1
  <2>3. y = d * y + 0 /\ 0 \in 0..d - 1 /\ y \in Int
    BY <1>1
  <2> HIDE DEF y
  <2>4. y \div d = y /\ y % d = 0
    BY <2>3, DivModUnique, Zenon
  <2> QED
    BY <1>1, <2>1, <2>2, <2>4 DEF y
<1>2. CASE d # 1
  <2>1. 1 \in 0..d - 1
    BY <1>2
  <2>2. /\ (x + 1) % d = IF (x % d) + 1 < d THEN (x % d) + 1 ELSE (x % d) + 1 - d
        /\ (x + 1) \div d = IF (x % d) + 1 < d THEN x \div d ELSE (x \div d) + 1
    BY <2>1, Later
  <2> QED
    BY <2>2, DivMod
<1> QED
  BY <1>1, <1>2

LEMMA InstantsAreInts ==
    ASSUME NEW t \in Int, NEW z \in Zones
    PROVE  /\ Local(t, z) \in Int
           /\ Local(t + 1, z) = Local(t, z) + 1
           /\ \A k \in Int : Local(t + k, z) = Local(t, z) + k
           /\ Day \in Nat \ {0}
BY DayIsPositive, OffsetsAreShorterThanADay DEF Local

\* What WindowsOpenAndClose says of one window, one zone and one instant.
OpensAndCloses(w, t, z) ==
    /\ AtStart(w, t, z) => InWindow(w, t, z)
    /\ ~InWindow(w, t, z) /\ InWindow(w, t + 1, z) => AtStart(w, t + 1, z)
    /\ AtEnd(w, t, z) => InWindow(w, t, z)
    /\ InWindow(w, t, z) /\ ~InWindow(w, t + 1, z) => AtEnd(w, t, z)
    /\ w.mode = "time_of_day" => \E i \in t..t + Day - 1 : InWindow(w, i, z)

LEMMA InstantWindows ==
    ASSUME NEW w \in Window, w.mode \in {"wildcard", "aware", "datetime"}, ValidWindow(w),
           NEW t \in Int, NEW z \in Zones
    PROVE  OpensAndCloses(w, t, z)
<1>1. w.mode \in {"aware", "datetime"} => w.start <= w.end
  BY DEF ValidWindow
<1>2. w.start \in Int /\ w.end \in Int
  BY DEF Window
<1>3. Local(t, z) \in Int /\ Local(t + 1, z) = Local(t, z) + 1
  BY InstantsAreInts
<1>4. CASE w.mode = "wildcard"
  BY <1>4 DEF OpensAndCloses, InWindow, AtStart, AtEnd
<1>5. CASE w.mode = "aware"
  <2>1. \A i \in Int : /\ InWindow(w, i, z) <=> w.start <= i /\ i <= w.end
                       /\ AtStart(w, i, z) <=> i = w.start
                       /\ AtEnd(w, i, z) <=> i = w.end
    BY <1>5 DEF InWindow, AtStart, AtEnd
  <2> QED
    BY <1>1, <1>2, <1>5, <2>1 DEF OpensAndCloses
<1>6. CASE w.mode = "datetime"
  <2>1. \A i \in Int : /\ InWindow(w, i, z) <=> w.start <= Local(i, z) /\ Local(i, z) <= w.end
                       /\ AtStart(w, i, z) <=> Local(i, z) = w.start
                       /\ AtEnd(w, i, z) <=> Local(i, z) = w.end
    BY <1>6 DEF InWindow, AtStart, AtEnd
  <2> QED
    BY <1>1, <1>2, <1>3, <1>6, <2>1 DEF OpensAndCloses
<1> QED
  BY <1>4, <1>5, <1>6

(* Some instant of any day that begins at t is c o'clock.                  *)
LEMMA EveryTimeComes ==
    ASSUME NEW t \in Int, NEW z \in Zones, NEW c \in 0..Day - 1
    PROVE  \E i \in t..t + Day - 1 : TimeOfDay(i, z) = c
<1> DEFINE x == Local(t, z)
           r == x % Day
<1>1. x \in Int /\ Day \in Nat \ {0} /\ \A k \in Int : Local(t + k, z) = x + k
  BY InstantsAreInts
<1>2. r \in 0..Day - 1
  BY <1>1, DivMod
<1> DEFINE k == IF r <= c THEN c - r ELSE c - r + Day
<1>3. k \in 0..Day - 1
  BY <1>1, <1>2
<1>4. (x + k) % Day = IF r + k < Day THEN r + k ELSE r + k - Day
  BY <1>1, <1>3, Later
<1> HIDE DEF r
<1>5. (x + k) % Day = c
  BY <1>1, <1>2, <1>4
<1> HIDE DEF x, k
<1>6. TimeOfDay(t + k, z) = c
  BY <1>1, <1>3, <1>5 DEF TimeOfDay
<1> QED
  BY <1>1, <1>3, <1>6

LEMMA DailyWindows ==
    ASSUME NEW w \in Window, w.mode = "time_of_day", w.start \in 0..Day - 1, w.end \in 0..Day - 1,
           NEW t \in Int, NEW z \in Zones
    PROVE  OpensAndCloses(w, t, z)
<1> DEFINE c == TimeOfDay(t, z)
           n == TimeOfDay(t + 1, z)
<1>1. /\ Local(t, z) \in Int /\ Local(t + 1, z) = Local(t, z) + 1
      /\ Day \in Nat \ {0}
  BY InstantsAreInts
<1>2. /\ c \in 0..Day - 1
      /\ c # Day - 1 => n = c + 1
      /\ c = Day - 1 => n = 0
  BY <1>1, DivMod, NextInstant DEF TimeOfDay
<1>3. \A i : /\ InWindow(w, i, z) <=> InTimeOfDay(w.start, w.end, TimeOfDay(i, z))
             /\ AtStart(w, i, z) <=> TimeOfDay(i, z) = w.start
             /\ AtEnd(w, i, z) <=> TimeOfDay(i, z) = w.end
  BY DEF InWindow, AtStart, AtEnd
<1>4. \E i \in t..t + Day - 1 : InWindow(w, i, z)
  <2>1. PICK i \in t..t + Day - 1 : TimeOfDay(i, z) = w.start
    BY EveryTimeComes
  <2>2. InTimeOfDay(w.start, w.end, w.start)
    BY <1>1 DEF InTimeOfDay
  <2> QED
    BY <1>3, <2>1, <2>2
<1> HIDE DEF c, n
<1>5. /\ c = w.start => InTimeOfDay(w.start, w.end, c)
      /\ ~InTimeOfDay(w.start, w.end, c) /\ InTimeOfDay(w.start, w.end, n) => n = w.start
      /\ c = w.end => InTimeOfDay(w.start, w.end, c)
      /\ InTimeOfDay(w.start, w.end, c) /\ ~InTimeOfDay(w.start, w.end, n) => c = w.end
  BY <1>1, <1>2 DEF InTimeOfDay
<1> QED
  BY <1>3, <1>4, <1>5 DEF OpensAndCloses, c, n

LEMMA DateWindows ==
    ASSUME NEW w \in Window, w.mode = "date", ValidWindow(w), NEW t \in Int, NEW z \in Zones
    PROVE  OpensAndCloses(w, t, z)
<1> DEFINE x == Local(t, z)
           d == DateOf(t, z)
           n == DateOf(t + 1, z)
           r == x % Day
<1>1. /\ x \in Int /\ Local(t + 1, z) = x + 1
      /\ Day \in Nat \ {0}
  BY InstantsAreInts
<1>2. /\ r \in 0..Day - 1 /\ d \in Int /\ x = Day * d + r
      /\ r # Day - 1 => n = d
      /\ r = Day - 1 => n = d + 1
  BY <1>1, DivMod, NextInstant DEF DateOf
<1>3. \A i : /\ InWindow(w, i, z) <=> w.start <= DateOf(i, z) /\ DateOf(i, z) <= w.end
             /\ AtStart(w, i, z) <=> Local(i, z) = w.start * Day
             /\ AtEnd(w, i, z) <=> Local(i, z) = (w.end + 1) * Day - 1
  BY DEF InWindow, AtStart, AtEnd
<1>4. w.start \in Int /\ w.end \in Int /\ w.start <= w.end
  BY DEF Window, ValidWindow
<1>5. x = w.start * Day => d = w.start
  <2> SUFFICES ASSUME x = w.start * Day PROVE d = w.start
    OBVIOUS
  <2>1. x = Day * w.start + 0 /\ 0 \in 0..Day - 1
    BY <1>1, <1>4
  <2>2. x \div Day = w.start
    BY <1>1, <1>4, <2>1, DivModUnique, Zenon
  <2> QED
    BY <2>2 DEF DateOf
<1>6. x = (w.end + 1) * Day - 1 => d = w.end
  <2> SUFFICES ASSUME x = (w.end + 1) * Day - 1 PROVE d = w.end
    OBVIOUS
  <2>1. x = Day * w.end + (Day - 1) /\ Day - 1 \in 0..Day - 1
    BY <1>1, <1>4
  <2>2. x \div Day = w.end
    BY <1>1, <1>4, <2>1, DivModUnique, Zenon
  <2> QED
    BY <2>2 DEF DateOf
<1> HIDE DEF x, d, n, r
<1>7. ASSUME ~(w.start <= d /\ d <= w.end), w.start <= n, n <= w.end
      PROVE  x + 1 = w.start * Day
  <2>1. r = Day - 1 /\ w.start = d + 1
    BY <1>1, <1>2, <1>4, <1>7
  <2>2. Day * (d + 1) = Day * d + Day /\ (d + 1) * Day = Day * (d + 1)
    BY <1>1, <1>2
  <2> QED
    BY <1>1, <1>2, <2>1, <2>2
<1>8. ASSUME w.start <= d, d <= w.end, ~(w.start <= n /\ n <= w.end)
      PROVE  x = (w.end + 1) * Day - 1
  <2>1. r = Day - 1 /\ w.end = d
    BY <1>1, <1>2, <1>4, <1>8
  <2>2. (d + 1) * Day = Day * d + Day
    BY <1>1, <1>2
  <2> QED
    BY <1>1, <1>2, <2>1, <2>2
<1>9. /\ AtStart(w, t, z) => InWindow(w, t, z)
      /\ AtEnd(w, t, z) => InWindow(w, t, z)
  BY <1>3, <1>4, <1>5, <1>6 DEF x, d
<1>10. ~InWindow(w, t, z) /\ InWindow(w, t + 1, z) => AtStart(w, t + 1, z)
  BY <1>1, <1>3, <1>7 DEF d, n
<1>11. InWindow(w, t, z) /\ ~InWindow(w, t + 1, z) => AtEnd(w, t, z)
  BY <1>3, <1>8 DEF x, d, n
<1> QED
  BY <1>9, <1>10, <1>11 DEF OpensAndCloses

(* Whatever windows policies have, in whatever zones and for days of any     *)
(* length: they open at their start and close after their end.             *)
THEOREM WindowsAreSound == AskSpec => []WindowsOpenAndClose
<1>1. Asked => WindowsOpenAndClose
  <2> SUFFICES ASSUME Asked, request # Unstated, request.time # Unstated,
                      NEW w \in Windows, NEW z \in Zones
               PROVE  OpensAndCloses(w, request.time, z)
    BY DEF WindowsOpenAndClose, OpensAndCloses
  <2>1. request.time \in Int
    BY InputsAreTyped DEF Asked, AccessRequest
  <2>2. /\ w \in Window /\ ValidWindow(w)
        /\ w.mode = "time_of_day" => w.start \in 0..Day - 1 /\ w.end \in 0..Day - 1
    BY InputsAreTyped
  <2>3. w.mode \in {"wildcard", "aware", "datetime", "time_of_day", "date"}
    BY <2>2 DEF Window, Modes
  <2> QED
    BY <2>1, <2>2, <2>3, InstantWindows, DailyWindows, DateWindows
<1> QED
  BY <1>1, RequestIsTyped, PTL

-----------------------------------------------------------------------------
(* Decisions of ABAC.                                                      *)

(* Finitely many things cannot get fewer for ever.                         *)
LEMMA FewestFirst ==
    ASSUME NEW All, IsFiniteSet(All), NEW Some, Some \subseteq SUBSET All, Some # {}
    PROVE  \E x \in Some : \A y \in Some : ~(y \subseteq x /\ y # x)
<1> DEFINE R == StrictSubsetOrdering(All)
<1>1. IsWellFoundedOn(R, SUBSET All)
  BY FS_FiniteSubsetsOfFinite, FS_StrictSubsetOrderingWellFounded
<1>2. \E x \in Some : \A y \in Some : <<y, x>> \notin R
  <2> HIDE DEF R
  <2> QED
    BY <1>1, WFMin, Zenon
<1> QED
  BY <1>2 DEF StrictSubsetOrdering

(* Any numbers have a least one.                                           *)
LEMMA Least ==
    ASSUME NEW S \in SUBSET Nat, S # {}
    PROVE  \E n \in S : \A m \in S : n <= m
<1>1. PICK top \in S : TRUE
  OBVIOUS
<1> DEFINE T == {0..m : m \in {k \in S : k <= top}}
<1>2. T \subseteq SUBSET (0..top) /\ T # {}
  BY <1>1
<1>3. IsFiniteSet(0..top)
  BY <1>1, FS_Interval
<1>4. \E x \in T : \A y \in T : ~(y \subseteq x /\ y # x)
  <2> DEFINE upto == 0..top
  <2>1. T \subseteq SUBSET upto /\ T # {} /\ IsFiniteSet(upto)
    BY <1>2, <1>3
  <2> HIDE DEF T, upto
  <2> QED
    BY <2>1, FewestFirst
<1>5. PICK n \in S : n <= top /\ \A y \in T : ~(y \subseteq 0..n /\ y # 0..n)
  BY <1>4
<1>6. ASSUME NEW m \in S, m < n PROVE FALSE
  <2>1. m \in Nat /\ n \in Nat /\ top \in Nat /\ m <= top
    BY <1>1, <1>5, <1>6
  <2>2. 0..m \in T
    BY <2>1
  <2>3. 0..m \subseteq 0..n
    BY <1>6, <2>1
  <2>4. 0..m = 0..n
    BY <1>5, <2>2, <2>3
  <2>5. n \in 0..n /\ n \notin 0..m
    BY <1>6, <2>1
  <2> QED
    BY <2>4, <2>5
<1> QED
  BY <1>5, <1>6

(* Of the pairs that match there is a first one.                           *)
LEMMA FirstComesFirst ==
    ASSUME NEW S \in SUBSET (Nat \X Nat), S # {}
    PROVE  First(S) \in S /\ \A b \in S : First(S) = b \/ Before(First(S), b)
<1>1. \A b \in S : b[1] \in Nat /\ b[2] \in Nat /\ b = <<b[1], b[2]>>
  OBVIOUS
<1>2. PICK i \in {b[1] : b \in S} : \A m \in {b[1] : b \in S} : i <= m
  <2>1. {b[1] : b \in S} \in SUBSET Nat /\ {b[1] : b \in S} # {}
    BY <1>1
  <2> QED
    BY <2>1, Least
<1> DEFINE T == {b \in S : b[1] = i}
<1>3. PICK k \in {b[2] : b \in T} : \A m \in {b[2] : b \in T} : k <= m
  <2>1. {b[2] : b \in T} \in SUBSET Nat /\ {b[2] : b \in T} # {}
    BY <1>1, <1>2
  <2> QED
    BY <2>1, Least
<1>4. PICK a \in S : a[1] = i /\ a[2] = k
  BY <1>3
<1>5. \A b \in S : a = b \/ Before(a, b)
  <2> SUFFICES ASSUME NEW b \in S PROVE a = b \/ Before(a, b)
    OBVIOUS
  <2>1. i <= b[1] /\ (b[1] = i => k <= b[2])
    BY <1>2, <1>3
  <2> QED
    BY <1>1, <1>4, <2>1 DEF Before
<1> QED
  BY <1>4, <1>5 DEF First

(* The lists of events, and the policies an account loads.                 *)
LEMMA LoadedPolicies ==
    ASSUME NEW policies \in Loaded
    PROVE  /\ EventsOf(policies) \subseteq Nat \X Nat
           /\ \A i \in DOMAIN policies : policies[i].effect \in {"ALLOW", "DENY"}
<1>1. PICK n \in 0..MaxPolicies : policies \in [1..n -> Policies(EventLists)]
  BY InputsAreTyped DEF Loaded
<1>2. \A i \in DOMAIN policies : policies[i] \in Policies(EventLists)
  BY <1>1
<1>3. \A i \in DOMAIN policies : i \in Nat /\ DOMAIN policies[i].events \subseteq Nat
  <2>1. \A es \in EventLists : DOMAIN es \subseteq Nat
    BY InputsAreTyped
  <2>2. \A p \in Policies(EventLists) : p.events \in EventLists
    BY DEF Policies
  <2> QED
    BY <1>1, <1>2, <2>1, <2>2
<1>4. EventsOf(policies) \subseteq Nat \X Nat
  BY <1>3 DEF EventsOf
<1>5. \A p \in Policies(EventLists) : p.effect \in {"ALLOW", "DENY"}
  BY DEF Policies
<1> QED
  BY <1>2, <1>4, <1>5

LEMMA DenyWins ==
    ASSUME NEW policies \in Loaded
    PROVE  DenyOverridesAllow(policies)
<1> DEFINE matching == Matching(policies, request)
           denied == {pair \in matching : policies[pair[1]].effect = "DENY"}
           decision == Evaluate(policies, request)
           allowing == MatchingPolicies(policies, request, "ALLOW")
           denying == MatchingPolicies(policies, request, "DENY")
<1>1. /\ matching \in SUBSET (Nat \X Nat) /\ denied \in SUBSET (Nat \X Nat)
      /\ \A a \in matching : /\ a[1] \in DOMAIN policies
                             /\ policies[a[1]].effect \in {"ALLOW", "DENY"}
                             /\ MatchesPair(policies, a, request)
  <2>1. \A a \in EventsOf(policies) : a[1] \in DOMAIN policies
    BY DEF EventsOf
  <2> QED
    BY <2>1, LoadedPolicies DEF Matching
<1>2. \A e : \A i : i \in MatchingPolicies(policies, request, e) <=>
                   \E a \in matching : a[1] = i /\ policies[i].effect = e
  <2> SUFFICES ASSUME NEW e, NEW i
               PROVE  i \in MatchingPolicies(policies, request, e) <=>
                         \E a \in matching : a[1] = i /\ policies[i].effect = e
    OBVIOUS
  <2>1. ASSUME i \in MatchingPolicies(policies, request, e)
        PROVE  \E a \in matching : a[1] = i /\ policies[i].effect = e
    <3>1. PICK k \in DOMAIN policies[i].events : MatchesPair(policies, <<i, k>>, request)
      BY <2>1 DEF MatchingPolicies
    <3>2. <<i, k>> \in matching
      BY <2>1, <3>1 DEF MatchingPolicies, Matching, EventsOf
    <3> QED
      BY <2>1, <3>2 DEF MatchingPolicies
  <2>2. ASSUME NEW a \in matching, a[1] = i, policies[i].effect = e
        PROVE  i \in MatchingPolicies(policies, request, e)
    <3>1. PICK x \in DOMAIN policies : \E k \in DOMAIN policies[x].events : a = <<x, k>>
      BY <2>2 DEF Matching, EventsOf
    <3> QED
      BY <1>1, <2>2, <3>1 DEF MatchingPolicies
  <2> QED
    BY <2>1, <2>2
<1>3. /\ denying = {} <=> denied = {}
      /\ allowing \cup denying = {} <=> matching = {}
      /\ denied = {} => (allowing = {} <=> matching = {})
  BY <1>1, <1>2
<1> HIDE DEF matching, allowing, denying
<1>4. CASE denied # {}
  <2>1. First(denied) \in denied
    BY <1>1, <1>4, FirstComesFirst
  <2>2. decision.allowed = FALSE /\ decision.by = First(denied)
    BY <1>4 DEF Evaluate, matching
  <2>3. First(denied) \in matching /\ First(denied)[1] \in denying
    BY <1>2, <2>1 DEF denying
  <2>4. First(denied) # Unstated
    BY <1>1, <2>1, UnstatedIsFresh
  <2> QED
    BY <1>1, <1>3, <1>4, <2>2, <2>3, <2>4 DEF DenyOverridesAllow, allowing, denying
<1>5. CASE denied = {} /\ matching # {}
  <2>1. First(matching) \in matching
    BY <1>1, <1>5, FirstComesFirst
  <2>2. decision.allowed = TRUE /\ decision.by = First(matching)
    BY <1>5 DEF Evaluate, matching
  <2>3. First(matching)[1] \in allowing
    BY <1>1, <1>2, <1>5, <2>1 DEF allowing
  <2>4. First(matching) # Unstated
    BY <1>1, <2>1, UnstatedIsFresh
  <2> QED
    BY <1>1, <1>3, <1>5, <2>1, <2>2, <2>3, <2>4 DEF DenyOverridesAllow, allowing, denying
<1>6. CASE matching = {}
  <2>1. decision.allowed = FALSE /\ decision.by = Unstated
    BY <1>6 DEF Evaluate, matching, DefaultDeny
  <2> QED
    BY <1>3, <1>6, <2>1 DEF DenyOverridesAllow, allowing, denying
<1> QED
  BY <1>4, <1>5, <1>6

LEMMA SilenceEvadesNothing ==
    ASSUME NEW policies, request \in AccessRequests
    PROVE  OmissionEvadesNoDeny(policies)
<1> DEFINE nowhere == [request EXCEPT !.location = Unstated]
           anytime == [request EXCEPT !.time = Unstated]
<1>1. /\ nowhere.location = Unstated /\ nowhere.time = request.time
      /\ anytime.time = Unstated /\ anytime.location = request.location
      /\ \A r \in {nowhere, anytime} : r.subject = request.subject /\ r.resource = request.resource
                                       /\ r.action = request.action
  BY InputsAreTyped DEF AccessRequest
<1> HIDE DEF nowhere, anytime
<1>2. \A event, matcher, zone : EventMatches(event, request, matcher, zone) =>
          /\ EventMatches(event, nowhere, matcher, zone)
          /\ EventMatches(event, anytime, matcher, zone)
  BY <1>1 DEF EventMatches, LocationMatches, TimeMatches
<1>3. \A pair : MatchesPair(policies, pair, request) =>
          MatchesPair(policies, pair, nowhere) /\ MatchesPair(policies, pair, anytime)
  BY <1>2 DEF MatchesPair
<1> QED
  BY <1>3 DEF OmissionEvadesNoDeny, MatchingPolicies, nowhere, anytime

LEMMA UpgradesLoseNothing ==
    ASSUME NEW p, request \in AccessRequests
    PROVE  UpgradeLosesNoMatch(p)
<1>1. request.subject \in Values /\ request.resource \in Values /\ request.action \in Values
  BY InputsAreTyped DEF AccessRequest
<1>2. \A pattern, v : v \in Values /\ PatternMatches(pattern, v, "legacy_v1")
                        => PatternMatches(pattern, v, "glob_v2")
  BY PatternsMatch DEF PatternMatches
<1> QED
  BY <1>1, <1>2 DEF UpgradeLosesNoMatch, EventMatches

(* Any request is decided on any policies, in any order, as documented:     *)
(* DENY overrides ALLOW, silence evades no DENY, an upgrade exempts nobody. *)
THEOREM PoliciesAreEvaluatedAsDocumented == AskSpec => []DecisionsAreSound
<1>1. Asked => DecisionsAreSound
  BY DenyWins, SilenceEvadesNothing, UpgradesLoseNothing DEF Asked, DecisionsAreSound
<1> QED
  BY <1>1, RequestIsTyped, PTL
==============================================================================
