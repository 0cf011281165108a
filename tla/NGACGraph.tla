------------------------------ MODULE NGACGraph ------------------------------
(***************************************************************************)
(* The NGAC component of one account: NGACService over the collections of  *)
(* nodes, assignments and associations, and the decision NGACGraph takes   *)
(* on them.                                                                *)
(*                                                                         *)
(* A request that writes takes its reads and checks in one step and every  *)
(* write in a step of its own, so that requests of several workers meet    *)
(* between the two, and a cascade may stop after any of its writes (Abort: *)
(* a storage error, or the crash of the server).  Names, properties and    *)
(* time stamps are left out.  Two assignments with the same ends and the   *)
(* same owner count as one.                                                *)
(***************************************************************************)
EXTENDS FiniteSets, Naturals

CONSTANTS
    Nodes,       \* node identifiers
    TypeOf,      \* the type of the node an identifier is drawn for
    OwnerOf,     \* the caller whose request draws it
    Callers,     \* keys of the users that call the routes
    Admins,      \* the callers for which Cfg.is_superadmin holds
    Operations,  \* operations of associations, in lower case
    MaxNodes,    \* bound: node documents at any time
    MaxEdges,    \* bound: assignment documents at any time
    MaxAssoc,    \* bound: association documents at any time
    Workers,     \* requests that can be in flight together
    None         \* stands for any absent identifier

\* NodeType
NodeType == {"user", "object", "user_attribute", "object_attribute", "policy_class"}

ASSUME NodesAreTyped == TypeOf \in [Nodes -> NodeType]
ASSUME NodesAreOwned == OwnerOf \in [Nodes -> Callers]
ASSUME AdminsCall == Admins \subseteq Callers
ASSUME NodesAreFinite == IsFiniteSet(Nodes)
ASSUME NoneIsFresh == None \notin Nodes \cup Callers

VARIABLES
    live,    \* identifiers of the node documents
    assign,  \* assignment documents
    assoc,   \* association documents
    cut,     \* nodes deleted by a cascade that is under way or has stopped
    job      \* the request each worker is serving

vars == <<live, assign, assoc, cut, job>>

Assignment == [from: Nodes, to: Nodes, owner: Callers]
NonemptyOps == SUBSET Operations \ {{}}
Association == [ua: Nodes, oa: Nodes, ops: NonemptyOps, owner: Callers]
NoAssociation == [ua |-> None, oa |-> None, ops |-> {}, owner |-> None]

Idle == [at |-> "idle", caller |-> None, nodes |-> {},
         from |-> None, to |-> None, ops |-> {}, assoc |-> NoAssociation]

Steps == {"insert_node", "replace_node", "insert_assignment", "delete_assignment",
          "insert_association", "replace_association", "delete_association",
          "drop_nodes", "drop_assignments", "drop_associations"}

Job == [at: {"idle"} \cup Steps, caller: Callers \cup {None},
        nodes: SUBSET Nodes,
        from: Nodes \cup {None}, to: Nodes \cup {None},
        ops: SUBSET Operations, assoc: Association \cup {NoAssociation}]

TypeOK ==
    /\ live \subseteq Nodes
    /\ assign \subseteq Assignment
    /\ assoc \subseteq Association
    /\ cut \subseteq Nodes
    /\ job \in [Workers -> Job]

Init ==
    /\ live = {}
    /\ assign = {}
    /\ assoc = {}
    /\ cut = {}
    /\ job = [w \in Workers |-> Idle]

-----------------------------------------------------------------------------
(* The graph and the decision.                                             *)

G == INSTANCE RoleGraph WITH Roles <- Nodes

\* VALID_ASSIGNMENT_TARGETS
Targets(t) ==
    CASE t = "user" -> {"user_attribute"}
      [] t = "object" -> {"object_attribute"}
      [] t = "user_attribute" -> {"user_attribute", "policy_class"}
      [] t = "object_attribute" -> {"object_attribute", "policy_class"}
      [] t = "policy_class" -> {}

\* NGACGraph._parents; an assignment counts whether its nodes exist or not.
Parents == [n \in Nodes |-> {a.to : a \in {b \in assign : b.from = n}}]

\* Mutant: the queue is not followed beyond the parents.
UpwardClosure_OneLevel(par) == [n \in Nodes |-> {n} \cup par[n]]

\* NGACGraph.upward_closure of every node: the breadth-first search a level at a
\* time, from all nodes at once, as the closures are kept (_cache).
UpwardClosure(par) ==
    LET search[seen \in [Nodes -> SUBSET Nodes]] ==
            LET next == [n \in Nodes |-> seen[n] \cup UNION {par[x] : x \in seen[n]}]
            IN  IF next = seen THEN seen ELSE search[next]
    IN  search[[n \in Nodes |-> {n}]]

\* Below, up are the closures of the graph that was loaded for the decision.

\* Existing nodes of type t among the nodes n is assigned to, n included.
Reached(up, n, t) == {m \in up[n] : m \in live /\ TypeOf[m] = t}

Governing(up, o) == Reached(up, o, "policy_class")

\* The attributes of n that lie in policy class pc.
Under(up, n, t, pc) == {m \in Reached(up, n, t) : pc \in up[m]}

\* The associations that let u operate on o through policy class pc.
Matches(up, u, o, op, pc) ==
    {b \in assoc : /\ op \in b.ops
                   /\ b.ua \in Under(up, u, "user_attribute", pc)
                   /\ b.oa \in Under(up, o, "object_attribute", pc)}

\* Mutant: one permitting class is enough.
Check_AnyClass(up, u, o, op) ==
    \E pc \in Governing(up, o) : Matches(up, u, o, op, pc) # {}

\* NGACGraph.check: permitted through every governing policy class.
Check(up, u, o, op) ==
    /\ Governing(up, o) # {}
    /\ \A pc \in Governing(up, o) : Matches(up, u, o, op, pc) # {}

\* NGACGraph.explain: which classes permit and which do not.
Explain(up, u, o, op) ==
    LET won == {pc \in Governing(up, o) : Matches(up, u, o, op, pc) # {}}
    IN  [governing |-> Governing(up, o), successful |-> won,
         failed |-> Governing(up, o) \ won]

\* Who may do what, as check_access answers it.
Permitted ==
    LET up == UpwardClosure(Parents)
    IN  {p \in Nodes \X Nodes \X Operations : Check(up, p[1], p[2], p[3])}

\* deletion_impact: what the route shows before a node is deleted.
ImpactAssignments(ns) == {a \in assign : a.from \in ns \/ a.to \in ns}
ImpactAssociations(ns) == {b \in assoc : b.ua \in ns \/ b.oa \in ns}

-----------------------------------------------------------------------------
(* Requests.                                                               *)

At(w, step) == job[w].at = step
Become(w, j) == job' = [job EXCEPT ![w] = j]
Finish(w) == Become(w, Idle)

\* The owner or a superadmin; is_admin or _owns in the code.
Owns(caller, owner) == caller = owner \/ caller \in Admins

\* An identifier is drawn at random and never twice: to reuse one that nothing
\* mentions any more is the same.
Unused ==
    {n \in Nodes \ live : /\ \A a \in assign : n \notin {a.from, a.to}
                         /\ \A b \in assoc : n \notin {b.ua, b.oa}
                         /\ \A w \in Workers : n \notin job[w].nodes \cup {job[w].from, job[w].to,
                                                  job[w].assoc.ua, job[w].assoc.oa}}

CreateNode(w, c, n) ==
    /\ At(w, "idle")
    /\ OwnerOf[n] = c
    /\ Cardinality(live) < MaxNodes
    /\ n \in Unused
    /\ cut' = cut \ {n}
    /\ Become(w, [Idle EXCEPT !.at = "insert_node", !.caller = c, !.nodes = {n}])
    /\ UNCHANGED <<live, assign, assoc>>

InsertNode(w, n) ==
    /\ At(w, "insert_node")
    /\ job[w].nodes = {n}
    /\ live' = live \cup {n}
    /\ Finish(w)
    /\ UNCHANGED <<assign, assoc, cut>>

UpdateNode(w, c, n) ==
    /\ At(w, "idle")
    /\ n \in live
    /\ Owns(c, OwnerOf[n])
    /\ Become(w, [Idle EXCEPT !.at = "replace_node", !.caller = c, !.nodes = {n}])
    /\ UNCHANGED <<live, assign, assoc, cut>>

\* replace_one without upsert: a node that is gone stays gone, and the name and
\* the properties of one that is there change nothing here.
ReplaceNode(w, n) ==
    /\ At(w, "replace_node")
    /\ job[w].nodes = {n}
    /\ Finish(w)
    /\ UNCHANGED <<live, assign, assoc, cut>>

DeleteNode(w, c, n) ==
    /\ At(w, "idle")
    /\ n \in live
    /\ Owns(c, OwnerOf[n])
    /\ Become(w, [Idle EXCEPT !.at = "drop_nodes", !.caller = c, !.nodes = {n}])
    /\ UNCHANGED <<live, assign, assoc, cut>>

\* delete_nodes_by_owner, the NGAC part of deleting user c.
DeleteNodesByOwner(w, c) ==
    /\ At(w, "idle")
    /\ \E n \in live : OwnerOf[n] = c
    /\ Become(w, [Idle EXCEPT !.at = "drop_nodes", !.caller = c,
                              !.nodes = {n \in live : OwnerOf[n] = c}])
    /\ UNCHANGED <<live, assign, assoc, cut>>

\* A node that is gone by now ends the request; of several, the rest is deleted.
DropNodes(w) ==
    /\ At(w, "drop_nodes")
    /\ live' = live \ job[w].nodes
    /\ IF job[w].nodes \cap live = {} /\ Cardinality(job[w].nodes) = 1
       THEN Finish(w) /\ UNCHANGED cut
       ELSE /\ cut' = cut \cup job[w].nodes
            /\ Become(w, [job[w] EXCEPT !.at = "drop_assignments"])
    /\ UNCHANGED <<assign, assoc>>

\* Mutant: only the assignments that start at a deleted node are deleted.
DropAssignments_From(w) ==
    /\ At(w, "drop_assignments")
    /\ assign' = {a \in assign : a.from \notin job[w].nodes}
    /\ Become(w, [job[w] EXCEPT !.at = "drop_associations"])
    /\ UNCHANGED <<live, assoc, cut>>

DropAssignments(w) ==
    /\ At(w, "drop_assignments")
    /\ assign' = assign \ ImpactAssignments(job[w].nodes)
    /\ Become(w, [job[w] EXCEPT !.at = "drop_associations"])
    /\ UNCHANGED <<live, assoc, cut>>

DropAssociations(w) ==
    /\ At(w, "drop_associations")
    /\ assoc' = assoc \ ImpactAssociations(job[w].nodes)
    /\ cut' = cut \ job[w].nodes
    /\ Finish(w)
    /\ UNCHANGED <<live, assign>>

\* Mutant: looks for the target among the nodes the source leads to.
ClosesCycle_Swapped(f, t) == t \in G!Ancestors(Parents, {f})

\* assign: from_id in graph.upward_closure(to_id).
ClosesCycle(f, t) == f \in G!Ancestors(Parents, {t})

\* An assignment needs the target to be the caller's, not the source.
Assign(w, c, f, t) ==
    /\ At(w, "idle")
    /\ {f, t} \subseteq live
    /\ TypeOf[t] \in Targets(TypeOf[f])
    /\ Owns(c, OwnerOf[t])
    /\ ~ClosesCycle(f, t)
    /\ Become(w, [Idle EXCEPT !.at = "insert_assignment", !.caller = c,
                              !.from = f, !.to = t])
    /\ UNCHANGED <<live, assign, assoc, cut>>

\* create_assignment answers success when the pair is already assigned.
InsertAssignment(w, f, t) ==
    /\ At(w, "insert_assignment")
    /\ job[w].from = f /\ job[w].to = t
    /\ \/ \E a \in assign : a.from = f /\ a.to = t
       \/ Cardinality(assign) < MaxEdges
    /\ assign' = IF \E a \in assign : a.from = f /\ a.to = t THEN assign
                 ELSE assign \cup {[from |-> f, to |-> t, owner |-> job[w].caller]}
    /\ Finish(w)
    /\ UNCHANGED <<live, assoc, cut>>

RemoveAssignment(w, c, a) ==
    /\ At(w, "idle")
    /\ a \in assign
    /\ Owns(c, a.owner)
    /\ Become(w, [Idle EXCEPT !.at = "delete_assignment", !.caller = c,
                              !.from = a.from, !.to = a.to])
    /\ UNCHANGED <<live, assign, assoc, cut>>

\* delete_one by the pair of nodes; nothing is left to delete of a pair that is gone.
DeleteAssignment(w) ==
    LET pair == {a \in assign : a.from = job[w].from /\ a.to = job[w].to}
    IN  /\ At(w, "delete_assignment")
        /\ assign' \in IF pair = {} THEN {assign} ELSE {assign \ {a} : a \in pair}
        /\ Finish(w)
        /\ UNCHANGED <<live, assoc, cut>>

\* An association needs the user attribute to be the caller's.
Associate(w, c, ua, oa, ops) ==
    /\ At(w, "idle")
    /\ {ua, oa} \subseteq live
    /\ TypeOf[ua] = "user_attribute" /\ TypeOf[oa] = "object_attribute"
    /\ Owns(c, OwnerOf[ua])
    /\ \A b \in assoc : b.ua # ua \/ b.oa # oa
    /\ Cardinality(assoc) < MaxAssoc
    /\ Become(w, [Idle EXCEPT !.at = "insert_association", !.caller = c,
          !.assoc = [ua |-> ua, oa |-> oa, ops |-> ops, owner |-> c]])
    /\ UNCHANGED <<live, assign, assoc, cut>>

InsertAssociation(w) ==
    /\ At(w, "insert_association")
    /\ assoc' = assoc \cup {job[w].assoc}
    /\ Finish(w)
    /\ UNCHANGED <<live, assign, cut>>

UpdateAssociation(w, c, b, ops) ==
    /\ At(w, "idle")
    /\ b \in assoc
    /\ Owns(c, b.owner)
    /\ Become(w, [Idle EXCEPT !.at = "replace_association", !.caller = c,
                              !.assoc = b, !.ops = ops])
    /\ UNCHANGED <<live, assign, assoc, cut>>

\* replace_one by identifier, without upsert.
ReplaceAssociation(w) ==
    /\ At(w, "replace_association")
    /\ assoc' = IF job[w].assoc \in assoc
                THEN (assoc \ {job[w].assoc}) \cup {[job[w].assoc EXCEPT !.ops = job[w].ops]}
                ELSE assoc
    /\ Finish(w)
    /\ UNCHANGED <<live, assign, cut>>

RemoveAssociation(w, c, b) ==
    /\ At(w, "idle")
    /\ b \in assoc
    /\ Owns(c, b.owner)
    /\ Become(w, [Idle EXCEPT !.at = "delete_association", !.caller = c, !.assoc = b])
    /\ UNCHANGED <<live, assign, assoc, cut>>

DeleteAssociation(w) ==
    /\ At(w, "delete_association")
    /\ assoc' = assoc \ {job[w].assoc}
    /\ Finish(w)
    /\ UNCHANGED <<live, assign, cut>>

\* A storage error or a crash; a cascade leaves what it has not deleted yet.
Abort(w) ==
    /\ ~At(w, "idle")
    /\ Finish(w)
    /\ UNCHANGED <<live, assign, assoc, cut>>

Begin(w, c) ==
    \/ \E n \in Nodes :
          CreateNode(w, c, n) \/ UpdateNode(w, c, n) \/ DeleteNode(w, c, n)
    \/ DeleteNodesByOwner(w, c)
    \/ \E f, t \in Nodes :
          \/ Assign(w, c, f, t)
          \/ \E ops \in NonemptyOps : Associate(w, c, f, t, ops)
    \/ \E a \in assign : RemoveAssignment(w, c, a)
    \/ \E b \in assoc :
          \/ \E ops \in NonemptyOps : UpdateAssociation(w, c, b, ops)
          \/ RemoveAssociation(w, c, b)

Write(w) ==
    \/ \E n \in Nodes : InsertNode(w, n) \/ ReplaceNode(w, n)
    \/ \E f, t \in Nodes : InsertAssignment(w, f, t)
    \/ DeleteAssignment(w)
    \/ InsertAssociation(w) \/ ReplaceAssociation(w) \/ DeleteAssociation(w)
    \/ DropNodes(w) \/ DropAssignments(w) \/ DropAssociations(w)

Next ==
    \/ \E w \in Workers : (\E c \in Callers : Begin(w, c)) \/ Write(w) \/ Abort(w)

Spec == Init /\ [][Next]_vars

-----------------------------------------------------------------------------
(* Properties.  With one worker requests do not overlap, but each may stop at *)
(* any write.                                                                *)

(* No node is assigned to itself through others: the check of assign sees   *)
(* every path, also one through nodes that a cascade left behind.            *)
AssignmentsAcyclic == G!Acyclic(Parents)

(* An assignment or association of a node without document is left only by  *)
(* a cascade that has not finished or never will.                            *)
DanglingOnlyWhereCut ==
    /\ \A a \in assign : {a.from, a.to} \subseteq live \cup cut
    /\ \A b \in assoc : {b.ua, b.oa} \subseteq live \cup cut

(* A decision rests on just the nodes there is a path to, whatever the       *)
(* search met twice; and check and explain, each by a loop of its own, agree: *)
(* a denial is explained by a class that denies, or by there being none.     *)
DecisionSound ==
    LET up == UpwardClosure(Parents)
    IN  /\ \A n \in Nodes : up[n] = G!Ancestors(Parents, {n})
        /\ \A u, o \in live, op \in Operations :
              LET e == Explain(up, u, o, op)
              IN  Check(up, u, o, op) <=> e.governing # {} /\ e.failed = {}

\* The objects that policy class pc governs.
Governed(pc) ==
    LET up == UpwardClosure(Parents) IN {o \in Nodes : pc \in Governing(up, o)}

(* Putting something under one more policy class never gives access to an    *)
(* object that was governed and now is governed by that class too: classes   *)
(* only restrict one another.                                                *)
ClassOnlyRestricts ==
    [][\A a \in assign' \ assign : TypeOf[a.to] = "policy_class" =>
          LET already == UNION {Governed(pc) : pc \in Nodes \ {a.to}}
              newly == Governed(a.to)' \ Governed(a.to)
          IN  \A p \in Permitted' \ Permitted : p[2] \notin already \cap newly]_vars

\* Steps that change nothing but nodes and assignments on the side of users,
\* and associations.
UserSide == {n \in Nodes : TypeOf[n] \in {"user", "user_attribute"}}

UserSideStep ==
    /\ \A n \in Nodes \ UserSide : n \in live <=> n \in live'
    /\ \A a \in (assign \ assign') \cup (assign' \ assign) : a.from \in UserSide

More == live \subseteq live' /\ assign \subseteq assign' /\ assoc \subseteq assoc'
Less == live' \subseteq live /\ assign' \subseteq assign /\ assoc' \subseteq assoc

(* On the side of users more is more and less is less: assigning a user or a *)
(* user attribute, or associating one, takes no access away; ending either,  *)
(* or deleting such a node, gives none.                                      *)
UserSideMonotone ==
    [][UserSideStep /\ (More \/ Less) /\ ~(More /\ Less) =>
          IF More THEN Permitted \subseteq Permitted' ELSE Permitted' \subseteq Permitted]_vars

(* Changes of the graph move decisions only in the direction one expects,    *)
(* though every decision is a conjunction over classes.                      *)
DecisionsMoveAsExpected == ClassOnlyRestricts /\ UserSideMonotone

-----------------------------------------------------------------------------
(* The strengthenings the proofs use (module NGACGraphProofs).              *)

\* What a request carries to its write is of the kind it writes.
JobsAreTyped ==
    \A w \in Workers :
        /\ ~At(w, "idle") => job[w].caller \in Callers
        /\ At(w, "insert_assignment") => job[w].from \in Nodes /\ job[w].to \in Nodes
        /\ job[w].at \in {"insert_association", "replace_association"} => job[w].assoc \in Association
        /\ At(w, "replace_association") => job[w].ops \in NonemptyOps

\* No assignment runs against the types, whatever overlaps.
AssignmentsByType ==
    /\ \A w \in Workers : At(w, "insert_assignment") =>
          TypeOf[job[w].to] \in Targets(TypeOf[job[w].from])
    /\ \A a \in assign : TypeOf[a.to] \in Targets(TypeOf[a.from])

\* With one worker, what a request has checked still holds when it writes, and a
\* cascade has left no assignment of the nodes when it comes to the associations.
ChecksHold ==
    \A w \in Workers :
        /\ At(w, "insert_assignment") =>
              {job[w].from, job[w].to} \subseteq live /\ ~ClosesCycle(job[w].from, job[w].to)
        /\ At(w, "insert_association") => {job[w].assoc.ua, job[w].assoc.oa} \subseteq live
        /\ At(w, "drop_associations") => ImpactAssignments(job[w].nodes) = {}

SerialInv == JobsAreTyped /\ ChecksHold /\ AssignmentsAcyclic /\ DanglingOnlyWhereCut
==============================================================================
