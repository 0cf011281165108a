--------------------------- MODULE NGACGraphProofs ---------------------------
(***************************************************************************)
(* What NGACService keeps true for every set of nodes, callers, operations *)
(* and workers: the documents stay well formed whatever overlaps, and where *)
(* requests do not overlap the assignments stay acyclic and nothing dangles *)
(* but where a cascade was cut short.  And what the decision says on any   *)
(* graph: check and explain agree, and access on the side of users grows    *)
(* with the graph.                                                         *)
(***************************************************************************)
EXTENDS NGACGraph, FiniteSetTheorems, WellFoundedInduction, TLAPS

OneWorker == \A v, w \in Workers : v = w

-----------------------------------------------------------------------------
(* Jobs.                                                                   *)

\* Only the worker that takes a step changes its job.
LEMMA Serving ==
    ASSUME TypeOK, NEW w \in Workers, NEW j \in Job, Become(w, j)
    PROVE  /\ job' \in [Workers -> Job]
           /\ job'[w] = j
           /\ \A v \in Workers : v # w => job'[v] = job[v]
BY DEF TypeOK, Become

LEMMA IdleIsAJob ==
    /\ Idle \in Job
    /\ Idle.at = "idle"
BY DEF Idle, Job

\* The jobs that requests begin with.
NodesRequest(s, c, ns) == [Idle EXCEPT !.at = s, !.caller = c, !.nodes = ns]
PairRequest(s, c, f, t) == [Idle EXCEPT !.at = s, !.caller = c, !.from = f, !.to = t]
AssociationRequest(s, c, b) == [Idle EXCEPT !.at = s, !.caller = c, !.assoc = b]
UpdateRequest(c, b, ops) ==
    [Idle EXCEPT !.at = "replace_association", !.caller = c, !.assoc = b, !.ops = ops]

LEMMA NodesJob ==
    ASSUME NEW s \in Steps, NEW c \in Callers, NEW ns \in SUBSET Nodes
    PROVE  LET j == NodesRequest(s, c, ns)
           IN  j \in Job /\ j.at = s /\ j.caller = c /\ j.nodes = ns
BY DEF NodesRequest, Idle, Job

LEMMA PairJob ==
    ASSUME NEW s \in Steps, NEW c \in Callers, NEW f \in Nodes, NEW t \in Nodes
    PROVE  LET j == PairRequest(s, c, f, t)
           IN  j \in Job /\ j.at = s /\ j.caller = c /\ j.from = f /\ j.to = t
BY DEF PairRequest, Idle, Job

LEMMA AssociationJob ==
    ASSUME NEW s \in Steps, NEW c \in Callers, NEW b \in Association
    PROVE  LET j == AssociationRequest(s, c, b)
           IN  j \in Job /\ j.at = s /\ j.caller = c /\ j.assoc = b
BY DEF AssociationRequest, Idle, Job

LEMMA UpdateJob ==
    ASSUME NEW c \in Callers, NEW b \in Association, NEW ops \in NonemptyOps
    PROVE  LET j == UpdateRequest(c, b, ops)
           IN  j \in Job /\ j.at = "replace_association" /\ j.caller = c /\ j.assoc = b /\ j.ops = ops
<1> DEFINE r == AssociationRequest("replace_association", c, b)
<1>1. r \in Job /\ r.at = "replace_association" /\ r.caller = c /\ r.assoc = b
  BY AssociationJob DEF Steps
<1>2. UpdateRequest(c, b, ops) = [r EXCEPT !.ops = ops]
  BY DEF UpdateRequest, AssociationRequest
<1> HIDE DEF r
<1> QED
  BY <1>1, <1>2 DEF Job, NonemptyOps

\* The next step of a cascade.
LEMMA NextJob ==
    ASSUME TypeOK, NEW w \in Workers, NEW s \in Steps, NEW j, j = [job[w] EXCEPT !.at = s]
    PROVE  j \in Job /\ j.at = s /\ j.caller = job[w].caller /\ j.nodes = job[w].nodes
BY DEF TypeOK, Job

\* What a job is held to.
JobTyped(j) ==
    /\ j.at # "idle" => j.caller \in Callers
    /\ j.at = "insert_assignment" => j.from \in Nodes /\ j.to \in Nodes
    /\ j.at \in {"insert_association", "replace_association"} => j.assoc \in Association
    /\ j.at = "replace_association" => j.ops \in NonemptyOps

LEMMA JobsTyped == JobsAreTyped <=> \A w \in Workers : JobTyped(job[w])
BY DEF JobsAreTyped, JobTyped, At

\* A worker takes on a job.
LEMMA Takes ==
    ASSUME TypeOK, JobsAreTyped, NEW w \in Workers, NEW j \in Job, Become(w, j), JobTyped(j),
           live' \subseteq Nodes, assign' \subseteq Assignment, assoc' \subseteq Association, cut' \subseteq Nodes
    PROVE  TypeOK' /\ JobsAreTyped'
<1>1. TypeOK'
  BY Serving DEF TypeOK
<1>2. \A v \in Workers : JobTyped(job'[v])
  BY Serving, JobsTyped
<1>3. JobsAreTyped'
  BY <1>2 DEF JobsAreTyped, JobTyped, At
<1> QED
  BY <1>1, <1>3

-----------------------------------------------------------------------------
(* Types, whatever overlaps.                                               *)

LEMMA BeginTyped ==
    ASSUME TypeOK, JobsAreTyped, NEW w \in Workers, NEW c \in Callers, Begin(w, c)
    PROVE  TypeOK' /\ JobsAreTyped'
<1>0. live \subseteq Nodes /\ assign \subseteq Assignment /\ assoc \subseteq Association /\ cut \subseteq Nodes
  BY DEF TypeOK
<1>1. ASSUME NEW n \in Nodes, CreateNode(w, c, n) PROVE TypeOK' /\ JobsAreTyped'
  <2> DEFINE j == NodesRequest("insert_node", c, {n})
  <2>1. j \in Job /\ j.at = "insert_node" /\ j.caller = c
    BY NodesJob DEF Steps
  <2> HIDE DEF j
  <2>2. JobTyped(j)
    BY <2>1 DEF JobTyped
  <2>3. Become(w, j) /\ UNCHANGED <<live, assign, assoc>> /\ cut' \subseteq Nodes
    BY <1>0, <1>1 DEF CreateNode, j, NodesRequest
  <2> QED
    BY <1>0, <2>1, <2>2, <2>3, Takes
<1>2. ASSUME NEW n \in Nodes, UpdateNode(w, c, n) PROVE TypeOK' /\ JobsAreTyped'
  <2> DEFINE j == NodesRequest("replace_node", c, {n})
  <2>1. j \in Job /\ j.at = "replace_node" /\ j.caller = c
    BY NodesJob DEF Steps
  <2> HIDE DEF j
  <2>2. JobTyped(j)
    BY <2>1 DEF JobTyped
  <2>3. Become(w, j) /\ UNCHANGED <<live, assign, assoc, cut>>
    BY <1>2 DEF UpdateNode, j, NodesRequest
  <2> QED
    BY <1>0, <2>1, <2>2, <2>3, Takes
<1>3. ASSUME NEW ns \in SUBSET Nodes,
             Become(w, NodesRequest("drop_nodes", c, ns)),
             UNCHANGED <<live, assign, assoc, cut>>
      PROVE  TypeOK' /\ JobsAreTyped'
  <2> DEFINE j == NodesRequest("drop_nodes", c, ns)
  <2>1. j \in Job /\ j.at = "drop_nodes" /\ j.caller = c
    BY NodesJob DEF Steps
  <2>2. Become(w, j)
    BY <1>3
  <2> HIDE DEF j
  <2>3. JobTyped(j)
    BY <2>1 DEF JobTyped
  <2> QED
    BY <1>0, <1>3, <2>1, <2>2, <2>3, Takes
<1>4. ASSUME NEW n \in Nodes, DeleteNode(w, c, n) PROVE TypeOK' /\ JobsAreTyped'
  <2>1. Become(w, NodesRequest("drop_nodes", c, {n})) /\ UNCHANGED <<live, assign, assoc, cut>>
    BY <1>4 DEF DeleteNode, NodesRequest
  <2> QED
    BY <1>3, <2>1
<1>5. ASSUME DeleteNodesByOwner(w, c) PROVE TypeOK' /\ JobsAreTyped'
  <2>1. {n \in live : OwnerOf[n] = c} \in SUBSET Nodes
    BY <1>0
  <2>2. /\ Become(w, NodesRequest("drop_nodes", c, {n \in live : OwnerOf[n] = c}))
        /\ UNCHANGED <<live, assign, assoc, cut>>
    BY <1>5 DEF DeleteNodesByOwner, NodesRequest
  <2> QED
    BY <1>3, <2>1, <2>2
<1>6. ASSUME NEW s \in {"insert_assignment", "delete_assignment"}, NEW f \in Nodes, NEW t \in Nodes,
             Become(w, PairRequest(s, c, f, t)),
             UNCHANGED <<live, assign, assoc, cut>>
      PROVE  TypeOK' /\ JobsAreTyped'
  <2> DEFINE j == PairRequest(s, c, f, t)
  <2>1. j \in Job /\ j.at = s /\ j.caller = c /\ j.from = f /\ j.to = t
    BY PairJob DEF Steps
  <2>2. Become(w, j)
    BY <1>6
  <2> HIDE DEF j
  <2>3. JobTyped(j)
    BY <2>1 DEF JobTyped
  <2> QED
    BY <1>0, <1>6, <2>1, <2>2, <2>3, Takes
<1>7. ASSUME NEW f \in Nodes, NEW t \in Nodes, Assign(w, c, f, t) PROVE TypeOK' /\ JobsAreTyped'
  <2>1. Become(w, PairRequest("insert_assignment", c, f, t)) /\ UNCHANGED <<live, assign, assoc, cut>>
    BY <1>7 DEF Assign, PairRequest
  <2> QED
    BY <1>6, <2>1
<1>8. ASSUME NEW a \in assign, RemoveAssignment(w, c, a) PROVE TypeOK' /\ JobsAreTyped'
  <2>1. a.from \in Nodes /\ a.to \in Nodes
    BY <1>0 DEF Assignment
  <2>2. /\ Become(w, PairRequest("delete_assignment", c, a.from, a.to))
        /\ UNCHANGED <<live, assign, assoc, cut>>
    BY <1>8 DEF RemoveAssignment, PairRequest
  <2> QED
    BY <1>6, <2>1, <2>2
<1>9. ASSUME NEW s \in {"insert_association", "delete_association"}, NEW b \in Association,
             Become(w, AssociationRequest(s, c, b)),
             UNCHANGED <<live, assign, assoc, cut>>
      PROVE  TypeOK' /\ JobsAreTyped'
  <2> DEFINE j == AssociationRequest(s, c, b)
  <2>1. j \in Job /\ j.at = s /\ j.caller = c /\ j.assoc = b
    BY AssociationJob DEF Steps
  <2>2. Become(w, j)
    BY <1>9
  <2> HIDE DEF j
  <2>3. JobTyped(j)
    BY <2>1 DEF JobTyped
  <2> QED
    BY <1>0, <1>9, <2>1, <2>2, <2>3, Takes
<1>10. ASSUME NEW ua \in Nodes, NEW oa \in Nodes, NEW ops \in NonemptyOps, Associate(w, c, ua, oa, ops)
       PROVE  TypeOK' /\ JobsAreTyped'
  <2>1. [ua |-> ua, oa |-> oa, ops |-> ops, owner |-> c] \in Association
    BY DEF Association
  <2>2. /\ Become(w, AssociationRequest("insert_association", c,
                        [ua |-> ua, oa |-> oa, ops |-> ops, owner |-> c]))
        /\ UNCHANGED <<live, assign, assoc, cut>>
    BY <1>10 DEF Associate, AssociationRequest
  <2> QED
    BY <1>9, <2>1, <2>2
<1>11. ASSUME NEW b \in assoc, RemoveAssociation(w, c, b) PROVE TypeOK' /\ JobsAreTyped'
  <2>1. b \in Association
    BY <1>0
  <2>2. /\ Become(w, AssociationRequest("delete_association", c, b))
        /\ UNCHANGED <<live, assign, assoc, cut>>
    BY <1>11 DEF RemoveAssociation, AssociationRequest
  <2> QED
    BY <1>9, <2>1, <2>2
<1>12. ASSUME NEW b \in assoc, NEW ops \in NonemptyOps, UpdateAssociation(w, c, b, ops)
       PROVE  TypeOK' /\ JobsAreTyped'
  <2> DEFINE j == UpdateRequest(c, b, ops)
  <2>1. j \in Job /\ j.at = "replace_association" /\ j.caller = c /\ j.assoc = b /\ j.ops = ops
    BY <1>0, UpdateJob DEF Steps
  <2>2. Become(w, j) /\ UNCHANGED <<live, assign, assoc, cut>>
    BY <1>12 DEF UpdateAssociation, UpdateRequest
  <2> HIDE DEF j
  <2>3. JobTyped(j)
    BY <1>0, <2>1 DEF JobTyped
  <2> QED
    BY <1>0, <2>1, <2>2, <2>3, Takes
<1> QED
  BY <1>1, <1>2, <1>4, <1>5, <1>7, <1>8, <1>10, <1>11, <1>12 DEF Begin

LEMMA WriteTyped ==
    ASSUME TypeOK, JobsAreTyped, NEW w \in Workers, Write(w) \/ Abort(w)
    PROVE  TypeOK' /\ JobsAreTyped'
<1>0. /\ live \subseteq Nodes /\ assign \subseteq Assignment /\ assoc \subseteq Association /\ cut \subseteq Nodes
      /\ job[w] \in Job /\ JobTyped(job[w])
  BY JobsTyped DEF TypeOK
<1>1. ASSUME Finish(w), live' \subseteq Nodes, assign' \subseteq Assignment,
             assoc' \subseteq Association, cut' \subseteq Nodes
      PROVE  TypeOK' /\ JobsAreTyped'
  <2>1. JobTyped(Idle)
    BY IdleIsAJob DEF JobTyped
  <2> QED
    BY <1>1, <2>1, IdleIsAJob, Takes DEF Finish
<1>2. ASSUME NEW n \in Nodes, InsertNode(w, n) \/ ReplaceNode(w, n) PROVE TypeOK' /\ JobsAreTyped'
  BY <1>0, <1>1, <1>2 DEF InsertNode, ReplaceNode
<1>3. ASSUME NEW f \in Nodes, NEW t \in Nodes, InsertAssignment(w, f, t) PROVE TypeOK' /\ JobsAreTyped'
  <2>1. [from |-> f, to |-> t, owner |-> job[w].caller] \in Assignment
    BY <1>0, <1>3 DEF InsertAssignment, JobTyped, At, Assignment
  <2>2. assign' \subseteq Assignment
    BY <1>0, <1>3, <2>1 DEF InsertAssignment
  <2> QED
    BY <1>0, <1>1, <1>3, <2>2 DEF InsertAssignment
<1>4. ASSUME DeleteAssignment(w) PROVE TypeOK' /\ JobsAreTyped'
  <2>1. assign' \subseteq assign
    BY <1>4 DEF DeleteAssignment
  <2> QED
    BY <1>0, <1>1, <1>4, <2>1 DEF DeleteAssignment
<1>5. ASSUME InsertAssociation(w) PROVE TypeOK' /\ JobsAreTyped'
  BY <1>0, <1>1, <1>5 DEF InsertAssociation, JobTyped, At
<1>6. ASSUME ReplaceAssociation(w) PROVE TypeOK' /\ JobsAreTyped'
  <2>1. job[w].assoc \in Association /\ job[w].ops \in NonemptyOps
    BY <1>0, <1>6 DEF ReplaceAssociation, JobTyped, At
  <2>2. [job[w].assoc EXCEPT !.ops = job[w].ops] \in Association
    BY <2>1 DEF Association
  <2> QED
    BY <1>0, <1>1, <1>6, <2>2 DEF ReplaceAssociation
<1>7. ASSUME DeleteAssociation(w) PROVE TypeOK' /\ JobsAreTyped'
  BY <1>0, <1>1, <1>7 DEF DeleteAssociation
<1>8. ASSUME NEW s \in {"drop_assignments", "drop_associations"},
             Become(w, [job[w] EXCEPT !.at = s]), ~At(w, "idle"),
             live' \subseteq Nodes, assign' \subseteq Assignment,
             assoc' \subseteq Association, cut' \subseteq Nodes
      PROVE  TypeOK' /\ JobsAreTyped'
  <2> DEFINE j == [job[w] EXCEPT !.at = s]
  <2>1. j \in Job /\ j.at = s /\ j.caller = job[w].caller
    BY NextJob DEF Steps
  <2>2. Become(w, j)
    BY <1>8
  <2> HIDE DEF j
  <2>3. JobTyped(j)
    BY <1>0, <1>8, <2>1 DEF JobTyped, At
  <2> QED
    BY <1>8, <2>1, <2>2, <2>3, Takes
<1>9. job[w].nodes \subseteq Nodes
  BY <1>0 DEF Job
<1>10. ASSUME DropNodes(w) PROVE TypeOK' /\ JobsAreTyped'
  <2>1. ~At(w, "idle") /\ live' \subseteq Nodes /\ assign' = assign /\ assoc' = assoc
    BY <1>0, <1>10 DEF DropNodes, At
  <2>2. CASE Finish(w) /\ UNCHANGED cut
    BY <1>0, <1>1, <2>1, <2>2
  <2>3. CASE cut' = cut \cup job[w].nodes /\ Become(w, [job[w] EXCEPT !.at = "drop_assignments"])
    BY <1>0, <1>8, <1>9, <2>1, <2>3
  <2> QED
    BY <1>10, <2>2, <2>3 DEF DropNodes
<1>11. ASSUME DropAssignments(w) PROVE TypeOK' /\ JobsAreTyped'
  BY <1>0, <1>8, <1>11 DEF DropAssignments, At
<1>12. ASSUME DropAssociations(w) PROVE TypeOK' /\ JobsAreTyped'
  BY <1>0, <1>1, <1>12 DEF DropAssociations
<1>13. ASSUME Abort(w) PROVE TypeOK' /\ JobsAreTyped'
  BY <1>0, <1>1, <1>13 DEF Abort
<1> QED
  BY <1>2, <1>3, <1>4, <1>5, <1>6, <1>7, <1>10, <1>11, <1>12, <1>13 DEF Write

(* Documents and requests stay well formed, whatever overlaps.             *)
THEOREM GraphIsTyped == Spec => [](TypeOK /\ JobsAreTyped)
<1>1. Init => TypeOK /\ JobsAreTyped
  BY IdleIsAJob DEF Init, TypeOK, JobsAreTyped, At
<1>2. TypeOK /\ JobsAreTyped /\ [Next]_vars => TypeOK' /\ JobsAreTyped'
  <2> SUFFICES ASSUME TypeOK, JobsAreTyped, [Next]_vars PROVE TypeOK' /\ JobsAreTyped'
    OBVIOUS
  <2>1. CASE UNCHANGED vars
    BY <2>1 DEF vars, TypeOK, JobsAreTyped, At
  <2> QED
    BY <2>1, BeginTyped, WriteTyped DEF Next
<1> QED
  BY <1>1, <1>2, PTL DEF Spec

-----------------------------------------------------------------------------
(* The graph of assignments.                                                *)

(* An assignment to a node that does not lead back closes no cycle.        *)
LEMMA SafeAssignment ==
    ASSUME NEW par \in G!Graph, NEW f \in Nodes, NEW t \in Nodes,
           G!Acyclic(par), f \notin G!Ancestors(par, {t})
    PROVE  G!Acyclic(G!WithParent(par, f, t))
<1> DEFINE new == G!WithParent(par, f, t)
<1>0. \A x \in Nodes : new[x] = IF x = f THEN par[f] \cup {t} ELSE par[x]
  BY DEF G!WithParent, G!Graph
<1> SUFFICES ASSUME NEW S \in SUBSET Nodes, S # {},
                    \A x \in S : new[x] \cap S # {}
             PROVE  FALSE
  BY DEF G!Acyclic
<1>1. f \in S /\ t \in S
  BY <1>0 DEF G!Acyclic
<1>2. PICK C \in SUBSET Nodes : t \in C /\ G!Closed(par, C) /\ f \notin C
  BY DEF G!Ancestors
\* The members of S above t would be a set of their own without an end.
<1>3. ASSUME NEW x \in S \cap C PROVE par[x] \cap (S \cap C) # {}
  BY <1>0, <1>2 DEF G!Closed
<1> QED
  BY <1>1, <1>2, <1>3 DEF G!Acyclic

LEMMA ParentsTyped == TypeOK => Parents \in G!Graph
BY DEF TypeOK, Parents, Assignment, G!Graph

(* Taking assignments away closes no cycle.                                *)
LEMMA FewerAssignments ==
    ASSUME TypeOK, AssignmentsAcyclic, assign' \subseteq assign
    PROVE  AssignmentsAcyclic'
<1>1. \A n \in Nodes : Parents'[n] \subseteq Parents[n]
  BY DEF Parents
<1> SUFFICES ASSUME NEW S \in SUBSET Nodes, S # {} PROVE \E x \in S : Parents'[x] \cap S = {}
  BY DEF AssignmentsAcyclic, G!Acyclic
<1>2. PICK x \in S : Parents[x] \cap S = {}
  BY DEF AssignmentsAcyclic, G!Acyclic
<1> QED
  BY <1>1, <1>2

(* Nor does an assignment that assign has checked.                         *)
LEMMA OneMoreAssignment ==
    ASSUME TypeOK, AssignmentsAcyclic, NEW f \in Nodes, NEW t \in Nodes, NEW a,
           a.from = f, a.to = t, ~ClosesCycle(f, t), assign' = assign \cup {a}
    PROVE  AssignmentsAcyclic'
<1>1. Parents' = G!WithParent(Parents, f, t)
  BY DEF Parents, G!WithParent
<1> QED
  BY <1>1, ParentsTyped, SafeAssignment DEF AssignmentsAcyclic, ClosesCycle

-----------------------------------------------------------------------------
(* Requests that do not overlap.                                           *)

\* A worker takes on a job that has nothing to hold, and the graph shrinks or stays.
LEMMA Restarts ==
    ASSUME OneWorker, TypeOK, SerialInv, NEW w \in Workers, NEW j \in Job, Become(w, j),
           j.at \notin {"insert_assignment", "insert_association", "drop_associations"},
           assign' \subseteq assign, DanglingOnlyWhereCut'
    PROVE  ChecksHold' /\ AssignmentsAcyclic' /\ DanglingOnlyWhereCut'
<1>1. \A v \in Workers : job'[v] = j
  BY Serving DEF OneWorker
<1>2. ChecksHold'
  BY <1>1 DEF ChecksHold, At
<1> QED
  BY <1>2, FewerAssignments DEF SerialInv

LEMMA BeginKeeps ==
    ASSUME OneWorker, TypeOK, SerialInv, NEW w \in Workers, NEW c \in Callers, Begin(w, c)
    PROVE  ChecksHold' /\ AssignmentsAcyclic' /\ DanglingOnlyWhereCut'
<1>0. live \subseteq Nodes /\ assign \subseteq Assignment /\ assoc \subseteq Association
  BY DEF TypeOK
<1>1. ASSUME NEW s \in {"insert_node", "replace_node", "drop_nodes"}, NEW ns \in SUBSET Nodes,
             Become(w, NodesRequest(s, c, ns)), assign' = assign, DanglingOnlyWhereCut'
      PROVE  ChecksHold' /\ AssignmentsAcyclic' /\ DanglingOnlyWhereCut'
  BY <1>1, NodesJob, Restarts DEF Steps
<1>2. UNCHANGED <<live, assign, assoc, cut>> => DanglingOnlyWhereCut'
  BY DEF SerialInv, DanglingOnlyWhereCut
<1>3. ASSUME NEW n \in Nodes, CreateNode(w, c, n) PROVE ChecksHold' /\ AssignmentsAcyclic' /\ DanglingOnlyWhereCut'
  <2>1. DanglingOnlyWhereCut'
    BY <1>3 DEF CreateNode, Unused, SerialInv, DanglingOnlyWhereCut
  <2>2. Become(w, NodesRequest("insert_node", c, {n})) /\ assign' = assign
    BY <1>3 DEF CreateNode, NodesRequest
  <2> QED
    BY <1>1, <2>1, <2>2
<1>4. ASSUME NEW n \in Nodes, UpdateNode(w, c, n) PROVE ChecksHold' /\ AssignmentsAcyclic' /\ DanglingOnlyWhereCut'
  <2>1. Become(w, NodesRequest("replace_node", c, {n})) /\ UNCHANGED <<live, assign, assoc, cut>>
    BY <1>4 DEF UpdateNode, NodesRequest
  <2> QED
    BY <1>1, <1>2, <2>1
<1>5. ASSUME NEW n \in Nodes, DeleteNode(w, c, n) PROVE ChecksHold' /\ AssignmentsAcyclic' /\ DanglingOnlyWhereCut'
  <2>1. Become(w, NodesRequest("drop_nodes", c, {n})) /\ UNCHANGED <<live, assign, assoc, cut>>
    BY <1>5 DEF DeleteNode, NodesRequest
  <2> QED
    BY <1>1, <1>2, <2>1
<1>6. ASSUME DeleteNodesByOwner(w, c) PROVE ChecksHold' /\ AssignmentsAcyclic' /\ DanglingOnlyWhereCut'
  <2> DEFINE ns == {n \in live : OwnerOf[n] = c}
  <2>1. Become(w, NodesRequest("drop_nodes", c, ns)) /\ UNCHANGED <<live, assign, assoc, cut>>
    BY <1>6 DEF DeleteNodesByOwner, NodesRequest
  <2>2. ns \in SUBSET Nodes
    BY <1>0
  <2> QED
    BY <1>1, <1>2, <2>1, <2>2
<1>7. ASSUME NEW f \in Nodes, NEW t \in Nodes, Assign(w, c, f, t)
      PROVE  ChecksHold' /\ AssignmentsAcyclic' /\ DanglingOnlyWhereCut'
  <2> DEFINE j == PairRequest("insert_assignment", c, f, t)
  <2>1. j \in Job /\ j.at = "insert_assignment" /\ j.from = f /\ j.to = t
    BY PairJob DEF Steps
  <2>2. Become(w, j) /\ UNCHANGED <<live, assign, assoc, cut>>
    BY <1>7 DEF Assign, PairRequest
  <2> HIDE DEF j
  <2>3. \A v \in Workers : job'[v] = j
    BY <2>1, <2>2, Serving DEF OneWorker
  <2>4. {f, t} \subseteq live' /\ ~ClosesCycle(f, t)'
    BY <1>7, <2>2 DEF Assign, ClosesCycle, Parents
  <2>5. ChecksHold'
    BY <2>1, <2>3, <2>4 DEF ChecksHold, At, ClosesCycle, Parents
  <2> QED
    BY <1>2, <2>2, <2>5, FewerAssignments DEF SerialInv
<1>8. ASSUME NEW a \in assign, RemoveAssignment(w, c, a)
      PROVE  ChecksHold' /\ AssignmentsAcyclic' /\ DanglingOnlyWhereCut'
  <2>1. PairRequest("delete_assignment", c, a.from, a.to) \in Job
        /\ PairRequest("delete_assignment", c, a.from, a.to).at = "delete_assignment"
    BY <1>0, PairJob DEF Steps, Assignment
  <2>2. /\ Become(w, PairRequest("delete_assignment", c, a.from, a.to))
        /\ UNCHANGED <<live, assign, assoc, cut>>
    BY <1>8 DEF RemoveAssignment, PairRequest
  <2> QED
    BY <1>2, <2>1, <2>2, Restarts
<1>9. ASSUME NEW ua \in Nodes, NEW oa \in Nodes, NEW ops \in NonemptyOps, Associate(w, c, ua, oa, ops)
      PROVE  ChecksHold' /\ AssignmentsAcyclic' /\ DanglingOnlyWhereCut'
  <2> DEFINE b == [ua |-> ua, oa |-> oa, ops |-> ops, owner |-> c]
             j == AssociationRequest("insert_association", c, b)
  <2>1. b \in Association /\ b.ua = ua /\ b.oa = oa
    BY DEF Association
  <2>2. j \in Job /\ j.at = "insert_association" /\ j.assoc = b
    BY <2>1, AssociationJob DEF Steps
  <2>3. Become(w, j) /\ UNCHANGED <<live, assign, assoc, cut>> /\ {ua, oa} \subseteq live
    BY <1>9 DEF Associate, AssociationRequest
  <2> HIDE DEF j, b
  <2>4. \A v \in Workers : job'[v] = j
    BY <2>2, <2>3, Serving DEF OneWorker
  <2>5. ChecksHold'
    BY <2>1, <2>2, <2>3, <2>4 DEF ChecksHold, At
  <2> QED
    BY <1>2, <2>3, <2>5, FewerAssignments DEF SerialInv
<1>10. ASSUME NEW b \in assoc, RemoveAssociation(w, c, b)
       PROVE  ChecksHold' /\ AssignmentsAcyclic' /\ DanglingOnlyWhereCut'
  <2>1. AssociationRequest("delete_association", c, b) \in Job
        /\ AssociationRequest("delete_association", c, b).at = "delete_association"
    BY <1>0, AssociationJob DEF Steps
  <2>2. /\ Become(w, AssociationRequest("delete_association", c, b))
        /\ UNCHANGED <<live, assign, assoc, cut>>
    BY <1>10 DEF RemoveAssociation, AssociationRequest
  <2> QED
    BY <1>2, <2>1, <2>2, Restarts
<1>11. ASSUME NEW b \in assoc, NEW ops \in NonemptyOps, UpdateAssociation(w, c, b, ops)
       PROVE  ChecksHold' /\ AssignmentsAcyclic' /\ DanglingOnlyWhereCut'
  <2>1. UpdateRequest(c, b, ops) \in Job /\ UpdateRequest(c, b, ops).at = "replace_association"
    BY <1>0, UpdateJob
  <2>2. Become(w, UpdateRequest(c, b, ops)) /\ UNCHANGED <<live, assign, assoc, cut>>
    BY <1>11 DEF UpdateAssociation, UpdateRequest
  <2> QED
    BY <1>2, <2>1, <2>2, Restarts
<1> QED
  BY <1>3, <1>4, <1>5, <1>6, <1>7, <1>8, <1>9, <1>10, <1>11 DEF Begin

LEMMA WriteKeeps ==
    ASSUME OneWorker, TypeOK, SerialInv, NEW w \in Workers, Write(w) \/ Abort(w)
    PROVE  ChecksHold' /\ AssignmentsAcyclic' /\ DanglingOnlyWhereCut'
<1>1. ASSUME Finish(w), assign' \subseteq assign, DanglingOnlyWhereCut'
      PROVE  ChecksHold' /\ AssignmentsAcyclic' /\ DanglingOnlyWhereCut'
  BY <1>1, IdleIsAJob, Restarts DEF Finish
<1>2. UNCHANGED <<live, assign, assoc, cut>> => DanglingOnlyWhereCut'
  BY DEF SerialInv, DanglingOnlyWhereCut
<1>3. ASSUME NEW n \in Nodes, InsertNode(w, n) \/ ReplaceNode(w, n)
      PROVE  ChecksHold' /\ AssignmentsAcyclic' /\ DanglingOnlyWhereCut'
  <2>1. DanglingOnlyWhereCut'
    BY <1>3 DEF InsertNode, ReplaceNode, SerialInv, DanglingOnlyWhereCut
  <2> QED
    BY <1>1, <1>3, <2>1 DEF InsertNode, ReplaceNode
<1>4. ASSUME NEW f \in Nodes, NEW t \in Nodes, InsertAssignment(w, f, t)
      PROVE  ChecksHold' /\ AssignmentsAcyclic' /\ DanglingOnlyWhereCut'
  <2>1. CASE assign' = assign
    BY <1>1, <1>2, <1>4, <2>1 DEF InsertAssignment
  <2>2. CASE assign' # assign
    <3> DEFINE a == [from |-> f, to |-> t, owner |-> job[w].caller]
    <3>1. a.from = f /\ a.to = t
      OBVIOUS
    <3>2. assign' = assign \cup {a} /\ UNCHANGED <<live, assoc, cut>>
      BY <1>4, <2>2 DEF InsertAssignment
    <3> HIDE DEF a
    <3>3. {f, t} \subseteq live /\ ~ClosesCycle(f, t)
      BY <1>4 DEF InsertAssignment, SerialInv, ChecksHold
    <3>4. AssignmentsAcyclic'
      BY <3>1, <3>2, <3>3, OneMoreAssignment DEF SerialInv
    <3>5. DanglingOnlyWhereCut'
      BY <3>1, <3>2, <3>3 DEF SerialInv, DanglingOnlyWhereCut
    <3>6. \A v \in Workers : job'[v] = Idle
      BY <1>4, IdleIsAJob, Serving DEF InsertAssignment, Finish, OneWorker
    <3>7. ChecksHold'
      BY <3>6, IdleIsAJob DEF ChecksHold, At
    <3> QED
      BY <3>4, <3>5, <3>7
  <2> QED
    BY <2>1, <2>2
<1>5. ASSUME DeleteAssignment(w) PROVE ChecksHold' /\ AssignmentsAcyclic' /\ DanglingOnlyWhereCut'
  <2>1. assign' \subseteq assign
    BY <1>5 DEF DeleteAssignment
  <2>2. DanglingOnlyWhereCut'
    BY <1>5, <2>1 DEF DeleteAssignment, SerialInv, DanglingOnlyWhereCut
  <2> QED
    BY <1>1, <1>5, <2>1, <2>2 DEF DeleteAssignment
<1>6. ASSUME InsertAssociation(w) PROVE ChecksHold' /\ AssignmentsAcyclic' /\ DanglingOnlyWhereCut'
  <2>1. DanglingOnlyWhereCut'
    BY <1>6 DEF InsertAssociation, SerialInv, ChecksHold, DanglingOnlyWhereCut
  <2> QED
    BY <1>1, <1>6, <2>1 DEF InsertAssociation
<1>7. ASSUME ReplaceAssociation(w) PROVE ChecksHold' /\ AssignmentsAcyclic' /\ DanglingOnlyWhereCut'
  <2> DEFINE b == job[w].assoc
             b2 == [b EXCEPT !.ops = job[w].ops]
  <2>1. b \in Association
    BY <1>7 DEF ReplaceAssociation, SerialInv, JobsAreTyped, At
  <2>2. b2.ua = b.ua /\ b2.oa = b.oa
    BY <2>1 DEF Association
  <2>3. assoc' = (IF b \in assoc THEN (assoc \ {b}) \cup {b2} ELSE assoc) /\ UNCHANGED <<live, assign, cut>>
    BY <1>7 DEF ReplaceAssociation
  <2> HIDE DEF b, b2
  <2>4. DanglingOnlyWhereCut'
    BY <2>2, <2>3 DEF SerialInv, DanglingOnlyWhereCut
  <2> QED
    BY <1>1, <1>7, <2>3, <2>4 DEF ReplaceAssociation
<1>8. ASSUME DeleteAssociation(w) PROVE ChecksHold' /\ AssignmentsAcyclic' /\ DanglingOnlyWhereCut'
  <2>1. DanglingOnlyWhereCut'
    BY <1>8 DEF DeleteAssociation, SerialInv, DanglingOnlyWhereCut
  <2> QED
    BY <1>1, <1>8, <2>1 DEF DeleteAssociation
<1>9. ASSUME DropNodes(w) PROVE ChecksHold' /\ AssignmentsAcyclic' /\ DanglingOnlyWhereCut'
  <2>1. CASE job[w].nodes \cap live = {} /\ Cardinality(job[w].nodes) = 1
    <3>1. live' = live /\ Finish(w) /\ UNCHANGED <<assign, assoc, cut>>
      BY <1>9, <2>1 DEF DropNodes
    <3> QED
      BY <1>1, <1>2, <3>1
  <2>2. CASE ~(job[w].nodes \cap live = {} /\ Cardinality(job[w].nodes) = 1)
    <3> DEFINE j == [job[w] EXCEPT !.at = "drop_assignments"]
    <3>1. j \in Job /\ j.at = "drop_assignments"
      BY NextJob DEF Steps
    <3>2. /\ live' = live \ job[w].nodes /\ cut' = cut \cup job[w].nodes
          /\ Become(w, j) /\ UNCHANGED <<assign, assoc>>
      BY <1>9, <2>2 DEF DropNodes
    <3> HIDE DEF j
    <3>3. DanglingOnlyWhereCut'
      BY <3>2 DEF SerialInv, DanglingOnlyWhereCut
    <3> QED
      BY <3>1, <3>2, <3>3, Restarts
  <2> QED
    BY <2>1, <2>2
<1>10. ASSUME DropAssignments(w) PROVE ChecksHold' /\ AssignmentsAcyclic' /\ DanglingOnlyWhereCut'
  <2> DEFINE j == [job[w] EXCEPT !.at = "drop_associations"]
  <2>1. j \in Job /\ j.at = "drop_associations" /\ j.nodes = job[w].nodes
    BY NextJob DEF Steps
  <2>2. Become(w, j) /\ assign' = assign \ ImpactAssignments(job[w].nodes) /\ UNCHANGED <<live, assoc, cut>>
    BY <1>10 DEF DropAssignments
  <2> HIDE DEF j
  <2>3. \A v \in Workers : job'[v] = j
    BY <2>1, <2>2, Serving DEF OneWorker
  <2>4. ChecksHold'
    BY <2>1, <2>2, <2>3 DEF ChecksHold, At, ImpactAssignments
  <2>5. DanglingOnlyWhereCut'
    BY <2>2 DEF SerialInv, DanglingOnlyWhereCut
  <2> QED
    BY <2>2, <2>4, <2>5, FewerAssignments DEF SerialInv
<1>11. ASSUME DropAssociations(w) PROVE ChecksHold' /\ AssignmentsAcyclic' /\ DanglingOnlyWhereCut'
  <2>1. ImpactAssignments(job[w].nodes) = {}
    BY <1>11 DEF DropAssociations, SerialInv, ChecksHold
  <2>2. DanglingOnlyWhereCut'
    BY <1>11, <2>1
    DEF DropAssociations, SerialInv, DanglingOnlyWhereCut, ImpactAssignments, ImpactAssociations
  <2> QED
    BY <1>1, <1>11, <2>2 DEF DropAssociations
<1>12. ASSUME Abort(w) PROVE ChecksHold' /\ AssignmentsAcyclic' /\ DanglingOnlyWhereCut'
  BY <1>1, <1>2, <1>12 DEF Abort
<1> QED
  BY <1>3, <1>4, <1>5, <1>6, <1>7, <1>8, <1>9, <1>10, <1>11, <1>12 DEF Write

(* Requests that do not overlap leave no cycle and nothing dangling but    *)
(* where a cascade stopped.                                                *)
THEOREM SerialChecksHold ==
    ASSUME OneWorker
    PROVE  Spec => [](TypeOK /\ SerialInv)
<1>1. Init => SerialInv
  <2> SUFFICES ASSUME Init PROVE SerialInv
    OBVIOUS
  <2>1. JobsAreTyped /\ ChecksHold
    BY IdleIsAJob DEF Init, JobsAreTyped, ChecksHold, At
  <2>2. \A n \in Nodes : Parents[n] = {}
    BY DEF Init, Parents
  <2>3. AssignmentsAcyclic
    BY <2>2 DEF AssignmentsAcyclic, G!Acyclic
  <2>4. DanglingOnlyWhereCut
    BY DEF Init, DanglingOnlyWhereCut
  <2> QED
    BY <2>1, <2>3, <2>4 DEF SerialInv
<1>2. TypeOK /\ SerialInv /\ TypeOK' /\ JobsAreTyped' /\ [Next]_vars => SerialInv'
  <2> SUFFICES ASSUME TypeOK, SerialInv, JobsAreTyped', [Next]_vars PROVE SerialInv'
    OBVIOUS
  <2>1. CASE UNCHANGED vars
    <3>1. ChecksHold' /\ DanglingOnlyWhereCut'
      BY <2>1 DEF vars, SerialInv, ChecksHold, DanglingOnlyWhereCut, At, ClosesCycle, Parents, ImpactAssignments
    <3> QED
      BY <2>1, <3>1, FewerAssignments DEF vars, SerialInv
  <2>2. CASE Next
    BY <2>2, BeginKeeps, WriteKeeps DEF Next, SerialInv
  <2> QED
    BY <2>1, <2>2
<1> QED
  BY <1>1, <1>2, GraphIsTyped, PTL DEF Spec

(* No node is assigned to itself through others.                           *)
THEOREM SerialAcyclic ==
    ASSUME OneWorker
    PROVE  Spec => []AssignmentsAcyclic
<1>1. SerialInv => AssignmentsAcyclic
  BY DEF SerialInv
<1> QED
  BY <1>1, SerialChecksHold, PTL

(* Only a cascade that was cut short leaves a reference behind.            *)
THEOREM SerialDangling ==
    ASSUME OneWorker
    PROVE  Spec => []DanglingOnlyWhereCut
<1>1. SerialInv => DanglingOnlyWhereCut
  BY DEF SerialInv
<1> QED
  BY <1>1, SerialChecksHold, PTL

-----------------------------------------------------------------------------
(* Types of assignments.                                                   *)

\* What a worker takes on, unless it is an assignment against the types.
LEMMA TakesByType ==
    ASSUME TypeOK, AssignmentsByType, NEW w \in Workers, NEW j \in Job, Become(w, j),
           j.at = "insert_assignment" => TypeOf[j.to] \in Targets(TypeOf[j.from]),
           assign' \subseteq assign
    PROVE  AssignmentsByType'
BY Serving DEF AssignmentsByType, At

LEMMA BeginByType ==
    ASSUME TypeOK, AssignmentsByType, NEW w \in Workers, NEW c \in Callers, Begin(w, c)
    PROVE  AssignmentsByType'
<1>0. live \subseteq Nodes /\ assign \subseteq Assignment /\ assoc \subseteq Association
  BY DEF TypeOK
<1>1. ASSUME NEW s \in Steps \ {"insert_assignment"}, NEW ns \in SUBSET Nodes,
             Become(w, NodesRequest(s, c, ns)), assign' = assign
      PROVE  AssignmentsByType'
  BY <1>1, NodesJob, TakesByType
<1>2. ASSUME NEW n \in Nodes, CreateNode(w, c, n) \/ UpdateNode(w, c, n) \/ DeleteNode(w, c, n)
      PROVE  AssignmentsByType'
  <2>1. /\ assign' = assign
        /\ \/ Become(w, NodesRequest("insert_node", c, {n}))
           \/ Become(w, NodesRequest("replace_node", c, {n}))
           \/ Become(w, NodesRequest("drop_nodes", c, {n}))
    BY <1>2 DEF CreateNode, UpdateNode, DeleteNode, NodesRequest
  <2> QED
    BY <1>1, <2>1 DEF Steps
<1>3. ASSUME DeleteNodesByOwner(w, c) PROVE AssignmentsByType'
  <2> DEFINE ns == {n \in live : OwnerOf[n] = c}
  <2>1. Become(w, NodesRequest("drop_nodes", c, ns)) /\ assign' = assign
    BY <1>3 DEF DeleteNodesByOwner, NodesRequest
  <2>2. ns \in SUBSET Nodes
    BY <1>0
  <2> HIDE DEF ns
  <2> QED
    BY <1>1, <2>1, <2>2 DEF Steps
<1>4. ASSUME NEW f \in Nodes, NEW t \in Nodes, Assign(w, c, f, t) PROVE AssignmentsByType'
  <2>1. Become(w, PairRequest("insert_assignment", c, f, t)) /\ assign' = assign
    BY <1>4 DEF Assign, PairRequest
  <2>2. TypeOf[t] \in Targets(TypeOf[f])
    BY <1>4 DEF Assign
  <2>3. "insert_assignment" \in Steps
    BY DEF Steps
  <2> QED
    BY <2>1, <2>2, <2>3, PairJob, TakesByType
<1>5. ASSUME NEW a \in assign, RemoveAssignment(w, c, a) PROVE AssignmentsByType'
  <2>1. Become(w, PairRequest("delete_assignment", c, a.from, a.to)) /\ assign' = assign
    BY <1>5 DEF RemoveAssignment, PairRequest
  <2>2. a.from \in Nodes /\ a.to \in Nodes /\ "delete_assignment" \in Steps
    BY <1>0 DEF Assignment, Steps
  <2> QED
    BY <2>1, <2>2, PairJob, TakesByType
<1>6. ASSUME NEW s \in Steps \ {"insert_assignment"}, NEW b \in Association,
             Become(w, AssociationRequest(s, c, b)), assign' = assign
      PROVE  AssignmentsByType'
  BY <1>6, AssociationJob, TakesByType
<1>7. ASSUME NEW ua \in Nodes, NEW oa \in Nodes, NEW ops \in NonemptyOps, Associate(w, c, ua, oa, ops)
      PROVE  AssignmentsByType'
  <2>1. [ua |-> ua, oa |-> oa, ops |-> ops, owner |-> c] \in Association
    BY DEF Association
  <2>2. /\ Become(w, AssociationRequest("insert_association", c,
                        [ua |-> ua, oa |-> oa, ops |-> ops, owner |-> c]))
        /\ assign' = assign
    BY <1>7 DEF Associate, AssociationRequest
  <2> QED
    BY <1>6, <2>1, <2>2 DEF Steps
<1>8. ASSUME NEW b \in assoc, RemoveAssociation(w, c, b) PROVE AssignmentsByType'
  <2>1. Become(w, AssociationRequest("delete_association", c, b)) /\ assign' = assign
    BY <1>8 DEF RemoveAssociation, AssociationRequest
  <2> QED
    BY <1>0, <1>6, <2>1 DEF Steps
<1>9. ASSUME NEW b \in assoc, NEW ops \in NonemptyOps, UpdateAssociation(w, c, b, ops)
      PROVE  AssignmentsByType'
  <2>1. Become(w, UpdateRequest(c, b, ops)) /\ assign' = assign
    BY <1>9 DEF UpdateAssociation, UpdateRequest
  <2> QED
    BY <1>0, <2>1, UpdateJob, TakesByType
<1> QED
  BY <1>2, <1>3, <1>4, <1>5, <1>7, <1>8, <1>9 DEF Begin

LEMMA WriteByType ==
    ASSUME TypeOK, AssignmentsByType, NEW w \in Workers, Write(w) \/ Abort(w)
    PROVE  AssignmentsByType'
<1>1. ASSUME Finish(w), assign' \subseteq assign PROVE AssignmentsByType'
  BY <1>1, IdleIsAJob, TakesByType DEF Finish
<1>2. ASSUME NEW n \in Nodes, InsertNode(w, n) \/ ReplaceNode(w, n) PROVE AssignmentsByType'
  BY <1>1, <1>2 DEF InsertNode, ReplaceNode
<1>3. ASSUME NEW f \in Nodes, NEW t \in Nodes, InsertAssignment(w, f, t) PROVE AssignmentsByType'
  <2> DEFINE a == [from |-> f, to |-> t, owner |-> job[w].caller]
  <2>1. a.from = f /\ a.to = t
    OBVIOUS
  <2>2. TypeOf[t] \in Targets(TypeOf[f]) /\ Finish(w) /\ assign' \in {assign, assign \cup {a}}
    BY <1>3 DEF InsertAssignment, AssignmentsByType
  <2> HIDE DEF a
  <2>3. \A v \in Workers : At(v, "insert_assignment")' => job'[v] = job[v]
    BY <2>2, IdleIsAJob, Serving DEF Finish, At
  <2>4. \A v \in Workers : At(v, "insert_assignment")' => At(v, "insert_assignment") /\ job'[v] = job[v]
    BY <2>3 DEF At
  <2> QED
    BY <2>1, <2>2, <2>4 DEF AssignmentsByType
<1>4. ASSUME DeleteAssignment(w) PROVE AssignmentsByType'
  <2>1. assign' \subseteq assign
    BY <1>4 DEF DeleteAssignment
  <2> QED
    BY <1>1, <1>4, <2>1 DEF DeleteAssignment
<1>5. ASSUME InsertAssociation(w) \/ ReplaceAssociation(w) \/ DeleteAssociation(w)
      PROVE  AssignmentsByType'
  <2>1. Finish(w) /\ assign' = assign
    BY <1>5 DEF InsertAssociation, ReplaceAssociation, DeleteAssociation
  <2> QED
    BY <1>1, <2>1
<1>6. ASSUME NEW s \in {"drop_assignments", "drop_associations"},
             Become(w, [job[w] EXCEPT !.at = s]), assign' \subseteq assign
      PROVE  AssignmentsByType'
  <2> DEFINE j == [job[w] EXCEPT !.at = s]
  <2>1. j \in Job /\ j.at = s /\ Become(w, j)
    BY <1>6, NextJob DEF Steps
  <2> HIDE DEF j
  <2> QED
    BY <1>6, <2>1, TakesByType
<1>7. ASSUME DropNodes(w) PROVE AssignmentsByType'
  <2>1. CASE Finish(w)
    BY <1>1, <1>7, <2>1 DEF DropNodes
  <2>2. CASE Become(w, [job[w] EXCEPT !.at = "drop_assignments"])
    BY <1>6, <1>7, <2>2 DEF DropNodes
  <2> QED
    BY <1>7, <2>1, <2>2 DEF DropNodes
<1>8. ASSUME DropAssignments(w) PROVE AssignmentsByType'
  BY <1>6, <1>8 DEF DropAssignments
<1>9. ASSUME DropAssociations(w) \/ Abort(w) PROVE AssignmentsByType'
  <2>1. Finish(w) /\ assign' = assign
    BY <1>9 DEF DropAssociations, Abort
  <2> QED
    BY <1>1, <2>1
<1> QED
  BY <1>2, <1>3, <1>4, <1>5, <1>7, <1>8, <1>9 DEF Write

(* Users lead to user attributes, objects to object attributes, and both   *)
(* only to policy classes, which lead nowhere.                             *)
THEOREM TypesAreKept == Spec => []AssignmentsByType
<1>1. Init => AssignmentsByType
  BY IdleIsAJob DEF Init, AssignmentsByType, At
<1>2. TypeOK /\ AssignmentsByType /\ [Next]_vars => AssignmentsByType'
  <2> SUFFICES ASSUME TypeOK, AssignmentsByType, [Next]_vars PROVE AssignmentsByType'
    OBVIOUS
  <2>1. CASE UNCHANGED vars
    BY <2>1 DEF vars, AssignmentsByType, At
  <2> QED
    BY <2>1, BeginByType, WriteByType DEF Next
<1> QED
  BY <1>1, <1>2, GraphIsTyped, PTL DEF Spec

-----------------------------------------------------------------------------
(* The search.  Its equation has one solution: one, because reachability     *)
(* satisfies it, and only one, because every level but the last leaves less *)
(* to see, of which there is a finite amount.                              *)

\* The nodes each node leads to.
Reaches(par) == [n \in Nodes |-> G!Ancestors(par, {n})]

\* A search has seen some nodes from each node.
Seen == [Nodes -> SUBSET Nodes]

\* One more level of the search from every node, and what it ends with.
Level(par, seen) == [n \in Nodes |-> seen[n] \cup UNION {par[x] : x \in seen[n]}]
Rest(par, seen) == [n \in Nodes |-> G!Ancestors(par, seen[n])]

\* What the search has still to see.
Unseen(seen) == {p \in Nodes \X Nodes : p[2] \notin seen[p[1]]}

LEMMA LevelGoesOn ==
    ASSUME NEW par \in G!Graph, NEW seen \in Seen
    PROVE  /\ Level(par, seen) \in Seen
           /\ \A n \in Nodes : seen[n] \subseteq Level(par, seen)[n]
           /\ \A n \in Nodes, x \in Nodes : x \in Level(par, seen)[n] <=>
                   x \in seen[n] \/ \E y \in seen[n] : x \in par[y]
<1>1. \A n \in Nodes : seen[n] \subseteq Nodes
  BY DEF Seen
<1>2. \A x \in Nodes : par[x] \subseteq Nodes
  BY DEF G!Graph
<1>3. \A n \in Nodes : Level(par, seen)[n] \in SUBSET Nodes
  BY <1>1, <1>2 DEF Level
<1>4. Level(par, seen) \in Seen
  BY <1>3 DEF Level, Seen
<1> QED
  BY <1>4 DEF Level

(* A level adds nothing that was not to be reached.                        *)
LEMMA RestStays ==
    ASSUME NEW par \in G!Graph, NEW seen \in Seen
    PROVE  Rest(par, Level(par, seen)) = Rest(par, seen)
<1> DEFINE next == Level(par, seen)
<1>1. /\ next \in Seen
      /\ \A n \in Nodes : seen[n] \subseteq next[n]
      /\ \A n \in Nodes, x \in Nodes : x \in next[n] <=> x \in seen[n] \/ \E y \in seen[n] : x \in par[y]
  BY LevelGoesOn
<1> HIDE DEF next
<1>2. ASSUME NEW n \in Nodes PROVE G!Ancestors(par, next[n]) = G!Ancestors(par, seen[n])
  <2>1. \A C \in SUBSET Nodes : G!Closed(par, C) => (seen[n] \subseteq C <=> next[n] \subseteq C)
    <3> SUFFICES ASSUME NEW C \in SUBSET Nodes, G!Closed(par, C), seen[n] \subseteq C PROVE next[n] \subseteq C
      BY <1>1
    <3>1. next[n] \subseteq Nodes
      BY <1>1 DEF Seen
    <3> QED
      BY <1>1, <3>1 DEF G!Closed
  <2> QED
    BY <2>1 DEF G!Ancestors
<1> QED
  BY <1>2 DEF Rest, next

(* A search that sees nothing new has seen everything.                     *)
LEMMA SearchIsOver ==
    ASSUME NEW par \in G!Graph, NEW seen \in Seen, Level(par, seen) = seen
    PROVE  Rest(par, seen) = seen
<1>1. ASSUME NEW n \in Nodes PROVE G!Ancestors(par, seen[n]) = seen[n]
  <2>1. seen[n] \subseteq Nodes /\ \A x \in Nodes : par[x] \subseteq Nodes
    BY DEF Seen, G!Graph
  <2>2. \A y \in seen[n] : par[y] \subseteq seen[n]
    BY <2>1, LevelGoesOn
  <2>3. G!Closed(par, seen[n])
    BY <2>2 DEF G!Closed
  <2> QED
    BY <2>1, <2>3 DEF G!Ancestors
<1> QED
  BY <1>1 DEF Rest, Seen

(* Every other level leaves less to see.                                   *)
LEMMA LessIsUnseen ==
    ASSUME NEW par \in G!Graph, NEW seen \in Seen, Level(par, seen) # seen
    PROVE  <<Unseen(Level(par, seen)), Unseen(seen)>> \in StrictSubsetOrdering(Nodes \X Nodes)
<1> DEFINE next == Level(par, seen)
<1>1. /\ next \in Seen
      /\ \A n \in Nodes : seen[n] \subseteq next[n]
  BY LevelGoesOn
<1> HIDE DEF next
<1>2. Unseen(next) \subseteq Unseen(seen)
  BY <1>1 DEF Unseen
<1>3. PICK n \in Nodes : next[n] # seen[n]
  BY <1>1 DEF Seen, next
<1>4. PICK x \in Nodes : x \in next[n] /\ x \notin seen[n]
  BY <1>1, <1>3 DEF Seen
<1>5. <<n, x>> \in Unseen(seen) /\ <<n, x>> \notin Unseen(next)
  BY <1>4 DEF Unseen
<1>6. Unseen(next) \in SUBSET (Nodes \X Nodes) /\ Unseen(seen) \in SUBSET (Nodes \X Nodes)
  BY DEF Unseen
<1> QED
  BY <1>2, <1>5, <1>6 DEF StrictSubsetOrdering, next

\* The equation of the search.
IsSearch(f, par) ==
    f = [seen \in Seen |-> IF Level(par, seen) = seen THEN seen ELSE f[Level(par, seen)]]

(* The equation has a solution.                                            *)
LEMMA SearchExists ==
    ASSUME NEW par \in G!Graph
    PROVE  IsSearch([seen \in Seen |-> Rest(par, seen)], par)
<1> DEFINE f == [seen \in Seen |-> Rest(par, seen)]
<1>1. ASSUME NEW seen \in Seen
      PROVE  Rest(par, seen) = IF Level(par, seen) = seen THEN seen ELSE f[Level(par, seen)]
  BY SearchIsOver, RestStays, LevelGoesOn
<1> QED
  BY <1>1 DEF IsSearch

(* And no other, since a search has only so much to see.                   *)
LEMMA SearchIsUnique ==
    ASSUME NEW par \in G!Graph, NEW f, IsSearch(f, par), NEW s \in Seen
    PROVE  f[s] = Rest(par, s)
<1> DEFINE Odd == {seen \in Seen : f[seen] # Rest(par, seen)}
           T == {Unseen(seen) : seen \in Odd}
           R == StrictSubsetOrdering(Nodes \X Nodes)
<1> SUFFICES ASSUME Odd # {} PROVE FALSE
  OBVIOUS
<1>1. IsFiniteSet(Nodes \X Nodes)
  BY NodesAreFinite, FS_Product
<1>2. FiniteSubsetsOf(Nodes \X Nodes) = SUBSET (Nodes \X Nodes)
  BY <1>1, FS_FiniteSubsetsOfFinite
<1>3. IsWellFoundedOn(R, SUBSET (Nodes \X Nodes))
  BY <1>2, FS_StrictSubsetOrderingWellFounded
<1>4. T \subseteq SUBSET (Nodes \X Nodes) /\ T # {}
  <2>1. \A seen \in Odd : Unseen(seen) \in SUBSET (Nodes \X Nodes)
    BY DEF Unseen
  <2> QED
    BY <2>1
<1>5. \E x \in T : \A y \in T : <<y, x>> \notin R
  <2> HIDE DEF T, R
  <2> QED
    BY <1>3, <1>4, WFMin, Zenon
<1>6. PICK seen \in Odd : \A y \in T : <<y, Unseen(seen)>> \notin R
  BY <1>5
<1>7. f[seen] = IF Level(par, seen) = seen THEN seen ELSE f[Level(par, seen)]
  BY <1>6 DEF IsSearch
<1>8. CASE Level(par, seen) = seen
  BY <1>6, <1>7, <1>8, SearchIsOver
<1>9. CASE Level(par, seen) # seen
  <2>1. <<Unseen(Level(par, seen)), Unseen(seen)>> \in R
    BY <1>6, <1>9, LessIsUnseen
  <2>2. Level(par, seen) \in Seen
    BY <1>6, LevelGoesOn
  <2>3. Level(par, seen) \notin Odd
    BY <1>6, <2>1
  <2> QED
    BY <1>6, <1>7, <1>9, <2>2, <2>3, RestStays
<1> QED
  BY <1>8, <1>9

(* What NGACGraph.upward_closure finds is what there is a path to, on every *)
(* graph, cycles included.                                                 *)
THEOREM ClosuresAreReached ==
    \A par \in G!Graph : UpwardClosure(par) = Reaches(par)
<1> SUFFICES ASSUME NEW par \in G!Graph PROVE UpwardClosure(par) = Reaches(par)
  OBVIOUS
<1> DEFINE f == CHOOSE g : IsSearch(g, par)
           start == [n \in Nodes |-> {n}]
<1>1. IsSearch(f, par)
  BY SearchExists
<1>2. UpwardClosure(par) = f[start]
  BY DEF UpwardClosure, IsSearch, Seen, Level
<1>3. start \in Seen
  BY DEF Seen
<1>4. f[start] = Rest(par, start)
  <2> HIDE DEF f
  <2> QED
    BY <1>1, <1>3, SearchIsUnique
<1>5. Rest(par, start) = Reaches(par)
  BY DEF Rest, Reaches
<1> QED
  BY <1>2, <1>4, <1>5

-----------------------------------------------------------------------------
(* Decisions.                                                              *)

\* A decision by the nodes L, the associations A and the closures up.
Through(L, A, up, u, o, op, pc) ==
    \E b \in A : /\ op \in b.ops
                 /\ b.ua \in L /\ TypeOf[b.ua] = "user_attribute" /\ b.ua \in up[u] /\ pc \in up[b.ua]
                 /\ b.oa \in L /\ TypeOf[b.oa] = "object_attribute" /\ b.oa \in up[o] /\ pc \in up[b.oa]

GovernedBy(L, up, o) == {m \in up[o] : m \in L /\ TypeOf[m] = "policy_class"}

Grants(L, A, up, u, o, op) ==
    /\ GovernedBy(L, up, o) # {}
    /\ \A pc \in GovernedBy(L, up, o) : Through(L, A, up, u, o, op, pc)

LEMMA CheckGrants ==
    ASSUME NEW up, NEW u, NEW o, NEW op
    PROVE  /\ Governing(up, o) = GovernedBy(live, up, o)
           /\ \A pc : Matches(up, u, o, op, pc) # {} <=> Through(live, assoc, up, u, o, op, pc)
           /\ Check(up, u, o, op) <=> Grants(live, assoc, up, u, o, op)
<1>1. Governing(up, o) = GovernedBy(live, up, o)
  BY DEF Governing, Reached, GovernedBy
<1>2. \A pc : Matches(up, u, o, op, pc) # {} <=> Through(live, assoc, up, u, o, op, pc)
  BY DEF Matches, Under, Reached, Through
<1> QED
  BY <1>1, <1>2 DEF Check, Grants

(* Check and explain, each by a loop of its own, agree on any graph and     *)
(* with any closures.                                                      *)
THEOREM CheckIsExplained ==
    \A up, u, o, op :
        LET e == Explain(up, u, o, op)
        IN  Check(up, u, o, op) <=> e.governing # {} /\ e.failed = {}
BY DEF Explain, Check

(* A decision rests on just the nodes there is a path to, and a denial is   *)
(* explained.                                                              *)
THEOREM DecisionsAreSound ==
    Spec => []DecisionSound
<1>1. TypeOK => DecisionSound
  <2> SUFFICES ASSUME TypeOK PROVE DecisionSound
    OBVIOUS
  <2> DEFINE up == UpwardClosure(Parents)
  <2>1. up = Reaches(Parents)
    BY ParentsTyped, ClosuresAreReached
  <2> HIDE DEF up
  <2>2. \A n \in Nodes : up[n] = G!Ancestors(Parents, {n})
    BY <2>1 DEF Reaches
  <2>3. \A u, o \in live, op \in Operations :
          LET e == Explain(up, u, o, op)
          IN  Check(up, u, o, op) <=> e.governing # {} /\ e.failed = {}
    BY CheckIsExplained
  <2> QED
    BY <2>2, <2>3 DEF DecisionSound, up
<1> QED
  BY <1>1, GraphIsTyped, PTL

-----------------------------------------------------------------------------
(* How reachability moves with the graph.                                  *)

LEMMA ReachableNodes ==
    ASSUME NEW par \in G!Graph, NEW n \in Nodes
    PROVE  /\ n \in Reaches(par)[n]
           /\ Reaches(par)[n] \subseteq Nodes
           /\ \A x \in Reaches(par)[n] : par[x] \subseteq Reaches(par)[n]
           /\ \A C \in SUBSET Nodes : n \in C /\ G!Closed(par, C) => Reaches(par)[n] \subseteq C
<1>1. Reaches(par)[n] = G!Ancestors(par, {n})
  BY DEF Reaches
<1>2. n \in G!Ancestors(par, {n}) /\ G!Ancestors(par, {n}) \subseteq Nodes
  BY DEF G!Ancestors
<1>3. ASSUME NEW x \in G!Ancestors(par, {n}), NEW y \in par[x] PROVE y \in G!Ancestors(par, {n})
  <2>1. x \in Nodes /\ y \in Nodes
    BY <1>2, <1>3 DEF G!Graph
  <2>2. ASSUME NEW C \in SUBSET Nodes, {n} \subseteq C, G!Closed(par, C) PROVE y \in C
    BY <1>3, <2>2 DEF G!Ancestors, G!Closed
  <2> QED
    BY <2>1, <2>2 DEF G!Ancestors
<1>4. \A C \in SUBSET Nodes : n \in C /\ G!Closed(par, C) => G!Ancestors(par, {n}) \subseteq C
  BY DEF G!Ancestors
<1> QED
  BY <1>1, <1>2, <1>3, <1>4

(* More assignments, more nodes reached.                                   *)
LEMMA MoreReached ==
    ASSUME NEW par \in G!Graph, NEW more \in G!Graph,
           \A x \in Nodes : par[x] \subseteq more[x], NEW n \in Nodes
    PROVE  Reaches(par)[n] \subseteq Reaches(more)[n]
<1> DEFINE C == Reaches(more)[n]
<1>1. C \in SUBSET Nodes /\ n \in C /\ \A x \in C : more[x] \subseteq C
  BY ReachableNodes
<1> HIDE DEF C
<1>2. G!Closed(par, C)
  BY <1>1 DEF G!Closed
<1>3. Reaches(par)[n] \subseteq C
  BY <1>1, <1>2, ReachableNodes
<1> QED
  BY <1>3 DEF C

(* Where the graph is the same on a set one does not leave, so is what is   *)
(* reached from it.                                                        *)
LEMMA SameReached ==
    ASSUME NEW par \in G!Graph, NEW other \in G!Graph, NEW W \in SUBSET Nodes,
           G!Closed(par, W), \A x \in W : other[x] = par[x], NEW n \in W
    PROVE  Reaches(par)[n] = Reaches(other)[n] /\ Reaches(par)[n] \subseteq W
<1>1. G!Closed(other, W)
  BY DEF G!Closed
<1> DEFINE P == Reaches(par)[n]
           O == Reaches(other)[n]
<1>2. /\ P \in SUBSET Nodes /\ n \in P /\ \A x \in P : par[x] \subseteq P
      /\ P \subseteq W
  BY ReachableNodes
<1>3. /\ O \in SUBSET Nodes /\ n \in O /\ \A x \in O : other[x] \subseteq O
      /\ O \subseteq W
  BY <1>1, ReachableNodes
<1>4. \A C \in SUBSET Nodes : n \in C /\ G!Closed(par, C) => P \subseteq C
  BY ReachableNodes
<1>5. \A C \in SUBSET Nodes : n \in C /\ G!Closed(other, C) => O \subseteq C
  BY ReachableNodes
<1> HIDE DEF P, O
<1>6. G!Closed(other, P) /\ G!Closed(par, O)
  BY <1>2, <1>3 DEF G!Closed
<1>7. P = O
  BY <1>2, <1>3, <1>4, <1>5, <1>6
<1> QED
  BY <1>2, <1>7 DEF P, O

-----------------------------------------------------------------------------
(* How decisions move with the graph.                                       *)

ByType(par) == \A n \in Nodes : \A x \in par[n] : TypeOf[x] \in Targets(TypeOf[n])

LEMMA ParentsByType == TypeOK /\ AssignmentsByType => Parents \in G!Graph /\ ByType(Parents)
<1> SUFFICES ASSUME TypeOK, AssignmentsByType PROVE Parents \in G!Graph /\ ByType(Parents)
  OBVIOUS
<1>1. ASSUME NEW n \in Nodes, NEW x \in Parents[n] PROVE TypeOf[x] \in Targets(TypeOf[n])
  BY <1>1 DEF AssignmentsByType, Parents
<1> QED
  BY <1>1, ParentsTyped DEF ByType

LEMMA PermittedIs ==
    TypeOK => Permitted = {p \in Nodes \X Nodes \X Operations :
                             Grants(live, assoc, Reaches(Parents), p[1], p[2], p[3])}
<1> SUFFICES ASSUME TypeOK
             PROVE  Permitted = {p \in Nodes \X Nodes \X Operations :
                                   Grants(live, assoc, Reaches(Parents), p[1], p[2], p[3])}
  OBVIOUS
<1>1. UpwardClosure(Parents) = Reaches(Parents)
  BY ParentsTyped, ClosuresAreReached
<1> QED
  BY <1>1, CheckGrants DEF Permitted

LEMMA GovernedIs ==
    TypeOK => \A pc : Governed(pc) = {o \in Nodes : pc \in GovernedBy(live, Reaches(Parents), o)}
<1> SUFFICES ASSUME TypeOK, NEW pc
             PROVE  Governed(pc) = {o \in Nodes : pc \in GovernedBy(live, Reaches(Parents), o)}
  OBVIOUS
<1>1. UpwardClosure(Parents) = Reaches(Parents)
  BY ParentsTyped, ClosuresAreReached
<1> QED
  BY <1>1, CheckGrants DEF Governed

(* On the side of users, more nodes, assignments and associations take no  *)
(* access away.                                                            *)
LEMMA UserSideGrows ==
    ASSUME NEW par \in G!Graph, NEW more \in G!Graph, ByType(par),
           \A n \in Nodes : par[n] \subseteq more[n],
           \A n \in Nodes \ UserSide : more[n] = par[n],
           NEW L \in SUBSET Nodes, NEW L2 \in SUBSET Nodes, L \subseteq L2,
           \A n \in Nodes \ UserSide : n \in L <=> n \in L2,
           NEW A, NEW A2, A \subseteq A2,
           NEW u \in Nodes, NEW o \in Nodes, NEW op, Grants(L, A, Reaches(par), u, o, op)
    PROVE  Grants(L2, A2, Reaches(more), u, o, op)
<1> DEFINE U == Reaches(par)
           V == Reaches(more)
           Objects == Nodes \ UserSide
           Users == {n \in Nodes : TypeOf[n] \in {"user", "user_attribute", "policy_class"}}
<1>1. G!Closed(par, Objects)
  BY NodesAreTyped DEF ByType, Targets, NodeType, UserSide, G!Closed, G!Graph
<1>2. G!Closed(par, Users)
  BY NodesAreTyped DEF ByType, Targets, NodeType, G!Closed, G!Graph
<1>3. o \in Objects
  <2>1. PICK pc \in GovernedBy(L, U, o) : Through(L, A, U, u, o, op, pc)
    BY DEF Grants
  <2>2. PICK x \in U[o] : TypeOf[x] = "object_attribute"
    BY <2>1 DEF Through
  <2>3. x \notin Users
    BY <2>2
  <2>4. o \notin Users
    BY <1>2, <2>2, <2>3, ReachableNodes
  <2> QED
    BY <2>4 DEF UserSide
<1>4. \A n \in Objects : U[n] = V[n] /\ U[n] \subseteq Objects
  BY <1>1, SameReached
<1>5. \A n \in Nodes : U[n] \subseteq V[n]
  BY MoreReached
<1> HIDE DEF U, V, Objects, Users
<1>6. GovernedBy(L2, V, o) = GovernedBy(L, U, o)
  BY <1>3, <1>4 DEF GovernedBy, Objects
<1>7. ASSUME NEW pc \in GovernedBy(L, U, o) PROVE Through(L2, A2, V, u, o, op, pc)
  <2>1. PICK b \in A : /\ op \in b.ops
                       /\ b.ua \in L /\ TypeOf[b.ua] = "user_attribute" /\ b.ua \in U[u] /\ pc \in U[b.ua]
                       /\ b.oa \in L /\ TypeOf[b.oa] = "object_attribute" /\ b.oa \in U[o] /\ pc \in U[b.oa]
    BY DEF Grants, Through, U
  <2>2. b.ua \in L2 /\ b.ua \in V[u] /\ pc \in V[b.ua]
    BY <1>5, <2>1
  <2>3. b.oa \in L2 /\ b.oa \in V[o] /\ pc \in V[b.oa]
    BY <1>3, <1>4, <2>1
  <2> QED
    BY <2>1, <2>2, <2>3 DEF Through
<1>8. GovernedBy(L, U, o) # {}
  BY DEF Grants, U
<1> QED
  BY <1>6, <1>7, <1>8 DEF Grants, V

(* Another policy class above something leaves what was denied there denied. *)
LEMMA ClassRestricts ==
    ASSUME NEW par \in G!Graph, ByType(par), NEW f \in Nodes, NEW t \in Nodes,
           TypeOf[t] = "policy_class", NEW more \in G!Graph, more = G!WithParent(par, f, t),
           NEW L \in SUBSET Nodes, NEW A, NEW u \in Nodes, NEW o \in Nodes, NEW op,
           t \notin GovernedBy(L, Reaches(par), o), GovernedBy(L, Reaches(par), o) # {},
           Grants(L, A, Reaches(more), u, o, op)
    PROVE  Grants(L, A, Reaches(par), u, o, op)
<1> DEFINE U == Reaches(par)
           V == Reaches(more)
<1>1. \A x \in Nodes : more[x] = IF x = f THEN par[f] \cup {t} ELSE par[x]
  BY DEF G!WithParent, G!Graph
<1>2. par[t] = {}
  BY DEF ByType, Targets
<1>3. ASSUME NEW n \in Nodes PROVE U[n] \subseteq V[n] /\ V[n] \subseteq U[n] \cup {t}
  <2>1. U[n] \subseteq V[n]
    BY <1>1, MoreReached
  <2> DEFINE C == U[n] \cup {t}
  <2>2. C \in SUBSET Nodes /\ n \in C /\ \A x \in U[n] : par[x] \subseteq U[n]
    BY ReachableNodes
  <2> HIDE DEF U
  <2>3. \A x \in C : more[x] \subseteq C
    BY <1>1, <1>2, <2>2
  <2>4. G!Closed(more, C)
    BY <2>3 DEF G!Closed
  <2>5. V[n] \subseteq C
    BY <2>2, <2>4, ReachableNodes
  <2> QED
    BY <2>1, <2>5
<1>4. GovernedBy(L, U, o) # {} /\ t \notin GovernedBy(L, U, o)
  OBVIOUS
<1> HIDE DEF U, V
<1>5. ASSUME NEW pc \in GovernedBy(L, U, o) PROVE Through(L, A, U, u, o, op, pc)
  <2>1. pc # t /\ pc \in GovernedBy(L, V, o)
    BY <1>3, <1>4 DEF GovernedBy
  <2>2. PICK b \in A : /\ op \in b.ops
                       /\ b.ua \in L /\ TypeOf[b.ua] = "user_attribute" /\ b.ua \in V[u] /\ pc \in V[b.ua]
                       /\ b.oa \in L /\ TypeOf[b.oa] = "object_attribute" /\ b.oa \in V[o] /\ pc \in V[b.oa]
    BY <2>1 DEF Grants, Through, V
  <2>3. b.ua # t /\ b.oa # t
    BY <2>2
  <2>4. b.ua \in U[u] /\ pc \in U[b.ua] /\ b.oa \in U[o] /\ pc \in U[b.oa]
    BY <1>3, <2>1, <2>2, <2>3
  <2> QED
    BY <2>2, <2>4 DEF Through
<1> QED
  BY <1>4, <1>5 DEF Grants, U

\* Only insert_assignment adds an assignment, and it adds one and nothing else.
LEMMA WhatAdds ==
    ASSUME TypeOK, TypeOK', [Next]_vars, NEW a \in assign' \ assign
    PROVE  /\ a.from \in Nodes /\ a.to \in Nodes
           /\ assign' = assign \cup {a} /\ live' = live /\ assoc' = assoc
<1>1. ASSUME NEW w \in Workers, NEW c \in Callers, Begin(w, c) PROVE assign' = assign
  BY <1>1, Zenon DEF Begin, CreateNode, UpdateNode, DeleteNode, DeleteNodesByOwner, Assign, Associate,
              RemoveAssignment, UpdateAssociation, RemoveAssociation
<1>2. ASSUME NEW w \in Workers, Abort(w) PROVE assign' = assign
  BY <1>2 DEF Abort
<1>3. PICK w \in Workers : Write(w)
  BY <1>1, <1>2 DEF Next, vars
<1>4. PICK f \in Nodes, t \in Nodes : InsertAssignment(w, f, t)
  BY <1>3 DEF Write, InsertNode, ReplaceNode, DeleteAssignment, InsertAssociation,
              ReplaceAssociation, DeleteAssociation, DropNodes, DropAssignments, DropAssociations
<1>5. assign' = assign \cup {[from |-> f, to |-> t, owner |-> job[w].caller]}
      /\ live' = live /\ assoc' = assoc
  BY <1>4 DEF InsertAssignment
<1>6. a = [from |-> f, to |-> t, owner |-> job[w].caller]
  BY <1>5
<1> QED
  BY <1>5, <1>6

(* Putting something under one more policy class gives no access to what    *)
(* was governed already.                                                   *)
THEOREM ClassesRestrictEachOther ==
    Spec => ClassOnlyRestricts
<1> DEFINE before(a) == UNION {Governed(pc) : pc \in Nodes \ {a.to}}
           added(a) == Governed(a.to)' \ Governed(a.to)
           Step == \A a \in assign' \ assign : TypeOf[a.to] = "policy_class" =>
                      \A p \in Permitted' \ Permitted : p[2] \notin before(a) \cap added(a)
<1>1. TypeOK => Permitted = {p \in Nodes \X Nodes \X Operations :
                               Grants(live, assoc, Reaches(Parents), p[1], p[2], p[3])}
  BY PermittedIs
<1>2. (TypeOK => Permitted = {p \in Nodes \X Nodes \X Operations :
                                Grants(live, assoc, Reaches(Parents), p[1], p[2], p[3])})'
  BY <1>1, PTL
<1>3. TypeOK /\ TypeOK' /\ AssignmentsByType /\ [Next]_vars => Step
  <2> SUFFICES ASSUME TypeOK, TypeOK', AssignmentsByType, [Next]_vars,
                      NEW a \in assign' \ assign, TypeOf[a.to] = "policy_class",
                      NEW p \in Permitted' \ Permitted, p[2] \in before(a), p[2] \in added(a)
               PROVE  FALSE
    OBVIOUS
  <2> DEFINE par == Parents
             more == Parents'
  <2>1. /\ a.from \in Nodes /\ a.to \in Nodes
        /\ assign' = assign \cup {a} /\ live' = live /\ assoc' = assoc
    BY WhatAdds
  <2>2. more = G!WithParent(par, a.from, a.to)
    BY <2>1 DEF Parents, G!WithParent
  <2>3. par \in G!Graph /\ ByType(par) /\ more \in G!Graph
    <3>1. more \in [Nodes -> SUBSET Nodes]
      BY <2>1 DEF TypeOK, Assignment, Parents
    <3> QED
      BY <3>1, ParentsByType DEF G!Graph
  <2>4. PICK pc \in Nodes \ {a.to} : p[2] \in Governed(pc)
    OBVIOUS
  <2>5. p[2] \in Nodes /\ pc \in GovernedBy(live, Reaches(par), p[2])
    BY <2>4, GovernedIs
  <2>6. a.to \notin GovernedBy(live, Reaches(par), p[2])
    <3>1. p[2] \notin Governed(a.to)
      OBVIOUS
    <3> QED
      BY <2>5, <3>1, GovernedIs
  <2>7. p \in Nodes \X Nodes \X Operations /\ Grants(live, assoc, Reaches(more), p[1], p[2], p[3])
    BY <1>2, <2>1
  <2> HIDE DEF par, more
  <2>8. p[1] \in Nodes /\ live \in SUBSET Nodes
    BY <2>7 DEF TypeOK
  <2>9. GovernedBy(live, Reaches(par), p[2]) # {}
    BY <2>5
  <2>10. Grants(live, assoc, Reaches(par), p[1], p[2], p[3])
    BY <2>1, <2>2, <2>3, <2>5, <2>6, <2>7, <2>8, <2>9, ClassRestricts
  <2>11. p \in Permitted
    BY <1>1, <2>7, <2>10 DEF par
  <2> QED
    BY <2>11
<1>4. TypeOK /\ TypeOK' /\ AssignmentsByType /\ [Next]_vars
        => [\A a \in assign' \ assign : TypeOf[a.to] = "policy_class" =>
              LET already == UNION {Governed(pc) : pc \in Nodes \ {a.to}}
                  newly == Governed(a.to)' \ Governed(a.to)
              IN  \A p \in Permitted' \ Permitted : p[2] \notin already \cap newly]_vars
  BY <1>3
<1> QED
  BY <1>4, GraphIsTyped, TypesAreKept, PTL DEF Spec, ClassOnlyRestricts

(* On the side of users more is more and less is less.                     *)
THEOREM UserSideMovesAlong ==
    Spec => UserSideMonotone
<1>1. TypeOK => Permitted = {p \in Nodes \X Nodes \X Operations :
                               Grants(live, assoc, Reaches(Parents), p[1], p[2], p[3])}
  BY PermittedIs
<1>2. (TypeOK => Permitted = {p \in Nodes \X Nodes \X Operations :
                                Grants(live, assoc, Reaches(Parents), p[1], p[2], p[3])})'
  BY <1>1, PTL
<1>3. (TypeOK /\ AssignmentsByType => Parents \in G!Graph /\ ByType(Parents))'
  BY ParentsByType, PTL
<1>4. ASSUME TypeOK, TypeOK', AssignmentsByType, AssignmentsByType', UserSideStep
      PROVE  /\ More => Permitted \subseteq Permitted'
             /\ Less => Permitted' \subseteq Permitted
  <2> DEFINE par == Parents
             par2 == Parents'
  <2>1. par \in G!Graph /\ ByType(par)
    BY <1>4, ParentsByType
  <2>2. par2 \in G!Graph /\ ByType(par2)
    BY <1>3, <1>4
  <2>3. \A n \in Nodes \ UserSide : par2[n] = par[n]
    <3>1. \A n \in Nodes \ UserSide : \A a \in assign \cup assign' : a.from = n => a \in assign /\ a \in assign'
      BY <1>4 DEF UserSideStep
    <3> QED
      BY <3>1 DEF Parents
  <2>4. \A n \in Nodes \ UserSide : n \in live <=> n \in live'
    BY <1>4 DEF UserSideStep
  <2>5. live \in SUBSET Nodes /\ live' \in SUBSET Nodes
    BY <1>4 DEF TypeOK
  <2>6. /\ assign \subseteq assign' => \A n \in Nodes : par[n] \subseteq par2[n]
        /\ assign' \subseteq assign => \A n \in Nodes : par2[n] \subseteq par[n]
    BY DEF Parents
  <2>7. Permitted = {p \in Nodes \X Nodes \X Operations :
                       Grants(live, assoc, Reaches(par), p[1], p[2], p[3])}
    BY <1>1, <1>4
  <2>8. Permitted' = {p \in Nodes \X Nodes \X Operations :
                        Grants(live', assoc', Reaches(par2), p[1], p[2], p[3])}
    BY <1>2, <1>4
  <2> HIDE DEF par, par2
  <2>9. ASSUME More, NEW p \in Permitted PROVE p \in Permitted'
    <3>1. p[1] \in Nodes /\ p[2] \in Nodes /\ Grants(live, assoc, Reaches(par), p[1], p[2], p[3])
      BY <2>7
    <3>2. live \subseteq live' /\ assoc \subseteq assoc' /\ \A n \in Nodes : par[n] \subseteq par2[n]
      BY <2>6, <2>9 DEF More
    <3>3. Grants(live', assoc', Reaches(par2), p[1], p[2], p[3])
      BY <2>1, <2>2, <2>3, <2>4, <2>5, <3>1, <3>2, UserSideGrows
    <3> QED
      BY <2>7, <2>8, <3>3
  <2>10. ASSUME Less, NEW p \in Permitted' PROVE p \in Permitted
    <3>1. p[1] \in Nodes /\ p[2] \in Nodes /\ Grants(live', assoc', Reaches(par2), p[1], p[2], p[3])
      BY <2>8
    <3>2. live' \subseteq live /\ assoc' \subseteq assoc /\ \A n \in Nodes : par2[n] \subseteq par[n]
      BY <2>6, <2>10 DEF Less
    <3>3. Grants(live, assoc, Reaches(par), p[1], p[2], p[3])
      BY <2>1, <2>2, <2>3, <2>4, <2>5, <3>1, <3>2, UserSideGrows
    <3> QED
      BY <2>7, <2>8, <3>3
  <2> QED
    BY <2>9, <2>10
<1>5. TypeOK /\ TypeOK' /\ AssignmentsByType /\ AssignmentsByType'
        => [UserSideStep /\ (More \/ Less) /\ ~(More /\ Less) =>
              IF More THEN Permitted \subseteq Permitted' ELSE Permitted' \subseteq Permitted]_vars
  BY <1>4
<1> QED
  BY <1>5, GraphIsTyped, TypesAreKept, PTL DEF UserSideMonotone

(* Decisions move only in the direction one expects.                       *)
THEOREM DecisionsMove ==
    Spec => DecisionsMoveAsExpected
BY ClassesRestrictEachOther, UserSideMovesAlong DEF DecisionsMoveAsExpected
==============================================================================
