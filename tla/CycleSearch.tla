----------------------------- MODULE CycleSearch -----------------------------
(***************************************************************************)
(* RBACDomainService.would_create_cycle: the breadth-first search that     *)
(* add_parent runs over the roles it has loaded, before it lets role       *)
(* inherit from newParent.  The deque is a set from which any member may   *)
(* be taken next: parent_role_ids comes in no particular order, and a      *)
(* second copy of an identifier in the deque is skipped when it is popped. *)
(*                                                                         *)
(* The graph is any graph, also one that already has a cycle: overlapping  *)
(* requests can store one (module RoleHierarchy), and the search has to    *)
(* end all the same.                                                       *)
(***************************************************************************)
EXTENDS RoleWalks

VARIABLES
    graph,    \* the graph read with find_all
    roleId,     \* role_id
    newParent,  \* new_parent_id
    queue,      \* identifiers still to be looked at
    visited,
    answer      \* "searching", then the value returned: "cycle" or "safe"

searchVars == <<graph, roleId, newParent, queue, visited, answer>>
inputs == <<graph, roleId, newParent>>

SearchTypeOK ==
    /\ graph \in Graph
    /\ roleId \in Roles
    /\ newParent \in Roles
    /\ queue \subseteq Roles
    /\ visited \subseteq Roles
    /\ answer \in {"searching", "cycle", "safe"}

\* add_parent has refused role = newParent before it calls the search.
SearchInit ==
    /\ graph \in Graph
    /\ roleId \in Roles
    /\ newParent \in Roles \ {roleId}
    /\ queue = {newParent}
    /\ visited = {}
    /\ answer = "searching"

Meet(current) ==
    /\ current = roleId
    /\ answer' = "cycle"
    /\ UNCHANGED <<inputs, queue, visited>>

Skip(current) ==
    /\ current # roleId
    /\ current \in visited
    /\ queue' = queue \ {current}
    /\ UNCHANGED <<inputs, visited, answer>>

\* Mutant: marks the role as visited and forgets to enqueue its parents.
Expand_NoParents(current) ==
    /\ current # roleId
    /\ current \notin visited
    /\ visited' = visited \cup {current}
    /\ queue' = queue \ {current}
    /\ UNCHANGED <<inputs, answer>>

\* Mutant: leaves the role in the queue unvisited.
Expand_NeverVisited(current) ==
    /\ current # roleId
    /\ current \notin visited
    /\ queue' = (queue \ {current}) \cup graph[current]
    /\ UNCHANGED <<inputs, visited, answer>>

Expand(current) ==
    /\ current # roleId
    /\ current \notin visited
    /\ visited' = visited \cup {current}
    /\ queue' = (queue \ {current}) \cup graph[current]
    /\ UNCHANGED <<inputs, answer>>

Pop(current) == Meet(current) \/ Skip(current) \/ Expand(current)

Exhausted ==
    /\ queue = {}
    /\ answer' = "safe"
    /\ UNCHANGED <<inputs, queue, visited>>

SearchNext ==
    /\ answer = "searching"
    /\ \/ \E current \in queue : Pop(current)
       \/ Exhausted

SearchSpec == SearchInit /\ [][SearchNext]_searchVars

-----------------------------------------------------------------------------
(* The search answers "cycle" exactly when role is among the ancestors of  *)
(* the proposed parent: would_create_cycle computes reachability.          *)
AnswerIsReachability ==
    /\ answer = "cycle" => roleId \in Ancestors(graph, {newParent})
    /\ answer = "safe" => roleId \notin Ancestors(graph, {newParent})

(* What add_parent relies on: on a graph without cycles, the answer says   *)
(* whether the graph with the new edge still has none.                     *)
AnswerDecidesAcyclicity ==
    Acyclic(graph) =>
       /\ answer = "safe" => Acyclic(WithParent(graph, roleId, newParent))
       /\ answer = "cycle" => ~Acyclic(WithParent(graph, roleId, newParent))

(* The strengthening the proofs use: what has been visited has its parents *)
(* visited or queued, nothing but ancestors is ever queued, and role has   *)
(* not been passed over.                                                   *)
SearchInv ==
    /\ newParent \in visited \cup queue
    /\ \A c \in visited : graph[c] \subseteq visited \cup queue
    /\ visited \cup queue \subseteq Ancestors(graph, {newParent})
    /\ roleId \notin visited
    /\ answer = "cycle" => roleId \in queue
    /\ answer = "safe" => queue = {}

(* The loop ends on every graph, cyclic ones included.                     *)
Terminates == <>(answer # "searching")

-----------------------------------------------------------------------------
(* The walks that answer questions of authorization, on the same graph.    *)

(* The check counts the permissions of exactly the roles reached from the   *)
(* ones the subject holds (resolve_effective_permissions).                  *)
WalkIsReachability(roots) ==
    EffectiveRoles(graph, roots) = Ancestors(graph, roots)

(* The explanation says the same, and calls inherited what the parents of   *)
(* the roots reach: one set shared by all roots, in which an earlier root   *)
(* may have put a later one, cuts no walk short.                            *)
ExplanationAgrees(roots) ==
    LET inherited == InheritedRoles(graph, roots)
    IN  /\ inherited = Ancestors(graph, UNION {graph[r] : r \in roots})
        /\ roots \cup inherited = EffectiveRoles(graph, roots)

(* Without cycles has_role_explained finds a role exactly if it is reached, *)
(* and the path it reports is a chain of parents from a role that is held.  *)
PathAgrees(roots) ==
    Acyclic(graph) =>
        \A target \in Roles :
            LET path == ResolutionPath(graph, roots, target)
            IN  IF target \in Ancestors(graph, roots)
                THEN path # <<>> /\ IsPath(graph, roots, target, path)
                ELSE path = <<>>

(* The three ways of following parents, a search with a visited set, a      *)
(* recursion with a shared set and a recursion without one, give one and    *)
(* the same answer to what a subject holds, on every graph and for every    *)
(* set of roots (rbac_service.py, rbac/domain/services.py).                 *)
WalksAgree ==
    \A roots \in SUBSET Roles :
        WalkIsReachability(roots) /\ ExplanationAgrees(roots) /\ PathAgrees(roots)
==============================================================================
