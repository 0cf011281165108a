------------------------------ MODULE RoleWalks -----------------------------
(***************************************************************************)
(* The three ways in which the RBAC component follows parents when it      *)
(* answers a question: the breadth-first search for the effective          *)
(* permissions, the walk that separates own from inherited ones, and the   *)
(* search for the path by which a role is held.                            *)
(*                                                                         *)
(* parent_role_ids is a list in the order the parents were added; here the *)
(* parents are taken in any fixed order.                                   *)
(***************************************************************************)
EXTENDS RoleGraph, Integers, Sequences, FiniteSets, FiniteSetsExt

\* find_all returns a list.
ASSUME RolesAreFinite == IsFiniteSet(Roles)

\* The loop of resolve_effective_permissions: what it has visited at the end.
Walk(par, queue, visited) ==
    LET walk[s \in [queue: SUBSET Roles, visited: SUBSET Roles]] ==
            IF s.queue \subseteq s.visited THEN s.visited
            ELSE LET current == CHOOSE r \in s.queue \ s.visited : TRUE
                     seen    == s.visited \cup {current}
                 IN  walk[[queue |-> (s.queue \cup par[current]) \ seen, visited |-> seen]]
    IN  walk[[queue |-> queue, visited |-> visited]]

EffectiveRoles(par, roots) == Walk(par, roots, {})

\* Mutant: a role that is in the set because it is a root ends the walk.
Inherit_Shallow(par, r, inherited) == inherited \cup par[r]

\* parents(role_id): the set inherited_ids after the call.  The loop over the
\* parents still to do follows a new one before it goes on to the next.
Inherit(par, r, inherited) ==
    LET inherit[s \in [todo: SUBSET Roles, known: SUBSET Roles]] ==
            IF s.todo = {} THEN s.known
            ELSE LET p == CHOOSE p \in s.todo : TRUE
                     known == IF p \in s.known THEN s.known
                              ELSE inherit[[todo |-> par[p], known |-> s.known \cup {p}]]
                 IN  inherit[[todo |-> s.todo \ {p}, known |-> known]]
    IN  inherit[[todo |-> par[r], known |-> inherited]]

InheritedRoles(par, roots) ==
    FoldSet(LAMBDA r, known : Inherit(par, r, known), {}, roots)

\* find(current, target, path), without the path in front: the path from current
\* through the first parent that has one, or <<>> for None.  It keeps no record
\* of the roles it has seen.
Find(par, current, target) ==
    LET find[r \in Roles] ==
            LET found == {p \in par[r] : find[p] # <<>>}
            IN  IF r = target THEN <<r>>
                ELSE IF found = {} THEN <<>>
                ELSE <<r>> \o find[CHOOSE p \in found : TRUE]
    IN  find[current]

ResolutionPath(par, roots, target) ==
    LET found == {r \in roots : Find(par, r, target) # <<>>}
    IN  IF found = {} THEN <<>> ELSE Find(par, CHOOSE r \in found : TRUE, target)

\* path leads from one of the roots to target, each role inheriting from the
\* next one.
IsPath(par, roots, target, path) ==
    /\ path[1] \in roots
    /\ path[Len(path)] = target
    /\ \A i \in 1..Len(path) - 1 : path[i + 1] \in par[path[i]]
=============================================================================
