------------------------------ MODULE RoleGraph ------------------------------
(***************************************************************************)
(* The role inheritance graph of the RBAC component.  A role document      *)
(* carries parent_role_ids; a graph is the function that maps every role   *)
(* identifier to the set of those identifiers.  A role that has no         *)
(* document is mapped to {}: every traversal in the code skips a role that *)
(* it cannot find (all_roles.get(role_id) is None).                        *)
(*                                                                         *)
(* Reachability is stated with closed sets instead of recursion, so that   *)
(* facts about it can be proved and the two searches of RBACDomainService  *)
(* compared with it.                                                       *)
(***************************************************************************)
CONSTANT Roles   \* role identifiers

Graph == [Roles -> SUBSET Roles]

\* C contains the parents of all its members.
Closed(par, C) == \A c \in C : par[c] \subseteq C

\* The roles reached from a set of roles by following parents, themselves
\* included: the least closed set that contains them.
Ancestors(par, from) ==
    {x \in Roles : \A C \in SUBSET Roles :
                      from \subseteq C /\ Closed(par, C) => x \in C}

\* Every nonempty set of roles has a member without a parent in the set.  On a
\* finite graph this says that no chain of parents leads back to its start.
Acyclic(par) ==
    \A S \in SUBSET Roles : S # {} => \E r \in S : par[r] \cap S = {}

\* The graph once role r also inherits from p.
WithParent(par, r, p) == [par EXCEPT ![r] = @ \cup {p}]
==============================================================================
