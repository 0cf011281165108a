------------------------------ MODULE RoleStore -----------------------------
(***************************************************************************)
(* What the RBAC component promises those who only read it: its two        *)
(* collections change by one document at a time, or by dropping            *)
(* assignments, and no saved role ever closes a cycle of parents.          *)
(*                                                                         *)
(* RoleHierarchy, with its requests of many awaits, implements this as     *)
(* long as one worker edits roles; RoleQueries reads it.                   *)
(***************************************************************************)
EXTENDS RoleGraph

CONSTANTS
    Rights,   \* what roles may grant
    Holders   \* subjects that roles are assigned to

VARIABLES
    stored,       \* roles that have a document
    permissions,  \* of each role
    parents,      \* of each role
    assigned      \* pairs of a subject and a role it is assigned

storeVars == <<stored, permissions, parents, assigned>>

StoreInit ==
    /\ stored = {}
    /\ permissions = [r \in Roles |-> {}]
    /\ parents = [r \in Roles |-> {}]
    /\ assigned = {}

PutRole(r, granted, from) ==
    /\ Acyclic([parents EXCEPT ![r] = from])
    /\ stored' = stored \cup {r}
    /\ permissions' = [permissions EXCEPT ![r] = granted]
    /\ parents' = [parents EXCEPT ![r] = from]
    /\ UNCHANGED assigned

RemoveRole(r) ==
    /\ r \in stored
    /\ stored' = stored \ {r}
    /\ permissions' = [permissions EXCEPT ![r] = {}]
    /\ parents' = [parents EXCEPT ![r] = {}]
    /\ UNCHANGED assigned

\* A document is saved for the pair, or takes the place of another one.
AssignPair(s, r, previous) ==
    /\ previous \subseteq assigned
    /\ assigned' = (assigned \ previous) \cup {<<s, r>>}
    /\ UNCHANGED <<stored, permissions, parents>>

\* One assignment is deleted, or all of a role, or all of a subject.
RemovePairs(pairs) ==
    /\ pairs \cap assigned # {}
    /\ assigned' = assigned \ pairs
    /\ UNCHANGED <<stored, permissions, parents>>

PairsOf(s, r) == {<<s, r>>}
PairsWithRole(r) == Holders \X {r}
PairsWithSubject(s) == {s} \X Roles

StoreNext ==
    \/ \E r \in Roles :
          \/ \E granted \in SUBSET Rights, from \in SUBSET Roles : PutRole(r, granted, from)
          \/ RemoveRole(r)
          \/ RemovePairs(PairsWithRole(r))
    \/ \E s \in Holders :
          \/ RemovePairs(PairsWithSubject(s))
          \/ \E r \in Roles :
                \/ AssignPair(s, r, {})
                \/ \E t \in Holders, q \in Roles : AssignPair(s, r, PairsOf(t, q))
                \/ RemovePairs(PairsOf(s, r))

StoreSpec == StoreInit /\ [][StoreNext]_storeVars
=============================================================================
