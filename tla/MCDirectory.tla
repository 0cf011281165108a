----------------------------- MODULE MCDirectory -----------------------------
(***************************************************************************)
(* Directory for TLC: usernames that differ by more than their spelling.   *)
(***************************************************************************)
EXTENDS Directory, TLC

DifferentNames == [n \in Usernames |-> n]

Symmetry == Permutations(UserIds) \cup Permutations(Usernames) \cup
            Permutations(GroupIds) \cup Permutations(GroupNames)
=============================================================================
