--------------------------- MODULE MCRoleHierarchy ---------------------------
(* Values for model checking RoleHierarchy: symmetry over the identifiers, *)
(* which the specification only ever compares.                             *)
EXTENDS RoleHierarchy, TLC

IdSymmetry ==
    Permutations(Roles) \cup Permutations(Names) \cup Permutations(AssignmentIds)
==============================================================================
