---------------------------- MODULE MCNGACGraph ----------------------------
(* Instance of NGACGraph for TLC. *)
EXTENDS NGACGraph, TLC

CONSTANTS k1, k2, ua1, ua2, oa1, pc1, pc2

MCNodes == {ua1, ua2, oa1, pc1, pc2}

MCTypeOf ==
    [n \in MCNodes |-> CASE n \in {ua1, ua2} -> "user_attribute"
                        [] n = oa1 -> "object_attribute"
                        [] n \in {pc1, pc2} -> "policy_class"]

MCOwnerOf == [n \in MCNodes |-> IF n = pc2 THEN k2 ELSE k1]

NodeSymmetry == Permutations({ua1, ua2})
==============================================================================
