--------------------------- MODULE MCResourcePolicy ---------------------------
(* Values for model checking ResourcePolicy: u2 belongs to every group.    *)
EXTENDS ResourcePolicy, TLC

CONSTANTS u1, u2
OneMember == [u \in Users |-> IF u = u2 THEN Groups ELSE {}]
==============================================================================
