----------------------------- MODULE MCAPIKeys ------------------------------
(***************************************************************************)
(* APIKeys for TLC.  Identifiers, secrets and workers are only compared.   *)
(***************************************************************************)
EXTENDS APIKeys, TLC

Symmetry == Permutations(Ids) \cup Permutations(Secrets) \cup Permutations(Workers)
=============================================================================
