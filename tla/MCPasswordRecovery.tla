-------------------------- MODULE MCPasswordRecovery --------------------------
(***************************************************************************)
(* PasswordRecovery for TLC.  Ids, tokens and workers are only compared.   *)
(***************************************************************************)
EXTENDS PasswordRecovery, TLC

Symmetry == Permutations(UserIds) \cup Permutations(Tokens) \cup Permutations(Workers)
=============================================================================
