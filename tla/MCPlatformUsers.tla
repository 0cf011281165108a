--------------------------- MODULE MCPlatformUsers ---------------------------
(* Instances of PlatformUsers for TLC.  User identifiers, names, tokens and *)
(* workers are told apart by nothing but identity.                          *)
EXTENDS PlatformUsers, TLC

IdSymmetry == Permutations(Ids) \cup Permutations(Names)
                 \cup Permutations(Tokens) \cup Permutations(Workers)
==============================================================================
