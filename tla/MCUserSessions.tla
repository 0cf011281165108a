--------------------------- MODULE MCUserSessions ---------------------------
(***************************************************************************)
(* CalmSessions for TLC.  Keys of users, passwords, sessions and workers   *)
(* are only ever compared with each other.                                 *)
(***************************************************************************)
EXTENDS CalmSessions, TLC

Symmetry == Permutations(Ids) \cup Permutations(Passwords) \cup
            Permutations(Sessions) \cup Permutations(Workers)
=============================================================================
