---------------------------- MODULE CalmSessions ----------------------------
(***************************************************************************)
(* The sessions of UserSessions while its requests do not overlap.  Two    *)
(* properties hold only until requests overlap or fail: a history variable *)
(* says whether that has happened yet.                                     *)
(***************************************************************************)
EXTENDS UserSessions

VARIABLE calm  \* no two requests have overlapped and none has failed

calmVars == <<vars, calm>>

Overlapping == \E v, w \in Workers : v # w /\ ~At(v, "idle") /\ ~At(w, "idle")

CalmInit == Init /\ calm = TRUE
CalmNext == \/ Work /\ calm' = (calm /\ ~Overlapping')
            \/ Fail /\ calm' = FALSE
CalmSpec == CalmInit /\ [][CalmNext]_calmVars

\* One request at a time and without failures, a login or a refresh answers a
\* token with the secret it was signed with and for the user that logged in, and
\* the session in Redis is one of the present user and of its present password,
\* wherever the writes of the two keys stand.
CalmSessionsAreSound == calm => LoginAnswersUsable /\ LiveIsCurrent

=============================================================================
