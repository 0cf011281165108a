--------------------------- MODULE PolicyDecisions ---------------------------
(***************************************************************************)
(* One request put to ABAC, at any instant: what it is decided on any      *)
(* policies the account may have loaded, and how the windows of time of    *)
(* their events open and close around it.                                  *)
(***************************************************************************)
EXTENDS ABAC

CONSTANTS
    Windows,         \* windows of time that events have
    EventLists,      \* lists of events that policies have
    AccessRequests,  \* requests for access
    MaxPolicies      \* how many policies an account has at most

\* What TimeWindow and the request models let through.
ASSUME InputsAreTyped ==
    /\ \A w \in Windows :
          /\ w \in Window /\ ValidWindow(w)
          /\ w.mode = "time_of_day" => {w.start, w.end} \subseteq 0..Day - 1
    /\ EventLists \subseteq Seq({e \in Event : e.time \in Windows})
    /\ AccessRequests \subseteq AccessRequest
    /\ MaxPolicies \in Nat

VARIABLE request   \* the request, or Unstated as long as there is none

AskInit == request = Unstated
Ask == request = Unstated /\ request' \in AccessRequests
AskSpec == AskInit /\ [][Ask]_request

-----------------------------------------------------------------------------
(* Windows of time.                                                        *)

\* The instant a window begins and the last one it is open, in local time
\* except for bounds with an offset.
AtStart(w, t, z) == CASE w.mode = "aware"       -> t = w.start
                      [] w.mode = "datetime"    -> Local(t, z) = w.start
                      [] w.mode = "time_of_day" -> TimeOfDay(t, z) = w.start
                      [] w.mode = "date"        -> Local(t, z) = w.start * Day
                      [] OTHER                  -> FALSE
AtEnd(w, t, z) == CASE w.mode = "aware"       -> t = w.end
                    [] w.mode = "datetime"    -> Local(t, z) = w.end
                    [] w.mode = "time_of_day" -> TimeOfDay(t, z) = w.end
                    [] w.mode = "date"        -> Local(t, z) = (w.end + 1) * Day - 1
                    [] OTHER                  -> FALSE

(* As time passes from one instant to the next, a policy begins to apply    *)
(* exactly when its window's start comes, and stops only after its end, in  *)
(* the zone of the policy: also for windows that span midnight, that are a  *)
(* single instant, and for dates that begin on another day in UTC; and one  *)
(* of times of day is open at some time of every day (TimeWindow.matches).  *)
WindowsOpenAndClose ==
    request # Unstated /\ request.time # Unstated =>
        \A w \in Windows, z \in Zones :
            LET t       == request.time
                Open(i) == InWindow(w, i, z)
            IN  /\ AtStart(w, t, z) => Open(t)
                /\ ~Open(t) /\ Open(t + 1) => AtStart(w, t + 1, z)
                /\ AtEnd(w, t, z) => Open(t)
                /\ Open(t) /\ ~Open(t + 1) => AtEnd(w, t, z)
                /\ w.mode = "time_of_day" => \E i \in t..t + Day - 1 : Open(i)

-----------------------------------------------------------------------------
(* Decisions.                                                              *)

\* The policies of an account, as they are loaded.
Loaded == UNION {[1..n -> Policies(EventLists)] : n \in 0..MaxPolicies}

\* The policies of this effect that match the request.
MatchingPolicies(policies, req, effect) ==
    {i \in DOMAIN policies :
        /\ policies[i].effect = effect
        /\ \E k \in DOMAIN policies[i].events : MatchesPair(policies, <<i, k>>, req)}

(* "DENY overrides ALLOW, no match means deny" (docs/access-control.md): in *)
(* whatever order the policies are loaded, and although the loop returns at *)
(* the first DENY, a request is allowed exactly if some ALLOW policy        *)
(* matches it and no DENY policy does; and the event that the decision      *)
(* names is one that matched, of a policy with that effect.                 *)
DenyOverridesAllow(policies) ==
    LET decision == Evaluate(policies, request)
        allowing == MatchingPolicies(policies, request, "ALLOW")
        denying  == MatchingPolicies(policies, request, "DENY")
    IN  /\ decision.allowed <=> allowing # {} /\ denying = {}
        /\ decision.by # Unstated =>
              /\ MatchesPair(policies, decision.by, request)
              /\ decision.by[1] \in IF decision.allowed THEN allowing ELSE denying
        /\ decision.by = Unstated => allowing \cup denying = {}

(* Leaving out the place or the time never gets a request past a DENY: what *)
(* is left out matches (the evaluator warns of omitted_context).            *)
OmissionEvadesNoDeny(policies) ==
    MatchingPolicies(policies, request, "DENY") \subseteq
        MatchingPolicies(policies, [request EXCEPT !.location = Unstated], "DENY")
        \cap MatchingPolicies(policies, [request EXCEPT !.time = Unstated], "DENY")

(* upgrade_matcher takes no match away: whatever a policy applied to under  *)
(* legacy_v1, it still applies to under glob_v2 (letter case aside).        *)
UpgradeLosesNoMatch(policy) ==
    \A k \in DOMAIN policy.events :
        EventMatches(policy.events[k], request, "legacy_v1", policy.zone)
          => EventMatches(policy.events[k], request, "glob_v2", policy.zone)

(* A decision on any policies in any order is the documented one; saying    *)
(* less evades no DENY; and migrating a policy exempts nobody from it       *)
(* (ABACEvaluator, ABACEvent.matches, pattern_matches).                     *)
DecisionsAreSound ==
    request # Unstated =>
        /\ \A policies \in Loaded : DenyOverridesAllow(policies) /\ OmissionEvadesNoDeny(policies)
        /\ \A policy \in Policies(EventLists) : UpgradeLosesNoMatch(policy)
==============================================================================
