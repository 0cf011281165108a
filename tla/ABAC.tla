-------------------------------- MODULE ABAC --------------------------------
(***************************************************************************)
(* The decisions of the ABAC Event component: when an event of a policy    *)
(* matches a request, and what ABACEvaluator makes of the policies of an   *)
(* account.  Names, identifiers of events and time stamps are left out.    *)
(*                                                                         *)
(* A pattern is known by the values it matches as a glob; letter case is   *)
(* left out, both matchers ignore it.  A circle on the map is the set of   *)
(* places inside it.  Policies are given in the order they were loaded,    *)
(* which may be any.                                                       *)
(***************************************************************************)
EXTENDS TimeWindows, Sequences

CONSTANTS
    Values,         \* subjects, resources and actions of requests
    Patterns, Glob, \* patterns, and the values each matches as a glob
    Wildcard,       \* the pattern "*"
    Places,         \* places requests come from
    Unstated        \* stands for a value that is not given

Window == [mode: Modes, start: Int, end: Int]
Event == [subject: Patterns, resource: Patterns, action: Patterns,
          location: SUBSET Places \cup {Unstated}, time: Window]
AccessRequest == [subject: Values, resource: Values, action: Values,
                  location: Places \cup {Unstated}, time: Int \cup {Unstated}]

\* The policies that have these lists of events.  A document from before the
\* migration has no matcher_version and no timezone.
Policies(eventLists) ==
    [effect: {"ALLOW", "DENY"}, events: eventLists, matcher: {"glob_v2"}, zone: Zones]
    \cup
    [effect: {"ALLOW", "DENY"}, events: eventLists, matcher: {"legacy_v1"}, zone: {UTC}]

ASSUME PatternsMatch ==
    /\ Values \subseteq Patterns /\ Wildcard \in Patterns
    /\ Glob \in [Patterns -> SUBSET Values]
    /\ Glob[Wildcard] = Values
    /\ \A v \in Values : Glob[v] = {v}
ASSUME UnstatedIsFresh == Unstated \notin Nat \X Nat

-----------------------------------------------------------------------------
PatternMatches(pattern, candidate, matcher) ==
    IF matcher = "legacy_v1" THEN pattern = Wildcard \/ pattern = candidate
                             ELSE candidate \in Glob[pattern]

\* A place or a time that either side leaves out matches.
LocationMatches(circle, place) == circle = Unstated \/ place = Unstated \/ place \in circle
TimeMatches(window, t, zone) == t = Unstated \/ InWindow(window, t, zone)

EventMatches(event, request, matcher, zone) ==
    /\ PatternMatches(event.subject, request.subject, matcher)
    /\ PatternMatches(event.resource, request.resource, matcher)
    /\ LocationMatches(event.location, request.location)
    /\ TimeMatches(event.time, request.time, zone)
    /\ PatternMatches(event.action, request.action, matcher)

\* The events of the policies, as pairs of indices.
EventsOf(policies) ==
    UNION {{<<i, k>> : k \in DOMAIN policies[i].events} : i \in DOMAIN policies}

\* The order of the two loops, and the first pair in it.
Before(a, b) == a[1] < b[1] \/ (a[1] = b[1] /\ a[2] < b[2])
First(pairs) == CHOOSE a \in pairs : \A b \in pairs : a = b \/ Before(a, b)

MatchesPair(policies, pair, request) ==
    LET p == policies[pair[1]]
    IN  EventMatches(p.events[pair[2]], request, p.matcher, p.zone)

Matching(policies, request) ==
    {pair \in EventsOf(policies) : MatchesPair(policies, pair, request)}

DefaultDeny == [allowed |-> FALSE, by |-> Unstated, matched |-> {}]

\* Mutant: the first match decides.
Evaluate_FirstMatch(policies, request) ==
    LET matching == Matching(policies, request)
    IN  IF matching = {} THEN DefaultDeny
        ELSE [allowed |-> policies[First(matching)[1]].effect = "ALLOW",
              by |-> First(matching), matched |-> matching]

\* ABACEvaluator.evaluate: the first DENY ends the loop, the first ALLOW is
\* kept for its end; matched is what the loop has come across.
Evaluate(policies, request) ==
    LET matching == Matching(policies, request)
        denying  == {pair \in matching : policies[pair[1]].effect = "DENY"}
    IN  IF denying # {}
        THEN [allowed |-> FALSE, by |-> First(denying),
              matched |-> {pair \in matching : ~Before(First(denying), pair)}]
        ELSE IF matching # {}
        THEN [allowed |-> TRUE, by |-> First(matching), matched |-> matching]
        ELSE DefaultDeny
=============================================================================
