---------------------------- MODULE MCAlgorithms ----------------------------
(***************************************************************************)
(* The algorithms that answer questions of authorization without an await, *)
(* compared with what they are to compute.  A behaviour is one search on   *)
(* one graph, on which the walks over roles are compared too; a graph      *)
(* without edges leaves nothing to search, and there a request is put to   *)
(* ABAC, at any instant.  The two share nothing.                           *)
(***************************************************************************)
EXTENDS CycleSearch, PolicyDecisions

CONSTANT Days      \* how many days windows may reach over

Horizon == Day * Days
MCZones == {"west", "utc", "east"}
MCOffset == [z \in MCZones |-> CASE z = "west" -> -1 [] z = "utc" -> 0 [] z = "east" -> 2]

Bounds(mode) == CASE mode = "wildcard"    -> {0}
                  [] mode = "time_of_day" -> 0..Day - 1
                  [] mode = "date"        -> 0..Days - 1
                  [] OTHER                -> 0..Horizon - 1

MCWindows == {w \in UNION {[mode: {m}, start: Bounds(m), end: Bounds(m)] : m \in Modes} :
                 ValidWindow(w)}

\* A pattern that the two matchers read differently, a circle, and windows that
\* span midnight or depend on the zone.
MCValues == {"alice", "bob", "doc", "read"}
MCPatterns == MCValues \cup {"*", "al*"}
MCGlob == [p \in MCPatterns |-> CASE p = "*"   -> MCValues
                                  [] p = "al*" -> {"alice"}
                                  [] OTHER     -> {p}]

Always == [mode |-> "wildcard", start |-> 0, end |-> 0]
Nights == [mode |-> "time_of_day", start |-> 3, end |-> 0]
SecondDay == [mode |-> "date", start |-> 1, end |-> 1]

Anything == [subject |-> "*", resource |-> "*", action |-> "*", location |-> Unstated, time |-> Always]
AtHome == [subject |-> "al*", resource |-> "doc", action |-> "*",
           location |-> {"home"}, time |-> Nights]
BobReads == [subject |-> "bob", resource |-> "doc", action |-> "read",
             location |-> Unstated, time |-> SecondDay]

MCEventLists == {<<Anything>>, <<AtHome>>, <<BobReads, AtHome>>}
MCAccessRequests ==
    [subject: {"alice", "bob"}, resource: {"doc"}, action: {"read"},
     location: {"home", "away", Unstated}, time: -Day..Horizon \cup {Unstated}]

-----------------------------------------------------------------------------
MCInit == SearchInit /\ AskInit

Search == SearchNext /\ UNCHANGED request

AskInstead ==
    /\ answer # "searching"
    /\ graph = [r \in Roles |-> {}]
    /\ Ask
    /\ UNCHANGED searchVars

MCNext == Search \/ AskInstead

\* The search is a loop without an await: nothing can hold it up.
MCSpec == MCInit /\ [][MCNext]_<<searchVars, request>> /\ WF_searchVars(SearchNext)
=============================================================================
