------------------------- MODULE RoleHierarchyProofs -------------------------
(***************************************************************************)
(* What the RBAC handlers keep true for every number of roles, names,      *)
(* permissions, subjects and workers: the documents stay well formed       *)
(* whatever overlaps, with one editor at a time the hierarchy stays sound  *)
(* wherever a request is cut short, and with one worker the assignments do; *)
(* and what the read side answers while all of it changes is warranted.     *)
(***************************************************************************)
EXTENDS RoleHierarchy, CycleSearch, RoleQueries, FiniteSetTheorems, WellFoundedInduction,
        TLAPS

-----------------------------------------------------------------------------
(* Reachability and cycles in the role graph, for every set of roles and    *)
(* every graph over it.                                                    *)

(* Fewer parents, no new cycle.                                            *)
LEMMA FewerParents ==
    ASSUME NEW par, NEW fewer, Acyclic(par),
           \A x \in Roles : fewer[x] \subseteq par[x]
    PROVE  Acyclic(fewer)
<1> SUFFICES ASSUME NEW S \in SUBSET Roles, S # {}
             PROVE  \E x \in S : fewer[x] \cap S = {}
  BY DEF Acyclic
<1>1. PICK x \in S : par[x] \cap S = {}
  BY DEF Acyclic
<1> QED
  BY <1>1

(* Following parents from a set of ancestors stays among the ancestors.    *)
LEMMA AncestorsClosed ==
    ASSUME NEW par \in Graph, NEW from \in SUBSET Roles
    PROVE  /\ from \subseteq Ancestors(par, from)
           /\ Closed(par, Ancestors(par, from))
           /\ Ancestors(par, from) \subseteq Roles
<1>1. from \subseteq Ancestors(par, from)
  BY DEF Ancestors
<1>2. Closed(par, Ancestors(par, from))
  <2>1. ASSUME NEW c \in Ancestors(par, from), NEW x \in par[c]
        PROVE  x \in Ancestors(par, from)
    <3>1. c \in Roles /\ x \in Roles
      BY DEF Ancestors, Graph
    <3>2. ASSUME NEW C \in SUBSET Roles, from \subseteq C, Closed(par, C)
          PROVE  x \in C
      <4>1. c \in C
        BY <3>2 DEF Ancestors
      <4> QED
        BY <3>2, <4>1 DEF Closed
    <3> QED
      BY <3>1, <3>2 DEF Ancestors
  <2> QED
    BY <2>1 DEF Closed
<1> QED
  BY <1>1, <1>2 DEF Ancestors

(* A closed set that contains the start contains every ancestor.           *)
LEMMA AncestorsLeast ==
    ASSUME NEW par, NEW from, NEW C \in SUBSET Roles,
           from \subseteq C, Closed(par, C)
    PROVE  Ancestors(par, from) \subseteq C
BY DEF Ancestors

(* The check of add_parent is sufficient: an edge to a role that does not  *)
(* have r among its ancestors closes no cycle.                             *)
LEMMA SafeParent ==
    ASSUME NEW par \in Graph, NEW r \in Roles, NEW p \in Roles,
           Acyclic(par), r \notin Ancestors(par, {p})
    PROVE  Acyclic(WithParent(par, r, p))
<1> DEFINE new == WithParent(par, r, p)
<1>0. \A x \in Roles : new[x] = IF x = r THEN par[r] \cup {p} ELSE par[x]
  BY DEF WithParent, Graph
<1> SUFFICES ASSUME NEW S \in SUBSET Roles, S # {},
                    \A x \in S : new[x] \cap S # {}
             PROVE  FALSE
  BY DEF Acyclic
<1>1. r \in S /\ p \in S
  <2>1. PICK s \in S : par[s] \cap S = {}
    BY DEF Acyclic
  <2> QED
    BY <1>0, <2>1
<1>2. PICK C \in SUBSET Roles : p \in C /\ Closed(par, C) /\ r \notin C
  BY DEF Ancestors
<1> DEFINE T == S \cap C
<1>3. T # {} /\ T \in SUBSET Roles
  BY <1>1, <1>2
<1>4. ASSUME NEW t \in T PROVE par[t] \cap T # {}
  <2>1. par[t] \cap S # {}
    BY <1>0, <1>2
  <2>2. par[t] \subseteq C
    BY <1>2 DEF Closed
  <2> QED
    BY <2>1, <2>2
<1> QED
  BY <1>3, <1>4 DEF Acyclic

(* And it is necessary: an edge to a descendant closes a cycle.            *)
LEMMA UnsafeParent ==
    ASSUME NEW par \in Graph, NEW r \in Roles, NEW p \in Roles,
           r \in Ancestors(par, {p})
    PROVE  ~Acyclic(WithParent(par, r, p))
<1> DEFINE new == WithParent(par, r, p)
           \* the ancestors of p from which r can be reached
           S == {x \in Ancestors(par, {p}) : r \in Ancestors(par, {x})}
<1>0. \A x \in Roles : new[x] = IF x = r THEN par[r] \cup {p} ELSE par[x]
  BY DEF WithParent, Graph
<1>1. Ancestors(par, {p}) \subseteq Roles /\ Closed(par, Ancestors(par, {p}))
  BY AncestorsClosed
<1>2. p \in S /\ r \in S
  BY AncestorsClosed
<1>3. ASSUME NEW x \in S PROVE new[x] \cap S # {}
  <2>1. CASE x = r
    BY <1>0, <1>1, <1>2, <2>1
  <2>2. CASE x # r
    <3> DEFINE C == {x} \cup UNION {Ancestors(par, {y}) : y \in par[x]}
    <3>0. x \in Roles /\ par[x] \subseteq Roles
      BY <1>1 DEF Graph
    <3>1. \A y \in par[x] : /\ y \in Ancestors(par, {y})
                            /\ Closed(par, Ancestors(par, {y}))
                            /\ Ancestors(par, {y}) \subseteq Roles
      BY <3>0, AncestorsClosed
    <3>2. C \in SUBSET Roles /\ {x} \subseteq C
      BY <3>0, <3>1
    <3>3. Closed(par, C)
      <4> SUFFICES ASSUME NEW c \in C PROVE par[c] \subseteq C
        BY DEF Closed
      <4>1. CASE c = x
        BY <3>1, <4>1
      <4>2. CASE c # x
        <5>1. PICK y \in par[x] : c \in Ancestors(par, {y})
          BY <4>2
        <5> QED
          BY <3>1, <5>1 DEF Closed
      <4> QED
        BY <4>1, <4>2
    <3>4. r \in C
      BY <3>2, <3>3, AncestorsLeast
    <3>5. PICK y \in par[x] : r \in Ancestors(par, {y})
      BY <2>2, <3>4
    <3>6. y \in Ancestors(par, {p})
      BY <1>1, <3>5 DEF Closed
    <3> QED
      BY <1>0, <2>2, <3>0, <3>5, <3>6
  <2> QED
    BY <2>1, <2>2
<1> QED
  <2>1. S \in SUBSET Roles /\ S # {}
    BY <1>1, <1>2
  <2> QED
    BY <1>3, <2>1 DEF Acyclic

-----------------------------------------------------------------------------
(* The search of would_create_cycle, whose answer RoleHierarchy takes in    *)
(* one step (WouldCreateCycle), on any graph and whatever its variables.   *)

(* The search keeps its variables well typed.                              *)
THEOREM SearchTyping == SearchSpec => []SearchTypeOK
<1>1. SearchInit => SearchTypeOK
  BY DEF SearchInit, SearchTypeOK
<1>2. SearchTypeOK /\ [SearchNext]_searchVars => SearchTypeOK'
  BY DEF SearchTypeOK, SearchNext, Pop, Meet, Skip, Expand,
         Exhausted, searchVars, inputs, Graph
<1> QED
  BY <1>1, <1>2, PTL DEF SearchSpec

(* The loop invariant of the search.                                       *)
THEOREM SearchInvariant == SearchSpec => [](SearchTypeOK /\ SearchInv)
<1>1. SearchInit => SearchInv
  <2> SUFFICES ASSUME SearchInit PROVE SearchInv
    OBVIOUS
  <2>1. {newParent} \subseteq Ancestors(graph, {newParent})
    BY AncestorsClosed DEF SearchInit
  <2> QED
    BY <2>1 DEF SearchInit, SearchInv
<1>2. SearchTypeOK /\ SearchInv /\ [SearchNext]_searchVars => SearchInv'
  <2> SUFFICES ASSUME SearchTypeOK, SearchInv, [SearchNext]_searchVars PROVE SearchInv'
    OBVIOUS
  <2>1. ASSUME NEW c \in queue, answer = "searching", Meet(c) PROVE SearchInv'
    BY <2>1 DEF SearchInv, Meet, inputs
  <2>2. ASSUME NEW c \in queue, answer = "searching", Skip(c) PROVE SearchInv'
    BY <2>2 DEF SearchInv, Skip, inputs
  <2>3. ASSUME NEW c \in queue, answer = "searching", Expand(c)
        PROVE  SearchInv'
    <3>1. graph[c] \subseteq Ancestors(graph, {newParent})
      BY <2>3, AncestorsClosed DEF SearchInv, SearchTypeOK, Closed
    <3> QED
      BY <2>3, <3>1 DEF SearchInv, Expand, inputs
  <2>4. ASSUME answer = "searching", Exhausted PROVE SearchInv'
    BY <2>4 DEF SearchInv, Exhausted, inputs
  <2>5. CASE UNCHANGED searchVars
    BY <2>5 DEF SearchInv, searchVars, inputs
  <2> QED
    BY <2>1, <2>2, <2>3, <2>4, <2>5 DEF SearchNext, Pop
<1> QED
  BY <1>1, <1>2, SearchTyping, PTL DEF SearchSpec

(* would_create_cycle returns True exactly when role_id can be reached     *)
(* from new_parent_id.                                                     *)
THEOREM SearchComputesReachability == SearchSpec => []AnswerIsReachability
<1>1. SearchTypeOK /\ SearchInv => AnswerIsReachability
  <2> SUFFICES ASSUME SearchTypeOK, SearchInv PROVE AnswerIsReachability
    OBVIOUS
  <2>1. answer = "cycle" => roleId \in Ancestors(graph, {newParent})
    BY DEF SearchInv, SearchTypeOK
  <2>2. ASSUME answer = "safe" PROVE roleId \notin Ancestors(graph, {newParent})
    <3>1. Closed(graph, visited) /\ {newParent} \subseteq visited
      BY <2>2 DEF SearchInv, Closed
    <3>2. Ancestors(graph, {newParent}) \subseteq visited
      BY <3>1, AncestorsLeast DEF SearchTypeOK
    <3> QED
      BY <3>2 DEF SearchInv
  <2> QED
    BY <2>1, <2>2 DEF AnswerIsReachability
<1> QED
  BY <1>1, SearchInvariant, PTL

(* The answer decides whether the new edge keeps the hierarchy acyclic.    *)
THEOREM SearchDecidesAcyclicity == SearchSpec => []AnswerDecidesAcyclicity
<1>1. SearchTypeOK /\ AnswerIsReachability => AnswerDecidesAcyclicity
  BY SafeParent, UnsafeParent
  DEF SearchTypeOK, AnswerIsReachability, AnswerDecidesAcyclicity
<1> QED
  BY <1>1, SearchTyping, SearchComputesReachability, PTL

-----------------------------------------------------------------------------
(* The walks over the hierarchy.  Each is a recursive function, so that it  *)
(* is known by its equation only: what it returns is shown to solve the     *)
(* equation, and nothing else does, or there would be a first role, or a    *)
(* least set of roles left, at which the two differ.                       *)

(* Finitely many things cannot get fewer for ever.                         *)
LEMMA FewestFirst ==
    ASSUME NEW All, IsFiniteSet(All), NEW Some, Some \subseteq SUBSET All, Some # {}
    PROVE  \E x \in Some : \A y \in Some : ~(y \subseteq x /\ y # x)
<1> DEFINE R == StrictSubsetOrdering(All)
<1>1. IsWellFoundedOn(R, SUBSET All)
  BY FS_FiniteSubsetsOfFinite, FS_StrictSubsetOrderingWellFounded
<1>2. \E x \in Some : \A y \in Some : <<y, x>> \notin R
  <2> HIDE DEF R
  <2> QED
    BY <1>1, WFMin, Zenon
<1> QED
  BY <1>2 DEF StrictSubsetOrdering

\* What has known and follows all parents, except those of the roles known.
Through(par, known, C) == known \subseteq C /\ \A c \in C \ known : par[c] \subseteq C

\* What a walk ends with: known, and what it reaches from todo past known.
Reached(par, todo, known) ==
    {x \in Roles : \A C \in SUBSET Roles : todo \subseteq C /\ Through(par, known, C) => x \in C}

LEMMA ReachedGoesThrough ==
    ASSUME NEW par \in Graph, NEW todo \in SUBSET Roles, NEW known \in SUBSET Roles
    PROVE  /\ Reached(par, todo, known) \in SUBSET Roles
           /\ todo \subseteq Reached(par, todo, known)
           /\ Through(par, known, Reached(par, todo, known))
<1> DEFINE R == Reached(par, todo, known)
<1>1. R \in SUBSET Roles /\ todo \subseteq R /\ known \subseteq R
  BY DEF Reached, Through
<1>2. ASSUME NEW c \in R \ known, NEW p \in par[c], NEW C \in SUBSET Roles,
             todo \subseteq C, Through(par, known, C)
      PROVE  p \in C
  <2>1. c \in C
    BY <1>2 DEF Reached
  <2> QED
    BY <1>2, <2>1 DEF Through
<1>3. \A c \in R \ known : par[c] \subseteq Roles
  BY <1>1 DEF Graph
<1> QED
  BY <1>1, <1>2, <1>3 DEF Reached, Through

LEMMA ReachedIsLeast ==
    ASSUME NEW par, NEW todo, NEW known, NEW C \in SUBSET Roles,
           todo \subseteq C, Through(par, known, C)
    PROVE  Reached(par, todo, known) \subseteq C
BY DEF Reached

LEMMA NothingToDo ==
    ASSUME NEW par, NEW known \in SUBSET Roles, NEW todo, todo \subseteq known
    PROVE  Reached(par, todo, known) = known
<1>1. Reached(par, todo, known) \subseteq known
  BY ReachedIsLeast DEF Through
<1> QED
  BY <1>1 DEF Reached, Through

(* A walk may follow one role first, and finish the others afterwards.     *)
LEMMA OneFirst ==
    ASSUME NEW par \in Graph, NEW todo \in SUBSET Roles, NEW known \in SUBSET Roles,
           NEW p \in todo, p \notin known
    PROVE  Reached(par, todo \ {p}, Reached(par, par[p], known \cup {p}))
           = Reached(par, todo, known)
<1> DEFINE A == Reached(par, par[p], known \cup {p})
           L == Reached(par, todo \ {p}, A)
           R == Reached(par, todo, known)
<1>0. par[p] \in SUBSET Roles /\ known \cup {p} \in SUBSET Roles
  BY DEF Graph
<1>1. A \in SUBSET Roles /\ par[p] \subseteq A /\ Through(par, known \cup {p}, A)
  BY <1>0, ReachedGoesThrough
<1>2. L \in SUBSET Roles /\ todo \ {p} \subseteq L /\ Through(par, A, L)
  <2> HIDE DEF A
  <2> QED
    BY <1>1, ReachedGoesThrough
<1>3. R \in SUBSET Roles /\ todo \subseteq R /\ Through(par, known, R)
  BY ReachedGoesThrough
<1> HIDE DEF A, L, R
<1>4. A \subseteq R
  <2>1. par[p] \subseteq R /\ Through(par, known \cup {p}, R)
    BY <1>3 DEF Through
  <2> QED
    BY <1>3, <2>1, ReachedIsLeast DEF A
<1>5. L \subseteq R
  <2>1. todo \ {p} \subseteq R /\ Through(par, A, R)
    BY <1>1, <1>3, <1>4 DEF Through
  <2> QED
    BY <1>3, <2>1, ReachedIsLeast DEF L
<1>6. R \subseteq L
  <2>1. todo \subseteq L /\ Through(par, known, L)
    BY <1>1, <1>2 DEF Through
  <2> QED
    BY <1>2, <2>1, ReachedIsLeast DEF R
<1> QED
  BY <1>5, <1>6 DEF A, L, R

(* One that is known already can be left out.                              *)
LEMMA KnownIsDone ==
    ASSUME NEW par, NEW todo, NEW known \in SUBSET Roles, NEW p \in known
    PROVE  Reached(par, todo \ {p}, known) = Reached(par, todo, known)
BY DEF Reached, Through

(* Reaching further from all that has been reached.                        *)
LEMMA AncestorsReached ==
    ASSUME NEW par, NEW roots
    PROVE  Reached(par, roots, {}) = Ancestors(par, roots)
BY DEF Reached, Ancestors, Through, Closed

LEMMA AncestorsAdd ==
    ASSUME NEW par \in Graph, NEW U \in SUBSET Roles, NEW V \in SUBSET Roles
    PROVE  Reached(par, V, Ancestors(par, U)) = Ancestors(par, U \cup V)
<1> DEFINE A == Reached(par, U, {})
           L == Reached(par, V, A)
           R == Reached(par, U \cup V, {})
<1>1. A \in SUBSET Roles /\ U \subseteq A /\ Through(par, {}, A)
  BY ReachedGoesThrough
<1>2. L \in SUBSET Roles /\ V \subseteq L /\ Through(par, A, L)
  <2> HIDE DEF A
  <2> QED
    BY <1>1, ReachedGoesThrough
<1>3. R \in SUBSET Roles /\ U \cup V \subseteq R /\ Through(par, {}, R)
  BY ReachedGoesThrough
<1> HIDE DEF A, L, R
<1>4. A \subseteq R
  BY <1>3, ReachedIsLeast DEF A
<1>5. L \subseteq R
  <2>1. V \subseteq R /\ Through(par, A, R)
    BY <1>3, <1>4 DEF Through
  <2> QED
    BY <1>3, <2>1, ReachedIsLeast DEF L
<1>6. R \subseteq L
  <2>1. U \cup V \subseteq L /\ Through(par, {}, L)
    BY <1>1, <1>2 DEF Through
  <2> QED
    BY <1>2, <2>1, ReachedIsLeast DEF R
<1> QED
  BY <1>5, <1>6, AncestorsReached DEF A, L, R

-----------------------------------------------------------------------------
(* The breadth-first walk.                                                 *)

Walks == [queue: SUBSET Roles, visited: SUBSET Roles]

\* One turn of the loop, if the rest of the walk is f.
Turn(par, f, s) ==
    IF s.queue \subseteq s.visited THEN s.visited
    ELSE LET current == CHOOSE r \in s.queue \ s.visited : TRUE
             met    == s.visited \cup {current}
         IN  f[[queue |-> (s.queue \cup par[current]) \ met, visited |-> met]]

IsWalk(f, par) == f = [s \in Walks |-> Turn(par, f, s)]

LEMMA TurnReaches ==
    ASSUME NEW par \in Graph, NEW s \in Walks, ~(s.queue \subseteq s.visited),
           NEW current \in s.queue \ s.visited
    PROVE  LET met == s.visited \cup {current}
               rest == (s.queue \cup par[current]) \ met
           IN  /\ [queue |-> rest, visited |-> met] \in Walks
               /\ Reached(par, rest, met) = Reached(par, s.queue, s.visited)
<1> DEFINE met == s.visited \cup {current}
           rest == (s.queue \cup par[current]) \ met
<1>1. s.queue \in SUBSET Roles /\ s.visited \in SUBSET Roles
  BY DEF Walks
<1>2. par[current] \in SUBSET Roles /\ rest \in SUBSET Roles /\ met \in SUBSET Roles
  BY <1>1 DEF Graph
<1> DEFINE L == Reached(par, rest, met)
           R == Reached(par, s.queue, s.visited)
<1>3. L \in SUBSET Roles /\ rest \subseteq L /\ Through(par, met, L)
  BY <1>2, ReachedGoesThrough
<1>4. R \in SUBSET Roles /\ s.queue \subseteq R /\ Through(par, s.visited, R)
  BY <1>1, ReachedGoesThrough
<1> HIDE DEF L, R
<1>5. L \subseteq R
  <2>1. rest \subseteq R /\ Through(par, met, R)
    BY <1>4 DEF Through
  <2> QED
    BY <1>4, <2>1, ReachedIsLeast DEF L
<1>6. R \subseteq L
  <2>1. s.queue \subseteq L /\ Through(par, s.visited, L)
    BY <1>3 DEF Through
  <2> QED
    BY <1>3, <2>1, ReachedIsLeast DEF R
<1>7. [queue |-> rest, visited |-> met] \in Walks
  BY <1>2 DEF Walks
<1> QED
  BY <1>5, <1>6, <1>7 DEF L, R

LEMMA WalkExists ==
    ASSUME NEW par \in Graph
    PROVE  IsWalk([s \in Walks |-> Reached(par, s.queue, s.visited)], par)
<1> DEFINE f == [s \in Walks |-> Reached(par, s.queue, s.visited)]
<1>1. ASSUME NEW s \in Walks PROVE Turn(par, f, s) = Reached(par, s.queue, s.visited)
  <2>1. CASE s.queue \subseteq s.visited
    BY <2>1, NothingToDo DEF Turn, Walks
  <2>2. CASE ~(s.queue \subseteq s.visited)
    <3> DEFINE current == CHOOSE r \in s.queue \ s.visited : TRUE
               met == s.visited \cup {current}
               rest == (s.queue \cup par[current]) \ met
    <3>1. current \in s.queue \ s.visited
      BY <2>2
    <3>2. /\ [queue |-> rest, visited |-> met] \in Walks
          /\ Reached(par, rest, met) = Reached(par, s.queue, s.visited)
      <4> HIDE DEF current
      <4> QED
        BY <2>2, <3>1, TurnReaches
    <3>3. Turn(par, f, s) = f[[queue |-> rest, visited |-> met]]
      BY <2>2 DEF Turn
    <3>4. f[[queue |-> rest, visited |-> met]] = Reached(par, rest, met)
      <4> HIDE DEF rest, met
      <4> QED
        BY <3>2
    <3> QED
      BY <3>2, <3>3, <3>4
  <2> QED
    BY <2>1, <2>2
<1> QED
  BY <1>1 DEF IsWalk

LEMMA WalkIsUnique ==
    ASSUME NEW par \in Graph, NEW f, IsWalk(f, par), NEW w \in Walks
    PROVE  f[w] = Reached(par, w.queue, w.visited)
<1> DEFINE Odd == {s \in Walks : f[s] # Reached(par, s.queue, s.visited)}
           T == {Roles \ s.visited : s \in Odd}
<1> SUFFICES ASSUME Odd # {} PROVE FALSE
  OBVIOUS
<1>1. T \subseteq SUBSET Roles /\ T # {}
  OBVIOUS
<1>2. \E x \in T : \A y \in T : ~(y \subseteq x /\ y # x)
  <2> HIDE DEF T
  <2> QED
    BY <1>1, RolesAreFinite, FewestFirst
<1>3. PICK s \in Odd : \A y \in T : ~(y \subseteq Roles \ s.visited /\ y # Roles \ s.visited)
  BY <1>2
<1>4. s \in Walks /\ f[s] = Turn(par, f, s)
  BY <1>3 DEF IsWalk
<1>5. CASE s.queue \subseteq s.visited
  BY <1>3, <1>4, <1>5, NothingToDo DEF Turn, Walks
<1>6. CASE ~(s.queue \subseteq s.visited)
  <2> DEFINE current == CHOOSE r \in s.queue \ s.visited : TRUE
             met == s.visited \cup {current}
             rest == (s.queue \cup par[current]) \ met
             next == [queue |-> rest, visited |-> met]
  <2>1. current \in s.queue \ s.visited
    BY <1>6
  <2>2. next \in Walks /\ Reached(par, rest, met) = Reached(par, s.queue, s.visited)
    <3> HIDE DEF current
    <3> QED
      BY <1>4, <1>6, <2>1, TurnReaches
  <2>3. f[s] = f[next]
    BY <1>4, <1>6 DEF Turn
  <2>4. next \notin Odd
    <3>1. Roles \ met \subseteq Roles \ s.visited /\ Roles \ met # Roles \ s.visited
      BY <1>4, <2>1 DEF Walks
    <3>2. next \in Odd => Roles \ met \in T
      OBVIOUS
    <3> QED
      BY <1>3, <3>1, <3>2
  <2>5. f[next] = Reached(par, next.queue, next.visited)
    <3> HIDE DEF next
    <3> QED
      BY <2>2, <2>4
  <2> QED
    BY <1>3, <2>2, <2>3, <2>5
<1> QED
  BY <1>5, <1>6

LEMMA EffectiveAreReached ==
    ASSUME NEW par \in Graph, NEW roots \in SUBSET Roles
    PROVE  EffectiveRoles(par, roots) = Ancestors(par, roots)
<1> DEFINE f == CHOOSE g : IsWalk(g, par)
           start == [queue |-> roots, visited |-> {}]
<1>1. IsWalk(f, par)
  BY WalkExists
<1>2. EffectiveRoles(par, roots) = f[start]
  BY DEF EffectiveRoles, Walk, IsWalk, Walks, Turn
<1>3. start \in Walks
  BY DEF Walks
<1>4. f[start] = Reached(par, start.queue, start.visited)
  <2> HIDE DEF f, start
  <2> QED
    BY <1>1, <1>3, WalkIsUnique
<1> QED
  BY <1>2, <1>4, AncestorsReached

-----------------------------------------------------------------------------
(* The recursion with a shared set.                                        *)

Calls == [todo: SUBSET Roles, known: SUBSET Roles]

\* The loop over the parents still to do, if the calls it makes return f.
Loop(par, f, s) ==
    IF s.todo = {} THEN s.known
    ELSE LET p == CHOOSE p \in s.todo : TRUE
             known == IF p \in s.known THEN s.known
                      ELSE f[[todo |-> par[p], known |-> s.known \cup {p}]]
         IN  f[[todo |-> s.todo \ {p}, known |-> known]]

IsRecursion(f, par) == f = [s \in Calls |-> Loop(par, f, s)]

\* f returns what is reached, if it does so for calls that know more, and for
\* those that know as much and have less to do.
LEMMA LoopReaches ==
    ASSUME NEW par \in Graph, NEW s \in Calls, NEW f,
           \A t \in Calls :
               \/ s.known \subseteq t.known /\ s.known # t.known
               \/ s.known = t.known /\ t.todo \subseteq s.todo /\ t.todo # s.todo
               => f[t] = Reached(par, t.todo, t.known)
    PROVE  Loop(par, f, s) = Reached(par, s.todo, s.known)
<1>0. s.todo \in SUBSET Roles /\ s.known \in SUBSET Roles
  BY DEF Calls
<1>1. CASE s.todo = {}
  BY <1>0, <1>1, NothingToDo DEF Loop
<1>2. CASE s.todo # {}
  <2> DEFINE p == CHOOSE p \in s.todo : TRUE
             deeper == [todo |-> par[p], known |-> s.known \cup {p}]
             known == IF p \in s.known THEN s.known ELSE f[deeper]
             further == [todo |-> s.todo \ {p}, known |-> known]
  <2>1. p \in s.todo
    BY <1>2
  <2>2. Loop(par, f, s) = f[further]
    BY <1>2 DEF Loop
  <2> HIDE DEF p
  <2>3. CASE p \in s.known
    <3>1. further \in Calls /\ further.known = s.known /\ further.todo = s.todo \ {p}
      BY <1>0, <2>3 DEF Calls
    <3>2. f[further] = Reached(par, further.todo, further.known)
      <4>1. further.todo \subseteq s.todo /\ further.todo # s.todo
        BY <2>1, <3>1
      <4> HIDE DEF further
      <4> QED
        BY <3>1, <4>1
    <3>3. Reached(par, s.todo \ {p}, s.known) = Reached(par, s.todo, s.known)
      BY <1>0, <2>3, KnownIsDone
    <3> QED
      BY <2>2, <3>1, <3>2, <3>3
  <2>4. CASE p \notin s.known
    <3>1. deeper \in Calls /\ deeper.known = s.known \cup {p} /\ deeper.todo = par[p]
      BY <1>0, <2>1 DEF Calls, Graph
    <3>2. f[deeper] = Reached(par, deeper.todo, deeper.known)
      <4>1. s.known \subseteq deeper.known /\ s.known # deeper.known
        BY <2>4, <3>1
      <4> HIDE DEF deeper
      <4> QED
        BY <3>1, <4>1
    <3>3. known = Reached(par, par[p], s.known \cup {p})
      BY <2>4, <3>1, <3>2
    <3>4. known \in SUBSET Roles /\ s.known \cup {p} \subseteq known
      <4> DEFINE parts == par[p]
                 more == s.known \cup {p}
      <4>1. parts \in SUBSET Roles /\ more \in SUBSET Roles
        BY <1>0, <2>1 DEF Graph
      <4>2. known = Reached(par, parts, more)
        BY <3>3
      <4> HIDE DEF known, parts, more
      <4>3. known \in SUBSET Roles /\ Through(par, more, known)
        BY <4>1, <4>2, ReachedGoesThrough
      <4> QED
        BY <4>3 DEF Through, more
    <3> HIDE DEF known
    <3>5. further \in Calls /\ further.known = known /\ further.todo = s.todo \ {p}
      BY <1>0, <3>4 DEF Calls
    <3>6. f[further] = Reached(par, further.todo, further.known)
      <4>1. s.known \subseteq further.known /\ s.known # further.known
        BY <2>4, <3>4, <3>5
      <4> HIDE DEF further
      <4> QED
        BY <3>5, <4>1
    <3>7. Reached(par, s.todo \ {p}, known) = Reached(par, s.todo, s.known)
      BY <1>0, <2>1, <2>4, <3>3, OneFirst
    <3> QED
      BY <2>2, <3>5, <3>6, <3>7
  <2> QED
    BY <2>3, <2>4
<1> QED
  BY <1>1, <1>2

LEMMA RecursionExists ==
    ASSUME NEW par \in Graph
    PROVE  IsRecursion([s \in Calls |-> Reached(par, s.todo, s.known)], par)
<1> DEFINE f == [s \in Calls |-> Reached(par, s.todo, s.known)]
<1>1. \A t \in Calls : f[t] = Reached(par, t.todo, t.known)
  OBVIOUS
<1>2. \A s \in Calls : Loop(par, f, s) = Reached(par, s.todo, s.known)
  <2> HIDE DEF f
  <2> QED
    BY <1>1, LoopReaches
<1> QED
  BY <1>2 DEF IsRecursion

LEMMA RecursionIsUnique ==
    ASSUME NEW par \in Graph, NEW f, IsRecursion(f, par), NEW c \in Calls
    PROVE  f[c] = Reached(par, c.todo, c.known)
<1> DEFINE Odd == {s \in Calls : f[s] # Reached(par, s.todo, s.known)}
           Left == {Roles \ s.known : s \in Odd}
<1> SUFFICES ASSUME Odd # {} PROVE FALSE
  OBVIOUS
<1>1. Left \subseteq SUBSET Roles /\ Left # {}
  OBVIOUS
<1>2. \E x \in Left : \A y \in Left : ~(y \subseteq x /\ y # x)
  <2> HIDE DEF Left
  <2> QED
    BY <1>1, RolesAreFinite, FewestFirst
<1>3. PICK r \in Odd : \A y \in Left : ~(y \subseteq Roles \ r.known /\ y # Roles \ r.known)
  BY <1>2
<1> DEFINE Todo == {s.todo : s \in {t \in Odd : t.known = r.known}}
<1>4. Todo \subseteq SUBSET Roles /\ Todo # {}
  BY <1>3 DEF Calls
<1>5. \E x \in Todo : \A y \in Todo : ~(y \subseteq x /\ y # x)
  <2> HIDE DEF Todo
  <2> QED
    BY <1>4, RolesAreFinite, FewestFirst
<1>6. PICK s \in Odd : s.known = r.known /\ \A y \in Todo : ~(y \subseteq s.todo /\ y # s.todo)
  <2>1. PICK x \in Todo : \A y \in Todo : ~(y \subseteq x /\ y # x)
    BY <1>5
  <2>2. PICK s \in Odd : s.known = r.known /\ x = s.todo
    OBVIOUS
  <2> HIDE DEF Odd, Todo
  <2> QED
    BY <2>1, <2>2
<1>7. \A t \in Calls :
          \/ s.known \subseteq t.known /\ s.known # t.known
          \/ s.known = t.known /\ t.todo \subseteq s.todo /\ t.todo # s.todo
          => t \notin Odd
  <2> SUFFICES ASSUME NEW t \in Odd
               PROVE  /\ ~(s.known \subseteq t.known /\ s.known # t.known)
                      /\ ~(s.known = t.known /\ t.todo \subseteq s.todo /\ t.todo # s.todo)
    OBVIOUS
  <2>1. Roles \ t.known \in Left /\ (s.known = t.known => t.todo \in Todo)
    BY <1>6
  <2>2. s.known \in SUBSET Roles /\ t.known \in SUBSET Roles
    BY DEF Calls
  <2> HIDE DEF Left, Todo
  <2> QED
    BY <1>3, <1>6, <2>1, <2>2
<1>8. Loop(par, f, s) = Reached(par, s.todo, s.known)
  <2>1. s \in Calls /\ \A t \in Calls : t \notin Odd => f[t] = Reached(par, t.todo, t.known)
    OBVIOUS
  <2> HIDE DEF Odd
  <2> QED
    BY <1>6, <1>7, <2>1, LoopReaches
<1> QED
  BY <1>6, <1>8 DEF IsRecursion

LEMMA InheritReaches ==
    ASSUME NEW par \in Graph, NEW r \in Roles, NEW known \in SUBSET Roles
    PROVE  Inherit(par, r, known) = Reached(par, par[r], known)
<1> DEFINE f == CHOOSE g : IsRecursion(g, par)
           start == [todo |-> par[r], known |-> known]
<1>1. IsRecursion(f, par)
  BY RecursionExists
<1>2. Inherit(par, r, known) = f[start]
  BY DEF Inherit, IsRecursion, Calls, Loop
<1>3. start \in Calls
  BY DEF Calls, Graph
<1>4. f[start] = Reached(par, start.todo, start.known)
  <2> HIDE DEF f, start
  <2> QED
    BY <1>1, <1>3, RecursionIsUnique
<1> QED
  BY <1>2, <1>4

\* Going through the roots of a set, if f is the set after all but one of them.
Share(par, f, s) ==
    IF s = {} THEN {}
    ELSE LET r == CHOOSE r \in s : TRUE IN Inherit(par, r, f[s \ {r}])

IsShared(f, par, roots) == f = [s \in SUBSET roots |-> Share(par, f, s)]

ParentsIn(par, s) == UNION {par[r] : r \in s}

LEMMA ShareReaches ==
    ASSUME NEW par \in Graph, NEW roots \in SUBSET Roles, NEW s \in SUBSET roots, NEW f,
           \A r \in s : f[s \ {r}] = Ancestors(par, ParentsIn(par, s \ {r}))
    PROVE  Share(par, f, s) = Ancestors(par, ParentsIn(par, s))
<1>1. CASE s = {}
  <2>1. ParentsIn(par, s) = {}
    BY <1>1 DEF ParentsIn
  <2>2. Reached(par, {}, {}) = {}
    BY NothingToDo
  <2> QED
    BY <1>1, <2>1, <2>2, AncestorsReached DEF Share
<1>2. CASE s # {}
  <2> DEFINE r == CHOOSE r \in s : TRUE
             others == ParentsIn(par, s \ {r})
             parts == par[r]
  <2>1. r \in s
    BY <1>2
  <2>2. Share(par, f, s) = Inherit(par, r, f[s \ {r}])
    BY <1>2 DEF Share
  <2> HIDE DEF r
  <2>3. others \in SUBSET Roles /\ parts \in SUBSET Roles /\ ParentsIn(par, s) = others \cup parts
    BY <2>1 DEF ParentsIn, Graph
  <2>4. f[s \ {r}] = Ancestors(par, others) /\ Ancestors(par, others) \in SUBSET Roles /\ r \in Roles
    BY <2>1 DEF Ancestors
  <2>5. Inherit(par, r, Ancestors(par, others)) = Reached(par, parts, Ancestors(par, others))
    BY <2>4, InheritReaches
  <2> HIDE DEF others, parts
  <2>6. Reached(par, parts, Ancestors(par, others)) = Ancestors(par, others \cup parts)
    BY <2>3, AncestorsAdd
  <2> QED
    BY <2>2, <2>3, <2>4, <2>5, <2>6
<1> QED
  BY <1>1, <1>2

LEMMA SharedIsUnique ==
    ASSUME NEW par \in Graph, NEW roots \in SUBSET Roles, NEW f, IsShared(f, par, roots),
           NEW c \in SUBSET roots
    PROVE  f[c] = Ancestors(par, ParentsIn(par, c))
<1> DEFINE Odd == {s \in SUBSET roots : f[s] # Ancestors(par, ParentsIn(par, s))}
<1> SUFFICES ASSUME Odd # {} PROVE FALSE
  OBVIOUS
<1>1. Odd \subseteq SUBSET Roles
  OBVIOUS
<1>2. \E x \in Odd : \A y \in Odd : ~(y \subseteq x /\ y # x)
  <2> HIDE DEF Odd
  <2> QED
    BY <1>1, RolesAreFinite, FewestFirst
<1>3. PICK s \in Odd : \A y \in Odd : ~(y \subseteq s /\ y # s)
  BY <1>2
<1>4. \A r \in s : s \ {r} \in SUBSET roots /\ s \ {r} \notin Odd
  <2> SUFFICES ASSUME NEW r \in s PROVE s \ {r} \in SUBSET roots /\ s \ {r} \notin Odd
    OBVIOUS
  <2>1. s \ {r} \in SUBSET roots /\ s \ {r} \subseteq s /\ s \ {r} # s
    OBVIOUS
  <2> HIDE DEF Odd
  <2> QED
    BY <1>3, <2>1
<1>5. \A r \in s : f[s \ {r}] = Ancestors(par, ParentsIn(par, s \ {r}))
  BY <1>4
<1>6. s \in SUBSET roots /\ f[s] # Ancestors(par, ParentsIn(par, s))
  OBVIOUS
<1>7. f[s] = Share(par, f, s)
  BY <1>6 DEF IsShared
<1> HIDE DEF Odd
<1>8. Share(par, f, s) = Ancestors(par, ParentsIn(par, s))
  BY <1>5, <1>6, ShareReaches
<1> QED
  BY <1>6, <1>7, <1>8

LEMMA InheritedAreReached ==
    ASSUME NEW par \in Graph, NEW roots \in SUBSET Roles
    PROVE  InheritedRoles(par, roots) = Ancestors(par, ParentsIn(par, roots))
<1> DEFINE f == CHOOSE g : IsShared(g, par, roots)
           sol == [s \in SUBSET roots |-> Ancestors(par, ParentsIn(par, s))]
<1>1. IsShared(sol, par, roots)
  <2>1. \A s \in SUBSET roots, r \in Roles : sol[s \ {r}] = Ancestors(par, ParentsIn(par, s \ {r}))
    OBVIOUS
  <2>2. ASSUME NEW s \in SUBSET roots
        PROVE  Share(par, sol, s) = Ancestors(par, ParentsIn(par, s))
    <3>1. \A r \in s : sol[s \ {r}] = Ancestors(par, ParentsIn(par, s \ {r}))
      BY <2>1
    <3> HIDE DEF sol
    <3> QED
      BY <3>1, ShareReaches
  <2> QED
    BY <2>2 DEF IsShared
<1>2. IsShared(f, par, roots)
  <2> HIDE DEF sol
  <2> QED
    BY <1>1
<1>3. InheritedRoles(par, roots) = f[roots]
  BY DEF InheritedRoles, FoldSet, MapThenFoldSet, IsShared, Share
<1>4. f[roots] = Ancestors(par, ParentsIn(par, roots))
  <2> HIDE DEF f
  <2> QED
    BY <1>2, SharedIsUnique
<1> QED
  BY <1>3, <1>4

(* The walk of the explanation reaches what that of the check reaches.     *)
LEMMA RootsAndInherited ==
    ASSUME NEW par \in Graph, NEW roots \in SUBSET Roles
    PROVE  roots \cup InheritedRoles(par, roots) = Ancestors(par, roots)
<1> DEFINE up == ParentsIn(par, roots)
           A == Reached(par, up, {})
           R == Reached(par, roots, {})
<1>1. up \in SUBSET Roles
  BY DEF ParentsIn, Graph
<1>2. A \in SUBSET Roles /\ up \subseteq A /\ Through(par, {}, A)
  BY <1>1, ReachedGoesThrough
<1>3. R \in SUBSET Roles /\ roots \subseteq R /\ Through(par, {}, R)
  BY ReachedGoesThrough
<1>4. roots \cup A = R
  <2>1. up \subseteq R
    BY <1>3 DEF Through, ParentsIn
  <2> HIDE DEF A, R
  <2>2. A \subseteq R
    BY <1>3, <2>1, ReachedIsLeast DEF A
  <2>3. Through(par, {}, roots \cup A) /\ roots \cup A \in SUBSET Roles
    BY <1>2 DEF Through, ParentsIn
  <2>4. R \subseteq roots \cup A
    BY <2>3, ReachedIsLeast DEF R
  <2> QED
    BY <1>3, <2>2, <2>4
<1>5. InheritedRoles(par, roots) = Ancestors(par, up)
  BY InheritedAreReached
<1>6. A = Ancestors(par, up) /\ R = Ancestors(par, roots)
  BY AncestorsReached
<1> QED
  BY <1>4, <1>5, <1>6

LEMMA WalksReachTheSame ==
    ASSUME graph \in Graph, NEW roots \in SUBSET Roles
    PROVE  WalkIsReachability(roots) /\ ExplanationAgrees(roots)
<1>1. InheritedRoles(graph, roots) = Ancestors(graph, ParentsIn(graph, roots))
  BY InheritedAreReached
<1>2. EffectiveRoles(graph, roots) = Ancestors(graph, roots)
  BY EffectiveAreReached
<1>3. roots \cup InheritedRoles(graph, roots) = Ancestors(graph, roots)
  BY RootsAndInherited
<1> QED
  BY <1>1, <1>2, <1>3 DEF WalkIsReachability, ExplanationAgrees, ParentsIn

-----------------------------------------------------------------------------
(* The recursion without a visited set, on a hierarchy without cycles.     *)

\* What find returns for r, if it returns f for the parents of r.
Tried(par, target, f, r) ==
    LET found == {p \in par[r] : f[p] # <<>>}
    IN  IF r = target THEN <<r>>
        ELSE IF found = {} THEN <<>>
        ELSE <<r>> \o f[CHOOSE p \in found : TRUE]

IsFind(f, par, target) == f = [r \in Roles |-> Tried(par, target, f, r)]

LEMMA TriedRests ==
    ASSUME NEW par, NEW target, NEW r, NEW f, NEW g, \A p \in par[r] : f[p] = g[p]
    PROVE  Tried(par, target, f, r) = Tried(par, target, g, r)
<1> DEFINE found(h) == {p \in par[r] : h[p] # <<>>}
           p(h) == CHOOSE q \in found(h) : TRUE
<1>1. found(f) = found(g)
  OBVIOUS
<1>2. p(f) = p(g)
  BY <1>1
<1>3. found(f) # {} => f[p(f)] = g[p(g)]
  <2>1. found(f) # {} => p(f) \in par[r]
    OBVIOUS
  <2> HIDE DEF found, p
  <2> QED
    BY <1>2, <2>1
<1>4. /\ Tried(par, target, f, r) = IF r = target THEN <<r>> ELSE IF found(f) = {} THEN <<>>
                                    ELSE <<r>> \o f[p(f)]
      /\ Tried(par, target, g, r) = IF r = target THEN <<r>> ELSE IF found(g) = {} THEN <<>>
                                    ELSE <<r>> \o g[p(g)]
  BY DEF Tried
<1> HIDE DEF found, p
<1> QED
  BY <1>1, <1>3, <1>4

\* Without cycles, whatever is not settled has a member whose parents are.
LEMMA FindExists ==
    ASSUME NEW par \in Graph, Acyclic(par), NEW target
    PROVE  \E f : IsFind(f, par, target)
<1> DEFINE Settled == {C \in SUBSET Roles :
                          Closed(par, C) /\ \E f : f = [r \in C |-> Tried(par, target, f, r)]}
           Left == {Roles \ C : C \in Settled}
<1>1. Left \subseteq SUBSET Roles /\ Left # {}
  <2>1. {} \in Settled
    <3>1. [r \in {} |-> r] = [r \in {} |-> Tried(par, target, [q \in {} |-> q], r)]
      OBVIOUS
    <3> QED
      BY <3>1 DEF Closed
  <2> QED
    BY <2>1
<1>2. \E x \in Left : \A y \in Left : ~(y \subseteq x /\ y # x)
  <2> HIDE DEF Left
  <2> QED
    BY <1>1, RolesAreFinite, FewestFirst
<1>3. PICK C \in Settled : \A y \in Left : ~(y \subseteq Roles \ C /\ y # Roles \ C)
  BY <1>2
<1>4. C \in SUBSET Roles /\ Closed(par, C)
  OBVIOUS
<1>5. PICK f : f = [r \in C |-> Tried(par, target, f, r)]
  OBVIOUS
<1>6. ASSUME C # Roles PROVE FALSE
  <2>1. PICK r \in Roles \ C : par[r] \cap (Roles \ C) = {}
    BY <1>4, <1>6 DEF Acyclic
  <2>2. par[r] \subseteq C
    BY <2>1 DEF Graph
  <2> DEFINE D == C \cup {r}
             g == [x \in D |-> IF x = r THEN Tried(par, target, f, r) ELSE f[x]]
  <2>3. \A x \in C : g[x] = f[x]
    BY <2>1
  <2>4. \A x \in D : g[x] = Tried(par, target, g, x)
    <3> SUFFICES ASSUME NEW x \in D PROVE g[x] = Tried(par, target, g, x)
      OBVIOUS
    <3>1. \A p \in par[x] : g[p] = f[p]
      BY <1>4, <2>2, <2>3 DEF Closed
    <3>2. g[x] = Tried(par, target, f, x)
      BY <1>5
    <3> HIDE DEF g
    <3> QED
      BY <3>1, <3>2, TriedRests
  <2>5. g = [x \in D |-> Tried(par, target, g, x)]
    <3>1. g = [x \in D |-> g[x]]
      OBVIOUS
    <3> HIDE DEF g
    <3> QED
      BY <2>4, <3>1
  <2>6. D \in Settled
    <3>1. D \in SUBSET Roles /\ Closed(par, D)
      BY <1>4, <2>1, <2>2 DEF Closed
    <3> HIDE DEF g, D
    <3> QED
      BY <2>5, <3>1
  <2>7. Roles \ D \subseteq Roles \ C /\ Roles \ D # Roles \ C
    BY <2>1
  <2> HIDE DEF Settled
  <2> QED
    BY <1>3, <2>6, <2>7
<1>7. f = [r \in Roles |-> Tried(par, target, f, r)]
  <2>1. C = Roles
    BY <1>6
  <2> QED
    BY <1>5, <2>1, Zenon
<1> QED
  BY <1>7 DEF IsFind

LEMMA AncestorsStep ==
    ASSUME NEW par \in Graph, NEW r \in Roles
    PROVE  \A x : x \in Ancestors(par, {r}) <=> x = r \/ \E p \in par[r] : x \in Ancestors(par, {p})
<1> DEFINE C == {r} \cup UNION {Ancestors(par, {p}) : p \in par[r]}
<1>1. ASSUME NEW p \in par[r] PROVE Ancestors(par, {p}) \subseteq Ancestors(par, {r})
  BY DEF Ancestors, Closed
<1>2. r \in Ancestors(par, {r})
  BY DEF Ancestors
<1>3. Ancestors(par, {r}) \subseteq C
  <2>1. C \in SUBSET Roles
    BY DEF Ancestors
  <2>2. par[r] \subseteq C
    <3>1. \A p \in par[r] : p \in Ancestors(par, {p})
      BY DEF Ancestors, Graph
    <3> QED
      BY <3>1
  <2>3. ASSUME NEW p \in par[r], NEW x \in Ancestors(par, {p}) PROVE par[x] \subseteq Ancestors(par, {p})
    BY DEF Ancestors, Closed, Graph
  <2>4. Closed(par, C)
    BY <2>2, <2>3 DEF Closed
  <2> QED
    BY <2>1, <2>4 DEF Ancestors
<1> QED
  BY <1>1, <1>2, <1>3

LEMMA AncestorsOfEach ==
    ASSUME NEW par \in Graph, NEW roots \in SUBSET Roles
    PROVE  \A x : x \in Ancestors(par, roots) <=> \E r \in roots : x \in Ancestors(par, {r})
<1> DEFINE C == UNION {Ancestors(par, {r}) : r \in roots}
<1>1. ASSUME NEW r \in roots PROVE Ancestors(par, {r}) \subseteq Ancestors(par, roots)
  BY DEF Ancestors
<1>2. Ancestors(par, roots) \subseteq C
  <2>1. C \in SUBSET Roles
    BY DEF Ancestors
  <2>2. roots \subseteq C
    <3>1. \A r \in roots : r \in Ancestors(par, {r})
      BY DEF Ancestors
    <3> QED
      BY <3>1
  <2>3. ASSUME NEW r \in roots, NEW x \in Ancestors(par, {r}) PROVE par[x] \subseteq Ancestors(par, {r})
    BY DEF Ancestors, Closed, Graph
  <2>4. Closed(par, C)
    BY <2>3 DEF Closed
  <2> QED
    BY <2>1, <2>2, <2>4 DEF Ancestors
<1> QED
  BY <1>1, <1>2

\* A path from r to target where there is one, or none.
Right(par, target, r, path) ==
    IF target \in Ancestors(par, {r})
    THEN path \in Seq(Roles) /\ path # <<>> /\ IsPath(par, {r}, target, path)
    ELSE path = <<>>

LEMMA LongerPath ==
    ASSUME NEW par \in Graph, NEW target, NEW r \in Roles, NEW p \in par[r],
           NEW path \in Seq(Roles), path # <<>>, IsPath(par, {p}, target, path)
    PROVE  /\ <<r>> \o path \in Seq(Roles) /\ <<r>> \o path # <<>>
           /\ IsPath(par, {r}, target, <<r>> \o path)
<1> DEFINE long == <<r>> \o path
<1>1. /\ long \in Seq(Roles) /\ long # <<>>
      /\ Len(long) = Len(path) + 1 /\ Len(path) \in Nat \ {0}
      /\ long[1] = r
      /\ \A i \in 1..Len(path) : long[i + 1] = path[i]
  OBVIOUS
<1> HIDE DEF long
<1>2. long[Len(long)] = target
  BY <1>1 DEF IsPath
<1>3. ASSUME NEW i \in 1..Len(long) - 1 PROVE long[i + 1] \in par[long[i]]
  <2>1. CASE i = 1
    BY <1>1, <2>1 DEF IsPath
  <2>2. CASE i # 1
    <3>1. i - 1 \in 1..Len(path) - 1 /\ i \in 1..Len(path)
      BY <1>1, <2>2
    <3>2. long[i + 1] = path[i] /\ long[i] = path[i - 1]
      BY <1>1, <3>1
    <3>3. path[(i - 1) + 1] \in par[path[i - 1]]
      BY <3>1 DEF IsPath
    <3> QED
      BY <3>1, <3>2, <3>3
  <2> QED
    BY <2>1, <2>2
<1> QED
  BY <1>1, <1>2, <1>3 DEF IsPath, long

LEMMA FindIsRight ==
    ASSUME NEW par \in Graph, Acyclic(par), NEW target \in Roles,
           NEW f, IsFind(f, par, target), NEW c \in Roles
    PROVE  Right(par, target, c, f[c])
<1> DEFINE Wrong == {r \in Roles : ~Right(par, target, r, f[r])}
<1> SUFFICES ASSUME Wrong # {} PROVE FALSE
  OBVIOUS
<1>1. PICK r \in Wrong : par[r] \cap Wrong = {}
  BY DEF Acyclic
<1>2. r \in Roles /\ ~Right(par, target, r, f[r])
  OBVIOUS
<1>3. \A p \in par[r] : p \in Roles /\ Right(par, target, p, f[p])
  BY <1>1 DEF Graph
<1> HIDE DEF Wrong
<1>4. f[r] = Tried(par, target, f, r)
  BY <1>2 DEF IsFind
<1> DEFINE found == {p \in par[r] : f[p] # <<>>}
           p == CHOOSE q \in found : TRUE
<1>5. found = {q \in par[r] : target \in Ancestors(par, {q})}
  BY <1>3 DEF Right
<1>6. target \in Ancestors(par, {r}) <=> r = target \/ found # {}
  BY <1>2, <1>5, AncestorsStep
<1>7. CASE r = target
  <2>1. f[r] = <<r>>
    BY <1>4, <1>7 DEF Tried
  <2>2. <<r>> \in Seq(Roles) /\ <<r>> # <<>> /\ Len(<<r>>) = 1 /\ <<r>>[1] = r
    BY <1>2
  <2>3. IsPath(par, {r}, target, <<r>>)
    BY <1>7, <2>2 DEF IsPath
  <2> QED
    BY <1>2, <1>6, <1>7, <2>1, <2>2, <2>3 DEF Right
<1>8. CASE r # target /\ found = {}
  <2>1. f[r] = <<>>
    BY <1>4, <1>8 DEF Tried
  <2> QED
    BY <1>2, <1>6, <1>8, <2>1 DEF Right
<1>9. CASE r # target /\ found # {}
  <2>1. f[r] = <<r>> \o f[p]
    BY <1>4, <1>9 DEF Tried
  <2>2. p \in found
    BY <1>9
  <2>3. p \in par[r] /\ target \in Ancestors(par, {p})
    BY <1>5, <2>2
  <2> HIDE DEF p
  <2>4. f[p] \in Seq(Roles) /\ f[p] # <<>> /\ IsPath(par, {p}, target, f[p])
    BY <1>3, <2>3 DEF Right
  <2>5. /\ f[r] \in Seq(Roles) /\ f[r] # <<>>
        /\ IsPath(par, {r}, target, f[r])
    BY <1>2, <2>1, <2>3, <2>4, LongerPath
  <2> QED
    BY <1>2, <1>6, <1>9, <2>5 DEF Right
<1> QED
  BY <1>7, <1>8, <1>9

LEMMA PathIsRight ==
    ASSUME NEW par \in Graph, Acyclic(par), NEW roots \in SUBSET Roles, NEW target \in Roles
    PROVE  LET path == ResolutionPath(par, roots, target)
           IN  IF target \in Ancestors(par, roots)
               THEN path # <<>> /\ IsPath(par, roots, target, path)
               ELSE path = <<>>
<1> DEFINE f == CHOOSE g : IsFind(g, par, target)
           found == {r \in roots : Find(par, r, target) # <<>>}
           r == CHOOSE q \in found : TRUE
<1>1. IsFind(f, par, target)
  BY FindExists
<1>2. \A q : Find(par, q, target) = f[q]
  BY DEF Find, IsFind, Tried
<1> HIDE DEF f
<1>3. ASSUME NEW q \in Roles PROVE Right(par, target, q, Find(par, q, target))
  <2>1. Right(par, target, q, f[q])
    BY <1>1, FindIsRight
  <2> QED
    BY <1>2, <2>1
<1>4. found = {q \in roots : target \in Ancestors(par, {q})}
  BY <1>3 DEF Right
<1>5. target \in Ancestors(par, roots) <=> \E q \in roots : target \in Ancestors(par, {q})
  BY AncestorsOfEach
<1>6. target \in Ancestors(par, roots) <=> found # {}
  <2> HIDE DEF found
  <2> QED
    BY <1>4, <1>5
<1>7. CASE found = {}
  BY <1>6, <1>7 DEF ResolutionPath
<1>8. CASE found # {}
  <2>1. ResolutionPath(par, roots, target) = Find(par, r, target)
    BY <1>8 DEF ResolutionPath
  <2>2. r \in roots /\ target \in Ancestors(par, {r})
    BY <1>4, <1>8
  <2> HIDE DEF r
  <2>3. /\ Find(par, r, target) # <<>>
        /\ IsPath(par, {r}, target, Find(par, r, target))
    BY <1>3, <2>2 DEF Right
  <2> QED
    BY <1>6, <1>8, <2>1, <2>2, <2>3 DEF IsPath
<1> QED
  BY <1>7, <1>8

LEMMA PathsAreFound ==
    ASSUME graph \in Graph, NEW roots \in SUBSET Roles
    PROVE  PathAgrees(roots)
BY PathIsRight DEF PathAgrees

(* The three ways of following parents agree, on every graph, for every set *)
(* of roots and, where there is no cycle, for every role that is looked    *)
(* for.                                                                    *)
THEOREM WalksFollowParents ==
    SearchSpec => []WalksAgree
<1>1. SearchTypeOK => WalksAgree
  BY WalksReachTheSame, PathsAreFound DEF WalksAgree, SearchTypeOK
<1> QED
  BY <1>1, SearchTyping, PTL

-----------------------------------------------------------------------------
(* A question of the read side, while the store and the groups change.     *)

(* What the store and the groups promise the reader.                       *)
StoreOK == parents \in Graph /\ Acyclic(parents) /\ assigned \subseteq Holders \X Roles
GroupsOK == member \in [Users -> SUBSET Groups] /\ active \subseteq Groups

Questions == {"check", "explain", "has_role"}
QuerySteps == {"memberships", "active_groups", "group_roles", "roots", "roles"}
OpenQuery == [at: QuerySteps, asks: Questions, user: Users, groups: SUBSET Groups,
              roots: SUBSET Roles, permissions: {{}}, target: {Nothing}, path: {<<>>}]

(* What holds now has been seen, and what was kept holds now.              *)
SeenOK == Reading =>
    /\ member[query.user] \subseteq seen.member
    /\ active \subseteq seen.active
    /\ assigned \subseteq seen.assigned
    /\ seen.kept \subseteq Holdings(query.user)

(* What has been read was so when it was read ...                          *)
ReadOK == Reading =>
    /\ query.roots \subseteq WarrantedRoles
    /\ query.at = "active_groups" => query.groups \subseteq seen.member
    /\ query.at = "group_roles" => query.groups \subseteq seen.member \cap seen.active

(* ... and what was kept has been read, or its group is still to be asked. *)
KeptOK == Reading => \A h \in seen.kept :
    /\ h[1] = query.user => h[2] \in query.roots
    /\ query.at \in {"active_groups", "group_roles"} =>
          h[1] \in query.groups \/ h[2] \in query.roots
    /\ query.at \in {"roots", "roles"} => h[2] \in query.roots

QueryInv ==
    /\ StoreOK /\ GroupsOK
    /\ query.at \in {"idle", "answered"} \/ query \in OpenQuery
    /\ SeenOK /\ ReadOK /\ KeptOK

LEMMA OpenIsReading == ASSUME QueryInv PROVE Reading <=> query \in OpenQuery
BY DEF QueryInv, Reading, OpenQuery, QuerySteps

LEMMA StoreSteps == ASSUME StoreOK, StoreNext PROVE StoreOK'
<1>1. ASSUME NEW r \in Roles, NEW granted, NEW from \in SUBSET Roles, PutRole(r, granted, from)
      PROVE  StoreOK'
  BY <1>1 DEF StoreOK, PutRole, Graph
<1>2. ASSUME NEW r \in Roles, RemoveRole(r) PROVE StoreOK'
  <2>1. parents' \in Graph /\ \A x \in Roles : parents'[x] \subseteq parents[x]
    BY <1>2 DEF StoreOK, RemoveRole, Graph
  <2>2. Acyclic(parents')
    BY <2>1, FewerParents DEF StoreOK
  <2> QED
    BY <1>2, <2>1, <2>2 DEF StoreOK, RemoveRole, Acyclic
<1>3. ASSUME NEW s \in Holders, NEW r \in Roles, NEW previous, AssignPair(s, r, previous)
      PROVE  StoreOK'
  BY <1>3 DEF StoreOK, AssignPair, Acyclic
<1>4. ASSUME NEW pairs, RemovePairs(pairs) PROVE StoreOK'
  BY <1>4 DEF StoreOK, RemovePairs, Acyclic
<1> QED
  BY <1>1, <1>2, <1>3, <1>4 DEF StoreNext

(* While others write, the request keeps what it has read and the history  *)
(* takes in what they have written.                                        *)
LEMMA WatchKeepsInv ==
    ASSUME QueryInv, StoreOK', GroupsOK', query' = query, Watch
    PROVE  QueryInv'
<1>1. CASE ~Reading
  BY <1>1 DEF QueryInv, Reading, SeenOK, ReadOK, KeptOK
<1>2. CASE Reading
  <2> DEFINE now == [member   |-> seen.member \cup member'[query.user],
                     active   |-> seen.active \cup active',
                     assigned |-> seen.assigned \cup assigned',
                     kept     |-> seen.kept \cap Holdings(query.user)']
  <2>1. seen' = now
    BY <1>2 DEF Watch
  <2>2. /\ seen'.member = seen.member \cup member'[query.user]
        /\ seen'.active = seen.active \cup active'
        /\ seen'.assigned = seen.assigned \cup assigned'
        /\ seen'.kept = seen.kept \cap Holdings(query.user)'
    BY <2>1
  <2> HIDE DEF now
  <2>4. SeenOK'
    BY <2>2 DEF SeenOK
  <2>5. WarrantedRoles \subseteq WarrantedRoles'
    BY <2>2 DEF WarrantedRoles
  <2>6. ReadOK'
    BY <1>2, <2>2, <2>5 DEF QueryInv, ReadOK
  <2>7. KeptOK'
    BY <1>2, <2>2 DEF QueryInv, KeptOK
  <2> QED
    BY <2>4, <2>6, <2>7 DEF QueryInv
<1> QED
  BY <1>1, <1>2

(* A read that moves the request on to q.                                  *)
LEMMA ProceedKeepsInv ==
    ASSUME QueryInv, Reading, NEW q \in OpenQuery, Proceed(q), q.user = query.user,
           q.roots \subseteq WarrantedRoles,
           q.at = "active_groups" => q.groups \subseteq seen.member,
           q.at = "group_roles" => q.groups \subseteq seen.member \cap seen.active,
           \A h \in seen.kept :
               /\ h[1] = q.user => h[2] \in q.roots
               /\ q.at \in {"active_groups", "group_roles"} =>
                     h[1] \in q.groups \/ h[2] \in q.roots
               /\ q.at \in {"roots", "roles"} => h[2] \in q.roots
    PROVE  QueryInv'
<1>1. query' = q /\ UNCHANGED <<stored, permissions, parents, assigned, member, active, seen>>
  BY DEF Proceed, storeVars, groupVars
<1>2. StoreOK' /\ GroupsOK'
  BY <1>1 DEF QueryInv, StoreOK, GroupsOK, Acyclic
<1>3. Holdings(query.user)' = Holdings(query.user)
  BY <1>1 DEF Holdings
<1>4. SeenOK'
  BY <1>1, <1>3 DEF QueryInv, SeenOK
<1>5. WarrantedRoles' = WarrantedRoles
  BY <1>1 DEF WarrantedRoles
<1>6. ReadOK' /\ KeptOK'
  BY <1>1, <1>5 DEF ReadOK, KeptOK
<1> QED
  BY <1>1, <1>2, <1>4, <1>6 DEF QueryInv

Asked(asks, u, roots) == [NoQuery EXCEPT !.at = "memberships", !.asks = asks, !.user = u,
                                         !.roots = roots]

LEMMA FirstQuery ==
    ASSUME NEW asks \in Questions, NEW u \in Users, NEW roots \in SUBSET Roles
    PROVE  LET q == Asked(asks, u, roots)
           IN  q \in OpenQuery /\ q.at = "memberships" /\ q.user = u /\ q.roots = roots
BY DEF Asked, NoQuery, OpenQuery, QuerySteps, Questions

LEMMA FirstSeen ==
    ASSUME NEW u \in Users
    PROVE  /\ SeenFirst(u).member = member[u] /\ SeenFirst(u).active = active
           /\ SeenFirst(u).assigned = assigned /\ SeenFirst(u).kept = Holdings(u)
BY DEF SeenFirst

LEMMA AskKeepsInv ==
    ASSUME QueryInv, NEW asks \in Questions, NEW u \in Users, Ask(asks, u)
    PROVE  QueryInv'
<1> DEFINE q == Asked(asks, u, RolesOf(u))
<1>1. query' = q /\ UNCHANGED <<stored, permissions, parents, assigned, member, active>>
  BY DEF Ask, Asked, storeVars, groupVars
<1>2. q \in OpenQuery /\ q.at = "memberships" /\ q.user = u /\ q.roots = RolesOf(u)
  <2>1. RolesOf(u) \in SUBSET Roles
    BY DEF RolesOf
  <2> QED
    BY <2>1, FirstQuery
<1> HIDE DEF q
<1>3. /\ seen'.member = member[u] /\ seen'.active = active
      /\ seen'.assigned = assigned /\ seen'.kept = Holdings(u)
  <2>1. seen' = SeenFirst(u)
    BY Zenon DEF Ask
  <2> QED
    BY <2>1, FirstSeen
<1>4. StoreOK' /\ GroupsOK'
  BY <1>1 DEF QueryInv, StoreOK, GroupsOK, Acyclic
<1>5. Holdings(query.user)' = Holdings(u)
  <2>1. query'.user = u
    BY <1>1, <1>2
  <2> QED
    BY <1>1, <2>1 DEF Holdings
<1>6. SeenOK'
  BY <1>1, <1>2, <1>3, <1>5 DEF SeenOK
<1>7. \A r \in RolesOf(u) : <<u, r>> \in assigned /\ <<u, r>>[1] = u /\ <<u, r>>[2] = r
  BY DEF RolesOf
<1>8. RolesOf(u) \subseteq WarrantedRoles'
  BY <1>1, <1>2, <1>3, <1>7 DEF WarrantedRoles
<1>9. ReadOK'
  BY <1>1, <1>2, <1>8 DEF ReadOK
<1>10. ASSUME NEW h \in Holdings(u), h[1] = u PROVE h[2] \in RolesOf(u)
  <2>1. h \in assigned /\ assigned \subseteq Holders \X Roles
    BY <1>10 DEF Holdings, QueryInv, StoreOK
  <2>2. h = <<h[1], h[2]>> /\ h[2] \in Roles
    BY <2>1
  <2> QED
    BY <1>10, <2>1, <2>2 DEF RolesOf
<1>11. KeptOK'
  BY <1>1, <1>2, <1>3, <1>10 DEF KeptOK
<1> QED
  BY <1>1, <1>2, <1>4, <1>6, <1>9, <1>11 DEF QueryInv

(* A request that has ended knows nothing.                                 *)
LEMMA EndKeepsInv ==
    ASSUME QueryInv, query'.at \in {"idle", "answered"}, UNCHANGED <<storeVars, groupVars>>
    PROVE  QueryInv'
<1>1. UNCHANGED <<stored, permissions, parents, assigned, member, active>>
  BY DEF storeVars, groupVars
<1>2. StoreOK' /\ GroupsOK'
  BY <1>1 DEF QueryInv, StoreOK, GroupsOK, Acyclic
<1> QED
  BY <1>2 DEF QueryInv, SeenOK, ReadOK, KeptOK, Reading

LEMMA ReadsKeepInv ==
    ASSUME QueryInv,
           \/ ReadMemberships \/ ReadActiveGroups \/ EndGroupRoles \/ ReadRoots
           \/ \E g \in Groups : ReadGroupRoles(g)
    PROVE  QueryInv'
<1>0. Reading
  BY Zenon DEF Reading, ReadMemberships, ReadActiveGroups, EndGroupRoles, ReadRoots, ReadGroupRoles
<1>1. query \in OpenQuery
  BY <1>0, OpenIsReading
<1>2. SeenOK /\ ReadOK /\ KeptOK /\ StoreOK /\ GroupsOK
  BY DEF QueryInv
<1>3. \A h \in seen.kept : /\ h \in assigned /\ h[2] \in stored
                           /\ h[1] \in {query.user} \cup (member[query.user] \cap active)
  BY <1>0, <1>2 DEF SeenOK, Holdings
<1>4. ASSUME ReadMemberships PROVE QueryInv'
  <2> DEFINE q == [query EXCEPT !.at = "active_groups", !.groups = member[query.user]]
  <2>1. member[query.user] \in SUBSET Groups
    BY <1>1, <1>2 DEF OpenQuery, GroupsOK
  <2>2. /\ q \in OpenQuery /\ q.at = "active_groups" /\ q.user = query.user
        /\ q.roots = query.roots /\ q.groups = member[query.user]
    BY <1>1, <2>1 DEF OpenQuery, QuerySteps
  <2>3. Proceed(q)
    BY <1>4 DEF ReadMemberships
  <2> HIDE DEF q
  <2>4. \A h \in seen.kept : h[1] = query.user => h[2] \in query.roots
    BY <1>0, <1>2 DEF KeptOK
  <2> QED
    BY <1>0, <1>2, <1>3, <2>2, <2>3, <2>4, ProceedKeepsInv DEF SeenOK, ReadOK
<1>5. ASSUME ReadActiveGroups PROVE QueryInv'
  <2> DEFINE q == [query EXCEPT !.at = "group_roles", !.groups = @ \cap active]
  <2>1. /\ q \in OpenQuery /\ q.at = "group_roles" /\ q.user = query.user
        /\ q.roots = query.roots /\ q.groups = query.groups \cap active
    BY <1>1 DEF OpenQuery, QuerySteps
  <2>2. Proceed(q) /\ query.at = "active_groups"
    BY <1>5 DEF ReadActiveGroups
  <2> HIDE DEF q
  <2>3. \A h \in seen.kept : /\ h[1] = query.user => h[2] \in query.roots
                             /\ h[1] \in query.groups \/ h[2] \in query.roots
    BY <1>0, <1>2, <2>2 DEF KeptOK
  <2>4. query.groups \subseteq seen.member /\ active \subseteq seen.active
    BY <1>0, <1>2, <2>2 DEF ReadOK, SeenOK
  <2> QED
    BY <1>0, <1>2, <1>3, <2>1, <2>2, <2>3, <2>4, ProceedKeepsInv DEF ReadOK
<1>6. ASSUME EndGroupRoles PROVE QueryInv'
  <2> DEFINE step == IF query.asks = "explain" \/ query.roots = {} THEN "roles" ELSE "roots"
             q == [query EXCEPT !.at = step]
  <2>1. step \in {"roles", "roots"}
    OBVIOUS
  <2>2. /\ q \in OpenQuery /\ q.at = step /\ q.user = query.user
        /\ q.roots = query.roots /\ q.groups = query.groups
    BY <1>1, <2>1 DEF OpenQuery, QuerySteps
  <2>3. Proceed(q) /\ query.at = "group_roles" /\ query.groups = {}
    BY <1>6 DEF EndGroupRoles
  <2> HIDE DEF q, step
  <2>4. \A h \in seen.kept : h[2] \in query.roots
    BY <1>0, <1>2, <2>3 DEF KeptOK
  <2> QED
    BY <1>0, <1>2, <2>1, <2>2, <2>3, <2>4, ProceedKeepsInv DEF ReadOK
<1>7. ASSUME ReadRoots PROVE QueryInv'
  <2> DEFINE q == [query EXCEPT !.at = "roles", !.roots = @ \cap stored]
  <2>1. /\ q \in OpenQuery /\ q.at = "roles" /\ q.user = query.user
        /\ q.roots = query.roots \cap stored
    BY <1>1 DEF OpenQuery, QuerySteps
  <2>2. Proceed(q) /\ query.at = "roots"
    BY <1>7 DEF ReadRoots
  <2> HIDE DEF q
  <2>3. \A h \in seen.kept : h[2] \in query.roots \cap stored
    BY <1>0, <1>2, <1>3, <2>2 DEF KeptOK
  <2> QED
    BY <1>0, <1>2, <2>1, <2>2, <2>3, ProceedKeepsInv DEF ReadOK
<1>8. ASSUME NEW g \in Groups, ReadGroupRoles(g) PROVE QueryInv'
  <2> DEFINE q == [query EXCEPT !.groups = @ \ {g}, !.roots = @ \cup RolesOf(g)]
  <2>1. RolesOf(g) \in SUBSET Roles
    BY DEF RolesOf
  <2>2. /\ q \in OpenQuery /\ q.at = query.at /\ q.user = query.user
        /\ q.roots = query.roots \cup RolesOf(g) /\ q.groups = query.groups \ {g}
    BY <1>1, <2>1 DEF OpenQuery
  <2>3. Proceed(q) /\ query.at = "group_roles" /\ g \in query.groups
    BY <1>8, Zenon DEF ReadGroupRoles
  <2> HIDE DEF q
  <2>4. g \in seen.member \cap seen.active
    BY <1>0, <1>2, <2>3 DEF ReadOK
  <2>5. ASSUME NEW r \in RolesOf(g) PROVE r \in WarrantedRoles
    <3>1. <<g, r>> \in seen.assigned /\ <<g, r>>[1] = g /\ <<g, r>>[2] = r
      BY <1>0, <1>2, <2>5 DEF RolesOf, SeenOK
    <3> QED
      BY <2>4, <3>1 DEF WarrantedRoles
  <2>6. ASSUME NEW h \in seen.kept, h[1] = g PROVE h[2] \in RolesOf(g)
    <3>1. h \in assigned
      BY <1>3, <2>6
    <3>2. h = <<h[1], h[2]>> /\ h[2] \in Roles
      BY <1>2, <3>1 DEF StoreOK
    <3> QED
      BY <2>6, <3>1, <3>2 DEF RolesOf
  <2>7. \A h \in seen.kept : /\ h[1] = query.user => h[2] \in query.roots
                             /\ h[1] \in query.groups \/ h[2] \in query.roots
    BY <1>0, <1>2, <2>3 DEF KeptOK
  <2> QED
    BY <1>0, <1>2, <2>2, <2>3, <2>5, <2>6, <2>7, ProceedKeepsInv DEF ReadOK
<1> QED
  BY <1>4, <1>5, <1>6, <1>7, <1>8

LEMMA QueryInvInductive ==
    (QueryInit => QueryInv) /\ (QueryInv /\ [QueryNext]_queryVars => QueryInv')
<1>1. ASSUME QueryInit PROVE QueryInv
  <2>1. NoQuery.at = "idle"
    BY DEF NoQuery
  <2>2. StoreOK
    BY <1>1 DEF QueryInit, StoreInit, StoreOK, Graph, Acyclic
  <2> QED
    BY <1>1, <2>1, <2>2 DEF QueryInit, QueryInv, GroupsOK, SeenOK, ReadOK, KeptOK, Reading
<1>2. ASSUME QueryInv, QueryNext PROVE QueryInv'
  <2>1. ASSUME Write PROVE QueryInv'
    <3>1. StoreOK'
      BY <1>2, <2>1, StoreSteps DEF Write, QueryInv
    <3>2. GroupsOK'
      BY <1>2, <2>1 DEF Write, QueryInv, GroupsOK, groupVars
    <3> QED
      BY <1>2, <2>1, <3>1, <3>2, WatchKeepsInv DEF Write
  <2>2. ASSUME NEW g \in Groups, ChangeStatus(g) \/ \E u \in Users : ChangeMembership(u, g)
        PROVE  QueryInv'
    <3>1. UNCHANGED <<stored, permissions, parents, assigned, query>> /\ Watch
      BY <2>2 DEF ChangeStatus, ChangeMembership, storeVars
    <3>2. StoreOK'
      BY <1>2, <3>1 DEF QueryInv, StoreOK, Acyclic
    <3>3. GroupsOK'
      BY <1>2, <2>2 DEF QueryInv, GroupsOK, ChangeStatus, ChangeMembership
    <3> QED
      BY <1>2, <3>1, <3>2, <3>3, WatchKeepsInv
  <2>3. ASSUME \/ AnswerCheck \/ AnswerExplain \/ FailRead
               \/ \E target \in Roles : AnswerHasRole(target)
        PROVE  QueryInv'
    <3>1. query'.at \in {"idle", "answered"}
      <4>1. CASE AnswerCheck
        BY <4>1 DEF AnswerCheck, Answer, NoQuery
      <4>2. CASE AnswerExplain
        BY <4>2 DEF AnswerExplain, Answer, NoQuery
      <4>3. CASE FailRead
        BY <4>3 DEF FailRead, NoQuery
      <4>4. ASSUME NEW target \in Roles, AnswerHasRole(target)
            PROVE  query'.at \in {"idle", "answered"}
        BY <4>4 DEF AnswerHasRole, Answer, NoQuery
      <4> QED
        BY <2>3, <4>1, <4>2, <4>3, <4>4
    <3>2. UNCHANGED <<storeVars, groupVars>>
      BY <2>3, Zenon DEF AnswerCheck, AnswerExplain, AnswerHasRole, FailRead, Answer
    <3> QED
      BY <1>2, <3>1, <3>2, EndKeepsInv
  <2> QED
    BY <1>2, <2>1, <2>2, <2>3, AskKeepsInv, ReadsKeepInv
    DEF QueryNext, GroupService, Reader, Questions
<1>3. ASSUME QueryInv, UNCHANGED queryVars PROVE QueryInv'
  BY <1>3 DEF queryVars, storeVars, groupVars, QueryInv, StoreOK, GroupsOK, SeenOK, ReadOK,
     KeptOK, Reading, Holdings, WarrantedRoles, Acyclic
<1> QED
  BY <1>1, <1>2, <1>3

(* Whatever changes while a question is answered, what it has read was so  *)
(* when it was read, and covers what the user has held ever since.         *)
THEOREM QueryInvariant == QuerySpec => []QueryInv
  BY QueryInvInductive, PTL DEF QuerySpec

LEMMA AncestorsOfMore ==
    ASSUME NEW par, NEW few, NEW many, few \subseteq many
    PROVE  /\ Ancestors(par, few) \subseteq Ancestors(par, many)
           /\ PermissionsOf(Ancestors(par, few)) \subseteq PermissionsOf(Ancestors(par, many))
<1>1. Ancestors(par, few) \subseteq Ancestors(par, many)
  BY DEF Ancestors
<1> QED
  BY <1>1 DEF PermissionsOf

(* The answer is what the roles read are and inherit when they are loaded. *)
LEMMA AnswersAre ==
    ASSUME QueryInv, QueryNext, Answering
    PROVE  /\ query.roots \in SUBSET Roles
           /\ query.roots \subseteq WarrantedRoles /\ KeptRoles \subseteq query.roots
           /\ IF query.asks = "has_role"
              THEN /\ query'.permissions = {} /\ query'.target \in Roles
                   /\ query'.path = ResolutionPath(parents, query.roots, query'.target)
              ELSE /\ query'.permissions = PermissionsOf(Ancestors(parents, query.roots))
                   /\ query'.path = <<>>
<1>1. Reading /\ query \in OpenQuery /\ query.at = "roles" /\ query'.at = "answered"
  BY OpenIsReading DEF Answering, Reading
<1>2. query.roots \in SUBSET Roles /\ parents \in Graph
  BY <1>1 DEF OpenQuery, QueryInv, StoreOK
<1>3. query.roots \subseteq WarrantedRoles /\ KeptRoles \subseteq query.roots
  BY <1>1 DEF QueryInv, ReadOK, KeptOK, KeptRoles
<1>4. ASSUME AnswerCheck
      PROVE  /\ query.asks = "check" /\ query'.path = <<>>
             /\ query'.permissions = PermissionsOf(EffectiveRoles(parents, query.roots))
  BY <1>4 DEF AnswerCheck, Answer, NoQuery
<1>5. ASSUME AnswerExplain
      PROVE  /\ query.asks = "explain" /\ query'.path = <<>>
             /\ query'.permissions = Explained(query.roots)
  BY <1>5 DEF AnswerExplain, Answer, NoQuery
<1>6. ASSUME NEW target \in Roles, AnswerHasRole(target)
      PROVE  /\ query.asks = "has_role" /\ query'.permissions = {} /\ query'.target = target
             /\ query'.path = ResolutionPath(parents, query.roots, target)
  BY <1>6 DEF AnswerHasRole, Answer, NoQuery
<1>7. \/ AnswerCheck \/ AnswerExplain \/ \E target \in Roles : AnswerHasRole(target)
  <2>1. NoQuery.at = "idle"
    BY DEF NoQuery
  <2>2. ~Write /\ ~GroupService
    BY <1>1 DEF Write, GroupService, ChangeStatus, ChangeMembership
  <2>3. ~FailRead /\ ~(\E u \in Users, asks \in Questions : Ask(asks, u))
    BY <1>1, <2>1 DEF FailRead, Ask
  <2>4. /\ ~ReadMemberships /\ ~ReadActiveGroups /\ ~EndGroupRoles /\ ~ReadRoots
        /\ \A g \in Groups : ~ReadGroupRoles(g)
    BY <1>1 DEF ReadMemberships, ReadActiveGroups, EndGroupRoles, ReadRoots, ReadGroupRoles
  <2> QED
    BY <2>2, <2>3, <2>4 DEF QueryNext, Reader, Questions
<1>8. EffectiveRoles(parents, query.roots) = Ancestors(parents, query.roots)
  BY <1>2, EffectiveAreReached
<1>9. Explained(query.roots) = PermissionsOf(Ancestors(parents, query.roots))
  <2>1. query.roots \cup InheritedRoles(parents, query.roots) = Ancestors(parents, query.roots)
    BY <1>2, RootsAndInherited
  <2>2. \A U, V : PermissionsOf(U) \cup PermissionsOf(V) = PermissionsOf(U \cup V)
    BY DEF PermissionsOf
  <2> QED
    BY <2>1, <2>2 DEF Explained
<1> QED
  BY <1>2, <1>3, <1>4, <1>5, <1>6, <1>7, <1>8, <1>9

(* Reads torn over several awaits invent nothing: what an answer grants    *)
(* was warranted while it was worked out, however roles, assignments,      *)
(* memberships and groups changed meanwhile.                               *)
THEOREM TornReadsGrantWhatIsWarranted == QuerySpec => GrantsAreWarranted
<1>1. ASSUME QueryInv, [QueryNext]_queryVars, Answering
      PROVE  /\ query'.permissions \subseteq PermissionsOf(Ancestors(parents, WarrantedRoles))
             /\ query'.path # <<>> =>
                   IsPath(parents, WarrantedRoles, query'.target, query'.path)
  <2>1. QueryNext
    BY <1>1 DEF Answering, queryVars
  <2>2. query.roots \in SUBSET Roles /\ query.roots \subseteq WarrantedRoles
    BY <1>1, <2>1, AnswersAre
  <2>3. CASE query.asks # "has_role"
    BY <1>1, <2>1, <2>2, <2>3, AnswersAre, AncestorsOfMore
  <2>4. CASE query.asks = "has_role"
    <3>1. /\ query'.permissions = {} /\ query'.target \in Roles
          /\ query'.path = ResolutionPath(parents, query.roots, query'.target)
      BY <1>1, <2>1, <2>4, AnswersAre
    <3>2. query'.path # <<>> => IsPath(parents, query.roots, query'.target, query'.path)
      BY <1>1, <2>2, <3>1, PathIsRight DEF QueryInv, StoreOK
    <3> QED
      BY <2>2, <3>1, <3>2 DEF IsPath
  <2> QED
    BY <2>3, <2>4
<1> QED
  BY <1>1, QueryInvariant, PTL DEF QuerySpec, GrantsAreWarranted

(* And they miss nothing that stayed: a role the user has held by the same *)
(* assignment ever since he asked counts, with all that it inherits when   *)
(* the roles are loaded.                                                   *)
THEOREM TornReadsMissNothingKept == QuerySpec => NothingKeptIsMissed
<1>1. ASSUME QueryInv, [QueryNext]_queryVars, Answering
      PROVE  LET kept == Ancestors(parents, KeptRoles)
             IN  IF query.asks = "has_role"
                 THEN query'.target \in kept => query'.path # <<>>
                 ELSE PermissionsOf(kept) \subseteq query'.permissions
  <2>1. QueryNext
    BY <1>1 DEF Answering, queryVars
  <2>2. query.roots \in SUBSET Roles /\ KeptRoles \subseteq query.roots
    BY <1>1, <2>1, AnswersAre
  <2>3. CASE query.asks # "has_role"
    BY <1>1, <2>1, <2>2, <2>3, AnswersAre, AncestorsOfMore
  <2>4. CASE query.asks = "has_role"
    <3>1. /\ query'.target \in Roles
          /\ query'.path = ResolutionPath(parents, query.roots, query'.target)
      BY <1>1, <2>1, <2>4, AnswersAre
    <3>2. query'.target \in Ancestors(parents, query.roots) => query'.path # <<>>
      BY <1>1, <2>2, <3>1, PathIsRight DEF QueryInv, StoreOK
    <3> QED
      BY <2>2, <2>4, <3>2, AncestorsOfMore
  <2> QED
    BY <2>3, <2>4
<1> QED
  BY <1>1, QueryInvariant, PTL DEF QuerySpec, NothingKeptIsMissed

-----------------------------------------------------------------------------
(* The handlers.                                                           *)


(* What a request holds is what its next await needs: the strengthening    *)
(* that makes the type invariant inductive.                                *)
JobOK(j) ==
    /\ j \in Job
    /\ j.at \in EditSteps => j.role \in Roles
    /\ j.at \in {"check_name", "save_role", "check_parent", "load_graph"} =>
          j.draft \in RoleDoc
    /\ j.at \in {"check_parent", "load_graph"} => j.parent \in Roles
    /\ j.at \in {"check_role", "check_pair", "save_pair"} =>
          j.role \in Roles /\ j.subject \in Subjects

TypeInv == TypeOK /\ \A w \in Workers : JobOK(job[w])

LEMMA IdleOK == JobOK(Idle)
BY DEF JobOK, Job, Idle, NoDrafts, EditSteps, AssignSteps

(* A step that leaves worker w with a well-formed request and the          *)
(* collections well typed preserves the invariant.                         *)
LEMMA TypedStep ==
    ASSUME TypeInv, NEW w, NEW j, JobOK(j), Become(w, j),
           role' \in [Roles -> RoleDoc \cup {NoRole}],
           assignment' \in [AssignmentIds -> AssignmentDoc \cup {NoAssignment}],
           catalog' \subseteq Permissions,
           issued' \subseteq Roles \cup AssignmentIds
    PROVE  TypeInv'
<1>1. job \in [Workers -> Job] /\ j \in Job
  BY DEF TypeInv, TypeOK, JobOK
<1>2. \A v \in Workers : job'[v] = IF v = w THEN j ELSE job[v]
  BY <1>1 DEF Become
<1>3. job' \in [Workers -> Job]
  BY <1>1 DEF Become
<1>4. \A v \in Workers : JobOK(job'[v])
  BY <1>2 DEF TypeInv
<1>5. \A v \in Workers : JobOK(job[v])'
  BY <1>4 DEF JobOK, Job, RoleDoc, NoRole
<1> QED
  BY <1>3, <1>5 DEF TypeInv, TypeOK

(* Most steps write nothing.                                               *)
LEMMA TypedRead ==
    ASSUME TypeInv, NEW w, NEW j, JobOK(j), Become(w, j),
           UNCHANGED <<role, assignment, catalog, issued>>
    PROVE  TypeInv'
BY TypedStep DEF TypeInv, TypeOK

LEMMA StoredIsDoc ==
    ASSUME TypeInv, NEW r \in Stored
    PROVE  r \in Roles /\ role[r] \in RoleDoc
BY DEF Stored, TypeInv, TypeOK

(* Every change the editing handlers make to a document yields a document. *)
LEMMA DraftTypes ==
    ASSUME NEW d \in RoleDoc
    PROVE  /\ \A p \in Permissions : /\ Permitted(d, p) \in RoleDoc
                                     /\ Forbidden(d, p) \in RoleDoc
           /\ \A p \in Roles : Adopted(d, p) \in RoleDoc /\ Orphaned(d, p) \in RoleDoc
           /\ \A n \in Names : [d EXCEPT !.name = n] \in RoleDoc
BY DEF RoleDoc, Permitted, Forbidden, Adopted, Orphaned

(* The requests the editing handlers build are well formed.                *)
LEMMA ServeOK ==
    ASSUME NEW r \in Roles, NEW d \in RoleDoc, NEW ps \in SUBSET Permissions,
           NEW at \in {"check_name", "save_role", "check_parent", "load_graph"},
           NEW p \in Roles
    PROVE  /\ JobOK([Idle EXCEPT !.at = at, !.role = r, !.parent = p, !.draft = d])
           /\ at \in {"check_name", "save_role"} =>
                 /\ JobOK([Idle EXCEPT !.at = at, !.role = r, !.draft = d])
                 /\ JobOK([Idle EXCEPT !.at = at, !.role = r, !.unlisted = ps,
                                       !.draft = d])
BY DEF JobOK, Job, Idle, NoDrafts, EditSteps, AssignSteps

LEMMA EditTyped ==
    ASSUME TypeInv, NEW w \in Workers, Edit(w)
    PROVE  TypeInv'
<1> DEFINE j == job[w]
<1>0. JobOK(j)
  BY DEF TypeInv
<1>1. ASSUME NEW r \in Roles, NEW n \in Names, NEW ps \in SUBSET Permissions,
             CreateRole(w, r, n, ps)
      PROVE  TypeInv'
  <2> DEFINE d == [name |-> n, permissions |-> ps, parents |-> {}]
             k == [Idle EXCEPT !.at = "save_role", !.role = r, !.unlisted = ps,
                               !.draft = d]
  <2>1. d \in RoleDoc
    BY DEF RoleDoc
  <2>2. JobOK(k)
    BY <2>1, ServeOK
  <2>3. Become(w, k) /\ issued' = issued \cup {r}
        /\ UNCHANGED <<role, assignment, catalog>>
    BY <1>1 DEF CreateRole
  <2> QED
    BY <2>2, <2>3, TypedStep DEF TypeInv, TypeOK
<1>2. ASSUME NEW r \in Roles, NEW n \in Names, UpdateRole(w, r, n)
      PROVE  TypeInv'
  <2>1. role[r] \in RoleDoc /\ [role[r] EXCEPT !.name = n] \in RoleDoc
    BY <1>2, StoredIsDoc, DraftTypes DEF UpdateRole
  <2> QED
    BY <1>2, <2>1, ServeOK, TypedRead DEF UpdateRole, Serve
<1>3. ASSUME NEW r \in Roles, NEW p \in Permissions, AddPermission(w, r, p)
      PROVE  TypeInv'
  <2>1. Permitted(role[r], p) \in RoleDoc
    BY <1>3, StoredIsDoc, DraftTypes DEF AddPermission
  <2>2. {p} \in SUBSET Permissions
    OBVIOUS
  <2>3. JobOK([Idle EXCEPT !.at = "save_role", !.role = r, !.unlisted = {p},
                           !.draft = Permitted(role[r], p)])
    BY <2>1, <2>2, ServeOK
  <2> QED
    BY <1>3, <2>3, TypedRead DEF AddPermission
<1>4. ASSUME NEW r \in Roles, NEW p \in Permissions, RemovePermission(w, r, p)
      PROVE  TypeInv'
  <2>1. Forbidden(role[r], p) \in RoleDoc
    BY <1>4, StoredIsDoc, DraftTypes DEF RemovePermission
  <2> QED
    BY <1>4, <2>1, ServeOK, TypedRead DEF RemovePermission, Serve
<1>5. ASSUME NEW r \in Roles, NEW p \in Roles, AddParent(w, r, p)
      PROVE  TypeInv'
  <2>1. role[r] \in RoleDoc
    BY <1>5, StoredIsDoc DEF AddParent
  <2> QED
    BY <1>5, <2>1, ServeOK, TypedRead DEF AddParent
<1>6. ASSUME NEW r \in Roles, NEW p \in Roles, RemoveParent(w, r, p)
      PROVE  TypeInv'
  <2>1. Orphaned(role[r], p) \in RoleDoc
    BY <1>6, StoredIsDoc, DraftTypes DEF RemoveParent
  <2> QED
    BY <1>6, <2>1, ServeOK, TypedRead DEF RemoveParent, Serve
<1>7. ASSUME NEW r \in Roles, DeleteRole(w, r)
      PROVE  TypeInv'
  <2>1. JobOK([Idle EXCEPT !.at = "purge_assignments", !.role = r,
                           !.draft = NoRole])
    BY DEF JobOK, Job, Idle, NoDrafts, EditSteps, AssignSteps
  <2> QED
    BY <1>7, <2>1, TypedRead DEF DeleteRole, Serve
<1>8. ASSUME NEW c \in Roles, StripChild(w, c)
      PROVE  TypeInv'
  <2>1. JobOK([j EXCEPT !.drafts[c] = NoRole])
    BY <1>0, <1>8 DEF JobOK, Job, StripChild, At
  <2>2. role' \in [Roles -> RoleDoc \cup {NoRole}]
    BY <1>0, <1>8 DEF JobOK, Job, StripChild, TypeInv, TypeOK
  <2>3. Become(w, [j EXCEPT !.drafts[c] = NoRole])
        /\ UNCHANGED <<assignment, catalog, issued>>
    BY <1>8 DEF StripChild
  <2> QED
    BY <2>1, <2>2, <2>3, TypedStep DEF TypeInv, TypeOK
<1>9. ASSUME NEW p \in Permissions, Register(w, p)
      PROVE  TypeInv'
  <2>1. JobOK([j EXCEPT !.unlisted = @ \ {p}])
    BY <1>0, <1>9 DEF JobOK, Job, Register, At
  <2>2. catalog' = catalog \cup {p} /\ UNCHANGED <<role, assignment, issued>>
    BY <1>9 DEF Register
  <2>3. \/ Become(w, Idle)
        \/ Become(w, [j EXCEPT !.unlisted = @ \ {p}])
    BY <1>9 DEF Register, Finish
  <2> QED
    BY <2>1, <2>2, <2>3, IdleOK, TypedStep DEF TypeInv, TypeOK
<1>10. ASSUME CheckName(w) PROVE TypeInv'
  <2>1. JobOK([j EXCEPT !.at = "save_role"])
    BY <1>0, <1>10 DEF JobOK, Job, CheckName, At, EditSteps
  <2> QED
    BY <1>10, <2>1, IdleOK, TypedRead DEF CheckName, Finish
<1>11. ASSUME CheckParent(w) PROVE TypeInv'
  <2>1. JobOK([j EXCEPT !.at = "load_graph"])
    BY <1>0, <1>11 DEF JobOK, Job, CheckParent, At, EditSteps
  <2> QED
    BY <1>11, <2>1, IdleOK, TypedRead DEF CheckParent, Finish
<1>12. ASSUME LoadGraph(w) PROVE TypeInv'
  <2>1. j.role \in Roles /\ j.parent \in Roles /\ j.draft \in RoleDoc
    BY <1>0, <1>12 DEF JobOK, LoadGraph, At, EditSteps
  <2>2. Adopted(j.draft, j.parent) \in RoleDoc
    BY <2>1, DraftTypes
  <2> QED
    BY <1>12, <2>1, <2>2, ServeOK, IdleOK, TypedRead
    DEF LoadGraph, Serve, Finish
<1>13. ASSUME SaveRole(w) PROVE TypeInv'
  <2>1. j.role \in Roles /\ j.draft \in RoleDoc
    BY <1>0, <1>13 DEF JobOK, SaveRole, At, EditSteps
  <2>2. JobOK([j EXCEPT !.at = "register"])
    BY <1>0, <2>1 DEF JobOK, Job, EditSteps
  <2>3. role' \in [Roles -> RoleDoc \cup {NoRole}]
    BY <1>13, <2>1 DEF SaveRole, TypeInv, TypeOK
  <2>4. UNCHANGED <<assignment, catalog, issued>>
        /\ (Become(w, Idle) \/ Become(w, [j EXCEPT !.at = "register"]))
    BY <1>13 DEF SaveRole, Finish
  <2> QED
    BY <2>2, <2>3, <2>4, IdleOK, TypedStep DEF TypeInv, TypeOK
<1>14. ASSUME PurgeAssignments(w) PROVE TypeInv'
  <2>1. JobOK([j EXCEPT !.at = "list_children"])
    BY <1>0, <1>14 DEF JobOK, Job, PurgeAssignments, At, EditSteps
  <2>2. assignment' \in [AssignmentIds -> AssignmentDoc \cup {NoAssignment}]
    BY <1>14 DEF PurgeAssignments, TypeInv, TypeOK
  <2>3. UNCHANGED <<role, catalog, issued>>
        /\ Become(w, [j EXCEPT !.at = "list_children"])
    BY <1>14 DEF PurgeAssignments
  <2> QED
    BY <2>1, <2>2, <2>3, TypedStep DEF TypeInv, TypeOK
<1>15. ASSUME ListChildren(w) PROVE TypeInv'
  <2>1. j.role \in Roles
    BY <1>0, <1>15 DEF JobOK, ListChildren, At, EditSteps
  <2>2. ASSUME NEW c \in Roles PROVE ChildDrafts(j.role)[c] \in RoleDoc \cup {NoRole}
    <3>1. CASE j.role \in role[c].parents
      <4>1. role[c] \in RoleDoc
        BY <3>1 DEF TypeInv, TypeOK, NoRole
      <4> QED
        BY <2>1, <3>1, <4>1, DraftTypes DEF ChildDrafts
    <3>2. CASE j.role \notin role[c].parents
      BY <3>2 DEF ChildDrafts
    <3> QED
      BY <3>1, <3>2
  <2>3. ChildDrafts(j.role) \in [Roles -> RoleDoc \cup {NoRole}]
    BY <2>2 DEF ChildDrafts
  <2>4. JobOK([j EXCEPT !.at = "strip_children", !.drafts = ChildDrafts(j.role)])
    BY <1>0, <2>1, <2>3 DEF JobOK, Job, EditSteps
  <2> QED
    BY <1>15, <2>4, TypedRead DEF ListChildren
<1>16. ASSUME DropRole(w) PROVE TypeInv'
  <2>1. role' \in [Roles -> RoleDoc \cup {NoRole}]
    BY <1>16 DEF DropRole, TypeInv, TypeOK
  <2> QED
    BY <1>16, <2>1, IdleOK, TypedStep DEF DropRole, Finish, TypeInv, TypeOK
<1> QED
  BY <1>1, <1>2, <1>3, <1>4, <1>5, <1>6, <1>7, <1>8, <1>9, <1>10, <1>11,
     <1>12, <1>13, <1>14, <1>15, <1>16 DEF Edit

LEMMA AssignTyped ==
    ASSUME TypeInv, NEW w \in Workers, Assign(w)
    PROVE  TypeInv'
<1> DEFINE j == job[w]
<1>0. JobOK(j)
  BY DEF TypeInv
<1>1. ASSUME NEW s \in Subjects, NEW r \in Roles, NEW a \in AssignmentIds,
             AssignRole(w, s, r, a)
      PROVE  TypeInv'
  <2> DEFINE k == [Idle EXCEPT !.at = "check_pair", !.role = r, !.subject = s,
                               !.id = a]
  <2>1. JobOK(k)
    BY DEF JobOK, Job, Idle, NoDrafts, EditSteps, AssignSteps
  <2>2. Become(w, k) /\ issued' = issued \cup {a}
        /\ UNCHANGED <<role, assignment, catalog>>
    BY <1>1 DEF AssignRole
  <2> QED
    BY <2>1, <2>2, TypedStep DEF TypeInv, TypeOK
<1>2. ASSUME NEW s \in Subjects, NEW r \in Roles, NEW a \in AssignmentIds,
             UpdateAssignment(w, a, s, r)
      PROVE  TypeInv'
  <2>1. JobOK([Idle EXCEPT !.at = "check_role", !.role = r, !.subject = s,
                           !.id = a])
    BY DEF JobOK, Job, Idle, NoDrafts, EditSteps, AssignSteps
  <2> QED
    BY <1>2, <2>1, TypedRead DEF UpdateAssignment
<1>3. ASSUME NEW s \in Subjects, PurgeSubject(w, s) PROVE TypeInv'
  BY <1>3 DEF PurgeSubject, TypeInv, TypeOK, JobOK, Job, RoleDoc, NoRole
<1>4. ASSUME NEW a \in AssignmentIds, UnassignRole(w, a) PROVE TypeInv'
  <2>1. JobOK([Idle EXCEPT !.at = "delete_pair", !.id = a])
    BY DEF JobOK, Job, Idle, NoDrafts, EditSteps, AssignSteps
  <2> QED
    BY <1>4, <2>1, TypedRead DEF UnassignRole
<1>5. ASSUME NEW a \in AssignmentIds, DeleteAssignment(w, a) PROVE TypeInv'
  BY <1>5 DEF DeleteAssignment, TypeInv, TypeOK, JobOK, Job, RoleDoc, NoRole
<1>6. ASSUME CheckRole(w) PROVE TypeInv'
  <2>1. JobOK([j EXCEPT !.at = "check_pair"])
    BY <1>0, <1>6 DEF JobOK, Job, CheckRole, At, EditSteps, AssignSteps
  <2> QED
    BY <1>6, <2>1, IdleOK, TypedRead DEF CheckRole, Finish
<1>7. ASSUME CheckPair(w) PROVE TypeInv'
  <2>1. JobOK([j EXCEPT !.at = "save_pair"])
    BY <1>0, <1>7 DEF JobOK, Job, CheckPair, At, EditSteps, AssignSteps
  <2> QED
    BY <1>7, <2>1, IdleOK, TypedRead DEF CheckPair, Finish
<1>8. ASSUME SavePair(w) PROVE TypeInv'
  <2>1. Requested(w) \in AssignmentDoc
    BY <1>0, <1>8 DEF JobOK, SavePair, At, AssignSteps, Requested, AssignmentDoc
  <2>2. assignment' \in [AssignmentIds -> AssignmentDoc \cup {NoAssignment}]
    BY <1>8, <2>1 DEF SavePair, TypeInv, TypeOK
  <2> QED
    BY <1>8, <2>2, IdleOK, TypedStep DEF SavePair, Finish, TypeInv, TypeOK
<1>9. ASSUME DeletePair(w) PROVE TypeInv'
  <2>1. assignment' \in [AssignmentIds -> AssignmentDoc \cup {NoAssignment}]
    BY <1>9 DEF DeletePair, TypeInv, TypeOK
  <2> QED
    BY <1>9, <2>1, IdleOK, TypedStep DEF DeletePair, Finish, TypeInv, TypeOK
<1> QED
  BY <1>1, <1>2, <1>3, <1>4, <1>5, <1>6, <1>7, <1>8, <1>9 DEF Assign

LEMMA TypeInvInductive ==
    /\ Init => TypeInv
    /\ TypeInv /\ [Next]_vars => TypeInv'
<1>1. Init => TypeInv
  BY IdleOK DEF Init, TypeInv, TypeOK, JobOK
<1>2. ASSUME TypeInv, NEW w \in Workers, Abort(w) PROVE TypeInv'
  BY <1>2, IdleOK, TypedRead DEF Abort, Finish
<1>3. ASSUME TypeInv, UNCHANGED vars PROVE TypeInv'
  BY <1>3 DEF vars, TypeInv, TypeOK, JobOK, Job, RoleDoc, NoRole
<1> QED
  BY <1>1, <1>2, <1>3, EditTyped, AssignTyped, EditorsAreWorkers DEF Next

(* Whatever requests overlap and wherever they stop, the collections hold  *)
(* well-formed documents: no handler of RBACService writes back a document *)
(* it did not read, or an identifier it was not given.                     *)
THEOREM RoleHierarchyTyping == Spec => []TypeOK
<1>1. TypeInv => TypeOK
  BY DEF TypeInv
<1> QED
  BY <1>1, TypeInvInductive, PTL DEF Spec

-----------------------------------------------------------------------------
(* One editor at a time.                                                   *)
OneEditor == \A v, w \in Editors : v = w

Sound == HierarchyAcyclic /\ NoDanglingParents /\ UniqueNames

LEMMA IdleIsCurrent ==
    ASSUME NEW w, job'[w] = Idle
    PROVE  EditorIsCurrent(w)'
BY DEF EditorIsCurrent, Idle, EditSteps, At

(* EditorIsCurrent depends on the roles and on the worker's own request.   *)
LEMMA NothingMoved ==
    ASSUME NEW v, role' = role, job'[v] = job[v], EditorIsCurrent(v)
    PROVE  EditorIsCurrent(v)'
<1>1. Stored' = Stored /\ ParentsOf' = ParentsOf
  BY DEF Stored, ParentsOf
<1>2. NameStaysFree(v) => NameStaysFree(v)'
  BY <1>1 DEF NameStaysFree
<1>3. DraftsAreCurrent(v) => DraftsAreCurrent(v)'
  BY DEF DraftsAreCurrent, Orphaned, NoRole
<1> QED
  BY <1>1, <1>2, <1>3 DEF EditorIsCurrent, At

LEMMA ReadKeepsInv ==
    ASSUME TypeInv, EditorInv, NEW w, NEW j, Become(w, j), role' = role,
           w \in Workers => EditorIsCurrent(w)'
    PROVE  EditorInv'
<1>1. Sound'
  BY DEF EditorInv, Sound, HierarchyAcyclic, NoDanglingParents, UniqueNames,
         ParentsOf, Stored
<1>2. ASSUME NEW v \in Workers, v # w PROVE EditorIsCurrent(v)'
  <2>1. job'[v] = job[v]
    BY <1>2 DEF Become, TypeInv, TypeOK
  <2>2. EditorIsCurrent(v)
    BY DEF EditorInv
  <2> QED
    BY <2>1, <2>2, NothingMoved
<1> QED
  BY <1>1, <1>2 DEF EditorInv, Sound

(* The editor's own write: no other worker is in the middle of an edit.    *)
LEMMA WriteKeepsInv ==
    ASSUME OneEditor, TypeInv, EditorInv, NEW w \in Editors, NEW j,
           Become(w, j), Sound', EditorIsCurrent(w)'
    PROVE  EditorInv'
<1>1. ASSUME NEW v \in Workers, v # w PROVE EditorIsCurrent(v)'
  <2>1. job'[v] = job[v]
    BY <1>1 DEF Become, TypeInv, TypeOK
  <2>2. job[v].at \notin EditSteps
    BY <1>1 DEF EditorInv, EditorIsCurrent, OneEditor
  <2> QED
    BY <2>1, <2>2 DEF EditorIsCurrent, EditSteps, At
<1> QED
  BY <1>1 DEF EditorInv, Sound

LEMMA ParentsType ==
    ASSUME TypeInv
    PROVE  ParentsOf \in Graph
BY DEF TypeInv, TypeOK, ParentsOf, Graph, RoleDoc, NoRole

(* What an editor about to save a document must know about it.             *)
Savable(r, d) ==
    /\ d.parents \subseteq Stored
    /\ Acyclic([ParentsOf EXCEPT ![r] = d.parents])
    /\ \A q \in Stored \ {r} : role[q].name # d.name

(* A request that goes on to save a savable document.                      *)
LEMMA GoingToSave ==
    ASSUME TypeInv, EditorInv, NEW w \in Editors, NEW r \in Roles,
           NEW d \in RoleDoc, NEW j, Become(w, j),
           UNCHANGED <<role, assignment, catalog>>,
           j.at = "save_role", j.role = r, j.draft = d, Savable(r, d)
    PROVE  EditorInv'
<1>0. w \in Workers
  BY EditorsAreWorkers
<1>1. job'[w] = j
  BY <1>0 DEF Become, TypeInv, TypeOK
<1>2. d # NoRole
  BY NoneIsFresh DEF RoleDoc, NoRole
<1>3. Stored' = Stored /\ ParentsOf' = ParentsOf
  BY DEF Stored, ParentsOf
<1>4. NameStaysFree(w)'
  BY <1>1, <1>3 DEF NameStaysFree, Savable
<1>5. EditorIsCurrent(w)'
  BY <1>1, <1>2, <1>3, <1>4 DEF EditorIsCurrent, Savable, EditSteps, At
<1> QED
  BY <1>5, ReadKeepsInv

(* The stored document of a role is savable, and so is any change of its   *)
(* permissions or removal of parents.                                      *)
LEMMA StoredIsSavable ==
    ASSUME TypeInv, EditorInv, NEW r \in Stored, NEW d \in RoleDoc,
           d.name = role[r].name, d.parents \subseteq role[r].parents
    PROVE  Savable(r, d)
<1>0. r \in Roles /\ role[r] \in RoleDoc
  BY StoredIsDoc
<1>1. d.parents \subseteq Stored
  BY DEF EditorInv, NoDanglingParents
<1>2. Acyclic([ParentsOf EXCEPT ![r] = d.parents])
  <2>1. \A x \in Roles : [ParentsOf EXCEPT ![r] = d.parents][x] \subseteq ParentsOf[x]
    BY DEF ParentsOf
  <2> QED
    BY <2>1, FewerParents DEF EditorInv, HierarchyAcyclic
<1>3. \A q \in Stored \ {r} : role[q].name # d.name
  BY DEF EditorInv, UniqueNames
<1> QED
  BY <1>1, <1>2, <1>3 DEF Savable

(* The requests that are ready to save at once.                            *)
LEMMA ImmediateSaves ==
    ASSUME TypeInv, EditorInv, NEW w \in Editors, NEW r \in Roles,
           \/ \E n \in Names, ps \in SUBSET Permissions : CreateRole(w, r, n, ps)
           \/ \E p \in Permissions : AddPermission(w, r, p) \/ RemovePermission(w, r, p)
           \/ \E p \in Roles : RemoveParent(w, r, p)
    PROVE  EditorInv'
<1>1. ASSUME NEW n \in Names, NEW ps \in SUBSET Permissions, CreateRole(w, r, n, ps)
      PROVE  EditorInv'
  <2> DEFINE d == [name |-> n, permissions |-> ps, parents |-> {}]
             j == [Idle EXCEPT !.at = "save_role", !.role = r, !.unlisted = ps,
                               !.draft = d]
  <2>1. d \in RoleDoc
    BY DEF RoleDoc
  <2>2. \A x \in Roles : [ParentsOf EXCEPT ![r] = {}][x] \subseteq ParentsOf[x]
    BY DEF ParentsOf
  <2>3. Savable(r, d)
    BY <1>1, <2>2, FewerParents
    DEF Savable, EditorInv, HierarchyAcyclic, CreateRole, NameFree, Stored
  <2>4. Become(w, j) /\ UNCHANGED <<role, assignment, catalog>>
    BY <1>1 DEF CreateRole
  <2>5. j.at = "save_role" /\ j.role = r /\ j.draft = d
    BY DEF Idle
  <2> QED
    BY <2>1, <2>3, <2>4, <2>5, GoingToSave
<1>2. ASSUME NEW p \in Permissions, AddPermission(w, r, p)
      PROVE  EditorInv'
  <2> DEFINE d == Permitted(role[r], p)
             j == [Idle EXCEPT !.at = "save_role", !.role = r, !.unlisted = {p},
                               !.draft = d]
  <2>1. r \in Stored /\ role[r] \in RoleDoc /\ d \in RoleDoc
    BY <1>2, StoredIsDoc, DraftTypes DEF AddPermission
  <2>2. d.name = role[r].name /\ d.parents = role[r].parents
    BY <2>1 DEF Permitted, RoleDoc
  <2>3. Savable(r, d)
    BY <2>1, <2>2, StoredIsSavable
  <2>4. Become(w, j) /\ UNCHANGED <<role, assignment, catalog>>
    BY <1>2 DEF AddPermission
  <2>5. j.at = "save_role" /\ j.role = r /\ j.draft = d
    BY DEF Idle
  <2> QED
    BY <2>1, <2>3, <2>4, <2>5, GoingToSave
<1>3. ASSUME NEW p \in Permissions, RemovePermission(w, r, p)
      PROVE  EditorInv'
  <2> DEFINE d == Forbidden(role[r], p)
             j == [Idle EXCEPT !.at = "save_role", !.role = r, !.draft = d]
  <2>1. r \in Stored /\ role[r] \in RoleDoc /\ d \in RoleDoc
    BY <1>3, StoredIsDoc, DraftTypes DEF RemovePermission
  <2>2. d.name = role[r].name /\ d.parents = role[r].parents
    BY <2>1 DEF Forbidden, RoleDoc
  <2>3. Savable(r, d)
    BY <2>1, <2>2, StoredIsSavable
  <2>4. Become(w, j) /\ UNCHANGED <<role, assignment, catalog>>
    BY <1>3 DEF RemovePermission, Serve
  <2>5. j.at = "save_role" /\ j.role = r /\ j.draft = d
    BY DEF Idle
  <2> QED
    BY <2>1, <2>3, <2>4, <2>5, GoingToSave
<1>4. ASSUME NEW p \in Roles, RemoveParent(w, r, p)
      PROVE  EditorInv'
  <2> DEFINE d == Orphaned(role[r], p)
             j == [Idle EXCEPT !.at = "save_role", !.role = r, !.draft = d]
  <2>1. r \in Stored /\ role[r] \in RoleDoc /\ d \in RoleDoc
    BY <1>4, StoredIsDoc, DraftTypes DEF RemoveParent
  <2>2. d.name = role[r].name /\ d.parents \subseteq role[r].parents
    BY <2>1 DEF Orphaned, RoleDoc
  <2>3. Savable(r, d)
    BY <2>1, <2>2, StoredIsSavable
  <2>4. Become(w, j) /\ UNCHANGED <<role, assignment, catalog>>
    BY <1>4 DEF RemoveParent, Serve
  <2>5. j.at = "save_role" /\ j.role = r /\ j.draft = d
    BY DEF Idle
  <2> QED
    BY <2>1, <2>3, <2>4, <2>5, GoingToSave
<1> QED
  BY <1>1, <1>2, <1>3, <1>4

(* Renaming: the name is free when it is checked, and still when it is     *)
(* saved.                                                                  *)
LEMMA Renaming ==
    ASSUME TypeInv, EditorInv, NEW w \in Editors,
           \/ \E r \in Roles, n \in Names : UpdateRole(w, r, n)
           \/ CheckName(w)
    PROVE  EditorInv'
<1>0. w \in Workers /\ JobOK(job[w]) /\ EditorIsCurrent(w)
  BY EditorsAreWorkers DEF TypeInv, EditorInv
<1>1. ASSUME NEW r \in Roles, NEW n \in Names, UpdateRole(w, r, n)
      PROVE  EditorInv'
  <2>1. r \in Stored /\ role[r] \in RoleDoc
    BY <1>1, StoredIsDoc DEF UpdateRole
  <2>2. CASE n = role[r].name
    <3> DEFINE j == [Idle EXCEPT !.at = "save_role", !.role = r, !.draft = role[r]]
    <3>1. Become(w, j) /\ UNCHANGED <<role, assignment, catalog>>
      BY <1>1, <2>2 DEF UpdateRole, Serve
    <3>2. j.at = "save_role" /\ j.role = r /\ j.draft = role[r]
      BY DEF Idle
    <3>3. Savable(r, role[r])
      BY <2>1, StoredIsSavable
    <3> QED
      BY <2>1, <3>1, <3>2, <3>3, GoingToSave
  <2>3. CASE n # role[r].name
    <3> DEFINE d == [role[r] EXCEPT !.name = n]
               j == [Idle EXCEPT !.at = "check_name", !.role = r, !.draft = d]
    <3>1. Become(w, j) /\ role' = role
      BY <1>1, <2>3 DEF UpdateRole, Serve
    <3>2. job'[w] = j /\ j.at = "check_name" /\ j.role = r /\ j.draft = d
      BY <1>0, <3>1 DEF Become, Idle, TypeInv, TypeOK
    <3>3. d.parents = role[r].parents /\ d # NoRole
      BY <2>1, NoneIsFresh DEF RoleDoc, NoRole
    <3>4. Savable(r, role[r])
      BY <2>1, StoredIsSavable
    <3>5. Stored' = Stored /\ ParentsOf' = ParentsOf
      BY <3>1 DEF Stored, ParentsOf
    <3>6. EditorIsCurrent(w)'
      BY <3>2, <3>3, <3>4, <3>5 DEF EditorIsCurrent, Savable, EditSteps, At
    <3> QED
      BY <3>1, <3>6, ReadKeepsInv
  <2> QED
    BY <2>2, <2>3
<1>2. ASSUME CheckName(w) PROVE EditorInv'
  <2> DEFINE d == job[w].draft
             r == job[w].role
             j == [job[w] EXCEPT !.at = "save_role"]
  <2>1. r \in Roles /\ d \in RoleDoc
    BY <1>0, <1>2 DEF JobOK, CheckName, At, EditSteps
  <2>2. CASE NameFree(d.name)
    <3>1. Become(w, j) /\ UNCHANGED <<role, assignment, catalog>>
      BY <1>2, <2>2 DEF CheckName
    <3>2. j.at = "save_role" /\ j.role = r /\ j.draft = d
      BY <1>0 DEF JobOK, Job
    <3>3. Savable(r, d)
      BY <1>0, <1>2, <2>2
      DEF Savable, EditorIsCurrent, CheckName, At, NameFree, Stored
    <3> QED
      BY <2>1, <3>1, <3>2, <3>3, GoingToSave
  <2>3. CASE ~NameFree(d.name)
    <3>1. Become(w, Idle) /\ role' = role
      BY <1>2, <2>3 DEF CheckName, Finish
    <3>2. EditorIsCurrent(w)'
      BY <1>0, <3>1, IdleIsCurrent DEF Become, TypeInv, TypeOK
    <3> QED
      BY <3>1, <3>2, ReadKeepsInv
  <2> QED
    BY <2>2, <2>3
<1> QED
  BY <1>1, <1>2

(* Adding a parent: the role that was read is still the stored one when    *)
(* the graph is loaded, so the search answers for the graph that is saved. *)
LEMMA AddingParent ==
    ASSUME TypeInv, EditorInv, NEW w \in Editors,
           \/ \E r, p \in Roles : AddParent(w, r, p)
           \/ CheckParent(w)
           \/ LoadGraph(w)
    PROVE  EditorInv'
<1>0. w \in Workers /\ JobOK(job[w]) /\ EditorIsCurrent(w)
  BY EditorsAreWorkers DEF TypeInv, EditorInv
<1>1. ASSUME Become(w, Idle), role' = role PROVE EditorInv'
  <2>1. EditorIsCurrent(w)'
    BY <1>0, <1>1, IdleIsCurrent DEF Become, TypeInv, TypeOK
  <2> QED
    BY <1>1, <2>1, ReadKeepsInv
<1>2. ASSUME NEW r \in Roles, NEW p \in Roles, AddParent(w, r, p)
      PROVE  EditorInv'
  <2> DEFINE j == [Idle EXCEPT !.at = "check_parent", !.role = r,
                               !.parent = p, !.draft = role[r]]
  <2>1. r \in Stored /\ role[r] \in RoleDoc
    BY <1>2, StoredIsDoc DEF AddParent
  <2>2. Become(w, j) /\ role' = role
    BY <1>2 DEF AddParent
  <2>3. job'[w] = j /\ j.at = "check_parent" /\ j.role = r /\ j.draft = role[r]
        /\ j.parent = p
    BY <1>0, <2>2 DEF Become, Idle, TypeInv, TypeOK
  <2>4. role[r] # NoRole /\ role[r].parents \subseteq Stored
    BY <2>1, NoneIsFresh DEF RoleDoc, NoRole, EditorInv, NoDanglingParents
  <2>5. EditorIsCurrent(w)'
    BY <2>2, <2>3, <2>4 DEF EditorIsCurrent, EditSteps, At, Stored
  <2> QED
    BY <2>2, <2>5, ReadKeepsInv
<1>3. ASSUME CheckParent(w) PROVE EditorInv'
  <2> DEFINE j == [job[w] EXCEPT !.at = "load_graph"]
  <2>1. CASE Become(w, j) /\ role' = role /\ job[w].parent \in Stored
    <3>1. job'[w] = j /\ j.at = "load_graph" /\ j.role = job[w].role
          /\ j.draft = job[w].draft /\ j.parent = job[w].parent
      BY <1>0, <2>1 DEF Become, TypeInv, TypeOK, JobOK, Job
    <3>2. EditorIsCurrent(w)'
      BY <1>0, <1>3, <2>1, <3>1
      DEF EditorIsCurrent, EditSteps, At, Stored, CheckParent
    <3> QED
      BY <2>1, <3>2, ReadKeepsInv
  <2> QED
    BY <1>1, <1>3, <2>1 DEF CheckParent, Finish
<1>4. ASSUME LoadGraph(w) PROVE EditorInv'
  <2> DEFINE r == job[w].role
             p == job[w].parent
             d == Adopted(role[r], p)
             j == [Idle EXCEPT !.at = "save_role", !.role = r, !.draft = d]
  <2>1. r \in Roles /\ p \in Stored /\ job[w].draft = role[r]
        /\ role[r] \in RoleDoc /\ role[r].parents \subseteq Stored
    BY <1>0, <1>4 DEF EditorIsCurrent, JobOK, LoadGraph, At, EditSteps
  <2>2. CASE r \notin Ancestors(ParentsOf, {p})
    <3>1. p \in Roles /\ r \in Stored /\ d \in RoleDoc
      BY <2>1, DraftTypes, NoneIsFresh DEF Stored, RoleDoc, NoRole
    <3>2. d.name = role[r].name /\ d.parents = role[r].parents \cup {p}
      BY <2>1 DEF Adopted, RoleDoc
    <3>3. Acyclic([ParentsOf EXCEPT ![r] = d.parents])
      <4>1. Acyclic(WithParent(ParentsOf, r, p))
        BY <2>1, <2>2, <3>1, SafeParent, ParentsType
        DEF EditorInv, HierarchyAcyclic
      <4>2. WithParent(ParentsOf, r, p) = [ParentsOf EXCEPT ![r] = d.parents]
        BY <2>1, <3>2 DEF WithParent, ParentsOf
      <4> QED
        BY <4>1, <4>2
    <3>4. Savable(r, d)
      BY <2>1, <3>1, <3>2, <3>3 DEF Savable, EditorInv, UniqueNames
    <3>5. Become(w, j) /\ UNCHANGED <<role, assignment, catalog>>
      BY <1>4, <2>1, <2>2 DEF LoadGraph, WouldCreateCycle, Serve
    <3>6. j.at = "save_role" /\ j.role = r /\ j.draft = d
      BY DEF Idle
    <3> QED
      BY <2>1, <3>1, <3>4, <3>5, <3>6, GoingToSave
  <2>3. CASE r \in Ancestors(ParentsOf, {p})
    BY <1>1, <1>4, <2>3 DEF LoadGraph, WouldCreateCycle, Finish
  <2> QED
    BY <2>2, <2>3
<1> QED
  BY <1>2, <1>3, <1>4

LEMMA Saving ==
    ASSUME OneEditor, TypeInv, EditorInv, NEW w \in Editors, SaveRole(w)
    PROVE  EditorInv'
<1> DEFINE r == job[w].role
           d == job[w].draft
<1>0. w \in Workers /\ JobOK(job[w]) /\ EditorIsCurrent(w)
  BY EditorsAreWorkers DEF TypeInv, EditorInv
<1>1. r \in Roles /\ d \in RoleDoc /\ d # NoRole
  BY <1>0, NoneIsFresh DEF SaveRole, At, JobOK, EditSteps, RoleDoc, NoRole
<1>2. \A x \in Roles : role'[x] = IF x = r THEN d ELSE role[x]
  BY <1>1 DEF SaveRole, TypeInv, TypeOK
<1>3. Stored' = Stored \cup {r}
  BY <1>1, <1>2 DEF Stored, NoRole
<1>4. HierarchyAcyclic'
  <2>1. ParentsOf' = [ParentsOf EXCEPT ![r] = d.parents]
    BY <1>1, <1>2 DEF ParentsOf
  <2>2. Acyclic([ParentsOf EXCEPT ![r] = d.parents])
    BY <1>0 DEF SaveRole, At, EditorIsCurrent
  <2> QED
    BY <2>1, <2>2 DEF HierarchyAcyclic, Acyclic
<1>5. NoDanglingParents'
  <2>1. d.parents \subseteq Stored
    BY <1>0 DEF SaveRole, At, EditorIsCurrent
  <2>2. \A x \in Stored' : role'[x].parents \subseteq Stored'
    BY <1>2, <1>3, <2>1 DEF EditorInv, NoDanglingParents, Stored
  <2> QED
    BY <2>2 DEF NoDanglingParents
<1>6. UniqueNames'
  <2>1. \A q \in Stored \ {r} : role[q].name # d.name
    BY <1>0 DEF SaveRole, At, EditorIsCurrent, NameStaysFree
  <2>2. \A x, q \in Stored' : role'[x].name = role'[q].name => x = q
    BY <1>1, <1>2, <1>3, <2>1 DEF EditorInv, UniqueNames, Stored
  <2> QED
    BY <2>2 DEF UniqueNames
<1>7. \/ Become(w, Idle)
      \/ Become(w, [job[w] EXCEPT !.at = "register"])
  BY DEF SaveRole, Finish
<1>8. EditorIsCurrent(w)'
  <2>1. job'[w].at \in {"idle", "register"} /\ job'[w].role \in Roles \cup {None}
        /\ (job'[w].at = "register" => job'[w].role = r)
    BY <1>0, <1>7 DEF Become, TypeInv, TypeOK, Job, Idle
  <2> QED
    BY <1>1, <2>1 DEF EditorIsCurrent, EditSteps, At
<1> QED
  BY <1>4, <1>5, <1>6, <1>7, <1>8, WriteKeepsInv DEF Sound

(* Deleting: the children are listed and stripped before the document      *)
(* goes, and nobody else makes the role a parent meanwhile.                *)
LEMMA Deleting ==
    ASSUME OneEditor, TypeInv, EditorInv, NEW w \in Editors,
           \/ \E r \in Roles : DeleteRole(w, r) \/ StripChild(w, r)
           \/ PurgeAssignments(w)
           \/ ListChildren(w)
           \/ DropRole(w)
    PROVE  EditorInv'
<1> DEFINE gone == job[w].role
<1>0. w \in Workers /\ JobOK(job[w]) /\ EditorIsCurrent(w)
  BY EditorsAreWorkers DEF TypeInv, EditorInv
<1>1. ASSUME NEW r \in Roles, DeleteRole(w, r) PROVE EditorInv'
  <2> DEFINE j == [Idle EXCEPT !.at = "purge_assignments", !.role = r,
                               !.draft = NoRole]
  <2>1. Become(w, j) /\ role' = role
    BY <1>1 DEF DeleteRole, Serve
  <2>2. job'[w] = j /\ j.at = "purge_assignments" /\ j.role = r
    BY <1>0, <2>1 DEF Become, Idle, TypeInv, TypeOK
  <2>3. EditorIsCurrent(w)'
    BY <2>2 DEF EditorIsCurrent, EditSteps, At
  <2> QED
    BY <2>1, <2>3, ReadKeepsInv
<1>2. ASSUME PurgeAssignments(w) PROVE EditorInv'
  <2> DEFINE j == [job[w] EXCEPT !.at = "list_children"]
  <2>1. Become(w, j) /\ role' = role
    BY <1>2 DEF PurgeAssignments
  <2>2. job'[w] = j /\ j.at = "list_children" /\ j.role = gone
    BY <1>0, <2>1 DEF Become, TypeInv, TypeOK, JobOK, Job
  <2>3. gone \in Roles
    BY <1>0, <1>2 DEF JobOK, PurgeAssignments, At, EditSteps
  <2>4. EditorIsCurrent(w)'
    BY <2>2, <2>3 DEF EditorIsCurrent, EditSteps, At
  <2> QED
    BY <2>1, <2>4, ReadKeepsInv
<1>3. ASSUME ListChildren(w) PROVE EditorInv'
  <2> DEFINE j == [job[w] EXCEPT !.at = "strip_children",
                                 !.drafts = ChildDrafts(gone)]
  <2>1. Become(w, j) /\ role' = role
    BY <1>3 DEF ListChildren
  <2>2. job'[w] = j /\ j.at = "strip_children" /\ j.role = gone
        /\ j.drafts = ChildDrafts(gone)
    BY <1>0, <2>1 DEF Become, TypeInv, TypeOK, JobOK, Job
  <2>3. gone \in Roles
    BY <1>0, <1>3 DEF JobOK, ListChildren, At, EditSteps
  <2>4. ASSUME NEW c \in Roles
        PROVE  /\ gone \in role[c].parents => ChildDrafts(gone)[c] # NoRole
               /\ ChildDrafts(gone)[c] # NoRole =>
                     ChildDrafts(gone)[c] = Orphaned(role[c], gone)
    <3>1. CASE gone \in role[c].parents
      <4>1. role[c] \in RoleDoc
        BY <3>1 DEF TypeInv, TypeOK, NoRole
      <4>2. Orphaned(role[c], gone) \in RoleDoc
        BY <2>3, <4>1, DraftTypes
      <4>3. Orphaned(role[c], gone) # NoRole
        BY <4>2, NoneIsFresh DEF RoleDoc, NoRole
      <4> QED
        BY <3>1, <4>3 DEF ChildDrafts
    <3>2. CASE gone \notin role[c].parents
      BY <3>2 DEF ChildDrafts
    <3> QED
      BY <3>1, <3>2
  <2>5. \A c \in Roles :
           /\ gone \in role'[c].parents => job'[w].drafts[c] # NoRole
           /\ job'[w].drafts[c] # NoRole =>
                 job'[w].drafts[c] = Orphaned(role[c], gone)
    BY <2>1, <2>2, <2>4
  <2>6. \A c \in Roles : Orphaned(role[c], gone) = Orphaned(role[c], gone)'
    BY <2>1, <2>2 DEF Orphaned
  <2>7. EditorIsCurrent(w)'
    <3>1. job'[w].at = "strip_children" /\ job'[w].role = gone /\ w \in Editors
      BY <2>2
    <3>2. \A c \in Roles :
             /\ job'[w].role \in role'[c].parents => job'[w].drafts[c] # NoRole
             /\ job'[w].drafts[c] # NoRole =>
                   job'[w].drafts[c] = Orphaned(role'[c], job'[w].role)
      BY <2>1, <2>5, <3>1
    <3>3. DraftsAreCurrent(w)'
      BY <3>2 DEF DraftsAreCurrent, NoRole, Orphaned
    <3> QED
      BY <2>3, <3>1, <3>3 DEF EditorIsCurrent, EditSteps, At
  <2> QED
    BY <2>1, <2>7, ReadKeepsInv
<1>4. ASSUME NEW c \in Roles, StripChild(w, c) PROVE EditorInv'
  <2> DEFINE j == [job[w] EXCEPT !.drafts[c] = NoRole]
  <2>1. Become(w, j)
    BY <1>4 DEF StripChild
  <2>2. job'[w] = j /\ j.at = "strip_children" /\ j.role = gone
        /\ \A x \in Roles : j.drafts[x] = IF x = c THEN NoRole ELSE job[w].drafts[x]
    BY <1>0, <1>4, <2>1 DEF Become, TypeInv, TypeOK, JobOK, Job, StripChild, At
  <2>3. gone \in Roles /\ job[w].drafts[c] = Orphaned(role[c], gone)
        /\ job[w].drafts[c] # NoRole
    BY <1>0, <1>4
    DEF JobOK, StripChild, At, EditSteps, EditorIsCurrent, DraftsAreCurrent
  <2>4. role[c] \in RoleDoc
    <3>1. Orphaned(NoRole, gone) = NoRole
      BY DEF Orphaned, NoRole
    <3> QED
      BY <2>3, <3>1 DEF TypeInv, TypeOK
  <2>5. \A x \in Roles : role'[x] = IF x = c THEN Orphaned(role[c], gone)
                                             ELSE role[x]
    BY <1>4, <2>3 DEF StripChild, TypeInv, TypeOK
  <2>6. \A x \in Roles : /\ role'[x].name = role[x].name
                         /\ role'[x].parents \subseteq role[x].parents
    BY <2>4, <2>5 DEF Orphaned, RoleDoc
  <2>7. Stored' = Stored
    <3>1. role[c] # NoRole /\ role'[c] # NoRole
      BY <2>3, <2>4, <2>5, NoneIsFresh DEF RoleDoc, NoRole
    <3> QED
      BY <2>5, <3>1 DEF Stored, NoRole
  <2>8. HierarchyAcyclic'
    <3>1. \A x \in Roles : ParentsOf'[x] \subseteq ParentsOf[x]
      BY <2>6 DEF ParentsOf
    <3>2. Acyclic(ParentsOf')
      BY <3>1, FewerParents DEF EditorInv, HierarchyAcyclic
    <3> QED
      BY <3>2 DEF HierarchyAcyclic, Acyclic
  <2>9. NoDanglingParents'
    <3>1. \A x \in Stored : role'[x].parents \subseteq Stored
      BY <2>6 DEF EditorInv, NoDanglingParents, Stored
    <3> QED
      BY <2>7, <3>1 DEF NoDanglingParents
  <2>10. UniqueNames'
    <3>1. \A x, q \in Stored : role'[x].name = role'[q].name => x = q
      BY <2>6 DEF EditorInv, UniqueNames, Stored
    <3> QED
      BY <2>7, <3>1 DEF UniqueNames
  <2>11. EditorIsCurrent(w)'
    <3>1. gone \notin Orphaned(role[c], gone).parents
      BY <2>4 DEF Orphaned, RoleDoc
    <3>2. ASSUME NEW x \in Roles
          PROVE  /\ gone \in role'[x].parents => j.drafts[x] # NoRole
                 /\ j.drafts[x] # NoRole => j.drafts[x] = Orphaned(role'[x], gone)
      <4>1. CASE x = c
        BY <2>2, <2>5, <3>1, <4>1
      <4>2. CASE x # c
        <5>1. role'[x] = role[x] /\ j.drafts[x] = job[w].drafts[x]
          BY <2>2, <2>5, <4>2
        <5>2. /\ gone \in role[x].parents => job[w].drafts[x] # NoRole
              /\ job[w].drafts[x] # NoRole =>
                    job[w].drafts[x] = Orphaned(role[x], gone)
          BY <1>0, <1>4 DEF EditorIsCurrent, DraftsAreCurrent, StripChild, At
        <5> QED
          BY <5>1, <5>2
      <4> QED
        BY <4>1, <4>2
    <3>3. DraftsAreCurrent(w)'
      BY <2>2, <3>2 DEF DraftsAreCurrent, NoRole, Orphaned
    <3> QED
      BY <2>2, <2>3, <3>3 DEF EditorIsCurrent, EditSteps, At
  <2> QED
    BY <2>1, <2>8, <2>9, <2>10, <2>11, WriteKeepsInv DEF Sound
<1>5. ASSUME DropRole(w) PROVE EditorInv'
  <2>1. gone \in Roles
    BY <1>0, <1>5 DEF JobOK, DropRole, At, EditSteps
  <2>2. \A x \in Roles : gone \notin role[x].parents
    BY <1>0, <1>5 DEF DropRole, At, EditorIsCurrent, DraftsAreCurrent, NoDrafts
  <2>3. \A x \in Roles : role'[x] = IF x = gone THEN NoRole ELSE role[x]
    BY <1>5 DEF DropRole, TypeInv, TypeOK
  <2>4. Stored' = Stored \ {gone}
    BY <2>3 DEF Stored, NoRole
  <2>5. HierarchyAcyclic'
    <3>1. \A x \in Roles : ParentsOf'[x] \subseteq ParentsOf[x]
      BY <2>3 DEF ParentsOf, NoRole
    <3>2. Acyclic(ParentsOf')
      BY <3>1, FewerParents DEF EditorInv, HierarchyAcyclic
    <3> QED
      BY <3>2 DEF HierarchyAcyclic, Acyclic
  <2>6. NoDanglingParents'
    <3>1. \A x \in Stored \ {gone} : role'[x].parents \subseteq Stored \ {gone}
      BY <2>2, <2>3 DEF EditorInv, NoDanglingParents, Stored
    <3> QED
      BY <2>4, <3>1 DEF NoDanglingParents
  <2>7. UniqueNames'
    <3>1. \A x, q \in Stored \ {gone} : role'[x].name = role'[q].name => x = q
      BY <2>3 DEF EditorInv, UniqueNames, Stored
    <3> QED
      BY <2>4, <3>1 DEF UniqueNames
  <2>8. Become(w, Idle)
    BY <1>5 DEF DropRole, Finish
  <2>9. EditorIsCurrent(w)'
    BY <1>0, <2>8, IdleIsCurrent DEF Become, TypeInv, TypeOK
  <2> QED
    BY <2>5, <2>6, <2>7, <2>8, <2>9, WriteKeepsInv DEF Sound
<1> QED
  BY <1>1, <1>2, <1>3, <1>4, <1>5

LEMMA EditorStep ==
    ASSUME OneEditor, TypeInv, EditorInv, NEW w \in Editors, Edit(w)
    PROVE  EditorInv'
<1>0. w \in Workers /\ EditorIsCurrent(w)
  BY EditorsAreWorkers DEF EditorInv
<1>1. ASSUME NEW p \in Permissions, Register(w, p) PROVE EditorInv'
  <2> DEFINE j == [job[w] EXCEPT !.unlisted = @ \ {p}]
  <2>1. role' = role /\ (Become(w, Idle) \/ Become(w, j))
    BY <1>1 DEF Register, Finish
  <2>2. CASE Become(w, Idle)
    <3>1. EditorIsCurrent(w)'
      BY <1>0, <2>2, IdleIsCurrent DEF Become, TypeInv, TypeOK
    <3> QED
      BY <2>1, <2>2, <3>1, ReadKeepsInv
  <2>3. CASE Become(w, j)
    <3>1. job'[w].at = "register" /\ job'[w].role = job[w].role
      BY <1>0, <1>1, <2>3 DEF Become, TypeInv, TypeOK, Job, Register, At
    <3>2. job[w].role \in Roles
      BY <1>0, <1>1 DEF Register, At, EditorIsCurrent, EditSteps
    <3>3. EditorIsCurrent(w)'
      BY <3>1, <3>2 DEF EditorIsCurrent, EditSteps, At
    <3> QED
      BY <2>1, <2>3, <3>3, ReadKeepsInv
  <2> QED
    BY <2>1, <2>2, <2>3
<1> QED
  BY <1>1, ImmediateSaves, Renaming, AddingParent, Saving, Deleting DEF Edit

(* Requests on assignments neither write roles nor hold drafts of them.    *)
LEMMA AssignStep ==
    ASSUME TypeInv, EditorInv, NEW w \in Workers, Assign(w)
    PROVE  EditorInv'
<1>1. role' = role
  BY DEF Assign, AssignRole, UpdateAssignment, PurgeSubject, UnassignRole,
         DeleteAssignment, CheckRole, CheckPair, SavePair, DeletePair
<1>2. \/ job' = job
      \/ \E j : Become(w, j) /\ j.at \in {"idle"} \cup AssignSteps
  <2>0. job[w] \in Job
    BY DEF TypeInv, TypeOK
  <2>1. Idle.at = "idle"
    BY DEF Idle
  <2>2. ASSUME NEW r, NEW s, NEW a, AssignRole(w, s, r, a)
        PROVE  \E j : Become(w, j) /\ j.at \in AssignSteps
    <3> DEFINE k == [Idle EXCEPT !.at = "check_pair", !.role = r, !.subject = s, !.id = a]
    <3>1. Become(w, k)
      BY <2>2 DEF AssignRole
    <3>2. k.at = "check_pair"
      BY DEF Idle
    <3> QED
      BY <3>1, <3>2 DEF AssignSteps
  <2>3. ASSUME NEW r, NEW s, NEW a, UpdateAssignment(w, a, s, r)
        PROVE  \E j : Become(w, j) /\ j.at \in AssignSteps
    <3> DEFINE k == [Idle EXCEPT !.at = "check_role", !.role = r, !.subject = s, !.id = a]
    <3>1. Become(w, k)
      BY <2>3 DEF UpdateAssignment
    <3>2. k.at = "check_role"
      BY DEF Idle
    <3> QED
      BY <3>1, <3>2 DEF AssignSteps
  <2>4. ASSUME NEW a, UnassignRole(w, a)
        PROVE  \E j : Become(w, j) /\ j.at \in AssignSteps
    <3> DEFINE k == [Idle EXCEPT !.at = "delete_pair", !.id = a]
    <3>1. Become(w, k)
      BY <2>4 DEF UnassignRole
    <3>2. k.at = "delete_pair"
      BY DEF Idle
    <3> QED
      BY <3>1, <3>2 DEF AssignSteps
  <2>5. ASSUME CheckRole(w)
        PROVE  \E j : Become(w, j) /\ j.at \in {"idle"} \cup AssignSteps
    BY <2>0, <2>1, <2>5 DEF CheckRole, Finish, AssignSteps, Job
  <2>6. ASSUME CheckPair(w)
        PROVE  \E j : Become(w, j) /\ j.at \in {"idle"} \cup AssignSteps
    BY <2>0, <2>1, <2>6 DEF CheckPair, Finish, AssignSteps, Job
  <2>7. SavePair(w) \/ DeletePair(w) => Become(w, Idle)
    BY DEF SavePair, DeletePair, Finish
  <2> QED
    BY <2>1, <2>2, <2>3, <2>4, <2>5, <2>6, <2>7
    DEF Assign, PurgeSubject, DeleteAssignment
<1>3. CASE job' = job
  <2>1. \A v \in Workers : EditorIsCurrent(v)'
    BY <1>1, <1>3, NothingMoved DEF EditorInv
  <2>2. Sound'
    BY <1>1 DEF EditorInv, Sound, HierarchyAcyclic, NoDanglingParents,
                UniqueNames, ParentsOf, Stored
  <2> QED
    BY <2>1, <2>2 DEF EditorInv, Sound
<1>4. ASSUME NEW j, Become(w, j), j.at \in {"idle"} \cup AssignSteps
      PROVE  EditorInv'
  <2>1. job'[w] = j
    BY <1>4 DEF Become, TypeInv, TypeOK
  <2>2. EditorIsCurrent(w)'
    BY <1>4, <2>1 DEF EditorIsCurrent, EditSteps, AssignSteps, At
  <2> QED
    BY <1>1, <1>4, <2>2, ReadKeepsInv
<1> QED
  BY <1>2, <1>3, <1>4

(* With one editor, every await of every request keeps the invariant: what *)
(* the editor has read is still what is stored when it writes, whatever    *)
(* the other workers do to assignments and wherever a request is cut off.  *)
THEOREM EditorInvariant ==
    ASSUME OneEditor
    PROVE  Spec => [](TypeInv /\ EditorInv)
<1>1. Init => EditorInv
  <2> SUFFICES ASSUME Init PROVE EditorInv
    OBVIOUS
  <2>1. \A r \in Roles : role[r] = NoRole /\ ParentsOf[r] = {}
    BY DEF Init, ParentsOf, NoRole
  <2>2. HierarchyAcyclic
    BY <2>1 DEF HierarchyAcyclic, Acyclic
  <2>3. NoDanglingParents /\ UniqueNames
    BY <2>1 DEF NoDanglingParents, UniqueNames, Stored
  <2>4. \A w \in Workers : EditorIsCurrent(w)
    BY DEF Init, EditorIsCurrent, Idle, EditSteps, At
  <2> QED
    BY <2>2, <2>3, <2>4 DEF EditorInv
<1>2. TypeInv /\ EditorInv /\ [Next]_vars => EditorInv'
  <2> SUFFICES ASSUME TypeInv, EditorInv, [Next]_vars PROVE EditorInv'
    OBVIOUS
  <2>1. ASSUME NEW w \in Workers, Abort(w) PROVE EditorInv'
    <3>1. Become(w, Idle) /\ role' = role
      BY <2>1 DEF Abort, Finish
    <3>2. EditorIsCurrent(w)'
      BY <3>1, IdleIsCurrent DEF Become, TypeInv, TypeOK
    <3> QED
      BY <3>1, <3>2, ReadKeepsInv
  <2>2. CASE UNCHANGED vars
    <3>1. \A v \in Workers : EditorIsCurrent(v)'
      BY <2>2, NothingMoved DEF vars, EditorInv
    <3>2. Sound'
      BY <2>2 DEF vars, EditorInv, Sound, HierarchyAcyclic, NoDanglingParents,
                  UniqueNames, ParentsOf, Stored
    <3> QED
      BY <3>1, <3>2 DEF EditorInv, Sound
  <2> QED
    BY <2>1, <2>2, EditorStep, AssignStep, EditorsAreWorkers DEF Next
<1> QED
  BY <1>1, <1>2, TypeInvInductive, PTL DEF Spec

(* add_parent never closes a cycle while roles are edited one request at a *)
(* time: the check is made on the graph that the save then changes.        *)
THEOREM OneEditorKeepsHierarchyAcyclic ==
    ASSUME OneEditor
    PROVE  Spec => []HierarchyAcyclic
<1>1. EditorInv => HierarchyAcyclic
  BY DEF EditorInv
<1> QED
  BY <1>1, EditorInvariant, PTL

(* delete_role leaves no role with a deleted parent, wherever it stops.    *)
THEOREM OneEditorLeavesNoDanglingParents ==
    ASSUME OneEditor
    PROVE  Spec => []NoDanglingParents
<1>1. EditorInv => NoDanglingParents
  BY DEF EditorInv
<1> QED
  BY <1>1, EditorInvariant, PTL

(* create_role and update_role keep role names unique.                     *)
THEOREM OneEditorKeepsNamesUnique ==
    ASSUME OneEditor
    PROVE  Spec => []UniqueNames
<1>1. EditorInv => UniqueNames
  BY DEF EditorInv
<1> QED
  BY <1>1, EditorInvariant, PTL

-----------------------------------------------------------------------------
(* One worker at a time, so that assignments do not change either while a  *)
(* role is being deleted, nor roles while one is being assigned.           *)
OneWorker == \A v, w \in Workers : v = w

AssignmentIsCurrent(w) ==
    /\ job[w].at \in {"check_pair", "save_pair"} => job[w].role \in Stored
    /\ job[w].at \in {"list_children", "strip_children"} => AssignmentsTo(job[w].role) = {}

AssignInv == NoDanglingAssignments /\ \A w \in Workers : AssignmentIsCurrent(w)

LEMMA IdleAssigns == ASSUME NEW w, job'[w] = Idle PROVE AssignmentIsCurrent(w)'
BY DEF AssignmentIsCurrent, Idle

LEMMA DocIsRole == ASSUME NEW d \in RoleDoc PROVE d # NoRole
BY NoneIsFresh DEF RoleDoc, NoRole

(* A step that takes no role away and writes no assignment.                *)
LEMMA RolesGrow ==
    ASSUME OneWorker, TypeInv, AssignInv, NEW w \in Workers, NEW j, Become(w, j),
           Stored \subseteq Stored', assignment' = assignment,
           j.at \in {"check_pair", "save_pair"} => j.role \in Stored,
           j.at \in {"list_children", "strip_children"} => AssignmentsTo(j.role) = {}
    PROVE  AssignInv'
<1>1. \A v \in Workers : job'[v] = j
  BY DEF Become, OneWorker, TypeInv, TypeOK
<1>2. NoDanglingAssignments'
  BY DEF AssignInv, NoDanglingAssignments
<1>3. \A v \in Workers : AssignmentIsCurrent(v)'
  BY <1>1 DEF AssignmentIsCurrent, AssignmentsTo
<1> QED
  BY <1>2, <1>3 DEF AssignInv

(* A step that writes no role, and no assignment to one that is not stored. *)
LEMMA PairsChange ==
    ASSUME OneWorker, TypeInv, AssignInv, NEW w \in Workers,
           role' = role, job' = job \/ Become(w, Idle),
           \A a \in AssignmentIds :
              assignment'[a] \in {assignment[a], NoAssignment} \/ assignment'[a].role \in Stored,
           \A v \in Workers : job[v].at \in {"list_children", "strip_children"} =>
              job'[v] # job[v]
    PROVE  AssignInv'
<1>1. Stored' = Stored
  BY DEF Stored
<1>2. NoDanglingAssignments'
  BY <1>1 DEF AssignInv, NoDanglingAssignments
<1>3. \A v \in Workers : job'[v] = job[v] \/ job'[v] = Idle
  BY DEF Become, OneWorker, TypeInv, TypeOK
<1>4. \A v \in Workers : AssignmentIsCurrent(v)'
  BY <1>1, <1>3, IdleAssigns DEF AssignmentIsCurrent, AssignInv
<1> QED
  BY <1>2, <1>4 DEF AssignInv

(* A request on roles that is not a deletion only adds to what is stored.  *)
LEMMA EditorsAssign ==
    ASSUME OneWorker, TypeInv, AssignInv, NEW w \in Workers, Edit(w)
    PROVE  AssignInv'
<1> DEFINE j == job[w]
<1>0. JobOK(j) /\ job \in [Workers -> Job] /\ role \in [Roles -> RoleDoc \cup {NoRole}]
  BY DEF TypeInv, TypeOK
<1>r. ASSUME NEW k, Become(w, k), UNCHANGED <<role, assignment>>,
             k.at \notin {"check_pair", "save_pair", "list_children", "strip_children"}
      PROVE  AssignInv'
  BY <1>r, RolesGrow DEF Stored
<1>1. ASSUME NEW r \in Roles, NEW n \in Names, NEW ps \in SUBSET Permissions,
             CreateRole(w, r, n, ps)
      PROVE  AssignInv'
  BY <1>1, <1>r DEF CreateRole, Idle
<1>2. ASSUME NEW r \in Roles, NEW n \in Names, UpdateRole(w, r, n)
      PROVE  AssignInv'
  BY <1>2, <1>r DEF UpdateRole, Serve, Idle
<1>3. ASSUME NEW r \in Roles, NEW p \in Permissions,
             AddPermission(w, r, p) \/ RemovePermission(w, r, p)
      PROVE  AssignInv'
  BY <1>3, <1>r DEF AddPermission, RemovePermission, Serve, Idle
<1>4. ASSUME NEW r \in Roles, NEW p \in Roles, AddParent(w, r, p) \/ RemoveParent(w, r, p)
      PROVE  AssignInv'
  BY <1>4, <1>r DEF AddParent, RemoveParent, Serve, Idle
<1>5. ASSUME NEW r \in Roles, DeleteRole(w, r) PROVE AssignInv'
  BY <1>5, <1>r DEF DeleteRole, Serve, Idle
<1>6. ASSUME CheckName(w) \/ CheckParent(w) \/ LoadGraph(w) PROVE AssignInv'
  <2>1. j = [j EXCEPT !.at = j.at] /\ \A at : [j EXCEPT !.at = at].at = at
    BY <1>0 DEF Job
  <2> QED
    BY <1>6, <1>r, <2>1 DEF CheckName, CheckParent, LoadGraph, Serve, Finish, Idle
<1>7. ASSUME NEW p \in Permissions, Register(w, p) PROVE AssignInv'
  <2>1. [j EXCEPT !.unlisted = @ \ {p}].at = j.at
    BY <1>0 DEF Job
  <2> QED
    BY <1>7, <1>r, <2>1 DEF Register, At, Finish, Idle
<1>8. CASE SaveRole(w)
  <2>1. j.role \in Roles /\ j.draft \in RoleDoc
    BY <1>8, <1>0 DEF SaveRole, At, JobOK, EditSteps
  <2>2. Stored \subseteq Stored'
    BY <1>8, <1>0, <2>1, DocIsRole DEF SaveRole, Stored
  <2>3. PICK k : Become(w, k) /\ k.at \in {"idle", "register"}
    BY <1>8, <1>0 DEF SaveRole, Finish, Idle, Job
  <2>4. assignment' = assignment
    BY <1>8 DEF SaveRole
  <2> QED
    BY <2>2, <2>3, <2>4, RolesGrow
<1>9. CASE ListChildren(w)
  <2> DEFINE k == [j EXCEPT !.at = "strip_children", !.drafts = ChildDrafts(j.role)]
  <2>1. k.at = "strip_children" /\ k.role = j.role
    BY <1>0 DEF Job
  <2>2. AssignmentsTo(j.role) = {}
    BY <1>9 DEF ListChildren, At, AssignInv, AssignmentIsCurrent
  <2>3. Become(w, k) /\ UNCHANGED <<role, assignment>>
    BY <1>9 DEF ListChildren
  <2> HIDE DEF k
  <2> QED
    BY <2>1, <2>2, <2>3, RolesGrow DEF Stored
<1>10. ASSUME NEW c \in Roles, StripChild(w, c) PROVE AssignInv'
  <2> DEFINE k == [j EXCEPT !.drafts[c] = NoRole]
  <2>1. k.at = "strip_children" /\ k.role = j.role
    BY <1>0, <1>10 DEF Job, StripChild, At
  <2>2. AssignmentsTo(j.role) = {}
    BY <1>10 DEF StripChild, At, AssignInv, AssignmentIsCurrent
  <2>3. Stored \subseteq Stored'
    BY <1>0, <1>10 DEF StripChild, Stored
  <2>4. Become(w, k) /\ assignment' = assignment
    BY <1>10 DEF StripChild
  <2> HIDE DEF k
  <2> QED
    BY <2>1, <2>2, <2>3, <2>4, RolesGrow
<1>11. CASE PurgeAssignments(w)
  <2> DEFINE k == [j EXCEPT !.at = "list_children"]
  <2>1. j.role \in Roles /\ k.at = "list_children" /\ k.role = j.role
    BY <1>0, <1>11 DEF PurgeAssignments, At, JobOK, EditSteps, Job
  <2>2. \A a \in AssignmentIds : /\ assignment'[a] \in {assignment[a], NoAssignment}
                                 /\ assignment'[a].role # j.role \/ assignment'[a] = NoAssignment
    BY <1>11 DEF PurgeAssignments, AssignmentsTo
  <2>3. \A v \in Workers : job'[v] = k
    BY <1>0, <1>11 DEF PurgeAssignments, Become, OneWorker
  <2>4. Stored' = Stored
    BY <1>11 DEF PurgeAssignments, Stored
  <2>5. NoDanglingAssignments'
    BY <2>2, <2>4 DEF NoDanglingAssignments, AssignInv
  <2>6. \A a \in AssignmentIds : assignment'[a].role # j.role
    BY <2>1, <2>2, NoneIsFresh DEF NoAssignment
  <2> HIDE DEF k
  <2>7. \A v \in Workers : AssignmentIsCurrent(v)'
    BY <2>1, <2>3, <2>6 DEF AssignmentIsCurrent, AssignmentsTo
  <2> QED
    BY <2>5, <2>7 DEF AssignInv
<1>12. CASE DropRole(w)
  <2>1. \A v \in Workers : job'[v] = Idle
    BY <1>0, <1>12 DEF DropRole, Finish, Become, OneWorker
  <2>2. \A a \in AssignmentIds : assignment[a].role # j.role
    BY <1>12 DEF DropRole, At, AssignInv, AssignmentIsCurrent, AssignmentsTo
  <2>3. Stored \ {j.role} \subseteq Stored' /\ assignment' = assignment
    BY <1>0, <1>12 DEF DropRole, Stored
  <2>4. NoDanglingAssignments'
    BY <2>2, <2>3 DEF NoDanglingAssignments, AssignInv
  <2> QED
    BY <2>1, <2>4, IdleAssigns DEF AssignInv
<1> QED
  BY <1>1, <1>2, <1>3, <1>4, <1>5, <1>6, <1>7, <1>8, <1>9, <1>10, <1>11, <1>12 DEF Edit

(* Requests on assignments leave the roles alone.                         *)
LEMMA AssignersAssign ==
    ASSUME OneWorker, TypeInv, AssignInv, NEW w \in Workers, Assign(w)
    PROVE  AssignInv'
<1> DEFINE j == job[w]
<1>0. JobOK(j) /\ job \in [Workers -> Job]
  BY DEF TypeInv, TypeOK
<1>r. ASSUME NEW k, Become(w, k), UNCHANGED <<role, assignment>>,
             k.at \in {"check_pair", "save_pair"} => k.role \in Stored,
             k.at \notin {"list_children", "strip_children"}
      PROVE  AssignInv'
  BY <1>r, RolesGrow DEF Stored
<1>w. ASSUME role' = role, job' = job \/ Become(w, Idle),
             j.at \notin {"list_children", "strip_children"},
             \A a \in AssignmentIds :
                assignment'[a] \in {assignment[a], NoAssignment} \/ assignment'[a].role \in Stored
      PROVE  AssignInv'
  <2>1. \A v \in Workers : v = w
    BY DEF OneWorker
  <2> QED
    BY <1>w, <2>1, PairsChange
<1>1. ASSUME NEW s \in Subjects, NEW r \in Roles, NEW a \in AssignmentIds,
             AssignRole(w, s, r, a)
      PROVE  AssignInv'
  BY <1>1, <1>r DEF AssignRole, Idle
<1>2. ASSUME NEW s \in Subjects, NEW r \in Roles, NEW a \in AssignmentIds,
             UpdateAssignment(w, a, s, r)
      PROVE  AssignInv'
  BY <1>2, <1>r DEF UpdateAssignment, Idle
<1>3. ASSUME NEW a \in AssignmentIds, UnassignRole(w, a) PROVE AssignInv'
  BY <1>3, <1>r DEF UnassignRole, Idle
<1>4. ASSUME CheckRole(w) \/ CheckPair(w) PROVE AssignInv'
  <2>1. \A at : [j EXCEPT !.at = at].at = at /\ [j EXCEPT !.at = at].role = j.role
    BY <1>0 DEF Job
  <2>2. At(w, "check_pair") => j.role \in Stored
    BY DEF AssignInv, AssignmentIsCurrent, At
  <2> QED
    BY <1>4, <1>r, <2>1, <2>2 DEF CheckRole, CheckPair, Finish, Idle
<1>5. CASE SavePair(w)
  <2>1. j.role \in Stored
    BY <1>5 DEF SavePair, At, AssignInv, AssignmentIsCurrent
  <2>2. \A a \in AssignmentIds : assignment'[a] = assignment[a] \/ assignment'[a] = Requested(w)
    BY <1>5 DEF SavePair, TypeInv, TypeOK
  <2>3. Requested(w).role = j.role
    BY DEF Requested
  <2> QED
    BY <1>5, <1>w, <2>1, <2>2, <2>3 DEF SavePair, At, Finish
<1>6. CASE DeletePair(w)
  <2>1. \A a \in AssignmentIds : assignment'[a] \in {assignment[a], NoAssignment}
    BY <1>6 DEF DeletePair, TypeInv, TypeOK
  <2> QED
    BY <1>6, <1>w, <2>1 DEF DeletePair, At, Finish
<1>7. ASSUME NEW a \in AssignmentIds, DeleteAssignment(w, a) PROVE AssignInv'
  <2>1. \A b \in AssignmentIds : assignment'[b] \in {assignment[b], NoAssignment}
    BY <1>7 DEF DeleteAssignment, TypeInv, TypeOK
  <2> QED
    BY <1>7, <1>w, <2>1 DEF DeleteAssignment, At
<1>8. ASSUME NEW s \in Subjects, PurgeSubject(w, s) PROVE AssignInv'
  <2>1. \A b \in AssignmentIds : assignment'[b] \in {assignment[b], NoAssignment}
    BY <1>8 DEF PurgeSubject
  <2> QED
    BY <1>8, <1>w, <2>1 DEF PurgeSubject, At
<1> QED
  BY <1>1, <1>2, <1>3, <1>4, <1>5, <1>6, <1>7, <1>8 DEF Assign

(* The assignments and the request in flight keep to stored roles: the role *)
(* to assign is still stored, the one being deleted is assigned no more.   *)
THEOREM AssignInvariant ==
    ASSUME OneWorker
    PROVE  Spec => []AssignInv
<1>1. Init => AssignInv
  BY DEF Init, AssignInv, NoDanglingAssignments, AssignmentIsCurrent, Idle
<1>2. TypeInv /\ AssignInv /\ [Next]_vars => AssignInv'
  <2> SUFFICES ASSUME TypeInv, AssignInv, [Next]_vars PROVE AssignInv'
    OBVIOUS
  <2>1. ASSUME NEW w \in Editors, Edit(w) PROVE AssignInv'
    BY <2>1, EditorsAssign, EditorsAreWorkers
  <2>2. ASSUME NEW w \in Workers, Assign(w) PROVE AssignInv'
    BY <2>2, AssignersAssign
  <2>3. ASSUME NEW w \in Workers, Abort(w) PROVE AssignInv'
    BY <2>3, RolesGrow DEF Abort, Finish, Idle, Stored
  <2>4. CASE UNCHANGED vars
    BY <2>4 DEF vars, AssignInv, NoDanglingAssignments, AssignmentIsCurrent,
                AssignmentsTo, Stored
  <2> QED
    BY <2>1, <2>2, <2>3, <2>4 DEF Next
<1>3. Init => TypeInv
  BY TypeInvInductive
<1> QED
  BY <1>1, <1>2, <1>3, TypeInvInductive, PTL DEF Spec

(* Served one request at a time, no assignment names a role that has been  *)
(* deleted, wherever a request was cut short.                              *)
THEOREM OneWorkerLeavesNoDanglingAssignments ==
    ASSUME OneWorker
    PROVE  Spec => []NoDanglingAssignments
<1>1. AssignInv => NoDanglingAssignments
  BY DEF AssignInv
<1> QED
  BY <1>1, AssignInvariant, PTL

-----------------------------------------------------------------------------
(* The write side implements RoleStore.                                    *)

(* A stored assignment is one of the pairs the abstract store holds.        *)
LEMMA PairOfDoc ==
    ASSUME TypeInv, NEW a \in AssignmentIds, assignment[a] # NoAssignment
    PROVE  /\ assignment[a].subject \in Subjects
           /\ assignment[a].role \in Roles
           /\ <<assignment[a].subject, assignment[a].role>> \in AssignedPairs
BY DEF TypeInv, TypeOK, AssignmentDoc, AssignedPairs

(* Steps that leave the role documents alone leave what is derived alone.   *)
LEMMA RolesUnchanged ==
    ASSUME role' = role, AssignedPairs' = AssignedPairs
    PROVE  UNCHANGED Store!storeVars
BY DEF Store!storeVars, Stored, ParentsOf

(* Replacing one role document replaces its permissions and its parents.    *)
LEMMA FieldsOfChange ==
    ASSUME NEW f, NEW g, NEW r \in Roles, NEW d,
           \A x \in Roles : g[x] = IF x = r THEN d ELSE f[x]
    PROVE  /\ [x \in Roles |-> g[x].parents]
                 = [[x \in Roles |-> f[x].parents] EXCEPT ![r] = d.parents]
           /\ [x \in Roles |-> g[x].permissions]
                 = [[x \in Roles |-> f[x].permissions] EXCEPT ![r] = d.permissions]
OBVIOUS

(* Saving a role whose parents close no cycle is PutRole.                  *)
LEMMA SavedRoleIsPut ==
    ASSUME TypeInv, HierarchyAcyclic', NEW r \in Roles, NEW d \in RoleDoc,
           \A x \in Roles : role'[x] = IF x = r THEN d ELSE role[x],
           assignment' = assignment
    PROVE  Store!StoreNext
<1>1. \A x \in Roles : role'[x] = IF x = r THEN d ELSE role[x]
  OBVIOUS
<1>2. Stored' = Stored \cup {r}
  BY <1>1, DocIsRole DEF Stored, NoRole
<1>3. ParentsOf' = [ParentsOf EXCEPT ![r] = d.parents]
  BY <1>1, FieldsOfChange DEF ParentsOf
<1>4. [x \in Roles |-> role[x].permissions]'
        = [[x \in Roles |-> role[x].permissions] EXCEPT ![r] = d.permissions]
  BY <1>1, FieldsOfChange
<1>5. AssignedPairs' = AssignedPairs
  BY DEF AssignedPairs, NoAssignment
<1>6. Store!Acyclic([ParentsOf EXCEPT ![r] = d.parents])
  BY <1>3 DEF HierarchyAcyclic, Acyclic, Store!Acyclic
<1>7. Store!PutRole(r, d.permissions, d.parents)
  BY <1>2, <1>3, <1>4, <1>5, <1>6 DEF Store!PutRole
<1>8. d.permissions \in SUBSET Permissions /\ d.parents \in SUBSET Roles
  BY DEF RoleDoc
<1> QED
  BY <1>7, <1>8 DEF Store!StoreNext

(* Without its document a stored role has no permissions and no parents.   *)
LEMMA RemovedFields ==
    ASSUME NEW r \in Roles, r \in Stored, assignment' = assignment,
           \A x \in Roles : role'[x] = IF x = r THEN NoRole ELSE role[x]
    PROVE  Store!RemoveRole(r)
<1>0. NoRole.parents = {} /\ NoRole.permissions = {}
  BY DEF NoRole
<1>1. Stored' = Stored \ {r}
  BY DEF Stored, NoRole
<1>2. ParentsOf' = [ParentsOf EXCEPT ![r] = {}]
  BY <1>0, FieldsOfChange DEF ParentsOf
<1>3. [x \in Roles |-> role[x].permissions]'
        = [[x \in Roles |-> role[x].permissions] EXCEPT ![r] = {}]
  BY <1>0, FieldsOfChange
<1>4. AssignedPairs' = AssignedPairs
  BY DEF AssignedPairs, NoAssignment
<1> QED
  BY <1>1, <1>2, <1>3, <1>4 DEF Store!RemoveRole

(* Deleting the document of a role is DropRole.                            *)
LEMMA RemovedRoleIsDropped ==
    ASSUME TypeInv, NEW r \in Roles,
           role' = [role EXCEPT ![r] = NoRole], assignment' = assignment
    PROVE  Store!StoreNext \/ UNCHANGED Store!storeVars
<1>1. \A x \in Roles : role'[x] = IF x = r THEN NoRole ELSE role[x]
  BY DEF TypeInv, TypeOK
<1>2. CASE r \in Stored
  BY <1>1, <1>2, RemovedFields DEF Store!StoreNext
<1>3. CASE r \notin Stored
  <2>1. role' = role
    BY <1>3 DEF Stored, TypeInv, TypeOK
  <2>2. AssignedPairs' = AssignedPairs
    BY DEF AssignedPairs, NoAssignment
  <2> QED
    BY <2>1, <2>2, RolesUnchanged
<1> QED
  BY <1>2, <1>3

(* Deleting documents removes the pairs no other document holds.           *)
LEMMA DroppedPairs ==
    ASSUME TypeInv, role' = role, NEW gone \in SUBSET AssignmentIds, NEW P,
           assignment' = [a \in AssignmentIds |->
                            IF a \in gone THEN NoAssignment ELSE assignment[a]],
           \A a \in AssignmentIds : assignment[a] # NoAssignment =>
              (a \in gone <=> <<assignment[a].subject, assignment[a].role>> \in P)
    PROVE  Store!RemovePairs(P) \/ UNCHANGED Store!storeVars
<1>1. AssignedPairs' = AssignedPairs \ P
  <2>1. ASSUME NEW p \in AssignedPairs \ P PROVE p \in AssignedPairs'
    BY <2>1 DEF AssignedPairs
  <2>2. ASSUME NEW p \in AssignedPairs' PROVE p \in AssignedPairs \ P
    <3>1. PICK a \in AssignmentIds :
             assignment'[a] # NoAssignment
             /\ p = <<assignment'[a].subject, assignment'[a].role>>
      BY <2>2 DEF AssignedPairs, NoAssignment
    <3>2. a \notin gone /\ assignment'[a] = assignment[a]
      BY <3>1
    <3> QED
      BY <3>1, <3>2 DEF AssignedPairs
  <2> QED
    BY <2>1, <2>2
<1>2. CASE P \cap AssignedPairs # {}
  BY <1>1, <1>2 DEF Store!RemovePairs, Stored, ParentsOf
<1>3. CASE P \cap AssignedPairs = {}
  BY <1>1, <1>3, RolesUnchanged
<1> QED
  BY <1>2, <1>3

(* Saving an assignment is Assign, in place of the pair it was before.      *)
LEMMA SavedPairIsAssigned ==
    ASSUME TypeInv, NEW w \in Workers, SavePair(w)
    PROVE  Store!StoreNext \/ UNCHANGED Store!storeVars
<1> DEFINE a == job[w].id
           new == Requested(w)
           Others == {<<assignment[x].subject, assignment[x].role>> :
                         x \in {y \in AssignmentIds \ {a} : assignment[y] # NoAssignment}}
<1>0. role' = role
  BY DEF SavePair
<1>1. new.subject \in Subjects /\ new.role \in Roles /\ new # NoAssignment
  BY NoneIsFresh DEF TypeInv, JobOK, SavePair, At, Requested, NoAssignment
<1>2. CASE HeldElsewhere(w) \/ a \notin AssignmentIds
  <2>1. assignment' = assignment
    BY <1>2 DEF SavePair, TypeInv, TypeOK
  <2> QED
    BY <1>0, <2>1, RolesUnchanged DEF AssignedPairs, NoAssignment
<1>3. CASE ~HeldElsewhere(w) /\ a \in AssignmentIds
  <2>1. \A x \in AssignmentIds : assignment'[x] = IF x = a THEN new ELSE assignment[x]
    BY <1>3 DEF SavePair, TypeInv, TypeOK
  <2>2. AssignedPairs' = Others \cup {<<new.subject, new.role>>}
    <3>1. ASSUME NEW p \in AssignedPairs' PROVE p \in Others \cup {<<new.subject, new.role>>}
      <4>1. PICK x \in AssignmentIds :
               assignment'[x] # NoAssignment
               /\ p = <<assignment'[x].subject, assignment'[x].role>>
        BY <3>1 DEF AssignedPairs, NoAssignment
      <4> QED
        BY <2>1, <4>1
    <3>2. ASSUME NEW p \in Others PROVE p \in AssignedPairs'
      <4>1. PICK x \in AssignmentIds \ {a} :
               assignment[x] # NoAssignment
               /\ p = <<assignment[x].subject, assignment[x].role>>
        BY <3>2
      <4>2. assignment'[x] = assignment[x]
        BY <2>1
      <4> QED
        BY <4>1, <4>2 DEF AssignedPairs, NoAssignment
    <3>3. <<new.subject, new.role>> \in AssignedPairs'
      <4>1. assignment'[a] = new
        BY <1>3, <2>1
      <4> QED
        BY <1>1, <1>3, <4>1 DEF AssignedPairs, NoAssignment
    <3> QED
      BY <3>1, <3>2, <3>3
  <2>3. CASE assignment[a] = NoAssignment \/ <<assignment[a].subject, assignment[a].role>> \in Others
    <3>1. AssignedPairs = Others
      BY <1>3, <2>3 DEF AssignedPairs
    <3>2. Store!AssignPair(new.subject, new.role, {})
      BY <1>0, <2>2, <3>1 DEF Store!AssignPair, Stored, ParentsOf
    <3> QED
      BY <1>1, <3>2 DEF Store!StoreNext
  <2>4. CASE assignment[a] # NoAssignment /\ <<assignment[a].subject, assignment[a].role>> \notin Others
    <3> DEFINE t == assignment[a].subject
               q == assignment[a].role
    <3>1. AssignedPairs = Others \cup {<<t, q>>}
      BY <1>3, <2>4 DEF AssignedPairs
    <3>2. t \in Subjects /\ q \in Roles
      BY <1>3, <2>4, PairOfDoc
    <3>3. AssignedPairs \ {<<t, q>>} = Others
      BY <2>4, <3>1
    <3>4. Store!AssignPair(new.subject, new.role, Store!PairsOf(t, q))
      <4> HIDE DEF Others, new, t, q
      <4> QED
        BY <1>0, <2>2, <3>1, <3>3 DEF Store!AssignPair, Store!PairsOf, Stored, ParentsOf
    <3> QED
      BY <1>1, <3>2, <3>4 DEF Store!StoreNext
  <2> QED
    BY <2>3, <2>4
<1> QED
  BY <1>2, <1>3

(* Requests on assignments.                                                *)
LEMMA AssignMaps ==
    ASSUME TypeInv, NEW w \in Workers, Assign(w)
    PROVE  Store!StoreNext \/ UNCHANGED Store!storeVars
<1>1. CASE role' = role /\ assignment' = assignment
  BY <1>1, RolesUnchanged DEF AssignedPairs, NoAssignment
<1>2. ASSUME NEW a \in AssignmentIds, role' = role,
             assignment' = [assignment EXCEPT ![a] = NoAssignment]
      PROVE  Store!StoreNext \/ UNCHANGED Store!storeVars
  <2> DEFINE pair(x) == <<assignment[x].subject, assignment[x].role>>
  <2>1. CASE assignment[a] = NoAssignment
    <3>1. assignment' = assignment
      BY <1>2, <2>1 DEF TypeInv, TypeOK
    <3> QED
      BY <1>1, <1>2, <3>1
  <2>2. CASE \E b \in AssignmentIds \ {a} : assignment[b] # NoAssignment /\ pair(b) = pair(a)
    <3>1. \A x \in AssignmentIds :
             assignment'[x] = IF x = a THEN NoAssignment ELSE assignment[x]
      BY <1>2 DEF TypeInv, TypeOK
    <3>2. ASSUME NEW p \in AssignedPairs PROVE p \in AssignedPairs'
      <4>1. PICK x \in AssignmentIds : assignment[x] # NoAssignment /\ p = pair(x)
        BY DEF AssignedPairs
      <4>2. PICK y \in AssignmentIds \ {a} : assignment[y] # NoAssignment /\ p = pair(y)
        BY <2>2, <4>1
      <4>3. assignment'[y] = assignment[y]
        BY <3>1
      <4> QED
        BY <4>2, <4>3 DEF AssignedPairs, NoAssignment
    <3>3. ASSUME NEW p \in AssignedPairs' PROVE p \in AssignedPairs
      <4>1. PICK x \in AssignmentIds :
               assignment'[x] # NoAssignment
               /\ p = <<assignment'[x].subject, assignment'[x].role>>
        BY <3>3 DEF AssignedPairs, NoAssignment
      <4> QED
        BY <3>1, <4>1 DEF AssignedPairs
    <3> QED
      BY <1>2, <3>2, <3>3, RolesUnchanged
  <2>3. CASE /\ assignment[a] # NoAssignment
             /\ ~\E b \in AssignmentIds \ {a} : assignment[b] # NoAssignment /\ pair(b) = pair(a)
    <3>1. assignment' = [x \in AssignmentIds |->
                           IF x \in {a} THEN NoAssignment ELSE assignment[x]]
      BY <1>2 DEF TypeInv, TypeOK
    <3>2. \A x \in AssignmentIds : assignment[x] # NoAssignment =>
             (x \in {a} <=> pair(x) \in Store!PairsOf(assignment[a].subject, assignment[a].role))
      BY <2>3 DEF Store!PairsOf
    <3>3. Store!RemovePairs(Store!PairsOf(assignment[a].subject, assignment[a].role))
          \/ UNCHANGED Store!storeVars
      BY <1>2, <3>1, <3>2, DroppedPairs
    <3>4. assignment[a].subject \in Subjects /\ assignment[a].role \in Roles
      BY <2>3, PairOfDoc
    <3> QED
      BY <3>3, <3>4 DEF Store!StoreNext
  <2> QED
    BY <2>1, <2>2, <2>3
<1>3. ASSUME NEW s \in Subjects, PurgeSubject(w, s)
      PROVE  Store!StoreNext \/ UNCHANGED Store!storeVars
  <2> DEFINE gone == {a \in AssignmentIds : assignment[a].subject = s}
  <2>1. assignment' = [a \in AssignmentIds |->
                         IF a \in gone THEN NoAssignment ELSE assignment[a]]
    BY <1>3 DEF PurgeSubject
  <2>2. \A a \in AssignmentIds : assignment[a] # NoAssignment =>
           (a \in gone <=> <<assignment[a].subject, assignment[a].role>> \in Store!PairsWithSubject(s))
    BY PairOfDoc DEF Store!PairsWithSubject
  <2>3. Store!RemovePairs(Store!PairsWithSubject(s)) \/ UNCHANGED Store!storeVars
    BY <1>3, <2>1, <2>2, DroppedPairs DEF PurgeSubject
  <2> QED
    BY <2>3 DEF Store!StoreNext
<1>4. ASSUME DeletePair(w) PROVE Store!StoreNext \/ UNCHANGED Store!storeVars
  <2>1. CASE job[w].id \in AssignmentIds
    BY <1>2, <1>4, <2>1 DEF DeletePair
  <2>2. CASE job[w].id \notin AssignmentIds
    <3>1. assignment' = assignment
      BY <1>4, <2>2 DEF DeletePair, TypeInv, TypeOK
    <3> QED
      BY <1>1, <1>4, <3>1 DEF DeletePair
  <2> QED
    BY <2>1, <2>2
<1>5. ASSUME NEW a \in AssignmentIds, DeleteAssignment(w, a)
      PROVE  Store!StoreNext \/ UNCHANGED Store!storeVars
  BY <1>2, <1>5 DEF DeleteAssignment
<1> QED
  BY <1>1, <1>3, <1>4, <1>5, SavedPairIsAssigned
  DEF Assign, AssignRole, UpdateAssignment, UnassignRole, CheckRole, CheckPair

(* Requests on roles.                                                      *)
LEMMA EditMaps ==
    ASSUME OneEditor, TypeInv, EditorInv, EditorInv', NEW w \in Editors, Edit(w)
    PROVE  Store!StoreNext \/ UNCHANGED Store!storeVars
<1> DEFINE r == job[w].role
<1>0. w \in Workers /\ JobOK(job[w]) /\ EditorIsCurrent(w) /\ HierarchyAcyclic'
  BY EditorsAreWorkers DEF TypeInv, EditorInv
<1>1. CASE role' = role /\ assignment' = assignment
  BY <1>1, RolesUnchanged DEF AssignedPairs, NoAssignment
<1>2. ASSUME SaveRole(w) PROVE Store!StoreNext
  <2>1. r \in Roles /\ job[w].draft \in RoleDoc
    BY <1>0, <1>2 DEF SaveRole, At, JobOK, EditSteps
  <2>2. \A x \in Roles : role'[x] = IF x = r THEN job[w].draft ELSE role[x]
    BY <1>2, <2>1 DEF SaveRole, TypeInv, TypeOK
  <2>3. assignment' = assignment
    BY <1>2 DEF SaveRole
  <2> QED
    BY <1>0, <2>1, <2>2, <2>3, SavedRoleIsPut
<1>3. ASSUME NEW c \in Roles, StripChild(w, c) PROVE Store!StoreNext
  <2> DEFINE d == job[w].drafts[c]
  <2>1. r \in Roles /\ d = Orphaned(role[c], r) /\ d # NoRole
    BY <1>0, <1>3 DEF JobOK, StripChild, At, EditSteps, EditorIsCurrent, DraftsAreCurrent
  <2>2. role[c] \in RoleDoc
    <3>1. Orphaned(NoRole, r) = NoRole
      BY DEF Orphaned, NoRole
    <3> QED
      BY <2>1, <3>1 DEF TypeInv, TypeOK
  <2>3. d \in RoleDoc
    BY <2>1, <2>2, DraftTypes
  <2>4. \A x \in Roles : role'[x] = IF x = c THEN d ELSE role[x]
    BY <1>3 DEF StripChild, TypeInv, TypeOK
  <2>5. assignment' = assignment
    BY <1>3 DEF StripChild
  <2> QED
    BY <1>0, <2>3, <2>4, <2>5, SavedRoleIsPut
<1>4. ASSUME DropRole(w) PROVE Store!StoreNext \/ UNCHANGED Store!storeVars
  <2>1. r \in Roles
    BY <1>0, <1>4 DEF JobOK, DropRole, At, EditSteps
  <2> QED
    BY <1>4, <2>1, RemovedRoleIsDropped DEF DropRole
<1>5. ASSUME PurgeAssignments(w)
      PROVE  Store!StoreNext \/ UNCHANGED Store!storeVars
  <2>1. r \in Roles
    BY <1>0, <1>5 DEF JobOK, PurgeAssignments, At, EditSteps
  <2>2. assignment' = [a \in AssignmentIds |->
                         IF a \in AssignmentsTo(r) THEN NoAssignment ELSE assignment[a]]
    BY <1>5 DEF PurgeAssignments
  <2>3. \A a \in AssignmentIds : assignment[a] # NoAssignment =>
           (a \in AssignmentsTo(r) <=>
              <<assignment[a].subject, assignment[a].role>> \in Store!PairsWithRole(r))
    BY PairOfDoc DEF AssignmentsTo, Store!PairsWithRole
  <2>4. Store!RemovePairs(Store!PairsWithRole(r)) \/ UNCHANGED Store!storeVars
    BY <1>5, <2>2, <2>3, DroppedPairs DEF PurgeAssignments, AssignmentsTo
  <2> QED
    BY <2>1, <2>4 DEF Store!StoreNext
<1> QED
  BY <1>1, <1>2, <1>3, <1>4, <1>5
  DEF Edit, CreateRole, UpdateRole, AddPermission, RemovePermission, AddParent,
      RemoveParent, DeleteRole, Register, CheckName, CheckParent, LoadGraph, ListChildren

(* With one editor the requests on roles and assignments, cut into awaits   *)
(* and interleaved, look from outside like the store the read side relies  *)
(* on: documents change one at a time and no cycle of parents is saved.    *)
THEOREM OneEditorImplementsStore ==
    ASSUME OneEditor
    PROVE  Spec => StoreImplemented
<1>1. Init => Store!StoreInit
  <2> SUFFICES ASSUME Init PROVE Store!StoreInit
    OBVIOUS
  <2>1. \A r \in Roles : role[r] = NoRole
    BY DEF Init
  <2>2. NoRole.parents = {} /\ NoRole.permissions = {}
    BY DEF NoRole
  <2>3. Stored = {} /\ AssignedPairs = {}
    BY <2>1 DEF Init, Stored, AssignedPairs, NoAssignment
  <2> QED
    BY <2>1, <2>2, <2>3 DEF Store!StoreInit, ParentsOf
<1>2. TypeInv /\ EditorInv /\ EditorInv' /\ [Next]_vars
         => [Store!StoreNext]_(Store!storeVars)
  <2> SUFFICES ASSUME TypeInv, EditorInv, EditorInv', [Next]_vars
               PROVE  Store!StoreNext \/ UNCHANGED Store!storeVars
    OBVIOUS
  <2>1. CASE role' = role /\ assignment' = assignment
    BY <2>1, RolesUnchanged DEF AssignedPairs, NoAssignment
  <2> QED
    BY <2>1, EditMaps, AssignMaps DEF Next, Abort, vars
<1> QED
  BY <1>1, <1>2, EditorInvariant, PTL DEF Spec, StoreImplemented, Store!StoreSpec

==============================================================================
