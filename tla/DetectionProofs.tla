-------------------------- MODULE DetectionProofs ---------------------------
(***************************************************************************)
(* Proofs about what detection relies on.                                  *)
(*                                                                         *)
(* GraphSearch: for every set of services and every graph on them the      *)
(* search is exact, the two directions of the graph agree, and the ranking *)
(* of roots puts a shared dependency first.                                *)
(*                                                                         *)
(* AlertRules: for any number of workers, rules and services, and whatever *)
(* is changed, resolved and rolled back in the meantime, no alert is       *)
(* committed without an incident, and none comes back or moves.            *)
(***************************************************************************)
EXTENDS AlertRules, GraphSearch, FiniteSetTheorems, SequenceTheorems, WellFoundedInduction, TLAPS

-----------------------------------------------------------------------------
(***************************************************************************)
(* Reachability                                                            *)
(***************************************************************************)

\* Whatever is reachable is in every closed set with the neighbours in it.
LEMMA ReachableIsLeast ==
  ASSUME NEW s \in Service, NEW g \in Graphs, NEW S \in SUBSET Service,
         g[s] \subseteq S, Closed(S, g)
  PROVE  Reachable(s, g) \subseteq S
BY DEF Reachable

\* And it is itself such a set.
LEMMA ReachableIsClosed ==
  ASSUME NEW s \in Service, NEW g \in Graphs
  PROVE  g[s] \subseteq Reachable(s, g) /\ Closed(Reachable(s, g), g)
<1>1. g[s] \subseteq Reachable(s, g)
  BY DEF Reachable, Graphs
<1>2. ASSUME NEW m \in Reachable(s, g), NEW n \in g[m]
      PROVE  n \in Reachable(s, g)
  BY <1>2 DEF Reachable, Graphs, Closed
<1> QED BY <1>1, <1>2 DEF Closed

\* A service is among the dependents of whatever it reaches: the blast radius of one
\* service and the dependencies of the other tell the same story.
THEOREM DirectionsAgree ==
  ASSUME NEW g \in Graphs, NEW s \in Service, NEW n \in Service
  PROVE  n \in Closure(s, g) <=> s \in Closure(n, Dependents(g))
<1> DEFINE d == Dependents(g)
<1>0. d \in Graphs /\ \A a, b \in Service : a \in d[b] <=> b \in g[a]
  BY DEF Dependents, Graphs
<1>1. ASSUME NEW h \in Graphs, NEW k \in Graphs, \A a, b \in Service : a \in k[b] <=> b \in h[a],
             NEW a \in Service, NEW b \in Reachable(a, h)
      PROVE  a \in Reachable(b, k)
  <2> DEFINE S == {m \in Service : a \in Reachable(m, k)}
  <2>1. h[a] \subseteq S
    <3> SUFFICES ASSUME NEW m \in h[a] PROVE m \in S
      OBVIOUS
    <3>1. m \in Service /\ a \in k[m]
      BY <1>1 DEF Graphs
    <3> QED BY <3>1, ReachableIsClosed, <1>1
  <2>2. ASSUME NEW m \in S, NEW n1 \in h[m] PROVE n1 \in S
    <3>1. n1 \in Service /\ m \in k[n1]
      BY <1>1 DEF Graphs
    <3>2. k[n1] \subseteq Reachable(n1, k) /\ Closed(Reachable(n1, k), k)
      BY <3>1, ReachableIsClosed, <1>1
    <3>3. k[m] \subseteq Reachable(n1, k)
      BY <3>1, <3>2 DEF Closed
    <3>4. Reachable(n1, k) \in SUBSET Service
      BY DEF Reachable
    <3>5. Reachable(m, k) \subseteq Reachable(n1, k)
      BY <3>2, <3>3, <3>4, ReachableIsLeast, <1>1
    <3> QED BY <3>1, <3>5
  <2>3. Reachable(a, h) \subseteq S
    <3> HIDE DEF S
    <3> QED BY <2>1, <2>2, ReachableIsLeast, <1>1 DEF Closed, S
  <2> QED BY <2>3, <1>1
<1>2. n \in Reachable(s, g) => s \in Reachable(n, d)
  BY <1>0, <1>1
<1>3. s \in Reachable(n, d) => n \in Reachable(s, g)
  <2>1. \A a, b \in Service : a \in g[b] <=> b \in d[a]
    BY <1>0
  <2> HIDE DEF d
  <2> QED BY <1>0, <1>1, <2>1
<1> QED BY <1>2, <1>3 DEF Closure

\* Of impacted services of which all the others depend on one that depends on none of
\* them, that one scores higher than every other: the deepest shared dependency.
THEOREM SharedDependencyIsRoot ==
  ASSUME NEW g \in Graphs, NEW impacted \in SUBSET Service, IsFiniteSet(impacted),
         NEW root \in impacted, impacted \cap Closure(root, g) = {},
         NEW s \in impacted, s # root,
         \A o \in impacted \ {root} : root \in Closure(o, g)
  PROVE  Score(root, impacted, g) > Score(s, impacted, g)
<1> DEFINE above(n) == impacted \cap Closure(n, Dependents(g))
           below(n) == impacted \cap Closure(n, g)
<1>1. above(root) = impacted \ {root}
  <2>1. \A o \in impacted \ {root} : o \in Closure(root, Dependents(g))
    BY DirectionsAgree
  <2> QED BY <2>1 DEF Closure
<1>2. above(s) \subseteq impacted \ {s} /\ root \in below(s) /\ below(root) = {}
  BY DEF Closure
<1>3. Cardinality(above(root)) = Cardinality(impacted) - 1 /\ Cardinality(impacted) \in Nat
  BY <1>1, FS_RemoveElement, FS_CardinalityType
<1>4. Cardinality(above(s)) \in Nat /\ Cardinality(above(s)) <= Cardinality(impacted) - 1
  <2>1. IsFiniteSet(impacted \ {s}) /\ Cardinality(impacted \ {s}) = Cardinality(impacted) - 1
    BY FS_RemoveElement
  <2>2. IsFiniteSet(above(s)) /\ Cardinality(above(s)) <= Cardinality(impacted \ {s})
    BY <1>2, <2>1, FS_Subset
  <2> QED BY <2>1, <2>2, FS_CardinalityType
<1>5. Cardinality(below(s)) \in Nat /\ Cardinality(below(s)) >= 1
  <2>1. IsFiniteSet(below(s))
    BY FS_Subset
  <2>2. Cardinality(below(s)) \in Nat /\ Cardinality(below(s)) # 0
    BY <2>1, <1>2, FS_CardinalityType, FS_EmptySet
  <2> QED BY <2>2
<1>6. Cardinality(below(root)) = 0
  BY <1>2, FS_EmptySet
<1> HIDE DEF above, below
<1>7. Score(root, impacted, g) = 2 * Cardinality(above(root)) - Cardinality(below(root))
      /\ Score(s, impacted, g) = 2 * Cardinality(above(s)) - Cardinality(below(s))
  BY DEF Score, above, below
<1> QED BY <1>3, <1>4, <1>5, <1>6, <1>7

-----------------------------------------------------------------------------
(***************************************************************************)
(* The search                                                              *)
(***************************************************************************)

\* What has been found or is queued can be reached; what leads on from the start and from
\* what was found is found, queued or the start itself.
Frontier == Elements(order) \cup Elements(q)

OnlyReachable == Frontier \subseteq Reachable(start, Adjacency)

NothingMissed ==
  \A s \in Elements(order) \cup {start} : Adjacency[s] \subseteq Frontier \cup {start}

EachOnce ==
  /\ \A i, j \in DOMAIN order : order[i] = order[j] => i = j
  /\ start \notin Elements(order)

SearchIInv == SearchTypeOK /\ OnlyReachable /\ NothingMissed /\ EachOnce

LEMMA ListingIsOfTheSet ==
  ASSUME NEW S \in SUBSET Service, NEW l \in Listing(S), IsFiniteSet(S)
  PROVE  l \in Seq(Service) /\ Elements(l) = S
<1>1. Cardinality(S) \in Nat
  BY FS_CardinalityType
<1>2. l \in Seq(S)
  BY <1>1 DEF Listing
<1> QED BY <1>2 DEF Listing, Elements

LEMMA ElementsOfTail ==
  ASSUME NEW s \in Seq(Service), s # <<>>
  PROVE  Tail(s) \in Seq(Service) /\ Elements(s) = {Head(s)} \cup Elements(Tail(s)) /\ Head(s) \in Service
<1>1. Tail(s) \in Seq(Service) /\ Head(s) = s[1] /\ Head(s) \in Service /\ 1 \in DOMAIN s
      /\ DOMAIN s = 1 .. Len(s) /\ DOMAIN Tail(s) = 1 .. Len(s) - 1 /\ Len(s) \in Nat
      /\ \A i \in 1 .. Len(s) - 1 : Tail(s)[i] = s[i + 1]
  OBVIOUS
<1>2. ASSUME NEW i \in DOMAIN s, i # 1
      PROVE  s[i] \in Elements(Tail(s))
  <2>1. i - 1 \in DOMAIN Tail(s) /\ Tail(s)[i - 1] = s[i]
    BY <1>1, <1>2
  <2> QED BY <2>1 DEF Elements
<1>3. ASSUME NEW i \in DOMAIN Tail(s)
      PROVE  Tail(s)[i] \in Elements(s)
  <2>1. i + 1 \in DOMAIN s /\ Tail(s)[i] = s[i + 1]
    BY <1>1
  <2> QED BY <2>1 DEF Elements
<1> QED BY <1>1, <1>2, <1>3 DEF Elements

LEMMA ElementsOfConcat ==
  ASSUME NEW s \in Seq(Service), NEW t \in Seq(Service)
  PROVE  s \o t \in Seq(Service) /\ Elements(s \o t) = Elements(s) \cup Elements(t)
<1>1. s \o t \in Seq(Service) /\ Len(s) \in Nat /\ Len(t) \in Nat
      /\ DOMAIN s = 1 .. Len(s) /\ DOMAIN t = 1 .. Len(t) /\ DOMAIN (s \o t) = 1 .. Len(s) + Len(t)
      /\ \A i \in 1 .. Len(s) + Len(t) : (s \o t)[i] = IF i <= Len(s) THEN s[i] ELSE t[i - Len(s)]
  OBVIOUS
<1>2. ASSUME NEW i \in DOMAIN s
      PROVE  s[i] \in Elements(s \o t)
  <2>1. i \in DOMAIN (s \o t) /\ (s \o t)[i] = s[i]
    BY <1>1
  <2> QED BY <2>1 DEF Elements
<1>3. ASSUME NEW i \in DOMAIN t
      PROVE  t[i] \in Elements(s \o t)
  <2>1. i + Len(s) \in DOMAIN (s \o t) /\ (s \o t)[i + Len(s)] = t[i]
    BY <1>1
  <2> QED BY <2>1 DEF Elements
<1>4. ASSUME NEW i \in DOMAIN (s \o t)
      PROVE  (s \o t)[i] \in Elements(s) \cup Elements(t)
  <2>1. CASE i <= Len(s)
    BY <1>1, <2>1 DEF Elements
  <2>2. CASE ~ (i <= Len(s))
    <3>1. i - Len(s) \in DOMAIN t /\ (s \o t)[i] = t[i - Len(s)]
      BY <1>1, <2>2
    <3> QED BY <3>1 DEF Elements
  <2> QED BY <2>1, <2>2
<1>5. Elements(s \o t) \subseteq Elements(s) \cup Elements(t)
  BY <1>4 DEF Elements
<1>6. Elements(s) \subseteq Elements(s \o t) /\ Elements(t) \subseteq Elements(s \o t)
  BY <1>2, <1>3 DEF Elements
<1> QED BY <1>1, <1>5, <1>6

LEMMA ElementsOfAppend ==
  ASSUME NEW s \in Seq(Service), NEW e \in Service
  PROVE  Append(s, e) \in Seq(Service) /\ Elements(Append(s, e)) = Elements(s) \cup {e}
<1>1. Append(s, e) \in Seq(Service) /\ Len(s) \in Nat
      /\ DOMAIN s = 1 .. Len(s) /\ DOMAIN Append(s, e) = 1 .. Len(s) + 1
      /\ \A i \in 1 .. Len(s) + 1 : Append(s, e)[i] = IF i = Len(s) + 1 THEN e ELSE s[i]
  OBVIOUS
<1>2. ASSUME NEW i \in DOMAIN s
      PROVE  s[i] \in Elements(Append(s, e))
  <2>1. i \in DOMAIN Append(s, e) /\ Append(s, e)[i] = s[i]
    BY <1>1
  <2> QED BY <2>1 DEF Elements
<1>3. e \in Elements(Append(s, e))
  <2>1. Len(s) + 1 \in DOMAIN Append(s, e) /\ Append(s, e)[Len(s) + 1] = e
    BY <1>1
  <2> QED BY <2>1 DEF Elements
<1>4. ASSUME NEW i \in DOMAIN Append(s, e)
      PROVE  Append(s, e)[i] \in Elements(s) \cup {e}
  BY <1>1 DEF Elements
<1> QED BY <1>1, <1>2, <1>3, <1>4 DEF Elements

\* A search that has ended has found what can be reached.
LEMMA SearchIInvIsExact == SearchIInv => SearchIsExact
<1> SUFFICES ASSUME SearchIInv PROVE SearchIsExact
  OBVIOUS
<1> DEFINE S == Elements(order) \cup {start}
<1>1. Adjacency \in Graphs /\ start \in Service
  BY DEF SearchIInv, SearchTypeOK, Adjacency, Graphs, Dependents
<1>2. S \in SUBSET Service
  BY DEF SearchIInv, SearchTypeOK, Elements
<1>3. ASSUME q = <<>>
      PROVE  Elements(order) = Closure(start, Adjacency)
  <2>1. Elements(q) = {}
    BY <1>3 DEF Elements
  <2>2. Adjacency[start] \subseteq S /\ Closed(S, Adjacency)
    BY <2>1 DEF SearchIInv, NothingMissed, Frontier, Closed
  <2>3. Reachable(start, Adjacency) \subseteq S
    <3> HIDE DEF S
    <3> QED BY <1>1, <1>2, <2>2, ReachableIsLeast
  <2> QED BY <2>1, <2>3 DEF SearchIInv, OnlyReachable, Frontier, EachOnce, Closure
<1> QED BY <1>3 DEF SearchIsExact, SearchIInv, EachOnce

\* For every finite set of services, the searches behind closures and blast radius find
\* exactly what can be reached, each service once.
THEOREM SearchAlwaysExact ==
  ASSUME IsFiniteSet(Service)
  PROVE  SearchSpec => []SearchIsExact
<1> USE DEF Frontier
<1>0. \A S \in SUBSET Service : IsFiniteSet(S)
  BY FS_Subset
<1>1. SearchInit => SearchIInv
  <2> SUFFICES ASSUME SearchInit PROVE SearchIInv
    OBVIOUS
  <2>1. Adjacency \in Graphs /\ Adjacency[start] \in SUBSET Service
    BY DEF SearchInit, Adjacency, Graphs, Dependents
  <2>2. q \in Seq(Service) /\ Elements(q) = Adjacency[start]
    BY <1>0, <2>1, ListingIsOfTheSet DEF SearchInit
  <2>3. Elements(order) = {} /\ order \in Seq(Service)
    BY DEF SearchInit, Elements
  <2>4. OnlyReachable
    BY <2>1, <2>2, <2>3, ReachableIsClosed DEF SearchInit, OnlyReachable
  <2> QED BY <2>2, <2>3, <2>4 DEF SearchInit, SearchIInv, SearchTypeOK, NothingMissed, EachOnce
<1>2. SearchIInv /\ [SearchNext]_searchVars => SearchIInv'
  <2> SUFFICES ASSUME SearchIInv, [SearchNext]_searchVars PROVE SearchIInv'
    OBVIOUS
  <2>1. Adjacency \in Graphs /\ start \in Service /\ q \in Seq(Service) /\ order \in Seq(Service)
    BY DEF SearchIInv, SearchTypeOK, Adjacency, Graphs, Dependents
  <2>2. CASE Skip
    <3>1. Adjacency' = Adjacency /\ start' = start /\ order' = order /\ depends_on' = depends_on /\ up' = up
      BY <2>2 DEF Skip, Adjacency
    <3>2. q' \in Seq(Service) /\ Elements(q) = {Head(q)} \cup Elements(q')
      BY <2>1, <2>2, ElementsOfTail DEF Skip
    <3>3. Head(q) \in Elements(order) \cup {start}
      BY <2>2 DEF Skip
    <3>4. NothingMissed'
      <4>1. Elements(order)' = Elements(order) /\ Elements(q)' = Elements(q')
        BY <3>1 DEF Elements
      <4>2. Frontier \cup {start} = Frontier' \cup {start}'
        BY <3>1, <3>2, <3>3, <4>1
      <4> QED BY <3>1, <4>1, <4>2 DEF SearchIInv, NothingMissed
    <3>5. OnlyReachable' /\ EachOnce' /\ SearchTypeOK'
      BY <3>1, <3>2 DEF SearchIInv, OnlyReachable, EachOnce, SearchTypeOK, Elements
    <3> QED BY <3>4, <3>5 DEF SearchIInv
  <2>3. CASE Visit
    <3>1. Adjacency' = Adjacency /\ start' = start /\ depends_on' = depends_on /\ up' = up
      BY <2>3 DEF Visit, Adjacency
    <3>2. Head(q) \in Service /\ Head(q) \in Elements(q) /\ Head(q) \notin Elements(order) \cup {start}
      BY <2>1, <2>3, ElementsOfTail DEF Visit
    <3>3. order' \in Seq(Service) /\ Elements(order)' = Elements(order) \cup {Head(q)}
      <4>1. order' \in Seq(Service) /\ Elements(order') = Elements(order) \cup {Head(q)}
        BY <2>1, <2>3, <3>2, ElementsOfAppend DEF Visit
      <4> QED BY <4>1 DEF Elements
    <3>4. q' \in Seq(Service) /\ Elements(q)' = Elements(Tail(q)) \cup Adjacency[Head(q)]
      <4>1. Adjacency[Head(q)] \in SUBSET Service
        BY <2>1, <3>2 DEF Graphs
      <4>2. PICK l \in Listing(Adjacency[Head(q)]) : q' = Tail(q) \o l
        BY <2>3 DEF Visit
      <4>3. l \in Seq(Service) /\ Elements(l) = Adjacency[Head(q)]
        BY <1>0, <4>1, <4>2, ListingIsOfTheSet
      <4>4. Tail(q) \in Seq(Service)
        BY <2>1, <2>3, ElementsOfTail DEF Visit
      <4>5. Elements(q') = Elements(Tail(q)) \cup Elements(l) /\ q' \in Seq(Service)
        BY <4>2, <4>3, <4>4, ElementsOfConcat
      <4> QED BY <4>3, <4>5 DEF Elements
    <3>5. Elements(q) = {Head(q)} \cup Elements(Tail(q))
      BY <2>1, <2>3, ElementsOfTail DEF Visit
    <3>6. OnlyReachable'
      <4>1. Head(q) \in Reachable(start, Adjacency)
        BY <3>2 DEF SearchIInv, OnlyReachable
      <4>2. Adjacency[Head(q)] \subseteq Reachable(start, Adjacency)
        BY <2>1, <4>1, ReachableIsClosed DEF Closed
      <4> QED BY <3>1, <3>3, <3>4, <3>5, <4>1, <4>2 DEF SearchIInv, OnlyReachable
    <3>7. NothingMissed'
      BY <3>1, <3>3, <3>4, <3>5 DEF SearchIInv, NothingMissed
    <3>8. EachOnce'
      <4>1. /\ Len(order) \in Nat /\ DOMAIN order = 1 .. Len(order) /\ DOMAIN order' = 1 .. Len(order) + 1
            /\ \A i \in DOMAIN order' : order'[i] = IF i = Len(order) + 1 THEN Head(q) ELSE order[i]
        BY <2>1, <2>3, <3>2 DEF Visit
      <4>2. \A i \in DOMAIN order : order[i] # Head(q)
        BY <3>2 DEF Elements
      <4>3. \A i, j \in DOMAIN order' : order'[i] = order'[j] => i = j
        BY <4>1, <4>2 DEF SearchIInv, EachOnce
      <4> QED BY <3>1, <3>2, <3>3, <4>3 DEF SearchIInv, EachOnce
    <3>9. SearchTypeOK'
      BY <3>1, <3>3, <3>4 DEF SearchIInv, SearchTypeOK
    <3> QED BY <3>6, <3>7, <3>8, <3>9 DEF SearchIInv
  <2>4. CASE UNCHANGED searchVars
    BY <2>4 DEF searchVars, SearchIInv, SearchTypeOK, OnlyReachable, NothingMissed, EachOnce, Adjacency, Elements
  <2> QED BY <2>2, <2>3, <2>4 DEF SearchNext
<1> QED BY <1>1, <1>2, SearchIInvIsExact, PTL DEF SearchSpec

-----------------------------------------------------------------------------
(***************************************************************************)
(* The invariant                                                           *)
(***************************************************************************)

Watched == UNION {Range(Targets[r]) : r \in Rule}

RuleRow == [since : {Null, "fresh", "long"}, active : Int]

AlertRow ==
  [fingerprint : {Fingerprint(r, s) : r \in Rule, s \in Watched}, service : Watched,
   state : {"FIRING", "RESOLVED"}, incident : Int]

IncidentRow == [ref : Nat, service : Watched, open : BOOLEAN]

\* What a worker has read and not yet committed.
Transaction ==
  [pc : {"evaluate", "ingest", "open"}, todo : Seq(Rule), seen : Nat, breach : BOOLEAN, last : Int,
   loaded : [Rule -> RuleRow], rules : [Rule -> RuleRow], alerts : Seq(AlertRow),
   resolved : SUBSET Int, flushed : SUBSET Int, refreshed : SUBSET Int, links : [{} -> Int],
   incidents : Seq(IncidentRow), held : SUBSET Int, queue : Seq(Int)]

TypeOK ==
  /\ DOMAIN condition = Rule
  /\ \A r \in Rule : condition[r] \in [Range(Targets[r]) -> {Clear, "fresh", "long"}]
  /\ rules \in [Rule -> RuleRow]
  /\ alerts \in Seq(AlertRow) /\ incidents \in Seq(IncidentRow)
  /\ session \in [Workers -> {Idle} \cup Transaction]
  /\ changes \in Nat

\* Of a transaction x while m incidents are committed.  Its own alerts fire and are linked to
\* incidents there are, and what it takes in are its own alerts.
Rows(x, m) ==
  /\ \A k \in DOMAIN x.alerts :
       x.alerts[k].state = "FIRING" /\ x.alerts[k].incident \in (- Len(x.incidents))..m
  /\ \A k \in DOMAIN x.queue : x.queue[k] \in (- Len(x.alerts))..(- 1)

\* Once it has evaluated the rules, its alerts that have no incident are still to be taken in.
NothingLeftOut(x) ==
  \A k \in DOMAIN x.alerts :
    x.alerts[k].incident = NoId => \E n \in DOMAIN x.queue : x.queue[n] = - k

Sound(x, m) ==
  /\ Rows(x, m)
  /\ x.pc = "evaluate" => x.todo # <<>>
  /\ x.pc = "open" => x.queue # <<>>
  /\ x.pc # "evaluate" => NothingLeftOut(x)

IInv ==
  /\ TypeOK
  /\ AlertsAreLinked
  /\ \A w \in Workers : session[w] # Idle => Sound(session[w], Len(incidents))

-----------------------------------------------------------------------------
(***************************************************************************)
(* What a worker sees                                                      *)
(***************************************************************************)

\* A set of numbers that has a member has a smallest one.
LEMMA LeastNumber ==
  ASSUME NEW S \in SUBSET Nat, S # {}
  PROVE  \E m \in S : \A n \in S : m <= n
<1> DEFINE R == OpToRel(<, Nat)
<1>1. \A a, b \in Nat : <<b, a>> \in R <=> b < a
  BY DEF OpToRel
<1>2. IsWellFoundedOn(R, Nat)
  BY NatLessThanWellFounded
<1> HIDE DEF R
<1>3. PICK m \in S : \A n \in S : ~ (<<n, m>> \in R)
  BY <1>2, WFMin
<1>4. \A n \in S : m \in Nat /\ n \in Nat /\ ~ (n < m)
  BY <1>1, <1>3
<1>5. \A n \in S : m <= n
  BY <1>4
<1> QED  BY <1>5

\* There is a newest row in every query that returns one.
LEMMA NewestIsOne ==
  ASSUME NEW m \in Nat, NEW n \in Nat, NEW ids \in SUBSET ((- m)..n), NoId \notin ids, ids # {}
  PROVE  Newest(ids) \in ids
<1> DEFINE own == {i \in ids : i < 0}
<1>1. \A i \in ids : i \in Int /\ - m <= i /\ i <= n /\ i # 0
  BY DEF NoId
<1>2. \E a \in ids : \A b \in ids \ {a} : Newer(a, b)
  <2>1. CASE own # {}
    <3> DEFINE S == {i + m : i \in own}
    <3>0. \A i \in own : i + m \in Nat
      BY <1>1
    <3>1. S \in SUBSET Nat /\ S # {}
      BY <3>0, <2>1
    <3> HIDE DEF S
    <3>2. PICK l \in S : \A k \in S : l <= k
      BY <3>1, LeastNumber
    <3>3. PICK a \in own : l = a + m
      BY <3>2 DEF S
    <3>4. \A b \in own : a <= b
      <4> SUFFICES ASSUME NEW b \in own PROVE a <= b
        OBVIOUS
      <4>1. a + m <= b + m
        BY <3>2, <3>3 DEF S
      <4> QED  BY <4>1, <1>1
    <3>5. ASSUME NEW b \in ids \ {a} PROVE Newer(a, b)
      BY <1>1, <3>3, <3>4 DEF Newer, Committed
    <3> QED  BY <3>3, <3>5
  <2>2. CASE own = {}
    <3> DEFINE S == {n - i : i \in ids}
    <3>0. \A i \in ids : n - i \in Nat
      BY <1>1
    <3>1. S \in SUBSET Nat /\ S # {}
      BY <3>0
    <3> HIDE DEF S
    <3>2. PICK l \in S : \A k \in S : l <= k
      BY <3>1, LeastNumber
    <3>3. PICK a \in ids : l = n - a
      BY <3>2 DEF S
    <3>4. \A b \in ids : b <= a
      <4> SUFFICES ASSUME NEW b \in ids PROVE b <= a
        OBVIOUS
      <4>1. n - a <= n - b
        BY <3>2, <3>3 DEF S
      <4> QED  BY <4>1, <1>1
    <3>5. \A b \in ids : b > 0
      BY <1>1, <2>2
    <3>6. ASSUME NEW b \in ids \ {a} PROVE Newer(a, b)
      BY <1>1, <3>3, <3>4, <3>5 DEF Newer, Committed
    <3> QED  BY <3>3, <3>6
  <2> QED  BY <2>1, <2>2
<1> QED  BY <1>2 DEF Newest

\* The alerts a worker sees: the committed ones, with their incidents, and its own.
LEMMA AlertsSeen ==
  ASSUME alerts \in Seq(AlertRow), incidents \in Seq(IncidentRow), AlertsAreLinked,
         NEW x \in Transaction, Rows(x, Len(incidents)), NEW id \in AlertIds(x)
  PROVE  /\ id \in Int /\ id # NoId
         /\ Committed(id) => /\ id \in DOMAIN alerts
                             /\ Alert(x, id).incident \in 1..Len(incidents)
         /\ ~ Committed(id) => /\ - id \in DOMAIN x.alerts
                               /\ Alert(x, id) = x.alerts[- id]
                               /\ Alert(x, id).state = "FIRING"
         /\ Alert(x, id).incident \in (- Len(x.incidents))..Len(incidents)
         /\ Alert(x, id).service \in Watched
<1>1. /\ Len(alerts) \in Nat /\ DOMAIN alerts = 1..Len(alerts)
      /\ Len(incidents) \in Nat /\ DOMAIN incidents = 1..Len(incidents)
      /\ \A a \in DOMAIN alerts : alerts[a] \in AlertRow
  OBVIOUS
<1>2. /\ x.alerts \in Seq(AlertRow) /\ x.incidents \in Seq(IncidentRow) /\ DOMAIN x.links = {}
  BY DEF Transaction
<1>3. /\ Len(x.alerts) \in Nat /\ DOMAIN x.alerts = 1..Len(x.alerts) /\ Len(x.incidents) \in Nat
      /\ \A k \in DOMAIN x.alerts : x.alerts[k] \in AlertRow
  BY <1>2
<1>4. id \in (- Len(x.alerts))..Len(alerts) /\ id \in Int /\ id # 0
  BY <1>1, <1>3 DEF AlertIds, NoId
<1>5. CASE Committed(id)
  <2>1. id \in DOMAIN alerts
    BY <1>1, <1>3, <1>4, <1>5 DEF Committed
  <2>2. alerts[id] \in AlertRow /\ alerts[id].incident \in 1..Len(incidents)
    BY <1>1, <2>1 DEF AlertsAreLinked
  <2>3. Alert(x, id).incident = alerts[id].incident /\ Alert(x, id).service = alerts[id].service
    BY <1>2, <1>5, <2>2 DEF Alert, AlertRow
  <2>4. Alert(x, id).incident \in (- Len(x.incidents))..Len(incidents)
    BY <1>1, <1>3, <2>2, <2>3
  <2>5. Alert(x, id).service \in Watched
    BY <2>2, <2>3 DEF AlertRow
  <2> QED  BY <1>4, <1>5, <2>1, <2>2, <2>3, <2>4, <2>5 DEF NoId
<1>6. CASE ~ Committed(id)
  <2>1. - id \in DOMAIN x.alerts
    BY <1>1, <1>3, <1>4, <1>6 DEF Committed
  <2>2. Alert(x, id) = x.alerts[- id] /\ x.alerts[- id] \in AlertRow
    BY <1>3, <1>6, <2>1 DEF Alert
  <2>3. x.alerts[- id].state = "FIRING" /\ x.alerts[- id].incident \in (- Len(x.incidents))..Len(incidents)
    BY <2>1 DEF Rows
  <2>4. x.alerts[- id].service \in Watched
    BY <2>2 DEF AlertRow
  <2> QED  BY <1>4, <1>6, <2>1, <2>2, <2>3, <2>4 DEF NoId
<1> QED  BY <1>5, <1>6

\* What has no incident yet is the worker's own.
LEMMA UnlinkedIsOwn ==
  ASSUME alerts \in Seq(AlertRow), incidents \in Seq(IncidentRow), AlertsAreLinked,
         NEW x \in Transaction, Rows(x, Len(incidents))
  PROVE  /\ \A a \in Unlinked(x) : a \in (- Len(x.alerts))..(- 1) /\ Alert(x, a).state = "FIRING"
         /\ \A k \in DOMAIN x.alerts : x.alerts[k].incident = NoId => - k \in Unlinked(x)
<1>1. Len(x.alerts) \in Nat /\ DOMAIN x.alerts = 1..Len(x.alerts) /\ Len(alerts) \in Nat /\ Len(incidents) \in Nat
  BY DEF Transaction
<1>2. ASSUME NEW a \in Unlinked(x)
      PROVE  a \in (- Len(x.alerts))..(- 1) /\ Alert(x, a).state = "FIRING"
  <2>1. a \in AlertIds(x) /\ Alert(x, a).incident = NoId
    BY DEF Unlinked
  <2>2. ~ Committed(a)
    BY <1>1, <2>1, AlertsSeen DEF NoId
  <2>3. - a \in DOMAIN x.alerts /\ a \in Int /\ Alert(x, a).state = "FIRING"
    BY <2>1, <2>2, AlertsSeen
  <2> QED  BY <1>1, <2>3
<1>3. ASSUME NEW k \in DOMAIN x.alerts, x.alerts[k].incident = NoId
      PROVE  - k \in Unlinked(x)
  <2>1. - k \in AlertIds(x) /\ ~ Committed(- k) /\ - (- k) = k
    BY <1>1 DEF AlertIds, Committed, NoId
  <2>2. Alert(x, - k) = x.alerts[k]
    BY <2>1 DEF Alert
  <2> QED  BY <1>3, <2>1, <2>2 DEF Unlinked
<1> QED  BY <1>2, <1>3

\* What an alert is attached to is an incident there is, if anything.
LEMMA CorrelatedExists ==
  ASSUME alerts \in Seq(AlertRow), incidents \in Seq(IncidentRow), AlertsAreLinked,
         NEW x \in Transaction, Rows(x, Len(incidents)), NEW a \in Int
  PROVE  Correlated(x, a) \in (- Len(x.incidents))..Len(incidents)
<1>1. Len(x.alerts) \in Nat /\ Len(x.incidents) \in Nat /\ Len(alerts) \in Nat /\ Len(incidents) \in Nat
  BY DEF Transaction
<1>2. Prior(x, a) \in (- Len(x.incidents))..Len(incidents)
  <2> DEFINE priors == {b \in AlertIds(x) \ {a} :
                          Alert(x, b).fingerprint = Alert(x, a).fingerprint /\ Alert(x, b).incident # NoId}
  <2>1. CASE priors = {}
    <3>1. Prior(x, a) = NoId
      BY <2>1 DEF Prior
    <3> QED  BY <1>1, <3>1 DEF NoId
  <2>2. CASE priors # {}
    <3>1. priors \in SUBSET ((- Len(x.alerts))..Len(alerts)) /\ NoId \notin priors
      BY DEF AlertIds
    <3>2. Newest(priors) \in priors
      BY <1>1, <2>2, <3>1, NewestIsOne
    <3>3. Prior(x, a) = Alert(x, Newest(priors)).incident
      BY <2>2 DEF Prior
    <3> HIDE DEF priors
    <3>4. Newest(priors) \in AlertIds(x)
      BY <3>2 DEF priors
    <3> QED  BY <3>3, <3>4, AlertsSeen
  <2> QED  BY <2>1, <2>2
<1>3. Newest(Near(x, a)) \in (- Len(x.incidents))..Len(incidents)
  <2>1. Near(x, a) \in SUBSET ((- Len(x.incidents))..Len(incidents)) /\ NoId \notin Near(x, a)
    BY DEF Near, Candidates, IncidentIds
  <2>2. CASE Near(x, a) = {}
    BY <1>1, <2>2 DEF Newest, NoId
  <2>3. CASE Near(x, a) # {}
    <3>1. Newest(Near(x, a)) \in Near(x, a)
      BY <1>1, <2>1, <2>3, NewestIsOne
    <3> QED  BY <2>1, <3>1
  <2> QED  BY <2>2, <2>3
<1> QED  BY <1>2, <1>3 DEF Correlated

\* The reference of a new incident is a number.
LEMMA NextRefIsNumber ==
  ASSUME incidents \in Seq(IncidentRow), NEW x \in Transaction
  PROVE  NextRef(x) \in Nat
<1>1. /\ x.incidents \in Seq(IncidentRow) /\ Len(x.incidents) \in Nat /\ Len(incidents) \in Nat
      /\ DOMAIN x.incidents = 1..Len(x.incidents) /\ DOMAIN incidents = 1..Len(incidents)
  BY DEF Transaction
<1> DEFINE newest == Newest(IncidentIds(x))
<1>2. CASE newest = NoId
  BY <1>2 DEF NextRef
<1>3. CASE newest # NoId
  <2>1. IncidentIds(x) # {}
    BY <1>3 DEF Newest
  <2>2. IncidentIds(x) \in SUBSET ((- Len(x.incidents))..Len(incidents)) /\ NoId \notin IncidentIds(x)
    BY DEF IncidentIds
  <2>3. newest \in IncidentIds(x)
    BY <1>1, <2>1, <2>2, NewestIsOne
  <2> HIDE DEF newest
  <2>4. newest \in (- Len(x.incidents))..Len(incidents) /\ newest # 0
    BY <2>2, <2>3 DEF NoId
  <2>5. CASE Committed(newest)
    <3>1. newest \in DOMAIN incidents
      BY <1>1, <2>4, <2>5 DEF Committed
    <3>2. Incident(x, newest) = incidents[newest] /\ incidents[newest] \in IncidentRow
      BY <2>5, <3>1 DEF Incident
    <3> QED  BY <1>3, <3>2 DEF NextRef, newest, IncidentRow
  <2>6. CASE ~ Committed(newest)
    <3>1. - newest \in DOMAIN x.incidents
      BY <1>1, <2>4, <2>6 DEF Committed
    <3>2. Incident(x, newest) = x.incidents[- newest] /\ x.incidents[- newest] \in IncidentRow
      BY <1>1, <2>6, <3>1 DEF Incident
    <3> QED  BY <1>3, <3>2 DEF NextRef, newest, IncidentRow
  <2> QED  BY <2>5, <2>6
<1> QED  BY <1>2, <1>3

-----------------------------------------------------------------------------
(***************************************************************************)
(* Evaluating a rule                                                       *)
(***************************************************************************)

\* A transaction that evaluates a rule goes on to another one, whose rows are sound.
Goes(x, y, m) ==
  /\ y \in Transaction /\ Rows(y, m)
  /\ y.pc = x.pc /\ y.todo = x.todo /\ y.queue = x.queue

\* Firing and refreshing change the rule's row and what was fired last, and keep what the
\* transaction has already.
LEMMA ActiveIsSet ==
  ASSUME NEW table \in [Rule -> RuleRow], NEW r \in Rule, NEW a \in Int
  PROVE  [table EXCEPT ![r] = [table[r] EXCEPT !.active = a]] \in [Rule -> RuleRow]
<1> DEFINE row == [table[r] EXCEPT !.active = a]
<1>1. table[r] \in RuleRow
  OBVIOUS
<1>2. row \in RuleRow
  BY <1>1 DEF RuleRow
<1> HIDE DEF row
<1>3. [table EXCEPT ![r] = row] \in [Rule -> RuleRow]
  BY <1>2
<1> QED  BY <1>3 DEF row

LEMMA FireGoesOn ==
  ASSUME NEW m \in Nat, NEW x \in Transaction, Rows(x, m), x.pc = "evaluate",
         NEW r \in Rule, NEW s \in Watched
  PROVE  Goes(x, Fire(x, r, s), m)
<1> DEFINE new == [fingerprint |-> Fingerprint(r, s), service |-> s, state |-> "FIRING", incident |-> NoId]
           y == Fire(x, r, s)
<1>1. new \in AlertRow
  BY DEF AlertRow, NoId
<1>2. /\ x.alerts \in Seq(AlertRow) /\ Len(x.alerts) \in Nat /\ DOMAIN x.alerts = 1..Len(x.alerts)
      /\ Len(x.incidents) \in Nat /\ DOMAIN x.queue = 1..Len(x.queue)
  BY DEF Transaction
<1>3. /\ Append(x.alerts, new) \in Seq(AlertRow) /\ Len(Append(x.alerts, new)) = Len(x.alerts) + 1
      /\ \A k \in 1..Len(x.alerts) : Append(x.alerts, new)[k] = x.alerts[k]
      /\ Append(x.alerts, new)[Len(x.alerts) + 1] = new
      /\ DOMAIN Append(x.alerts, new) = 1..(Len(x.alerts) + 1)
  BY <1>1, <1>2, AppendProperties
<1> HIDE DEF new
<1>4. y.alerts = Append(x.alerts, new) /\ y.pc = x.pc /\ y.todo = x.todo /\ y.queue = x.queue /\ y.incidents = x.incidents
  BY DEF Fire, Transaction, new
<1>5. y \in Transaction
  <2> DEFINE table == [x.rules EXCEPT ![r] = [x.rules[r] EXCEPT !.active = - (Len(x.alerts) + 1)]]
             more == Append(x.alerts, new)
  <2>1. table \in [Rule -> RuleRow]
    <3>1. x.rules \in [Rule -> RuleRow] /\ - (Len(x.alerts) + 1) \in Int
      BY <1>2 DEF Transaction
    <3> QED  BY <3>1, ActiveIsSet
  <2>2. y = [x EXCEPT !.alerts = more, !.rules = table, !.last = - (Len(x.alerts) + 1), !.flushed = x.resolved]
    BY DEF Fire, new, Transaction
  <2>3. more \in Seq(AlertRow) /\ - (Len(x.alerts) + 1) \in Int /\ x.resolved \in SUBSET Int
    BY <1>2, <1>3 DEF Transaction
  <2> HIDE DEF table, more, y
  <2> QED  BY <2>1, <2>2, <2>3 DEF Transaction
<1> HIDE DEF y
<1>6. Rows(y, m)
  <2>1. ASSUME NEW k \in DOMAIN y.alerts
        PROVE  y.alerts[k].state = "FIRING" /\ y.alerts[k].incident \in (- Len(y.incidents))..m
    <3>1. CASE k = Len(x.alerts) + 1
      <4>1. y.alerts[k] = new
        BY <1>3, <1>4, <3>1
      <4>2. new.state = "FIRING" /\ new.incident = 0
        BY DEF new, NoId
      <4> QED  BY <1>2, <1>4, <4>1, <4>2
    <3>2. CASE k # Len(x.alerts) + 1
      <4>1. k \in DOMAIN x.alerts /\ y.alerts[k] = x.alerts[k]
        BY <1>2, <1>3, <1>4, <3>2
      <4> QED  BY <1>4, <4>1 DEF Rows
    <3> QED  BY <3>1, <3>2
  <2>2. ASSUME NEW k \in DOMAIN y.queue
        PROVE  y.queue[k] \in (- Len(y.alerts))..(- 1)
    <3>1. x.queue[k] \in (- Len(x.alerts))..(- 1)
      BY <1>4 DEF Rows
    <3> QED  BY <1>2, <1>3, <1>4, <3>1
  <2> QED  BY <2>1, <2>2 DEF Rows
<1> QED  BY <1>4, <1>5, <1>6 DEF Goes, y

LEMMA RefreshGoesOn ==
  ASSUME NEW m \in Nat, NEW x \in Transaction, Rows(x, m), alerts \in Seq(AlertRow),
         NEW f, Existing(x, f) # {}
  PROVE  Goes(x, Refresh(x, f), m)
<1> DEFINE a == CHOOSE b \in Existing(x, f) : TRUE
           y == [x EXCEPT !.refreshed = x.refreshed \cup {a}, !.last = a]
<1>1. a \in Existing(x, f)
  OBVIOUS
<1>2. a \in Int
  BY <1>1 DEF Existing, AlertIds, Transaction
<1>3. Refresh(x, f) = y
  BY DEF Refresh
<1> HIDE DEF a
<1>4. y \in Transaction
  <2>1. x.refreshed \cup {a} \in SUBSET Int
    BY <1>2 DEF Transaction
  <2> QED  BY <1>2, <2>1 DEF Transaction
<1>5. /\ y.alerts = x.alerts /\ y.incidents = x.incidents /\ y.queue = x.queue
      /\ y.pc = x.pc /\ y.todo = x.todo
  BY DEF Transaction
<1>6. Rows(y, m)
  <2> HIDE DEF y
  <2> QED  BY <1>5 DEF Rows
<1> QED  BY <1>3, <1>4, <1>5, <1>6 DEF Goes

LEMMA SinceIsSet ==
  ASSUME NEW table \in [Rule -> RuleRow], NEW r \in Rule, NEW c \in {Null, "fresh", "long"}
  PROVE  [table EXCEPT ![r] = [table[r] EXCEPT !.since = Older(table[r].since, c)]] \in [Rule -> RuleRow]
<1> DEFINE since == Older(table[r].since, c)
           row == [table[r] EXCEPT !.since = since]
<1>1. table[r] \in RuleRow
  OBVIOUS
<1>2. since \in {Null, "fresh", "long"}
  BY <1>1 DEF RuleRow, Older
<1> HIDE DEF since
<1>3. row \in RuleRow
  BY <1>1, <1>2 DEF RuleRow
<1> HIDE DEF row
<1>4. [table EXCEPT ![r] = row] \in [Rule -> RuleRow]
  BY <1>3
<1> QED  BY <1>4 DEF row, since

LEMMA BreachGoesOn ==
  ASSUME NEW m \in Nat, NEW x \in Transaction, Rows(x, m), x.pc = "evaluate", alerts \in Seq(AlertRow),
         NEW r \in Rule, NEW s \in Watched, condition[r][s] \in {"fresh", "long"}
  PROVE  Goes(x, Breach(x, r, s), m)
<1> DEFINE table == [x.rules EXCEPT ![r] = [x.rules[r] EXCEPT !.since = Older(x.rules[r].since, condition[r][s])]]
           y == [x EXCEPT !.rules = table, !.breach = TRUE]
           f == Fingerprint(r, s)
<1>1. table \in [Rule -> RuleRow]
  <2>1. x.rules \in [Rule -> RuleRow]
    BY DEF Transaction
  <2>2. PICK c : c = condition[r][s]
    OBVIOUS
  <2> QED  BY <2>1, <2>2, SinceIsSet
<1>2. [x EXCEPT !.rules[r].since = Older(@, condition[r][s]), !.breach = TRUE] = y
  BY DEF Transaction
<1>3. Breach(x, r, s) =
        IF y.rules[r].since # "long" THEN y
        ELSE IF Existing(y, f) # {} THEN Refresh(y, f) ELSE Fire(y, r, s)
  BY <1>2 DEF Breach
<1> HIDE DEF table
<1>4. y \in Transaction
  BY <1>1 DEF Transaction
<1>5. /\ y.alerts = x.alerts /\ y.incidents = x.incidents /\ y.queue = x.queue
      /\ y.pc = x.pc /\ y.todo = x.todo
  BY DEF Transaction
<1> HIDE DEF y, f
<1>6. Rows(y, m)
  BY <1>5 DEF Rows
<1>7. Goes(x, y, m)
  BY <1>4, <1>5, <1>6 DEF Goes
<1>8. CASE y.rules[r].since # "long"
  BY <1>3, <1>7, <1>8
<1>9. CASE ~ (y.rules[r].since # "long") /\ Existing(y, f) # {}
  <2>1. Goes(y, Refresh(y, f), m)
    BY <1>4, <1>6, <1>9, RefreshGoesOn
  <2> QED  BY <1>3, <1>5, <1>9, <2>1 DEF Goes
<1>10. CASE ~ (y.rules[r].since # "long") /\ Existing(y, f) = {}
  <2>1. Goes(y, Fire(y, r, s), m)
    BY <1>4, <1>5, <1>6, FireGoesOn
  <2> QED  BY <1>3, <1>5, <1>10, <2>1 DEF Goes
<1> QED  BY <1>8, <1>9, <1>10

\* A service of a rule, and the end of a rule that has no breach.
LEMMA EvaluatedGoesOn ==
  ASSUME TypeOK, NEW m \in Nat, NEW x \in Transaction, Rows(x, m), x.pc = "evaluate", NEW r \in Rule
  PROVE  Goes(x, Evaluated(x, r), m)
<1>1. CASE x.seen >= Len(Targets[r])
  BY <1>1 DEF Evaluated, Goes
<1>2. CASE ~ (x.seen >= Len(Targets[r]))
  <2> DEFINE s == Targets[r][x.seen + 1]
             y == IF Breaches(r, s) THEN Breach(x, r, s) ELSE x
  <2>1. Evaluated(x, r) = [y EXCEPT !.seen = y.seen + 1]
    BY <1>2 DEF Evaluated
  <2>2. x.seen \in Nat /\ Targets[r] \in Seq(Range(Targets[r])) /\ Len(Targets[r]) \in Nat
    BY RulesAssumption DEF Transaction
  <2>3. s \in Range(Targets[r])
    BY <1>2, <2>2, ElementOfSeq
  <2>4. s \in Watched
    BY <2>3 DEF Watched
  <2>5. condition[r][s] \in {Clear, "fresh", "long"}
    BY <2>3 DEF TypeOK
  <2> HIDE DEF s
  <2>6. Goes(x, y, m)
    <3>1. CASE Breaches(r, s)
      <4>1. condition[r][s] \in {"fresh", "long"}
        BY <2>5, <3>1 DEF Breaches
      <4>2. alerts \in Seq(AlertRow)
        BY DEF TypeOK
      <4>3. PICK t : t = s
        OBVIOUS
      <4>4. Goes(x, Breach(x, r, t), m)
        BY <2>4, <4>1, <4>2, <4>3, BreachGoesOn
      <4> QED  BY <3>1, <4>3, <4>4
    <3>2. CASE ~ Breaches(r, s)
      BY <3>2 DEF Goes
    <3> QED  BY <3>1, <3>2
  <2> HIDE DEF y
  <2>7. [y EXCEPT !.seen = y.seen + 1] \in Transaction
    <3>1. y \in Transaction
      BY <2>6 DEF Goes
    <3>2. y.seen + 1 \in Nat
      BY <3>1 DEF Transaction
    <3> QED  BY <3>1, <3>2 DEF Transaction
  <2>8. PICK z : z = [y EXCEPT !.seen = y.seen + 1]
    OBVIOUS
  <2>9. /\ z.alerts = y.alerts /\ z.incidents = y.incidents /\ z.queue = y.queue
        /\ z.pc = y.pc /\ z.todo = y.todo
    BY <2>6, <2>8 DEF Goes, Transaction
  <2>10. Rows(z, m)
    BY <2>6, <2>9 DEF Goes, Rows
  <2> QED  BY <2>1, <2>6, <2>7, <2>8, <2>9, <2>10 DEF Goes
<1> QED  BY <1>1, <1>2

LEMMA ClearedGoesOn ==
  ASSUME NEW m \in Nat, NEW x \in Transaction, Rows(x, m), NEW r \in Rule
  PROVE  Goes(x, Cleared(x, r), m) /\ Cleared(x, r).alerts = x.alerts
<1> DEFINE a == x.rules[r].active
           row == [since |-> Null, active |-> NoId]
           table == [x.rules EXCEPT ![r] = row]
           y == [x EXCEPT !.rules = table]
           z == [y EXCEPT !.resolved = y.resolved \cup {a}]
<1>1. x.rules \in [Rule -> RuleRow] /\ a \in Int
  BY DEF Transaction, RuleRow
<1>2. row \in RuleRow
  BY DEF RuleRow, NoId
<1>3. table \in [Rule -> RuleRow]
  BY <1>1, <1>2
<1>4. Cleared(x, r) = IF Committed(a) /\ alerts[a].state = "FIRING" THEN z ELSE y
  BY DEF Cleared
<1> HIDE DEF a, table
<1>5. y \in Transaction /\ y.resolved \in SUBSET Int
  BY <1>3 DEF Transaction
<1>6. z \in Transaction
  <2>1. y.resolved \cup {a} \in SUBSET Int
    BY <1>1, <1>5
  <2> HIDE DEF y
  <2> QED  BY <1>5, <2>1 DEF Transaction
<1>7. /\ y.alerts = x.alerts /\ y.incidents = x.incidents /\ y.queue = x.queue
      /\ y.pc = x.pc /\ y.todo = x.todo
  BY DEF Transaction
<1>8. /\ z.alerts = x.alerts /\ z.incidents = x.incidents /\ z.queue = x.queue
      /\ z.pc = x.pc /\ z.todo = x.todo
  BY DEF Transaction
<1> HIDE DEF y, z
<1>9. Rows(y, m) /\ Rows(z, m)
  BY <1>7, <1>8 DEF Rows
<1> QED  BY <1>4, <1>5, <1>6, <1>7, <1>8, <1>9 DEF Goes

\* With the end of a rule, what it returned without an incident is queued: an own alert.
LEMMA ConcludedIsSound ==
  ASSUME TypeOK, AlertsAreLinked, NEW x \in Transaction, Rows(x, Len(incidents)), x.todo # <<>>,
         x.pc = "evaluate", NEW r \in Rule
  PROVE  /\ Concluded(x, r) \in Transaction /\ Rows(Concluded(x, r), Len(incidents))
         /\ Concluded(x, r).pc = "evaluate"
<1> DEFINE y == IF x.breach THEN x ELSE Cleared(x, r)
           taken == IF x.last \in Unlinked(x) \ Range(y.queue) THEN Append(y.queue, x.last) ELSE y.queue
           rest == Tail(y.todo)
           z == [y EXCEPT !.todo = rest, !.seen = 0, !.breach = FALSE, !.last = NoId, !.queue = taken]
<1>1. alerts \in Seq(AlertRow) /\ incidents \in Seq(IncidentRow) /\ Len(incidents) \in Nat
  BY DEF TypeOK
<1>2. Goes(x, y, Len(incidents)) /\ y.alerts = x.alerts
  <2>1. PICK m \in Nat : m = Len(incidents)
    BY <1>1
  <2>2. Goes(x, Cleared(x, r), m) /\ Cleared(x, r).alerts = x.alerts
    BY <2>1, ClearedGoesOn
  <2> QED  BY <2>1, <2>2 DEF Goes
<1>3. Concluded(x, r) = z
  BY DEF Concluded
<1> HIDE DEF y
<1>4. y \in Transaction /\ y.pc = "evaluate" /\ y.todo # <<>> /\ y.todo \in Seq(Rule) /\ y.queue \in Seq(Int)
  BY <1>2 DEF Goes, Transaction
<1>5. rest \in Seq(Rule)
  BY <1>4, HeadTailProperties
<1>6. x.alerts \in Seq(AlertRow) /\ Len(x.alerts) \in Nat /\ Len(y.alerts) \in Nat /\ Len(x.incidents) \in Nat
  BY <1>2 DEF Goes, Transaction
<1>7. taken \in Seq(Int) /\ \A k \in DOMAIN taken : taken[k] \in (- Len(y.alerts))..(- 1)
  <2>0. \A k \in DOMAIN y.queue : y.queue[k] \in (- Len(y.alerts))..(- 1)
    BY <1>2 DEF Goes, Rows
  <2>1. CASE x.last \in Unlinked(x) \ Range(y.queue)
    <3>1. x.last \in (- Len(x.alerts))..(- 1)
      BY <1>1, <2>1, UnlinkedIsOwn
    <3> QED  BY <1>2, <1>4, <2>0, <2>1, <3>1
  <2>2. CASE ~ (x.last \in Unlinked(x) \ Range(y.queue))
    BY <1>4, <2>0, <2>2
  <2> QED  BY <2>1, <2>2
<1> HIDE DEF taken, rest
<1>8. z \in Transaction
  <2>1. taken \in Seq(Int) /\ NoId \in Int
    BY <1>7 DEF NoId
  <2> QED  BY <1>4, <1>5, <2>1 DEF Transaction
<1>9. z.alerts = y.alerts /\ z.incidents = y.incidents /\ z.queue = taken /\ z.pc = "evaluate"
  BY <1>4 DEF Transaction
<1> HIDE DEF z
<1>10. Rows(z, Len(incidents))
  BY <1>2, <1>7, <1>9 DEF Goes, Rows
<1> QED  BY <1>3, <1>8, <1>9, <1>10

\* What is taken in are all alerts without an incident.
LEMMA ToIngestIsComplete ==
  ASSUME TypeOK, AlertsAreLinked, NEW x \in Transaction, Rows(x, Len(incidents)), x.pc = "evaluate",
         NEW l \in ToIngest(x)
  PROVE  /\ [x EXCEPT !.pc = "ingest", !.flushed = {}, !.queue = l] \in Transaction
         /\ Sound([x EXCEPT !.pc = "ingest", !.flushed = {}, !.queue = l], Len(incidents))
<1> DEFINE S == {a \in Unlinked(x) : Alert(x, a).state = "FIRING"} \ Range(x.queue)
           z == [x EXCEPT !.pc = "ingest", !.flushed = {}, !.queue = l]
<1>1. alerts \in Seq(AlertRow) /\ incidents \in Seq(IncidentRow)
  BY DEF TypeOK
<1>2. /\ x.queue \in Seq(Int) /\ Len(x.queue) \in Nat /\ DOMAIN x.queue = 1..Len(x.queue)
      /\ Len(x.alerts) \in Nat
  BY DEF Transaction
<1>3. S \subseteq (- Len(x.alerts))..(- 1)
  BY <1>1, UnlinkedIsOwn
<1>4. Cardinality(S) \in Nat
  <2>1. IsFiniteSet((- Len(x.alerts))..(- 1))
    <3>1. - Len(x.alerts) \in Int /\ - 1 \in Int
      BY <1>2
    <3> QED  BY <3>1, FS_Interval
  <2> QED  BY <1>3, <2>1, FS_Subset, FS_CardinalityType
<1>5. PICK k \in [1..Cardinality(S) -> S] : l = x.queue \o k /\ \A a \in S : \E i \in DOMAIN k : k[i] = a
  BY DEF ToIngest, Listings
<1>6. \A n \in DOMAIN x.alerts : x.alerts[n].incident = NoId => - n \in S \/ - n \in Range(x.queue)
  BY <1>1, UnlinkedIsOwn
<1> HIDE DEF S
<1>7. k \in Seq(Int) /\ Len(k) \in Nat /\ DOMAIN k = 1..Len(k)
  <2>1. PICK c \in Nat : c = Cardinality(S)
    BY <1>4
  <2>2. S \subseteq Int
    BY <1>2, <1>3
  <2>3. k \in [1..c -> Int]
    BY <2>1, <2>2
  <2> QED  BY <2>1, <2>3, SeqDef
<1>8. /\ l \in Seq(Int) /\ DOMAIN l = 1..(Len(x.queue) + Len(k))
      /\ \A i \in 1..(Len(x.queue) + Len(k)) : l[i] = IF i <= Len(x.queue) THEN x.queue[i] ELSE k[i - Len(x.queue)]
  BY <1>2, <1>5, <1>7, ConcatProperties
<1>9. \A i \in DOMAIN l : l[i] \in (- Len(x.alerts))..(- 1)
  <2> SUFFICES ASSUME NEW i \in DOMAIN l PROVE l[i] \in (- Len(x.alerts))..(- 1)
    OBVIOUS
  <2>1. CASE i <= Len(x.queue)
    <3>1. i \in DOMAIN x.queue /\ l[i] = x.queue[i]
      BY <1>2, <1>7, <1>8, <2>1
    <3> QED  BY <3>1, SMTT(30) DEF Rows
  <2>2. CASE ~ (i <= Len(x.queue))
    <3>0. i \in 1..(Len(x.queue) + Len(k))
      BY <1>8
    <3>1. i - Len(x.queue) \in 1..Len(k)
      BY <1>2, <1>7, <2>2, <3>0
    <3>2. l[i] = k[i - Len(x.queue)]
      BY <1>8, <2>2
    <3>3. k[i - Len(x.queue)] \in S
      BY <1>7, <3>1
    <3> QED  BY <1>3, <3>2, <3>3
  <2> QED  BY <2>1, <2>2
<1>10. ASSUME NEW a \in Int, a \in S \/ a \in Range(x.queue)
       PROVE  \E n \in DOMAIN l : l[n] = a
  <2>1. CASE a \in S
    <3>1. PICK i \in DOMAIN k : k[i] = a
      BY <1>5, <2>1
    <3>2. PICK j : j = i + Len(x.queue)
      OBVIOUS
    <3>3. j \in 1..(Len(x.queue) + Len(k)) /\ ~ (j <= Len(x.queue)) /\ j - Len(x.queue) = i
      BY <1>2, <1>7, <3>1, <3>2
    <3>4. j \in DOMAIN l /\ l[j] = a
      BY <1>8, <3>1, <3>3
    <3> QED  BY <3>4
  <2>2. CASE a \in Range(x.queue)
    <3>1. PICK i \in DOMAIN x.queue : x.queue[i] = a
      BY <2>2 DEF Range
    <3>2. i \in 1..(Len(x.queue) + Len(k)) /\ i <= Len(x.queue)
      BY <1>2, <1>7, <3>1
    <3>3. i \in DOMAIN l /\ l[i] = a
      BY <1>8, <3>1, <3>2
    <3> QED  BY <3>3
  <2> QED  BY <1>10, <2>1, <2>2
<1>11. z \in Transaction
  BY <1>8 DEF Transaction
<1>12. z.alerts = x.alerts /\ z.incidents = x.incidents /\ z.queue = l /\ z.pc = "ingest"
  BY DEF Transaction
<1>13. Rows(z, Len(incidents)) /\ NothingLeftOut(z)
  <2> HIDE DEF z
  <2>1. Rows(z, Len(incidents))
    BY <1>9, <1>12 DEF Rows
  <2>2. ASSUME NEW j \in DOMAIN x.alerts, x.alerts[j].incident = NoId
        PROVE  \E n \in DOMAIN l : l[n] = - j
    <3>1. - j \in Int
      BY <1>2 DEF Transaction
    <3> QED  BY <1>6, <1>10, <2>2, <3>1
  <2> QED  BY <1>12, <2>1, <2>2 DEF NothingLeftOut
<1>14. Sound(z, Len(incidents))
  <2> HIDE DEF z
  <2> QED  BY <1>12, <1>13 DEF Sound
<1> QED  BY <1>11, <1>14

-----------------------------------------------------------------------------
(***************************************************************************)
(* Taking alerts in                                                        *)
(***************************************************************************)

\* The rest of a queue is what is left to take in.
LEMMA TailIsRest ==
  ASSUME NEW line \in Seq(Int), line # <<>>
  PROVE  /\ Tail(line) \in Seq(Int)
         /\ \A j \in DOMAIN Tail(line) : \E n \in DOMAIN line : Tail(line)[j] = line[n]
         /\ \A n \in DOMAIN line : line[n] # Head(line) => \E j \in DOMAIN Tail(line) : Tail(line)[j] = line[n]
         /\ 1 \in DOMAIN line /\ Head(line) = line[1]
<1>1. /\ Len(line) \in Nat \ {0} /\ DOMAIN line = 1..Len(line) /\ Tail(line) \in Seq(Int)
      /\ DOMAIN Tail(line) = 1..(Len(line) - 1)
      /\ \A j \in 1..(Len(line) - 1) : Tail(line)[j] = line[j + 1]
      /\ Head(line) = line[1]
  BY HeadTailProperties, EmptySeq
<1>2. ASSUME NEW j \in DOMAIN Tail(line) PROVE \E n \in DOMAIN line : Tail(line)[j] = line[n]
  <2>1. j + 1 \in DOMAIN line /\ Tail(line)[j] = line[j + 1]
    BY <1>1
  <2> QED  BY <2>1
<1>3. ASSUME NEW n \in DOMAIN line, line[n] # Head(line)
      PROVE  \E j \in DOMAIN Tail(line) : Tail(line)[j] = line[n]
  <2>1. n # 1
    BY <1>1, <1>3
  <2>2. n - 1 \in 1..(Len(line) - 1) /\ (n - 1) + 1 = n
    BY <1>1, <2>1
  <2>3. Tail(line)[n - 1] = line[n]
    BY <1>1, <2>2
  <2> QED  BY <1>1, <2>2, <2>3
<1>4. 1 \in DOMAIN line
  BY <1>1
<1> QED  BY <1>1, <1>2, <1>3, <1>4

\* An own alert that is linked is no longer without an incident; all others are as they were.
LEMMA LinkedGoesOn ==
  ASSUME NEW m \in Nat, NEW x \in Transaction, Rows(x, m),
         NEW a \in (- Len(x.alerts))..(- 1), NEW i \in (- Len(x.incidents))..m, i # NoId
  PROVE  /\ Goes(x, Linked(x, a, i), m)
         /\ Linked(x, a, i).incidents = x.incidents
         /\ DOMAIN Linked(x, a, i).alerts = DOMAIN x.alerts
         /\ \A k \in DOMAIN x.alerts :
              Linked(x, a, i).alerts[k].incident = NoId => x.alerts[k].incident = NoId /\ - k # a
<1>1. /\ x.alerts \in Seq(AlertRow) /\ Len(x.alerts) \in Nat /\ DOMAIN x.alerts = 1..Len(x.alerts)
      /\ Len(x.incidents) \in Nat
  BY DEF Transaction
<1>2. - a \in DOMAIN x.alerts /\ - (- a) = a /\ a \in Int /\ ~ Committed(a) /\ i \in Int
  BY <1>1 DEF Committed
<1> DEFINE row == [x.alerts[- a] EXCEPT !.incident = i]
           more == [x.alerts EXCEPT ![- a] = row]
           y == [x EXCEPT !.alerts = more]
<1>3. x.alerts[- a] \in AlertRow
  BY <1>1, <1>2
<1>4. row \in AlertRow /\ row.incident = i /\ row.state = x.alerts[- a].state
  BY <1>2, <1>3 DEF AlertRow
<1>5. Linked(x, a, i) = y
  BY <1>2, SMTT(30) DEF Linked, Transaction
<1> HIDE DEF row
<1>6. /\ more \in Seq(AlertRow) /\ Len(more) = Len(x.alerts) /\ DOMAIN more = DOMAIN x.alerts
      /\ more[- a] = row /\ \A k \in DOMAIN x.alerts : k # - a => more[k] = x.alerts[k]
  BY <1>1, <1>2, <1>4
<1> HIDE DEF more
<1>7. y \in Transaction
  BY <1>6 DEF Transaction
<1>8. /\ y.alerts = more /\ y.incidents = x.incidents /\ y.queue = x.queue
      /\ y.pc = x.pc /\ y.todo = x.todo
  BY DEF Transaction
<1> HIDE DEF y
<1>9. Rows(y, m)
  <2>1. ASSUME NEW k \in DOMAIN y.alerts
        PROVE  y.alerts[k].state = "FIRING" /\ y.alerts[k].incident \in (- Len(y.incidents))..m
    <3>1. CASE k = - a
      BY <1>2, <1>4, <1>6, <1>8, <3>1 DEF Rows
    <3>2. CASE k # - a
      BY <1>6, <1>8, <3>2 DEF Rows
    <3> QED  BY <3>1, <3>2
  <2>2. \A k \in DOMAIN y.queue : y.queue[k] \in (- Len(y.alerts))..(- 1)
    BY <1>6, <1>8 DEF Rows
  <2> QED  BY <2>1, <2>2 DEF Rows
<1>10. ASSUME NEW k \in DOMAIN x.alerts, y.alerts[k].incident = NoId
       PROVE  x.alerts[k].incident = NoId /\ - k # a
  <2>1. k # - a
    BY <1>4, <1>6, <1>8, <1>10
  <2>2. - k # a
    BY <1>1, <1>2, <2>1
  <2> QED  BY <1>6, <1>8, <1>10, <2>1, <2>2
<1> QED  BY <1>5, <1>6, <1>7, <1>8, <1>9, <1>10 DEF Goes

\* The head of the queue is attached to an incident there is.
LEMMA AttachedIsSound ==
  ASSUME NEW m \in Nat, NEW x \in Transaction, Sound(x, m), x.pc = "ingest", x.queue # <<>>,
         NEW i \in (- Len(x.incidents))..m, i # NoId,
         NEW y, y = Linked(x, Head(x.queue), i)
  PROVE  /\ [y EXCEPT !.queue = Tail(y.queue)] \in Transaction
         /\ Sound([y EXCEPT !.queue = Tail(y.queue)], m)
<1> DEFINE a == Head(x.queue)
           z == [y EXCEPT !.queue = Tail(y.queue)]
<1>1. x.queue \in Seq(Int)
  BY DEF Transaction
<1>2. a \in (- Len(x.alerts))..(- 1)
  BY <1>1, TailIsRest DEF Sound, Rows
<1>3. /\ y \in Transaction /\ Rows(y, m) /\ y.pc = "ingest" /\ y.queue = x.queue
      /\ y.incidents = x.incidents /\ DOMAIN y.alerts = DOMAIN x.alerts
      /\ \A k \in DOMAIN x.alerts : y.alerts[k].incident = NoId => x.alerts[k].incident = NoId /\ - k # a
  BY <1>2, LinkedGoesOn DEF Goes, Sound
<1>4. z \in Transaction
  <2>1. Tail(y.queue) \in Seq(Int)
    BY <1>1, <1>3, TailIsRest
  <2> QED  BY <1>3, <2>1, Zenon DEF Transaction
<1>5. z.alerts = y.alerts /\ z.incidents = y.incidents /\ z.queue = Tail(y.queue) /\ z.pc = y.pc
  BY <1>3 DEF Transaction
<1> HIDE DEF z, a
<1>6. Rows(z, m)
  <2>1. \A j \in DOMAIN z.queue : \E n \in DOMAIN y.queue : z.queue[j] = y.queue[n]
    <3>1. y.queue \in Seq(Int) /\ y.queue # <<>>
      BY <1>1, <1>3
    <3> QED  BY <1>5, <3>1, TailIsRest
  <2> QED  BY <1>3, <1>5, <2>1 DEF Rows
<1>7. NothingLeftOut(z)
  <2> SUFFICES ASSUME NEW k \in DOMAIN z.alerts, z.alerts[k].incident = NoId
               PROVE  \E j \in DOMAIN z.queue : z.queue[j] = - k
    BY DEF NothingLeftOut
  <2>1. k \in DOMAIN x.alerts /\ x.alerts[k].incident = NoId /\ - k # a
    BY <1>3, <1>5
  <2>2. PICK n \in DOMAIN x.queue : x.queue[n] = - k
    BY <2>1 DEF Sound, NothingLeftOut
  <2>3. \E j \in DOMAIN Tail(x.queue) : Tail(x.queue)[j] = x.queue[n]
    BY <1>1, <2>1, <2>2, TailIsRest DEF a
  <2> QED  BY <1>3, <1>5, <2>2, <2>3
<1>8. Sound(z, m)
  BY <1>3, <1>5, <1>6, <1>7 DEF Sound
<1> QED  BY <1>4, <1>8 DEF z

\* The head of the queue gets an incident of its own.
LEMMA OpenedIsSound ==
  ASSUME NEW m \in Nat, NEW x \in Transaction, Sound(x, m), x.pc = "open", NEW inc \in IncidentRow,
         NEW y \in Transaction, y.alerts = x.alerts, y.incidents = Append(x.incidents, inc),
         y.queue = Tail(x.queue), y.pc = "ingest"
  PROVE  /\ Linked(y, Head(x.queue), - Len(y.incidents)) \in Transaction
         /\ Sound(Linked(y, Head(x.queue), - Len(y.incidents)), m)
<1> DEFINE a == Head(x.queue)
           i == - Len(y.incidents)
           z == Linked(y, a, i)
<1>1. /\ x.queue \in Seq(Int) /\ x.queue # <<>> /\ x.incidents \in Seq(IncidentRow)
      /\ Len(x.incidents) \in Nat /\ Len(x.alerts) \in Nat
  BY SMTT(30) DEF Transaction, Sound
<1>2. a \in (- Len(x.alerts))..(- 1)
  BY <1>1, TailIsRest DEF Sound, Rows
<1>5. Len(y.incidents) = Len(x.incidents) + 1
  BY <1>1
<1>6. Rows(y, m)
  <2>1. \A k \in DOMAIN y.alerts :
          y.alerts[k].state = "FIRING" /\ y.alerts[k].incident \in (- Len(y.incidents))..m
    BY <1>1, <1>5 DEF Sound, Rows
  <2>2. \A j \in DOMAIN y.queue : \E n \in DOMAIN x.queue : y.queue[j] = x.queue[n]
    BY <1>1, TailIsRest
  <2> QED  BY <2>1, <2>2 DEF Sound, Rows
<1>7. i \in (- Len(y.incidents))..m /\ i # NoId
  BY <1>1, <1>5 DEF NoId
<1>8. /\ z \in Transaction /\ Rows(z, m) /\ z.pc = "ingest" /\ z.queue = y.queue
      /\ DOMAIN z.alerts = DOMAIN y.alerts
      /\ \A k \in DOMAIN y.alerts : z.alerts[k].incident = NoId => y.alerts[k].incident = NoId /\ - k # a
  <2>1. PICK j \in (- Len(y.incidents))..m : j = i /\ j # NoId
    BY <1>7
  <2>2. PICK b \in (- Len(y.alerts))..(- 1) : b = a
    BY <1>2
  <2>3. PICK u \in Transaction : u = y
    OBVIOUS
  <2>4. Rows(u, m) /\ b \in (- Len(u.alerts))..(- 1) /\ j \in (- Len(u.incidents))..m /\ j # NoId
    BY <1>6, <2>1, <2>3
  <2>5. /\ Goes(u, Linked(u, b, j), m)
        /\ DOMAIN Linked(u, b, j).alerts = DOMAIN u.alerts
        /\ \A k \in DOMAIN u.alerts :
             Linked(u, b, j).alerts[k].incident = NoId => u.alerts[k].incident = NoId /\ - k # b
    BY <2>4, LinkedGoesOn
  <2>6. z = Linked(u, b, j)
    BY <2>1, <2>2, <2>3
  <2> HIDE DEF z, a, i
  <2> QED  BY <2>2, <2>3, <2>5, <2>6, Zenon DEF Goes
<1> HIDE DEF z, a
<1>9. NothingLeftOut(z)
  <2> SUFFICES ASSUME NEW k \in DOMAIN z.alerts, z.alerts[k].incident = NoId
               PROVE  \E j \in DOMAIN z.queue : z.queue[j] = - k
    BY DEF NothingLeftOut
  <2>1. k \in DOMAIN x.alerts /\ x.alerts[k].incident = NoId /\ - k # a
    BY <1>8
  <2>2. PICK n \in DOMAIN x.queue : x.queue[n] = - k
    BY <2>1 DEF Sound, NothingLeftOut
  <2>3. \E j \in DOMAIN Tail(x.queue) : Tail(x.queue)[j] = x.queue[n]
    BY <1>1, <2>1, <2>2, TailIsRest DEF a
  <2> QED  BY <1>8, <2>2, <2>3
<1>10. Sound(z, m)
  BY <1>8, <1>9 DEF Sound
<1> QED  BY <1>8, <1>10 DEF z, a

-----------------------------------------------------------------------------
(***************************************************************************)
(* Commits                                                                 *)
(***************************************************************************)

\* Two sequences, one after the other.
LEMMA BothParts ==
  ASSUME NEW S, NEW s \in Seq(S), NEW t \in Seq(S)
  PROVE  /\ s \o t \in Seq(S) /\ Len(s \o t) = Len(s) + Len(t)
         /\ \A a \in 1..(Len(s) + Len(t)) : (s \o t)[a] = IF a <= Len(s) THEN s[a] ELSE t[a - Len(s)]
BY ConcatProperties

\* A commit changes the state of committed alerts and adds the worker's own.
OldRows(x) == [a \in DOMAIN alerts |-> Written(x, a)]
OwnRows(x) == [k \in DOMAIN x.alerts |-> [x.alerts[k] EXCEPT !.incident = IncidentId(@)]]

LEMMA RowsOfCommit ==
  ASSUME TypeOK, AlertsAreLinked, NEW x \in Transaction, Sound(x, Len(incidents)),
         x.pc = "ingest", x.queue = <<>>
  PROVE  LET both == OldRows(x) \o OwnRows(x)
         IN  /\ both \in Seq(AlertRow) /\ incidents \o x.incidents \in Seq(IncidentRow)
             /\ Len(incidents \o x.incidents) = Len(incidents) + Len(x.incidents)
             /\ \A a \in DOMAIN both : both[a].incident \in 1..(Len(incidents) + Len(x.incidents))
             /\ \A a \in DOMAIN alerts :
                  /\ both[a].incident = alerts[a].incident
                  /\ alerts[a].state = "RESOLVED" => both[a].state = "RESOLVED"
<1>a. PICK old : old = OldRows(x)
  OBVIOUS
<1>b. PICK own : own = OwnRows(x)
  OBVIOUS
<1>0. /\ old = [a \in DOMAIN alerts |-> Written(x, a)]
      /\ own = [k \in DOMAIN x.alerts |-> [x.alerts[k] EXCEPT !.incident = IncidentId(@)]]
  BY <1>a, <1>b DEF OldRows, OwnRows
<1>1. /\ alerts \in Seq(AlertRow) /\ Len(alerts) \in Nat /\ DOMAIN alerts = 1..Len(alerts)
      /\ incidents \in Seq(IncidentRow) /\ Len(incidents) \in Nat /\ DOMAIN incidents = 1..Len(incidents)
  BY DEF TypeOK
<1>2. /\ x.alerts \in Seq(AlertRow) /\ Len(x.alerts) \in Nat /\ DOMAIN x.alerts = 1..Len(x.alerts)
      /\ x.incidents \in Seq(IncidentRow) /\ Len(x.incidents) \in Nat /\ DOMAIN x.links = {}
  BY DEF Transaction
<1>3. ASSUME NEW a \in DOMAIN alerts
      PROVE  /\ old[a] \in AlertRow /\ old[a].incident = alerts[a].incident
             /\ old[a].incident \in 1..Len(incidents)
             /\ alerts[a].state = "RESOLVED" => old[a].state = "RESOLVED"
  <2>1. alerts[a] \in AlertRow /\ alerts[a].incident \in 1..Len(incidents)
    BY <1>1 DEF AlertsAreLinked
  <2> DEFINE state == IF a \in x.resolved THEN "RESOLVED" ELSE alerts[a].state
             incident == alerts[a].incident
  <2>2. Written(x, a) = [alerts[a] EXCEPT !.state = state, !.incident = incident]
    BY <1>2, <2>1 DEF Written, Refreshed, AlertRow
  <2>4. state \in {"FIRING", "RESOLVED"} /\ incident \in Int
    BY <2>1 DEF AlertRow
  <2>3. Written(x, a) \in AlertRow /\ Written(x, a).incident = alerts[a].incident
        /\ (alerts[a].state = "RESOLVED" => Written(x, a).state = "RESOLVED")
    <3> HIDE DEF state, incident
    <3> DEFINE one == [alerts[a] EXCEPT !.state = state]
               two == [one EXCEPT !.incident = incident]
    <3>1. one \in AlertRow /\ one.state = state
      BY <2>1, <2>4 DEF AlertRow
    <3>2. Written(x, a) = two
      BY <2>2
    <3> HIDE DEF one
    <3>3. two \in AlertRow /\ two.state = state /\ two.incident = incident
      BY <2>4, <3>1 DEF AlertRow
    <3> QED  BY <3>2, <3>3 DEF state, incident
  <2>5. old[a] = Written(x, a)
    BY <1>0
  <2> QED  BY <2>1, <2>3, <2>5
<1>4. ASSUME NEW k \in DOMAIN x.alerts
      PROVE  own[k] \in AlertRow /\ own[k].incident \in 1..(Len(incidents) + Len(x.incidents))
  <2> DEFINE i == x.alerts[k].incident
  <2>1. x.alerts[k] \in AlertRow
    BY <1>2
  <2>2. i \in (- Len(x.incidents))..Len(incidents) /\ i # 0
    BY DEF Sound, Rows, NothingLeftOut, NoId
  <2>3. own[k] = [x.alerts[k] EXCEPT !.incident = IncidentId(i)]
    BY <1>0
  <2> HIDE DEF i
  <2>4. IncidentId(i) \in 1..(Len(incidents) + Len(x.incidents))
    BY <1>1, <1>2, <2>2 DEF IncidentId
  <2> QED  BY <2>1, <2>3, <2>4 DEF AlertRow
<1>5. old \in Seq(AlertRow) /\ Len(old) = Len(alerts)
  <2>1. old \in [1..Len(alerts) -> AlertRow]
    BY <1>0, <1>1, <1>3
  <2> QED  BY <1>0, <1>1, <2>1
<1>6. own \in Seq(AlertRow) /\ Len(own) = Len(x.alerts)
  <2>1. own \in [1..Len(x.alerts) -> AlertRow]
    BY <1>0, <1>2, <1>4
  <2> QED  BY <1>0, <1>2, <2>1
<1>7. /\ old \o own \in Seq(AlertRow) /\ DOMAIN (old \o own) = 1..(Len(alerts) + Len(x.alerts))
      /\ \A a \in 1..(Len(alerts) + Len(x.alerts)) :
           (old \o own)[a] = IF a <= Len(alerts) THEN old[a] ELSE own[a - Len(alerts)]
  <2>1. /\ old \o own \in Seq(AlertRow) /\ Len(old \o own) = Len(old) + Len(own)
        /\ \A a \in 1..(Len(old) + Len(own)) :
             (old \o own)[a] = IF a <= Len(old) THEN old[a] ELSE own[a - Len(old)]
    <3>1. old \in Seq(AlertRow) /\ own \in Seq(AlertRow)
      BY <1>5, <1>6
    <3> QED  BY <3>1, BothParts, Zenon
  <2>2. DOMAIN (old \o own) = 1..Len(old \o own)
    BY <2>1
  <2>3. Len(old) = Len(alerts) /\ Len(own) = Len(x.alerts)
    BY <1>5, <1>6
  <2> QED  BY <2>1, <2>2, <2>3, Zenon
<1>8. /\ incidents \o x.incidents \in Seq(IncidentRow)
      /\ Len(incidents \o x.incidents) = Len(incidents) + Len(x.incidents)
  BY <1>1, <1>2, ConcatProperties
<1>9. ASSUME NEW a \in DOMAIN (old \o own)
      PROVE  (old \o own)[a].incident \in 1..(Len(incidents) + Len(x.incidents))
  <2>1. CASE a <= Len(alerts)
    <3>1. a \in DOMAIN alerts /\ (old \o own)[a] = old[a]
      BY <1>1, <1>2, <1>7, <2>1
    <3>2. old[a].incident \in 1..Len(incidents)
      BY <1>3, <3>1
    <3> QED  BY <1>1, <1>2, <3>1, <3>2
  <2>2. CASE ~ (a <= Len(alerts))
    <3>1. a \in 1..(Len(alerts) + Len(x.alerts))
      BY <1>7
    <3>2. a - Len(alerts) \in DOMAIN x.alerts
      BY <1>1, <1>2, <2>2, <3>1
    <3>3. (old \o own)[a] = own[a - Len(alerts)]
      BY <1>7, <2>2, <3>1
    <3> QED  BY <1>4, <3>2, <3>3
  <2> QED  BY <2>1, <2>2
<1>10. \A a \in DOMAIN alerts : a \in 1..(Len(alerts) + Len(x.alerts)) /\ a <= Len(alerts)
  BY <1>1, <1>2
<1>11. \A a \in DOMAIN alerts : (old \o own)[a] = old[a]
  BY <1>7, <1>10
<1> QED  BY <1>3, <1>7, <1>8, <1>9, <1>11, <1>a, <1>b

\* What is sound stays so when more incidents are committed.
LEMMA SoundWithMore ==
  ASSUME NEW x \in Transaction, NEW m \in Nat, NEW n \in Nat, m <= n, Sound(x, m)
  PROVE  Sound(x, n)
<1>1. Len(x.incidents) \in Nat
  BY DEF Transaction
<1>2. Rows(x, n)
  BY <1>1 DEF Sound, Rows
<1> QED  BY <1>2 DEF Sound

-----------------------------------------------------------------------------
(***************************************************************************)
(* Every step keeps the invariant                                          *)
(***************************************************************************)

\* A worker is idle or has a sound transaction.
LEMMA WorkerIsSound ==
  ASSUME IInv, NEW w \in Workers, session[w].pc # "idle"
  PROVE  /\ session[w] \in Transaction /\ Sound(session[w], Len(incidents))
         /\ alerts \in Seq(AlertRow) /\ incidents \in Seq(IncidentRow) /\ Len(incidents) \in Nat
BY DEF IInv, TypeOK, Idle

\* A step that changes one session alone.
LEMMA SessionStep ==
  ASSUME IInv, NEW w \in Workers, NEW x, x = Idle \/ (x \in Transaction /\ Sound(x, Len(incidents))),
         session' = [session EXCEPT ![w] = x],
         UNCHANGED <<condition, rules, alerts, incidents, changes>>
  PROVE  IInv'
<1>1. TypeOK'
  BY DEF IInv, TypeOK
<1>2. AlertsAreLinked'
  BY DEF IInv, AlertsAreLinked
<1>3. ASSUME NEW v \in Workers, session'[v] # Idle PROVE Sound(session'[v], Len(incidents'))
  <2>1. session'[v] = IF v = w THEN x ELSE session[v]
    BY DEF IInv, TypeOK
  <2> QED  BY <1>3, <2>1 DEF IInv
<1> QED  BY <1>1, <1>2, <1>3 DEF IInv

\* The steps of a worker.
LEMMA BeginStep ==
  ASSUME IInv, NEW w \in Workers, Begin(w)
  PROVE  IInv'
<1> DEFINE x == [pc |-> "evaluate", todo |-> Rules, seen |-> 0, breach |-> FALSE, last |-> NoId,
                 loaded |-> rules, rules |-> rules, alerts |-> <<>>, resolved |-> {}, flushed |-> {},
                 refreshed |-> {}, links |-> [a \in {} |-> NoId], incidents |-> <<>>, held |-> {}, queue |-> <<>>]
<1>1. x \in Transaction
  <2>1. [a \in {} |-> NoId] \in [{} -> Int] /\ rules \in [Rule -> RuleRow] /\ Rules \in Seq(Rule)
    BY RulesAssumption DEF IInv, TypeOK
  <2>2. <<>> \in Seq(AlertRow) /\ <<>> \in Seq(IncidentRow) /\ <<>> \in Seq(Int)
    OBVIOUS
  <2> QED  BY <2>1, <2>2 DEF Transaction, NoId
<1>2. x.alerts = <<>> /\ x.queue = <<>> /\ x.pc = "evaluate" /\ x.todo # <<>>
  BY DEF Begin
<1>3. session' = [session EXCEPT ![w] = x] /\ UNCHANGED <<condition, rules, alerts, incidents, changes>>
  BY DEF Begin
<1> HIDE DEF x
<1>4. Sound(x, Len(incidents))
  BY <1>2 DEF Sound, Rows
<1>5. PICK y : y = x
  OBVIOUS
<1> QED  BY <1>1, <1>3, <1>4, <1>5, SessionStep

LEMMA EvaluateRuleStep ==
  ASSUME IInv, NEW w \in Workers, EvaluateRule(w)
  PROVE  IInv'
<1>1. PICK x0 : x0 = session[w]
  OBVIOUS
<1> DEFINE r == Head(x0.todo)
           x == Evaluated(x0, r)
           y == IF x.seen >= Len(Targets[r]) THEN Concluded(x, r) ELSE x
<1>2. x0 \in Transaction /\ Sound(x0, Len(incidents)) /\ x0.pc = "evaluate" /\ TypeOK /\ AlertsAreLinked /\ Len(incidents) \in Nat
  BY <1>1, WorkerIsSound DEF EvaluateRule, IInv
<1>3. r \in Rule /\ x0.todo # <<>> /\ x0.todo \in Seq(Rule)
  <2>1. x0.todo # <<>> /\ x0.todo \in Seq(Rule)
    BY <1>2 DEF Sound, Transaction
  <2> QED  BY <2>1, HeadTailProperties
<1>4. /\ IF y.todo # <<>> THEN session' = [session EXCEPT ![w] = y]
         ELSE \E l \in ToIngest(y) :
                session' = [session EXCEPT ![w] = [y EXCEPT !.pc = "ingest", !.flushed = {}, !.queue = l]]
      /\ UNCHANGED <<condition, rules, alerts, incidents, changes>>
  BY <1>1 DEF EvaluateRule
<1> HIDE DEF r
<1>5. x \in Transaction /\ Rows(x, Len(incidents)) /\ x.pc = "evaluate" /\ x.todo # <<>>
  <2>1. PICK m \in Nat : m = Len(incidents)
    BY <1>2
  <2>2. PICK s \in Rule : s = r
    BY <1>3
  <2>3. Goes(x0, Evaluated(x0, s), m)
    BY <1>2, <2>1, EvaluatedGoesOn DEF Sound
  <2> QED  BY <1>2, <1>3, <2>1, <2>2, <2>3 DEF Goes
<1>6. y \in Transaction /\ Rows(y, Len(incidents)) /\ y.pc = "evaluate"
  <2>1. CASE x.seen >= Len(Targets[r])
    <3>0. PICK z : z = x
      OBVIOUS
    <3>1. PICK s \in Rule : s = r
      BY <1>3
    <3>2. /\ Concluded(z, s) \in Transaction /\ Rows(Concluded(z, s), Len(incidents))
          /\ Concluded(z, s).pc = "evaluate"
      BY <1>2, <1>5, <3>0, ConcludedIsSound
    <3> QED  BY <2>1, <3>0, <3>1, <3>2
  <2>2. CASE ~ (x.seen >= Len(Targets[r]))
    BY <1>5, <2>2
  <2> QED  BY <2>1, <2>2
<1> HIDE DEF x, y
<1>7. CASE y.todo # <<>>
  <2>1. Sound(y, Len(incidents))
    BY <1>6, <1>7 DEF Sound
  <2>2. PICK z : z = y
    OBVIOUS
  <2> QED  BY <1>4, <1>6, <1>7, <2>1, <2>2, SessionStep
<1>8. CASE ~ (y.todo # <<>>)
  <2>1. PICK l \in ToIngest(y) :
          session' = [session EXCEPT ![w] = [y EXCEPT !.pc = "ingest", !.flushed = {}, !.queue = l]]
    BY <1>4, <1>8
  <2>2. PICK z : z = y
    OBVIOUS
  <2>3. /\ [z EXCEPT !.pc = "ingest", !.flushed = {}, !.queue = l] \in Transaction
        /\ Sound([z EXCEPT !.pc = "ingest", !.flushed = {}, !.queue = l], Len(incidents))
    BY <1>2, <1>6, <2>1, <2>2, ToIngestIsComplete
  <2>4. PICK u : u = [z EXCEPT !.pc = "ingest", !.flushed = {}, !.queue = l]
    OBVIOUS
  <2> QED  BY <1>4, <2>1, <2>2, <2>3, <2>4, SessionStep
<1> QED  BY <1>7, <1>8

LEMMA CorrelateStep ==
  ASSUME IInv, NEW w \in Workers, Correlate(w)
  PROVE  IInv'
<1>1. PICK x0 : x0 = session[w]
  OBVIOUS
<1> DEFINE a == Head(x0.queue)
           i == Correlated(x0, a)
           loaded == IF Deduplicated(x0, a) THEN {i} ELSE Candidates(x0)
           x == [x0 EXCEPT !.held = x0.held \cup loaded]
<1>2. /\ x0 \in Transaction /\ Sound(x0, Len(incidents)) /\ x0.pc = "ingest" /\ x0.queue # <<>>
      /\ alerts \in Seq(AlertRow) /\ incidents \in Seq(IncidentRow) /\ Len(incidents) \in Nat /\ AlertsAreLinked
  BY <1>1, WorkerIsSound DEF Correlate, IInv
<1>3. /\ session' = [session EXCEPT ![w] =
           IF i = NoId THEN [x EXCEPT !.pc = "open"] ELSE [Linked(x, a, i) EXCEPT !.queue = Tail(Linked(x, a, i).queue)]]
      /\ UNCHANGED <<condition, rules, alerts, incidents, changes>>
  BY <1>1 DEF Correlate
<1>4. a \in Int
  <2>1. x0.queue \in Seq(Int)
    BY <1>2 DEF Transaction
  <2> QED  BY <1>2, <2>1, HeadTailProperties
<1>5. i \in (- Len(x0.incidents))..Len(incidents)
  <2>1. PICK b \in Int : b = a
    BY <1>4
  <2>2. Correlated(x0, b) \in (- Len(x0.incidents))..Len(incidents)
    BY <1>2, CorrelatedExists DEF Sound
  <2> QED  BY <2>1, <2>2
<1>6. loaded \subseteq Int
  <2>1. Len(x0.incidents) \in Nat
    BY <1>2 DEF Transaction
  <2> HIDE DEF i
  <2>2. i \in Int /\ Candidates(x0) \subseteq Int
    BY <1>2, <1>5, <2>1 DEF Candidates, IncidentIds
  <2> QED  BY <2>2
<1> HIDE DEF i, loaded
<1>7. x \in Transaction
  <2>1. x0.held \cup loaded \in SUBSET Int
    BY <1>2, <1>6 DEF Transaction
  <2> QED  BY <1>2, <2>1 DEF Transaction
<1>8. x.alerts = x0.alerts /\ x.incidents = x0.incidents /\ x.queue = x0.queue /\ x.pc = x0.pc
  BY <1>2 DEF Transaction
<1> HIDE DEF x
<1>9. Sound(x, Len(incidents)) /\ x.pc = "ingest" /\ x.queue # <<>> /\ a = Head(x.queue)
  BY <1>2, <1>8 DEF Sound, Rows, NothingLeftOut
<1> HIDE DEF a
<1>10. CASE i = NoId
  <2> DEFINE y == [x EXCEPT !.pc = "open"]
  <2>1. y \in Transaction
    BY <1>7 DEF Transaction
  <2>2. y.alerts = x.alerts /\ y.incidents = x.incidents /\ y.queue = x.queue /\ y.pc = "open"
    BY <1>7 DEF Transaction
  <2>3. PICK z : z = y
    OBVIOUS
  <2> HIDE DEF y
  <2>4. Sound(z, Len(incidents))
    BY <1>9, <2>2, <2>3 DEF Sound, Rows, NothingLeftOut
  <2>5. session' = [session EXCEPT ![w] = z]
    BY <1>3, <1>10, <2>3 DEF y
  <2> QED  BY <1>3, <2>1, <2>3, <2>4, <2>5, SessionStep
<1>11. CASE i # NoId
  <2>1. PICK m \in Nat : m = Len(incidents)
    BY <1>2
  <2>2. PICK z : z = x
    OBVIOUS
  <2>3. PICK j \in (- Len(z.incidents))..m : j = i
    BY <1>5, <1>8, <2>1, <2>2
  <2>4. PICK y : y = Linked(z, Head(z.queue), j)
    OBVIOUS
  <2>5. /\ [y EXCEPT !.queue = Tail(y.queue)] \in Transaction
        /\ Sound([y EXCEPT !.queue = Tail(y.queue)], m)
    BY <1>7, <1>9, <1>11, <2>1, <2>2, <2>3, <2>4, AttachedIsSound
  <2>6. PICK u : u = [y EXCEPT !.queue = Tail(y.queue)]
    OBVIOUS
  <2>7. session' = [session EXCEPT ![w] = u]
    BY <1>3, <1>9, <1>11, <2>2, <2>3, <2>4, <2>6
  <2> QED  BY <1>3, <2>1, <2>5, <2>6, <2>7, SessionStep
<1> QED  BY <1>10, <1>11

LEMMA OpenIncidentStep ==
  ASSUME IInv, NEW w \in Workers, OpenIncident(w)
  PROVE  IInv'
<1>1. PICK x : x = session[w]
  OBVIOUS
<1> DEFINE a == Head(x.queue)
           inc == [ref |-> NextRef(x), service |-> Alert(x, a).service, open |-> TRUE]
           rest == Tail(x.queue)
           more == Append(x.incidents, inc)
           y == [x EXCEPT !.incidents = more, !.pc = "ingest", !.queue = rest]
<1>2. /\ x \in Transaction /\ Sound(x, Len(incidents)) /\ x.pc = "open" /\ x.queue # <<>>
      /\ alerts \in Seq(AlertRow) /\ incidents \in Seq(IncidentRow) /\ Len(incidents) \in Nat /\ AlertsAreLinked
  BY <1>1, WorkerIsSound DEF OpenIncident, Sound, IInv
<1>3. session' = [session EXCEPT ![w] = Linked(y, a, - Len(y.incidents))]
      /\ UNCHANGED <<condition, rules, alerts, incidents, changes>>
  BY <1>1 DEF OpenIncident
<1>4. inc \in IncidentRow
  <2>1. NextRef(x) \in Nat
    BY <1>2, NextRefIsNumber
  <2>2. x.queue \in Seq(Int) /\ Len(x.alerts) \in Nat /\ DOMAIN x.alerts = 1..Len(x.alerts)
        /\ \A k \in DOMAIN x.alerts : x.alerts[k] \in AlertRow
    BY <1>2 DEF Transaction
  <2>3. 1 \in DOMAIN x.queue /\ a = x.queue[1]
    BY <1>2, <2>2, TailIsRest
  <2>4. a \in (- Len(x.alerts))..(- 1)
    BY <1>2, <2>3 DEF Sound, Rows
  <2> HIDE DEF a
  <2>5. - a \in DOMAIN x.alerts /\ ~ Committed(a)
    BY <2>2, <2>4 DEF Committed
  <2>6. Alert(x, a) = x.alerts[- a] /\ x.alerts[- a] \in AlertRow
    BY <2>2, <2>5 DEF Alert
  <2>7. Alert(x, a).service \in Watched
    BY <2>6 DEF AlertRow
  <2> QED  BY <2>1, <2>7 DEF IncidentRow
<1> HIDE DEF inc
<1>5. rest \in Seq(Int) /\ more \in Seq(IncidentRow)
  <2>1. x.queue \in Seq(Int) /\ x.incidents \in Seq(IncidentRow)
    BY <1>2 DEF Transaction
  <2> QED  BY <1>2, <1>4, <2>1, TailIsRest, AppendProperties
<1>6. y \in Transaction /\ y.alerts = x.alerts /\ y.incidents = more /\ y.queue = rest /\ y.pc = "ingest"
  <2> HIDE DEF rest, more
  <2>1. y \in Transaction
    BY <1>2, <1>5 DEF Transaction
  <2>2. y.alerts = x.alerts /\ y.incidents = more /\ y.queue = rest /\ y.pc = "ingest"
    BY <1>2 DEF Transaction
  <2> QED  BY <2>1, <2>2
<1> HIDE DEF y
<1>7. PICK m \in Nat : m = Len(incidents)
  BY <1>2
<1>8. PICK new \in IncidentRow : new = inc
  BY <1>4
<1>9. PICK z \in Transaction :
        z = y /\ z.alerts = x.alerts /\ z.incidents = Append(x.incidents, new) /\ z.queue = Tail(x.queue) /\ z.pc = "ingest"
  BY <1>6, <1>8
<1>10. /\ Linked(z, Head(x.queue), - Len(z.incidents)) \in Transaction
       /\ Sound(Linked(z, Head(x.queue), - Len(z.incidents)), m)
  BY <1>2, <1>7, <1>9, OpenedIsSound
<1>11. PICK u : u = Linked(z, Head(x.queue), - Len(z.incidents))
  OBVIOUS
<1>12. session' = [session EXCEPT ![w] = u]
  BY <1>3, <1>9, <1>11
<1> QED  BY <1>3, <1>7, <1>10, <1>11, <1>12, SessionStep

LEMMA RollBackStep ==
  ASSUME IInv, NEW w \in Workers, RollBack(w)
  PROVE  IInv'
<1>1. session' = [session EXCEPT ![w] = Idle] /\ UNCHANGED <<condition, rules, alerts, incidents, changes>>
  BY DEF RollBack
<1> QED  BY <1>1, SessionStep

\* A commit adds alerts that are linked, and neither brings back nor moves another.
LEMMA CommitStep ==
  ASSUME IInv, NEW w \in Workers, Commit(w)
  PROVE  IInv' /\ \A a \in DOMAIN alerts :
                    /\ alerts[a].state = "RESOLVED" => alerts'[a].state = "RESOLVED"
                    /\ alerts'[a].incident = alerts[a].incident
<1>1. PICK x : x = session[w]
  OBVIOUS
<1>2. /\ x \in Transaction /\ Sound(x, Len(incidents)) /\ x.pc = "ingest" /\ x.queue = <<>>
      /\ incidents \in Seq(IncidentRow) /\ Len(incidents) \in Nat /\ AlertsAreLinked /\ TypeOK
  BY <1>1, WorkerIsSound DEF Commit, IInv
<1>3. PICK old : old = OldRows(x)
  OBVIOUS
<1>4. PICK own : own = OwnRows(x)
  OBVIOUS
<1>5. /\ alerts' = old \o own /\ incidents' = incidents \o x.incidents
      /\ rules' = [r \in Rule |-> Updated(x, r)] /\ session' = [session EXCEPT ![w] = Idle]
      /\ UNCHANGED <<condition, changes>>
  BY <1>1, <1>3, <1>4 DEF Commit, OldRows, OwnRows
<1>6. /\ old \o own \in Seq(AlertRow) /\ incidents \o x.incidents \in Seq(IncidentRow)
      /\ Len(incidents \o x.incidents) = Len(incidents) + Len(x.incidents)
      /\ \A a \in DOMAIN (old \o own) : (old \o own)[a].incident \in 1..(Len(incidents) + Len(x.incidents))
      /\ \A a \in DOMAIN alerts :
           /\ (old \o own)[a].incident = alerts[a].incident
           /\ alerts[a].state = "RESOLVED" => (old \o own)[a].state = "RESOLVED"
  BY <1>2, <1>3, <1>4, RowsOfCommit
<1>7. rules' \in [Rule -> RuleRow]
  <2>1. rules \in [Rule -> RuleRow] /\ x.rules \in [Rule -> RuleRow] /\ Len(alerts) \in Nat
    BY <1>2 DEF Transaction, TypeOK
  <2>2. ASSUME NEW r \in Rule PROVE Updated(x, r) \in RuleRow
    <3>1. rules[r] \in RuleRow /\ x.rules[r] \in RuleRow
      BY <2>1
    <3>2. AlertId(x.rules[r].active) \in Int
      BY <2>1, <3>1 DEF AlertId, RuleRow
    <3> QED  BY <3>1, <3>2 DEF Updated, RuleRow
  <2> QED  BY <1>5, <2>2
<1>8. Len(x.incidents) \in Nat /\ Len(incidents') = Len(incidents) + Len(x.incidents) /\ DOMAIN incidents' = 1..Len(incidents')
  BY <1>2, <1>5, <1>6 DEF Transaction
<1>9. TypeOK'
  BY <1>2, <1>5, <1>6, <1>7 DEF TypeOK
<1>10. AlertsAreLinked'
  BY <1>5, <1>6, <1>8 DEF AlertsAreLinked
<1>11. ASSUME NEW v \in Workers, session'[v] # Idle PROVE Sound(session'[v], Len(incidents'))
  <2>1. session'[v] = session[v] /\ session[v] # Idle
    BY <1>2, <1>5, <1>11 DEF TypeOK
  <2>2. PICK y : y = session[v]
    OBVIOUS
  <2>3. y \in Transaction /\ Sound(y, Len(incidents))
    BY <2>1, <2>2 DEF IInv, TypeOK
  <2>4. PICK m \in Nat, n \in Nat : m = Len(incidents) /\ n = Len(incidents') /\ m <= n
    BY <1>2, <1>8
  <2>5. Sound(y, n)
    BY <2>3, <2>4, SoundWithMore
  <2> QED  BY <2>1, <2>2, <2>4, <2>5
<1>12. IInv'
  BY <1>9, <1>10, <1>11 DEF IInv
<1> QED  BY <1>5, <1>6, <1>12


-----------------------------------------------------------------------------
(***************************************************************************)
(* What goes on around the workers                                         *)
(***************************************************************************)

\* Telemetry and time change no alert, no incident and no transaction's alerts.
LEMMA ChangeStep ==
  ASSUME IInv, NEW r \in Rule, NEW s \in DOMAIN condition[r], Change(r, s)
  PROVE  IInv'
<1>1. PICK c \in {Clear, "fresh", "long"} : condition' = [condition EXCEPT ![r][s] = c]
  BY DEF Change
<1>2. changes' \in Nat /\ UNCHANGED <<rules, alerts, incidents, session>>
  BY DEF Change, IInv, TypeOK
<1>3. DOMAIN condition' = Rule
  BY <1>1 DEF IInv, TypeOK
<1>4. ASSUME NEW t \in Rule
      PROVE  condition'[t] \in [Range(Targets[t]) -> {Clear, "fresh", "long"}]
  <2>1. condition[t] \in [Range(Targets[t]) -> {Clear, "fresh", "long"}] /\ DOMAIN condition = Rule
    BY DEF IInv, TypeOK
  <2>2. condition'[t] = IF t = r THEN [condition[t] EXCEPT ![s] = c] ELSE condition[t]
    BY <1>1, <2>1
  <2> QED  BY <2>1, <2>2
<1>5. TypeOK'
  BY <1>2, <1>3, <1>4 DEF IInv, TypeOK
<1>6. AlertsAreLinked'
  BY <1>2 DEF IInv, AlertsAreLinked
<1>7. \A w \in Workers : session'[w] # Idle => Sound(session'[w], Len(incidents'))
  BY <1>2 DEF IInv
<1> QED  BY <1>5, <1>6, <1>7 DEF IInv

LEMMA AgedRulesAreRules ==
  ASSUME NEW table \in [Rule -> RuleRow]
  PROVE  AgedRules(table) \in [Rule -> RuleRow]
<1>1. ASSUME NEW r \in Rule
      PROVE  [table[r] EXCEPT !.since = Aged(@)] \in RuleRow
  <2>1. table[r] \in RuleRow
    OBVIOUS
  <2> DEFINE age == Aged(table[r].since)
  <2>2. age \in {Null, "fresh", "long"}
    BY <2>1 DEF RuleRow, Aged
  <2> HIDE DEF age
  <2>3. [table[r] EXCEPT !.since = age] \in RuleRow
    BY <2>1, <2>2 DEF RuleRow
  <2> QED  BY <2>3 DEF age
<1> QED  BY <1>1 DEF AgedRules

LEMMA AgedIsSound ==
  ASSUME NEW m \in Nat, NEW x \in Transaction, Sound(x, m)
  PROVE  LET y == [x EXCEPT !.rules = AgedRules(@), !.loaded = AgedRules(@)]
         IN  y \in Transaction /\ Sound(y, m)
<1> DEFINE one == AgedRules(x.rules)
           two == AgedRules(x.loaded)
           y == [x EXCEPT !.rules = one, !.loaded = two]
<1>1. one \in [Rule -> RuleRow] /\ two \in [Rule -> RuleRow]
  <2>1. x.rules \in [Rule -> RuleRow] /\ x.loaded \in [Rule -> RuleRow]
    BY DEF Transaction
  <2> QED  BY <2>1, AgedRulesAreRules
<1>2. y = [x EXCEPT !.rules = AgedRules(@), !.loaded = AgedRules(@)]
  BY DEF Transaction
<1> HIDE DEF one, two
<1>3. y \in Transaction
  BY <1>1 DEF Transaction
<1>4. y.alerts = x.alerts /\ y.incidents = x.incidents /\ y.queue = x.queue /\ y.pc = x.pc /\ y.todo = x.todo
  BY DEF Transaction
<1> HIDE DEF y
<1>5. Sound(y, m)
  BY <1>4 DEF Sound, Rows, NothingLeftOut
<1> QED  BY <1>2, <1>3, <1>5

LEMMA PassStep ==
  ASSUME IInv, Pass
  PROVE  IInv'
<1>1. UNCHANGED <<alerts, incidents, changes>>
  BY DEF Pass
<1>2. DOMAIN condition' = Rule
  BY DEF Pass
<1>3. ASSUME NEW r \in Rule
      PROVE  condition'[r] \in [Range(Targets[r]) -> {Clear, "fresh", "long"}]
  <2>1. condition[r] \in [Range(Targets[r]) -> {Clear, "fresh", "long"}]
    BY DEF IInv, TypeOK
  <2>2. condition'[r] = [s \in Range(Targets[r]) |-> Aged(condition[r][s])]
    BY <2>1 DEF Pass
  <2> QED  BY <2>1, <2>2 DEF Aged
<1>4. rules' \in [Rule -> RuleRow]
  BY AgedRulesAreRules DEF Pass, IInv, TypeOK
<1>5. ASSUME NEW w \in Workers
      PROVE  IF session[w] = Idle THEN session'[w] = Idle
             ELSE session'[w] \in Transaction /\ Sound(session'[w], Len(incidents))
  <2>1. CASE session[w] = Idle
    BY <2>1 DEF Pass
  <2>2. CASE session[w] # Idle
    <3>1. PICK x : x = session[w]
      OBVIOUS
    <3>2. x \in Transaction /\ Sound(x, Len(incidents)) /\ Len(incidents) \in Nat
      BY <2>2, <3>1 DEF IInv, TypeOK
    <3>3. session'[w] = [x EXCEPT !.rules = AgedRules(@), !.loaded = AgedRules(@)]
      BY <2>2, <3>1 DEF Pass
    <3>4. PICK m \in Nat : m = Len(incidents)
      BY <3>2
    <3>5. /\ [x EXCEPT !.rules = AgedRules(@), !.loaded = AgedRules(@)] \in Transaction
          /\ Sound([x EXCEPT !.rules = AgedRules(@), !.loaded = AgedRules(@)], m)
      BY <3>2, <3>4, AgedIsSound
    <3>6. PICK y : y = [x EXCEPT !.rules = AgedRules(@), !.loaded = AgedRules(@)]
      OBVIOUS
    <3> QED  BY <2>2, <3>3, <3>4, <3>5, <3>6
  <2> QED  BY <2>1, <2>2
<1>6. session' \in [Workers -> {Idle} \cup Transaction]
  BY <1>5 DEF Pass
<1>7. TypeOK'
  BY <1>1, <1>2, <1>3, <1>4, <1>6 DEF IInv, TypeOK
<1>8. AlertsAreLinked'
  BY <1>1 DEF IInv, AlertsAreLinked
<1>9. \A w \in Workers : session'[w] # Idle => Sound(session'[w], Len(incidents'))
  BY <1>1, <1>5
<1> QED  BY <1>7, <1>8, <1>9 DEF IInv

\* Somebody resolves an incident, and with it the alerts that are committed for it.
LEMMA ResolveStep ==
  ASSUME IInv, NEW i \in DOMAIN incidents, Resolve(i)
  PROVE  IInv' /\ \A a \in DOMAIN alerts :
                    /\ alerts[a].state = "RESOLVED" => alerts'[a].state = "RESOLVED"
                    /\ alerts'[a].incident = alerts[a].incident
<1>1. /\ incidents' = [incidents EXCEPT ![i].open = FALSE] /\ changes' \in Nat
      /\ alerts' = [a \in DOMAIN alerts |->
                      IF alerts[a].incident = i THEN [alerts[a] EXCEPT !.state = "RESOLVED"] ELSE alerts[a]]
      /\ UNCHANGED <<condition, rules, session>>
  BY DEF Resolve, IInv, TypeOK
<1>2. /\ alerts \in Seq(AlertRow) /\ Len(alerts) \in Nat /\ DOMAIN alerts = 1..Len(alerts)
      /\ incidents \in Seq(IncidentRow) /\ Len(incidents) \in Nat /\ DOMAIN incidents = 1..Len(incidents)
  BY DEF IInv, TypeOK
<1>3. incidents' \in Seq(IncidentRow) /\ Len(incidents') = Len(incidents) /\ DOMAIN incidents' = DOMAIN incidents
  <2>1. PICK inc : inc = [incidents[i] EXCEPT !.open = FALSE]
    OBVIOUS
  <2>2. incidents[i] \in IncidentRow
    BY <1>2
  <2>3. inc \in IncidentRow
    BY <2>1, <2>2 DEF IncidentRow
  <2>4. incidents' = [incidents EXCEPT ![i] = inc]
    BY <1>1, <2>1
  <2> QED  BY <1>2, <2>3, <2>4
<1>4. ASSUME NEW a \in DOMAIN alerts
      PROVE  /\ alerts'[a] \in AlertRow /\ alerts'[a].incident = alerts[a].incident
             /\ alerts[a].state = "RESOLVED" => alerts'[a].state = "RESOLVED"
  <2>1. alerts[a] \in AlertRow
    BY <1>2
  <2>2. CASE alerts[a].incident = i
    <3>1. alerts'[a] = [alerts[a] EXCEPT !.state = "RESOLVED"]
      BY <1>1, <2>2
    <3> QED  BY <2>1, <3>1 DEF AlertRow
  <2>3. CASE alerts[a].incident # i
    <3>1. alerts'[a] = alerts[a]
      BY <1>1, <2>3
    <3> QED  BY <2>1, <3>1
  <2> QED  BY <2>2, <2>3
<1>5. alerts' \in Seq(AlertRow) /\ DOMAIN alerts' = DOMAIN alerts
  <2>1. alerts' \in [1..Len(alerts) -> AlertRow]
    BY <1>1, <1>2, <1>4
  <2> QED  BY <1>2, <2>1
<1>6. TypeOK'
  BY <1>1, <1>3, <1>5 DEF IInv, TypeOK
<1>7. AlertsAreLinked'
  BY <1>3, <1>4, <1>5 DEF IInv, AlertsAreLinked
<1>8. \A w \in Workers : session'[w] # Idle => Sound(session'[w], Len(incidents'))
  BY <1>1, <1>3 DEF IInv
<1> QED  BY <1>4, <1>6, <1>7, <1>8 DEF IInv

-----------------------------------------------------------------------------
(***************************************************************************)
(* The theorems                                                            *)
(***************************************************************************)

\* Nothing has happened at first.
LEMMA InitIsSound == Init => IInv
<1> SUFFICES ASSUME Init PROVE IInv
  OBVIOUS
<1>1. DOMAIN condition = Rule
      /\ \A r \in Rule : condition[r] \in [Range(Targets[r]) -> {Clear, "fresh", "long"}]
  BY DEF Init
<1>2. rules \in [Rule -> RuleRow]
  BY DEF Init, RuleRow, NoId
<1>3. alerts \in Seq(AlertRow) /\ incidents \in Seq(IncidentRow) /\ DOMAIN alerts = {}
  BY DEF Init
<1>4. session \in [Workers -> {Idle} \cup Transaction] /\ \A w \in Workers : session[w] = Idle
  BY DEF Init
<1> QED  BY <1>1, <1>2, <1>3, <1>4 DEF Init, IInv, TypeOK, AlertsAreLinked

\* Only a commit changes the committed alerts.
LEMMA WorkStep ==
  ASSUME IInv, NEW w \in Workers, Work(w)
  PROVE  IInv' /\ (alerts' = alerts \/ Commit(w))
<1>1. ASSUME Begin(w) PROVE IInv' /\ alerts' = alerts
  BY <1>1, BeginStep DEF Begin
<1>2. ASSUME EvaluateRule(w) PROVE IInv' /\ alerts' = alerts
  BY <1>2, EvaluateRuleStep DEF EvaluateRule
<1>3. ASSUME Correlate(w) PROVE IInv' /\ alerts' = alerts
  BY <1>3, CorrelateStep DEF Correlate
<1>4. ASSUME OpenIncident(w) PROVE IInv' /\ alerts' = alerts
  BY <1>4, OpenIncidentStep DEF OpenIncident
<1>5. ASSUME Commit(w) PROVE IInv'
  BY <1>5, CommitStep
<1>6. ASSUME RollBack(w) PROVE IInv' /\ alerts' = alerts
  BY <1>6, RollBackStep DEF RollBack
<1> QED  BY <1>1, <1>2, <1>3, <1>4, <1>5, <1>6 DEF Work

\* What a step may never do to a committed alert.
AlertsGoOn ==
  \A a \in DOMAIN alerts :
    /\ alerts[a].state = "RESOLVED" => alerts'[a].state = "RESOLVED"
    /\ alerts'[a].incident = alerts[a].incident

LEMMA NextStep ==
  ASSUME IInv, [Next]_vars
  PROVE  IInv' /\ AlertsGoOn
<1>1. ASSUME alerts' = alerts PROVE AlertsGoOn
  BY <1>1 DEF AlertsGoOn
<1>2. ASSUME NEW w \in Workers, Work(w) PROVE IInv' /\ AlertsGoOn
  <2>1. IInv' /\ (alerts' = alerts \/ Commit(w))
    BY <1>2, WorkStep
  <2>2. ASSUME Commit(w) PROVE AlertsGoOn
    BY <2>2, CommitStep DEF AlertsGoOn
  <2> QED  BY <1>1, <2>1, <2>2
<1>3. ASSUME NEW r \in Rule, NEW s \in DOMAIN condition[r], Change(r, s) PROVE IInv' /\ AlertsGoOn
  <2>1. alerts' = alerts
    BY <1>3 DEF Change
  <2> QED  BY <1>1, <1>3, <2>1, ChangeStep
<1>4. ASSUME Pass PROVE IInv' /\ AlertsGoOn
  <2>1. alerts' = alerts
    BY <1>4 DEF Pass
  <2> QED  BY <1>1, <1>4, <2>1, PassStep
<1>5. ASSUME NEW i \in DOMAIN incidents, Resolve(i) PROVE IInv' /\ AlertsGoOn
  BY <1>5, ResolveStep DEF AlertsGoOn
<1>6. CASE UNCHANGED vars
  <2>1. UNCHANGED <<condition, rules, alerts, incidents, session, changes>>
    BY <1>6 DEF vars
  <2>2. TypeOK' /\ AlertsAreLinked'
    BY <2>1 DEF IInv, TypeOK, AlertsAreLinked
  <2>3. IInv'
    BY <2>1, <2>2 DEF IInv
  <2> QED  BY <1>1, <2>1, <2>3
<1> QED  BY <1>2, <1>3, <1>4, <1>5, <1>6 DEF Next

\* What the workers keep, whatever they do at the same time.
THEOREM DetectionSound == Spec => []IInv
<1>1. IInv /\ [Next]_vars => IInv'
  BY NextStep
<1> QED  BY <1>1, InitIsSound, PTL DEF Spec

\* An alert is never committed without an incident that exists: however many workers, rules
\* and services there are, whatever is rolled back, and in whatever order the rows come.
THEOREM AlertsAlwaysLinked == Spec => []AlertsAreLinked
<1>1. IInv => AlertsAreLinked
  BY DEF IInv
<1> QED  BY <1>1, DetectionSound, PTL

\* An alert that is resolved stays so, and no alert moves to another incident: no worker
\* brings back what it has read before somebody resolved it.
THEOREM AlertsAlwaysEnd == Spec => AlertsEnd
<1>1. IInv /\ [Next]_vars =>
        [\A a \in DOMAIN alerts :
           /\ alerts[a].state = "RESOLVED" => alerts'[a].state = "RESOLVED"
           /\ alerts'[a].incident = alerts[a].incident]_vars
  BY NextStep DEF AlertsGoOn
<1> QED  BY <1>1, DetectionSound, PTL DEF Spec, AlertsEnd
=============================================================================
