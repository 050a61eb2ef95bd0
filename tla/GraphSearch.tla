---------------------------- MODULE GraphSearch -----------------------------
(***************************************************************************)
(* The dependency graph of an environment and the searches through it      *)
(* (catalog/graph.py).  A request loads the graph from the tables, in any  *)
(* shape people have entered it, cycles and self-dependencies included,    *)
(* and searches it from one service, down its dependencies or up its       *)
(* dependents.  A step is a pass of the loop of _bfs.                      *)
(***************************************************************************)
EXTENDS Integers, Sequences, FiniteSets

CONSTANT Service       \* the services of the environment

VARIABLES depends_on,  \* the graph that is loaded: what each service calls
          up,          \* whether dependents are searched
          start,       \* the service the search starts from
          q,           \* the queue of the search
          order        \* what it has found, in order

searchVars == <<depends_on, up, start, q, order>>

\* ------------------------------------- graphs -------------------------------------
Graphs == [Service -> SUBSET Service]

\* load_graph keeps every edge twice.
Dependents(g) == [s \in Service |-> {c \in Service : s \in g[c]}]

Closed(S, g) == \A s \in S : g[s] \subseteq S

\* What can be reached from s along one edge or more: what every closed set has that has
\* its neighbours.
Reachable(s, g) ==
  {n \in Service : \A S \in SUBSET Service : (g[s] \subseteq S /\ Closed(S, g)) => n \in S}

\* What a closure contains.
Closure(s, g) == Reachable(s, g) \ {s}

\* rank_probable_root: twice the score of a service among the impacted ones.
Score(s, impacted, g) ==
  2 * Cardinality(impacted \cap Closure(s, Dependents(g))) - Cardinality(impacted \cap Closure(s, g))

\* ------------------------------------- search -------------------------------------
\* A set as a queue takes it: in any order.
Listing(S) ==
  {l \in [1 .. Cardinality(S) -> S] : \A s \in S : \E i \in DOMAIN l : l[i] = s}

Elements(l) == {l[i] : i \in DOMAIN l}

Adjacency == IF up THEN Dependents(depends_on) ELSE depends_on

SearchInit ==
  /\ depends_on \in Graphs /\ up \in BOOLEAN /\ start \in Service
  /\ order = <<>>
  /\ q \in Listing(Adjacency[start])

\* Deviation: a service that is met again goes back to the end of the queue.
Skip_Deferred ==
  /\ q # <<>> /\ Head(q) \in Elements(order) \cup {start}
  /\ q' = Append(Tail(q), Head(q))
  /\ UNCHANGED <<depends_on, up, start, order>>

Skip ==
  /\ q # <<>> /\ Head(q) \in Elements(order) \cup {start}
  /\ q' = Tail(q)
  /\ UNCHANGED <<depends_on, up, start, order>>

\* Deviation: the search goes on along the dependencies, whichever way it started.
Visit_Down ==
  /\ q # <<>> /\ Head(q) \notin Elements(order) \cup {start}
  /\ order' = Append(order, Head(q))
  /\ \E l \in Listing(depends_on[Head(q)]) : q' = Tail(q) \o l
  /\ UNCHANGED <<depends_on, up, start>>

Visit ==
  /\ q # <<>> /\ Head(q) \notin Elements(order) \cup {start}
  /\ order' = Append(order, Head(q))
  /\ \E l \in Listing(Adjacency[Head(q)]) : q' = Tail(q) \o l
  /\ UNCHANGED <<depends_on, up, start>>

SearchNext == Skip \/ Visit

SearchSpec == SearchInit /\ [][SearchNext]_searchVars /\ WF_searchVars(SearchNext)

\* ----------------------------------- properties -----------------------------------
SearchTypeOK ==
  /\ depends_on \in Graphs /\ up \in BOOLEAN /\ start \in Service
  /\ q \in Seq(Service) /\ order \in Seq(Service)

\* Blast radius and downstream closure are exact, on cyclic graphs too: a search that has
\* ended has found whatever can be reached, each service once and never the one it
\* started from.
SearchIsExact ==
  /\ q = <<>> => Elements(order) = Closure(start, Adjacency)
  /\ \A i, j \in DOMAIN order : order[i] = order[j] => i = j
  /\ start \notin Elements(order)

\* Every search ends.
SearchEnds == <>(q = <<>>)
=============================================================================
