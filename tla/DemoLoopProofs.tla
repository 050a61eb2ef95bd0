--------------------------- MODULE DemoLoopProofs ---------------------------
(***************************************************************************)
(* The alert rules of the demo, for any histories of requests, any ripple  *)
(* and any pauses: a rule that has ceased to breach has no alert left that *)
(* fires.                                                                  *)
(*                                                                         *)
(* A rule ends the alert it names and no other, so the argument is that    *)
(* the one alert of a rule that may fire is the one it names, whatever     *)
(* scenarios, drives and workers have done in between; and a rule names    *)
(* none only together with its clock, which is never set to a time that    *)
(* means "not breaching".                                                  *)
(***************************************************************************)
EXTENDS DemoLoop, FiniteSetTheorems, SequenceTheorems, WellFoundedInduction, TLAPS

-----------------------------------------------------------------------------
(***************************************************************************)
(* The invariant                                                           *)
(***************************************************************************)

RuleRow == [since : {t \in Int : t >= Never}, active : Int]

AlertRow(I) ==
  [rule : DOMAIN RULES, fired : Int, state : {"FIRING", "RESOLVED"}, incident : I]

Times == clock \in Nat /\ ahead \in Nat /\ DOMAIN telemetry \subseteq Int

\* The one alert of a rule that may fire is the one it names.
OnlyActiveFires ==
  \A a \in DOMAIN alerts : alerts[a].state = "FIRING" => rules[alerts[a].rule].active = a

ClearedNamesNone == \A i \in DOMAIN RULES : rules[i].since = Never => rules[i].active = None

\* Nothing is asked of the incidents that alerts refer to.
Rows == (\E I : alerts \in Seq(AlertRow(I))) /\ rules \in [DOMAIN RULES -> RuleRow]

IInv == Times /\ Rows /\ OnlyActiveFires /\ ClearedNamesNone

-----------------------------------------------------------------------------
(***************************************************************************)
(* The rules and the time                                                  *)
(***************************************************************************)

LEMMA TwoTables ==
  ASSUME NEW S, NEW T, NEW s \in Seq(S), NEW t \in Seq(T)
  PROVE  s \o t \in Seq(S \cup T)
<1>1. s \in Seq(S \cup T) /\ t \in Seq(S \cup T)
  OBVIOUS
<1> QED  BY <1>1, ConcatProperties

LEMMA RowsInOrder ==
  ASSUME NEW n \in Nat, NEW S, NEW s \in [1..n -> S]
  PROVE  s \in Seq(S) /\ Len(s) = n
<1>1. s \in Seq(S)
  BY SeqDef
<1> QED  BY <1>1

\* The table of rules is a finite sequence.
LEMMA RulesAreFinite == IsFiniteSet(DOMAIN RULES) /\ DOMAIN RULES \subseteq Nat
<1> DEFINE R3(s) == {RulesOf(s)[1], RulesOf(s)[2], RulesOf(s)[3]}
<1>1. ASSUME NEW s PROVE RulesOf(s) \in Seq(R3(s))
  BY DEF RulesOf
<1>2. PICK S : RULES \in Seq(S)
  <2> DEFINE a == RulesOf("web_frontend")
             b == RulesOf("api_gateway")
             c == RulesOf("order_service")
             d == RulesOf("payment_service")
             e == RulesOf("inventory_service")
             f == RulesOf("notification_service")
             x == Rule("payment_service", "RESOURCE", "database_connections", 85)
             y == Rule("notification_service", "RESOURCE", "queue_depth", 120)
             z == Rule("postgresql", "SERVICE_HEALTH", "", 1)
             g == <<x, y, z>>
  <2>1. RULES = a \o b \o c \o d \o e \o f \o g
    BY DEF RULES
  <2>2. PICK A, B, C, D, E, F : a \in Seq(A) /\ b \in Seq(B) /\ c \in Seq(C) /\ d \in Seq(D) /\ e \in Seq(E) /\ f \in Seq(F)
    BY <1>1
  <2> HIDE DEF a, b, c, d, e, f, x, y, z
  <2>3. g \in Seq({x, y, z})
    OBVIOUS
  <2> HIDE DEF g
  <2>4. a \o b \in Seq(A \cup B)
    BY <2>2, TwoTables
  <2>5. a \o b \o c \in Seq(A \cup B \cup C)
    BY <2>2, <2>4, TwoTables
  <2>6. a \o b \o c \o d \in Seq(A \cup B \cup C \cup D)
    BY <2>2, <2>5, TwoTables
  <2>7. a \o b \o c \o d \o e \in Seq(A \cup B \cup C \cup D \cup E)
    BY <2>2, <2>6, TwoTables
  <2>8. a \o b \o c \o d \o e \o f \in Seq(A \cup B \cup C \cup D \cup E \cup F)
    BY <2>2, <2>7, TwoTables
  <2>9. a \o b \o c \o d \o e \o f \o g \in Seq(A \cup B \cup C \cup D \cup E \cup F \cup {x, y, z})
    BY <2>3, <2>8, TwoTables
  <2> QED  BY <2>1, <2>9
<1>3. DOMAIN RULES = 1..Len(RULES) /\ Len(RULES) \in Nat
  BY <1>2
<1> QED  BY <1>3, FS_Interval

\* The minutes of the telemetry stay numbers.
LEMMA TelemetryKeepsTime ==
  ASSUME Times, NEW key, NEW next, Generate(key, next)
  PROVE  DOMAIN telemetry' \subseteq Int
<1> DEFINE faults == SCENARIOS[key].faults
           since == [s \in DOMAIN faults |-> SuppressedAt(s, faults[s].category)]
           g == Generation(Now, key, since)
<1>1. telemetry' = Regenerated(g)
  BY DEF Generate
<1>2. Now \in Int
  BY DEF Now, Times
<1> HIDE DEF since
<1>3. g.at = Now
  BY DEF Generation
<1> HIDE DEF g
<1>4. Written(g) \subseteq Int
  BY <1>2, <1>3 DEF Written
<1>5. DOMAIN telemetry' \subseteq Written(g) \cup DOMAIN telemetry
  BY <1>1 DEF Regenerated
<1> QED  BY <1>4, <1>5 DEF Times

\* Numbers that do not go below a bound have a least one.
LEMMA LeastOf ==
  ASSUME NEW low \in Int, NEW S \in SUBSET Int, S # {}, \A t \in S : t >= low
  PROVE  Min(S) \in S
<1> DEFINE less == OpToRel(<, Nat)
           D == {t - low : t \in S}
<1>1. \A a, b \in Nat : <<b, a>> \in less <=> b < a
  BY DEF OpToRel
<1>2. IsWellFoundedOn(less, Nat)
  BY NatLessThanWellFounded
<1>3. \A t \in S : t \in Int /\ t - low \in Nat
  OBVIOUS
<1>4. D \in SUBSET Nat /\ D # {}
  BY <1>3
<1> HIDE DEF less
<1>5. PICK m \in D : \A n \in D : ~ (<<n, m>> \in less)
  BY <1>2, <1>4, WFMin
<1>6. PICK l \in S : m = l - low
  OBVIOUS
<1>7. \A t \in S : ~ (t - low < l - low)
  BY <1>1, <1>3, <1>5, <1>6
<1>8. \A t \in S : l <= t
  BY <1>3, <1>7
<1> QED  BY <1>8 DEF Min

\* The time a rule has been breaching since is a time.
LEMMA SinceIsATime ==
  ASSUME Times, rules \in [DOMAIN RULES -> RuleRow], NEW i \in DOMAIN RULES
  PROVE  Since(i) \in Int /\ Since(i) > Never
<1> DEFINE r == RULES[i]
           rows == RowsSince(Now - 30)
           low == {t \in rows : Reading(r.service, r.metric, t) <= r.threshold * 100}
           run == {t \in rows : \A u \in low : u < t}
<1>1. Now \in Nat
  BY DEF Now, Times
<1>2. run \in SUBSET Int /\ \A t \in run : t >= Now - 30
  BY DEF Times, RowsSince
<1>3. BreachSince(r) \in {Now - Window, Now} \/ (run # {} /\ BreachSince(r) = Min(run))
  BY DEF BreachSince
<1> HIDE DEF run
<1>4. PICK S, n : S = run /\ n = Now
  OBVIOUS
<1>5. n \in Nat /\ S \in SUBSET Int /\ \A t \in S : t >= n - 30
  BY <1>1, <1>2, <1>4
<1>6. S # {} => Min(S) \in S
  <2>1. n - 30 \in Int
    BY <1>5
  <2> QED  BY <1>5, <2>1, LeastOf
<1>7. PICK b : b = BreachSince(r)
  OBVIOUS
<1>8. b \in Int /\ b > Never
  <2>1. b \in {n - Window, n} \/ (S # {} /\ b = Min(S))
    BY <1>3, <1>4, <1>7
  <2>2. b \in {n - Window, n} \/ b \in S
    BY <1>6, <2>1
  <2>3. CASE b \in S
    <3>1. b \in Int /\ b >= n - 30
      BY <1>5, <2>3
    <3> QED  BY <1>5, <3>1 DEF Never
  <2>4. CASE b = n - Window \/ b = n
    BY <1>5, <2>4 DEF Window, Never
  <2> QED  BY <2>2, <2>3, <2>4
<1>9. PICK s : s = rules[i].since
  OBVIOUS
<1>10. s \in Int /\ s >= Never
  BY <1>9 DEF RuleRow
<1>11. Since(i) = IF s = Never THEN b ELSE Min({s, b})
  BY <1>7, <1>9 DEF Since
<1>12. Min({s, b}) \in {s, b}
  <2>1. Never \in Int /\ {s, b} \in SUBSET Int /\ \A t \in {s, b} : t >= Never
    BY <1>8, <1>10 DEF Never
  <2> QED  BY <2>1, LeastOf
<1>13. s # Never => s > Never
  BY <1>10 DEF Never
<1> QED  BY <1>8, <1>10, <1>11, <1>12, <1>13

-----------------------------------------------------------------------------
(***************************************************************************)
(* The evaluation                                                          *)
(***************************************************************************)

\* The rules that fire, in order: each once.
LEMMA EachFiresOnce ==
  ASSUME NEW fires \in SUBSET DOMAIN RULES, NEW new \in Ascending(fires)
  PROVE  /\ new \in Seq(fires)
         /\ \A m, n \in DOMAIN new : new[m] = new[n] => m = n
<1>1. DOMAIN RULES \subseteq Nat
  BY RulesAreFinite
<1>2. IsFiniteSet(fires)
  BY RulesAreFinite, FS_Subset
<1>3. PICK c : c = Cardinality(fires)
  OBVIOUS
<1>4. c \in Nat
  BY <1>2, <1>3, FS_CardinalityType
<1>5. new \in [1..c -> fires] /\ \A m, n \in DOMAIN new : m < n => new[m] < new[n]
  BY <1>3 DEF Ascending
<1>6. new \in Seq(fires)
  BY <1>4, <1>5
<1>7. ASSUME NEW m \in DOMAIN new, NEW n \in DOMAIN new, new[m] = new[n] PROVE m = n
  <2>1. m \in Nat /\ n \in Nat /\ new[m] \in Nat
    BY <1>1, <1>4, <1>5
  <2>2. ~ (m < n) /\ ~ (n < m)
    BY <1>5, <1>7, <2>1
  <2> QED  BY <2>1, <2>2
<1> QED  BY <1>6, <1>7
\* An evaluation of the rules keeps the invariant, whichever rules breach.
LEMMA EvaluationKeepsRules ==
  ASSUME Times, Rows, OnlyActiveFires,
         NEW breach \in SUBSET DOMAIN RULES,
         NEW fires \in SUBSET {i \in breach : Firing(i) = {}},
         NEW new \in Ascending(fires),
         NEW ended, ended = {rules[i].active : i \in DOMAIN RULES \ breach},
         Evaluated(breach, new, ended)
  PROVE  Rows' /\ OnlyActiveFires' /\ ClearedNamesNone'
<1> DEFINE Place(i) == CHOOSE n \in DOMAIN new : new[n] = i
           Active(i) == IF \E n \in DOMAIN new : new[n] = i
                        THEN ActiveAlert(i, Len(alerts) + Place(i)) ELSE rules[i].active
           old == [a \in DOMAIN alerts |->
                     IF a \in ended THEN [alerts[a] EXCEPT !.state = "RESOLVED"] ELSE alerts[a]]
           fresh == [n \in DOMAIN new |->
                       [rule |-> new[n], fired |-> Now, state |-> "FIRING", incident |-> None]]
<1>1. PICK I : alerts \in Seq(AlertRow(I))
  BY DEF Rows
<1>2. /\ Len(alerts) \in Nat /\ DOMAIN alerts = 1..Len(alerts)
      /\ \A a \in DOMAIN alerts : alerts[a] \in AlertRow(I)
  BY <1>1
<1>3. /\ new \in Seq(fires) /\ DOMAIN new = 1..Len(new) /\ Len(new) \in Nat
      /\ \A n \in DOMAIN new : new[n] \in fires
      /\ \A m, n \in DOMAIN new : new[m] = new[n] => m = n
  <2>1. fires \in SUBSET DOMAIN RULES
    OBVIOUS
  <2>2. new \in Seq(fires) /\ \A m, n \in DOMAIN new : new[m] = new[n] => m = n
    BY <2>1, EachFiresOnce
  <2> QED  BY <2>2
<1>4. \A n \in DOMAIN new : Place(new[n]) = n
  BY <1>3
<1>5. rules' = [i \in DOMAIN RULES |-> IF i \notin breach THEN [since |-> Never, active |-> None]
                                      ELSE [since |-> Since(i), active |-> Active(i)]]
  BY DEF Evaluated
<1>6. alerts' = old \o fresh
  BY DEF Evaluated
<1>7. /\ old \in Seq(AlertRow(I \cup {None})) /\ Len(old) = Len(alerts)
      /\ \A a \in DOMAIN alerts : /\ old[a].rule = alerts[a].rule
                                  /\ a \in ended => old[a].state = "RESOLVED"
                                  /\ a \notin ended => old[a].state = alerts[a].state
  <2>1. \A a \in DOMAIN alerts : /\ old[a] \in AlertRow(I \cup {None})
                                 /\ old[a].rule = alerts[a].rule
                                 /\ a \in ended => old[a].state = "RESOLVED"
                                 /\ a \notin ended => old[a].state = alerts[a].state
    BY <1>2 DEF AlertRow
  <2>2. old \in [1..Len(alerts) -> AlertRow(I \cup {None})]
    BY <1>2, <2>1
  <2> HIDE DEF old
  <2>3. old \in Seq(AlertRow(I \cup {None})) /\ Len(old) = Len(alerts)
    BY <1>2, <2>2, RowsInOrder
  <2> QED  BY <2>1, <2>3
<1>8. /\ fresh \in Seq(AlertRow(I \cup {None})) /\ Len(fresh) = Len(new)
      /\ \A n \in DOMAIN new : fresh[n].rule = new[n]
  <2>1. \A n \in DOMAIN new : fresh[n] \in AlertRow(I \cup {None}) /\ fresh[n].rule = new[n]
    BY <1>3 DEF AlertRow, Now, Times
  <2>2. fresh \in [1..Len(new) -> AlertRow(I \cup {None})]
    BY <1>3, <2>1
  <2> HIDE DEF fresh
  <2>3. fresh \in Seq(AlertRow(I \cup {None})) /\ Len(fresh) = Len(new)
    BY <1>3, <2>2, RowsInOrder
  <2> QED  BY <2>1, <2>3
<1> HIDE DEF old, fresh
<1>9. alerts' \in Seq(AlertRow(I \cup {None})) /\ DOMAIN alerts' = 1..(Len(alerts) + Len(new))
  <2>1. old \o fresh \in Seq(AlertRow(I \cup {None})) /\ Len(old \o fresh) = Len(old) + Len(fresh)
    BY <1>7, <1>8, ConcatProperties
  <2> QED  BY <1>2, <1>3, <1>6, <1>7, <1>8, <2>1
<1>10. /\ \A a \in DOMAIN alerts : alerts'[a] = old[a]
       /\ \A n \in DOMAIN new : alerts'[Len(alerts) + n] = fresh[n]
  BY <1>2, <1>3, <1>6, <1>7, <1>8, ConcatProperties
<1>11. Rows'
  <2>1. \A i \in DOMAIN RULES : Since(i) \in Int /\ Since(i) > Never
    BY SinceIsATime DEF Rows
  <2>2. \A i \in DOMAIN RULES : Active(i) \in Int
    <3> SUFFICES ASSUME NEW i \in DOMAIN RULES PROVE Active(i) \in Int
      OBVIOUS
    <3>1. CASE \E n \in DOMAIN new : new[n] = i
      <4>1. PICK n \in DOMAIN new : new[n] = i
        BY <3>1
      <4>2. Place(i) = n
        BY <1>4, <4>1
      <4> HIDE DEF Place
      <4>3. Active(i) = Len(alerts) + Place(i)
        BY <3>1 DEF ActiveAlert
      <4> QED  BY <1>2, <1>3, <4>1, <4>2, <4>3
    <3>2. CASE ~ \E n \in DOMAIN new : new[n] = i
      BY <3>2 DEF Rows, RuleRow
    <3> QED  BY <3>1, <3>2
  <2> HIDE DEF Active
  <2>3. \A i \in DOMAIN RULES : rules'[i] \in RuleRow
    BY <1>5, <2>1, <2>2 DEF RuleRow, Never, None
  <2>4. rules' \in [DOMAIN RULES -> RuleRow]
    BY <1>5, <2>3
  <2> QED  BY <1>9, <2>4 DEF Rows
<1>12. OnlyActiveFires'
  <2> SUFFICES ASSUME NEW a \in DOMAIN alerts', alerts'[a].state = "FIRING"
               PROVE  rules'[alerts'[a].rule].active = a
    BY DEF OnlyActiveFires
  <2>1. CASE a \in DOMAIN alerts
    <3>1. PICK i : i = alerts[a].rule
      OBVIOUS
    <3>2. a \notin ended /\ alerts[a].state = "FIRING" /\ alerts'[a].rule = i
      BY <1>7, <1>10, <2>1, <3>1
    <3>3. i \in DOMAIN RULES
      BY <1>2, <2>1, <3>1 DEF AlertRow
    <3>4. rules[i].active = a
      BY <2>1, <3>1, <3>2 DEF OnlyActiveFires
    <3>5. i \in breach
      BY <3>2, <3>3, <3>4
    <3>6. a \in Firing(i)
      BY <2>1, <3>1, <3>2 DEF Firing
    <3>7. ~ \E n \in DOMAIN new : new[n] = i
      BY <1>3, <3>6
    <3>8. Active(i) = a
      BY <3>4, <3>7
    <3> QED  BY <1>5, <3>2, <3>3, <3>5, <3>8
  <2>2. CASE a \notin DOMAIN alerts
    <3>1. PICK n \in DOMAIN new : a = Len(alerts) + n
      <4>1. a \in Nat /\ a - Len(alerts) \in 1..Len(new)
        BY <1>2, <1>3, <1>9, <2>2
      <4> QED  BY <1>2, <1>3, <4>1
    <3>2. PICK i : i = new[n]
      OBVIOUS
    <3>3. alerts'[a].rule = i
      BY <1>8, <1>10, <3>1, <3>2
    <3>4. i \in breach /\ i \in DOMAIN RULES
      BY <1>3, <3>2
    <3>5. Active(i) = a
      <4>1. Place(i) = n
        BY <1>4, <3>1, <3>2
      <4> HIDE DEF Place
      <4>2. Active(i) = Len(alerts) + Place(i)
        BY <3>1, <3>2 DEF ActiveAlert
      <4> QED  BY <3>1, <4>1, <4>2
    <3> QED  BY <1>5, <3>3, <3>4, <3>5
  <2> QED  BY <2>1, <2>2
<1>13. ClearedNamesNone'
  <2> SUFFICES ASSUME NEW i \in DOMAIN RULES, rules'[i].since = Never
               PROVE  rules'[i].active = None
    BY DEF ClearedNamesNone
  <2>1. Since(i) > Never /\ Since(i) \in Int
    BY SinceIsATime DEF Rows
  <2>2. i \notin breach
    BY <1>5, <2>1 DEF Never
  <2> QED  BY <1>5, <2>2
<1> QED  BY <1>11, <1>12, <1>13
-----------------------------------------------------------------------------
(***************************************************************************)
(* The other steps that touch an alert                                     *)
(***************************************************************************)

\* A step that leaves every alert its rule, and fires none, keeps the rows and what the
\* rules say of them.
LEMMA AlertsKeepTheirRule ==
  ASSUME Rows, OnlyActiveFires, ClearedNamesNone, rules' = rules,
         NEW J, alerts' \in [DOMAIN alerts -> AlertRow(J)],
         \A a \in DOMAIN alerts : /\ alerts'[a].rule = alerts[a].rule
                                  /\ alerts'[a].state = "FIRING" => alerts[a].state = "FIRING"
  PROVE  Rows' /\ OnlyActiveFires' /\ ClearedNamesNone'
<1>1. DOMAIN alerts = 1..Len(alerts) /\ Len(alerts) \in Nat
  BY DEF Rows
<1>2. alerts' \in Seq(AlertRow(J)) /\ DOMAIN alerts' = DOMAIN alerts
  BY <1>1, SeqDef
<1>3. Rows'
  BY <1>2 DEF Rows
<1>4. OnlyActiveFires'
  <2> SUFFICES ASSUME NEW a \in DOMAIN alerts', alerts'[a].state = "FIRING"
               PROVE  rules'[alerts'[a].rule].active = a
    BY DEF OnlyActiveFires
  <2>1. a \in DOMAIN alerts /\ alerts[a].state = "FIRING" /\ alerts'[a].rule = alerts[a].rule
    BY <1>2
  <2> QED  BY <2>1 DEF OnlyActiveFires
<1>5. ClearedNamesNone'
  BY DEF ClearedNamesNone
<1> QED  BY <1>3, <1>4, <1>5

\* An alert taken into an incident.
LEMMA TakeInKeepsRules ==
  ASSUME Rows, OnlyActiveFires, ClearedNamesNone, TakeIn
  PROVE  Rows' /\ OnlyActiveFires' /\ ClearedNamesNone'
<1>1. PICK b, i : alerts' = [alerts EXCEPT ![b].incident = i]
  BY DEF TakeIn
<1>2. PICK I : alerts \in Seq(AlertRow(I))
  BY DEF Rows
<1>3. \A a \in DOMAIN alerts : alerts[a] \in AlertRow(I)
  BY <1>2
<1>4. ASSUME NEW a \in DOMAIN alerts
      PROVE  /\ alerts'[a] \in AlertRow(I \cup {i})
             /\ alerts'[a].rule = alerts[a].rule
             /\ alerts'[a].state = alerts[a].state
  <2>1. alerts'[a] = alerts[a] \/ alerts'[a] = [alerts[a] EXCEPT !.incident = i]
    BY <1>1
  <2> QED  BY <1>3, <2>1 DEF AlertRow
<1>5. alerts' \in [DOMAIN alerts -> AlertRow(I \cup {i})]
  BY <1>1, <1>4
<1>6. rules' = rules
  BY DEF TakeIn
<1> QED  BY <1>4, <1>5, <1>6, AlertsKeepTheirRule

\* A verification that passes resolves the alerts of its incident.
LEMMA VerifyKeepsRules ==
  ASSUME Rows, OnlyActiveFires, ClearedNamesNone, Verify
  PROVE  Rows' /\ OnlyActiveFires' /\ ClearedNamesNone'
<1>1. PICK S : alerts' = [a \in DOMAIN alerts |->
                 IF a \in S THEN [alerts[a] EXCEPT !.state = "RESOLVED"] ELSE alerts[a]]
  <2> DEFINE i == remediations[request.remediation].incident
             Passes(b) == Verified(incidents[i].service, remediations[request.remediation].db, b)
  <2>1. PICK b \in Baselines : alerts' = [a \in DOMAIN alerts |->
          IF Passes(b) /\ alerts[a].incident = i THEN [alerts[a] EXCEPT !.state = "RESOLVED"]
          ELSE alerts[a]]
    BY DEF Verify
  <2> DEFINE S == {a \in DOMAIN alerts : Passes(b) /\ alerts[a].incident = i}
  <2> HIDE DEF Passes
  <2> WITNESS S
  <2> QED  BY <2>1
<1>2. PICK I : alerts \in Seq(AlertRow(I))
  BY DEF Rows
<1>3. \A a \in DOMAIN alerts : alerts[a] \in AlertRow(I)
  BY <1>2
<1>4. ASSUME NEW a \in DOMAIN alerts
      PROVE  /\ alerts'[a] \in AlertRow(I)
             /\ alerts'[a].rule = alerts[a].rule
             /\ alerts'[a].state = "FIRING" => alerts[a].state = "FIRING"
  BY <1>1, <1>3 DEF AlertRow
<1>5. alerts' \in [DOMAIN alerts -> AlertRow(I)]
  BY <1>1, <1>4
<1>6. rules' = rules
  BY DEF Verify
<1> QED  BY <1>4, <1>5, <1>6, AlertsKeepTheirRule

-----------------------------------------------------------------------------
(***************************************************************************)
(* The invariant, and what it is for                                       *)
(***************************************************************************)

LEMMA InvInit ==
  ASSUME Init
  PROVE  IInv
<1>1. Times
  BY DEF Init, Times
<1>2. alerts \in Seq(AlertRow({})) /\ DOMAIN alerts = {}
  BY DEF Init
<1>3. \A i \in DOMAIN RULES : rules[i] = [since |-> Never, active |-> None]
  BY DEF Init
<1>4. rules \in [DOMAIN RULES -> RuleRow]
  BY DEF Init, RuleRow, Never, None
<1> QED  BY <1>1, <1>2, <1>3, <1>4 DEF IInv, Rows, OnlyActiveFires, ClearedNamesNone

\* Only a drive moves the clock ahead, its verification takes it back, and a pause moves it.
LEMMA TimesStep ==
  ASSUME Times, [Next]_vars
  PROVE  Times'
<1> USE DEF Times, data
<1>1. ASSUME NEW key \in DOMAIN SCENARIOS, NEW fix \in BOOLEAN, RunScenario(key, fix) PROVE Times'
  BY <1>1 DEF RunScenario
<1>2. CASE WriteScenario
  <2>1. DOMAIN telemetry' \subseteq Int
    BY <1>2, TelemetryKeepsTime DEF WriteScenario
  <2> QED  BY <1>2, <2>1 DEF WriteScenario
<1>3. CASE Scan
  BY <1>3 DEF Scan
<1>4. CASE Evaluate
  BY <1>4 DEF Evaluate
<1>5. CASE TakeIn
  BY <1>5 DEF TakeIn
<1>6. CASE Ingest
  BY <1>6 DEF Ingest
<1>7. CASE Investigate
  BY <1>7 DEF Investigate
<1>8. CASE Propose
  BY <1>8 DEF Propose
<1>9. ASSUME NEW i \in DOMAIN incidents, NEW key \in DOMAIN SCENARIOS, Drive(i, key) PROVE Times'
  BY <1>9 DEF Drive, Advance
<1>10. CASE Regenerate
  <2>1. DOMAIN telemetry' \subseteq Int
    BY <1>10, TelemetryKeepsTime DEF Regenerate
  <2> QED  BY <1>10, <2>1 DEF Regenerate
<1>11. CASE Verify
  BY <1>11 DEF Verify
<1>12. CASE WorkerEvaluates
  BY <1>12 DEF WorkerEvaluates
<1>13. ASSUME NEW d \in Waits, Wait(d) PROVE Times'
  BY <1>13, DemoAssumption DEF Wait
<1>14. ASSUME NEW i \in DOMAIN incidents, Close(i) PROVE Times'
  BY <1>14 DEF Close
<1>15. ASSUME NEW r \in DOMAIN remediations, Undo(r) PROVE Times'
  BY <1>15 DEF Undo
<1>16. CASE UNCHANGED vars
  BY <1>16 DEF vars
<1> HIDE DEF Times, data
<1> QED  BY <1>1, <1>2, <1>3, <1>4, <1>5, <1>6, <1>7, <1>8, <1>9, <1>10, <1>11, <1>12, <1>13,
            <1>14, <1>15, <1>16 DEF Next

LEMMA RulesStep ==
  ASSUME IInv, [Next]_vars
  PROVE  Rows' /\ OnlyActiveFires' /\ ClearedNamesNone'
<1> USE DEF IInv
<1> DEFINE Kept == rules' = rules /\ alerts' = alerts
           Goal == Rows' /\ OnlyActiveFires' /\ ClearedNamesNone'
<1>0. Kept => Goal
  BY DEF Rows, OnlyActiveFires, ClearedNamesNone
<1> HIDE DEF Goal
<1>1. ASSUME NEW key \in DOMAIN SCENARIOS, NEW fix \in BOOLEAN, RunScenario(key, fix) PROVE Kept
  BY <1>1 DEF RunScenario, data
<1>2. WriteScenario => Kept
  BY DEF WriteScenario
<1>3. Scan => Kept
  BY DEF Scan
<1>4. CASE Evaluate
  <2> DEFINE breach == {i \in DOMAIN RULES : Breaching(RULES[i])}
             fires == {i \in breach : Now - Since(i) >= ForMinutes /\ Firing(i) = {}}
             ended == {rules[i].active : i \in DOMAIN RULES \ breach}
  <2>1. PICK new \in Ascending(fires) : Evaluated(breach, new, ended)
    BY <1>4 DEF Evaluate
  <2>2. PICK B, F, E : B = breach /\ F = fires /\ E = ended
    OBVIOUS
  <2>3. /\ B \in SUBSET DOMAIN RULES /\ F \in SUBSET {i \in B : Firing(i) = {}}
        /\ E = {rules[i].active : i \in DOMAIN RULES \ B}
    BY <2>2
  <2>4. new \in Ascending(F) /\ Evaluated(B, new, E)
    BY <2>1, <2>2
  <2> HIDE DEF breach, fires, ended
  <2> QED  BY <2>3, <2>4, EvaluationKeepsRules DEF Goal
<1>5. CASE TakeIn
  BY <1>5, TakeInKeepsRules DEF Goal
<1>6. Ingest => Kept
  BY DEF Ingest, data
<1>7. Investigate => Kept
  BY DEF Investigate
<1>8. Propose => Kept
  BY DEF Propose
<1>9. ASSUME NEW i \in DOMAIN incidents, NEW key \in DOMAIN SCENARIOS, Drive(i, key) PROVE Kept
  BY <1>9 DEF Drive
<1>10. Regenerate => Kept
  BY DEF Regenerate
<1>11. CASE Verify
  BY <1>11, VerifyKeepsRules DEF Goal
<1>12. WorkerEvaluates => Kept
  BY DEF WorkerEvaluates, data
<1>13. ASSUME NEW d \in Waits, Wait(d) PROVE Kept
  BY <1>13 DEF Wait, data
<1>14. ASSUME NEW i \in DOMAIN incidents, Close(i) PROVE Kept
  BY <1>14 DEF Close
<1>15. ASSUME NEW r \in DOMAIN remediations, Undo(r) PROVE Kept
  BY <1>15 DEF Undo
<1>16. UNCHANGED vars => Kept
  BY DEF vars, data
<1> HIDE DEF Kept
<1> QED  BY <1>0, <1>1, <1>2, <1>3, <1>4, <1>5, <1>6, <1>7, <1>8, <1>9, <1>10, <1>11, <1>12,
            <1>13, <1>14, <1>15, <1>16 DEF Next, Goal

\* The one alert of a rule that may fire is the one the rule names, and a rule that does
\* not breach names none: whatever requests, workers and pauses there are.
THEOREM RulesKnowTheirAlert == Spec => []IInv
<1>1. Init => IInv
  BY InvInit
<1>2. IInv /\ [Next]_vars => IInv'
  BY TimesStep, RulesStep DEF IInv
<1> QED  BY <1>1, <1>2, PTL DEF Spec

\* A rule that has stopped breaching has no alert left that fires (alerts.py:166-176),
\* whoever resolved one of its alerts in between.
THEOREM ClearedRulesAlwaysQuiet == Spec => []ClearedRulesAreQuiet
<1>1. IInv => ClearedRulesAreQuiet
  <2> SUFFICES ASSUME IInv, NEW i \in DOMAIN RULES, rules[i].since = Never,
                      NEW a \in Firing(i)
               PROVE  FALSE
    BY DEF ClearedRulesAreQuiet
  <2>1. rules[i].active = a /\ a \in DOMAIN alerts
    BY DEF IInv, OnlyActiveFires, Firing
  <2>2. a # None
    BY <2>1 DEF IInv, Rows, None
  <2> QED  BY <2>1, <2>2 DEF IInv, ClearedNamesNone
<1> QED  BY <1>1, RulesKnowTheirAlert, PTL
=============================================================================
