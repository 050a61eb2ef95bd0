------------------------ MODULE EventPipelineProofs -------------------------
(***************************************************************************)
(* The event pipeline for any number of faults, workers and outages: the   *)
(* delivery of an event to one worker is what keeps the workers from       *)
(* investigating an incident twice, and the pending list is where          *)
(* everything is found again that was not handled.                         *)
(*                                                                         *)
(* The argument is about INCIDENT_CREATED.  An incident has a number of    *)
(* its own from the moment its evaluation begins, so that the event is     *)
(* published once; it is then either in the stream or in the batch of one  *)
(* worker, and only that worker can be writing a run for it.               *)
(***************************************************************************)
EXTENDS EventPipeline, FiniteSetTheorems, SequenceTheorems, TLAPS

Msg ==
  {m \in [type : {"TELEMETRY_RECEIVED", "INCIDENT_CREATED", "INVESTIGATION_COMPLETED"},
          of : Incident, by : Engineer \cup {"worker"}] :
     m.type = "INCIDENT_CREATED" => m.by = "worker"}

IsCreated(e) == e.type = "INCIDENT_CREATED"

\* No INCIDENT_CREATED is there twice.
Once(s) == \A m, n \in DOMAIN s : s[m] = s[n] /\ IsCreated(s[m]) => m = n

Apart(s, t) == \A e \in ToSet(s) \cap ToSet(t) : ~ IsCreated(e)

Shape ==
  /\ stream \in Seq(Msg)
  /\ attempts \in [Case -> Nat]
  /\ DOMAIN facts \subseteq Incident
  /\ stored \subseteq Case
  /\ worker = [w \in Worker |-> worker[w]]
  /\ \A w \in Worker :
       /\ worker[w] = [step |-> worker[w].step, batch |-> worker[w].batch, work |-> worker[w].work]
       /\ worker[w].batch \in Seq(Msg)
       /\ worker[w].step \in {"down", "polling"} => worker[w].batch = <<>>
       /\ worker[w].step \in {"dispatching", "writing", "acknowledging"} => worker[w].batch # <<>>
       /\ worker[w].step # "writing" => DOMAIN worker[w].work = {}
       /\ DOMAIN worker[w].work \subseteq Incident

\* The n-th incident of a case is known of only when n have been begun.
Numbered(i) == i[2] <= attempts[i[1]]

NumbersAreGiven ==
  /\ \A i \in DOMAIN facts : Numbered(i)
  /\ \A e \in ToSet(stream) : IsCreated(e) => Numbered(e.of)
  /\ \A w \in Worker :
       /\ \A i \in DOMAIN worker[w].work : Numbered(i)
       /\ \A e \in ToSet(worker[w].batch) : IsCreated(e) => Numbered(e.of)

\* An INCIDENT_CREATED is in the stream or with one worker.
DeliveredOnce ==
  /\ Once(stream)
  /\ \A w \in Worker : Once(worker[w].batch) /\ Apart(stream, worker[w].batch)
  /\ \A v, w \in Worker : v # w => Apart(worker[v].batch, worker[w].batch)

\* Its incident has no run of a worker, unless the worker has just handled it.
CreatedHasNoRun ==
  \A i \in Incident : "automatic" \in Known(i) =>
    /\ Created(i) \notin ToSet(stream)
    /\ \A w \in Worker : Created(i) \in ToSet(worker[w].batch) => At(w, "acknowledging") /\ Event(w) = Created(i)

\* Such a run is written only in the handler of that event.
RunsAreOfTheEvent ==
  \A w \in Worker : \A i \in DOMAIN worker[w].work :
    "automatic" \in worker[w].work[i] => Event(w) = Created(i)

\* A manual investigation is of a committed incident and is not a worker's.
ManualIsOfKnown ==
  /\ manual = [e \in Engineer |-> manual[e]]
  /\ \A e \in Engineer : \A i \in DOMAIN manual[e].work :
       i \in DOMAIN facts /\ "automatic" \notin manual[e].work[i]

IInv ==
  Shape /\ NumbersAreGiven /\ DeliveredOnce /\ CreatedHasNoRun /\ RunsAreOfTheEvent /\ ManualIsOfKnown

-----------------------------------------------------------------------------
\* Under what is assumed of its length nothing is trimmed from the stream.
Roomy == Len(stream) + Cardinality(Case) <= MaxLen

\* What is about to be acknowledged has been handled.
AcknowledgedIsHandled == \A w \in Worker : At(w, "acknowledging") => Event(w) \in handled

-----------------------------------------------------------------------------
(***************************************************************************)
(* Lists and parts of the stream                                           *)
(***************************************************************************)

\* What is listed for publication is a finite set, each event once.
LEMMA ListOfSet ==
  ASSUME NEW S, IsFiniteSet(S), S \subseteq Msg
  PROVE  /\ SetToSeq(S) \in Seq(Msg) /\ ToSet(SetToSeq(S)) = S /\ Once(SetToSeq(S))
         /\ Len(SetToSeq(S)) = Cardinality(S)
<1> DEFINE n == Cardinality(S)
           s == CHOOSE f \in [1 .. n -> S] : IsInjective(f)
<1>1. n \in Nat
  BY FS_CardinalityType
<1>2. \E f \in [1 .. n -> S] : IsInjective(f)
  <2>1. PICK f \in Bijection(1 .. n, S) : TRUE
    BY FS_CardinalityType DEF ExistsBijection
  <2>2. f \in [1 .. n -> S] /\ IsInjective(f)
    BY <2>1 DEF Bijection, Injection
  <2> QED  BY <2>2
<1>3. s \in [1 .. n -> S] /\ IsInjective(s) /\ SetToSeq(S) = s
  BY <1>2 DEF SetToSeq
<1> HIDE DEF s
<1>4. s \in Seq(Msg) /\ DOMAIN s = 1 .. n /\ Len(s) = n
  BY <1>1, <1>3
<1>5. Once(s)
  BY <1>3, <1>4 DEF IsInjective, Once
<1>6. ToSet(s) = S
  <2>1. s \in Injection(1 .. n, S)
    BY <1>3 DEF Injection
  <2>2. IsFiniteSet(1 .. n) /\ Cardinality(1 .. n) = n
    BY <1>1, FS_Interval
  <2>3. s \in Surjection(1 .. n, S)
    BY <2>1, <2>2, FS_Injection
  <2> QED  BY <1>4, <2>3 DEF Surjection, ToSet
<1> QED  BY <1>3, <1>4, <1>5, <1>6

\* A part of the stream has a part of its events.
LEMMA PartOfStream ==
  ASSUME NEW s \in Seq(Msg), NEW m \in Nat \ {0}, NEW n \in Nat, n <= Len(s)
  PROVE  LET part == SubSeq(s, m, n)
         IN  /\ part \in Seq(Msg) /\ ToSet(part) \subseteq ToSet(s)
             /\ Once(s) => Once(part)
             /\ \A e \in ToSet(part) : \E k \in m .. n : k \in DOMAIN s /\ s[k] = e
             /\ \A k \in m .. n : s[k] \in ToSet(part)
<1> DEFINE part == SubSeq(s, m, n)
           length == IF m <= n THEN n - m + 1 ELSE 0
<1>1. /\ part \in Seq(Msg) /\ length \in Nat /\ DOMAIN part = 1 .. length /\ DOMAIN s = 1 .. Len(s)
      /\ \A k \in 1 .. length : part[k] = s[m + k - 1] /\ m + k - 1 \in m .. n /\ m + k - 1 \in 1 .. Len(s)
  BY SubSeqProperties
<1> HIDE DEF part
<1>2. ToSet(part) \subseteq ToSet(s) /\ \A e \in ToSet(part) : \E k \in m .. n : k \in DOMAIN s /\ s[k] = e
  BY <1>1 DEF ToSet
<1>3. ASSUME Once(s) PROVE Once(part)
  <2> SUFFICES ASSUME NEW j \in 1 .. length, NEW k \in 1 .. length, part[j] = part[k], IsCreated(part[j])
               PROVE  j = k
    BY <1>1 DEF Once
  <2>1. m + j - 1 = m + k - 1
    BY <1>1, <1>3 DEF Once
  <2> QED  BY <2>1, <1>1
<1>4. ASSUME NEW k \in m .. n PROVE s[k] \in ToSet(part)
  <2>1. k - m + 1 \in 1 .. length /\ m + (k - m + 1) - 1 = k
    OBVIOUS
  <2>2. part[k - m + 1] = s[k]
    BY <1>1, <2>1
  <2> QED  BY <1>1, <2>1, <2>2 DEF ToSet
<1> QED  BY <1>1, <1>2, <1>3, <1>4 DEF part

\* A stream that is cut in two.
LEMMA CutOfStream ==
  ASSUME NEW s \in Seq(Msg), NEW n \in Nat, n <= Len(s)
  PROVE  LET front == SubSeq(s, 1, n)
             rest == SubSeq(s, n + 1, Len(s))
         IN  /\ ToSet(s) = ToSet(front) \cup ToSet(rest)
             /\ Once(s) => Apart(rest, front)
<1> DEFINE front == SubSeq(s, 1, n)
           rest == SubSeq(s, n + 1, Len(s))
<1>0. Len(s) \in Nat /\ n + 1 \in Nat \ {0}
  OBVIOUS
<1>1. /\ ToSet(front) \subseteq ToSet(s) /\ ToSet(rest) \subseteq ToSet(s)
      /\ \A e \in ToSet(front) : \E k \in 1 .. n : k \in DOMAIN s /\ s[k] = e
      /\ \A e \in ToSet(rest) : \E k \in n + 1 .. Len(s) : k \in DOMAIN s /\ s[k] = e
      /\ \A k \in 1 .. n : s[k] \in ToSet(front)
      /\ \A k \in n + 1 .. Len(s) : s[k] \in ToSet(rest)
  <2>1. /\ ToSet(front) \subseteq ToSet(s)
        /\ \A e \in ToSet(front) : \E k \in 1 .. n : k \in DOMAIN s /\ s[k] = e
        /\ \A k \in 1 .. n : s[k] \in ToSet(front)
    BY PartOfStream
  <2>2. /\ ToSet(rest) \subseteq ToSet(s)
        /\ \A e \in ToSet(rest) : \E k \in n + 1 .. Len(s) : k \in DOMAIN s /\ s[k] = e
        /\ \A k \in n + 1 .. Len(s) : s[k] \in ToSet(rest)
    <3>1. \A m \in Nat \ {0}, l \in Nat : l <= Len(s) =>
            LET part == SubSeq(s, m, l)
            IN  /\ ToSet(part) \subseteq ToSet(s)
                /\ \A e \in ToSet(part) : \E k \in m .. l : k \in DOMAIN s /\ s[k] = e
                /\ \A k \in m .. l : s[k] \in ToSet(part)
      BY PartOfStream
    <3> QED  BY <1>0, <3>1
  <2> QED  BY <2>1, <2>2
<1> HIDE DEF front, rest
<1>2. ToSet(s) \subseteq ToSet(front) \cup ToSet(rest)
  <2> SUFFICES ASSUME NEW k \in 1 .. Len(s) PROVE s[k] \in ToSet(front) \cup ToSet(rest)
    BY DEF ToSet
  <2> QED  BY <1>1
<1>3. ASSUME Once(s), NEW e \in ToSet(rest) \cap ToSet(front) PROVE ~ IsCreated(e)
  <2>1. PICK j \in 1 .. n : j \in DOMAIN s /\ s[j] = e
    BY <1>1, <1>3
  <2>2. PICK k \in n + 1 .. Len(s) : k \in DOMAIN s /\ s[k] = e
    BY <1>1, <1>3
  <2> QED  BY <1>3, <2>1, <2>2 DEF Once
<1> QED  BY <1>1, <1>2, <1>3 DEF Apart, front, rest

\* What is appended.
LEMMA LongerStream ==
  ASSUME NEW s \in Seq(Msg), NEW t \in Seq(Msg)
  PROVE  /\ s \o t \in Seq(Msg) /\ ToSet(s \o t) = ToSet(s) \cup ToSet(t) /\ Len(s \o t) = Len(s) + Len(t)
         /\ Once(s) /\ Once(t) /\ Apart(s, t) => Once(s \o t)
<1> DEFINE u == s \o t
<1>1. /\ u \in Seq(Msg) /\ Len(u) = Len(s) + Len(t) /\ DOMAIN u = 1 .. Len(s) + Len(t)
      /\ DOMAIN s = 1 .. Len(s) /\ DOMAIN t = 1 .. Len(t) /\ Len(s) \in Nat /\ Len(t) \in Nat
      /\ \A k \in 1 .. Len(s) : u[k] = s[k]
      /\ \A k \in 1 .. Len(t) : u[Len(s) + k] = t[k]
  BY ConcatProperties
<1> HIDE DEF u
<1>2. \A k \in DOMAIN u : \/ k \in DOMAIN s /\ u[k] = s[k]
                          \/ k - Len(s) \in DOMAIN t /\ u[k] = t[k - Len(s)]
  <2> SUFFICES ASSUME NEW k \in DOMAIN u, k \notin DOMAIN s
               PROVE  k - Len(s) \in DOMAIN t /\ u[k] = t[k - Len(s)]
    BY <1>1
  <2>1. k - Len(s) \in 1 .. Len(t) /\ Len(s) + (k - Len(s)) = k
    BY <1>1
  <2> QED  BY <1>1, <2>1
<1>3. \A k \in DOMAIN s : k \in DOMAIN u
  BY <1>1
<1>4. \A k \in DOMAIN t : Len(s) + k \in DOMAIN u /\ u[Len(s) + k] = t[k]
  BY <1>1
<1>5. ToSet(u) = ToSet(s) \cup ToSet(t)
  BY <1>1, <1>2, <1>3, <1>4 DEF ToSet
<1>6. ASSUME Once(s), Once(t), Apart(s, t) PROVE Once(u)
  <2> SUFFICES ASSUME NEW j \in DOMAIN u, NEW k \in DOMAIN u, u[j] = u[k], IsCreated(u[j]) PROVE j = k
    BY DEF Once
  <2>1. CASE j \in DOMAIN s /\ u[j] = s[j] /\ k \in DOMAIN s /\ u[k] = s[k]
    BY <1>6, <2>1 DEF Once
  <2>2. CASE j - Len(s) \in DOMAIN t /\ u[j] = t[j - Len(s)] /\ k - Len(s) \in DOMAIN t /\ u[k] = t[k - Len(s)]
    <3>1. j - Len(s) = k - Len(s)
      BY <1>6, <2>2 DEF Once
    <3> QED  BY <1>1, <3>1
  <2>3. \A a, b : a \in DOMAIN s /\ b \in DOMAIN t /\ s[a] = t[b] => ~ IsCreated(s[a])
    BY <1>6 DEF Apart, ToSet
  <2> QED  BY <1>2, <2>1, <2>2, <2>3
<1> QED  BY <1>1, <1>5, <1>6 DEF u

\* The events after the first one.
LEMMA RestOfBatch ==
  ASSUME NEW s \in Seq(Msg), s # <<>>
  PROVE  /\ Tail(s) \in Seq(Msg) /\ Head(s) \in ToSet(s) /\ ToSet(Tail(s)) \subseteq ToSet(s)
         /\ Once(s) => Once(Tail(s)) /\ (IsCreated(Head(s)) => Head(s) \notin ToSet(Tail(s)))
<1>1. /\ Tail(s) \in Seq(Msg) /\ Len(s) \in Nat /\ Len(s) # 0 /\ DOMAIN s = 1 .. Len(s) /\ Head(s) = s[1]
      /\ DOMAIN Tail(s) = 1 .. Len(s) - 1 /\ \A k \in 1 .. Len(s) - 1 : Tail(s)[k] = s[k + 1] /\ k + 1 \in DOMAIN s
  BY HeadTailProperties
<1>2. Head(s) \in ToSet(s) /\ ToSet(Tail(s)) \subseteq ToSet(s)
  BY <1>1 DEF ToSet
<1>3. ASSUME Once(s) PROVE Once(Tail(s))
  <2> SUFFICES ASSUME NEW j \in DOMAIN Tail(s), NEW k \in DOMAIN Tail(s),
                      Tail(s)[j] = Tail(s)[k], IsCreated(Tail(s)[j]) PROVE j = k
    BY DEF Once
  <2>1. j + 1 = k + 1
    BY <1>1, <1>3 DEF Once
  <2> QED  BY <1>1, <2>1
<1>4. ASSUME Once(s), IsCreated(Head(s)), Head(s) \in ToSet(Tail(s)) PROVE FALSE
  <2>1. PICK k \in DOMAIN Tail(s) : Tail(s)[k] = Head(s)
    BY <1>4 DEF ToSet
  <2>2. k + 1 = 1
    BY <1>1, <1>4, <2>1 DEF Once
  <2> QED  BY <1>1, <2>2
<1> QED  BY <1>1, <1>2, <1>3, <1>4

-----------------------------------------------------------------------------
(***************************************************************************)
(* What the steps do to the stream and to the worker                       *)
(***************************************************************************)

\* emit() adds what it is given, and makes room only for as much as it adds.
LEMMA Published ==
  ASSUME stream \in Seq(Msg), NEW p, NEW events \in Seq(Msg), Publish(p, events)
  PROVE  /\ stream' \in Seq(Msg) /\ ToSet(stream') \subseteq ToSet(stream) \cup ToSet(events)
         /\ Once(stream) /\ Once(events) /\ Apart(stream, events) => Once(stream')
         /\ Len(stream) + Len(events) <= MaxLen => accepted' \ ToSet(stream') \subseteq accepted
         /\ Len(stream) + Len(events) <= MaxLen => ToSet(stream) \subseteq ToSet(stream')
<1> DEFINE s == stream \o events
           from == IF Len(s) > MaxLen THEN Len(s) - MaxLen + 1 ELSE 1
<1>1. /\ s \in Seq(Msg) /\ ToSet(s) = ToSet(stream) \cup ToSet(events) /\ Len(s) = Len(stream) + Len(events)
      /\ Once(stream) /\ Once(events) /\ Apart(stream, events) => Once(s)
  BY LongerStream
<1> HIDE DEF s
<1>2. MaxLen \in Nat \ {0} /\ Len(s) \in Nat
  BY <1>1, PipelineAssumption
<1>3. from \in Nat \ {0}
  BY <1>2
<1>4. /\ Newest(s) \in Seq(Msg) /\ ToSet(Newest(s)) \subseteq ToSet(s) /\ (Once(s) => Once(Newest(s)))
      /\ \A k \in from .. Len(s) : s[k] \in ToSet(Newest(s))
  <2> HIDE DEF from
  <2>0. Len(s) <= Len(s)
    BY <1>2
  <2>1. LET part == SubSeq(s, from, Len(s))
        IN  /\ part \in Seq(Msg) /\ ToSet(part) \subseteq ToSet(s)
            /\ Once(s) => Once(part)
            /\ \A k \in from .. Len(s) : s[k] \in ToSet(part)
    BY <1>1, <1>2, <1>3, <2>0, PartOfStream
  <2> QED  BY <2>1 DEF Newest, from
<1>5. ASSUME Len(s) <= MaxLen PROVE ToSet(s) \subseteq ToSet(Newest(s))
  <2>1. from = 1
    BY <1>2, <1>5
  <2> QED  BY <1>1, <1>4, <2>1 DEF ToSet
<1>6. CASE Reaches(p)
  <2>1. stream' = Newest(s) /\ accepted' = accepted \cup ToSet(events)
    BY <1>6 DEF Publish, s
  <2> QED  BY <1>1, <1>4, <1>5, <2>1
<1>7. CASE ~ Reaches(p)
  <2>1. stream' = stream /\ accepted' = accepted
    BY <1>7 DEF Publish
  <2> QED  BY <2>1
<1> QED  BY <1>6, <1>7

\* What a step leaves of the workers: one of them has moved.
Moved(w, st, b, k) ==
  /\ worker' = [v \in Worker |-> worker'[v]]
  /\ worker'[w] = [step |-> st, batch |-> b, work |-> k]
  /\ \A v \in Worker : v # w => worker'[v] = worker[v]

LEMMA WorkerMoves ==
  ASSUME Shape, NEW w \in Worker, NEW st, NEW b, NEW k
  PROVE  /\ worker' = [worker EXCEPT ![w].step = st] => Moved(w, st, worker[w].batch, worker[w].work)
         /\ worker' = [worker EXCEPT ![w].step = st, ![w].batch = b] => Moved(w, st, b, worker[w].work)
         /\ worker' = [worker EXCEPT ![w].step = st, ![w].work = k] => Moved(w, st, worker[w].batch, k)
         /\ worker' = [worker EXCEPT ![w] = Idle] => Moved(w, "down", <<>>, <<>>)
<1>1. /\ worker = [v \in Worker |-> worker[v]]
      /\ worker[w] = [step |-> worker[w].step, batch |-> worker[w].batch, work |-> worker[w].work]
  BY DEF Shape
<1>2. ASSUME worker' = [worker EXCEPT ![w].step = st] PROVE Moved(w, st, worker[w].batch, worker[w].work)
  BY <1>1, <1>2 DEF Moved
<1>3. ASSUME worker' = [worker EXCEPT ![w].step = st, ![w].batch = b] PROVE Moved(w, st, b, worker[w].work)
  BY <1>1, <1>3 DEF Moved
<1>4. ASSUME worker' = [worker EXCEPT ![w].step = st, ![w].work = k] PROVE Moved(w, st, worker[w].batch, k)
  BY <1>1, <1>4 DEF Moved
<1>5. ASSUME worker' = [worker EXCEPT ![w] = Idle] PROVE Moved(w, "down", <<>>, <<>>)
  BY <1>1, <1>5 DEF Moved, Idle
<1> QED  BY <1>2, <1>3, <1>4, <1>5

\* Nothing that is committed is taken back.
LEMMA ManualStays ==
  ASSUME ManualIsOfKnown, manual' = manual, DOMAIN facts \subseteq DOMAIN facts'
  PROVE  ManualIsOfKnown'
BY DEF ManualIsOfKnown

\* A step that gives a worker entries of the stream, or takes some from it, and
\* leaves it without an open transaction.
LEMMA BatchMoves ==
  ASSUME IInv, NEW w \in Worker, NEW st, NEW b \in Seq(Msg), NEW k, Moved(w, st, b, k), DOMAIN k = {},
         stream' \in Seq(Msg), UNCHANGED <<facts, attempts, manual>>, stored' \subseteq Case,
         st \in {"down", "polling"} <=> b = <<>>,
         st \in {"down", "polling", "dispatching", "acknowledging"},
         ToSet(stream') \subseteq ToSet(stream), ToSet(b) \subseteq ToSet(stream) \cup ToSet(worker[w].batch),
         Once(stream'), Once(b), Apart(stream', b),
         \A i \in Incident : "automatic" \in Known(i) /\ Created(i) \in ToSet(b) \cap ToSet(worker[w].batch) =>
           st = "acknowledging" /\ Head(b) = Created(i)
  PROVE  IInv'
<1>1. /\ worker' = [v \in Worker |-> worker'[v]]
      /\ worker'[w] = [step |-> st, batch |-> b, work |-> k]
      /\ worker'[w].step = st /\ worker'[w].batch = b /\ worker'[w].work = k
      /\ \A v \in Worker : v # w => worker'[v] = worker[v]
  BY DEF Moved
<1>2. DOMAIN worker'[w].work = {}
  BY <1>1
<1>3. facts' = facts /\ attempts' = attempts /\ (\A i : Known(i)' = Known(i)) /\ (\A i : Numbered(i)' <=> Numbered(i))
  BY DEF Known, Numbered
<1>4. Shape'
  BY <1>1, <1>2, <1>3 DEF IInv, Shape
<1>5. NumbersAreGiven'
  BY <1>1, <1>2, <1>3 DEF IInv, NumbersAreGiven
<1>6. DeliveredOnce'
  BY <1>1 DEF IInv, DeliveredOnce, Apart
<1>7. CreatedHasNoRun'
  BY <1>1, <1>3 DEF IInv, CreatedHasNoRun, At, Event
<1>8. RunsAreOfTheEvent'
  BY <1>1, <1>2 DEF IInv, RunsAreOfTheEvent, Event
<1>9. ManualIsOfKnown'
  BY <1>3, ManualStays DEF IInv
<1> QED  BY <1>4, <1>5, <1>6, <1>7, <1>8, <1>9 DEF IInv

\* The events of which a list is made.
Announced(work, p) ==
  {Created(i) : i \in {j \in DOMAIN work : "detected" \in work[j]}}
    \cup {Completed(i, p) : i \in {j \in DOMAIN work : "investigated" \in work[j]}}

LEMMA EmptyWork == DOMAIN Nothing = {} /\ \A p : Announced(Nothing, p) = {}
<1>1. DOMAIN Nothing = {}
  BY DEF Nothing
<1> HIDE DEF Nothing
<1> QED  BY <1>1 DEF Announced

\* An investigation or a plan is announced in one event at most.
LEMMA LearningOne ==
  ASSUME NEW i \in Incident, NEW gained, "detected" \notin gained, NEW p \in Engineer \cup {"worker"}
  PROVE  LET work == Learns(i, gained)
         IN  /\ DOMAIN work = {i} /\ work[i] = gained
             /\ Announced(work, p) \subseteq {Completed(i, p)} /\ Announced(work, p) \subseteq Msg
             /\ IsFiniteSet(Announced(work, p)) /\ Cardinality(Announced(work, p)) <= 1
<1> DEFINE work == Learns(i, gained)
           A == Announced(work, p)
           x == Completed(i, p)
<1>1. DOMAIN work = {i} /\ work[i] = gained
  BY DEF Learns
<1> HIDE DEF work
<1>2. A \subseteq {x}
  BY <1>1 DEF Announced
<1>3. x \in Msg
  BY DEF Completed, Msg
<1> HIDE DEF A, x
<1>4. A = {} \/ A = {x}
  BY <1>2
<1>5. ASSUME A = {} PROVE IsFiniteSet(A) /\ Cardinality(A) = 0
  BY <1>5, FS_EmptySet
<1>6. ASSUME A = {x} PROVE IsFiniteSet(A) /\ Cardinality(A) = 1
  BY <1>6, FS_Singleton
<1>7. IsFiniteSet(A) /\ Cardinality(A) <= 1
  BY <1>4, <1>5, <1>6
<1>8. A \subseteq Msg
  BY <1>2, <1>3
<1> QED  BY <1>1, <1>2, <1>7, <1>8 DEF work, A, x

\* What evaluation begins: the next incident of every case that has none.
LEMMA EvaluatesMissing ==
  ASSUME IsFiniteSet(Case), Shape, NEW work \in Evaluates
  PROVE  /\ DOMAIN work \subseteq Incident
         /\ \A i \in DOMAIN work : work[i] = {"detected"} /\ i[2] = attempts[i[1]] + 1
         /\ Announced(work, "worker") = {Created(i) : i \in DOMAIN work}
         /\ IsFiniteSet(Announced(work, "worker")) /\ Cardinality(Announced(work, "worker")) <= Cardinality(Case)
<1> DEFINE D == {<<c, attempts[c] + 1>> : c \in Missing}
<1>1. Missing \subseteq Case /\ attempts \in [Case -> Nat]
  BY DEF Shape, Missing
<1>2. D \subseteq Incident /\ \A i \in D : i[2] = attempts[i[1]] + 1
  BY <1>1 DEF Incident
<1>3. DOMAIN work = D /\ \A i \in D : work[i] = {"detected"}
  BY DEF Evaluates
<1>4. Announced(work, "worker") = {Created(i) : i \in D}
  <2> HIDE DEF D
  <2> QED  BY <1>3 DEF Announced
<1>5. IsFiniteSet(Missing) /\ Cardinality(Missing) <= Cardinality(Case)
  BY <1>1, FS_Subset
<1>6. IsFiniteSet(Announced(work, "worker")) /\ Cardinality(Announced(work, "worker")) <= Cardinality(Missing)
  <2> DEFINE S == {Created(i) : i \in D}
             g == [c \in Missing |-> Created(<<c, attempts[c] + 1>>)]
  <2>1. g \in Surjection(Missing, S)
    <3>1. g \in [Missing -> S]
      OBVIOUS
    <3>2. \A e \in S : \E c \in Missing : g[c] = e
      OBVIOUS
    <3> QED  BY <3>1, <3>2 DEF Surjection
  <2> HIDE DEF g, S
  <2>2. IsFiniteSet(S) /\ Cardinality(S) <= Cardinality(Missing)
    BY <1>5, <2>1, FS_Surjection
  <2> QED  BY <1>4, <2>2 DEF S
<1>7. Cardinality(Announced(work, "worker")) \in Nat /\ Cardinality(Missing) \in Nat /\ Cardinality(Case) \in Nat
  BY <1>5, <1>6, FS_CardinalityType
<1>8. Cardinality(Announced(work, "worker")) <= Cardinality(Case)
  BY <1>5, <1>6, <1>7
<1> QED  BY <1>2, <1>3, <1>4, <1>6, <1>8

\* What the transaction of a handler may be.
Begins(work, i) == work[i] = {"detected"} /\ i[2] = attempts[i[1]] + 1
Runs(e, work, i) == e = Created(i) /\ "detected" \notin work[i] /\ i \in DOMAIN facts
Planning(work, i) == work[i] = {"planned"} /\ i \in DOMAIN facts

LEMMA HandlersWork ==
  ASSUME IsFiniteSet(Case), Shape, NEW e \in Msg, NEW work \in Handles(e)
  PROVE  /\ DOMAIN work \subseteq Incident
         /\ \A i \in DOMAIN work : Begins(work, i) \/ Runs(e, work, i) \/ Planning(work, i)
         /\ Announced(work, "worker") \subseteq Msg /\ IsFiniteSet(Announced(work, "worker"))
         /\ Cardinality(Announced(work, "worker")) <= Cardinality(Case)
<1> DEFINE Good == /\ DOMAIN work \subseteq Incident
                   /\ \A i \in DOMAIN work : Begins(work, i) \/ Runs(e, work, i) \/ Planning(work, i)
                   /\ IsFiniteSet(Announced(work, "worker")) /\ Cardinality(Announced(work, "worker")) <= Cardinality(Case)
<1>1. /\ e = [type |-> e.type, of |-> e.of, by |-> e.by] /\ e.of \in Incident
      /\ e.type = "INCIDENT_CREATED" => e.by = "worker"
      /\ e.type \in {"TELEMETRY_RECEIVED", "INCIDENT_CREATED", "INVESTIGATION_COMPLETED"}
  BY DEF Msg
<1>2. Cardinality(Case) \in Nat /\ Cardinality(Case) >= 1
  <2>1. Cardinality(Case) \in Nat
    BY FS_CardinalityType
  <2>2. Case # {}
    BY <1>1 DEF Incident
  <2>3. Cardinality(Case) # 0
    BY <2>2, FS_EmptySet
  <2> QED  BY <2>1, <2>3
<1>3. ASSUME work = Nothing PROVE Good
  <2> DEFINE A == Announced(work, "worker")
  <2>1. DOMAIN work = {} /\ A = {}
    BY <1>3, EmptyWork
  <2> HIDE DEF A
  <2>2. IsFiniteSet(A) /\ Cardinality(A) <= Cardinality(Case)
    BY <1>2, <2>1, FS_EmptySet
  <2> QED  BY <2>1, <2>2 DEF A
<1>4. ASSUME e.type = "TELEMETRY_RECEIVED" PROVE Good
  <2>1. work \in Evaluates
    BY <1>4 DEF Handles
  <2>2. /\ DOMAIN work \subseteq Incident
        /\ \A i \in DOMAIN work : work[i] = {"detected"} /\ i[2] = attempts[i[1]] + 1
        /\ IsFiniteSet(Announced(work, "worker")) /\ Cardinality(Announced(work, "worker")) <= Cardinality(Case)
    BY <2>1, EvaluatesMissing
  <2>3. \A i \in DOMAIN work : Begins(work, i)
    BY <2>2 DEF Begins
  <2> QED  BY <2>2, <2>3
<1>5. ASSUME NEW gained, "detected" \notin gained, work = Learns(e.of, gained), e.of \in DOMAIN facts,
             e = Created(e.of) \/ gained = {"planned"}
      PROVE  Good
  <2>1. /\ DOMAIN work = {e.of} /\ work[e.of] = gained
        /\ IsFiniteSet(Announced(work, "worker")) /\ Cardinality(Announced(work, "worker")) <= 1
    BY <1>1, <1>5, LearningOne
  <2>2. Cardinality(Announced(work, "worker")) <= Cardinality(Case)
    BY <1>2, <2>1, FS_CardinalityType
  <2>3. Runs(e, work, e.of) \/ Planning(work, e.of)
    BY <1>5, <2>1 DEF Runs, Planning
  <2> QED  BY <1>1, <2>1, <2>2, <2>3
<1>6. ASSUME e.type = "INCIDENT_CREATED" PROVE Good
  <2>1. work \in Investigates(e.of)
    BY <1>6 DEF Handles
  <2>2. CASE work = Nothing
    BY <1>3, <2>2
  <2>3. CASE "detected" \in Known(e.of) /\ \E f \in Ran : work = Learns(e.of, {f, "automatic"})
    <3>1. PICK f \in Ran : work = Learns(e.of, {f, "automatic"})
      BY <2>3
    <3>2. e.of \in DOMAIN facts /\ "detected" \notin {f, "automatic"}
      BY <2>3 DEF Known, Ran
    <3>3. e = Created(e.of)
      BY <1>1, <1>6 DEF Created
    <3> QED  BY <1>5, <3>1, <3>2, <3>3
  <2> QED  BY <2>1, <2>2, <2>3 DEF Investigates
<1>7. ASSUME e.type = "INVESTIGATION_COMPLETED" PROVE Good
  <2>1. work \in Plans(e.of)
    BY <1>7 DEF Handles
  <2>2. CASE work = Nothing
    BY <1>3, <2>2
  <2>3. CASE "detected" \in Known(e.of) /\ work = Learns(e.of, {"planned"})
    <3>1. e.of \in DOMAIN facts
      BY <2>3 DEF Known
    <3> QED  BY <1>5, <2>3, <3>1
  <2> QED  BY <2>1, <2>2, <2>3 DEF Plans
<1>8. Good
  BY <1>1, <1>4, <1>6, <1>7
<1>9. Announced(work, "worker") \subseteq Msg
  BY <1>8 DEF Announced, Created, Completed, Msg
<1> QED  BY <1>8, <1>9

-----------------------------------------------------------------------------
(***************************************************************************)
(* Every step keeps the invariant                                          *)
(***************************************************************************)

LEMMA StartsEmpty == Init => IInv
<1> SUFFICES ASSUME Init PROVE IInv
  OBVIOUS
<1>0. facts = Nothing
  BY DEF Init, Nothing
<1>1. /\ stream = <<>> /\ DOMAIN facts = {} /\ stored = {}
      /\ attempts = [c \in Case |-> 0] /\ worker = [w \in Worker |-> Idle]
  BY <1>0, EmptyWork DEF Init
<1>2. /\ <<>> \in Seq(Msg) /\ DOMAIN <<>> = {} /\ ToSet(<<>>) = {}
  BY DEF ToSet
<1>3. \A w \in Worker : worker[w] = [step |-> "down", batch |-> <<>>, work |-> <<>>]
  BY <1>1 DEF Idle
<1>4. \A w \in Worker : worker[w].step = "down" /\ worker[w].batch = <<>> /\ worker[w].work = <<>>
  BY <1>3
<1>5. \A i : Known(i) = {}
  BY <1>1 DEF Known
<1>6. \A w \in Worker : DOMAIN worker[w].work = {} /\ ToSet(worker[w].batch) = {} /\ DOMAIN worker[w].batch = {}
  BY <1>2, <1>4
<1>7. Shape
  BY <1>1, <1>2, <1>3, <1>4, <1>6 DEF Shape
<1>8. NumbersAreGiven
  BY <1>1, <1>2, <1>6 DEF NumbersAreGiven
<1>9. DeliveredOnce
  BY <1>1, <1>2, <1>6 DEF DeliveredOnce, Once, Apart
<1>10. CreatedHasNoRun
  BY <1>5 DEF CreatedHasNoRun
<1>11. RunsAreOfTheEvent
  BY <1>6 DEF RunsAreOfTheEvent
<1>12. ManualIsOfKnown
  <2>1. manual = [e \in Engineer |-> [step |-> "new", work |-> Nothing]]
    BY DEF Init
  <2>2. \A e \in Engineer : DOMAIN manual[e].work = {}
    BY <2>1, EmptyWork
  <2> QED  BY <2>1, <2>2 DEF ManualIsOfKnown
<1> QED  BY <1>7, <1>8, <1>9, <1>10, <1>11, <1>12 DEF IInv

LEMMA EmptyList == <<>> \in Seq(Msg) /\ ToSet(<<>>) = {} /\ Once(<<>>) /\ (\A s : Apart(s, <<>>)) /\ DOMAIN <<>> = {}
<1>1. <<>> \in Seq(Msg) /\ DOMAIN <<>> = {} /\ ToSet(<<>>) = {}
  BY DEF ToSet
<1> QED  BY <1>1 DEF Once, Apart

\* What a request to the API announces is not of a new incident.
LEMMA AnnouncementKeeps ==
  ASSUME IInv, ManualIsOfKnown', NEW p, NEW events \in Seq(Msg), Once(events), Publish(p, events),
         \A m \in ToSet(events) : ~ IsCreated(m),
         UNCHANGED <<worker, facts, attempts, stored>>
  PROVE  IInv'
<1>1. stream \in Seq(Msg) /\ Once(stream) /\ Apart(stream, events)
  BY DEF IInv, Shape, DeliveredOnce, Apart
<1>2. stream' \in Seq(Msg) /\ ToSet(stream') \subseteq ToSet(stream) \cup ToSet(events) /\ Once(stream')
  BY <1>1, Published
<1>3. (\A i : Known(i)' = Known(i)) /\ (\A i : Numbered(i)' <=> Numbered(i)) /\ \A i : IsCreated(Created(i))
  BY DEF Known, Numbered, IsCreated, Created
<1>4. Shape'
  BY <1>2 DEF IInv, Shape
<1>5. NumbersAreGiven'
  BY <1>2, <1>3 DEF IInv, NumbersAreGiven
<1>6. DeliveredOnce'
  BY <1>2 DEF IInv, DeliveredOnce, Apart
<1>7. CreatedHasNoRun'
  BY <1>2, <1>3 DEF IInv, CreatedHasNoRun, At, Event
<1>8. RunsAreOfTheEvent'
  BY DEF IInv, RunsAreOfTheEvent, Event
<1> QED  BY <1>4, <1>5, <1>6, <1>7, <1>8 DEF IInv

LEMMA IngestKeeps ==
  ASSUME IInv, NEW c \in Case, Ingest(c)
  PROVE  IInv'
<1> DEFINE e == Telemetry(c)
<1>1. e \in Msg /\ ~ IsCreated(e)
  BY DEF Telemetry, Msg, IsCreated, Incident
<1> HIDE DEF e
<1>2. <<e>> \in Seq(Msg) /\ ToSet(<<e>>) = {e} /\ Once(<<e>>)
  BY <1>1 DEF ToSet, Once
<1>3. UNCHANGED <<worker, facts, attempts, stored, manual>> /\ Publish(API, <<e>>)
  BY DEF Ingest, database, e
<1>4. ManualIsOfKnown'
  BY <1>3, ManualStays DEF IInv
<1> QED  BY <1>1, <1>2, <1>3, <1>4, AnnouncementKeeps

\* A manual investigation announces its end once at most.
LEMMA Investigated ==
  ASSUME IInv, NEW e \in Engineer, NEW i \in DOMAIN facts, NEW f \in Ran
  PROVE  LET events == Announces(Learns(i, {f}), e)
         IN  /\ events \in Seq(Msg) /\ Once(events) /\ Len(events) <= 1
             /\ \A m \in ToSet(events) : ~ IsCreated(m)
<1> DEFINE work == Learns(i, {f})
<1>1. i \in Incident /\ "detected" \notin {f}
  BY DEF IInv, Shape, Ran
<1>2. /\ Announced(work, e) \subseteq {Completed(i, e)} /\ Announced(work, e) \subseteq Msg
      /\ IsFiniteSet(Announced(work, e)) /\ Cardinality(Announced(work, e)) <= 1
  BY <1>1, LearningOne
<1>3. Announces(work, e) = SetToSeq(Announced(work, e))
  BY DEF Announces, Announced
<1> HIDE DEF work
<1>4. /\ Announces(work, e) \in Seq(Msg) /\ Once(Announces(work, e)) /\ Len(Announces(work, e)) <= 1
      /\ ToSet(Announces(work, e)) = Announced(work, e)
  BY <1>2, <1>3, ListOfSet
<1>5. ~ IsCreated(Completed(i, e))
  BY DEF IsCreated, Completed
<1> QED  BY <1>2, <1>4, <1>5 DEF work

LEMMA InvestigateKeeps ==
  ASSUME IInv, NEW e \in Engineer, Investigate(e)
  PROVE  IInv'
<1>1. PICK i \in DOMAIN facts, f \in Ran :
        /\ manual' = [manual EXCEPT ![e] = [step |-> "writing", work |-> Learns(i, {f})]]
        /\ Publish(API, Announces(Learns(i, {f}), e))
  BY DEF Investigate
<1>2. UNCHANGED <<worker, facts, attempts, stored>>
  BY DEF Investigate, database
<1>3. ManualIsOfKnown'
  <2> DEFINE work == Learns(i, {f})
             new == [step |-> "writing", work |-> work]
  <2>1. DOMAIN work = {i} /\ work[i] = {f} /\ "automatic" \notin {f}
    BY DEF Learns, Ran
  <2> HIDE DEF work
  <2>2. manual' = [manual EXCEPT ![e] = new] /\ new.work = work
    BY <1>1 DEF work
  <2> HIDE DEF new
  <2>3. manual = [x \in Engineer |-> manual[x]] /\ facts' = facts
    BY <1>2 DEF IInv, ManualIsOfKnown
  <2>4. /\ manual' = [x \in Engineer |-> manual'[x]]
        /\ \A x \in Engineer : manual'[x] = IF x = e THEN new ELSE manual[x]
    BY <2>2, <2>3
  <2> QED  BY <2>1, <2>2, <2>3, <2>4 DEF IInv, ManualIsOfKnown
<1> DEFINE events == Announces(Learns(i, {f}), e)
<1>4. events \in Seq(Msg) /\ Once(events) /\ \A m \in ToSet(events) : ~ IsCreated(m)
  BY Investigated
<1> QED  BY <1>1, <1>2, <1>3, <1>4, AnnouncementKeeps

LEMMA StartKeeps ==
  ASSUME IInv, NEW w \in Worker, Start(w)
  PROVE  IInv'
<1>1. Shape /\ DeliveredOnce /\ worker[w].batch = <<>> /\ DOMAIN worker[w].work = {}
  BY DEF IInv, Shape, Start, At
<1>2. UNCHANGED <<facts, attempts, manual, stored, stream>> /\ worker' = [worker EXCEPT ![w].step = "polling"]
  BY DEF Start, database
<1>3. Moved(w, "polling", <<>>, worker[w].work)
  BY <1>1, <1>2, WorkerMoves
<1>4. stream' \in Seq(Msg) /\ stored' \subseteq Case /\ Once(stream') /\ stream' = stream
  BY <1>1, <1>2 DEF Shape, DeliveredOnce
<1> QED  BY <1>1, <1>2, <1>3, <1>4, EmptyList, BatchMoves

LEMMA CrashKeeps ==
  ASSUME IInv, NEW w \in Worker, Crash(w)
  PROVE  IInv'
<1>1. Shape /\ DeliveredOnce
  BY DEF IInv
<1>2. UNCHANGED <<facts, attempts, manual, stored, stream>> /\ worker' = [worker EXCEPT ![w] = Idle]
  BY DEF Crash, database, redis
<1>3. Moved(w, "down", <<>>, <<>>)
  BY <1>1, <1>2, WorkerMoves
<1>4. stream' \in Seq(Msg) /\ stored' \subseteq Case /\ Once(stream') /\ stream' = stream
  BY <1>1, <1>2 DEF Shape, DeliveredOnce
<1> QED  BY <1>1, <1>2, <1>3, <1>4, EmptyList, BatchMoves

\* Nothing was committed by a handler that fails: its event finds no run.
LEMMA HandlerFailsKeeps ==
  ASSUME IInv, NEW w \in Worker, HandlerFails(w)
  PROVE  IInv'
<1> DEFINE b == worker[w].batch
<1>1. Shape /\ DeliveredOnce /\ At(w, "writing") /\ CreatedHasNoRun
  BY DEF IInv, HandlerFails
<1>2. /\ UNCHANGED <<facts, attempts, manual, stored, stream>>
      /\ worker' = [worker EXCEPT ![w].step = "acknowledging", ![w].work = Nothing]
  BY DEF HandlerFails, Fails, Ends, database, redis
<1>3. Moved(w, "acknowledging", b, Nothing)
  BY <1>1, <1>2, WorkerMoves
<1>4. /\ stream' \in Seq(Msg) /\ stored' \subseteq Case /\ Once(stream') /\ stream' = stream
      /\ b \in Seq(Msg) /\ b # <<>> /\ Once(b) /\ Apart(stream', b)
  BY <1>1, <1>2 DEF Shape, DeliveredOnce, At
<1>5. \A i \in Incident : "automatic" \in Known(i) => Created(i) \notin ToSet(b)
  BY <1>1 DEF CreatedHasNoRun, At
<1> HIDE DEF b
<1>6. ToSet(b) = ToSet(worker[w].batch)
  BY DEF b
<1> QED  BY <1>2, <1>3, <1>4, <1>5, <1>6, EmptyWork, BatchMoves

\* What is acknowledged does not come back.
LEMMA AcknowledgeKeeps ==
  ASSUME IInv, NEW w \in Worker, Acknowledge(w)
  PROVE  IInv'
<1> DEFINE old == worker[w].batch
           b == Tail(old)
           st == IF b = <<>> THEN "polling" ELSE "dispatching"
<1>1. Shape /\ DeliveredOnce /\ At(w, "acknowledging") /\ CreatedHasNoRun
  BY DEF IInv, Acknowledge
<1>2. UNCHANGED <<facts, attempts, manual, stored, stream>> /\ worker' = [worker EXCEPT ![w].step = st, ![w].batch = b]
  BY DEF Acknowledge, database, Remaining
<1>3. Moved(w, st, b, worker[w].work)
  BY <1>1, <1>2, WorkerMoves
<1>4. /\ stream' \in Seq(Msg) /\ stored' \subseteq Case /\ Once(stream') /\ stream' = stream
      /\ old \in Seq(Msg) /\ old # <<>> /\ Once(old) /\ Apart(stream, old) /\ DOMAIN worker[w].work = {}
  BY <1>1, <1>2 DEF Shape, DeliveredOnce, At
<1>5. /\ b \in Seq(Msg) /\ ToSet(b) \subseteq ToSet(old) /\ Once(b)
      /\ IsCreated(Head(old)) => Head(old) \notin ToSet(b)
  BY <1>4, RestOfBatch
<1>6. Apart(stream', b)
  BY <1>4, <1>5 DEF Apart
<1>7. ASSUME NEW i \in Incident, "automatic" \in Known(i), Created(i) \in ToSet(b) PROVE FALSE
  <2>1. Created(i) \in ToSet(old) /\ IsCreated(Created(i))
    BY <1>5, <1>7 DEF IsCreated, Created
  <2>2. Head(old) = Created(i)
    BY <1>1, <1>7, <2>1 DEF CreatedHasNoRun, Event
  <2> QED  BY <1>5, <1>7, <2>1, <2>2
<1>8. st \in {"polling", "dispatching"} /\ (st = "polling" <=> b = <<>>)
  OBVIOUS
<1> HIDE DEF b, st
<1>9. ToSet(b) \subseteq ToSet(stream) \cup ToSet(worker[w].batch)
  BY <1>5
<1>10. /\ st \in {"down", "polling"} <=> b = <<>>
       /\ st \in {"down", "polling", "dispatching", "acknowledging"}
  BY <1>8
<1> QED  BY <1>2, <1>3, <1>4, <1>5, <1>6, <1>7, <1>9, <1>10, BatchMoves

\* What a worker is given is no longer in the stream.
LEMMA ReadKeeps ==
  ASSUME IInv, NEW w \in Worker, Read(w)
  PROVE  IInv'
<1> DEFINE n == IF Len(stream) < Count THEN Len(stream) ELSE Count
           b == SubSeq(stream, 1, n)
           rest == SubSeq(stream, n + 1, Len(stream))
<1>1. Shape /\ DeliveredOnce /\ At(w, "polling") /\ CreatedHasNoRun
  BY DEF IInv, Read
<1>2. /\ UNCHANGED <<facts, attempts, manual, stored>> /\ b # <<>> /\ Batch = b
      /\ worker' = [worker EXCEPT ![w].step = "dispatching", ![w].batch = b]
  BY DEF Read, database, Batch
<1>3. Moved(w, "dispatching", b, worker[w].work)
  BY <1>1, <1>2, WorkerMoves
<1>4. /\ stored' \subseteq Case /\ stream \in Seq(Msg) /\ Once(stream)
      /\ worker[w].batch = <<>> /\ DOMAIN worker[w].work = {}
  BY <1>1, <1>2 DEF Shape, DeliveredOnce, At
<1>5. n \in Nat /\ n <= Len(stream) /\ Len(stream) \in Nat
  BY <1>4, PipelineAssumption
<1>6. Len(b) = n
  BY <1>4, <1>5, SubSeqProperties
<1>7. stream' = rest
  BY <1>2, <1>6 DEF Read, Deliver
<1> HIDE DEF n
<1>8. /\ b \in Seq(Msg) /\ ToSet(b) \subseteq ToSet(stream) /\ Once(b)
      /\ rest \in Seq(Msg) /\ ToSet(rest) \subseteq ToSet(stream) /\ Once(rest) /\ Apart(rest, b)
  <2>1. b \in Seq(Msg) /\ ToSet(b) \subseteq ToSet(stream) /\ Once(b)
    BY <1>4, <1>5, PartOfStream
  <2>2. rest \in Seq(Msg) /\ ToSet(rest) \subseteq ToSet(stream) /\ Once(rest)
    <3>1. n + 1 \in Nat \ {0} /\ Len(stream) <= Len(stream)
      BY <1>5
    <3> QED  BY <1>4, <1>5, <3>1, PartOfStream
  <2>3. Apart(rest, b)
    BY <1>4, <1>5, CutOfStream
  <2> QED  BY <2>1, <2>2, <2>3
<1> HIDE DEF b, rest
<1>9. ToSet(worker[w].batch) = {}
  BY <1>4, EmptyList
<1> QED  BY <1>2, <1>3, <1>4, <1>7, <1>8, <1>9, BatchMoves

LEMMA RedisForgetsKeeps ==
  ASSUME IInv, RedisForgets
  PROVE  IInv'
<1>1. stream' = <<>> /\ UNCHANGED <<worker, facts, attempts, stored, manual>>
  BY DEF RedisForgets, database
<1>2. stream' \in Seq(Msg) /\ ToSet(stream') = {} /\ Once(stream')
  BY <1>1, EmptyList
<1>3. (\A i : Known(i)' = Known(i)) /\ (\A i : Numbered(i)' <=> Numbered(i))
  BY <1>1 DEF Known, Numbered
<1>4. Shape'
  BY <1>1, <1>2 DEF IInv, Shape
<1>5. NumbersAreGiven'
  BY <1>1, <1>2, <1>3 DEF IInv, NumbersAreGiven
<1>6. DeliveredOnce'
  BY <1>1, <1>2 DEF IInv, DeliveredOnce, Apart
<1>7. CreatedHasNoRun'
  BY <1>1, <1>2, <1>3 DEF IInv, CreatedHasNoRun, At, Event
<1>8. RunsAreOfTheEvent'
  BY <1>1 DEF IInv, RunsAreOfTheEvent, Event
<1>9. ManualIsOfKnown'
  BY <1>1, ManualStays DEF IInv
<1> QED  BY <1>4, <1>5, <1>6, <1>7, <1>8, <1>9 DEF IInv

\* What is committed of an incident grows by what the transaction has of it.
LEMMA Committed ==
  ASSUME NEW work, facts' = Merged(work)
  PROVE  /\ DOMAIN facts' = DOMAIN facts \cup DOMAIN work
         /\ \A i : Known(i)' = Known(i) \cup (IF i \in DOMAIN work THEN work[i] ELSE {})
<1> DEFINE gained(i) == IF i \in DOMAIN work THEN work[i] ELSE {}
<1>1. facts' = [i \in DOMAIN facts \cup DOMAIN work |-> Known(i) \cup gained(i)]
  BY DEF Merged
<1>2. DOMAIN facts' = DOMAIN facts \cup DOMAIN work
  BY <1>1
<1>3. ASSUME NEW i PROVE Known(i)' = Known(i) \cup gained(i)
  <2>1. CASE i \in DOMAIN facts \cup DOMAIN work
    BY <1>1, <1>2, <2>1 DEF Known
  <2>2. CASE i \notin DOMAIN facts \cup DOMAIN work
    BY <1>2, <2>2 DEF Known
  <2> QED  BY <2>1, <2>2
<1> QED  BY <1>2, <1>3

\* A manual investigation adds nothing that INCIDENT_CREATED depends on.
LEMMA CommitInvestigationKeeps ==
  ASSUME IInv, NEW e \in Engineer, CommitInvestigation(e) \/ LoseInvestigation(e)
  PROVE  IInv'
<1> DEFINE work == manual[e].work
           ended == [step |-> "done", work |-> Nothing]
<1>1. /\ UNCHANGED <<attempts, stored, stream, worker>> /\ manual' = [manual EXCEPT ![e] = ended]
      /\ facts' = Merged(work) \/ facts' = facts
  BY DEF CommitInvestigation, LoseInvestigation, redis, database
<1>2. ended.work = Nothing /\ DOMAIN Nothing = {}
  BY EmptyWork
<1>3. \A i \in DOMAIN work : i \in DOMAIN facts /\ "automatic" \notin work[i]
  BY DEF IInv, ManualIsOfKnown
<1> HIDE DEF work, ended
<1>4. DOMAIN facts' = DOMAIN facts
  <2>1. CASE facts' = Merged(work)
    BY <1>3, <2>1, Committed
  <2> QED  BY <1>1, <2>1
<1>5. \A i : "automatic" \in Known(i)' <=> "automatic" \in Known(i)
  <2>1. CASE facts' = Merged(work)
    BY <1>3, <2>1, Committed
  <2>2. CASE facts' = facts
    BY <2>2 DEF Known
  <2> QED  BY <1>1, <2>1, <2>2
<1>6. \A i : Numbered(i)' <=> Numbered(i)
  BY <1>1 DEF Numbered
<1>7. Shape'
  BY <1>1, <1>4 DEF IInv, Shape
<1>8. NumbersAreGiven'
  BY <1>1, <1>4, <1>6 DEF IInv, NumbersAreGiven
<1>9. DeliveredOnce'
  BY <1>1 DEF IInv, DeliveredOnce
<1>10. CreatedHasNoRun' /\ RunsAreOfTheEvent'
  BY <1>1, <1>5 DEF IInv, CreatedHasNoRun, RunsAreOfTheEvent, At, Event
<1>11. ManualIsOfKnown'
  <2>1. manual = [x \in Engineer |-> manual[x]]
    BY DEF IInv, ManualIsOfKnown
  <2>2. /\ manual' = [x \in Engineer |-> manual'[x]]
        /\ \A x \in Engineer : manual'[x] = IF x = e THEN ended ELSE manual[x]
    BY <1>1, <2>1
  <2> QED  BY <1>2, <1>4, <2>2 DEF IInv, ManualIsOfKnown
<1> QED  BY <1>7, <1>8, <1>9, <1>10, <1>11 DEF IInv

\* The event of a run that is committed is about to be acknowledged.
LEMMA CommitKeeps ==
  ASSUME IInv, NEW w \in Worker, Commit(w)
  PROVE  IInv'
<1> DEFINE work == worker[w].work
           b == worker[w].batch
<1>1. Shape /\ NumbersAreGiven /\ DeliveredOnce /\ CreatedHasNoRun /\ RunsAreOfTheEvent /\ At(w, "writing")
  BY DEF IInv, Commit
<1>2. /\ UNCHANGED <<attempts, manual, stored, stream>> /\ facts' = Merged(work)
      /\ worker' = [worker EXCEPT ![w].step = "acknowledging", ![w].work = Nothing]
  BY DEF Commit, Ends, redis
<1>3. Moved(w, "acknowledging", b, Nothing)
  BY <1>1, <1>2, WorkerMoves
<1>4. /\ b \in Seq(Msg) /\ b # <<>> /\ DOMAIN work \subseteq Incident /\ Head(b) \in ToSet(b)
  <2>1. b \in Seq(Msg) /\ b # <<>> /\ DOMAIN work \subseteq Incident
    BY <1>1 DEF Shape, At
  <2> QED  BY <2>1, RestOfBatch
<1>5. /\ DOMAIN facts' = DOMAIN facts \cup DOMAIN work
      /\ \A i : Known(i)' = Known(i) \cup (IF i \in DOMAIN work THEN work[i] ELSE {})
  BY <1>2, Committed
<1>6. /\ worker' = [v \in Worker |-> worker'[v]]
      /\ worker'[w] = [step |-> "acknowledging", batch |-> b, work |-> Nothing]
      /\ worker'[w].step = "acknowledging" /\ worker'[w].batch = b /\ DOMAIN worker'[w].work = {}
      /\ \A v \in Worker : v # w => worker'[v] = worker[v]
  BY <1>3, EmptyWork DEF Moved
<1>7. \A v \in Worker : worker'[v].batch = worker[v].batch
  BY <1>6
<1>8. ASSUME NEW i, i \in DOMAIN work, "automatic" \in work[i] PROVE Head(b) = Created(i)
  BY <1>1, <1>8 DEF RunsAreOfTheEvent, Event
<1> HIDE DEF work, b
<1>9. b = worker[w].batch
  BY DEF b
<1>10. Shape'
  BY <1>1, <1>2, <1>4, <1>5, <1>6 DEF Shape
<1>11. NumbersAreGiven'
  <2>1. \A i \in DOMAIN work : Numbered(i)
    BY <1>1 DEF NumbersAreGiven, work
  <2>2. \A i : Numbered(i)' <=> Numbered(i)
    BY <1>2 DEF Numbered
  <2> QED  BY <1>1, <1>2, <1>5, <1>6, <1>7, <2>1, <2>2 DEF NumbersAreGiven
<1>12. DeliveredOnce'
  BY <1>1, <1>2, <1>7 DEF DeliveredOnce
<1>13. CreatedHasNoRun'
  <2> SUFFICES ASSUME NEW i \in Incident, "automatic" \in Known(i)'
               PROVE  /\ Created(i) \notin ToSet(stream)
                      /\ \A v \in Worker : Created(i) \in ToSet(worker[v].batch) =>
                           worker'[v].step = "acknowledging" /\ Head(worker[v].batch) = Created(i)
    BY <1>2, <1>7 DEF CreatedHasNoRun, At, Event
  <2>1. CASE "automatic" \in Known(i)
    <3>1. Created(i) \notin ToSet(stream)
      BY <1>1, <2>1 DEF CreatedHasNoRun
    <3>2. \A v \in Worker : Created(i) \in ToSet(worker[v].batch) =>
            worker[v].step = "acknowledging" /\ Head(worker[v].batch) = Created(i)
      BY <1>1, <2>1 DEF CreatedHasNoRun, At, Event
    <3> QED  BY <1>6, <3>1, <3>2
  <2>2. CASE i \in DOMAIN work /\ "automatic" \in work[i]
    <3>1. Head(b) = Created(i) /\ Created(i) \in ToSet(b) /\ IsCreated(Created(i))
      BY <1>4, <1>8, <2>2 DEF IsCreated, Created
    <3>2. Created(i) \notin ToSet(stream) /\ \A v \in Worker : v # w => Created(i) \notin ToSet(worker[v].batch)
      BY <1>1, <1>9, <3>1 DEF DeliveredOnce, Apart
    <3> QED  BY <1>6, <1>9, <3>1, <3>2
  <2> QED  BY <1>5, <2>1, <2>2
<1>14. RunsAreOfTheEvent'
  BY <1>1, <1>6 DEF RunsAreOfTheEvent, Event
<1>15. ManualIsOfKnown'
  BY <1>2, <1>5, ManualStays DEF IInv
<1> QED  BY <1>10, <1>11, <1>12, <1>13, <1>14, <1>15 DEF IInv

\* What a handler that has decided will publish, and the numbers it has taken.
LEMMA Decided ==
  ASSUME IsFiniteSet(Case), Shape, NumbersAreGiven, NEW e \in Msg, IsCreated(e) => Numbered(e.of),
         NEW work \in Handles(e),
         attempts' = [c \in Case |-> IF \E i \in DOMAIN work : i[1] = c /\ "detected" \in work[i]
                                     THEN attempts[c] + 1 ELSE attempts[c]]
  PROVE  /\ DOMAIN work \subseteq Incident
         /\ \A i \in DOMAIN work : Begins(work, i) \/ Runs(e, work, i) \/ Planning(work, i)
         /\ Announces(work, "worker") \in Seq(Msg) /\ Once(Announces(work, "worker")) /\ Len(Announces(work, "worker")) <= Cardinality(Case)
         /\ ToSet(Announces(work, "worker")) = Announced(work, "worker")
         /\ attempts' \in [Case -> Nat]
         /\ \A i \in Incident : Numbered(i) => Numbered(i)'
         /\ \A i \in DOMAIN work : Numbered(i)'
         /\ \A m \in Announced(work, "worker") : IsCreated(m) => m.of \in DOMAIN work /\ ~ Numbered(m.of)
<1>1. /\ DOMAIN work \subseteq Incident
      /\ \A i \in DOMAIN work : Begins(work, i) \/ Runs(e, work, i) \/ Planning(work, i)
      /\ Announced(work, "worker") \subseteq Msg /\ IsFiniteSet(Announced(work, "worker"))
      /\ Cardinality(Announced(work, "worker")) <= Cardinality(Case)
  BY HandlersWork
<1>2. Announces(work, "worker") = SetToSeq(Announced(work, "worker"))
  BY DEF Announces, Announced
<1>3. /\ Announces(work, "worker") \in Seq(Msg) /\ Once(Announces(work, "worker")) /\ Len(Announces(work, "worker")) <= Cardinality(Case)
      /\ ToSet(Announces(work, "worker")) = Announced(work, "worker")
  BY <1>1, <1>2, ListOfSet
<1>4. attempts \in [Case -> Nat] /\ DOMAIN facts \subseteq Incident
  BY DEF Shape
<1>5. attempts' \in [Case -> Nat] /\ \A c \in Case : attempts[c] <= attempts'[c]
  BY <1>4
<1>6. \A i \in Incident : i[1] \in Case /\ i[2] \in Nat
  BY DEF Incident
<1>7. \A i \in Incident : Numbered(i) => Numbered(i)'
  BY <1>4, <1>5, <1>6 DEF Numbered
<1>8. ASSUME NEW i \in DOMAIN work, "detected" \in work[i] PROVE Begins(work, i) /\ ~ Numbered(i) /\ Numbered(i)'
  <2>1. i \in Incident
    BY <1>1
  <2>2. Begins(work, i)
    BY <1>1, <1>8 DEF Runs, Planning, Ran
  <2>3. attempts'[i[1]] = attempts[i[1]] + 1
    BY <1>6, <1>8, <2>1
  <2> QED  BY <1>4, <1>6, <2>1, <2>2, <2>3 DEF Begins, Numbered
<1>9. ASSUME NEW i \in DOMAIN work PROVE Numbered(i)'
  <2>1. CASE Begins(work, i)
    BY <1>8, <2>1 DEF Begins
  <2>2. CASE i \in DOMAIN facts
    BY <1>1, <1>7, <2>2 DEF NumbersAreGiven
  <2> QED  BY <1>1, <2>1, <2>2 DEF Runs, Planning
<1>10. ASSUME NEW m \in Announced(work, "worker"), IsCreated(m) PROVE m.of \in DOMAIN work /\ ~ Numbered(m.of)
  <2>1. PICK i \in DOMAIN work : "detected" \in work[i] /\ m.of = i
    BY <1>10 DEF Announced, Created, Completed, IsCreated
  <2> QED  BY <1>8, <2>1
<1> QED  BY <1>1, <1>3, <1>5, <1>7, <1>9, <1>10

LEMMA HandleKeeps ==
  ASSUME IsFiniteSet(Case), IInv, NEW w \in Worker, Handle(w)
  PROVE  IInv'
<1> DEFINE b == worker[w].batch
           e == Head(b)
<1>1. Shape /\ NumbersAreGiven /\ DeliveredOnce /\ CreatedHasNoRun /\ RunsAreOfTheEvent /\ At(w, "dispatching")
  BY DEF IInv, Handle
<1>2. PICK work \in Handles(e) :
        /\ worker' = [worker EXCEPT ![w].step = "writing", ![w].work = work]
        /\ attempts' = [c \in Case |-> IF \E i \in DOMAIN work : i[1] = c /\ "detected" \in work[i]
                                       THEN attempts[c] + 1 ELSE attempts[c]]
        /\ Publish(w, Announces(work, "worker"))
  BY DEF Handle, Event
<1>3. facts' = facts /\ stored' = stored /\ manual' = manual
  BY DEF Handle, database
<1>4. Moved(w, "writing", b, work)
  BY <1>1, <1>2, WorkerMoves
<1>5. b \in Seq(Msg) /\ b # <<>> /\ e \in ToSet(b) /\ e \in Msg
  <2>1. b \in Seq(Msg) /\ b # <<>>
    BY <1>1 DEF Shape, At
  <2> QED  BY <2>1, RestOfBatch, HeadTailProperties
<1>6. IsCreated(e) => Numbered(e.of)
  BY <1>1, <1>5 DEF NumbersAreGiven
<1> HIDE DEF b, e
<1>7. /\ DOMAIN work \subseteq Incident
      /\ \A i \in DOMAIN work : Begins(work, i) \/ Runs(e, work, i) \/ Planning(work, i)
      /\ Announces(work, "worker") \in Seq(Msg) /\ Once(Announces(work, "worker"))
      /\ ToSet(Announces(work, "worker")) = Announced(work, "worker")
      /\ attempts' \in [Case -> Nat]
      /\ \A i \in Incident : Numbered(i) => Numbered(i)'
      /\ \A i \in DOMAIN work : Numbered(i)'
      /\ \A m \in Announced(work, "worker") : IsCreated(m) => m.of \in DOMAIN work /\ ~ Numbered(m.of)
  BY <1>1, <1>2, <1>5, <1>6, Decided
<1>8. /\ worker' = [v \in Worker |-> worker'[v]]
      /\ worker'[w] = [step |-> "writing", batch |-> b, work |-> work]
      /\ worker'[w].step = "writing" /\ worker'[w].batch = b /\ worker'[w].work = work
      /\ \A v \in Worker : v # w => worker'[v] = worker[v]
  BY <1>4 DEF Moved
<1>9. \A v \in Worker : worker'[v].batch = worker[v].batch
  BY <1>8 DEF b
<1>10. Apart(stream, Announces(work, "worker")) /\ \A v \in Worker : Apart(Announces(work, "worker"), worker[v].batch)
  BY <1>1, <1>7 DEF NumbersAreGiven, Apart
<1>11. stream' \in Seq(Msg) /\ ToSet(stream') \subseteq ToSet(stream) \cup Announced(work, "worker") /\ Once(stream')
  <2>1. stream \in Seq(Msg) /\ Once(stream)
    BY <1>1 DEF Shape, DeliveredOnce
  <2> QED  BY <1>2, <1>7, <1>10, <2>1, Published
<1>12. Shape'
  <2>1. /\ stream' \in Seq(Msg) /\ attempts' \in [Case -> Nat] /\ DOMAIN facts' \subseteq Incident
        /\ stored' \subseteq Case /\ DOMAIN work \subseteq Incident
    BY <1>1, <1>3, <1>7, <1>11 DEF Shape
  <2>2. Shape /\ b \in Seq(Msg) /\ b # <<>>
    BY <1>1, <1>5
  <2>3. ASSUME NEW v \in Worker
        PROVE  /\ worker'[v] = [step |-> worker'[v].step, batch |-> worker'[v].batch, work |-> worker'[v].work]
               /\ worker'[v].batch \in Seq(Msg)
               /\ worker'[v].step \in {"down", "polling"} => worker'[v].batch = <<>>
               /\ worker'[v].step \in {"dispatching", "writing", "acknowledging"} => worker'[v].batch # <<>>
               /\ worker'[v].step # "writing" => DOMAIN worker'[v].work = {}
               /\ DOMAIN worker'[v].work \subseteq Incident
    <3>1. CASE v = w
      BY <1>8, <2>1, <2>2, <3>1
    <3>2. CASE v # w
      BY <1>8, <2>2, <3>2 DEF Shape
    <3> QED  BY <3>1, <3>2
  <2> QED  BY <1>8, <2>1, <2>3 DEF Shape
<1>13. NumbersAreGiven'
  <2>1. \A i \in DOMAIN facts' : Numbered(i)'
    BY <1>1, <1>3, <1>7 DEF NumbersAreGiven, Shape
  <2>2. \A m \in Msg : m.of \in Incident
    BY DEF Msg
  <2>3. \A m \in ToSet(stream') : IsCreated(m) => Numbered(m.of)'
    <3>1. ToSet(stream) \subseteq Msg
      BY <1>1 DEF Shape, ToSet
    <3> QED  BY <1>1, <1>7, <1>11, <2>2, <3>1 DEF NumbersAreGiven
  <2>4. ASSUME NEW v \in Worker
        PROVE  /\ \A i \in DOMAIN worker'[v].work : Numbered(i)'
               /\ \A m \in ToSet(worker'[v].batch) : IsCreated(m) => Numbered(m.of)'
    <3>1. /\ ToSet(worker[v].batch) \subseteq Msg /\ DOMAIN worker[v].work \subseteq Incident
      BY <1>1 DEF Shape, ToSet
    <3>2. \A m \in ToSet(worker[v].batch) : IsCreated(m) => Numbered(m.of)'
      BY <1>1, <1>7, <2>2, <3>1 DEF NumbersAreGiven
    <3>3. \A i \in DOMAIN worker'[v].work : Numbered(i)'
      BY <1>1, <1>7, <1>8, <3>1 DEF NumbersAreGiven
    <3> QED  BY <1>9, <3>2, <3>3
  <2> QED  BY <2>1, <2>3, <2>4 DEF NumbersAreGiven
<1>14. DeliveredOnce'
  BY <1>1, <1>7, <1>9, <1>10, <1>11 DEF DeliveredOnce, Apart
<1>15. CreatedHasNoRun'
  <2> SUFFICES ASSUME NEW i \in Incident, "automatic" \in Known(i)
               PROVE  /\ Created(i) \notin ToSet(stream')
                      /\ \A v \in Worker : Created(i) \in ToSet(worker[v].batch) =>
                           worker'[v].step = "acknowledging" /\ Head(worker[v].batch) = Created(i)
    BY <1>3, <1>9 DEF CreatedHasNoRun, At, Event, Known
  <2>1. Created(i) \notin ToSet(stream)
    BY <1>1 DEF CreatedHasNoRun
  <2>2. Created(i) \notin Announced(work, "worker")
    <3>1. IsCreated(Created(i)) /\ Created(i).of = i /\ Numbered(i)
      BY <1>1 DEF IsCreated, Created, NumbersAreGiven, Known
    <3> QED  BY <1>7, <3>1
  <2>3. \A v \in Worker : Created(i) \in ToSet(worker[v].batch) =>
          worker[v].step = "acknowledging" /\ Head(worker[v].batch) = Created(i)
    BY <1>1 DEF CreatedHasNoRun, At, Event
  <2>4. worker[w].step = "dispatching"
    BY <1>1 DEF At
  <2> QED  BY <1>8, <1>11, <2>1, <2>2, <2>3, <2>4
<1>16. RunsAreOfTheEvent'
  <2>1. \A i \in DOMAIN work : "automatic" \in work[i] => e = Created(i)
    BY <1>7 DEF Begins, Runs, Planning
  <2> QED  BY <1>1, <1>8, <2>1 DEF RunsAreOfTheEvent, Event, e
<1>17. ManualIsOfKnown'
  BY <1>3, ManualStays DEF IInv
<1> QED  BY <1>12, <1>13, <1>14, <1>15, <1>16, <1>17 DEF IInv

\* The other steps concern the requests, the breakers and Redis alone.
LEMMA OthersKeep ==
  ASSUME IInv, UNCHANGED <<facts, attempts, stream, worker, manual>>, stored' \subseteq Case
  PROVE  IInv'
<1>1. (\A i : Known(i)' = Known(i)) /\ (\A i : Numbered(i)' <=> Numbered(i))
  BY DEF Known, Numbered
<1>2. Shape'
  BY DEF IInv, Shape
<1>3. NumbersAreGiven'
  BY <1>1 DEF IInv, NumbersAreGiven
<1>4. DeliveredOnce'
  BY DEF IInv, DeliveredOnce
<1>5. CreatedHasNoRun' /\ RunsAreOfTheEvent'
  BY <1>1 DEF IInv, CreatedHasNoRun, RunsAreOfTheEvent, At, Event
<1>6. ManualIsOfKnown'
  BY ManualStays DEF IInv
<1> QED  BY <1>2, <1>3, <1>4, <1>5, <1>6 DEF IInv

LEMMA NextKeeps ==
  ASSUME IsFiniteSet(Case), IInv, [Next]_vars
  PROVE  IInv'
<1>1. stored \subseteq Case
  BY DEF IInv, Shape
<1>2. ASSUME NEW c \in Case, RequestStep(c) PROVE IInv'
  <2>1. CASE Ingest(c)
    BY <2>1, IngestKeeps
  <2>2. CASE Store(c)
    BY <1>1, <2>2, OthersKeep DEF Store, redis
  <2>3. CASE Refuse(c)
    BY <1>1, <2>3, OthersKeep DEF Refuse, redis, database
  <2> QED  BY <1>2, <2>1, <2>2, <2>3 DEF RequestStep
<1>3. ASSUME NEW w \in Worker, WorkerStep(w) \/ Crash(w) PROVE IInv'
  <2>1. CASE FindsUnhealthy(w)
    BY <1>1, <2>1, OthersKeep DEF FindsUnhealthy, redis, database
  <2> QED  BY <1>3, <2>1, StartKeeps, ReadKeeps, HandleKeeps, CommitKeeps, HandlerFailsKeeps,
              AcknowledgeKeeps, CrashKeeps DEF WorkerStep
<1>4. ASSUME NEW p \in Worker \cup {API}, BreakerCloses(p) PROVE IInv'
  BY <1>1, <1>4, OthersKeep DEF BreakerCloses, redis, database
<1>5. ASSUME RedisStops \/ RedisStarts PROVE IInv'
  BY <1>1, <1>5, OthersKeep DEF RedisStops, RedisStarts, database
<1>6. ASSUME UNCHANGED vars PROVE IInv'
  BY <1>1, <1>6, OthersKeep DEF vars, redis, database
<1>7. ASSUME NEW e \in Engineer, Investigate(e) \/ ManualStep(e) PROVE IInv'
  BY <1>7, InvestigateKeeps, CommitInvestigationKeeps DEF ManualStep
<1> QED  BY <1>2, <1>3, <1>4, <1>5, <1>6, <1>7, RedisForgetsKeeps DEF Next

\* The invariant has what the property says.
LEMMA RunsAreSingle ==
  ASSUME IInv
  PROVE  OneRunPerIncident
<1> SUFFICES ASSUME NEW w \in Worker, NEW i \in DOMAIN worker[w].work, "automatic" \in worker[w].work[i]
             PROVE  /\ "automatic" \notin Known(i)
                    /\ \A v \in Worker \ {w} : i \in DOMAIN worker[v].work => "automatic" \notin worker[v].work[i]
  BY DEF OneRunPerIncident
<1>1. \A v \in Worker : i \in DOMAIN worker[v].work =>
        worker[v].step = "writing" /\ Event(v) \in ToSet(worker[v].batch) /\ i \in Incident
  <2> SUFFICES ASSUME NEW v \in Worker, i \in DOMAIN worker[v].work
               PROVE  worker[v].step = "writing" /\ Event(v) \in ToSet(worker[v].batch) /\ i \in Incident
    OBVIOUS
  <2>1. worker[v].step = "writing" /\ i \in Incident
    BY DEF IInv, Shape
  <2>2. worker[v].batch \in Seq(Msg) /\ worker[v].batch # <<>>
    BY <2>1 DEF IInv, Shape
  <2> QED  BY <2>1, <2>2, RestOfBatch DEF Event
<1>2. Event(w) = Created(i) /\ IsCreated(Created(i))
  BY DEF IInv, RunsAreOfTheEvent, IsCreated, Created
<1>3. "automatic" \notin Known(i)
  BY <1>1, <1>2 DEF IInv, CreatedHasNoRun, At
<1>4. ASSUME NEW v \in Worker \ {w}, i \in DOMAIN worker[v].work, "automatic" \in worker[v].work[i] PROVE FALSE
  <2>1. Event(v) = Created(i)
    BY <1>4 DEF IInv, RunsAreOfTheEvent
  <2> QED  BY <1>1, <1>2, <1>4, <2>1 DEF IInv, DeliveredOnce, Apart
<1> QED  BY <1>3, <1>4

\* "handlers are idempotent (run_id guards)", of the workers' own runs, for any number of
\* workers, incidents and manual investigations, through outages, crashes and failing
\* handlers: an incident gets one, because its INCIDENT_CREATED is published once and is
\* given to one worker.  The guard alone would not do: an engineer's run may come between.
THEOREM RunsAreNeverRepeated ==
  ASSUME IsFiniteSet(Case)
  PROVE  Spec => []OneRunPerIncident
<1>1. IInv /\ [Next]_vars => IInv'
  BY NextKeeps
<1>2. IInv => OneRunPerIncident
  BY RunsAreSingle
<1> QED  BY <1>1, <1>2, StartsEmpty, PTL DEF Spec

-----------------------------------------------------------------------------
(***************************************************************************)
(* Nothing that was accepted vanishes, as long as the stream is not trimmed*)
(***************************************************************************)

Accounted == NothingVanishes /\ AcknowledgedIsHandled

\* A worker may move to its acknowledgement only when the handler has ended.
LEMMA StaysHandled ==
  ASSUME Accounted, handled \subseteq handled', NEW w \in Worker, NEW st, NEW b, NEW k, Moved(w, st, b, k),
         st = "acknowledging" => Head(b) \in handled'
  PROVE  AcknowledgedIsHandled'
<1> SUFFICES ASSUME NEW v \in Worker, worker'[v].step = "acknowledging" PROVE Head(worker'[v].batch) \in handled'
  BY DEF AcknowledgedIsHandled, At, Event
<1>1. CASE v = w
  <2>1. worker'[v].step = st /\ worker'[v].batch = b
    BY <1>1 DEF Moved
  <2> QED  BY <2>1
<1>2. CASE v # w
  <2>1. worker'[v] = worker[v]
    BY <1>2 DEF Moved
  <2>2. Head(worker[v].batch) \in handled
    BY <2>1 DEF Accounted, AcknowledgedIsHandled, At, Event
  <2> QED  BY <2>1, <2>2
<1> QED  BY <1>1, <1>2

\* What is published finds room.
LEMMA PublishingAccounts ==
  ASSUME stream \in Seq(Msg), NEW p, NEW events \in Seq(Msg), Publish(p, events),
         Len(stream) + Len(events) <= MaxLen, UNCHANGED <<pending, handled>>, NothingVanishes
  PROVE  NothingVanishes'
<1>1. accepted' \ ToSet(stream') \subseteq accepted /\ ToSet(stream) \subseteq ToSet(stream')
  BY Published
<1> QED  BY <1>1 DEF NothingVanishes

LEMMA IngestAccounts ==
  ASSUME IsFiniteSet(Case), IInv, Accounted, Roomy, NEW c \in Case, Ingest(c)
  PROVE  Accounted'
<1> DEFINE events == <<Telemetry(c)>>
<1>1. stream \in Seq(Msg) /\ Len(stream) \in Nat
  BY DEF IInv, Shape
<1>2. Cardinality(Case) \in Nat /\ Cardinality(Case) >= 1
  <2>1. Cardinality(Case) # 0
    BY FS_EmptySet
  <2> QED  BY <2>1, FS_CardinalityType
<1>3. events \in Seq(Msg) /\ Len(events) = 1
  BY DEF Telemetry, Msg, Incident
<1>4. MaxLen \in Nat
  BY PipelineAssumption
<1>5. Len(stream) + Len(events) <= MaxLen
  BY <1>1, <1>2, <1>3, <1>4 DEF Roomy
<1>6. Publish(API, events) /\ UNCHANGED <<pending, handled, worker>>
  BY DEF Ingest
<1>7. NothingVanishes'
  BY <1>1, <1>3, <1>5, <1>6, PublishingAccounts DEF Accounted
<1>8. AcknowledgedIsHandled'
  BY <1>6 DEF Accounted, AcknowledgedIsHandled, At, Event
<1> QED  BY <1>7, <1>8 DEF Accounted

LEMMA InvestigateAccounts ==
  ASSUME IsFiniteSet(Case), IInv, Accounted, Roomy, NEW e \in Engineer, Investigate(e)
  PROVE  Accounted'
<1>1. PICK i \in DOMAIN facts, f \in Ran : Publish(API, Announces(Learns(i, {f}), e))
  BY DEF Investigate
<1> DEFINE events == Announces(Learns(i, {f}), e)
<1>2. events \in Seq(Msg) /\ Len(events) <= 1
  BY Investigated
<1>3. stream \in Seq(Msg) /\ Len(stream) \in Nat /\ Len(events) \in Nat /\ MaxLen \in Nat
  BY <1>2, PipelineAssumption DEF IInv, Shape
<1>4. Cardinality(Case) \in Nat /\ Cardinality(Case) >= 1
  <2>1. Case # {}
    BY DEF IInv, Shape, Incident
  <2>2. Cardinality(Case) # 0
    BY <2>1, FS_EmptySet
  <2> QED  BY <2>2, FS_CardinalityType
<1>5. Publish(API, events) /\ UNCHANGED <<pending, handled, worker>>
  BY <1>1 DEF Investigate
<1> HIDE DEF events
<1>6. Len(stream) + Len(events) <= MaxLen
  BY <1>2, <1>3, <1>4 DEF Roomy
<1>7. NothingVanishes'
  BY <1>2, <1>3, <1>5, <1>6, PublishingAccounts DEF Accounted
<1>8. AcknowledgedIsHandled'
  BY <1>5 DEF Accounted, AcknowledgedIsHandled, At, Event
<1> QED  BY <1>7, <1>8 DEF Accounted

LEMMA HandleAccounts ==
  ASSUME IsFiniteSet(Case), IInv, Accounted, Roomy, NEW w \in Worker, Handle(w)
  PROVE  Accounted'
<1> DEFINE e == Event(w)
<1>1. Shape /\ NumbersAreGiven /\ stream \in Seq(Msg) /\ Len(stream) \in Nat /\ At(w, "dispatching")
  BY DEF IInv, Shape, Handle
<1>2. e \in Msg /\ (IsCreated(e) => Numbered(e.of))
  <2>1. worker[w].batch \in Seq(Msg) /\ worker[w].batch # <<>>
    BY <1>1 DEF Shape, At
  <2>2. Head(worker[w].batch) \in ToSet(worker[w].batch)
    BY <2>1, RestOfBatch
  <2> QED  BY <1>1, <2>1, <2>2, HeadTailProperties DEF NumbersAreGiven, Event
<1> HIDE DEF e
<1>3. PICK work \in Handles(e) :
        /\ worker' = [worker EXCEPT ![w].step = "writing", ![w].work = work]
        /\ attempts' = [c \in Case |-> IF \E i \in DOMAIN work : i[1] = c /\ "detected" \in work[i]
                                       THEN attempts[c] + 1 ELSE attempts[c]]
        /\ Publish(w, Announces(work, "worker"))
  BY DEF Handle, e
<1>4. Announces(work, "worker") \in Seq(Msg) /\ Len(Announces(work, "worker")) <= Cardinality(Case)
  BY <1>1, <1>2, <1>3, Decided
<1>5. Cardinality(Case) \in Nat /\ MaxLen \in Nat /\ Len(Announces(work, "worker")) \in Nat
  BY <1>4, FS_CardinalityType, PipelineAssumption
<1>6. Len(stream) + Len(Announces(work, "worker")) <= MaxLen
  BY <1>1, <1>4, <1>5 DEF Roomy
<1>7. UNCHANGED <<pending, handled>>
  BY DEF Handle
<1>8. NothingVanishes'
  BY <1>1, <1>3, <1>4, <1>6, <1>7, PublishingAccounts DEF Accounted
<1>9. Moved(w, "writing", worker[w].batch, work)
  BY <1>1, <1>3, WorkerMoves
<1>10. AcknowledgedIsHandled'
  BY <1>7, <1>9, StaysHandled
<1> QED  BY <1>8, <1>10 DEF Accounted

\* What leaves the stream is pending.
LEMMA ReadAccounts ==
  ASSUME IInv, Accounted, NEW w \in Worker, Read(w)
  PROVE  Accounted'
<1> DEFINE n == IF Len(stream) < Count THEN Len(stream) ELSE Count
           b == SubSeq(stream, 1, n)
           rest == SubSeq(stream, n + 1, Len(stream))
<1>1. Shape /\ stream \in Seq(Msg) /\ Len(stream) \in Nat
  BY DEF IInv, Shape
<1>2. n \in Nat /\ n <= Len(stream)
  BY <1>1, PipelineAssumption
<1>3. Len(b) = n
  BY <1>1, <1>2, SubSeqProperties
<1>4. /\ stream' = rest /\ pending' = pending \cup ToSet(b) /\ accepted' = accepted /\ handled' = handled
      /\ worker' = [worker EXCEPT ![w].step = "dispatching", ![w].batch = b]
  BY <1>3 DEF Read, Deliver, Batch
<1> HIDE DEF n
<1>5. ToSet(stream) = ToSet(b) \cup ToSet(rest)
  BY <1>1, <1>2, CutOfStream
<1> HIDE DEF b, rest
<1>6. NothingVanishes'
  BY <1>4, <1>5 DEF Accounted, NothingVanishes
<1>7. Moved(w, "dispatching", b, worker[w].work)
  BY <1>1, <1>4, WorkerMoves
<1>8. AcknowledgedIsHandled'
  BY <1>4, <1>7, StaysHandled
<1> QED  BY <1>6, <1>8 DEF Accounted

\* The handler has ended before its event is acknowledged, in whichever way.
LEMMA EndAccounts ==
  ASSUME IInv, Accounted, NEW w \in Worker, Commit(w) \/ HandlerFails(w)
  PROVE  Accounted'
<1> DEFINE b == worker[w].batch
<1>1. /\ worker' = [worker EXCEPT ![w].step = "acknowledging", ![w].work = Nothing]
      /\ handled' = handled \cup {Head(b)} /\ UNCHANGED <<stream, pending, accepted>>
  BY DEF Commit, HandlerFails, Fails, Ends, redis, Event
<1>2. Moved(w, "acknowledging", b, Nothing)
  BY <1>1, WorkerMoves DEF IInv
<1>3. NothingVanishes'
  BY <1>1 DEF Accounted, NothingVanishes
<1>4. handled \subseteq handled' /\ Head(b) \in handled'
  BY <1>1
<1>5. AcknowledgedIsHandled'
  BY <1>2, <1>4, StaysHandled
<1> QED  BY <1>3, <1>5 DEF Accounted

LEMMA AcknowledgeAccounts ==
  ASSUME IInv, Accounted, NEW w \in Worker, Acknowledge(w)
  PROVE  Accounted'
<1> DEFINE st == IF Remaining(w) = <<>> THEN "polling" ELSE "dispatching"
<1>1. /\ worker' = [worker EXCEPT ![w].step = st, ![w].batch = Remaining(w)]
      /\ UNCHANGED <<stream, accepted, handled>> /\ pending \ {Event(w)} \subseteq pending' /\ At(w, "acknowledging")
  BY DEF Acknowledge
<1>2. Moved(w, st, Remaining(w), worker[w].work)
  BY <1>1, WorkerMoves DEF IInv
<1>3. Event(w) \in handled
  BY <1>1 DEF Accounted, AcknowledgedIsHandled
<1>4. NothingVanishes'
  BY <1>1, <1>3 DEF Accounted, NothingVanishes
<1>5. st # "acknowledging"
  OBVIOUS
<1> HIDE DEF st
<1>6. AcknowledgedIsHandled'
  BY <1>1, <1>2, <1>5, StaysHandled
<1> QED  BY <1>4, <1>6 DEF Accounted

\* A worker that starts or dies.
LEMMA ComingAndGoingAccounts ==
  ASSUME IInv, Accounted, NEW w \in Worker, Start(w) \/ Crash(w)
  PROVE  Accounted'
<1>1. UNCHANGED <<stream, accepted, handled, pending>>
  BY DEF Start, Crash, redis
<1>2. \E st \in {"polling", "down"} : \E b, k : Moved(w, st, b, k)
  <2>1. CASE Start(w)
    BY <2>1, WorkerMoves DEF Start, IInv
  <2>2. CASE Crash(w)
    BY <2>2, WorkerMoves DEF Crash, IInv
  <2> QED  BY <2>1, <2>2
<1>3. AcknowledgedIsHandled'
  BY <1>1, <1>2, StaysHandled
<1> QED  BY <1>1, <1>3 DEF Accounted, NothingVanishes

LEMMA NextAccounts ==
  ASSUME IsFiniteSet(Case), IInv, Accounted, Roomy, [Next]_vars
  PROVE  Accounted'
<1>1. ASSUME UNCHANGED <<stream, accepted, handled, pending, worker>> PROVE Accounted'
  BY <1>1 DEF Accounted, NothingVanishes, AcknowledgedIsHandled, At, Event
<1>2. ASSUME NEW c \in Case, RequestStep(c) PROVE Accounted'
  <2>1. CASE Ingest(c)
    BY <2>1, IngestAccounts
  <2>2. CASE Store(c) \/ Refuse(c)
    BY <1>1, <2>2 DEF Store, Refuse, redis
  <2> QED  BY <1>2, <2>1, <2>2 DEF RequestStep
<1>3. ASSUME NEW w \in Worker, WorkerStep(w) \/ Crash(w) PROVE Accounted'
  <2>1. CASE FindsUnhealthy(w)
    BY <1>1, <2>1 DEF FindsUnhealthy, redis
  <2> QED  BY <1>3, <2>1, ComingAndGoingAccounts, ReadAccounts, HandleAccounts, EndAccounts,
              AcknowledgeAccounts DEF WorkerStep
<1>4. ASSUME NEW p \in Worker \cup {API}, BreakerCloses(p) PROVE Accounted'
  BY <1>1, <1>4 DEF BreakerCloses, redis
<1>5. ASSUME RedisStops \/ RedisStarts PROVE Accounted'
  BY <1>1, <1>5 DEF RedisStops, RedisStarts
<1>6. ASSUME RedisForgets PROVE Accounted'
  BY <1>6 DEF RedisForgets, Accounted, NothingVanishes, AcknowledgedIsHandled, At, Event
<1>7. ASSUME UNCHANGED vars PROVE Accounted'
  BY <1>1, <1>7 DEF vars, redis
<1>8. ASSUME NEW e \in Engineer, Investigate(e) \/ ManualStep(e) PROVE Accounted'
  <2>1. CASE ManualStep(e)
    BY <1>1, <2>1 DEF ManualStep, CommitInvestigation, LoseInvestigation, redis
  <2> QED  BY <1>8, <2>1, InvestigateAccounts
<1> QED  BY <1>2, <1>3, <1>4, <1>5, <1>6, <1>7, <1>8 DEF Next

LEMMA StartsAccounted == Init => Accounted
<1> SUFFICES ASSUME Init PROVE Accounted
  OBVIOUS
<1>1. accepted = {} /\ \A w \in Worker : worker[w].step = "down"
  BY DEF Init, Idle
<1> QED  BY <1>1 DEF Accounted, NothingVanishes, AcknowledgedIsHandled, At

\* XACK after dispatch (runner.py): whatever was accepted is still to be delivered, is in
\* the pending list or was handled, for any number of workers, crashes and outages, as
\* long as nothing has to be trimmed: the stream has room for what one handler announces.
THEOREM NothingEverVanishes ==
  ASSUME IsFiniteSet(Case)
  PROVE  Spec /\ []Roomy => []NothingVanishes
<1>1. IInv /\ [Next]_vars => IInv'
  BY NextKeeps
<1>2. IInv /\ Accounted /\ Roomy /\ [Next]_vars => Accounted'
  BY NextAccounts
<1>3. Accounted => NothingVanishes
  BY DEF Accounted
<1> QED  BY <1>1, <1>2, <1>3, StartsEmpty, StartsAccounted, PTL DEF Spec

=============================================================================
