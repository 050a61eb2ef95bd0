--------------------------- MODULE EventPipeline ---------------------------
(***************************************************************************)
(* Pushed telemetry on its way to a remediation plan: the API's ingestion  *)
(* requests, the Redis stream with its consumer group (core/redis_bus.py,  *)
(* core/events.py), the worker processes (workers/runner.py) and their     *)
(* handlers (workers/handlers.py).                                         *)
(*                                                                         *)
(* A case is one fault that telemetry shows: its evaluation opens an       *)
(* incident, the incident is investigated, the findings are turned into a  *)
(* plan.  An engineer may have an incident investigated too, any time.     *)
(* Every transaction publishes its events before it commits, and the       *)
(* handler of an event looks at what is committed when it runs.            *)
(*                                                                         *)
(* ALERT_CREATED is left out: evaluation links every alert it fires in its *)
(* own transaction, so that handler finds no row or a linked one.  So are  *)
(* the events without a handler, maintenance, the other manual requests,   *)
(* and row locks: they only put the writers of an incident in some order.  *)
(***************************************************************************)
EXTENDS Integers, Sequences, FiniteSets, SequencesExt

CONSTANTS
  Case,             \* faults, each shown by one telemetry push
  Worker,           \* consumer processes
  API,              \* the API process
  Engineer,         \* manual investigations, each one request to the API
  Faults,           \* what may go wrong: a subset of AllFaults
  FaultBudget,      \* how many outages, losses and crashes
  Count,            \* entries a worker reads at once (32)
  MaxLen            \* entries the stream keeps (redis_stream_maxlen)

AllFaults ==
  {"redis stops",   \* Redis is unreachable, for the API and the workers
   "redis forgets", \* it comes back without what it had not saved
   "crash",         \* a worker process dies
   "rollback"}      \* a request or a handler fails after it has published

ASSUME PipelineAssumption ==
  /\ API \notin Worker
  /\ "worker" \notin Engineer
  /\ Faults \subseteq AllFaults
  /\ FaultBudget \in Nat
  /\ Count \in Nat \ {0}
  /\ MaxLen \in Nat \ {0}

VARIABLES
  request,          \* of each case: the step of the request that ingests it
  manual,           \* of each manual investigation: its step and open transaction
  stored,           \* the cases whose telemetry is committed
  facts,            \* of each committed incident: what is committed about it
  attempts,         \* of each case: incidents opened for it, committed or not
  up,               \* Redis answers
  group,            \* the consumer group exists
  stream,           \* entries not yet delivered to the group
  pending,          \* entries delivered and not acknowledged
  open,             \* the processes whose circuit breaker is open
  worker,           \* of each worker: its step, batch and open transaction
  accepted,         \* every event Redis has accepted and not forgotten (history)
  handled,          \* every event whose handler has ended (history)
  faults            \* how many faults there have been

database == <<stored, facts>>
redis == <<up, group, stream, pending>>
vars == <<request, manual, database, attempts, redis, open, worker, accepted, handled, faults>>

Incident == Case \X Nat       \* the n-th incident opened for a case
Fact == {"detected", "investigated", "failed", "automatic", "planned"}
Ran == {"investigated", "failed"}         \* last_investigation_run_id is set

Telemetry(c) == [type |-> "TELEMETRY_RECEIVED", of |-> <<c, 0>>, by |-> "worker"]
Created(i) == [type |-> "INCIDENT_CREATED", of |-> i, by |-> "worker"]
Completed(i, p) == [type |-> "INVESTIGATION_COMPLETED", of |-> i, by |-> p]    \* p: whose run

Idle == [step |-> "down", batch |-> <<>>, work |-> <<>>]

-----------------------------------------------------------------------------
(***************************************************************************)
(* The database, as a handler sees it                                      *)
(***************************************************************************)

IncidentsOf(c) == {i \in DOMAIN facts : i[1] = c}

Known(i) == IF i \in DOMAIN facts THEN facts[i] ELSE {}

\* What evaluating every rule finds: a firing alert that belongs to an incident
\* is only refreshed.
Missing == {c \in stored : IncidentsOf(c) = {}}

Nothing == <<>>               \* no incident gains a fact

Learns(i, gained) == [j \in {i} |-> gained]

\* on_telemetry_received.
Evaluates == {[i \in {<<c, attempts[c] + 1>> : c \in Missing} |-> {"detected"}]}

\* on_incident_created, as "ai:investigator".  An investigation that fails keeps its
\* run id.
Investigates(i) ==
  IF "detected" \in Known(i) /\ Known(i) \cap Ran = {}
  THEN {Learns(i, {f, "automatic"}) : f \in Ran}
  ELSE {Nothing}

\* on_investigation_completed: a second plan is refused while one is open, and the agent
\* may have none.
Plans(i) ==
  IF "detected" \in Known(i) /\ "planned" \notin Known(i)
  THEN {Learns(i, {"planned"}), Nothing}
  ELSE {Nothing}

\* The changes the handler of an event may make.
Handles(e) ==
  CASE e.type = "TELEMETRY_RECEIVED" -> Evaluates
    [] e.type = "INCIDENT_CREATED" -> Investigates(e.of)
    [] e.type = "INVESTIGATION_COMPLETED" -> Plans(e.of)

\* The events emitted for them.
Announces(work, p) ==
  SetToSeq({Created(i) : i \in {j \in DOMAIN work : "detected" \in work[j]}}
    \cup {Completed(i, p) : i \in {j \in DOMAIN work : "investigated" \in work[j]}})

\* What is committed when a transaction is.
Merged(work) ==
  [i \in DOMAIN facts \cup DOMAIN work |-> Known(i) \cup (IF i \in DOMAIN work THEN work[i] ELSE {})]

-----------------------------------------------------------------------------
(***************************************************************************)
(* Redis                                                                   *)
(***************************************************************************)

Reaches(p) == up /\ p \notin open

Newest(s) == SubSeq(s, IF Len(s) > MaxLen THEN Len(s) - MaxLen + 1 ELSE 1, Len(s))

\* emit(): appended when the process can reach Redis, else dropped; a failed call
\* opens the breaker.
Publish(p, events) ==
  /\ stream' = IF Reaches(p) THEN Newest(stream \o events) ELSE stream
  /\ accepted' = IF Reaches(p) THEN accepted \cup ToSet(events) ELSE accepted
  /\ open' = IF up \/ events = <<>> THEN open ELSE open \cup {p}

Fault(f) ==
  /\ f \in Faults
  /\ faults < FaultBudget
  /\ faults' = faults + 1

\* An outage is noticed by the next call.
RedisStops ==
  /\ up
  /\ Fault("redis stops")
  /\ up' = FALSE
  /\ UNCHANGED <<request, manual, database, attempts, group, stream, pending, open, worker, accepted, handled>>

RedisStarts ==
  /\ ~ up
  /\ up' = TRUE
  /\ UNCHANGED <<request, manual, database, attempts, group, stream, pending, open, worker, accepted, handled, faults>>

\* It saves at intervals: the stream may be gone, with its group.
RedisForgets ==
  /\ ~ up
  /\ Fault("redis forgets")
  /\ up' = TRUE
  /\ group' = FALSE
  /\ stream' = <<>>
  /\ pending' = {}
  /\ accepted' = {}
  /\ UNCHANGED <<request, manual, database, attempts, open, worker, handled>>

\* 15 seconds later.
BreakerCloses(p) ==
  /\ p \in open
  /\ open' = open \ {p}
  /\ UNCHANGED <<request, manual, database, attempts, redis, worker, accepted, handled, faults>>

-----------------------------------------------------------------------------
(***************************************************************************)
(* Ingestion requests                                                      *)
(***************************************************************************)

\* The rows are flushed and the push is announced.
Ingest(c) ==
  /\ request[c] = "new"
  /\ request' = [request EXCEPT ![c] = "announced"]
  /\ Publish(API, <<Telemetry(c)>>)
  /\ UNCHANGED <<manual, database, attempts, up, group, pending, worker, handled, faults>>

\* get_db commits when the handler has returned.
Store(c) ==
  /\ request[c] = "announced"
  /\ request' = [request EXCEPT ![c] = "stored"]
  /\ stored' = stored \cup {c}
  /\ UNCHANGED <<manual, facts, attempts, redis, open, worker, accepted, handled, faults>>

Refuse(c) ==
  /\ request[c] = "announced"
  /\ "rollback" \in Faults
  /\ request' = [request EXCEPT ![c] = "refused"]
  /\ UNCHANGED <<manual, database, attempts, redis, open, worker, accepted, handled, faults>>

-----------------------------------------------------------------------------
(***************************************************************************)
(* Manual investigations: no run-id guard, whoever has investigated before *)
(***************************************************************************)

\* POST /incidents/{ref}/investigate: runs and announces.
Investigate(e) ==
  /\ manual[e].step = "new"
  /\ \E i \in DOMAIN facts, f \in Ran :
       /\ manual' = [manual EXCEPT ![e] = [step |-> "writing", work |-> Learns(i, {f})]]
       /\ Publish(API, Announces(Learns(i, {f}), e))
  /\ UNCHANGED <<request, database, attempts, up, group, pending, worker, handled, faults>>

\* get_db commits when the request has returned.
CommitInvestigation(e) ==
  /\ manual[e].step = "writing"
  /\ manual' = [manual EXCEPT ![e] = [step |-> "done", work |-> Nothing]]
  /\ facts' = Merged(manual[e].work)
  /\ UNCHANGED <<request, stored, attempts, redis, open, worker, accepted, handled, faults>>

\* Or rolls back: what is announced was never committed.
LoseInvestigation(e) ==
  /\ manual[e].step = "writing"
  /\ "rollback" \in Faults
  /\ manual' = [manual EXCEPT ![e] = [step |-> "done", work |-> Nothing]]
  /\ UNCHANGED <<request, database, attempts, redis, open, worker, accepted, handled, faults>>

-----------------------------------------------------------------------------
(***************************************************************************)
(* Workers                                                                 *)
(***************************************************************************)

At(w, step) == worker[w].step = step

\* serve() looks for the group once, if Redis answers then.
Start(w) ==
  /\ At(w, "down")
  /\ worker' = [worker EXCEPT ![w].step = "polling"]
  /\ group' = (group \/ up)
  /\ open' = IF up THEN open \ {w} ELSE open \cup {w}
  /\ UNCHANGED <<request, manual, database, attempts, up, stream, pending, accepted, handled, faults>>

\* The ping of an idle worker fails.
FindsUnhealthy(w) ==
  /\ At(w, "polling")
  /\ w \notin open
  /\ ~ up
  /\ open' = open \cup {w}
  /\ UNCHANGED <<request, manual, database, attempts, redis, worker, accepted, handled, faults>>

Batch == SubSeq(stream, 1, IF Len(stream) < Count THEN Len(stream) ELSE Count)

\* Deviation: every worker reads in a group of its own.
Deliver_ToAll(b) == UNCHANGED stream /\ pending' = pending \cup ToSet(b)

\* Deviation: the entries are not tracked until they are acknowledged.
Deliver_NoAck(b) ==
  /\ stream' = SubSeq(stream, Len(b) + 1, Len(stream))
  /\ pending' = pending

\* XREADGROUP with ">": never what another consumer, or this one, was given before.
Deliver(b) ==
  /\ stream' = SubSeq(stream, Len(b) + 1, Len(stream))
  /\ pending' = pending \cup ToSet(b)

\* Without the group every read fails, is logged and is tried again.
Read(w) ==
  /\ At(w, "polling")
  /\ Reaches(w)
  /\ group
  /\ Batch # <<>>
  /\ Deliver(Batch)
  /\ worker' = [worker EXCEPT ![w].step = "dispatching", ![w].batch = Batch]
  /\ UNCHANGED <<request, manual, database, attempts, up, group, open, accepted, handled, faults>>

Event(w) == Head(worker[w].batch)

\* The handler of the next event reads, decides, flushes and emits.
Handle(w) ==
  /\ At(w, "dispatching")
  /\ \E work \in Handles(Event(w)) :
       /\ worker' = [worker EXCEPT ![w].step = "writing", ![w].work = work]
       /\ attempts' = [c \in Case |->
            IF \E i \in DOMAIN work : i[1] = c /\ "detected" \in work[i]
            THEN attempts[c] + 1 ELSE attempts[c]]
       /\ Publish(w, Announces(work, "worker"))
  /\ UNCHANGED <<request, manual, database, up, group, pending, handled, faults>>

Ends(w) ==
  /\ worker' = [worker EXCEPT ![w].step = "acknowledging", ![w].work = Nothing]
  /\ handled' = handled \cup {Event(w)}

\* session_scope commits.
Commit(w) ==
  /\ At(w, "writing")
  /\ facts' = Merged(worker[w].work)
  /\ Ends(w)
  /\ UNCHANGED <<request, manual, stored, attempts, redis, open, accepted, faults>>

\* Deviation: the event of a handler that failed is tried again.
Fails_Retried(w) ==
  /\ worker' = [worker EXCEPT ![w].step = "dispatching", ![w].work = Nothing]
  /\ UNCHANGED handled

\* A handler that fails is rolled back and logged.
Fails(w) == Ends(w)

HandlerFails(w) ==
  /\ At(w, "writing")
  /\ "rollback" \in Faults
  /\ Fails(w)
  /\ UNCHANGED <<request, manual, database, attempts, redis, open, accepted, faults>>

\* Deviation: the rest of the batch is left.
Remaining_None(w) == <<>>

Remaining(w) == Tail(worker[w].batch)

\* Acknowledged in any case; an acknowledgement Redis does not take is only logged.
Acknowledge(w) ==
  /\ At(w, "acknowledging")
  /\ pending' = IF Reaches(w) THEN pending \ {Event(w)} ELSE pending
  /\ worker' = [worker EXCEPT
       ![w].step = IF Remaining(w) = <<>> THEN "polling" ELSE "dispatching",
       ![w].batch = Remaining(w)]
  /\ UNCHANGED <<request, manual, database, attempts, up, group, stream, open, accepted, handled, faults>>

\* The process dies; its transaction is rolled back.  The next one has another name.
Crash(w) ==
  /\ ~ At(w, "down")
  /\ Fault("crash")
  /\ worker' = [worker EXCEPT ![w] = Idle]
  /\ UNCHANGED <<request, manual, database, attempts, redis, open, accepted, handled>>

-----------------------------------------------------------------------------
Init ==
  /\ request = [c \in Case |-> "new"]
  /\ manual = [e \in Engineer |-> [step |-> "new", work |-> Nothing]]
  /\ stored = {}
  /\ facts = <<>>
  /\ attempts = [c \in Case |-> 0]
  /\ up \in IF "redis stops" \in Faults THEN BOOLEAN ELSE {TRUE}
  /\ group = up               \* the API looks for the group too, when it starts
  /\ stream = <<>>
  /\ pending = {}
  /\ open = IF up THEN {} ELSE {API}
  /\ worker = [w \in Worker |-> Idle]
  /\ accepted = {}
  /\ handled = {}
  /\ faults = 0

RequestStep(c) == Ingest(c) \/ Store(c) \/ Refuse(c)

\* An engineer need not ask.
ManualStep(e) == CommitInvestigation(e) \/ LoseInvestigation(e)

WorkerStep(w) ==
  \/ Start(w)
  \/ FindsUnhealthy(w)
  \/ Read(w)
  \/ Handle(w)
  \/ Commit(w)
  \/ HandlerFails(w)
  \/ Acknowledge(w)

Next ==
  \/ \E c \in Case : RequestStep(c)
  \/ \E e \in Engineer : Investigate(e) \/ ManualStep(e)
  \/ \E w \in Worker : WorkerStep(w) \/ Crash(w)
  \/ \E p \in Worker \cup {API} : BreakerCloses(p)
  \/ RedisStops
  \/ RedisStarts
  \/ RedisForgets

Spec == Init /\ [][Next]_vars

\* Requests and workers are scheduled and a worker that died is started again.
ProcessFairness ==
  /\ \A c \in Case : WF_vars(RequestStep(c))
  /\ \A e \in Engineer : WF_vars(ManualStep(e))
  /\ \A w \in Worker : WF_vars(WorkerStep(w))
  /\ \A p \in Worker \cup {API} : WF_vars(BreakerCloses(p))

\* Whatever Redis does.
BusMayStayDown == Spec /\ ProcessFairness

\* Redis comes back.
FairSpec == Spec /\ ProcessFairness /\ WF_vars(RedisStarts)

-----------------------------------------------------------------------------
(***************************************************************************)
(* Properties                                                              *)
(***************************************************************************)

\* Steps are those of runner.py; every event is one the code emits with a handler.
TypeOK ==
  /\ request \in [Case -> {"new", "announced", "stored", "refused"}]
  /\ \A e \in Engineer : manual[e].step \in {"new", "writing", "done"}
  /\ stored \subseteq Case
  /\ DOMAIN facts \subseteq Incident
  /\ \A i \in DOMAIN facts : facts[i] \subseteq Fact /\ facts[i] # {}
  /\ attempts \in [Case -> Nat]
  /\ {up, group} \subseteq BOOLEAN
  /\ Len(stream) <= MaxLen
  /\ pending \cup ToSet(stream) \subseteq accepted
  /\ open \subseteq Worker \cup {API}
  /\ \A w \in Worker :
       /\ worker[w].step \in {"down", "polling", "dispatching", "writing", "acknowledging"}
       /\ (worker[w].batch = <<>>) <=> (worker[w].step \in {"down", "polling"})

\* As long as its length suffices, an event the stream has not lost with Redis's data
\* is still to be delivered, is in the group's pending list, or its handler has ended:
\* what a dead worker held can be found (XACK after dispatch, runner.py).
NothingVanishes == accepted \subseteq ToSet(stream) \cup pending \cup handled

\* "handlers are idempotent (run_id guards)", of the workers' own runs: no handler writes
\* one for an incident that has one, and no two write one for the same incident.  The
\* guard is read long before the commit; only the delivery of the event to one worker
\* makes it safe.  An engineer's run may repeat a worker's, and be repeated by it.
OneRunPerIncident ==
  \A w \in Worker : \A i \in DOMAIN worker[w].work :
    "automatic" \in worker[w].work[i] =>
      /\ "automatic" \notin Known(i)
      /\ \A v \in Worker \ {w} :
           i \in DOMAIN worker[v].work => "automatic" \notin worker[v].work[i]

\* What a reader of remediation/agent.py expects: a plan is committed only for an incident
\* whose investigation is, for the agent works from the committed findings.  It does not
\* hold: a worker may be given INVESTIGATION_COMPLETED before the request that announced
\* it, or the other worker's transaction, is committed.
PlansFollowFindings ==
  [][\A i \in DOMAIN facts' :
       "planned" \in facts'[i] /\ "planned" \notin Known(i) => "investigated" \in Known(i)]_vars

\* "one poison event cannot wedge the consumer": a worker gets through every batch,
\* whatever its handlers do.
BatchesEnd == \A w \in Worker : []<>(worker[w].batch = <<>>)

\* Pushed telemetry that is stored and shows a fault turns into an incident.
TelemetryBecomesIncident ==
  \A c \in Case : (c \in stored) ~> (IncidentsOf(c) # {})

\* At-least-once: the event of every committed incident has its effect.
IncidentsAreInvestigated ==
  \A c \in Case :
    (IncidentsOf(c) # {}) ~> (\E i \in IncidentsOf(c) : facts[i] \cap Ran # {})

\* At-least-once: what Redis has accepted reaches a worker.
AcceptedIsDelivered == [](stream # <<>> => <>(stream = <<>>))
=============================================================================
