# Verification of Nirikshan

TLA+ specifications of Nirikshan, the incident-response platform of this
repository, with the TLC configurations that model-check them and the TLAPS
proofs of what holds for every value of their constants. Paths below are those
of the repository; `nirikshan/` stands for `src/nirikshan/`.

    tlc -workers 2 -config MCIncidentEngine.cfg MCIncidentEngine   # any run below
    tlapm IncidentEngineProofs.tla                                 # any *Proofs module

## The system

Applications push logs, metrics and traces through the API, which stores them
in PostgreSQL and announces them on a Redis stream. Workers read the stream in
one consumer group: they evaluate alert rules, correlate alerts into incidents,
have an AI investigator look for the root cause and a remediation agent propose
one registered action. People acknowledge, resolve and close incidents, and
approve, verify and roll back remediations through the API. A Python SDK sends
events from inside an application. PostgreSQL holds all the truth; API requests
and event handlers are transactions on it that overlap freely. A demo writes
telemetry with a fault in it and drives the whole loop in one process.

| Component | State | Operations | Hard behaviour | What makes it correct | Modelled in |
|---|---|---|---|---|---|
| Incident engine (`nirikshan/incidents/engine.py`) | incidents, timeline | ingest, acknowledge, investigate, resolve, close | handlers decide on rows read earlier | the status moves along the table; alerts and incidents agree | IncidentFsm, IncidentEngine, IncidentSessions |
| Severity (`incidents/severity.py`) | severity of an incident | score, escalate | never goes down | follows the worst of the alerts | IncidentSeverity (the memory's text retrieval is not) |
| Correlation (`detection/correlation.py`) | none of its own | which incident an alert joins | depends on the whole history | one incident per fingerprint and per outage | IncidentEngine, AlertRules |
| Alert rules (`detection/alerts.py`) | alerts, dwell times | fire, refresh, resolve | dwell clock shared by services, overlapping workers | what goes on breaching is alerted; alerts end and stay ended | AlertRules, DemoLoop |
| Event bus (`core/events.py`, `core/redis_bus.py`) | stream, group, pending list, breaker | publish, read, acknowledge | outages, lost data, emit before commit | a broken bus never aborts a transaction; events have their effect | EventPipeline |
| Workers (`workers/`) | batch, open transaction | dispatch, handlers, maintenance | crashes, two workers on one chain | a bad event does not stop the worker | EventPipeline |
| Ingestion (`telemetry/ingest.py`) | telemetry rows | ingest | announced before it is stored | pushed telemetry turns into incidents | EventPipeline (order of steps only) |
| Baselines, anomalies, queries (`detection/`, `telemetry/`) | statistics | aggregate, delete by age | windows without an upper bound, empty series | what a reader concludes is in the rows | DemoTelemetry, on the demo's rows |
| Catalogue graph (`catalog/graph.py`) | dependency edges | closures, blast radius | cycles, self-dependencies | closures are exact, searches end | GraphSearch, DemoTopology |
| AI investigator (`ai/investigator.py`) | runs, findings | investigate, fail | long transactions that overlap, a second one after a failure | findings of one run; failure leaves the incident consistent | Investigation, IncidentSessions, EventPipeline |
| AI tools, providers (`ai/tools.py`, `ai/mock_*.py`, `ai/providers.py`) | audit rows | query, reason, validate, plan | tools that fail, a model that makes things up | verdicts rest on stored evidence | Reasoner, Investigation, DemoLoop |
| Remediation (`remediation/`, `api/routers/remediations.py`) | actions, approvals, executions, runtime state | propose, approve and execute, reject, verify, roll back | double approval, overlap with resolve | nothing runs unapproved or twice; what it changed can be undone; verified means healed | RemediationPolicy, RemediationRegistry, Remediation, DemoLoop |
| Demo (`demo/`) | telemetry, suppressed faults, a frozen clock | run a scenario, drive a remediation | rows ahead of the clock, leftovers of earlier scenarios | every scenario is found, blamed and healed | DemoTopology, DemoTelemetry, DemoLoop |
| Database sessions (`core/db.py`, `api/deps.py`) | transaction | commit, roll back | READ COMMITTED, row locks, deadlocks | all or nothing | as the steps of the modules with sessions |
| SDK transport (`sdk/python/.../transport.py`) | queue, pending counter, batch, stats | submit, flush, close, send | threads, retries, full queue | no event leaves the counters; flush tells the truth; the sender never dies | SdkTransport |
| SDK client (`sdk/python/.../client.py`, `integrations/asgi.py`) | client, hooks, scopes | init, close, capture | hooks of the whole process, contexts copied to tasks | requests do not mix; the application's hooks come back | SdkClient |
| Security, rate limit (`core/security.py`, `api/`) | users, counters | authenticate, limit | fixed window, fails open | the limit | not modelled |
| gRPC stream, dashboard, scripts | - | - | - | no core state | not modelled |

## Modules and how they correspond to the code

**IncidentFsm** is the abstract specification: each incident has a status and
moves along `INCIDENT_TRANSITIONS` (`domain/enums.py`). Nothing else is promised
of who moves it.

**IncidentEngine** has the `alerts` and `incidents` tables as sequences (a row's
key is its position) and a clock. An action is one whole handler, from its first
read to its commit: `Attach` and `Open` are the evaluation of a rule that fires,
with correlation and `ingest_alert`; `ClearAlert` is `alerts._resolve`;
`Acknowledge`, `Resolve`, `ResolveAgain` (a second resolve sweeps again),
`Close`, `Investigate` and `Mitigate` are the handlers of those names. A handler
that raises is rolled back, so it is no action. `Correlated` is
`find_incident_for_alert`. The module refines IncidentFsm (`ImplementsFsm`).

**IncidentSeverity** is the score of `severity.py` and what `ingest_alert` makes
of it with every alert an incident takes in, whatever is measured then.

**IncidentSessions** is the same incident, one row, under overlapping
transactions: a session reads (`Load`, `Evaluate`, `Correlate`), decides and stamps
its event (`Decide`), waits for the row (`Flush`), updates alerts one by one in any
order (`WriteAlert`, `Sweep`), may break in its analysis and go on in a second
transaction (`AnalysisBreaks`, `MarkFailed`), and commits, is refused, or crashes.
The timeline is a set of events with their stamps: the code orders it by `at`,
which is taken before the row lock and so need not be the order of the commits.
PostgreSQL is external and modelled from how the code
depends on it: READ COMMITTED, a row lock from the first UPDATE to the end, an
UPDATE that writes only the columns the object changed, and deadlock detection.
In production sessions have `autoflush` off, which is why reads and writes are
so far apart.

**AlertRules** has two or more workers in `on_telemetry_received`, each in its
transaction. A worker loads the rules once (`Begin`) and then works through the
services of each, one a step (`EvaluateRule`), reading what is committed at that
moment together with its own writes, which carry negative ids until they are
committed. `flushed` is how far its queries see its own updates (`autoflush` is
off), `held` the incidents it has loaded and so sees as they were. The alerts the
rules return and every other one without an incident are queued, in any order the
query may list them in, and each is taken in once: correlated (`Correlate`) or
given an incident (`OpenIncident`). Dwell time is an age, `fresh`
or `long`, which is all `for_seconds` tells apart, and it is the rule's, not the
service's, as in the code. At the commit only the columns that changed are
written; an incident reference that is taken by then rolls everything back.

**EventPipeline** follows *cases*: one fault, shown by one telemetry push. The
requests ingest (`Ingest` publishes, `Store` commits); workers start, read a
batch, handle each event (`Handle` decides and publishes, `Commit` commits) and
acknowledge. `Handles` is the `HANDLERS` table with the handlers'
early returns; what they decide depends on what is committed when they run.
Redis may stop, come back with or without its data; a worker may crash; any
handler or request may fail after publishing. An engineer's manual investigation
(`Investigate`, `CommitInvestigation`, `LoseInvestigation`) has no run guard and
announces before it commits, like every request. `open` holds the processes whose
breaker is open. Duplicate incidents by overlapping evaluations are possible in
the model and not its subject. ALERT_CREATED is left out since the transaction
that fires an alert also links it.

**GraphSearch** is `_bfs` of `catalog/graph.py`, one pass of its loop a step,
on any graph, against reachability defined by closed sets; `Score` is that of
`rank_probable_root`.

**Reasoner** holds what the AI agents compute: the hypotheses of
`mock_reasoner.py` with their confidences in per cent, `_validate_analysis` on a
remote answer, the catalogue of evidence an investigation may store, and the
choice of `mock_planner.py`.

**Investigation** is every transaction of an investigation: `Load` and `Begin`,
whose flush locks the incident's row; the tools (`Gather`), any of which may
fail and is swallowed; the analysis by the mock or a remote provider that may be
down or invent its answer (`Analyse`, `Unavailable`); the replacement of the
findings (`Persist`) and the commit (`Complete`); and, when the transaction
broke, `_mark_failed` in a second one (`RollBack`, `MarkFailed`). A process may
die anywhere. A person may resolve the incident meanwhile with a root cause of their
own (`LoadToResolve`, `Resolve`, `CommitResolve`), which `told` remembers until the
next findings. What the tools find is the same for a whole investigation: nothing is
written to telemetry in the model while one runs.

**RemediationPolicy** is `policy.evaluate` as an operator, **RemediationRegistry**
the `apply` and `revert` functions on the runtime state, and **Remediation** the
life of the actions of one incident: each request reads (`Propose`, `Approve`,
...) and writes at its commit (`CommitProposal`, `CommitRun`, ...). Approval and
execution are one transaction, as in the endpoint. Restart and cache timestamps
and deployment rows are left out because nothing reads them back. The verdict of
a verification is free here; DemoLoop computes it.

**DemoTopology** holds the tables of the demo: services, dependencies, alert
rules, scenarios. **DemoTelemetry** has the rows as a function of the call of
`generate` that wrote them, so that the state keeps for every minute which call
that was; on it stand the readers: health, anomalies, series, log counts.
**DemoLoop** is `run_scenario` and `drive_remediation` as a sequence of steps,
one for each part of the platform they call and one for each alert taken in
(`TakeIn`), with evaluations by the worker, closed incidents, undone remediations
and pauses between them. It composes DemoTelemetry with Reasoner, RemediationPolicy
and RemediationRegistry. A verification is checked against the band of
`verification.py:67`; the baselines, which the code learns by statistics, are the two
ends of what the demo's usual readings give (`Baselines`). Time is in minutes;
`ahead` is how far `clock.freeze` has moved it.

**SdkTransport** has a step for every atomic operation of the SDK's threads: a
section under the condition variable, a call on the queue, a request. The counter
`dropped_full` is written by application threads without a lock, so its read and its
write are two steps (`SubmitReads`, `SubmitDropped`). Time has no length; what a
timeout can do it may do at any moment.

**SdkClient** has the module-level API: `init` and `close` in the steps another
thread can see, the hooks they remember and install, contexts (the main one,
requests, threads) that share a scope object by copying a reference, captures,
and threads that die of an exception and walk down the chain of hooks.

**MC\*** modules give the constants their values for TLC. Operators named
`X_Something` next to an operator `X`, with a comment that begins "Deviation",
are plausible mistakes in `X`: with any of them in place of `X` the property it
is meant for fails, which shows that the property depends on that code.

## Runs

| Configuration | Checks | Shows |
|---|---|---|
| MCIncidentEngine | OneOpenIncidentPerFingerprint, LinksAgree, ResolvedIsQuiet, OneIncidentPerOutage, ImplementsFsm | one handler at a time, the engine is right |
| MCIncidentSessions | StatusIsExplained, CountMatchesRefs, SessionsEnd | what overlapping handlers keep |
| MCAlertRules | AlertsAreLinked, AlertsEnd, PersistingBreachFires | two workers that evaluate the same rule lose updates, never alerts |
| MCPipeline | NothingVanishes, OneRunPerIncident, BatchesEnd | two workers under every fault |
| MCPipelineOne | IncidentsAreInvestigated | the chain completes with one worker and no fault |
| MCInvestigation | FindingsAreOfOneRun, RcaIsOfTheFindings, VerdictsHaveEvidence, LastRunIsKept, InvestigationsAreRecorded | overlapping investigations and resolves, failing tools and invented answers leave one run's findings |
| MCRemediation | AppliedOnce, OneOpenRemediation, LiveChangesCanBeUndone, ReplicasAccountedFor | requests one after the other |
| MCRemediationTwice | AppliedOnce, **violated** | overlapping approvals execute twice |
| MCDemoLoop | EvaluationPasses, FreshFixVerifies, VerifiedServiceIsHealed, ClearedRulesAreQuiet, OnlyOwnAlertsFire | from a scenario to a verified remediation, and again after it |
| MCGraphSearch | SearchIsExact, SearchEnds | every graph of three services |
| MCSdkTransport | PendingBalance, FlushDrained, EventsAccountedFor, QueuedSettles, SenderStops | the transport's counters and progress |
| MCSdkClient | RequestsAreIsolated, HooksAreRestored, UncaughtIsReportedOnce | two requests side by side; hooks and scopes whatever is opened and closed |

Two more configurations check what is proved below for every value of the
constants, MCIncidentSeverity (SeverityKeepsUp) and MCRemediationOverlap
(StatusHasItsRecord, EveryRunIsApproved); three are counterexamples, listed
under "Further disagreements": MCSessionsTable, MCPipelineTelemetry,
MCPipelineCrash.

Bounds, and why they are enough:

- MCIncidentEngine: three services in a chain whose ends are not neighbours, one
  fingerprint each, three alerts, a window of one tick on a clock of two. An
  alert can be a duplicate, a neighbour's or a stranger's, inside or outside the
  window, with its incident open, resolved or closed. The theorems remove these
  bounds.
- MCIncidentSessions: three sessions, so that one can overwrite what a second
  did on what a third read; three alerts, so that two can be attached at once and two
  workers can each hold an alert the other wants; every handler.
- MCAlertRules: two workers and one rule for the whole environment of two services,
  which share its dwell clock and its active alert; three changes of the telemetry or
  incidents resolved by hand, enough for an alert to fire, end and fire again, or for
  one service to begin under the clock of the other and the other to stop. Rules that
  share a fingerprint, and more of everything, are in the proofs of the two safety
  properties only.
- MCPipeline: one case is a chain of three events; two workers; three faults (stops,
  losses and crashes; failing handlers are not counted) and one manual investigation.
  MCPipelineOne has two cases, which share batches of two, and one manual
  investigation. The stream's length limit of 10 is not
  reached: trimming is by design and no property is about it.
- MCInvestigation: two investigations, one of them the worker's, and one person who
  resolves the incident: each can overlap with the others and with one that failed;
  three bundles (nothing but a metric,
  exhausted connections, an unhealthy dependency) and the answers of a model that
  cites something, nothing, or what is not there. The proofs remove the first bound.
- MCRemediation: two actions and five plans, one of which fails to apply; at most
  four executions, two for each action. Confidence is the fixed 0.91 of an
  accepted root cause; the policy's theorems are about any. MCRemediationOverlap:
  two sessions, one action, AUTONOMOUS mode, forced proposals.
- MCDemoLoop: histories of up to four requests (`Histories`): every scenario alone and
  then driven; after one of them that one and another, in any order, three requests
  long, so that a scenario runs and a drive verifies after a drive of another; and
  four that name the same one, so that a verification follows an undo and a second
  action. Pauses of nine minutes up to the eighteenth: inside and outside the
  five-minute ramp, the two minutes of healing and the twelve minutes a drive moves
  the clock ahead. The daily ripple and the
  noise together are taken at their extremes, 83 and 118 per cent, where thresholds
  are met earliest and latest.
- MCGraphSearch: all graphs of three services have every shape a cycle, a
  self-dependency and a shared dependency can have; the theorem is about any number.
- MCSdkTransport: two threads, three events (one cannot be serialised), a queue of
  one, a batch of two, one retry: a full queue that the sender is emptying refuses
  both threads, whose updates of `dropped_full` can overlap. The proofs remove these
  bounds.
- MCSdkClient: two requests side by side and the main context, which may die of an
  exception; two clients, one after the other; two breadcrumbs and one event. The
  requests are symmetric. More threads are in the proofs only.

Deadlock is checked in MCAlertRules, where a worker always has a next
evaluation. Elsewhere there are states where nothing is left to do (sessions
ended, workers idle, bounds reached), and progress is stated as SessionsEnd,
BatchesEnd, IncidentsAreInvestigated, InvestigationsAreRecorded, SearchEnds,
QueuedSettles and SenderStops instead.

Fairness: in IncidentSessions handlers run to their end (WF on a session's own
steps; reading a request, breaking and crashing are not forced) and PostgreSQL
aborts a member of a cycle after `deadlock_timeout`. In Investigation, likewise, a
transaction that can go on does, and whoever holds the row lock, an investigation or
a person's request, lets go of it in the end. In AlertRules time passes and each
worker goes on with its evaluations, which the worker's loop does on every telemetry
event. In SdkTransport only the sender's thread is fair: requests have timeouts and
delays a cap. In EventPipeline requests, manual ones included, worker loops and the
15 seconds of a breaker pass; `FairSpec` adds that Redis comes back,
`BusMayStayDown` does not. In GraphSearch the loop goes on. DemoLoop and SdkClient
state no liveness and assume no fairness.

## Proofs

Eight modules hold 42 theorems, about the behaviours of a `Spec` (`SearchSpec` of
GraphSearch, `ClientSpec` of SdkClient), without fairness, or about the operators a
model is built from. They hold for every value of the
constants that the assumptions named in the modules allow; what a theorem needs
beyond them is said here.

**IncidentEngineProofs**, for any services, symmetric dependency graph, fingerprints,
window and bounds (`ServicesAssumption`, `BoundsAssumption`):

- `TypeCorrect`, `Deduplication`, `OutagesAreOneIncident`, `LinksAlwaysAgree`,
  `ResolvedIncidentsAreQuiet`: the invariants of MCIncidentEngine;
- `EngineImplementsFsm`: the engine implements the abstract state machine.

The inductive invariant `IInv` (theorem `Invariance`) adds three facts to the
properties. `LaterAlertsFollow`: once an alert's incident is open, every later
alert with the same fingerprint is in it. It is what makes deduplication
inductive: the code looks only at the *last* alert of a fingerprint, and the
property without it says nothing of the alerts in between, nor of the incident
that a resolve and a re-investigation opens again. `DetectedInThePast` orders
detection times and the clock, for the outage window;
`NoMoreIncidentsThanAlerts` keeps the incidents inside the refinement mapping,
which has one place for each possible alert. The steps are grouped by what they
do: everything but a firing alert changes statuses and states and leaves keys and
links alone (`Upkeep`), so that the argument for it is made once. About severity,
for every tier and number of alerts: `ScoreIsMonotone`, `SeverityAlwaysKeepsUp`.

**IncidentSessionsProofs**, for any number of overlapping sessions and alerts, any
choice of handlers: `StatusIsAlwaysExplained`, `CountAlwaysMatchesRefs`,
`StatusAlwaysHasItsStamp`. The properties speak of committed rows, and a stale
session can overwrite any of them, so the invariant says what every session carries
(`Sound`): what it has read was consistent when it was read (`WellFormed`,
`Counted`); the status it will write is the one its event tells, and the event
leaves one that an earlier event has reached (`OneStory`, `Told`); counter and list
are computed from one reading, with one alert more that no committed row and no
other session has (`OneMore`, `AlertsApart`); and the stamp of its status is among
its columns or was there already, and stamps are never taken back (`StampsStay`). A
commit then replaces a consistent row by one. Locks play no part: the three hold for
any interleaving of the steps.

**EventPipelineProofs**, for finitely many cases, any number of workers, any batch
and stream length:

- `RunsAreNeverRepeated`: an incident gets one run of a worker's own account,
  through outages, crashes and failing handlers and for any number of engineers,
  whose runs have no guard and may repeat it. The run guard is read long before the
  commit, so the proof is about delivery, in which nothing is ever delivered twice
  (the code never claims what another worker left pending): an incident has a number
  of its own from the moment an evaluation begins (`NumbersAreGiven`), its
  INCIDENT_CREATED is published once and is in the stream or with one worker
  (`DeliveredOnce`), and whoever writes a run is handling that event
  (`RunsAreOfTheEvent`), which is gone once the run is there (`CreatedHasNoRun`); a
  manual run is not mistaken for it (`ManualIsOfKnown`).
- `NothingEverVanishes`, under `[]Roomy`: what is accepted is in the stream, pending
  or handled, if the stream always has room for what one handler announces. The
  hypothesis is about XADD's MAXLEN, which drops the oldest entries by design; the
  runs satisfy it. `Accounted` adds that what is about to be acknowledged has been
  handled.

That a plan is made from committed findings is not among them: `PlansFollowFindings`
is false already with one worker, since a manual investigation announces its findings
before `get_db` commits them (below).

**InvestigationProofs**, for any number of investigations and of people who resolve,
any bundles that are well formed (`BundlesAssumption`: what a tool returns has the
fields the reasoner reads) and any answers with fields of the right types
(`AnswersAssumption`; the ids they cite and their confidences may be anything):
`FindingsStayOfOneRun`, `LastRunStays`, `RcaIsAlwaysOfTheFindings`,
`VerdictsAlwaysHaveEvidence`. The first two rest on the row lock: from the flush of
its run id to its end an investigation holds the incident's row (`RowIsHeld`), so
that what it lists for deletion is still all there is when it commits
(`DeletesWhatIsThere`); a resolve holds the row in the same way (`ResolversHold`).
The last two need what a session carries (`SessionIsSound`): its result is grounded
in its own bundle, and unless it was stale when it took the lock, what it has seen
of the incident is still so.

**RemediationProofs**, for any actions and plans. With any number of overlapping
sessions `EveryRunWasApproved` and `StatusAlwaysHasItsRecord`: the records
only grow, so that what a request has read of them is still true at its commit,
although what it has read of statuses is not.

The other three hold for any number of sessions too, in every behaviour in which some
pairs of requests do not overlap, which each theorem names:

| Theorem | Must not overlap |
|---|---|
| `ActionsApplyOnce`, forced proposals included | two of approve and drive on one action (`RunsApart`); a rollback and another, or a verification, of one action (`RollbacksApart`) |
| `LiveChangesAreUndoable`, forced proposals included | `RunsApart`; a rejection and an approve or drive of one action (`RejectionsApart`) |
| `OneIsOpen`, without forced proposals | `RunsApart`, `RejectionsApart`; two proposals (`ProposalsApart`) |

The hypotheses are about what the callers do and not about the number of sessions:
everything else may overlap, also requests about different actions. The code does
nothing to enforce them, and MCRemediationTwice shows what happens without: the run
violates AppliedOnce, and the other two are under "Further disagreements". The proofs
give each request what it was let in for (`KnowsRuns`, `KnowsUndone`, `KnowsRejected`,
`KnowsOpen`) and show that no request that may overlap with it takes it away; what each
commit does to its own row is stated once (`Effect`).

`RevertIsExact` is about apply and revert, which clamp replicas and connections each on
its own: for every service and every delta, in or out, a revert takes back exactly what
its apply did if no clamp was met, and leaves more than there was otherwise. The mock
planner's deltas never meet a clamp, for which ReplicasAccountedFor is checked; a remote
model may ask for any (`providers.py:163`), and RollbackRestores is refuted by one
(below).

About the policy, for every request: `AutonomyIsBounded`, `Decided`, `RolesAreOrdered`.

**DetectionProofs**, about AlertRules, for any number of workers, any rules, services
and incidents resolved by hand, and rows that a query lists in any order
(`RulesAssumption`: the rules and the services of a rule are finite sequences):
`AlertsAlwaysLinked`, `AlertsAlwaysEnd`. An alert is committed together with its
incident or not at all, so the invariant (theorem `DetectionSound`) speaks of what a
transaction carries (`Sound`): its own alerts fire and hang on incidents that are
committed or its own (`Rows`), and once the rules are evaluated each of them without
an incident is still in the queue (`NothingLeftOut`), which is empty at the commit.
That incidents are never deleted keeps the references good while others commit; that
a refresh and a link write no state, and that only alerts without an incident are
linked, keeps a resolved alert resolved whatever was read before.

About GraphSearch, for any finite set of services and any graph: `SearchAlwaysExact`
(what the search returns is what can be reached, without the start), `DirectionsAgree`
(s is below t exactly when t is above s) and `SharedDependencyIsRoot` (a service that
all other impacted ones depend on, and that depends on none of them, has the highest
score).

**DemoLoopProofs**, for any of the scenarios, any ripple and pauses, any histories of
requests: `ClearedRulesAlwaysQuiet`. A rule ends the alert it names and no other,
while requests resolve alerts without telling their rules. The invariant (theorem
`RulesKnowTheirAlert`) is that a rule's alert that fires is the one the rule names
(`OnlyActiveFires`): a rule fires only when none of its alerts does, and then names
the new one, even when it named another before. `ClearedNamesNone` adds that a rule
without a clock names none, for which a clock must never be set to the time that
means "not set" (`SinceIsATime`; it needs the times of the rows, `Times`).

**SdkProofs**, about SdkTransport, for any threads, events, retries, queue and
batch: `PendingIsBalanced`, `EventsAreAccountedFor`, `FlushIsDrained`. Every step
moves an event between a thread's hands, the queue, the batch, the counters and the
refusals; two sums over these places never change alone. Of `dropped_full`, which
loses updates when refusals overlap, it is proved that it never exceeds the refusals
(`Understated`: nor does what a thread has read of it and is about to write). A
flush that sees the counter at zero sees by the first sum that no event submitted
before it is unsettled, and what is settled stays so.

About SdkClient, for any clients, requests and threads, any sequence of `init` and
`close`: `HooksAreAlwaysRestored`, `UncaughtIsAlwaysReportedOnce` and
`RequestsAreAlwaysIsolated`. The chain
has one link: `init` closes the client there is before the new one remembers the
hooks it finds, so that an open client always remembers the application's own. An
exception that is being reported, undisturbed by a close, is with the
application's hook or with a client that remembers it. Requests are isolated since
a context writes only to a scope it has made itself (`ScopesAreOwn`).

Only model-checked: of DemoLoop, EvaluationPasses, FreshFixVerifies and
VerifiedServiceIsHealed, which compare sums and means of readings with the thresholds of
the demo's tables, and OnlyOwnAlertsFire, which does so for the rules; of Remediation,
ReplicasAccountedFor, which is about the planner's deltas. They
are true of these tables and of a ripple within the extremes checked, and not for
every value; and the sums are folds, which take an operator and are beyond the
provers. Liveness stays with TLC, since the proof system has neither fairness nor
ENABLED.

## Disagreements with the documents

The violated run `AppliedOnce` with two sessions: `remediation/executor.py:60` and
`:132` look at the same stale object, so that two overlapping approvals of an
action both execute it, although `executor.py:133` is there to prevent it.

### Further disagreements

These properties are stated in the modules and violated; each can be seen with a
configuration as it is, or by putting the property in the place of those it names.

| Property | In configuration | Change | What happens |
|---|---|---|---|
| TableEnforced | MCSessionsTable | - | `transition` decides on the object read earlier and leaves the table (`engine.py:232`; `docs/incident-lifecycle.md:24`) |
| TelemetryBecomesIncident | MCPipelineTelemetry | - | rows are announced (`ingest.py:117`) before `api/deps.py:23` commits them and are not found (`docs/architecture.md:39`) |
| IncidentsAreInvestigated | MCPipelineCrash | - | what a dead worker held is never read again (`redis_bus.py:127`, `runner.py:63`; `README.md:244`) |
| IncidentsAreInvestigated | MCPipelineTelemetry | `Worker = {w1, w2}` | INCIDENT_CREATED is handled before the incident is committed (`engine.py:162`) |
| PlansFollowFindings | MCPipelineOne | - | a manual investigation is announced (`investigator.py:362`) before `api/deps.py:23` commits it, and the worker plans without the findings |
| PlansFollowFindings | MCPipelineTelemetry | `Worker = {w1, w2}` | the same of two workers |
| AcceptedIsDelivered | MCPipelineTelemetry | `Faults <- OnlyStops` | started with Redis down, the group is never created (`runner.py:64`) |
| LastAlertCounts | MCIncidentSeverity | - | severity is computed before the new alert is linked: a last, worst alert does not count (`engine.py:188`; `docs/incident-lifecycle.md:51`) |
| ClosedOnlyFromResolved | MCIncidentEngine | - | any open incident can be closed, its alerts unswept (`domain/enums.py:82`; `docs/incident-lifecycle.md:19` draws one arrow) |
| FirstAcknowledgerStays | MCSessionsTable | - | the second of two overlapping acknowledgements wins (`engine.py:243`; `tests/integration/test_postgres_redis.py:62` runs them in turn) |
| LastEntryTells | MCSessionsTable | - | an event is stamped before the row lock (`engine.py:64`), so that the last entry of the ordered timeline need not tell the status (`docs/incident-lifecycle.md`: "The UI renders them as an ordered list") |
| EveryAlertCounted | MCSessionsTable | - | two workers that attach at once lose one of the counts (`engine.py:184`; `docs/incident-lifecycle.md:48`) |
| ResolvedIsQuiet | MCSessionsTable | - | an alert attached during a resolve goes on firing (`engine.py:291`) |
| DropsAreCounted | MCSdkTransport | - | `self.stats["dropped_full"] += 1` (`transport.py:97`) is outside the lock: overlapping refusals are lost from it (`sdk/python/README.md:45`) |
| FlushWaitsForEarlier | MCSdkTransport | - | later events make `flush` time out (`transport.py:101`) |
| OneOpenRemediation | MCRemediationTwice | - | overlapping proposals both become open (`agent.py:101`) |
| LiveChangesCanBeUndone | MCRemediationTwice | - | a rejection over a running action leaves it REJECTED and not reversible (`executor.py:119`; `docs/remediation.md:76`) |
| RunsOnOpenIncident | MCRemediationTwice | - | the incident is resolved between check and run (`executor.py:63`; `docs/remediation.md:42`) |
| VerifiedResolves | MCRemediation | - | verification leaves the incident alone (`executor.py:213`; `docs/remediation.md:29`) |
| AdvisoryNeverRuns | MCRemediation | `MODE = "RECOMMEND"` | an approval executes in RECOMMEND too (`policy.py:99`; `docs/remediation.md:44`) |
| EffectsLast | MCRemediation | - | a rollback removes a tag another action needs (`registry.py:144`) |
| RollbackRestores | MCRemediation | `Plan <- ScaleIn` | a clamped scale-in is not undone by its rollback (`registry.py:140`; `ai/mock_planner.py:77`) |
| VerifiedMeansHealed | MCDemoLoop | - | a verification passes while the dependency's fault is at full strength: the checks read the incident's service only (`ai/mock_planner.py:21`; `docs/remediation.md:63`) |
| AlertsAreAlwaysItsOwn | MCDemoLoop | - | a scenario fires alerts on rows that a drive of another has written ahead of the clock (`generator.py:277`, `aggregate.py:111`) |

Others are part of the models, as behaviour the properties allow for:

- AlertRules: `breaching_since` belongs to the rule, so that a second service that
  begins to breach an environment-wide rule has no dwell time of its own
  (`alerts.py:234`; the docstring at line 7 says otherwise); `_resolve` ends the
  alert the rule names last, so that of several services' alerts one may go on firing
  under a cleared rule; overlapping evaluations may open two incidents for one
  outage (`correlation.py:47`); two incidents with one reference (`engine.py:43`)
  throw the second worker's whole evaluation away.
- Investigation: the mock cites the error rate when only log lines showed errors
  (`VerdictsHaveEvidence` names it; `docs/ai-investigation.md:56`); an answer of a
  remote model has its hypotheses capped and not the incident's confidence, which
  the policy reads (`providers.py:224`, `policy.py:89`; `docs/security.md:67`); an
  investigation that overlaps another leaves columns it did not change to the other
  (`stale` in `RcaIsOfTheFindings`); after a failed re-investigation the report
  names the failed run (`routers/incidents.py:107`); a failing tool is swallowed
  (`tools.py:399`).
- DemoLoop: rows that a drive writes under the moved clock stay ahead of it and are
  read, since windows have no upper bound (`alerts.py:66`, `aggregate.py:111`;
  the exception in `OnlyOwnAlertsFire`); `runtime_updated_at` is shared by
  all actions on a service (`generator.py:68`); a worker's evaluation a few minutes
  after a verified drive opens a new incident; a scenario run again after its
  remediation finds nothing; a drive takes any of several remediations
  (`flow.py:54`).
- SdkClient: `capture` reads the module's client twice and raises when a `close`
  falls between (`client.py:230`; the SDK's README promises never to crash the
  application); a close while a thread is in its hook loses the hook after it
  (`disturbed`).

## Not modelled, and why

Texts, titles, summaries and payloads are data no property tells apart.
Statistics over floating-point values, seasonal baselines, SQL aggregation and
the memory's retrieval are out of TLC's reach; DemoTelemetry has what they come
to on the demo's rows. The rate limiter is a counter in Redis with an expiry, and
the rest of security is library calls. Prompts and HTTP to model providers, the
browser dashboard, the gRPC stream and the command line do not change the state
of the core. `Maintenance`, the in-process worker's start and stop, and `drain`
are left out of EventPipeline; two loops in one process are its two workers.
Overlapping drives of the demo share the one frozen clock of the process
(`flow.py:70`) and are left out of DemoLoop, which serves one request at a time.
The SDK's logging handler and its handler for asyncio loops, and clients that are
made without `init`, are left out of SdkClient.

## Plan

Done, in this order: the incident engine with its proofs; sessions, transport,
pipeline and remediation; the demo's loop, the alert rules, the SDK client, the
investigations and the graph search; the proofs about severity, policy, graph,
investigation, remediation and the SDK; those about sessions, the pipeline, the
alert rules and the demo's. What is left:

1. A refinement of AlertRules, when one worker runs at a time, to IncidentEngine.
2. The rate limiter, and the pipeline's `Maintenance` and `drain`.
3. The SDK's logging handler and explicit clients, which are not a chain of one link.
