---------------------------- MODULE SdkTransport ----------------------------
(***************************************************************************)
(* The Python SDK's transport (sdk/python, transport.py): application      *)
(* threads put events on a bounded queue, one sender thread takes them in  *)
(* batches and posts each batch, with retries, and a counter of pending    *)
(* events tells flush() when everything has been dealt with.               *)
(*                                                                         *)
(* Every step is one atomic operation of the code: a section under the     *)
(* condition variable, one call on the queue, one request.  Timeouts and   *)
(* back-off delays have no length here; what a timeout can do, it may do   *)
(* at any moment.  The counters of stats are incremented by the sender     *)
(* alone, but for dropped_full: the application's threads increment it     *)
(* with no lock, each by a read and a write that others may run between.   *)
(***************************************************************************)
EXTENDS Integers, Sequences, FiniteSets

CONSTANTS
  Thread,           \* application threads
  Event,            \* events they may submit, each once
  Poison,           \* events that cannot be serialised
  MaxQueue,         \* max_queue
  BatchSize,        \* batch_size
  MaxRetries,       \* max_retries
  NoEvent           \* not an event

ASSUME TransportAssumption ==
  /\ IsFiniteSet(Thread)
  /\ IsFiniteSet(Event)
  /\ Poison \subseteq Event
  /\ NoEvent \notin Event
  /\ MaxQueue \in Nat \ {0}
  /\ BatchSize \in Nat \ {0}
  /\ MaxRetries \in Nat

VARIABLES
  queue,            \* _q
  pending,          \* _pending
  batch,            \* the sender's batch, until it is resolved
  sender,           \* the sender's place in _run and _deliver
  attempt,          \* its attempt at the batch
  stop,             \* _stop
  stats,            \* the counters, but for retries
  thread,           \* of each application thread: its place, event and flush
  read,             \* of each application thread: the dropped_full it adds one to
  submitted,        \* history: the events whose submit has begun
  refused           \* history: how many events a full queue has refused

vars ==
  <<queue, pending, batch, sender, attempt, stop, stats, thread, read, submitted, refused>>

Elements(s) == {s[i] : i \in DOMAIN s}

\* Places of an application thread: in submit, "counted" before the put, "refused"
\* when the queue was full, "uncounted" before the drop is recorded, "dropping" in
\* the middle of that; in flush, "flushing", then "drained" (True) or "timedout" (False).
ThreadPlaces ==
  {"idle", "counted", "refused", "uncounted", "dropping", "flushing", "drained", "timedout"}

\* Places of the sender: "idle" at the loop's test, "waiting" on the queue.
SenderPlaces == {"idle", "waiting", "filling", "sending", "backoff", "settling", "exited"}

\* A batch whose fate is not in stats yet.
Undecided == sender \in {"filling", "sending", "backoff"}

-----------------------------------------------------------------------------
(***************************************************************************)
(* The application's threads                                               *)
(***************************************************************************)

In(t, place) == thread[t].place = place

Goes(t, place) == thread' = [thread EXCEPT ![t].place = place]

\* submit: first the event is counted as pending ...
SubmitCount(t) ==
  /\ In(t, "idle")
  /\ \E e \in Event \ submitted :
       /\ submitted' = submitted \cup {e}
       /\ thread' = [thread EXCEPT ![t].place = "counted", ![t].event = e]
  /\ pending' = pending + 1
  /\ UNCHANGED <<queue, batch, sender, attempt, stop, stats, read, refused>>

\* ... then put on the queue without waiting ...
SubmitPut(t) ==
  /\ In(t, "counted")
  /\ Len(queue) < MaxQueue
  /\ queue' = Append(queue, thread[t].event)
  /\ thread' = [thread EXCEPT ![t].place = "idle", ![t].event = NoEvent]
  /\ UNCHANGED <<pending, batch, sender, attempt, stop, stats, read, submitted, refused>>

\* ... or refused by a full queue, ...
SubmitRefused(t) ==
  /\ In(t, "counted")
  /\ Len(queue) >= MaxQueue
  /\ Goes(t, "refused")
  /\ refused' = refused + 1
  /\ UNCHANGED <<queue, pending, batch, sender, attempt, stop, stats, read, submitted>>

\* ... and then resolved ...
SubmitUncount(t) ==
  /\ In(t, "refused")
  /\ pending' = pending - 1
  /\ Goes(t, "uncounted")
  /\ UNCHANGED <<queue, batch, sender, attempt, stop, stats, read, submitted, refused>>

\* ... and recorded as dropped, stats["dropped_full"] += 1: read ...
SubmitReads(t) ==
  /\ In(t, "uncounted")
  /\ read' = [read EXCEPT ![t] = stats.dropped_full]
  /\ Goes(t, "dropping")
  /\ UNCHANGED <<queue, pending, batch, sender, attempt, stop, stats, submitted, refused>>

\* ... and written.
SubmitDropped(t) ==
  /\ In(t, "dropping")
  /\ stats' = [stats EXCEPT !.dropped_full = read[t] + 1]
  /\ read' = [read EXCEPT ![t] = 0]
  /\ thread' = [thread EXCEPT ![t].place = "idle", ![t].event = NoEvent]
  /\ UNCHANGED <<queue, pending, batch, sender, attempt, stop, submitted, refused>>

\* flush: what is submitted by now is what the caller asks about.
FlushBegins(t) ==
  /\ In(t, "idle")
  /\ thread' = [thread EXCEPT ![t].place = "flushing", ![t].before = submitted]
  /\ UNCHANGED <<queue, pending, batch, sender, attempt, stop, stats, read, submitted, refused>>

\* Deviation: flush looks at the queue instead of the counter.
FlushDrains_Queue(t) ==
  /\ In(t, "flushing")
  /\ queue = <<>>
  /\ Goes(t, "drained")
  /\ UNCHANGED <<queue, pending, batch, sender, attempt, stop, stats, read, submitted, refused>>

\* It returns True when it finds nothing pending ...
FlushDrains(t) ==
  /\ In(t, "flushing")
  /\ pending = 0
  /\ Goes(t, "drained")
  /\ UNCHANGED <<queue, pending, batch, sender, attempt, stop, stats, read, submitted, refused>>

\* ... and False when its time is over before that.
FlushTimesOut(t) ==
  /\ In(t, "flushing")
  /\ pending > 0
  /\ Goes(t, "timedout")
  /\ UNCHANGED <<queue, pending, batch, sender, attempt, stop, stats, read, submitted, refused>>

FlushReturns(t) ==
  /\ In(t, "drained") \/ In(t, "timedout")
  /\ thread' = [thread EXCEPT ![t].place = "idle", ![t].before = {}]
  /\ UNCHANGED <<queue, pending, batch, sender, attempt, stop, stats, read, submitted, refused>>

\* close: its flush and its join give up after a time, so all it is sure to do is
\* to tell the sender to stop.
Close(t) ==
  /\ In(t, "idle")
  /\ stop' = TRUE
  /\ UNCHANGED <<queue, pending, batch, sender, attempt, stats, thread, read, submitted, refused>>

-----------------------------------------------------------------------------
(***************************************************************************)
(* The sender                                                              *)
(***************************************************************************)

\* Deviation: the loop does not look at _stop.
LoopTest_Forever ==
  /\ sender = "idle"
  /\ sender' = "waiting"
  /\ UNCHANGED <<queue, pending, batch, attempt, stop, stats, thread, read, submitted, refused>>

\* while not self._stop.is_set()
LoopTest ==
  /\ sender = "idle"
  /\ sender' = IF stop THEN "exited" ELSE "waiting"
  /\ UNCHANGED <<queue, pending, batch, attempt, stop, stats, thread, read, submitted, refused>>

\* The first get waits flush_interval ...
GetFirst ==
  /\ sender = "waiting"
  /\ queue # <<>>
  /\ batch' = <<Head(queue)>>
  /\ queue' = Tail(queue)
  /\ sender' = "filling"
  /\ UNCHANGED <<pending, attempt, stop, stats, thread, read, submitted, refused>>

GetTimesOut ==
  /\ sender = "waiting"
  /\ queue = <<>>
  /\ sender' = "idle"
  /\ UNCHANGED <<queue, pending, batch, attempt, stop, stats, thread, read, submitted, refused>>

\* ... the others do not wait.
GetMore ==
  /\ sender = "filling"
  /\ Len(batch) < BatchSize
  /\ queue # <<>>
  /\ batch' = Append(batch, Head(queue))
  /\ queue' = Tail(queue)
  /\ UNCHANGED <<pending, sender, attempt, stop, stats, thread, read, submitted, refused>>

BatchIsFull ==
  /\ sender = "filling"
  /\ Len(batch) >= BatchSize \/ queue = <<>>
  /\ sender' = "sending"
  /\ attempt' = 0
  /\ UNCHANGED <<queue, pending, batch, stop, stats, thread, read, submitted, refused>>

\* Deviation: a serialisation error ends the thread.
Unserialisable_Fatal ==
  /\ sender = "sending"
  /\ Elements(batch) \cap Poison # {}
  /\ sender' = "exited"
  /\ UNCHANGED <<queue, pending, batch, attempt, stop, stats, thread, read, submitted, refused>>

\* json.dumps raises: the whole batch is counted as failed.
Unserialisable ==
  /\ sender = "sending"
  /\ Elements(batch) \cap Poison # {}
  /\ stats' = [stats EXCEPT !.dropped_failed = @ + Len(batch)]
  /\ sender' = "settling"
  /\ UNCHANGED <<queue, pending, batch, attempt, stop, thread, read, submitted, refused>>

CanSend == sender = "sending" /\ Elements(batch) \cap Poison = {}

\* 2xx
SendSucceeds ==
  /\ CanSend
  /\ stats' = [stats EXCEPT !.sent = @ + Len(batch)]
  /\ sender' = "settling"
  /\ UNCHANGED <<queue, pending, batch, attempt, stop, thread, read, submitted, refused>>

\* Deviation: a rejected batch counts as one event.
SendRejected_One ==
  /\ CanSend
  /\ stats' = [stats EXCEPT !.dropped_rejected = @ + 1]
  /\ sender' = "settling"
  /\ UNCHANGED <<queue, pending, batch, attempt, stop, thread, read, submitted, refused>>

\* Another 4xx: retrying will not help.
SendRejected ==
  /\ CanSend
  /\ stats' = [stats EXCEPT !.dropped_rejected = @ + Len(batch)]
  /\ sender' = "settling"
  /\ UNCHANGED <<queue, pending, batch, attempt, stop, thread, read, submitted, refused>>

\* A connection error, or a status worth another try.  The server may have taken the
\* batch all the same: what it sees twice is its own affair.
SendFails ==
  /\ CanSend
  /\ IF attempt >= MaxRetries
     THEN /\ stats' = [stats EXCEPT !.dropped_failed = @ + Len(batch)]
          /\ sender' = "settling"
     ELSE /\ sender' = "backoff"
          /\ UNCHANGED stats
  /\ UNCHANGED <<queue, pending, batch, attempt, stop, thread, read, submitted, refused>>

\* self._stop.wait(wait)
BackoffEnds ==
  /\ sender = "backoff"
  /\ ~ stop
  /\ attempt' = attempt + 1
  /\ sender' = "sending"
  /\ UNCHANGED <<queue, pending, batch, stop, stats, thread, read, submitted, refused>>

BackoffStopped ==
  /\ sender = "backoff"
  /\ stop
  /\ stats' = [stats EXCEPT !.dropped_failed = @ + Len(batch)]
  /\ sender' = "settling"
  /\ UNCHANGED <<queue, pending, batch, attempt, stop, thread, read, submitted, refused>>

\* Deviation: the events of the batch are resolved as one.
Settle_One ==
  /\ sender = "settling"
  /\ pending' = pending - 1
  /\ batch' = <<>>
  /\ sender' = "idle"
  /\ UNCHANGED <<queue, attempt, stop, stats, thread, read, submitted, refused>>

\* The finally clause of _run.
Settle ==
  /\ sender = "settling"
  /\ pending' = pending - Len(batch)
  /\ batch' = <<>>
  /\ sender' = "idle"
  /\ UNCHANGED <<queue, attempt, stop, stats, thread, read, submitted, refused>>

-----------------------------------------------------------------------------
Init ==
  /\ queue = <<>>
  /\ pending = 0
  /\ batch = <<>>
  /\ sender = "idle"
  /\ attempt = 0
  /\ stop = FALSE
  /\ stats = [sent |-> 0, dropped_full |-> 0, dropped_rejected |-> 0, dropped_failed |-> 0]
  /\ thread = [t \in Thread |-> [place |-> "idle", event |-> NoEvent, before |-> {}]]
  /\ read = [t \in Thread |-> 0]
  /\ submitted = {}
  /\ refused = 0

Submit(t) ==
  \/ SubmitCount(t) \/ SubmitPut(t) \/ SubmitRefused(t)
  \/ SubmitUncount(t) \/ SubmitReads(t) \/ SubmitDropped(t)

Flush(t) == FlushBegins(t) \/ FlushDrains(t) \/ FlushTimesOut(t) \/ FlushReturns(t)

Deliver ==
  \/ Unserialisable \/ SendSucceeds \/ SendRejected \/ SendFails
  \/ BackoffEnds \/ BackoffStopped

Run ==
  \/ LoopTest \/ GetFirst \/ GetTimesOut \/ GetMore \/ BatchIsFull
  \/ Deliver \/ Settle

Next == Run \/ \E t \in Thread : Submit(t) \/ Flush(t) \/ Close(t)

Spec == Init /\ [][Next]_vars

\* The interpreter runs the sender whenever it can take a step; every request ends
\* within its timeout and every delay within backoff_cap.
FairSpec == Spec /\ WF_vars(Run)

-----------------------------------------------------------------------------
(***************************************************************************)
(* Properties                                                              *)
(***************************************************************************)

TypeOK ==
  /\ queue \in Seq(Event) /\ Len(queue) <= MaxQueue
  /\ pending \in Nat
  /\ batch \in Seq(Event) /\ Len(batch) <= BatchSize
  /\ sender \in SenderPlaces
  /\ attempt \in 0 .. MaxRetries
  /\ stop \in BOOLEAN
  /\ stats \in [{"sent", "dropped_full", "dropped_rejected", "dropped_failed"} -> Nat]
  /\ thread \in [Thread -> [place : ThreadPlaces, event : Event \cup {NoEvent}, before : SUBSET Event]]
  /\ read \in [Thread -> Nat]
  /\ submitted \in SUBSET Event
  /\ refused \in Nat
  /\ batch = <<>> <=> sender \in {"idle", "waiting", "exited"}

\* Threads whose submit has counted an event that is neither queued nor uncounted.
Counting == {t \in Thread : In(t, "counted") \/ In(t, "refused")}

\* The counter is never off: it counts the queue, the batch in hand and the events
\* of the threads in the middle of submit, whatever steps of theirs the sender's
\* steps fall between.
PendingBalance == pending = Len(queue) + Len(batch) + Cardinality(Counting)

\* The events nobody has sent or dropped yet.
Unsettled ==
  Elements(queue) \cup (IF Undecided THEN Elements(batch) ELSE {})
    \cup {thread[t].event : t \in {u \in Thread : In(u, "counted")}}

\* flush() returns True only when every event submitted before it was called has
\* been sent or dropped ("True if fully drained").
FlushDrained == \A t \in Thread : In(t, "drained") => thread[t].before \cap Unsettled = {}

\* Threads whose submit a full queue has refused and that have not recorded it.
Dropping == {t \in Thread : thread[t].place \in {"refused", "uncounted", "dropping"}}

\* Every event is in exactly one of the sender's counters, the refusals, the queue,
\* the batch or a thread's hands: none is counted twice, none vanishes, when the queue
\* is full, the server rejects, the payload cannot be serialised or close() cuts a
\* retry short.  Overlapping refusals may be missing from dropped_full, but it never
\* says more than was refused, nor 0 once a refusal has been recorded.
EventsAccountedFor ==
  /\ Cardinality(submitted) =
       stats.sent + stats.dropped_rejected + stats.dropped_failed + refused
         + Len(queue) + (IF Undecided THEN Len(batch) ELSE 0)
         + Cardinality({t \in Thread : In(t, "counted")})
  /\ stats.dropped_full <= refused
  /\ stats.dropped_full = 0 => refused = Cardinality(Dropping)

\* An event on the queue is sent or dropped in the end, unless the transport is
\* told to stop: no event, rejection or outage stops the sender ("the SDK must
\* never die").
QueuedSettles ==
  \A e \in Event : e \in Elements(queue) ~> (e \notin Unsettled \/ stop)

\* Told to stop, the sender ends, though it may be waiting, sending or backing off.
SenderStops == stop ~> sender = "exited"

\* "Block until everything submitted so far is sent or dropped" (flush's docstring):
\* a flush that gives up does so on an event submitted before it.
FlushWaitsForEarlier ==
  \A t \in Thread : In(t, "timedout") => thread[t].before \cap Unsettled # {}

\* "New events are dropped and counted" (sdk/python/README.md): with no submit under
\* way, dropped_full is the number of refusals.
DropsAreCounted == Dropping = {} => stats.dropped_full = refused
=============================================================================
