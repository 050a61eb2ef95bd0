------------------------------ MODULE SdkProofs -----------------------------
(***************************************************************************)
(* The two halves of the SDK.                                              *)
(*                                                                         *)
(* SdkTransport: the transport's counters, for any number of threads,      *)
(* events and retries, any queue and any batch.  Every step moves an event *)
(* from one place to the next: a thread's hands, the queue, the batch, a   *)
(* refusal, a counter of stats.  Two sums over these places never change   *)
(* but when the step changes their other side as well.  dropped_full is    *)
(* not one of them: what it shows, and what any thread is about to write   *)
(* there, stays below the refusals of threads that have recorded theirs.   *)
(*                                                                         *)
(* SdkClient: the exception hooks, for any number of clients, requests and *)
(* threads, whatever sequence of init and close, with inits that fail.     *)
(* The module's API is a chain of one link: init closes the client there   *)
(* is before the new one remembers the hooks it finds, so that a client    *)
(* that is open has always found the application's own.                    *)
(***************************************************************************)
EXTENDS SdkTransport, SdkClient, FiniteSetTheorems, TLAPS

-----------------------------------------------------------------------------
(***************************************************************************)
(* The transport                                                           *)
(***************************************************************************)

Row == [place : ThreadPlaces, event : Event \cup {NoEvent}, before : SUBSET Event]

Counters == {"sent", "dropped_full", "dropped_rejected", "dropped_failed"}

Empty == {"idle", "waiting", "exited"}

Typed ==
  /\ queue \in Seq(Event)
  /\ pending \in Int
  /\ batch \in Seq(Event)
  /\ sender \in SenderPlaces
  /\ stats \in [Counters -> Int]
  /\ thread \in [Thread -> Row]
  /\ read \in [Thread -> Int]
  /\ submitted \in SUBSET Event
  /\ refused \in Int
  /\ batch = <<>> <=> sender \in Empty
  /\ \A t \in Thread : In(t, "counted") => thread[t].event \in Event

\* Threads in the middle of a submit.
At(places) == {t \in Thread : thread[t].place \in places}
InHand == At({"counted"})

\* The two sides of both sums.
Queued == Len(queue)
Batched == Len(batch)
Counted == Cardinality(At({"counted", "refused"}))
Held == Cardinality(InHand)
Accepted == Cardinality(submitted)
Open == IF Undecided THEN Len(batch) ELSE 0
Decided == stats.sent + stats.dropped_rejected + stats.dropped_failed

Balanced == pending = Queued + Batched + Counted
Accounted == Accepted = Decided + refused + Queued + Open + Held

\* The refusals not recorded yet, and what may be written to dropped_full.
Unrecorded == Cardinality(Dropping)
Understated ==
  /\ stats.dropped_full >= 0
  /\ stats.dropped_full + Unrecorded <= refused
  /\ stats.dropped_full = 0 => refused = Unrecorded
  /\ \A t \in Thread : In(t, "dropping") => read[t] >= 0 /\ read[t] + Unrecorded <= refused

\* What a thread asks about has been submitted.
AsksWhatIsSubmitted == \A t \in Thread : thread[t].before \subseteq submitted

IInv == Typed /\ Balanced /\ Accounted /\ Understated /\ AsksWhatIsSubmitted /\ FlushDrained

-----------------------------------------------------------------------------
ThreadStep(t) == Submit(t) \/ Flush(t) \/ Close(t)

RowOf(place, event, before) == [place |-> place, event |-> event, before |-> before]

LEMMA RowKeepsType ==
  ASSUME Typed, NEW t \in Thread, NEW place \in ThreadPlaces, NEW event \in Event \cup {NoEvent},
         NEW before \in SUBSET Event, place = "counted" => event \in Event,
         thread' = [thread EXCEPT ![t] = RowOf(place, event, before)]
  PROVE  /\ thread' \in [Thread -> Row]
         /\ \A u \in Thread : In(u, "counted")' => thread'[u].event \in Event
BY DEF Typed, Row, RowOf, In

LEMMA ThreadKeepsTyped ==
  ASSUME Typed, NEW t \in Thread, ThreadStep(t)
  PROVE  Typed'
<1> DEFINE old == thread[t]
<1>1. thread = [u \in Thread |-> thread[u]]
  BY DEF Typed
<1>2. PICK place \in ThreadPlaces, event \in Event \cup {NoEvent}, before \in SUBSET Event :
        old = RowOf(place, event, before)
  BY DEF Typed, Row, RowOf
<1>3. PICK newPlace \in ThreadPlaces, newEvent \in Event \cup {NoEvent}, newBefore \in SUBSET Event :
        thread' = [thread EXCEPT ![t] = RowOf(newPlace, newEvent, newBefore)]
        /\ (newPlace = "counted" => newEvent \in Event)
  <2>0. submitted \in SUBSET Event
    BY DEF Typed
  <2>1. CASE SubmitCount(t)
    <3>0. PICK e \in Event : thread' = [thread EXCEPT ![t].place = "counted", ![t].event = e]
      BY <2>1 DEF SubmitCount
    <3> DEFINE new == [old EXCEPT !.place = "counted", !.event = e]
    <3>1. thread' = [thread EXCEPT ![t] = new]
      BY <1>1, <3>0
    <3>2. new = [old EXCEPT !.place = "counted", !.event = e]
      OBVIOUS
    <3> HIDE DEF old, new
    <3>3. new = RowOf("counted", e, before)
      BY <1>2, <3>2 DEF RowOf
    <3> QED  BY <3>1, <3>3 DEF ThreadPlaces
  <2>2. CASE SubmitPut(t) \/ SubmitDropped(t)
    <3> DEFINE new == [old EXCEPT !.place = "idle", !.event = NoEvent]
    <3>1. thread' = [thread EXCEPT ![t] = new]
      BY <1>1, <2>2 DEF SubmitPut, SubmitDropped
    <3>2. new = [old EXCEPT !.place = "idle", !.event = NoEvent]
      OBVIOUS
    <3> HIDE DEF old, new
    <3>3. new = RowOf("idle", NoEvent, before)
      BY <1>2, <3>2 DEF RowOf
    <3> QED  BY <3>1, <3>3 DEF ThreadPlaces
  <2>3. CASE SubmitRefused(t) \/ SubmitUncount(t) \/ SubmitReads(t) \/ FlushDrains(t) \/ FlushTimesOut(t)
    <3>0. PICK p \in ThreadPlaces \ {"counted"} : thread' = [thread EXCEPT ![t].place = p]
      BY <2>3 DEF SubmitRefused, SubmitUncount, SubmitReads, FlushDrains, FlushTimesOut, Goes, ThreadPlaces
    <3> DEFINE new == [old EXCEPT !.place = p]
    <3>1. thread' = [thread EXCEPT ![t] = new]
      BY <1>1, <3>0
    <3>2. new = [old EXCEPT !.place = p]
      OBVIOUS
    <3> HIDE DEF old, new
    <3>3. new = RowOf(p, event, before)
      BY <1>2, <3>2 DEF RowOf
    <3> QED  BY <3>1, <3>3
  <2>4. CASE FlushBegins(t)
    <3> DEFINE new == [old EXCEPT !.place = "flushing", !.before = submitted]
    <3>1. thread' = [thread EXCEPT ![t] = new]
      BY <1>1, <2>4 DEF FlushBegins
    <3>2. new = [old EXCEPT !.place = "flushing", !.before = submitted]
      OBVIOUS
    <3> HIDE DEF old, new
    <3>3. new = RowOf("flushing", event, submitted)
      BY <1>2, <3>2 DEF RowOf
    <3> QED  BY <2>0, <3>1, <3>3 DEF ThreadPlaces
  <2>5. CASE FlushReturns(t)
    <3> DEFINE new == [old EXCEPT !.place = "idle", !.before = {}]
    <3>1. thread' = [thread EXCEPT ![t] = new]
      BY <1>1, <2>5 DEF FlushReturns
    <3>2. new = [old EXCEPT !.place = "idle", !.before = {}]
      OBVIOUS
    <3> HIDE DEF old, new
    <3>3. new = RowOf("idle", event, {}) /\ {} \in SUBSET Event
      BY <1>2, <3>2 DEF RowOf
    <3> QED  BY <3>1, <3>3 DEF ThreadPlaces
  <2>6. CASE Close(t)
    <3>1. thread' = [thread EXCEPT ![t] = old] /\ old.place = "idle"
      BY <1>1, <2>6 DEF Close, In
    <3> HIDE DEF old
    <3>2. place = "idle"
      BY <1>2, <3>1 DEF RowOf
    <3> QED  BY <1>2, <3>1, <3>2
  <2> QED  BY <2>1, <2>2, <2>3, <2>4, <2>5, <2>6 DEF ThreadStep, Submit, Flush
<1>4. thread' \in [Thread -> Row] /\ \A u \in Thread : In(u, "counted")' => thread'[u].event \in Event
  BY <1>3, RowKeepsType
<1>5. /\ queue' \in Seq(Event) /\ pending' \in Int /\ submitted' \in SUBSET Event
      /\ stats' \in [Counters -> Int] /\ read' \in [Thread -> Int] /\ refused' \in Int
      /\ UNCHANGED <<batch, sender>>
  <2>1. CASE SubmitCount(t)
    BY <2>1 DEF SubmitCount, Typed
  <2>2. CASE SubmitPut(t)
    <3>1. thread[t].event \in Event
      BY <2>2 DEF SubmitPut, Typed
    <3> QED  BY <2>2, <3>1 DEF SubmitPut, Typed
  <2>3. CASE SubmitDropped(t)
    <3>0. read[t] + 1 \in Int
      BY DEF Typed
    <3>1. stats' \in [Counters -> Int]
      BY <2>3, <3>0 DEF SubmitDropped, Typed, Counters
    <3> QED  BY <2>3, <3>1 DEF SubmitDropped, Typed
  <2>5. CASE SubmitReads(t)
    <3>1. stats.dropped_full \in Int
      BY DEF Typed, Counters
    <3> QED  BY <2>5, <3>1 DEF SubmitReads, Typed
  <2>4. CASE SubmitRefused(t) \/ SubmitUncount(t) \/ Flush(t) \/ Close(t)
    BY <2>4 DEF SubmitRefused, SubmitUncount, Flush, FlushBegins, FlushDrains, FlushTimesOut, FlushReturns, Close, Typed
  <2> QED  BY <2>1, <2>2, <2>3, <2>4, <2>5 DEF ThreadStep, Submit
<1> QED  BY <1>4, <1>5 DEF Typed

\* The row of a thread after a step that does not submit.
LEMMA RowAfterGoes ==
  ASSUME Typed, NEW t \in Thread, NEW p, Goes(t, p)
  PROVE  thread'[t].place = p /\ thread'[t].event = thread[t].event /\ thread'[t].before = thread[t].before
<1> DEFINE old == thread[t]
<1>1. thread'[t] = [old EXCEPT !.place = p] /\ old \in Row
  BY DEF Goes, Typed
<1> HIDE DEF old
<1>2. [old EXCEPT !.place = p].place = p /\ [old EXCEPT !.place = p].event = old.event
      /\ [old EXCEPT !.place = p].before = old.before
  BY <1>1 DEF Row
<1> QED  BY <1>1, <1>2 DEF old

LEMMA RowAfterFlush ==
  ASSUME Typed, NEW t \in Thread, NEW p, NEW b, thread' = [thread EXCEPT ![t].place = p, ![t].before = b]
  PROVE  thread'[t].place = p /\ thread'[t].event = thread[t].event /\ thread'[t].before = b
<1> DEFINE old == thread[t]
           new == [old EXCEPT !.place = p, !.before = b]
<1>1. thread = [u \in Thread |-> thread[u]] /\ old \in Row
  BY DEF Typed
<1>2. thread' = [thread EXCEPT ![t] = new]
  BY <1>1
<1>3. new = [old EXCEPT !.place = p, !.before = b]
  OBVIOUS
<1> HIDE DEF old, new
<1>4. new.place = p /\ new.event = old.event /\ new.before = b
  BY <1>1, <1>3 DEF Row
<1>5. thread'[t] = new
  BY <1>1, <1>2
<1> QED  BY <1>4, <1>5 DEF old

LEMMA RowAfterSubmit ==
  ASSUME Typed, NEW t \in Thread, NEW p, NEW e, thread' = [thread EXCEPT ![t].place = p, ![t].event = e]
  PROVE  thread'[t].place = p /\ thread'[t].event = e /\ thread'[t].before = thread[t].before
<1> DEFINE old == thread[t]
           new == [old EXCEPT !.place = p, !.event = e]
<1>1. thread = [u \in Thread |-> thread[u]] /\ old \in Row
  BY DEF Typed
<1>2. thread' = [thread EXCEPT ![t] = new]
  BY <1>1
<1>3. new = [old EXCEPT !.place = p, !.event = e]
  OBVIOUS
<1> HIDE DEF old, new
<1>4. new.place = p /\ new.event = e /\ new.before = old.before
  BY <1>1, <1>3 DEF Row
<1>5. thread'[t] = new
  BY <1>1, <1>2
<1> QED  BY <1>4, <1>5 DEF old

\* A flush moves between its own places, and a close moves nothing.
LEMMA FlushMoves ==
  ASSUME Typed, NEW t \in Thread, Flush(t) \/ Close(t), NEW u \in Thread, thread'[u].place # thread[u].place
  PROVE  /\ thread[u].place \in {"idle", "flushing", "drained", "timedout"}
         /\ thread'[u].place \in {"idle", "flushing", "drained", "timedout"}
<1>1. u = t
  BY DEF Flush, FlushBegins, FlushDrains, FlushTimesOut, FlushReturns, Close, Goes, Typed
<1>2. CASE FlushBegins(t)
  <2>1. thread'[t].place = "flushing"
    BY <1>2, RowAfterFlush DEF FlushBegins
  <2> QED  BY <1>1, <1>2, <2>1 DEF FlushBegins, In
<1>3. CASE FlushReturns(t)
  <2>1. thread'[t].place = "idle"
    BY <1>3, RowAfterFlush DEF FlushReturns
  <2> QED  BY <1>1, <1>3, <2>1 DEF FlushReturns, In
<1>4. CASE FlushDrains(t)
  <2>1. thread'[t].place = "drained"
    BY <1>4, RowAfterGoes DEF FlushDrains
  <2> QED  BY <1>1, <1>4, <2>1 DEF FlushDrains, In
<1>5. CASE FlushTimesOut(t)
  <2>1. thread'[t].place = "timedout"
    BY <1>5, RowAfterGoes DEF FlushTimesOut
  <2> QED  BY <1>1, <1>5, <2>1 DEF FlushTimesOut, In
<1>6. CASE Close(t)
  BY <1>6 DEF Close
<1> QED  BY <1>2, <1>3, <1>4, <1>5, <1>6 DEF Flush

LEMMA SenderKeepsTyped ==
  ASSUME Typed, Run
  PROVE  Typed'
<1>1. CASE LoopTest \/ GetTimesOut \/ BackoffEnds
  BY <1>1 DEF LoopTest, GetTimesOut, BackoffEnds, Typed, SenderPlaces, Empty, In
<1>2. CASE GetFirst
  BY <1>2 DEF GetFirst, Typed, SenderPlaces, Empty, In
<1>3. CASE GetMore
  <2>1. queue' \in Seq(Event) /\ batch' \in Seq(Event) /\ batch' # <<>>
    BY <1>3 DEF GetMore, Typed
  <2> QED  BY <1>3, <2>1 DEF GetMore, Typed, Empty, In
<1>4. CASE BatchIsFull
  BY <1>4 DEF BatchIsFull, Typed, SenderPlaces, Empty, In
<1>5. CASE Unserialisable \/ SendSucceeds \/ SendRejected \/ SendFails \/ BackoffStopped
  <2>1. Len(batch) \in Int
    BY DEF Typed
  <2>2. stats' \in [Counters -> Int]
    BY <1>5, <2>1 DEF Unserialisable, SendSucceeds, SendRejected, SendFails, BackoffStopped, Typed, Counters
  <2> QED  BY <1>5, <2>2 DEF Unserialisable, SendSucceeds, SendRejected, SendFails, BackoffStopped, CanSend,
             Typed, SenderPlaces, Empty, In
<1>6. CASE Settle
  <2>1. Len(batch) \in Int
    BY DEF Typed
  <2> QED  BY <1>6, <2>1 DEF Settle, Typed, SenderPlaces, Empty, In
<1> QED  BY <1>1, <1>2, <1>3, <1>4, <1>5, <1>6 DEF Run, Deliver

-----------------------------------------------------------------------------
LEMMA Sizes ==
  ASSUME Typed
  PROVE  /\ Queued \in Nat /\ Batched \in Nat /\ Open \in Nat /\ Decided \in Int
         /\ Counted \in Nat /\ Held \in Nat /\ Accepted \in Nat /\ refused \in Int
<1>1. Queued \in Nat /\ Batched \in Nat /\ Open \in Nat
  BY DEF Typed, Queued, Batched, Open
<1>2. Decided \in Int
  BY DEF Typed, Decided, Counters
<1>3. \A P : At(P) \in SUBSET Thread /\ Cardinality(At(P)) \in Nat
  BY TransportAssumption, FS_Subset, FS_CardinalityType DEF At
<1>4. Accepted \in Nat
  BY TransportAssumption, FS_Subset, FS_CardinalityType DEF Typed, Accepted
<1> QED  BY <1>1, <1>2, <1>3, <1>4 DEF Counted, Held, InHand, Typed

\* A thread that changes place leaves or enters a set of places.
LEMMA Crosses ==
  ASSUME Typed, NEW t \in Thread, NEW P, thread'[t].place # thread[t].place,
         \A u \in Thread \ {t} : thread'[u] = thread[u]
  PROVE  /\ (thread[t].place \in P <=> thread'[t].place \in P) => Cardinality(At(P))' = Cardinality(At(P))
         /\ (thread[t].place \in P /\ thread'[t].place \notin P) => Cardinality(At(P))' = Cardinality(At(P)) - 1
         /\ (thread[t].place \notin P /\ thread'[t].place \in P) => Cardinality(At(P))' = Cardinality(At(P)) + 1
<1>1. IsFiniteSet(At(P))
  BY TransportAssumption, FS_Subset DEF At
<1>2. CASE thread[t].place \in P <=> thread'[t].place \in P
  <2>1. At(P)' = At(P)
    BY <1>2 DEF At
  <2> QED  BY <1>2, <2>1
<1>3. CASE thread[t].place \in P /\ thread'[t].place \notin P
  <2>1. At(P)' = At(P) \ {t} /\ t \in At(P)
    BY <1>3 DEF At
  <2> QED  BY <1>1, <1>3, <2>1, FS_RemoveElement
<1>4. CASE thread[t].place \notin P /\ thread'[t].place \in P
  <2>1. At(P)' = At(P) \cup {t} /\ t \notin At(P)
    BY <1>4 DEF At
  <2> QED  BY <1>1, <1>4, <2>1, FS_AddElement
<1> QED  BY <1>2, <1>3, <1>4

\* What a step of a thread does to the sums.
LEMMA ThreadKeepsSums ==
  ASSUME Typed, Balanced, Accounted, NEW t \in Thread, ThreadStep(t)
  PROVE  Balanced' /\ Accounted'
<1> DEFINE P == {"counted", "refused"}
           H == {"counted"}
<1>0. Counted = Cardinality(At(P)) /\ Held = Cardinality(At(H))
      /\ Counted' = Cardinality(At(P))' /\ Held' = Cardinality(At(H))'
  BY DEF Counted, Held, InHand
<1>1. CASE SubmitCount(t)
  <2>1. Counted' = Counted + 1 /\ Held' = Held + 1
    <3>1. thread[t].place = "idle" /\ thread'[t].place = "counted" /\ \A u \in Thread \ {t} : thread'[u] = thread[u]
      BY <1>1 DEF SubmitCount, Typed, In
    <3> QED  BY <1>0, <3>1, Crosses
  <2>2. Accepted' = Accepted + 1
    <3>1. PICK e \in Event \ submitted : submitted' = submitted \cup {e}
      BY <1>1 DEF SubmitCount
    <3>2. IsFiniteSet(submitted)
      BY TransportAssumption, FS_Subset DEF Typed
    <3> QED  BY <3>1, <3>2, FS_AddElement DEF Accepted
  <2>3. /\ pending' = pending + 1 /\ Queued' = Queued /\ Batched' = Batched /\ Open' = Open
        /\ Decided' = Decided /\ refused' = refused
    BY <1>1 DEF SubmitCount, Queued, Batched, Open, Undecided, Decided
  <2> QED  BY <2>1, <2>2, <2>3, Sizes DEF Balanced, Accounted
<1>2. CASE SubmitPut(t)
  <2>1. Counted' = Counted - 1 /\ Held' = Held - 1
    <3>1. thread[t].place = "counted" /\ thread'[t].place = "idle" /\ \A u \in Thread \ {t} : thread'[u] = thread[u]
      BY <1>2 DEF SubmitPut, Typed, In
    <3> QED  BY <1>0, <3>1, Crosses
  <2>2. Queued' = Queued + 1
    BY <1>2 DEF SubmitPut, Typed, Queued
  <2>3. /\ pending' = pending /\ Batched' = Batched /\ Open' = Open
        /\ Decided' = Decided /\ Accepted' = Accepted /\ refused' = refused
    BY <1>2 DEF SubmitPut, Batched, Open, Undecided, Decided, Accepted
  <2>4. Balanced'
    BY <2>1, <2>2, <2>3, Sizes DEF Balanced
  <2>5. Accounted'
    BY <2>1, <2>2, <2>3, Sizes DEF Accounted
  <2> QED  BY <2>4, <2>5
<1>3. CASE SubmitRefused(t)
  <2>1. Counted' = Counted /\ Held' = Held - 1
    <3>1. thread[t].place = "counted" /\ thread'[t].place = "refused" /\ \A u \in Thread \ {t} : thread'[u] = thread[u]
      BY <1>3 DEF SubmitRefused, Goes, Typed, In
    <3> QED  BY <1>0, <3>1, Crosses
  <2>2. /\ pending' = pending /\ Queued' = Queued /\ Batched' = Batched /\ Open' = Open
        /\ Decided' = Decided /\ Accepted' = Accepted /\ refused' = refused + 1
    BY <1>3 DEF SubmitRefused, Queued, Batched, Open, Undecided, Decided, Accepted
  <2> QED  BY <2>1, <2>2, Sizes DEF Balanced, Accounted
<1>4. CASE SubmitUncount(t)
  <2>1. Counted' = Counted - 1 /\ Held' = Held
    <3>1. thread[t].place = "refused" /\ thread'[t].place = "uncounted" /\ \A u \in Thread \ {t} : thread'[u] = thread[u]
      BY <1>4 DEF SubmitUncount, Goes, Typed, In
    <3> QED  BY <1>0, <3>1, Crosses
  <2>2. /\ pending' = pending - 1 /\ Queued' = Queued /\ Batched' = Batched /\ Open' = Open
        /\ Decided' = Decided /\ Accepted' = Accepted /\ refused' = refused
    BY <1>4 DEF SubmitUncount, Queued, Batched, Open, Undecided, Decided, Accepted
  <2> QED  BY <2>1, <2>2, Sizes DEF Balanced, Accounted
<1>5. CASE SubmitReads(t) \/ SubmitDropped(t)
  <2>1. Counted' = Counted /\ Held' = Held
    <3>1. /\ thread[t].place \in {"uncounted", "dropping"} /\ thread'[t].place \in {"dropping", "idle"}
          /\ thread'[t].place # thread[t].place /\ \A u \in Thread \ {t} : thread'[u] = thread[u]
      <4>1. CASE SubmitReads(t)
        BY <4>1 DEF SubmitReads, Goes, Typed, In
      <4>2. CASE SubmitDropped(t)
        BY <4>2 DEF SubmitDropped, Typed, In
      <4> QED  BY <1>5, <4>1, <4>2
    <3>2. thread[t].place \notin P /\ thread'[t].place \notin P /\ thread[t].place \notin H /\ thread'[t].place \notin H
      BY <3>1
    <3> HIDE DEF P, H
    <3> QED  BY <1>0, <3>1, <3>2, Crosses
  <2>2. /\ pending' = pending /\ Queued' = Queued /\ Batched' = Batched /\ Open' = Open
        /\ Accepted' = Accepted /\ refused' = refused
    BY <1>5 DEF SubmitReads, SubmitDropped, Queued, Batched, Open, Undecided, Accepted
  <2>3. Decided' = Decided
    BY <1>5 DEF SubmitReads, SubmitDropped, Typed, Counters, Decided
  <2> QED  BY <2>1, <2>2, <2>3 DEF Balanced, Accounted
<1>6. CASE Flush(t) \/ Close(t)
  <2>1. Counted' = Counted /\ Held' = Held
    <3>1. ASSUME NEW u \in Thread
          PROVE  thread'[u].place = thread[u].place \/ (thread'[u].place \notin P /\ thread[u].place \notin P)
      BY <1>6, FlushMoves
    <3>2. At(P)' = At(P) /\ At(H)' = At(H)
      <4>1. \A u \in Thread : (thread'[u].place \in P <=> thread[u].place \in P)
                                /\ (thread'[u].place \in H <=> thread[u].place \in H)
        BY <3>1
      <4> HIDE DEF P, H
      <4> QED  BY <4>1 DEF At
    <3> QED  BY <1>0, <3>2
  <2>2. UNCHANGED <<queue, pending, batch, sender, stats, submitted, refused>>
    BY <1>6 DEF Flush, FlushBegins, FlushDrains, FlushTimesOut, FlushReturns, Close
  <2>3. /\ pending' = pending /\ Queued' = Queued /\ Batched' = Batched /\ Open' = Open
        /\ Decided' = Decided /\ Accepted' = Accepted /\ refused' = refused
    BY <2>2 DEF Queued, Batched, Open, Undecided, Decided, Accepted
  <2> QED  BY <2>1, <2>3 DEF Balanced, Accounted
<1> QED  BY <1>1, <1>2, <1>3, <1>4, <1>5, <1>6 DEF ThreadStep, Submit

\* What a step of the sender does to the sums.
LEMMA SenderKeepsSums ==
  ASSUME Typed, Balanced, Accounted, Run
  PROVE  Balanced' /\ Accounted'
<1>0. Counted' = Counted /\ Held' = Held /\ Accepted' = Accepted /\ refused' = refused
  BY DEF Run, LoopTest, GetFirst, GetTimesOut, GetMore, BatchIsFull, Deliver, Unserialisable, SendSucceeds,
         SendRejected, SendFails, BackoffEnds, BackoffStopped, Settle, Counted, Held, InHand, At, Accepted
<1>1. CASE LoopTest \/ GetTimesOut \/ BatchIsFull \/ BackoffEnds
  <2>1. /\ pending' = pending /\ Queued' = Queued /\ Batched' = Batched /\ Open' = Open
        /\ Decided' = Decided
    BY <1>1 DEF LoopTest, GetTimesOut, BatchIsFull, BackoffEnds, Queued, Batched, Open, Undecided, Decided
  <2> QED  BY <1>0, <2>1 DEF Balanced, Accounted
<1>2. CASE GetFirst
  <2>1. Queued' = Queued - 1
    BY <1>2 DEF GetFirst, Typed, Queued
  <2>2. Batched = 0 /\ Batched' = 1 /\ Open = 0 /\ Open' = 1
    BY <1>2 DEF GetFirst, Typed, Empty, Batched, Open, Undecided
  <2>3. pending' = pending /\ Decided' = Decided
    BY <1>2 DEF GetFirst, Decided
  <2> QED  BY <1>0, <2>1, <2>2, <2>3, Sizes DEF Balanced, Accounted
<1>3. CASE GetMore
  <2>1. Queued' = Queued - 1
    BY <1>3 DEF GetMore, Typed, Queued
  <2>2. Batched' = Batched + 1 /\ Open' = Open + 1
    BY <1>3 DEF GetMore, Typed, Batched, Open, Undecided
  <2>3. pending' = pending /\ Decided' = Decided
    BY <1>3 DEF GetMore, Decided
  <2> QED  BY <1>0, <2>1, <2>2, <2>3, Sizes DEF Balanced, Accounted
<1>4. CASE Unserialisable \/ SendSucceeds \/ SendRejected \/ BackoffStopped \/ (SendFails /\ attempt >= MaxRetries)
  <2>1. Batched \in Int /\ stats \in [Counters -> Int]
    BY DEF Typed, Batched
  <2>3. Decided' = Decided + Batched
    <3>1. PICK k \in {"sent", "dropped_rejected", "dropped_failed"} : stats' = [stats EXCEPT ![k] = @ + Batched]
      BY <1>4 DEF Unserialisable, SendSucceeds, SendRejected, SendFails, BackoffStopped, Batched
    <3> QED  BY <2>1, <3>1 DEF Counters, Decided
  <2>4. Open = Batched /\ Open' = 0
    BY <1>4 DEF Unserialisable, SendSucceeds, SendRejected, SendFails, CanSend, BackoffStopped, Open, Undecided, Batched
  <2>5. pending' = pending /\ Queued' = Queued /\ Batched' = Batched
    BY <1>4 DEF Unserialisable, SendSucceeds, SendRejected, SendFails, BackoffStopped, Queued, Batched
  <2> QED  BY <1>0, <2>1, <2>3, <2>4, <2>5, Sizes DEF Balanced, Accounted
<1>5. CASE SendFails /\ ~ (attempt >= MaxRetries)
  <2>1. /\ pending' = pending /\ Queued' = Queued /\ Batched' = Batched /\ Open' = Open
        /\ Decided' = Decided
    BY <1>5 DEF SendFails, CanSend, Queued, Batched, Open, Undecided, Decided
  <2> QED  BY <1>0, <2>1 DEF Balanced, Accounted
<1>6. CASE Settle
  <2>1. pending' = pending - Batched /\ Batched' = 0
    BY <1>6 DEF Settle, Batched
  <2>2. Queued' = Queued /\ Open = 0 /\ Open' = 0 /\ Decided' = Decided
    BY <1>6 DEF Settle, Queued, Open, Undecided, Decided
  <2> QED  BY <1>0, <2>1, <2>2, Sizes DEF Balanced, Accounted
<1> QED  BY <1>1, <1>2, <1>3, <1>4, <1>5, <1>6 DEF Run, Deliver

-----------------------------------------------------------------------------
(***************************************************************************)
(* What dropped_full shows                                                 *)
(***************************************************************************)

Refusing == {"refused", "uncounted", "dropping"}

LEMMA UnrecordedSize ==
  ASSUME Typed
  PROVE  Unrecorded = Cardinality(At(Refusing)) /\ Unrecorded \in Nat /\ refused \in Int
         /\ stats.dropped_full \in Int /\ \A t \in Thread : read[t] \in Int
<1>1. Dropping = At(Refusing)
  BY DEF Dropping, At, Refusing
<1>2. Cardinality(At(Refusing)) \in Nat
  BY TransportAssumption, FS_Subset, FS_CardinalityType DEF At
<1> QED  BY <1>1, <1>2 DEF Unrecorded, Typed, Counters

\* A step that neither refuses an event nor records a refusal.
LEMMA StaysUnderstated ==
  ASSUME Understated, Dropping' = Dropping, read' = read, refused' = refused,
         stats'.dropped_full = stats.dropped_full,
         \A u \in Thread : In(u, "dropping")' => In(u, "dropping")
  PROVE  Understated'
<1>1. Unrecorded' = Unrecorded
  BY DEF Unrecorded
<1> QED  BY <1>1 DEF Understated

LEMMA ThreadKeepsUnderstated ==
  ASSUME Typed, Typed', Understated, NEW t \in Thread, ThreadStep(t)
  PROVE  Understated'
<1>0. Unrecorded' = Cardinality(At(Refusing))'
  <2>1. Dropping' = At(Refusing)'
    BY DEF Dropping, At, Refusing
  <2> QED  BY <2>1 DEF Unrecorded
<1>1. CASE SubmitCount(t) \/ SubmitPut(t)
  <2>1. /\ thread[t].place \notin Refusing /\ thread'[t].place \notin Refusing
        /\ \A u \in Thread \ {t} : thread'[u] = thread[u]
    <3>1. CASE SubmitCount(t)
      BY <3>1 DEF SubmitCount, Typed, In, Refusing
    <3>2. CASE SubmitPut(t)
      BY <3>2 DEF SubmitPut, Typed, In, Refusing
    <3> QED  BY <1>1, <3>1, <3>2
  <2>2. Dropping' = Dropping /\ \A u \in Thread : In(u, "dropping")' => In(u, "dropping")
    BY <2>1 DEF Dropping, Refusing, In
  <2>3. UNCHANGED <<read, refused, stats>>
    BY <1>1 DEF SubmitCount, SubmitPut
  <2> QED  BY <2>2, <2>3, StaysUnderstated
<1>2. CASE SubmitRefused(t)
  <2>1. thread[t].place = "counted" /\ thread'[t].place = "refused" /\ \A u \in Thread \ {t} : thread'[u] = thread[u]
    BY <1>2 DEF SubmitRefused, Goes, Typed, In
  <2>2. Unrecorded' = Unrecorded + 1
    BY <1>0, <2>1, UnrecordedSize, Crosses DEF Refusing
  <2>3. /\ refused' = refused + 1 /\ stats' = stats /\ read' = read
        /\ \A u \in Thread : In(u, "dropping")' => In(u, "dropping")
    BY <1>2, <2>1 DEF SubmitRefused, In
  <2> QED  BY <2>2, <2>3, UnrecordedSize DEF Understated
<1>3. CASE SubmitUncount(t)
  <2>1. thread[t].place = "refused" /\ thread'[t].place = "uncounted" /\ \A u \in Thread \ {t} : thread'[u] = thread[u]
    BY <1>3 DEF SubmitUncount, Goes, Typed, In
  <2>2. Dropping' = Dropping /\ \A u \in Thread : In(u, "dropping")' => In(u, "dropping")
    BY <2>1 DEF Dropping, In
  <2>3. UNCHANGED <<read, refused, stats>>
    BY <1>3 DEF SubmitUncount
  <2> QED  BY <2>2, <2>3, StaysUnderstated
<1>4. CASE SubmitReads(t)
  <2>1. thread[t].place = "uncounted" /\ thread'[t].place = "dropping" /\ \A u \in Thread \ {t} : thread'[u] = thread[u]
    BY <1>4 DEF SubmitReads, Goes, Typed, In
  <2>2. Unrecorded' = Unrecorded
    BY <1>0, <2>1, UnrecordedSize, Crosses DEF Refusing
  <2>3. /\ refused' = refused /\ stats' = stats /\ read'[t] = stats.dropped_full
        /\ \A u \in Thread \ {t} : read'[u] = read[u] /\ (In(u, "dropping")' => In(u, "dropping"))
    BY <1>4, <2>1 DEF SubmitReads, Typed, In
  <2> QED  BY <2>2, <2>3 DEF Understated
<1>5. CASE SubmitDropped(t)
  <2>1. thread[t].place = "dropping" /\ thread'[t].place = "idle" /\ \A u \in Thread \ {t} : thread'[u] = thread[u]
    BY <1>5 DEF SubmitDropped, Typed, In
  <2>2. Unrecorded' = Unrecorded - 1
    BY <1>0, <2>1, UnrecordedSize, Crosses DEF Refusing
  <2>3. /\ refused' = refused /\ stats'.dropped_full = read[t] + 1
    BY <1>5 DEF SubmitDropped, Typed, Counters
  <2>4. \A u \in Thread : In(u, "dropping")' => u # t /\ In(u, "dropping") /\ read'[u] = read[u]
    BY <1>5, <2>1 DEF SubmitDropped, Typed, In
  <2>5. read[t] >= 0 /\ read[t] + Unrecorded <= refused
    BY <2>1 DEF Understated, In
  <2>6. stats'.dropped_full >= 0 /\ stats'.dropped_full + Unrecorded' <= refused' /\ stats'.dropped_full # 0
    BY <2>2, <2>3, <2>5, UnrecordedSize
  <2>7. ASSUME NEW u \in Thread, In(u, "dropping")'
        PROVE  read'[u] >= 0 /\ read'[u] + Unrecorded' <= refused'
    <3>1. In(u, "dropping") /\ read'[u] = read[u] /\ read[u] \in Int
      BY <2>4, <2>7, UnrecordedSize
    <3>2. read[u] >= 0 /\ read[u] + Unrecorded <= refused
      BY <3>1 DEF Understated
    <3> QED  BY <2>2, <2>3, <3>1, <3>2, UnrecordedSize
  <2> QED  BY <2>6, <2>7 DEF Understated
<1>6. CASE Flush(t) \/ Close(t)
  <2>1. ASSUME NEW u \in Thread
        PROVE  thread'[u].place = thread[u].place \/ (thread'[u].place \notin Refusing /\ thread[u].place \notin Refusing)
    BY <1>6, FlushMoves DEF Refusing
  <2>2. Dropping' = Dropping /\ \A u \in Thread : In(u, "dropping")' => In(u, "dropping")
    BY <2>1 DEF Dropping, Refusing, In
  <2>3. UNCHANGED <<read, refused, stats>>
    BY <1>6 DEF Flush, FlushBegins, FlushDrains, FlushTimesOut, FlushReturns, Close
  <2> QED  BY <2>2, <2>3, StaysUnderstated
<1> QED  BY <1>1, <1>2, <1>3, <1>4, <1>5, <1>6 DEF ThreadStep, Submit

LEMMA SenderKeepsUnderstated ==
  ASSUME Typed, Understated, Run
  PROVE  Understated'
<1>1. UNCHANGED <<thread, read, refused>>
  BY DEF Run, LoopTest, GetFirst, GetTimesOut, GetMore, BatchIsFull, Deliver, Unserialisable, SendSucceeds,
         SendRejected, SendFails, BackoffEnds, BackoffStopped, Settle
<1>2. stats'.dropped_full = stats.dropped_full
  BY DEF Run, LoopTest, GetFirst, GetTimesOut, GetMore, BatchIsFull, Deliver, Unserialisable, SendSucceeds,
         SendRejected, SendFails, BackoffEnds, BackoffStopped, Settle, Typed, Counters
<1>3. Dropping' = Dropping /\ \A u \in Thread : In(u, "dropping")' => In(u, "dropping")
  BY <1>1 DEF Dropping, In
<1> QED  BY <1>1, <1>2, <1>3, StaysUnderstated

-----------------------------------------------------------------------------
(***************************************************************************)
(* flush                                                                   *)
(***************************************************************************)

\* Only a submit makes an event unsettled, and it is then a new one.
LEMMA SettledStays ==
  ASSUME Typed, Typed', Next
  PROVE  Unsettled' \subseteq Unsettled \cup (submitted' \ submitted)
<1>1. ASSUME NEW t \in Thread, SubmitCount(t) PROVE Unsettled' \subseteq Unsettled \cup (submitted' \ submitted)
  BY <1>1 DEF SubmitCount, Typed, Unsettled, Elements, Undecided, In
<1>2. ASSUME NEW t \in Thread, SubmitPut(t) PROVE Unsettled' \subseteq Unsettled
  BY <1>2 DEF SubmitPut, Typed, Unsettled, Elements, Undecided, In
<1>3. ASSUME NEW t \in Thread,
             SubmitRefused(t) \/ SubmitUncount(t) \/ SubmitReads(t) \/ SubmitDropped(t) \/ Flush(t) \/ Close(t)
      PROVE  Unsettled' \subseteq Unsettled
  <2>1. UNCHANGED <<queue, batch, sender>>
    BY <1>3 DEF SubmitRefused, SubmitUncount, SubmitReads, SubmitDropped, Flush, FlushBegins, FlushDrains, FlushTimesOut,
                FlushReturns, Close
  <2>2. ASSUME NEW u \in Thread, In(u, "counted")'
        PROVE  In(u, "counted") /\ thread'[u].event = thread[u].event
    <3>1. CASE u # t
      BY <1>3, <2>2, <3>1 DEF SubmitRefused, SubmitUncount, SubmitReads, SubmitDropped, Flush, FlushBegins, FlushDrains,
                FlushTimesOut, FlushReturns, Close, Goes, Typed, In
    <3>2. CASE u = t
      <4>1. CASE SubmitRefused(t) \/ SubmitUncount(t) \/ SubmitReads(t)
        BY <2>2, <3>2, <4>1, RowAfterGoes DEF SubmitRefused, SubmitUncount, SubmitReads, In
      <4>5. CASE SubmitDropped(t)
        BY <2>2, <3>2, <4>5 DEF SubmitDropped, Typed, In
      <4>2. CASE FlushBegins(t) \/ FlushReturns(t)
        <5>1. thread'[t].place \in {"flushing", "idle"}
          <6>1. CASE FlushBegins(t)
            BY <6>1, RowAfterFlush DEF FlushBegins
          <6>2. CASE FlushReturns(t)
            BY <6>2, RowAfterFlush DEF FlushReturns
          <6> QED  BY <4>2, <6>1, <6>2
        <5> QED  BY <2>2, <3>2, <5>1 DEF In
      <4>3. CASE FlushDrains(t) \/ FlushTimesOut(t)
        BY <2>2, <3>2, <4>3, RowAfterGoes DEF FlushDrains, FlushTimesOut, In
      <4>4. CASE Close(t)
        BY <2>2, <3>2, <4>4 DEF Close, In
      <4> QED  BY <1>3, <4>1, <4>2, <4>3, <4>4, <4>5 DEF Flush
    <3> QED  BY <3>1, <3>2
  <2>3. Elements(queue)' = Elements(queue) /\ Elements(batch)' = Elements(batch) /\ (Undecided' <=> Undecided)
    BY <2>1 DEF Elements, Undecided
  <2>4. {thread'[u].event : u \in {v \in Thread : In(v, "counted")'}}
          \subseteq {thread[u].event : u \in {v \in Thread : In(v, "counted")}}
    BY <2>2
  <2> QED  BY <2>3, <2>4 DEF Unsettled
<1>4. CASE GetFirst
  BY <1>4 DEF GetFirst, Typed, Unsettled, Elements, Undecided, In
<1>5. CASE GetMore
  BY <1>5 DEF GetMore, Typed, Unsettled, Elements, Undecided, In
<1>6. CASE LoopTest \/ GetTimesOut \/ BatchIsFull \/ Deliver \/ Settle
  BY <1>6 DEF LoopTest, GetTimesOut, BatchIsFull, Deliver, Unserialisable, SendSucceeds, SendRejected, SendFails,
              CanSend, BackoffEnds, BackoffStopped, Settle, Unsettled, Undecided, In
<1> QED  BY <1>1, <1>2, <1>3, <1>4, <1>5, <1>6 DEF Next, Run, Submit

\* With nothing pending there is nothing unsettled.
LEMMA NothingPending ==
  ASSUME Typed, Balanced, pending = 0
  PROVE  Unsettled = {}
<1>1. Queued = 0 /\ Batched = 0 /\ Counted = 0
  BY Sizes DEF Balanced
<1>2. queue = <<>> /\ batch = <<>>
  BY <1>1 DEF Typed, Queued, Batched
<1>3. At({"counted", "refused"}) = {}
  <2>1. IsFiniteSet(At({"counted", "refused"}))
    BY TransportAssumption, FS_Subset DEF At
  <2> QED  BY <1>1, <2>1, FS_EmptySet DEF Counted
<1> QED  BY <1>2, <1>3 DEF Unsettled, Elements, At, In

LEMMA FlushStaysDrained ==
  ASSUME Typed, Typed', Balanced, AsksWhatIsSubmitted, FlushDrained, Next
  PROVE  AsksWhatIsSubmitted' /\ FlushDrained'
<1>0. submitted \subseteq submitted' /\ Unsettled' \subseteq Unsettled \cup (submitted' \ submitted)
  <2>1. submitted \subseteq submitted'
    BY DEF Next, Submit, Flush, Run, Deliver, SubmitCount, SubmitPut, SubmitRefused, SubmitUncount, SubmitReads, SubmitDropped,
           FlushBegins, FlushDrains, FlushTimesOut, FlushReturns, Close, LoopTest, GetFirst, GetTimesOut, GetMore,
           BatchIsFull, Unserialisable, SendSucceeds, SendRejected, SendFails, BackoffEnds, BackoffStopped, Settle
  <2> QED  BY <2>1, SettledStays
<1>1. SUFFICES ASSUME NEW u \in Thread
               PROVE  /\ thread'[u].before \subseteq submitted'
                      /\ In(u, "drained")' => thread'[u].before \cap Unsettled' = {}
  BY DEF AsksWhatIsSubmitted, FlushDrained
<1>2. CASE thread'[u] = thread[u]
  BY <1>0, <1>2 DEF AsksWhatIsSubmitted, FlushDrained, In
<1>3. CASE thread'[u] # thread[u]
  <2>1. PICK t \in Thread : Submit(t) \/ Flush(t)
    BY <1>3 DEF Next, Run, Deliver, Close, LoopTest, GetFirst, GetTimesOut, GetMore, BatchIsFull, Unserialisable,
                SendSucceeds, SendRejected, SendFails, BackoffEnds, BackoffStopped, Settle
  <2>2. u = t
    BY <1>3, <2>1 DEF Submit, Flush, SubmitCount, SubmitPut, SubmitRefused, SubmitUncount, SubmitReads, SubmitDropped,
                      FlushBegins, FlushDrains, FlushTimesOut, FlushReturns, Goes, Typed
  <2>3. CASE FlushBegins(t) \/ FlushReturns(t)
    BY <1>0, <2>2, <2>3, RowAfterFlush DEF FlushBegins, FlushReturns, In
  <2>4. CASE FlushDrains(t)
    <3>1. thread'[u].before = thread[u].before /\ submitted' = submitted
      BY <2>2, <2>4 DEF FlushDrains, Goes, Typed
    <3>2. Unsettled = {}
      BY <2>4, NothingPending DEF FlushDrains
    <3> QED  BY <1>0, <3>1, <3>2 DEF AsksWhatIsSubmitted
  <2>5. CASE SubmitCount(t)
    BY <1>0, <2>2, <2>5 DEF SubmitCount, Typed, In, AsksWhatIsSubmitted
  <2>6. CASE SubmitPut(t) \/ SubmitDropped(t)
    <3>1. thread' = [thread EXCEPT ![t].place = "idle", ![t].event = NoEvent]
      BY <2>6 DEF SubmitPut, SubmitDropped
    <3>2. thread'[t].place = "idle" /\ thread'[t].before = thread[t].before
      BY <3>1, RowAfterSubmit
    <3> QED  BY <1>0, <2>2, <3>2 DEF In, AsksWhatIsSubmitted
  <2>7. CASE SubmitRefused(t) \/ SubmitUncount(t) \/ SubmitReads(t) \/ FlushTimesOut(t)
    BY <1>0, <2>2, <2>7, RowAfterGoes DEF SubmitRefused, SubmitUncount, SubmitReads, FlushTimesOut, In, AsksWhatIsSubmitted
  <2> QED  BY <2>1, <2>3, <2>4, <2>5, <2>6, <2>7 DEF Submit, Flush
<1> QED  BY <1>2, <1>3

-----------------------------------------------------------------------------
LEMMA Invariance == Spec => []IInv
<1>1. Init => IInv
  <2> SUFFICES ASSUME Init PROVE IInv
    OBVIOUS
  <2>1. Typed
    BY DEF Init, Typed, Row, ThreadPlaces, SenderPlaces, Counters, Empty, In
  <2>2. At({"counted", "refused"}) = {} /\ InHand = {}
    BY DEF Init, At, InHand
  <2>3. Counted = 0 /\ Held = 0 /\ Accepted = 0
    BY <2>2, FS_EmptySet DEF Init, Counted, Held, Accepted
  <2>4. pending = 0 /\ Queued = 0 /\ Batched = 0 /\ Open = 0 /\ Decided = 0
    BY DEF Init, Queued, Batched, Open, Undecided, Decided
  <2>5. AsksWhatIsSubmitted /\ FlushDrained
    BY DEF Init, AsksWhatIsSubmitted, FlushDrained, In
  <2>6. Understated
    <3>1. Dropping = {}
      BY DEF Init, Dropping
    <3> QED  BY <3>1, FS_EmptySet DEF Init, Understated, Unrecorded, In
  <2>7. Accounted
    BY <2>3, <2>4 DEF Init, Accounted
  <2> QED  BY <2>1, <2>3, <2>4, <2>5, <2>6, <2>7 DEF IInv, Balanced
<1>2. IInv /\ [Next]_vars => IInv'
  <2> SUFFICES ASSUME IInv, [Next]_vars PROVE IInv'
    OBVIOUS
  <2>1. CASE Next
    <3>1. Typed' /\ Balanced' /\ Accounted'
      BY <2>1, ThreadKeepsTyped, SenderKeepsTyped, ThreadKeepsSums, SenderKeepsSums DEF IInv, Next, ThreadStep
    <3>2. Understated'
      BY <2>1, <3>1, ThreadKeepsUnderstated, SenderKeepsUnderstated DEF IInv, Next, ThreadStep
    <3> QED  BY <2>1, <3>1, <3>2, FlushStaysDrained DEF IInv
  <2>2. CASE UNCHANGED vars
    <3>1. Typed' /\ Balanced' /\ Accounted'
      BY <2>2 DEF vars, IInv, Typed, Balanced, Accounted, In, Queued, Batched, Counted, Held, InHand, At, Accepted,
                  Open, Undecided, Decided
    <3>2. Understated' /\ AsksWhatIsSubmitted' /\ FlushDrained'
      BY <2>2 DEF vars, IInv, Understated, Unrecorded, Dropping, AsksWhatIsSubmitted, FlushDrained, In, Unsettled,
                  Undecided, Elements
    <3> QED  BY <3>1, <3>2 DEF IInv
  <2> QED  BY <2>1, <2>2
<1> QED  BY <1>1, <1>2, PTL DEF Spec

\* _pending is never off: it counts the queue, the batch and the events of the threads
\* in the middle of submit.
THEOREM PendingIsBalanced == Spec => []PendingBalance
<1>1. IInv => PendingBalance
  <2>1. Counting = At({"counted", "refused"})
    BY DEF Counting, At, In
  <2> QED  BY <2>1 DEF IInv, Balanced, PendingBalance, Queued, Batched, Counted
<1> QED  BY <1>1, Invariance, PTL

\* No event is counted twice, none vanishes, and dropped_full never says more than was
\* refused.
THEOREM EventsAreAccountedFor == Spec => []EventsAccountedFor
<1>1. IInv => EventsAccountedFor
  <2> SUFFICES ASSUME IInv PROVE EventsAccountedFor
    OBVIOUS
  <2>1. {t \in Thread : In(t, "counted")} = InHand
    BY DEF InHand, At, In
  <2>2. Accepted = Decided + refused + Queued + Open + Held /\ Typed
    BY DEF IInv, Accounted
  <2>3. stats.sent \in Int /\ stats.dropped_rejected \in Int /\ stats.dropped_failed \in Int
    BY <2>2 DEF Typed, Counters
  <2>4. Cardinality(submitted) =
          stats.sent + stats.dropped_rejected + stats.dropped_failed + refused
            + Len(queue) + (IF Undecided THEN Len(batch) ELSE 0)
            + Cardinality({t \in Thread : In(t, "counted")})
    BY <2>1, <2>2, <2>3, Sizes DEF Accepted, Decided, Queued, Open, Held
  <2>5. stats.dropped_full <= refused /\ (stats.dropped_full = 0 => refused = Cardinality(Dropping))
    BY <2>2, UnrecordedSize DEF IInv, Understated, Unrecorded
  <2> QED  BY <2>4, <2>5 DEF EventsAccountedFor
<1> QED  BY <1>1, Invariance, PTL

\* flush() returns True only when what was submitted before it has been sent or dropped.
THEOREM FlushIsDrained == Spec => []FlushDrained
<1>1. IInv => FlushDrained
  BY DEF IInv
<1> QED  BY <1>1, Invariance, PTL

-----------------------------------------------------------------------------
(***************************************************************************)
(* The client                                                              *)
(***************************************************************************)

Client == [open : BOOLEAN, orig : [Hook -> Int]]

Closed(c) == ~ clients[c].open /\ \A k \in Hook : clients[c].orig[k] = None

\* An open client's hooks are installed, and it remembers the application's.
Live(c) == clients[c].open /\ \A k \in Hook : clients[c].orig[k] = Application /\ hooks[k] = c

Untouched == \A k \in Hook : hooks[k] = Application

ClientTyped ==
  /\ clients \in Seq(Client)
  /\ hooks \in [Hook -> Int]
  /\ opener \in {"ready", "install", "publish", "forget"}
  /\ client \in {None} \cup DOMAIN clients

\* The client of the module is closed or, between calls, live.
CurrentClient ==
  client # None => Closed(client) \/ (opener = "ready" /\ Live(client))

\* Whose hooks are installed.
Installed ==
  \/ Untouched /\ opener # "publish" /\ (client # None => Closed(client))
  \/ opener = "ready" /\ client # None /\ Live(client)
  \/ opener = "publish" /\ Len(clients) # 0 /\ Live(Len(clients))

ClientIInv == ClientTyped /\ CurrentClient /\ Installed

hookVars == <<client, clients, hooks, opener>>

\* Closing the module's client puts the application's hooks back.
LEMMA UninstallRestores ==
  ASSUME ClientIInv, opener = "ready", client # None, Uninstall(client)
  PROVE  /\ clients' \in Seq(Client) /\ DOMAIN clients' = DOMAIN clients
         /\ hooks' \in [Hook -> Int]
         /\ Untouched'
         /\ ~ clients'[client].open /\ \A k \in Hook : clients'[client].orig[k] = None
<1>1. client \in DOMAIN clients /\ clients \in Seq(Client)
  BY DEF ClientIInv, ClientTyped
<1> DEFINE closed == [open |-> FALSE, orig |-> [k \in Hook |-> None]]
<1>2. closed \in Client
  BY DEF Client, None
<1>3. clients' = [clients EXCEPT ![client] = closed]
  BY DEF Uninstall
<1>4. clients' \in Seq(Client) /\ DOMAIN clients' = DOMAIN clients /\ clients'[client] = closed
  <2> HIDE DEF closed
  <2> QED  BY <1>1, <1>2, <1>3
<1>5. hooks' = [k \in Hook |-> IF clients[client].orig[k] = None THEN hooks[k] ELSE clients[client].orig[k]]
  BY DEF Uninstall
<1>6. Untouched'
  <2>1. CASE Live(client)
    BY <1>5, <2>1 DEF Live, Untouched, Application, None
  <2>2. CASE ~ Live(client)
    <3>1. Untouched /\ Closed(client)
      BY <2>2 DEF ClientIInv, Installed
    <3> QED  BY <1>5, <3>1 DEF Untouched, Closed
  <2> QED  BY <2>1, <2>2
<1>7. hooks' \in [Hook -> Int]
  <2>1. \A k \in Hook : hooks'[k] = Application
    BY <1>6 DEF Untouched
  <2> QED  BY <1>5, <2>1 DEF Application
<1> QED  BY <1>4, <1>6, <1>7

LEMMA OpenerKeepsIInv ==
  ASSUME ClientIInv,
         InitBegins \/ InitInstalls \/ InitFails \/ InitPublishes \/ CloseBegins \/ CloseForgets
  PROVE  ClientIInv'
<1>1. CASE InitBegins \/ CloseBegins
  <2>1. CASE client = None
    BY <1>1, <2>1 DEF InitBegins, CloseBegins, ClientIInv, ClientTyped, CurrentClient, Installed, Untouched
  <2>2. CASE client # None
    <3>1. opener = "ready" /\ Uninstall(client) /\ client' = client /\ opener' \in {"install", "forget"}
      BY <1>1, <2>2 DEF InitBegins, CloseBegins, Supersedes
    <3>2. Closed(client)'
      BY <2>2, <3>1, UninstallRestores DEF Closed
    <3> QED  BY <2>2, <3>1, <3>2, UninstallRestores DEF ClientIInv, ClientTyped, CurrentClient, Installed
  <2> QED  BY <2>1, <2>2
<1>2. CASE InitInstalls
  <2> DEFINE new == [open |-> TRUE, orig |-> hooks]
  <2>1. Untouched /\ (client # None => Closed(client))
    BY <1>2 DEF InitInstalls, ClientIInv, Installed
  <2>2. new \in Client /\ new.open /\ new.orig = hooks
    BY DEF ClientIInv, ClientTyped, Client
  <2>3. clients' = Append(clients, new) /\ opener' = "publish" /\ client' = client
        /\ hooks' = [k \in Hook |-> Len(clients) + 1]
    BY <1>2 DEF InitInstalls
  <2> HIDE DEF new
  <2>4. /\ clients' \in Seq(Client) /\ Len(clients') = Len(clients) + 1 /\ Len(clients') # 0
        /\ DOMAIN clients \subseteq DOMAIN clients'
        /\ clients'[Len(clients')] = new /\ \A i \in DOMAIN clients : clients'[i] = clients[i]
    BY <2>2, <2>3 DEF ClientIInv, ClientTyped
  <2>5. Live(Len(clients))'
    BY <2>1, <2>2, <2>3, <2>4 DEF Live, Untouched
  <2>6. ClientTyped'
    BY <2>3, <2>4 DEF ClientIInv, ClientTyped
  <2>7. client' # None => Closed(client)'
    BY <2>1, <2>3, <2>4 DEF ClientIInv, ClientTyped, Closed
  <2> QED  BY <2>3, <2>4, <2>5, <2>6, <2>7 DEF ClientIInv, CurrentClient, Installed
<1>3. CASE InitPublishes
  <2>1. Len(clients) # 0 /\ Live(Len(clients)) /\ clients \in Seq(Client)
    BY <1>3 DEF InitPublishes, ClientIInv, ClientTyped, Installed
  <2>2. Len(clients) \in DOMAIN clients
    BY <2>1
  <2>3. client' = Len(clients) /\ opener' = "ready" /\ UNCHANGED <<clients, hooks>>
    BY <1>3 DEF InitPublishes
  <2>4. Live(client)'
    BY <2>1, <2>3 DEF Live
  <2>5. client' # None
    BY <2>1, <2>3 DEF None
  <2> QED  BY <2>2, <2>3, <2>4, <2>5 DEF ClientIInv, ClientTyped, CurrentClient, Installed
<1>4. CASE InitFails \/ CloseForgets
  BY <1>4 DEF InitFails, CloseForgets, ClientIInv, ClientTyped, CurrentClient, Installed, Untouched, Closed, Live
<1> QED  BY <1>1, <1>2, <1>3, <1>4

LEMMA NextKeepsIInv ==
  ASSUME ClientIInv, [ClientNext]_clientVars
  PROVE  ClientIInv'
<1>1. CASE InitBegins \/ InitInstalls \/ InitFails \/ InitPublishes \/ CloseBegins \/ CloseForgets
  BY <1>1, OpenerKeepsIInv
<1>2. CASE UNCHANGED hookVars
  BY <1>2 DEF hookVars, ClientIInv, ClientTyped, CurrentClient, Installed, Untouched, Closed, Live
<1>3. ASSUME NEW c \in Contexts, Step(c) PROVE UNCHANGED hookVars
  BY <1>3 DEF Step, Note, BeginRequest, Looks, Captures, Fails, Dies, RunHook, PassOn, Reported, hookVars
<1>4. CASE UNCHANGED clientVars
  BY <1>4, <1>2 DEF clientVars, hookVars
<1> QED  BY <1>1, <1>2, <1>3, <1>4 DEF ClientNext

LEMMA InitIsIInv == ClientInit => ClientIInv
BY DEF ClientInit, ClientIInv, ClientTyped, CurrentClient, Installed, Untouched, Application, None

\* No hook outlives its client, and the application has its own hooks back when there is
\* no client, however often clients are opened, fail to open and are closed.
THEOREM HooksAreAlwaysRestored == ClientSpec => []HooksAreRestored
<1>1. ClientInit => ClientIInv
  BY InitIsIInv
<1>2. ClientIInv /\ [ClientNext]_clientVars => ClientIInv'
  BY NextKeepsIInv
<1>3. ClientIInv => HooksAreRestored
  <2> SUFFICES ASSUME ClientIInv PROVE HooksAreRestored
    OBVIOUS
  <2>1. Application \notin Clients
    BY DEF ClientIInv, ClientTyped, Clients, Application
  <2>2. ASSUME NEW k \in Hook, hooks[k] \in Clients PROVE clients[hooks[k]].open
    BY <2>1, <2>2 DEF ClientIInv, Installed, Untouched, Live
  <2>3. opener = "ready" /\ client = None => Untouched
    BY DEF ClientIInv, Installed
  <2> QED  BY <2>2, <2>3 DEF HooksAreRestored, Untouched
<1> QED  BY <1>1, <1>2, <1>3, PTL DEF ClientSpec

-----------------------------------------------------------------------------
(***************************************************************************)
(* Uncaught exceptions                                                     *)
(***************************************************************************)

Working(at, cl) == [at |-> at, client |-> cl]

Reporting(at, next, by, disturbed) == [at |-> at, next |-> next, by |-> by, disturbed |-> disturbed]

IsWorking(r) ==
  \E at \in {"unborn", "ready", "uses", "raised", "done"} : \E cl : r = Working(at, cl)

\* An exception that no close has disturbed is with the application's hook or with a
\* client that remembers it.
ReportIsOk(next, by, at) ==
  \/ next = Application /\ Len(by) <= 1 /\ at # "captured"
  \/ /\ next \in DOMAIN clients /\ \A k \in Hook : clients[next].orig[k] = Application
     /\ at # "dead" /\ Len(by) = IF at = "hook" THEN 0 ELSE 1

IsReporting(r) ==
  \E at \in {"hook", "captured", "dead"}, next \in Int, by \in Seq(Int), disturbed \in BOOLEAN :
    /\ r = Reporting(at, next, by, disturbed)
    /\ at = "captured" => next \in DOMAIN clients
    /\ ~ disturbed => ReportIsOk(next, by, at)

Reports == running = [c \in Contexts |-> running[c]] /\ \A c \in Contexts : IsWorking(running[c]) \/ IsReporting(running[c])

\* Closing a client disturbs every report under way.
LEMMA DisturbedReports ==
  ASSUME ClientIInv, Reports, running' = Disturbed, DOMAIN clients' = DOMAIN clients
  PROVE  Reports'
<1> SUFFICES ASSUME NEW c \in Contexts PROVE IsWorking(running'[c]) \/ IsReporting(running[c])'
  BY DEF Reports, Disturbed
<1>1. CASE IsWorking(running[c])
  <2>1. running[c].at \notin {"hook", "captured"}
    BY <1>1 DEF IsWorking, Working
  <2> QED  BY <1>1, <2>1 DEF Disturbed
<1>2. CASE IsReporting(running[c])
  <2> DEFINE old == running[c]
  <2>1. PICK at \in {"hook", "captured", "dead"}, next \in Int, by \in Seq(Int), disturbed \in BOOLEAN :
          /\ old = Reporting(at, next, by, disturbed)
          /\ at = "captured" => next \in DOMAIN clients
          /\ ~ disturbed => ReportIsOk(next, by, at)
    BY <1>2 DEF IsReporting
  <2>2. running'[c] = IF old.at \in {"hook", "captured"} THEN [old EXCEPT !.disturbed = TRUE] ELSE old
    BY DEF Disturbed
  <2> HIDE DEF old
  <2>3. CASE at = "dead"
    <3>1. running'[c] = Reporting(at, next, by, disturbed)
      BY <2>1, <2>2, <2>3 DEF Reporting
    <3>2. ~ disturbed => ReportIsOk(next, by, at)'
      BY <2>1, <2>3 DEF ReportIsOk
    <3> QED  BY <2>3, <3>1, <3>2 DEF IsReporting
  <2>4. CASE at # "dead"
    <3>1. running'[c] = Reporting(at, next, by, TRUE)
      BY <2>1, <2>2, <2>4 DEF Reporting
    <3> QED  BY <2>1, <3>1 DEF IsReporting
  <2> QED  BY <2>3, <2>4
<1> QED  BY <1>1, <1>2 DEF Reports

\* Opening a client leaves reports alone.
LEMMA ClientsGrow ==
  ASSUME Reports, running' = running,
         \A i \in DOMAIN clients : i \in DOMAIN clients' /\ clients'[i] = clients[i]
  PROVE  Reports'
<1>1. ASSUME NEW next, NEW by, NEW at, ReportIsOk(next, by, at)
      PROVE  ReportIsOk(next, by, at)'
  <2>1. CASE next = Application /\ Len(by) <= 1 /\ at # "captured"
    BY <2>1 DEF ReportIsOk
  <2>2. CASE ~ (next = Application /\ Len(by) <= 1 /\ at # "captured")
    <3>1. next \in DOMAIN clients /\ \A k \in Hook : clients[next].orig[k] = Application
      BY <1>1, <2>2 DEF ReportIsOk
    <3>2. next \in DOMAIN clients' /\ clients'[next] = clients[next]
      BY <3>1
    <3> QED  BY <1>1, <2>2, <3>1, <3>2 DEF ReportIsOk
  <2> QED  BY <2>1, <2>2
<1>2. \A c \in Contexts : IsReporting(running[c]) => IsReporting(running[c])'
  BY <1>1 DEF IsReporting
<1> QED  BY <1>2 DEF Reports

LEMMA OpenerKeepsReports ==
  ASSUME ClientIInv, Reports,
         InitBegins \/ InitInstalls \/ InitFails \/ InitPublishes \/ CloseBegins \/ CloseForgets
  PROVE  Reports'
<1>1. CASE InitBegins \/ CloseBegins
  <2>1. CASE client = None
    BY <1>1, <2>1, ClientsGrow DEF InitBegins, CloseBegins
  <2>2. CASE client # None
    <3>1. opener = "ready" /\ Uninstall(client) /\ running' = Disturbed
      BY <1>1, <2>2 DEF InitBegins, CloseBegins, Supersedes, Uninstall
    <3> QED  BY <2>2, <3>1, UninstallRestores, DisturbedReports
  <2> QED  BY <2>1, <2>2
<1>2. CASE InitInstalls
  <2> DEFINE new == [open |-> TRUE, orig |-> hooks]
  <2>1. new \in Client /\ clients' = Append(clients, new) /\ running' = running
    BY <1>2 DEF InitInstalls, ClientIInv, ClientTyped, Client
  <2> HIDE DEF new
  <2>2. \A i \in DOMAIN clients : i \in DOMAIN clients' /\ clients'[i] = clients[i]
    BY <2>1 DEF ClientIInv, ClientTyped
  <2> QED  BY <2>1, <2>2, ClientsGrow
<1>3. CASE InitFails \/ InitPublishes \/ CloseForgets
  BY <1>3, ClientsGrow DEF InitFails, InitPublishes, CloseForgets
<1> QED  BY <1>1, <1>2, <1>3

\* A step of one context.
LEMMA ContextKeepsReports ==
  ASSUME Reports, NEW c \in Contexts, NEW new, running' = [running EXCEPT ![c] = new],
         clients' = clients, IsWorking(new) \/ IsReporting(new)
  PROVE  Reports'
<1>1. \A r : IsReporting(r) => IsReporting(r)'
  BY DEF IsReporting, ReportIsOk
<1> QED  BY <1>1 DEF Reports

\* Which kind of work a context does.
LEMMA Kinds ==
  ASSUME NEW r
  PROVE  /\ IsWorking(r) => r.at \in {"unborn", "ready", "uses", "raised", "done"}
         /\ IsReporting(r) => r.at \in {"hook", "captured", "dead"}
BY DEF IsWorking, Working, IsReporting, Reporting

LEMMA WorkKeepsReports ==
  ASSUME ClientIInv, Reports, NEW c \in Contexts,
         Note(c) \/ BeginRequest(c) \/ Looks(c) \/ Captures(c) \/ Fails(c)
  PROVE  Reports'
<1>1. CASE Note(c)
  BY <1>1, ClientsGrow DEF Note
<1>2. CASE BeginRequest(c)
  <2>1. running' = [running EXCEPT ![c] = Working("ready", client)] /\ clients' = clients
    BY <1>2 DEF BeginRequest, Working
  <2>2. IsWorking(Working("ready", client))
    BY DEF IsWorking
  <2> QED  BY <2>1, <2>2, ContextKeepsReports
<1>3. CASE Looks(c) \/ Captures(c) \/ Fails(c)
  <2>1. PICK at \in {"ready", "uses", "raised", "done"} :
          running' = [running EXCEPT ![c].at = at] /\ clients' = clients
    BY <1>3 DEF Looks, Captures, Fails
  <2> DEFINE old == running[c]
             new == [old EXCEPT !.at = at]
  <2>2. running' = [running EXCEPT ![c] = new]
    BY <2>1 DEF Reports
  <2>3. IsWorking(old)
    <3>1. old.at \in {"ready", "uses"}
      BY <1>3 DEF Looks, Captures, Fails
    <3>2. IsWorking(old) \/ IsReporting(old)
      BY DEF Reports
    <3> HIDE DEF old
    <3> QED  BY <3>1, <3>2, Kinds
  <2>4. new = [old EXCEPT !.at = at]
    OBVIOUS
  <2> HIDE DEF old, new
  <2>5. IsWorking(new)
    <3>1. PICK was, cl : old = Working(was, cl)
      BY <2>3 DEF IsWorking
    <3>2. new = Working(at, cl)
      BY <2>4, <3>1 DEF Working
    <3> QED  BY <3>2 DEF IsWorking
  <2> QED  BY <2>1, <2>2, <2>5, ContextKeepsReports
<1> QED  BY <1>1, <1>2, <1>3

LEMMA ReportKeepsReports ==
  ASSUME ClientIInv, Reports, NEW c \in Contexts,
         Dies(c) \/ RunHook(c) \/ PassOn(c) \/ Reported(c)
  PROVE  Reports'
<1> DEFINE old == running[c]
<1>0. HookOf(c) \in Hook
  BY DEF HookOf, Hook
<1>1. CASE Dies(c)
  <2> DEFINE next == hooks[HookOf(c)]
  <2>1. running' = [running EXCEPT ![c] = Reporting("hook", next, <<>>, FALSE)] /\ clients' = clients
    BY <1>1 DEF Dies, Reporting
  <2>2. next \in Int
    BY <1>0 DEF ClientIInv, ClientTyped
  <2>3. ReportIsOk(next, <<>>, "hook")
    <3>1. CASE next = Application
      BY <3>1 DEF ReportIsOk
    <3>2. CASE next # Application
      <4>1. PICK i \in DOMAIN clients : Live(i)
        BY <1>0, <3>2 DEF ClientIInv, ClientTyped, Installed, Untouched
      <4> QED  BY <1>0, <4>1 DEF ReportIsOk, Live
    <3> QED  BY <3>1, <3>2
  <2> HIDE DEF next
  <2>4. <<>> \in Seq(Int)
    OBVIOUS
  <2>5. IsReporting(Reporting("hook", next, <<>>, FALSE))
    BY <2>2, <2>3, <2>4 DEF IsReporting
  <2> QED  BY <2>1, <2>5, ContextKeepsReports
<1>2. CASE RunHook(c) \/ PassOn(c) \/ Reported(c)
  <2>1. IsReporting(old) /\ clients' = clients
    <3>1. old.at \in {"hook", "captured"} /\ clients' = clients
      BY <1>2 DEF RunHook, PassOn, Reported
    <3>2. IsWorking(old) \/ IsReporting(old)
      BY DEF Reports
    <3> HIDE DEF old
    <3> QED  BY <3>1, <3>2, Kinds
  <2>2. PICK at \in {"hook", "captured", "dead"}, next \in Int, by \in Seq(Int), disturbed \in BOOLEAN :
          /\ old = Reporting(at, next, by, disturbed)
          /\ at = "captured" => next \in DOMAIN clients
          /\ ~ disturbed => ReportIsOk(next, by, at)
    BY <2>1 DEF IsReporting
  <2>3. old.at = at /\ old.next = next /\ old.by = by
    <3> HIDE DEF old
    <3> QED  BY <2>2 DEF Reporting
  <2>4. CASE RunHook(c)
    <3> DEFINE new == [old EXCEPT !.at = "captured", !.by = Append(by, next)]
    <3>1. running' = [running EXCEPT ![c] = new] /\ at = "hook" /\ next \in DOMAIN clients
      BY <2>3, <2>4 DEF RunHook, Reports, Clients
    <3>2. new = [old EXCEPT !.at = "captured", !.by = Append(by, next)]
      OBVIOUS
    <3>3. next \in Int /\ Append(by, next) \in Seq(Int) /\ Len(Append(by, next)) = Len(by) + 1 /\ next # Application
      BY <3>1 DEF ClientIInv, ClientTyped, Application
    <3> HIDE DEF old, new
    <3>4. new = Reporting("captured", next, Append(by, next), disturbed)
      BY <2>2, <3>2 DEF Reporting
    <3>5. ~ disturbed => ReportIsOk(next, Append(by, next), "captured")
      BY <2>2, <3>1, <3>3 DEF ReportIsOk
    <3>6. IsReporting(new)
      BY <3>1, <3>3, <3>4, <3>5 DEF IsReporting
    <3> QED  BY <2>1, <3>1, <3>6, ContextKeepsReports
  <2>5. CASE PassOn(c)
    <3> DEFINE before == clients[next].orig[HookOf(c)]
               to == IF before = None THEN Nobody ELSE before
               new == [old EXCEPT !.next = to, !.at = "hook"]
    <3>1. running' = [running EXCEPT ![c] = new] /\ at = "captured"
      BY <2>3, <2>5 DEF PassOn, Reports
    <3>2. new = [old EXCEPT !.next = to, !.at = "hook"]
      OBVIOUS
    <3> HIDE DEF old, new
    <3>3. ~ disturbed => (to = Application /\ Len(by) <= 1)
      <4> SUFFICES ASSUME ~ disturbed PROVE to = Application /\ Len(by) <= 1
        OBVIOUS
      <4>1. ReportIsOk(next, by, "captured")
        BY <2>2, <3>1
      <4>2. before = Application /\ Len(by) = 1
        BY <1>0, <4>1 DEF ReportIsOk
      <4> QED  BY <4>2 DEF Application, None
    <3>4. to \in Int
      <4>1. next \in DOMAIN clients /\ clients \in Seq(Client)
        BY <2>2, <3>1 DEF ClientIInv, ClientTyped
      <4>2. clients[next].orig \in [Hook -> Int]
        <5>1. clients[next] \in Client
          BY <4>1
        <5> QED  BY <5>1 DEF Client
      <4>3. before \in Int
        BY <1>0, <4>2
      <4> HIDE DEF before
      <4> QED  BY <4>3 DEF Nobody
    <3> HIDE DEF to
    <3>5. new = Reporting("hook", to, by, disturbed)
      BY <2>2, <3>2 DEF Reporting
    <3>6. ~ disturbed => ReportIsOk(to, by, "hook")
      BY <3>3 DEF ReportIsOk
    <3>7. IsReporting(new)
      BY <3>4, <3>5, <3>6 DEF IsReporting
    <3> QED  BY <2>1, <3>1, <3>7, ContextKeepsReports
  <2>6. CASE Reported(c)
    <3> DEFINE new == [old EXCEPT !.at = "dead"]
    <3>1. running' = [running EXCEPT ![c] = new] /\ at = "hook" /\ next \notin DOMAIN clients
      BY <2>3, <2>6 DEF Reported, Reports, Clients
    <3>2. new = [old EXCEPT !.at = "dead"]
      OBVIOUS
    <3> HIDE DEF old, new
    <3>3. new = Reporting("dead", next, by, disturbed)
      BY <2>2, <3>2 DEF Reporting
    <3>4. ~ disturbed => ReportIsOk(next, by, "dead")
      BY <2>2, <3>1 DEF ReportIsOk
    <3>5. IsReporting(new)
      BY <3>3, <3>4 DEF IsReporting
    <3> QED  BY <2>1, <3>1, <3>5, ContextKeepsReports
  <2> QED  BY <1>2, <2>4, <2>5, <2>6
<1> QED  BY <1>1, <1>2

\* An uncaught exception is captured by one client at most and reaches the application's
\* own hook, unless a client is closed while it is being reported.
THEOREM UncaughtIsAlwaysReportedOnce == ClientSpec => []UncaughtIsReportedOnce
<1>1. ClientInit => ClientIInv /\ Reports
  <2> SUFFICES ASSUME ClientInit PROVE Reports
    BY InitIsIInv
  <2>1. running = [c \in Contexts |-> running[c]]
    BY DEF ClientInit
  <2>2. ASSUME NEW c \in Contexts PROVE IsWorking(running[c])
    <3>1. running[c] = Working("ready", None) \/ running[c] = Working("unborn", None)
      BY DEF ClientInit, Ready, Working
    <3> QED  BY <3>1 DEF IsWorking
  <2> QED  BY <2>1, <2>2 DEF Reports
<1>2. ClientIInv /\ Reports /\ [ClientNext]_clientVars => (ClientIInv /\ Reports)'
  <2> SUFFICES ASSUME ClientIInv, Reports, [ClientNext]_clientVars PROVE Reports'
    BY NextKeepsIInv
  <2>1. CASE InitBegins \/ InitInstalls \/ InitFails \/ InitPublishes \/ CloseBegins \/ CloseForgets
    BY <2>1, OpenerKeepsReports
  <2>2. ASSUME NEW c \in Contexts, Step(c) PROVE Reports'
    BY <2>2, WorkKeepsReports, ReportKeepsReports DEF Step
  <2>3. CASE UNCHANGED clientVars
    BY <2>3, ClientsGrow DEF clientVars
  <2> QED  BY <2>1, <2>2, <2>3 DEF ClientNext
<1>3. Reports => UncaughtIsReportedOnce
  <2> SUFFICES ASSUME Reports, NEW c \in Contexts, running[c].at = "dead", ~ running[c].disturbed
               PROVE  running[c].next = Application /\ Len(running[c].by) <= 1
    BY DEF UncaughtIsReportedOnce
  <2> DEFINE r == running[c]
  <2>1. r.at = "dead" /\ ~ r.disturbed /\ (IsWorking(r) \/ IsReporting(r))
    BY DEF Reports
  <2> HIDE DEF r
  <2>2. IsReporting(r)
    BY <2>1, Kinds
  <2>3. PICK at \in {"hook", "captured", "dead"}, next \in Int, by \in Seq(Int), disturbed \in BOOLEAN :
          /\ r = Reporting(at, next, by, disturbed)
          /\ ~ disturbed => ReportIsOk(next, by, at)
    BY <2>2 DEF IsReporting
  <2>4. at = "dead" /\ ~ disturbed /\ r.next = next /\ r.by = by
    BY <2>1, <2>3 DEF Reporting
  <2>5. next = Application /\ Len(by) <= 1
    BY <2>3, <2>4 DEF ReportIsOk
  <2>6. r.next = Application /\ Len(r.by) <= 1
    BY <2>4, <2>5
  <2> QED  BY <2>6 DEF r
<1> QED  BY <1>1, <1>2, <1>3, PTL DEF ClientSpec

-----------------------------------------------------------------------------
(***************************************************************************)
(* Scopes                                                                  *)
(***************************************************************************)

\* A context has the scope it has made itself or none, a scope the breadcrumbs its own
\* context left, and an event the breadcrumbs of the context it comes from.
ScopesAreOwn ==
  /\ scope = [c \in Contexts |-> scope[c]] /\ \A c \in Contexts : scope[c] \in {NoScope, c}
  /\ scopes = [c \in Contexts |-> scopes[c]] /\ \A c \in Contexts : scopes[c] \in Seq({c})
  /\ events \in Seq([context : Contexts, crumbs : Seq(Contexts)])
  /\ \A n \in DOMAIN events : events[n].crumbs \in Seq({events[n].context})

\* Leaving a breadcrumb in one's own scope: a part of what was there with one more.
LEMMA NotedIsOwn ==
  ASSUME ScopesAreOwn, NEW c \in Contexts
  PROVE  /\ Noted(c, scopes, c) = [d \in Contexts |-> Noted(c, scopes, c)[d]]
         /\ \A d \in Contexts : Noted(c, scopes, c)[d] \in Seq({d})
<1> DEFINE old == scopes[c]
           more == Append(old, c)
           from == Max({1, Len(old) + 2 - MaxBreadcrumbs})
           new == SubSeq(more, from, Len(old) + 1)
<1>1. scopes = [d \in Contexts |-> scopes[d]] /\ old \in Seq({c})
  BY DEF ScopesAreOwn
<1>2. Noted(c, scopes, c) = [scopes EXCEPT ![c] = new]
  BY <1>1 DEF Noted
<1> HIDE DEF old
<1>3. more \in Seq({c}) /\ Len(more) = Len(old) + 1 /\ Len(old) \in Nat
  BY <1>1
<1>4. from \in 1 .. Len(old) + 1
  <2> DEFINE n == Len(old) + 2 - MaxBreadcrumbs
             top == IF n >= 1 THEN n ELSE 1
  <2>1. n \in Int /\ n <= Len(old) + 1
    BY <1>3, SdkAssumption
  <2> HIDE DEF n
  <2>2. top \in {1, n} /\ \A y \in {1, n} : top >= y
    BY <2>1
  <2>3. from \in {1, n} /\ \A y \in {1, n} : from >= y
    BY <2>2 DEF Max, n
  <2> QED  BY <1>3, <2>1, <2>3
<1> HIDE DEF more, from
<1>5. new \in Seq({c})
  BY <1>3, <1>4
<1> HIDE DEF new
<1> QED  BY <1>1, <1>2, <1>5 DEF ScopesAreOwn

LEMMA FinishKeepsScopes ==
  ASSUME ScopesAreOwn, NEW c \in Contexts, Finish(c), scopes' = scopes
  PROVE  ScopesAreOwn'
<1>1. ScopeOf(c) = c
  BY DEF ScopesAreOwn, ScopeOf
<1>2. scope' = [d \in Contexts |-> scope'[d]] /\ \A d \in Contexts : scope'[d] \in {NoScope, d}
  BY <1>1 DEF Finish, ScopesAreOwn
<1>3. CASE events' = events
  BY <1>2, <1>3 DEF ScopesAreOwn
<1>4. CASE events' = Append(events, EventOf(c))
  <2> DEFINE e == EventOf(c)
  <2>1. e = [context |-> c, crumbs |-> scopes[c]] /\ scopes[c] \in Seq({c})
    BY <1>1 DEF EventOf, ScopesAreOwn
  <2>2. scopes[c] \in Seq(Contexts)
    BY <2>1
  <2>3. e \in [context : Contexts, crumbs : Seq(Contexts)] /\ e.crumbs \in Seq({e.context})
    BY <2>1, <2>2
  <2> HIDE DEF e
  <2>4. /\ events' \in Seq([context : Contexts, crumbs : Seq(Contexts)])
        /\ \A n \in DOMAIN events' : events'[n] = e \/ (n \in DOMAIN events /\ events'[n] = events[n])
    BY <1>4, <2>3 DEF ScopesAreOwn, e
  <2>5. \A n \in DOMAIN events' : events'[n].crumbs \in Seq({events'[n].context})
    BY <2>3, <2>4 DEF ScopesAreOwn
  <2> QED  BY <1>2, <2>4, <2>5 DEF ScopesAreOwn
<1> QED  BY <1>3, <1>4 DEF Finish

LEMMA StepKeepsScopes ==
  ASSUME ScopesAreOwn, NEW c \in Contexts, Step(c)
  PROVE  ScopesAreOwn'
<1>1. ScopeOf(c) = c
  BY DEF ScopesAreOwn, ScopeOf
<1>2. CASE Note(c) \/ BeginRequest(c)
  <2>1. scope' = [scope EXCEPT ![c] = c] /\ events' = events
        /\ (scopes' = scopes \/ scopes' = Noted(c, scopes, c))
    BY <1>1, <1>2 DEF Note, BeginRequest, RequestScope
  <2> QED  BY <2>1, NotedIsOwn DEF ScopesAreOwn
<1>3. CASE UNCHANGED <<scope, scopes, events>>
  BY <1>3 DEF ScopesAreOwn
<1>4. CASE Finish(c) /\ scopes' = scopes
  BY <1>4, FinishKeepsScopes
<1>5. CASE Looks(c) \/ Captures(c) \/ Fails(c) \/ Dies(c) \/ RunHook(c) \/ PassOn(c) \/ Reported(c)
  BY <1>3, <1>4, <1>5 DEF Looks, Captures, Fails, Dies, RunHook, PassOn, Reported
<1> QED  BY <1>2, <1>5 DEF Step

\* An event of a request has the breadcrumbs of that request only, and no other event has
\* them, for any number of requests and threads and whatever they were started from.
THEOREM RequestsAreAlwaysIsolated == ClientSpec => []RequestsAreIsolated
<1>1. ClientInit => ScopesAreOwn
  BY DEF ClientInit, ScopesAreOwn
<1>2. ScopesAreOwn /\ [ClientNext]_clientVars => ScopesAreOwn'
  <2> SUFFICES ASSUME ScopesAreOwn, [ClientNext]_clientVars PROVE ScopesAreOwn'
    OBVIOUS
  <2>1. CASE UNCHANGED <<scope, scopes, events>>
    BY <2>1 DEF ScopesAreOwn
  <2>2. CASE InitBegins \/ InitInstalls \/ InitFails \/ InitPublishes \/ CloseBegins \/ CloseForgets
    BY <2>1, <2>2 DEF InitBegins, InitInstalls, InitFails, InitPublishes, CloseBegins, CloseForgets
  <2>3. ASSUME NEW c \in Contexts, Step(c) PROVE ScopesAreOwn'
    BY <2>3, StepKeepsScopes
  <2> QED  BY <2>1, <2>2, <2>3 DEF ClientNext, clientVars
<1>3. ScopesAreOwn => RequestsAreIsolated
  <2> SUFFICES ASSUME ScopesAreOwn, NEW n \in DOMAIN events, NEW b \in ToSet(events[n].crumbs)
               PROVE  b = events[n].context
    BY DEF RequestsAreIsolated
  <2>1. events[n].crumbs \in Seq({events[n].context})
    BY DEF ScopesAreOwn
  <2> QED  BY <2>1 DEF ToSet
<1> QED  BY <1>1, <1>2, <1>3, PTL DEF ClientSpec
=============================================================================
