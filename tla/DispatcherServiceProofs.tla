----------------------- MODULE DispatcherServiceProofs -----------------------
(***************************************************************************)
(* Proofs of what the event service promises: events that were removed do  *)
(* not run, no dispatcher with events is forgotten, no wake-up is lost.    *)
(***************************************************************************)
EXTENDS DispatcherQueueProofs

-----------------------------------------------------------------------------
(***************************************************************************)
(* Events that were removed.                                               *)
(***************************************************************************)

\* Why an event that was removed does not run: it is not queued, and who has it in hand
\* cannot queue it again, because it is not continuous, its dispatcher is destroyed or the
\* test of the flag is behind that thread
RemovedEvent(e) ==
    /\ removed[e] \in {"quiet", "running", "again"} => ~event[e].continuous
    /\ removed[e] \in {"quiet", "again"} => ~Queued(e)
    /\ removed[e] = "quiet" =>
          /\ event[e].dispatcher = Nobody
          /\ \A t \in Threads : thread[t].e = e => thread[t].d \in destroyed
    /\ removed[e] = "again" => \A t \in Threads : thread[t].e = e => thread[t].pc # "requeue"
    /\ removed[e] # "after"

RemovedInv == \A e \in Events : RemovedEvent(e)

\* Nothing happens to e
LEMMA RemovedSame ==
    ASSUME NEW e \in Events, RemovedEvent(e),
           removed'[e] = removed[e],
           event'[e].continuous = event[e].continuous,
           event'[e].dispatcher = event[e].dispatcher,
           Queued(e)' => Queued(e),
           destroyed \subseteq destroyed',
           \A t \in Threads : thread'[t].e = e =>
               /\ thread[t].e = e /\ thread'[t].d = thread[t].d
               /\ thread'[t].pc = "requeue" => thread[t].pc = "requeue" \/ event[e].continuous
    PROVE  RemovedEvent(e)'
<1>1. removed'[e] \in {"quiet", "running", "again"} => ~event'[e].continuous
  BY DEF RemovedEvent
<1>2. removed'[e] \in {"quiet", "again"} => ~Queued(e)'
  BY DEF RemovedEvent
<1>3. removed'[e] = "quiet" =>
        /\ event'[e].dispatcher = Nobody
        /\ \A t \in Threads : thread'[t].e = e => thread'[t].d \in destroyed'
  BY DEF RemovedEvent
<1>4. removed'[e] = "again" => \A t \in Threads : thread'[t].e = e => thread'[t].pc # "requeue"
  BY DEF RemovedEvent
<1>5. removed'[e] # "after"
  BY DEF RemovedEvent
<1> QED
  BY <1>1, <1>2, <1>3, <1>4, <1>5 DEF RemovedEvent

LEMMA RemovedQuiet ==
    ASSUME Queueing, RemovedInv, Quiet PROVE RemovedInv'
<1>1. /\ QuietHands /\ UNCHANGED <<eventQ, destroyed, removed>>
      /\ event' \in {event, Forward(event)}
  BY QuietEffect DEF Queueing
<1>2. TypeOK /\ InHand
  BY DEF Queueing
<1> SUFFICES ASSUME NEW e \in Events PROVE RemovedEvent(e)'
  BY DEF RemovedInv
<1>3. event'[e].continuous = event[e].continuous /\ event'[e].dispatcher = event[e].dispatcher
  BY <1>1, <1>2, TimePasses
<1>4. \A t \in Threads : thread'[t].e = e => thread'[t] = thread[t]
  BY <1>1, <1>2, NobodyAssumed DEF QuietHands, InHand
<1>5. Queued(e)' => Queued(e)
  BY <1>1 DEF Queued
<1> QED
  BY <1>1, <1>3, <1>4, <1>5, RemovedSame DEF RemovedInv

LEMMA RemovedCreate ==
    ASSUME Queueing, RemovedInv, NEW e \in Events, NEW d \in Dispatchers,
           NEW period \in 0..MaxPeriod, NEW continuous \in BOOLEAN,
           mprCreateEvent(e, d, period, continuous)
    PROVE  RemovedInv'
<1>1. ~event[e].created /\ UNCHANGED <<destroyed, thread, removed>>
  BY DEF mprCreateEvent
<1>2. removed[e] = "no"
  BY <1>1 DEF Queueing, InHand
<1>3. /\ \A y \in Dispatchers : y # d => eventQ'[y] = eventQ[y]
      /\ \A x : x \in Range(eventQ'[d]) <=> x \in Range(eventQ[d]) \/ x = e
      /\ \A x \in Events : x # e => /\ event'[x].dispatcher = event[x].dispatcher
                                    /\ event'[x].continuous = event[x].continuous
  BY CreateKeeps
<1> SUFFICES ASSUME NEW x \in Events PROVE RemovedEvent(x)'
  BY DEF RemovedInv
<1>4. CASE x = e
  BY <1>1, <1>2, <1>4 DEF RemovedEvent
<1>5. CASE x # e
  <2>1. Queued(x)' => Queued(x)
    BY <1>3, <1>5 DEF Queued
  <2> QED
    BY <1>1, <1>3, <1>5, <2>1, RemovedSame DEF RemovedInv
<1> QED
  BY <1>4, <1>5

LEMMA RemovedRemove ==
    ASSUME Queueing, RemovedInv, NEW e \in Events, mprRemoveEvent(e) PROVE RemovedInv'
<1>0. event \in [Events -> EventRecord] /\ removed \in [Events -> RemovedStates]
  BY TypeFacts DEF Queueing
<1>1. /\ removed' = [removed EXCEPT ![e] = IF Running(e) THEN "running" ELSE "quiet"]
      /\ UNCHANGED <<destroyed, thread>>
  BY DEF mprRemoveEvent
<1>2. /\ \A x \in Events : /\ event'[x].dispatcher = Unlinked(e)[x].dispatcher
                           /\ event'[x].continuous = Unlinked(e)[x].continuous
      /\ \A y \in Dispatchers :
            \A x : x \in Range(eventQ'[y]) <=> x \in Range(eventQ[y]) /\ x # e
  BY RemoveKeeps
<1>3. /\ event'[e].dispatcher = Nobody /\ event'[e].continuous = FALSE
      /\ \A x \in Events : x # e => /\ event'[x].dispatcher = event[x].dispatcher
                                    /\ event'[x].continuous = event[x].continuous
  BY <1>0, <1>2, UnlinkedProps
<1> SUFFICES ASSUME NEW x \in Events PROVE RemovedEvent(x)'
  BY DEF RemovedInv
<1>4. CASE x = e
  <2>1. removed'[e] = IF Running(e) THEN "running" ELSE "quiet"
    BY <1>0, <1>1
  <2>2. ~Queued(e)'
    BY <1>2 DEF Queued
  <2>3. ~Running(e) => \A t \in Threads : thread'[t].e # e
    BY <1>1 DEF Running
  <2> QED
    BY <1>3, <1>4, <2>1, <2>2, <2>3 DEF RemovedEvent
<1>5. CASE x # e
  <2>1. Queued(x)' => Queued(x)
    BY <1>2 DEF Queued
  <2>2. removed'[x] = removed[x]
    BY <1>0, <1>1, <1>5
  <2> QED
    BY <1>1, <1>3, <1>5, <2>1, <2>2, RemovedSame DEF RemovedInv
<1> QED
  BY <1>4, <1>5

LEMMA RemovedEnable ==
    ASSUME Queueing, RemovedInv, NEW e \in Events, NEW enable \in BOOLEAN,
           mprEnableContinuousEvent(e, enable)
    PROVE  RemovedInv'
<1>0. removed \in [Events -> RemovedStates]
  BY TypeFacts DEF Queueing
<1>1. removed' = [removed EXCEPT ![e] = IF enable THEN "no" ELSE removed[e]]
  BY DEF mprEnableContinuousEvent
<1>2. /\ UNCHANGED <<eventQ, destroyed, thread>>
      /\ \A x \in Events :
            /\ event'[x].dispatcher = event[x].dispatcher
            /\ event'[x].continuous = IF x = e THEN enable ELSE event[x].continuous
  BY EnableKeeps
<1> SUFFICES ASSUME NEW x \in Events PROVE RemovedEvent(x)'
  BY DEF RemovedInv
<1>3. Queued(x)' <=> Queued(x)
  BY <1>2 DEF Queued
<1>4. CASE x = e /\ enable
  <2>1. removed'[x] = "no"
    BY <1>0, <1>1, <1>4
  <2> QED
    BY <2>1 DEF RemovedEvent
<1>5. CASE x = e /\ ~enable
  <2>1. removed'[x] = removed[x] /\ event'[x].continuous = FALSE
    BY <1>0, <1>1, <1>2, <1>5
  <2>2. RemovedEvent(x)
    BY DEF RemovedInv
  <2> QED
    BY <1>2, <1>3, <2>1, <2>2 DEF RemovedEvent
<1>6. CASE x # e
  <2>1. removed'[x] = removed[x]
    BY <1>0, <1>1, <1>6
  <2> QED
    BY <1>2, <1>3, <1>6, <2>1, RemovedSame DEF RemovedInv
<1> QED
  BY <1>4, <1>5, <1>6

LEMMA RemovedReschedule ==
    ASSUME Queueing, RemovedInv, NEW t \in Threads, NEW period \in 0..MaxPeriod,
           mprRescheduleEvent(t, period)
    PROVE  RemovedInv'
<1>0. removed \in [Events -> RemovedStates]
  BY TypeFacts DEF Queueing
<1>1. removed' = [removed EXCEPT ![thread[t].e] = "no"] /\ UNCHANGED <<destroyed, thread>>
  BY DEF mprRescheduleEvent
<1>2. /\ thread[t].e \in Events
      /\ \A x \in Events : /\ event'[x].dispatcher = event[x].dispatcher
                           /\ event'[x].continuous = event[x].continuous
      /\ \A y \in Dispatchers : \A x \in Events :
            x # thread[t].e => (x \in Range(eventQ'[y]) <=> x \in Range(eventQ[y]))
  BY RescheduleKeeps
<1> SUFFICES ASSUME NEW x \in Events PROVE RemovedEvent(x)'
  BY DEF RemovedInv
<1>3. CASE x = thread[t].e
  <2>1. removed'[x] = "no"
    BY <1>0, <1>1, <1>2, <1>3
  <2> QED
    BY <2>1 DEF RemovedEvent
<1>4. CASE x # thread[t].e
  <2>1. removed'[x] = removed[x]
    BY <1>0, <1>1, <1>4
  <2>2. Queued(x)' => Queued(x)
    BY <1>2, <1>4 DEF Queued
  <2> QED
    BY <1>1, <1>2, <2>1, <2>2, RemovedSame DEF RemovedInv
<1> QED
  BY <1>3, <1>4

LEMMA RemovedDestroy ==
    ASSUME Queueing, RemovedInv, NEW d \in Dispatchers, mprDestroyDispatcher(d)
    PROVE  RemovedInv'
<1>0. InHand /\ EventsHome
  BY DEF Queueing
<1>1. /\ removed' = [e \in Events |-> IF e \in Range(eventQ[d]) THEN "quiet" ELSE removed[e]]
      /\ destroyed' = destroyed \cup {d} /\ UNCHANGED thread
  BY DEF mprDestroyDispatcher
<1>2. /\ \A x \in Events :
            /\ event'[x].dispatcher =
                   IF x \in Range(eventQ[d]) THEN Nobody ELSE event[x].dispatcher
            /\ event'[x].continuous =
                   IF x \in Range(eventQ[d]) THEN FALSE ELSE event[x].continuous
      /\ \A y \in Dispatchers : eventQ'[y] = IF y = d THEN <<>> ELSE eventQ[y]
  BY DestroyKeeps
<1> SUFFICES ASSUME NEW x \in Events PROVE RemovedEvent(x)'
  BY DEF RemovedInv
<1>3. CASE x \in Range(eventQ[d])
  <2>1. removed'[x] = "quiet" /\ event'[x].dispatcher = Nobody /\ event'[x].continuous = FALSE
    BY <1>1, <1>2, <1>3
  <2>2. event[x].dispatcher = d
    BY <1>0, <1>3 DEF EventsHome
  <2>3. ~Queued(x)'
    <3> SUFFICES ASSUME NEW y \in Dispatchers, x \in Range(eventQ'[y]) PROVE FALSE
      BY DEF Queued
    <3>1. y # d /\ x \in Range(eventQ[y])
      BY <1>2 DEF Range
    <3> QED
      BY <1>0, <2>2, <3>1 DEF EventsHome
  <2>4. \A t \in Threads : thread'[t].e = x => thread'[t].d \in destroyed'
    BY <1>0, <1>1, <2>2, NobodyAssumed DEF InHand
  <2> QED
    BY <2>1, <2>3, <2>4 DEF RemovedEvent
<1>4. CASE x \notin Range(eventQ[d])
  <2>1. Queued(x)' => Queued(x)
    BY <1>2 DEF Queued, Range
  <2> QED
    BY <1>1, <1>2, <1>4, <2>1, RemovedSame DEF RemovedInv
<1> QED
  BY <1>3, <1>4

\* An event that is about to run is queued, so it was not removed for good; one that was
\* removed while it ran is in the hands of the thread that takes it now, and of no other
LEMMA RemovedGetNext ==
    ASSUME Queueing, RemovedInv, NEW t \in Threads, mprGetNextEvent(t) PROVE RemovedInv'
<1>0. OwnershipTypes /\ InHand /\ removed \in [Events -> RemovedStates]
  BY TypeFacts DEF Queueing
<1>1. /\ UNCHANGED <<destroyed, event>>
      /\ \/ Goes(t, thread[t].back) /\ UNCHANGED <<eventQ, removed>>
         \/ \E e \in Events : Taken(t, e)
  BY GetNextKeeps
<1>2. thread[t].pc = "next"
  BY DEF mprGetNextEvent
<1>3. CASE Goes(t, thread[t].back) /\ UNCHANGED <<eventQ, removed>>
  <2>1. /\ \A u \in Threads : u # t => thread'[u] = thread[u]
        /\ thread'[t].e = thread[t].e
    BY <1>0, <1>3, Going
  <2>2. thread[t].e \notin Events
    BY <1>0, <1>2 DEF InHand, Handling
  <2> SUFFICES ASSUME NEW x \in Events PROVE RemovedEvent(x)'
    BY DEF RemovedInv
  <2>3. Queued(x)' => Queued(x)
    BY <1>3 DEF Queued
  <2> QED
    BY <1>1, <1>3, <2>1, <2>2, <2>3, RemovedSame DEF RemovedInv
<1>4. ASSUME NEW e \in Events, Taken(t, e) PROVE RemovedInv'
  <2>1. thread[t].d \in Dispatchers
    BY <1>2 DEF Queueing, Ownership, RunnerOwns, Dispatching
  <2>2. Queued(e) /\ RemovedEvent(e)
    BY <1>4, <2>1 DEF Taken, Queued, RemovedInv
  <2>3. removed[e] \in {"no", "running"}
    BY <1>0, <2>2 DEF RemovedEvent, RemovedStates
  <2>4. /\ removed'[e] = IF removed[e] = "running" THEN "again" ELSE "no"
        /\ \A x \in Events : x # e => removed'[x] = removed[x]
    BY <1>0, <1>4, <2>3 DEF Taken, RunsRemoved, RemovedStates
  <2> SUFFICES ASSUME NEW x \in Events PROVE RemovedEvent(x)'
    BY DEF RemovedInv
  <2>5. /\ \A u \in Threads : u # t => thread'[u] = thread[u] /\ thread[u].e # e
        /\ thread'[t].pc = "proc" /\ thread'[t].e = e
        /\ \A y \in Dispatchers :
              \A z : z \in Range(eventQ'[y]) <=> z \in Range(eventQ[y]) /\ z # e
    BY <1>4 DEF Taken
  <2>6. CASE x = e
    <3>1. ~Queued(e)'
      BY <2>5 DEF Queued
    <3>2. \A u \in Threads : thread'[u].e = e => thread'[u].pc # "requeue"
      BY <2>5
    <3> QED
      BY <1>1, <2>2, <2>3, <2>4, <2>6, <3>1, <3>2 DEF RemovedEvent
  <2>7. CASE x # e
    <3>1. Queued(x)' => Queued(x)
      BY <2>5 DEF Queued
    <3> QED
      BY <1>1, <2>4, <2>5, <2>7, <3>1, RemovedSame DEF RemovedInv
  <2> QED
    BY <2>6, <2>7
<1> QED
  BY <1>1, <1>3, <1>4

\* The flag is tested when the callback has returned: what was removed is not kept
LEMMA RemovedHasRun ==
    ASSUME Queueing, RemovedInv, NEW t \in Threads, ProcReturns(t) \/ EventHasRun(t)
    PROVE  RemovedInv'
<1>0. OwnershipTypes /\ InHand
  BY TypeFacts DEF Queueing
<1>1. UNCHANGED <<eventQ, event, destroyed, removed>>
  BY HasRunKeeps
<1>2. \/ Goes(t, "ran")
      \/ Goes(t, "requeue") /\ event[thread[t].e].continuous
      \/ \E pc \in {"count", thread[t].back} :
            thread' = [thread EXCEPT ![t].pc = pc, ![t].e = Nobody]
  BY DEF ProcReturns, EventHasRun
<1>3. /\ \A u \in Threads : u # t => thread'[u] = thread[u]
      /\ thread'[t].d = thread[t].d
      /\ \/ thread'[t].pc = "ran" /\ thread'[t].e = thread[t].e
         \/ /\ thread'[t].pc = "requeue" /\ thread'[t].e = thread[t].e
            /\ event[thread[t].e].continuous
         \/ thread'[t].e = Nobody
  BY <1>0, <1>2, Going, PuttingDown
<1> SUFFICES ASSUME NEW x \in Events PROVE RemovedEvent(x)'
  BY DEF RemovedInv
<1>4. Queued(x)' => Queued(x)
  BY <1>1 DEF Queued
<1> QED
  BY <1>1, <1>3, <1>4, NobodyAssumed, RemovedSame DEF RemovedInv

\* An event that is queued again was not removed, or while it ran for the first time
LEMMA RemovedRequeue ==
    ASSUME Queueing, RemovedInv, NEW t \in Threads, Requeue(t) PROVE RemovedInv'
<1>0. OwnershipTypes /\ InHand
  BY TypeFacts DEF Queueing
<1>1. /\ thread[t].pc = "requeue" /\ UNCHANGED destroyed
      /\ thread' = [thread EXCEPT ![t].pc = "count", ![t].e = Nobody]
  BY DEF Requeue
<1>2. /\ \A u \in Threads : u # t => thread'[u] = thread[u]
      /\ thread'[t].e = Nobody
  BY <1>0, <1>1, PuttingDown
<1>3. /\ thread[t].e \in Events
      /\ UNCHANGED removed
      /\ \A x \in Events :
            /\ x # thread[t].e => event'[x].dispatcher = event[x].dispatcher
            /\ event'[x].continuous = event[x].continuous
      /\ \A y \in Dispatchers : \A x \in Events :
            x # thread[t].e => (x \in Range(eventQ'[y]) <=> x \in Range(eventQ[y]))
      /\ thread[t].d \in destroyed => UNCHANGED eventQ
      /\ thread[t].d \in destroyed =>
            event'[thread[t].e].dispatcher = event[thread[t].e].dispatcher
  BY RequeueKeeps
<1> SUFFICES ASSUME NEW x \in Events PROVE RemovedEvent(x)'
  BY DEF RemovedInv
<1>4. CASE x # thread[t].e \/ thread[t].d \in destroyed
  <2>1. Queued(x)' => Queued(x)
    BY <1>3, <1>4 DEF Queued
  <2>2. event'[x].dispatcher = event[x].dispatcher
    BY <1>3, <1>4
  <2>3. \A u \in Threads : thread'[u].e = x => thread'[u] = thread[u]
    BY <1>2, NobodyAssumed
  <2>4. /\ removed'[x] = removed[x] /\ destroyed \subseteq destroyed'
        /\ event'[x].continuous = event[x].continuous
    BY <1>1, <1>3
  <2>5. RemovedEvent(x)
    BY DEF RemovedInv
  <2> QED
    BY <2>1, <2>2, <2>3, <2>4, <2>5, RemovedSame
<1>5. CASE x = thread[t].e /\ thread[t].d \notin destroyed
  <2>1. RemovedEvent(x)
    BY DEF RemovedInv
  <2>2. removed[x] # "quiet" /\ removed[x] # "again"
    BY <1>1, <1>5, <2>1 DEF RemovedEvent
  <2> QED
    BY <1>3, <1>5, <2>1, <2>2 DEF RemovedEvent
<1> QED
  BY <1>4, <1>5

LEMMA RemovedStep == Queueing /\ RemovedInv /\ [Next]_vars => RemovedInv'
<1> SUFFICES ASSUME Queueing, RemovedInv, [Next]_vars PROVE RemovedInv'
  OBVIOUS
<1>1. CASE UNCHANGED vars
  <2> SUFFICES ASSUME NEW x \in Events PROVE RemovedEvent(x)'
    BY DEF RemovedInv
  <2>1. UNCHANGED <<eventQ, event, destroyed, removed, thread>>
    BY <1>1 DEF vars
  <2>2. Queued(x)' => Queued(x)
    BY <2>1 DEF Queued
  <2> QED
    BY <2>1, <2>2, RemovedSame DEF RemovedInv
<1>2. CASE Tick \/ \E e \in Events : DispatcherIsNull(e)
  <2> SUFFICES ASSUME NEW x \in Events PROVE RemovedEvent(x)'
    BY DEF RemovedInv
  <2>1. UNCHANGED <<eventQ, event, destroyed, removed, thread>>
    BY <1>2 DEF Tick, DispatcherIsNull, dispVars
  <2>2. Queued(x)' => Queued(x)
    BY <2>1 DEF Queued
  <2> QED
    BY <2>1, <2>2, RemovedSame DEF RemovedInv
<1>3. CASE Next
  <2>1. TypeOK
    BY DEF Queueing
  <2> QED
    BY <1>2, <1>3, <2>1, NextCases, RemovedCreate, RemovedRemove, RemovedEnable,
       RemovedReschedule, RemovedDestroy, RemovedGetNext, RemovedHasRun, RemovedRequeue,
       RemovedQuiet
<1> QED
  BY <1>1, <1>3

LEMMA RemovedInit == Init => RemovedInv
<1> SUFFICES ASSUME Init, NEW e \in Events PROVE RemovedEvent(e)
  BY DEF RemovedInv
<1>1. removed[e] = "no"
  BY DEF Init
<1> QED
  BY <1>1 DEF RemovedEvent

\* For any dispatchers, workers and events: an event that mprRemoveEvent has removed does
\* not run any more - at most once, when it was running and dispatchEvents had tested its
\* continuous flag already - however the threads interleave.
THEOREM RemovalHolds == Spec => []RemovedStaysRemoved
<1>1. RemovedInv => RemovedStaysRemoved
  BY DEF RemovedInv, RemovedEvent, RemovedStaysRemoved
<1> QED
  BY <1>1, RemovedInit, RemovedStep, QueueingInvariant, PTL DEF Spec

-----------------------------------------------------------------------------
(***************************************************************************)
(* Workers and their work.                                                 *)
(***************************************************************************)

\* Only App calls dispatchEvents for itself; a worker that was given work is busy and has
\* not begun, and one that is not busy rests: it can be given work without losing any
WorkInv ==
    /\ \A t \in Threads : t # App => thread[t].back = "release"
    /\ \A w \in Workers : job[w] # Nobody => worker[w] = "busy" /\ thread[w].pc \in Resting
    /\ \A w \in Workers : worker[w] # "busy" => thread[w].pc \in Resting

LEMMA WorkMoves ==
    ASSUME WorkInv, UNCHANGED <<job, worker>>, NEW t \in Threads,
           \A u \in Threads : u # t => thread'[u] = thread[u],
           t # App => thread'[t].back \in {thread[t].back, "release"},
           t \in Workers => (thread'[t].pc \in Resting <=> thread[t].pc \in Resting)
    PROVE  WorkInv'
<1>1. \A u \in Threads : u # App => thread'[u].back = "release"
  BY DEF WorkInv
<1>2. \A w \in Workers : thread'[w].pc \in Resting <=> thread[w].pc \in Resting
  BY ThreadsDistinct
<1> QED
  BY <1>1, <1>2 DEF WorkInv

LEMMA WorkGoes ==
    ASSUME Queueing, WorkInv, UNCHANGED <<job, worker>>, NEW t \in Threads,
           t \in Workers => thread[t].pc \notin Resting,
           \/ \E pc : Goes(t, pc) /\ pc \notin Resting
           \/ \E pc : /\ thread' = [thread EXCEPT ![t].pc = pc, ![t].e = Nobody]
                      /\ pc \notin Resting
           \/ Leaves(t)
           \/ \E d, back : Enters(t, d, back) /\ (t # App => back = "release")
    PROVE  WorkInv'
<1>0. OwnershipTypes
  BY TypeFacts DEF Queueing
<1>1. /\ \A u \in Threads : u # t => thread'[u] = thread[u]
      /\ t # App => thread'[t].back \in {thread[t].back, "release"}
      /\ thread'[t].pc \notin Resting
  <2>1. ASSUME NEW pc, Goes(t, pc), pc \notin Resting PROVE <1>1!:
    BY <1>0, <2>1, Going
  <2>2. ASSUME NEW pc, pc \notin Resting,
               thread' = [thread EXCEPT ![t].pc = pc, ![t].e = Nobody]
        PROVE  <1>1!:
    BY <1>0, <2>2, PuttingDown, ZenonT(40)
  <2>3. ASSUME Leaves(t) PROVE <1>1!:
    BY <1>0, <2>3, Leaving DEF Resting
  <2>4. ASSUME NEW d, NEW back, Enters(t, d, back), t # App => back = "release" PROVE <1>1!:
    BY <1>0, <2>4, Entering DEF Resting
  <2> QED
    BY <2>1, <2>2, <2>3, <2>4
<1> QED
  BY <1>1, WorkMoves

LEMMA WorkDispatch ==
    ASSUME Queueing, WorkInv, NEW t \in Threads, dispatchEvents(t) \/ HelperEnds(t)
    PROVE  WorkInv'
<1>1. OwnershipTypes /\ thread[t].back \notin Resting
  BY TypeFacts DEF Queueing, OwnershipTypes, ThreadRecord, Callers, Resting
<1>2. UNCHANGED <<job, worker>> /\ thread[t].pc \notin Resting
  BY DEF dispatchEvents, mprGetNextEvent, ProcReturns, EventHasRun, Requeue, Count, HelperEnds,
         releaseDispatcher, HelperDequeues, HelperSchedules, HelperWakes, workVars, Resting
<1>3. CASE mprGetNextEvent(t)
  <2>1. \/ Goes(t, thread[t].back)
        \/ \E e \in Events : Taken(t, e)
    BY <1>3, GetNextKeeps
  <2>2. ASSUME NEW e \in Events, Taken(t, e) PROVE WorkInv'
    <3>1. /\ \A u \in Threads : u # t => thread'[u] = thread[u]
          /\ thread'[t].back = thread[t].back /\ thread'[t].pc \notin Resting
      BY <2>2 DEF Taken, Resting
    <3> QED
      BY <1>2, <3>1, WorkMoves
  <2> QED
    BY <1>1, <1>2, <2>1, <2>2, WorkGoes
<1>4. CASE ProcReturns(t) \/ EventHasRun(t)
  <2>1. \/ \E pc : Goes(t, pc) /\ pc \notin Resting
        \/ \E pc : /\ thread' = [thread EXCEPT ![t].pc = pc, ![t].e = Nobody]
                   /\ pc \notin Resting
    BY <1>1, <1>4 DEF ProcReturns, EventHasRun, Resting
  <2> QED
    BY <1>2, <2>1, WorkGoes
<1>5. CASE Requeue(t)
  <2>1. thread' = [thread EXCEPT ![t].pc = "count", ![t].e = Nobody]
    BY <1>5 DEF Requeue
  <2>2. "count" \notin Resting
    BY DEF Resting
  <2> QED
    BY <1>2, <2>1, <2>2, WorkGoes
<1>6. CASE HelperEnds(t)
  <2>1. (\E pc \in {"dequeue", "schedule", "wake"} : Goes(t, pc)) \/ Leaves(t)
    BY <1>6 DEF HelperEnds, releaseDispatcher, HelperDequeues, HelperSchedules, HelperWakes
  <2>2. \A pc \in {"dequeue", "schedule", "wake"} : pc \notin Resting
    BY DEF Resting
  <2> QED
    BY <1>2, <2>1, <2>2, WorkGoes
<1>7. CASE Count(t)
  <2>1. /\ \A u \in Threads : u # t => thread'[u] = thread[u]
        /\ thread'[t].back = thread[t].back /\ thread'[t].pc = "next"
    BY <1>1, <1>7, Counting
  <2> QED
    BY <1>2, <2>1, WorkMoves DEF Resting
<1> QED
  BY <1>3, <1>4, <1>5, <1>6, <1>7 DEF dispatchEvents

LEMMA WorkWorker ==
    ASSUME Queueing, WorkInv, NEW w \in Workers, workerMain(w) PROVE WorkInv'
<1>0. OwnershipTypes /\ w \in Threads /\ w # App
  BY TypeFacts, ThreadsDistinct DEF Queueing
<1>1. CASE WorkerStarts(w)
  <2>1. /\ worker[w] = "busy" /\ UNCHANGED worker
        /\ job' = [job EXCEPT ![w] = Nobody]
        /\ Leaves(w) \/ \E d : Enters(w, d, "release")
    BY <1>1 DEF WorkerStarts, dispatchEventsHelper
  <2>2. /\ \A u \in Threads : u # w => thread'[u] = thread[u]
        /\ thread'[w].back = "release"
    BY <1>0, <2>1, Leaving, Entering
  <2>3. job'[w] = Nobody /\ \A v \in Workers : v # w => job'[v] = job[v]
    BY <1>0, <2>1 DEF OwnershipTypes
  <2> QED
    BY <2>1, <2>2, <2>3, ThreadsDistinct DEF WorkInv
<1>2. CASE WorkerLeaves(w)
  <2>1. /\ worker' = [worker EXCEPT ![w] = "idle"] /\ UNCHANGED job
        /\ thread[w].pc = "leave" /\ Goes(w, "pending")
    BY <1>2 DEF WorkerLeaves
  <2>2. /\ \A u \in Threads : u # w => thread'[u] = thread[u]
        /\ thread'[w].back = thread[w].back /\ thread'[w].pc \in Resting
    BY <1>0, <2>1, Going DEF Resting
  <2>3. job[w] = Nobody /\ \A v \in Workers : v # w => worker'[v] = worker[v]
    BY <1>0, <2>1 DEF WorkInv, Resting, OwnershipTypes
  <2> QED
    BY <1>0, <2>1, <2>2, <2>3, ThreadsDistinct DEF WorkInv
<1>3. CASE mprWakePendingDispatchers(w) \/ WakePending(w)
  <2>1. /\ UNCHANGED <<job, worker>> /\ thread[w].pc \in Resting
        /\ Goes(w, "poke") \/ Goes(w, "sleep")
    BY <1>3 DEF mprWakePendingDispatchers, WakePending, workVars, Resting
  <2>2. /\ \A u \in Threads : u # w => thread'[u] = thread[u]
        /\ thread'[w].back = thread[w].back /\ thread'[w].pc \in Resting
    BY <1>0, <2>1, Going DEF Resting
  <2> QED
    BY <1>0, <2>1, <2>2, WorkMoves
<1>4. CASE WorkerExits(w)
  <2>1. /\ worker[w] = "pruned" /\ worker' = [worker EXCEPT ![w] = "none"]
        /\ UNCHANGED <<thread, job>> /\ thread[w].pc \in Resting
    BY <1>4 DEF WorkerExits, Resting
  <2>2. \A v \in Workers : v # w => worker'[v] = worker[v]
    BY <2>1, <1>0 DEF OwnershipTypes
  <2>3. job[w] = Nobody
    BY <2>1 DEF WorkInv
  <2> QED
    BY <2>1, <2>2, <2>3 DEF WorkInv
<1> QED
  BY <1>1, <1>2, <1>3, <1>4 DEF workerMain

\* Where the service's own steps take it
ServicePlaces == {"top", "get", "start", "pend", "idle", "io", "now", "prune"}

\* The service gives work to a worker that is not busy, so that has none; and prunes those
LEMMA WorkService ==
    ASSUME Queueing, WorkInv, ServiceLoop PROVE WorkInv'
<1>0. OwnershipTypes /\ Service \in Threads /\ Service \notin Workers /\ Service # App
  BY TypeFacts, ThreadsDistinct DEF Queueing
<1>1. CASE mprStartWorker
  <2>1. CASE Goes(Service, "failed") /\ UNCHANGED <<job, worker>>
    <3>1. \E pc : Goes(Service, pc) /\ pc \notin Resting
      BY <2>1 DEF Resting
    <3> QED
      BY <1>0, <2>1, <3>1, WorkGoes
  <2>2. ASSUME NEW w \in Candidates, worker' = [worker EXCEPT ![w] = "busy"],
               job' = [job EXCEPT ![w] = thread[Service].d],
               thread' = [thread EXCEPT ![Service].pc = "get", ![Service].d = Nobody]
        PROVE  WorkInv'
    <3>1. w \in Workers /\ worker[w] # "busy"
      BY DEF Candidates, InState
    <3>2. /\ \A u \in Threads : u # Service => thread'[u] = thread[u]
          /\ thread'[Service].back = thread[Service].back
      BY <1>0, <2>2, Serving
    <3>3. /\ worker'[w] = "busy" /\ thread'[w].pc \in Resting
          /\ \A v \in Workers : v # w => worker'[v] = worker[v] /\ job'[v] = job[v]
      BY <1>0, <2>2, <3>1, <3>2, ThreadsDistinct DEF OwnershipTypes, WorkInv
    <3>4. \A v \in Workers : thread'[v] = thread[v]
      BY <3>2, ThreadsDistinct
    <3>5. \A t \in Threads : t # App => thread'[t].back = "release"
      BY <1>0, <3>2 DEF WorkInv
    <3> QED
      BY <3>1, <3>3, <3>4, <3>5 DEF WorkInv
  <2> QED
    BY <1>1, <2>1, <2>2 DEF mprStartWorker, workVars
<1>2. CASE pruneWorkers
  <2>1. PICK old \in SUBSET InState("idle") :
            worker' = [w \in Workers |-> IF w \in old THEN "pruned" ELSE worker[w]]
    BY <1>2 DEF pruneWorkers
  <2>2. Goes(Service, "get") /\ UNCHANGED job
    BY <1>2 DEF pruneWorkers
  <2>3. /\ \A u \in Threads : u # Service => thread'[u] = thread[u]
        /\ thread'[Service].back = thread[Service].back
    BY <1>0, <2>2, Going
  <2>4. \A t \in Threads : t # App => thread'[t].back = "release"
    BY <1>0, <2>3 DEF WorkInv
  <2>5. \A v \in Workers : /\ thread'[v] = thread[v]
                           /\ worker'[v] = "busy" <=> worker[v] = "busy"
    BY <2>1, <2>3, ThreadsDistinct DEF InState
  <2> QED
    BY <2>2, <2>4, <2>5 DEF WorkInv
<1>3. CASE getNextReadyDispatcher
  <2>1. /\ UNCHANGED <<job, worker>>
        /\ \/ Goes(Service, "check")
           \/ \E d : thread' = [thread EXCEPT ![Service].pc = "claimed", ![Service].d = d]
    BY <1>3 DEF getNextReadyDispatcher, workVars
  <2>2. /\ \A u \in Threads : u # Service => thread'[u] = thread[u]
        /\ thread'[Service].back = thread[Service].back
    BY <1>0, <2>1, Going, Serving
  <2> QED
    BY <1>0, <2>1, <2>2, WorkMoves
<1>4. CASE QueuePending
  <2>1. /\ UNCHANGED <<job, worker>>
        /\ thread' = [thread EXCEPT ![Service].pc = "check", ![Service].d = Nobody]
    BY <1>4 DEF QueuePending, workVars
  <2>2. /\ \A u \in Threads : u # Service => thread'[u] = thread[u]
        /\ thread'[Service].back = thread[Service].back
    BY <1>0, <2>1, Serving
  <2> QED
    BY <1>0, <2>1, <2>2, WorkMoves
<1>5. CASE \/ mprServiceEvents \/ RunClaimed \/ StartFailed \/ CheckCount \/ getIdleTicks
           \/ mprWaitForIO \/ PruneTimerDue \/ ReadClock
  <2>1. /\ UNCHANGED <<job, worker>>
        /\ \/ \E pc \in ServicePlaces : Goes(Service, pc)
           \/ Leaves(Service)
           \/ Enters(Service, thread[Service].d, "release")
    BY <1>5 DEF mprServiceEvents, RunClaimed, dispatchEventsHelper, StartFailed, CheckCount,
                getIdleTicks, mprWaitForIO, PruneTimerDue, ReadClock, workVars, ServicePlaces
  <2>2. \A pc \in ServicePlaces : pc \notin Resting
    BY DEF ServicePlaces, Resting
  <2> QED
    BY <1>0, <2>1, <2>2, WorkGoes
<1> QED
  BY <1>1, <1>2, <1>3, <1>4, <1>5 DEF ServiceLoop

LEMMA WorkApp ==
    ASSUME Queueing, WorkInv, AppLoop PROVE WorkInv'
<1>0. OwnershipTypes /\ App \in Threads /\ App \notin Workers
  BY TypeFacts, ThreadsDistinct DEF Queueing
<1>1. /\ UNCHANGED <<job, worker>>
      /\ \/ \E pc \in {"app", "cond", "wait"} : Goes(App, pc)
         \/ \E d \in Dispatchers \cup {thread[App].d}, back \in {"looked", "tried"} :
               Enters(App, d, back)
  BY DEF AppLoop, mprWaitForEvent, AppLooked, AppTried, CondReturns, WaitReturns, workVars
<1>2. \A pc \in {"app", "cond", "wait"} : pc \notin Resting
  BY DEF Resting
<1> QED
  BY <1>0, <1>1, <1>2, WorkGoes

LEMMA WorkStep == Queueing /\ WorkInv /\ [Next]_vars => WorkInv'
<1> SUFFICES ASSUME Queueing, WorkInv, [Next]_vars PROVE WorkInv'
  OBVIOUS
<1>1. CASE UNCHANGED <<thread, job, worker>>
  BY <1>1 DEF WorkInv
<1>2. CASE Application \/ Tick \/ UNCHANGED vars
  <2>1. UNCHANGED <<thread, job, worker>>
    BY <1>2 DEF Application, mprCreateEvent, mprRemoveEvent, mprEnableContinuousEvent,
                mprRescheduleEvent, DispatcherIsNull, mprDestroyDispatcher, Tick, workVars, vars
  <2> QED
    BY <1>1, <2>1
<1> QED
  BY <1>2, WorkDispatch, WorkWorker, WorkService, WorkApp DEF Next

LEMMA WorkInit == Init => WorkInv
BY ThreadsDistinct DEF Init, WorkInv, Resting

-----------------------------------------------------------------------------
(***************************************************************************)
(* Dispatchers with events.                                                *)
(***************************************************************************)

\* A thread is at one of these places with d, or a worker or App has it
Tended(d, places) ==
    \/ \E t \in Threads : thread[t].d = d /\ thread[t].pc \in places
    \/ \E w \in Workers : job[w] = d
    \/ owner[d] = App

\* From when a dispatcher is put on the runQ to when it is taken off, ...
InService == Dispatching \cup {"start", "failed", "pend", "dequeue"}

\* ... and to when it is scheduled again
Tending == InService \cup {"schedule"}

\* Whoever schedules a dispatcher leaves one on the runQ alone, in the trust that somebody
\* has it; an events queue that is not empty is on a queue the service looks at, or in hand
ServedOne(d) ==
    /\ On("run", d) => Tended(d, InService)
    /\ eventQ[d] # <<>> => \/ On("ready", d) \/ On("wait", d) \/ On("pending", d)
                           \/ Tended(d, Tending)

ServedInv == \A d \in Dispatchers \ destroyed : ServedOne(d)

\* What is in hand stays so
StillTended(d) ==
    /\ Tended(d, InService) => Tended(d, InService)'
    /\ Tended(d, Tending) => Tended(d, Tending)'

LEMMA TendedMore == ASSUME NEW d, Tended(d, InService)' PROVE Tended(d, Tending)'
BY DEF Tended, Tending

LEMMA ServedSame ==
    ASSUME NEW d, ServedOne(d), StillTended(d),
           \A q \in QueueNames : On(q, d)' <=> On(q, d),
           eventQ'[d] # <<>> => eventQ[d] # <<>>
    PROVE  ServedOne(d)'
<1>1. {"run", "ready", "wait", "pending"} \subseteq QueueNames
  BY DEF QueueNames
<1> QED
  BY <1>1 DEF ServedOne, StillTended

LEMMA HandsRest ==
    ASSUME UNCHANGED <<thread, job, owner>>, NEW d PROVE StillTended(d)
BY DEF StillTended, Tended

\* A thread moves on: it keeps its dispatcher in hand, or App owns that
LEMMA HandsGo ==
    ASSUME NEW t \in Threads, UNCHANGED job, NEW d,
           \A u \in Threads : u # t => thread'[u] = thread[u],
           owner[d] = App => owner'[d] = App,
           thread[t].d = d /\ thread[t].pc \in Tending =>
               \/ owner'[d] = App
               \/ /\ thread'[t].d = d /\ thread'[t].pc \in Tending
                  /\ thread[t].pc \in InService => thread'[t].pc \in InService
    PROVE  StillTended(d)
<1>1. ASSUME Tended(d, InService) PROVE Tended(d, InService)'
  <2>1. CASE \E u \in Threads : u # t /\ thread[u].d = d /\ thread[u].pc \in InService
    BY <2>1 DEF Tended
  <2>2. CASE thread[t].d = d /\ thread[t].pc \in InService
    BY <2>2 DEF Tended, Tending
  <2>3. CASE \E w \in Workers : job[w] = d
    BY <2>3 DEF Tended
  <2>4. CASE owner[d] = App
    BY <2>4 DEF Tended
  <2> QED
    BY <1>1, <2>1, <2>2, <2>3, <2>4 DEF Tended
<1>2. ASSUME Tended(d, Tending) PROVE Tended(d, Tending)'
  <2>1. CASE \E u \in Threads : u # t /\ thread[u].d = d /\ thread[u].pc \in Tending
    BY <2>1 DEF Tended
  <2>2. CASE thread[t].d = d /\ thread[t].pc \in Tending
    BY <2>2 DEF Tended
  <2>3. CASE \E w \in Workers : job[w] = d
    BY <2>3 DEF Tended
  <2>4. CASE owner[d] = App
    BY <2>4 DEF Tended
  <2> QED
    BY <1>2, <2>1, <2>2, <2>3, <2>4 DEF Tended
<1> QED
  BY <1>1, <1>2 DEF StillTended

\* mprScheduleDispatcher: one that is running is left to who has it, one with events goes
\* to the readyQ or the waitQ
LEMMA ServedSchedules ==
    ASSUME Queueing, ServedInv, NEW d \in Dispatchers, NEW q, NEW evs, NEW counts,
           Schedules(d, q, evs, counts), eventQ' = [eventQ EXCEPT ![d] = q],
           UNCHANGED destroyed,
           \A x \in Dispatchers : x # d => StillTended(x),
           Tended(d, InService) => Tended(d, InService)'
    PROVE  ServedInv'
<1>0. /\ queues \in [QueueNames -> Seq(Dispatchers)] /\ QueuesDistinct
      /\ eventQ \in [Dispatchers -> Seq(Events)]
  BY TypeFacts DEF Queueing
<1> SUFFICES ASSUME NEW x \in Dispatchers, x \notin destroyed PROVE ServedOne(x)'
  BY DEF ServedInv
<1>1. ServedOne(x)
  BY DEF ServedInv
<1>2. CASE x # d
  <2>1. eventQ'[x] = eventQ[x]
    BY <1>0, <1>2
  <2>2. \/ UNCHANGED queues
        \/ \E name \in QueueNames : queues' = queueDispatcher(name, d)
    BY TargetName DEF Schedules
  <2>3. \A r \in QueueNames : On(r, x)' <=> On(r, x)
    <3>1. ASSUME UNCHANGED queues PROVE <2>3!:
      BY <3>1 DEF On
    <3>2. ASSUME NEW name \in QueueNames, queues' = queueDispatcher(name, d) PROVE <2>3!:
      <4>1. \A r \in QueueNames : x \in Range(queues'[r]) <=> On(r, x)
        BY <1>0, <1>2, <3>2, QueueProps
      <4> QED
        BY <4>1 DEF On
    <3> QED
      BY <2>2, <3>1, <3>2
  <2> QED
    BY <1>1, <1>2, <2>1, <2>3, ServedSame
<1>3. CASE x = d /\ On("run", d)
  <2>1. Tended(d, InService)'
    BY <1>1, <1>3 DEF ServedOne
  <2> QED
    BY <1>3, <2>1, TendedMore DEF ServedOne
<1>4. CASE x = d /\ ~On("run", d)
  <2> DEFINE name == Target(d, q, evs)
  <2>1. queues' = queueDispatcher(name, d) /\ name \in QueueNames
    BY <1>4, TargetName DEF Schedules, isRunning
  <2>2. name # "run" /\ (q # <<>> => name \in {"wait", "ready"})
    BY DEF Target
  <2> HIDE DEF name
  <2>3. \A r \in QueueNames : d \in Range(queues'[r]) <=> r = name
    BY <1>0, <2>1, QueueProps
  <2>4. eventQ'[d] = q
    BY <1>0
  <2>5. {"run", "ready", "wait"} \subseteq QueueNames
    BY DEF QueueNames
  <2> QED
    BY <1>4, <2>2, <2>3, <2>4, <2>5 DEF ServedOne, On
<1> QED
  BY <1>2, <1>3, <1>4

LEMMA ServedQueueEvent ==
    ASSUME Queueing, ServedInv, NEW d \in Dispatchers, NEW e, NEW evs,
           mprQueueEvent(d, e, evs), UNCHANGED destroyed,
           \A x \in Dispatchers : StillTended(x)
    PROVE  ServedInv'
<1>1. CASE d \in destroyed
  <2>1. UNCHANGED <<queues, eventQ>>
    BY <1>1 DEF mprQueueEvent
  <2> QED
    BY <2>1, ServedSame DEF ServedInv, On
<1>2. CASE d \notin destroyed
  <2> DEFINE q == Insert(Without(eventQ[d], e), e, evs)
             evs2 == [evs EXCEPT ![e].dispatcher = d]
  <2>1. eventQ' = [eventQ EXCEPT ![d] = q] /\ Schedules(d, q, evs2, TRUE)
    BY <1>2 DEF mprQueueEvent, mprScheduleDispatcher
  <2> HIDE DEF q, evs2
  <2> QED
    BY <2>1, ServedSchedules DEF StillTended
<1> QED
  BY <1>1, <1>2

LEMMA ServedApplication ==
    ASSUME Queueing, ServedInv,
           \/ \E e \in Events, d \in Dispatchers, period \in 0..MaxPeriod,
                 continuous \in BOOLEAN : mprCreateEvent(e, d, period, continuous)
           \/ \E e \in Events : mprRemoveEvent(e)
           \/ \E e \in Events, enable \in BOOLEAN : mprEnableContinuousEvent(e, enable)
           \/ \E t \in Threads, period \in 0..MaxPeriod : mprRescheduleEvent(t, period)
           \/ \E d \in Dispatchers : mprDestroyDispatcher(d)
    PROVE  ServedInv'
<1>0. \A x \in Dispatchers : StillTended(x)
  <2>1. UNCHANGED <<thread, job, owner>>
    BY DEF mprCreateEvent, mprRemoveEvent, mprEnableContinuousEvent, mprRescheduleEvent,
           mprDestroyDispatcher, workVars, dispVars
  <2> QED
    BY <2>1, HandsRest
<1>1. /\ queues \in [QueueNames -> Seq(Dispatchers)] /\ QueuesDistinct
      /\ eventQ \in [Dispatchers -> Seq(Events)]
      /\ event \in [Events -> EventRecord]
  BY TypeFacts DEF Queueing
<1>2. ASSUME NEW e \in Events, NEW d \in Dispatchers, NEW period, NEW continuous,
             mprCreateEvent(e, d, period, continuous)
      PROVE  ServedInv'
  <2>1. UNCHANGED destroyed /\ \E evs : mprQueueEvent(d, e, evs)
    BY <1>2 DEF mprCreateEvent
  <2> QED
    BY <1>0, <2>1, ServedQueueEvent
<1>3. ASSUME NEW t \in Threads, NEW period, mprRescheduleEvent(t, period) PROVE ServedInv'
  <2> DEFINE e == thread[t].e
             d == event[e].dispatcher
  <2>1. /\ UNCHANGED destroyed /\ d # Nobody /\ thread[t].pc = "proc"
        /\ \E evs : mprQueueEvent(d, e, evs)
    BY <1>3 DEF mprRescheduleEvent
  <2>2. e \in Events
    BY <2>1 DEF Queueing, InHand, Handling
  <2>3. d \in Dispatchers
    BY <1>1, <2>1, <2>2 DEF EventRecord
  <2> HIDE DEF d, e
  <2> QED
    BY <1>0, <2>1, <2>3, ServedQueueEvent
<1>4. ASSUME NEW e \in Events, mprRemoveEvent(e) PROVE ServedInv'
  <2> DEFINE d == event[e].dispatcher
             q == Without(eventQ[d], e)
  <2>1. /\ UNCHANGED destroyed /\ d # Nobody
        /\ eventQ' = [eventQ EXCEPT ![d] = q]
        /\ \/ Schedules(d, q, Unlinked(e), FALSE)
           \/ UNCHANGED queues
    BY <1>4 DEF mprRemoveEvent, mprScheduleDispatcher
  <2>2. d \in Dispatchers
    BY <1>1, <2>1 DEF EventRecord
  <2>3. eventQ[d] = <<>> => q = <<>>
    BY DEF Without, Range
  <2> HIDE DEF d, q
  <2>4. CASE Schedules(d, q, Unlinked(e), FALSE)
    BY <1>0, <2>1, <2>2, <2>4, ServedSchedules DEF StillTended
  <2>5. CASE UNCHANGED queues
    <3>1. \A x \in Dispatchers : eventQ'[x] # <<>> => eventQ[x] # <<>>
      BY <1>1, <2>1, <2>2, <2>3
    <3> QED
      BY <1>0, <2>1, <2>5, <3>1, ServedSame DEF ServedInv, On
  <2> QED
    BY <2>1, <2>4, <2>5
<1>5. ASSUME NEW e \in Events, NEW enable, mprEnableContinuousEvent(e, enable) PROVE ServedInv'
  <2>1. UNCHANGED <<queues, eventQ, destroyed>>
    BY <1>5 DEF mprEnableContinuousEvent, dispVars
  <2> QED
    BY <1>0, <2>1, ServedSame DEF ServedInv, On
<1>6. ASSUME NEW d \in Dispatchers, mprDestroyDispatcher(d) PROVE ServedInv'
  <2>1. /\ destroyed' = destroyed \cup {d} /\ queues' = dequeueDispatcher(d)
        /\ eventQ' = [eventQ EXCEPT ![d] = <<>>]
    BY <1>6 DEF mprDestroyDispatcher
  <2> SUFFICES ASSUME NEW x \in Dispatchers, x \notin destroyed, x # d PROVE ServedOne(x)'
    BY <2>1 DEF ServedInv
  <2>2. eventQ'[x] = eventQ[x]
    BY <1>1, <2>1
  <2>3. \A r \in QueueNames : x \in Range(queues'[r]) <=> On(r, x)
    BY <1>1, <2>1, DequeueProps
  <2>4. ServedOne(x) /\ StillTended(x)
    BY <1>0 DEF ServedInv
  <2> QED
    BY <2>2, <2>3, <2>4, ServedSame DEF On
<1> QED
  BY <1>2, <1>3, <1>4, <1>5, <1>6

\* Where a thread is while it runs events: nobody else schedules its dispatcher away, and
\* where it returns to it still has it, or App owns it
LEMMA ServedDispatch ==
    ASSUME Queueing, WorkInv, ServedInv, NEW t \in Threads, dispatchEvents(t) PROVE ServedInv'
<1>0. /\ OwnershipTypes /\ eventQ \in [Dispatchers -> Seq(Events)]
      /\ UNCHANGED <<owner, job, destroyed>>
  BY TypeFacts DEF Queueing, dispatchEvents, mprGetNextEvent, ProcReturns, EventHasRun, Requeue,
                   Count, dispVars, workVars
<1>1. thread[t].pc \in Dispatching /\ thread[t].d \in Dispatchers
  <2>1. thread[t].pc \in Dispatching
    BY DEF dispatchEvents, mprGetNextEvent, ProcReturns, EventHasRun, Requeue, Count, Dispatching
  <2> QED
    BY <2>1 DEF Queueing, Ownership, RunnerOwns
<1>2. thread[t].back \in Dispatching \/ owner[thread[t].d] = App
  BY <1>1 DEF WorkInv, Queueing, Ownership, RunnerOwns, Dispatching
<1>3. Dispatching \subseteq InService /\ InService \subseteq Tending
  BY DEF InService, Tending
<1>4. ASSUME \A u \in Threads : u # t => thread'[u] = thread[u],
             thread'[t].d = thread[t].d,
             thread'[t].pc \in Dispatching \/ owner[thread[t].d] = App,
             NEW x \in Dispatchers
      PROVE  StillTended(x)
  BY <1>0, <1>3, <1>4, HandsGo
<1>5. CASE mprGetNextEvent(t)
  <2>1. \/ Goes(t, thread[t].back) /\ UNCHANGED eventQ
        \/ \E e \in Events : Taken(t, e)
    BY <1>5, GetNextKeeps
  <2>2. UNCHANGED queues
    BY <1>5 DEF mprGetNextEvent, dispVars
  <2>3. ASSUME Goes(t, thread[t].back), UNCHANGED eventQ PROVE ServedInv'
    <3>1. \A x \in Dispatchers : StillTended(x)
      BY <1>0, <1>2, <1>4, <2>3, Going
    <3> QED
      BY <1>0, <2>2, <2>3, <3>1, ServedSame DEF ServedInv, On
  <2>4. ASSUME NEW e \in Events, Taken(t, e) PROVE ServedInv'
    <3>1. /\ \A u \in Threads : u # t => thread'[u] = thread[u]
          /\ thread'[t].d = thread[t].d /\ thread'[t].pc \in Dispatching
      BY <2>4 DEF Taken, Dispatching
    <3>2. \A x \in Dispatchers : StillTended(x)
      BY <1>4, <3>1
    <3>3. \A x \in Dispatchers : eventQ'[x] # <<>> => eventQ[x] # <<>>
      <4>1. eventQ' = [eventQ EXCEPT ![thread[t].d] = Tail(eventQ[thread[t].d])]
        BY <2>4 DEF Taken
      <4>2. eventQ[thread[t].d] # <<>>
        BY <2>4 DEF Taken, Range
      <4> QED
        BY <1>0, <1>1, <4>1, <4>2
    <3> QED
      BY <1>0, <2>2, <3>2, <3>3, ServedSame DEF ServedInv, On
  <2> QED
    BY <2>1, <2>3, <2>4
<1>6. CASE ProcReturns(t) \/ EventHasRun(t)
  <2>1. \/ \E pc \in {"ran", "requeue"} : Goes(t, pc)
        \/ \E pc \in {"count", thread[t].back} :
              thread' = [thread EXCEPT ![t].pc = pc, ![t].e = Nobody]
    BY <1>6 DEF ProcReturns, EventHasRun
  <2>2. /\ \A u \in Threads : u # t => thread'[u] = thread[u]
        /\ thread'[t].d = thread[t].d
        /\ thread'[t].pc \in {"ran", "requeue", "count", thread[t].back}
    BY <1>0, <2>1, Going, PuttingDown, ZenonT(40)
  <2>3. \A x \in Dispatchers : StillTended(x)
    BY <1>2, <1>4, <2>2 DEF Dispatching
  <2>4. UNCHANGED <<queues, eventQ>>
    BY <1>6 DEF ProcReturns, EventHasRun, dispVars
  <2> QED
    BY <1>0, <2>3, <2>4, ServedSame DEF ServedInv, On
<1>7. CASE Requeue(t)
  <2>1. thread' = [thread EXCEPT ![t].pc = "count", ![t].e = Nobody]
    BY <1>7 DEF Requeue
  <2>2. /\ \A u \in Threads : u # t => thread'[u] = thread[u]
        /\ thread'[t].d = thread[t].d /\ thread'[t].pc = "count"
    BY <1>0, <2>1, PuttingDown
  <2>3. \A x \in Dispatchers : StillTended(x)
    BY <1>4, <2>2 DEF Dispatching
  <2>4. \E evs : mprQueueEvent(thread[t].d, thread[t].e, evs)
    BY <1>7 DEF Requeue
  <2> QED
    BY <1>0, <1>1, <2>3, <2>4, ServedQueueEvent
<1>8. CASE Count(t)
  <2>1. UNCHANGED <<queues, eventQ>>
    BY <1>8 DEF Count, dispVars
  <2>2. \A x \in Dispatchers : StillTended(x)
    BY <1>0, <1>4, <1>8, Counting DEF Dispatching
  <2> QED
    BY <1>0, <2>1, <2>2, ServedSame DEF ServedInv, On
<1> QED
  BY <1>5, <1>6, <1>7, <1>8 DEF dispatchEvents

\* The end of dispatchEventsHelper: the dispatcher is let go only once it is scheduled
LEMMA ServedHelper ==
    ASSUME Queueing, ServedInv, NEW t \in Threads, HelperEnds(t) PROVE ServedInv'
<1>0. /\ OwnershipTypes /\ eventQ \in [Dispatchers -> Seq(Events)]
      /\ queues \in [QueueNames -> Seq(Dispatchers)] /\ QueuesDistinct
      /\ UNCHANGED <<job, destroyed, eventQ>>
  BY TypeFacts DEF Queueing, HelperEnds, releaseDispatcher, HelperDequeues, HelperSchedules,
                   HelperWakes, dispVars, workVars
<1>1. CASE releaseDispatcher(t)
  <2>1. thread[t].pc = "release" /\ UNCHANGED queues
    BY <1>1 DEF releaseDispatcher
  <2>2. thread[t].d \in Dispatchers /\ owner[thread[t].d] = t
    BY <2>1 DEF Queueing, Ownership, RunnerOwns, Dispatching
  <2> SUFFICES ASSUME NEW x \in Dispatchers, x \notin destroyed PROVE StillTended(x)
    BY <1>0, <2>1, ServedSame DEF ServedInv, On
  <2>3. CASE thread[t].d \in destroyed
    <3>1. Leaves(t) /\ UNCHANGED owner
      BY <1>1, <2>3 DEF releaseDispatcher
    <3>2. \A u \in Threads : u # t => thread'[u] = thread[u]
      BY <1>0, <3>1, Leaving
    <3> QED
      BY <1>0, <2>3, <3>1, <3>2, HandsGo
  <2>4. CASE thread[t].d \notin destroyed
    <3>1. owner' = [owner EXCEPT ![thread[t].d] = Nobody] /\ Goes(t, "dequeue")
      BY <1>1, <2>4 DEF releaseDispatcher
    <3>2. /\ \A u \in Threads : u # t => thread'[u] = thread[u]
          /\ thread'[t].d = thread[t].d /\ thread'[t].pc = "dequeue"
      BY <1>0, <3>1, Going
    <3>3. t # App
      BY <2>1 DEF Queueing, Ownership, AppOwns, AppPlaces
    <3>4. owner[x] = App => owner'[x] = App
      BY <1>0, <2>2, <3>1, <3>3 DEF OwnershipTypes
    <3>5. "dequeue" \in InService /\ "dequeue" \in Tending
      BY DEF InService, Tending
    <3> QED
      BY <1>0, <3>2, <3>4, <3>5, HandsGo
  <2> QED
    BY <2>3, <2>4
<1>2. CASE HelperDequeues(t)
  <2>1. /\ thread[t].pc = "dequeue" /\ queues' = dequeueDispatcher(thread[t].d)
        /\ Goes(t, "schedule") /\ UNCHANGED owner
    BY <1>2 DEF HelperDequeues
  <2>2. thread[t].d \in Dispatchers
    BY <2>1 DEF Queueing, HelpersHave
  <2>3. /\ \A u \in Threads : u # t => thread'[u] = thread[u]
        /\ thread'[t].d = thread[t].d /\ thread'[t].pc = "schedule"
    BY <1>0, <2>1, Going
  <2>4. \A q \in QueueNames, x \in Dispatchers :
          x \in Range(queues'[q]) <=> On(q, x) /\ x # thread[t].d
    BY <1>0, <2>1, <2>2, DequeueProps
  <2> SUFFICES ASSUME NEW x \in Dispatchers, x \notin destroyed PROVE ServedOne(x)'
    BY <1>0 DEF ServedInv
  <2>5. CASE x = thread[t].d
    <3>1. Tended(x, Tending)'
      BY <2>3, <2>5 DEF Tended, Tending
    <3>2. ~On("run", x)'
      BY <2>4, <2>5 DEF On, QueueNames
    <3> QED
      BY <3>1, <3>2 DEF ServedOne
  <2>6. CASE x # thread[t].d
    <3>1. StillTended(x)
      BY <1>0, <2>1, <2>3, <2>6, HandsGo
    <3> QED
      BY <1>0, <2>4, <2>6, <3>1, ServedSame DEF ServedInv, On
  <2> QED
    BY <2>5, <2>6
<1>3. CASE HelperSchedules(t)
  <2>1. thread[t].pc = "schedule"
    BY <1>3 DEF HelperSchedules
  <2>2. PICK d \in Dispatchers : d = thread[t].d
    BY <2>1 DEF Queueing, HelpersHave
  <2>3. PICK q : q = eventQ[d]
    OBVIOUS
  <2>4. /\ Schedules(d, q, event, FALSE) /\ UNCHANGED <<owner, destroyed>>
        /\ Goes(t, "wake") \/ Leaves(t)
    BY <1>3, <2>2, <2>3 DEF HelperSchedules
  <2>5. \A u \in Threads : u # t => thread'[u] = thread[u]
    BY <1>0, <2>4, Going, Leaving
  <2>6. \A x \in Dispatchers : x # d => StillTended(x)
    BY <1>0, <2>2, <2>4, <2>5, HandsGo
  <2>7. thread[t].pc \notin InService
    BY <2>1 DEF InService, Dispatching
  <2>8. Tended(d, InService) => Tended(d, InService)'
    BY <1>0, <2>4, <2>5, <2>7 DEF Tended
  <2>9. eventQ' = [eventQ EXCEPT ![d] = q]
    BY <1>0, <2>3
  <2> QED
    BY <2>4, <2>6, <2>8, <2>9, ServedSchedules
<1>4. CASE HelperWakes(t)
  <2>1. thread[t].pc = "wake" /\ Leaves(t) /\ UNCHANGED <<owner, queues>>
    BY <1>4 DEF HelperWakes, dispVars
  <2>2. \A u \in Threads : u # t => thread'[u] = thread[u]
    BY <1>0, <2>1, Leaving
  <2>3. thread[t].pc \notin Tending
    BY <2>1 DEF Tending, InService, Dispatching
  <2>4. \A x \in Dispatchers : StillTended(x)
    BY <1>0, <2>1, <2>2, <2>3, HandsGo
  <2> QED
    BY <1>0, <2>1, <2>4, ServedSame DEF ServedInv, On
<1> QED
  BY <1>1, <1>2, <1>3, <1>4 DEF HelperEnds

\* A worker takes the dispatcher it was started for into its own hands
LEMMA ServedWorker ==
    ASSUME Queueing, ServedInv, NEW w \in Workers, workerMain(w) PROVE ServedInv'
<1>0. /\ OwnershipTypes /\ w \in Threads /\ w # App
      /\ UNCHANGED <<queues, eventQ, destroyed>>
  BY TypeFacts, ThreadsDistinct
     DEF Queueing, workerMain, WorkerStarts, WorkerLeaves, mprWakePendingDispatchers, WakePending,
         WorkerExits, dispVars
<1> SUFFICES ASSUME NEW x \in Dispatchers, x \notin destroyed PROVE StillTended(x)
  BY <1>0, ServedSame DEF ServedInv, On
<1>1. CASE WorkerStarts(w)
  <2>1. /\ thread[w].pc = "sleep" /\ worker[w] = "busy" /\ dispatchEventsHelper(w, job[w])
        /\ job' = [job EXCEPT ![w] = Nobody]
    BY <1>1 DEF WorkerStarts
  <2>2. PICK d \in Dispatchers : d = job[w]
    BY <2>1 DEF Queueing, Ownership, BusyHasJob, Resting
  <2>3. owner[d] = Reserved
    BY <2>2, NobodyAssumed DEF Queueing, Ownership, JobsReserved
  <2>4. thread[w].pc \notin Tending
    BY <2>1 DEF Tending, InService, Dispatching
  <2>5. \A v \in Workers : v # w => job'[v] = job[v]
    BY <1>0, <2>1 DEF OwnershipTypes
  <2>6. /\ \A u \in Threads : u # w => thread'[u] = thread[u]
        /\ owner[x] = App => owner'[x] = App
        /\ x = d => thread'[w].d = x /\ thread'[w].pc = "next"
    <3>1. CASE d \in destroyed
      <4>1. Leaves(w) /\ UNCHANGED owner
        BY <2>1, <2>2, <3>1 DEF dispatchEventsHelper
      <4> QED
        BY <1>0, <3>1, <4>1, Leaving
    <3>2. CASE d \notin destroyed
      <4>1. Enters(w, d, "release") /\ owner' = [owner EXCEPT ![d] = w]
        BY <2>1, <2>2, <2>3, <3>2 DEF dispatchEventsHelper
      <4>2. owner[x] = App => owner'[x] = App
        BY <1>0, <2>3, <4>1, ThreadsDistinct DEF OwnershipTypes
      <4> QED
        BY <1>0, <4>1, <4>2, Entering
    <3> QED
      BY <3>1, <3>2
  <2>7. ASSUME NEW P, P \subseteq Tending, "next" \in P, Tended(x, P) PROVE Tended(x, P)'
    <3>1. CASE \E t \in Threads : thread[t].d = x /\ thread[t].pc \in P
      BY <2>4, <2>6, <2>7, <3>1 DEF Tended
    <3>2. CASE \E v \in Workers : job[v] = x
      BY <1>0, <2>2, <2>5, <2>6, <2>7, <3>2 DEF Tended
    <3>3. CASE owner[x] = App
      BY <2>6, <3>3 DEF Tended
    <3> QED
      BY <2>7, <3>1, <3>2, <3>3 DEF Tended
  <2> QED
    BY <2>7 DEF StillTended, Tending, InService, Dispatching
<1>2. CASE WorkerLeaves(w) \/ mprWakePendingDispatchers(w) \/ WakePending(w)
  <2>1. /\ UNCHANGED <<owner, job>>
        /\ thread[w].pc \in {"leave", "pending", "poke"}
        /\ \E pc \in {"pending", "poke", "sleep"} : Goes(w, pc)
    BY <1>2 DEF WorkerLeaves, mprWakePendingDispatchers, WakePending, workVars, dispVars
  <2>2. thread[w].pc \notin Tending
    BY <2>1 DEF Tending, InService, Dispatching
  <2>3. \A u \in Threads : u # w => thread'[u] = thread[u]
    BY <1>0, <2>1, Going
  <2> QED
    BY <1>0, <2>1, <2>2, <2>3, HandsGo
<1>3. CASE WorkerExits(w)
  <2>1. UNCHANGED <<thread, job, owner>>
    BY <1>3 DEF WorkerExits, dispVars
  <2> QED
    BY <2>1, HandsRest
<1> QED
  BY <1>1, <1>2, <1>3 DEF workerMain

\* The steps by which the service finds a dispatcher and hands it on
LEMMA ServedClaim ==
    ASSUME Queueing, ServedInv, getNextReadyDispatcher PROVE ServedInv'
<1>0. /\ OwnershipTypes /\ Service \in Threads
      /\ queues \in [QueueNames -> Seq(Dispatchers)] /\ QueuesDistinct
  BY TypeFacts, ThreadsDistinct DEF Queueing
<1>1. /\ thread[Service].pc = "get" /\ queues' = Readied
      /\ UNCHANGED <<eventQ, destroyed, job>>
      /\ \/ Goes(Service, "check") /\ UNCHANGED owner
         \/ \E d \in Dispatchers :
               /\ owner[d] \in {Nobody, Service} /\ owner' = [owner EXCEPT ![d] = Reserved]
               /\ thread' = [thread EXCEPT ![Service].pc = "claimed", ![Service].d = d]
  BY DEF getNextReadyDispatcher, ServiceUnchanged, workVars, Claimable
<1>2. \A u \in Threads : u # Service => thread'[u] = thread[u]
  <2>1. ASSUME Goes(Service, "check") PROVE <1>2!:
    BY <1>0, <2>1, Going
  <2>2. ASSUME NEW d,
               thread' = [thread EXCEPT ![Service].pc = "claimed", ![Service].d = d]
        PROVE  <1>2!:
    BY <1>0, <2>2, Serving
  <2> QED
    BY <1>1, <2>1, <2>2
<1>3. \A x \in Dispatchers : owner[x] = App => owner'[x] = App
  BY <1>0, <1>1, ThreadsDistinct DEF OwnershipTypes
<1>4. thread[Service].pc \notin Tending
  BY <1>1 DEF Tending, InService, Dispatching
<1>5. \A x \in Dispatchers : StillTended(x)
  BY <1>0, <1>1, <1>2, <1>3, <1>4, HandsGo
<1> SUFFICES ASSUME NEW x \in Dispatchers, x \notin destroyed PROVE ServedOne(x)'
  BY <1>1 DEF ServedInv
<1>6. CASE queues' = queues
  BY <1>1, <1>5, <1>6, ServedSame DEF ServedInv, On
<1>7. ASSUME NEW d \in Dispatchers, queues' = queueDispatcher("ready", d) PROVE ServedOne(x)'
  <2>1. \A q \in QueueNames : x \in Range(queues'[q]) <=> IF x = d THEN q = "ready" ELSE On(q, x)
    <3>1. "ready" \in QueueNames
      BY DEF QueueNames
    <3> QED
      BY <1>0, <1>7, <3>1, QueueProps
  <2>2. CASE x = d
    BY <2>1, <2>2 DEF ServedOne, On, QueueNames
  <2>3. CASE x # d
    BY <1>1, <1>5, <2>1, <2>3, ServedSame DEF ServedInv, On
  <2> QED
    BY <2>2, <2>3
<1> QED
  BY <1>1, <1>6, <1>7, ReadiedProps

LEMMA ServedRun ==
    ASSUME Queueing, ServedInv, RunClaimed PROVE ServedInv'
<1>0. /\ OwnershipTypes /\ Service \in Threads
      /\ queues \in [QueueNames -> Seq(Dispatchers)] /\ QueuesDistinct
  BY TypeFacts, ThreadsDistinct DEF Queueing
<1>1. /\ thread[Service].pc = "claimed" /\ UNCHANGED <<eventQ, destroyed, job>>
  BY DEF RunClaimed, ServiceUnchanged, workVars
<1>2. PICK d \in Dispatchers : d = thread[Service].d
  BY <1>1 DEF Queueing, Ownership, ServiceReserves, Claiming
<1>3. owner[d] = Reserved
  BY <1>1, <1>2 DEF Queueing, Ownership, ServiceReserves, Claiming
<1>4. /\ queues' = queueDispatcher("run", d)
      /\ \/ dispatchEventsHelper(Service, d)
         \/ Goes(Service, "start") /\ UNCHANGED owner
  BY <1>2 DEF RunClaimed
<1>5. /\ \A u \in Threads : u # Service => thread'[u] = thread[u]
      /\ \A x \in Dispatchers : owner[x] = App => owner'[x] = App
      /\ d \notin destroyed => thread'[Service].d = d /\ thread'[Service].pc \in {"next", "start"}
  <2>1. CASE Goes(Service, "start") /\ UNCHANGED owner
    BY <1>0, <1>2, <2>1, Going
  <2>2. CASE dispatchEventsHelper(Service, d) /\ d \in destroyed
    <3>1. Leaves(Service) /\ UNCHANGED owner
      BY <2>2 DEF dispatchEventsHelper
    <3> QED
      BY <1>0, <2>2, <3>1, Leaving
  <2>3. CASE dispatchEventsHelper(Service, d) /\ d \notin destroyed
    <3>1. Enters(Service, d, "release") /\ owner' = [owner EXCEPT ![d] = Service]
      BY <1>3, <2>3 DEF dispatchEventsHelper
    <3>2. \A x \in Dispatchers : owner[x] = App => owner'[x] = App
      BY <1>0, <1>3, <3>1, ThreadsDistinct DEF OwnershipTypes
    <3> QED
      BY <1>0, <3>1, <3>2, Entering
  <2> QED
    BY <1>4, <2>1, <2>2, <2>3
<1>6. thread[Service].pc \notin Tending
  BY <1>1 DEF Tending, InService, Dispatching
<1>7. \A q \in QueueNames, x \in Dispatchers :
        x \in Range(queues'[q]) <=> IF x = d THEN q = "run" ELSE On(q, x)
  <2>1. "run" \in QueueNames
    BY DEF QueueNames
  <2> QED
    BY <1>0, <1>4, <2>1, QueueProps
<1> SUFFICES ASSUME NEW x \in Dispatchers, x \notin destroyed PROVE ServedOne(x)'
  BY <1>1 DEF ServedInv
<1>8. CASE x = d
  <2>1. Tended(x, InService)'
    BY <1>0, <1>5, <1>8 DEF Tended, InService, Dispatching
  <2> QED
    BY <2>1, TendedMore DEF ServedOne
<1>9. CASE x # d
  <2>1. StillTended(x)
    BY <1>0, <1>1, <1>5, <1>6, HandsGo
  <2> QED
    BY <1>1, <1>7, <1>9, <2>1, ServedSame DEF ServedInv, On
<1> QED
  BY <1>8, <1>9

\* The worker that is given the dispatcher had no other, so none is lost
LEMMA ServedStart ==
    ASSUME Queueing, WorkInv, ServedInv, mprStartWorker PROVE ServedInv'
<1>0. OwnershipTypes /\ Service \in Threads
  BY TypeFacts, ThreadsDistinct DEF Queueing
<1>1. /\ thread[Service].pc = "start" /\ UNCHANGED <<queues, owner, eventQ, destroyed>>
      /\ \/ \E w \in Candidates :
               /\ job' = [job EXCEPT ![w] = thread[Service].d]
               /\ thread' = [thread EXCEPT ![Service].pc = "get", ![Service].d = Nobody]
         \/ Goes(Service, "failed") /\ UNCHANGED job
  BY DEF mprStartWorker, ServiceUnchanged, workVars
<1> SUFFICES ASSUME NEW x \in Dispatchers, x \notin destroyed PROVE StillTended(x)
  BY <1>1, ServedSame DEF ServedInv, On
<1>2. CASE Goes(Service, "failed") /\ UNCHANGED job
  <2>1. /\ \A u \in Threads : u # Service => thread'[u] = thread[u]
        /\ thread'[Service].d = thread[Service].d /\ thread'[Service].pc = "failed"
    BY <1>0, <1>2, Going
  <2>2. "failed" \in InService /\ "failed" \in Tending
    BY DEF InService, Tending
  <2> QED
    BY <1>0, <1>1, <1>2, <2>1, <2>2, HandsGo
<1>3. ASSUME NEW w \in Candidates, job' = [job EXCEPT ![w] = thread[Service].d],
             thread' = [thread EXCEPT ![Service].pc = "get", ![Service].d = Nobody]
      PROVE  StillTended(x)
  <2>1. w \in Workers /\ job[w] = Nobody
    BY DEF Candidates, InState, WorkInv
  <2>2. \A u \in Threads : u # Service => thread'[u] = thread[u]
    BY <1>0, <1>3, Serving
  <2>3. job'[w] = thread[Service].d /\ \A v \in Workers : job[v] = x => job'[v] = x
    BY <1>0, <1>3, <2>1, NobodyAssumed DEF OwnershipTypes
  <2>4. ASSUME NEW P, Tended(x, P) PROVE Tended(x, P)'
    <3>1. CASE \E t \in Threads : t # Service /\ thread[t].d = x /\ thread[t].pc \in P
      BY <2>2, <3>1 DEF Tended
    <3>2. CASE thread[Service].d = x
      BY <2>1, <2>3, <3>2 DEF Tended
    <3>3. CASE \E v \in Workers : job[v] = x
      BY <2>3, <3>3 DEF Tended
    <3>4. CASE owner[x] = App
      BY <1>1, <3>4 DEF Tended
    <3> QED
      BY <2>4, <3>1, <3>2, <3>3, <3>4 DEF Tended
  <2> QED
    BY <2>4 DEF StillTended
<1> QED
  BY <1>1, <1>2, <1>3

LEMMA ServedService ==
    ASSUME Queueing, WorkInv, ServedInv, ServiceLoop PROVE ServedInv'
<1>0. /\ OwnershipTypes /\ Service \in Threads
      /\ queues \in [QueueNames -> Seq(Dispatchers)] /\ QueuesDistinct
  BY TypeFacts, ThreadsDistinct DEF Queueing
<1>1. CASE StartFailed
  <2>1. /\ thread[Service].pc = "failed" /\ Goes(Service, "pend")
        /\ owner' = [owner EXCEPT ![thread[Service].d] = Nobody]
        /\ UNCHANGED <<queues, eventQ, destroyed, job>>
    BY <1>1 DEF StartFailed, ServiceUnchanged, workVars
  <2>2. thread[Service].d \in Dispatchers /\ owner[thread[Service].d] = Reserved
    BY <2>1 DEF Queueing, Ownership, ServiceReserves, Claiming
  <2>3. \A x \in Dispatchers : owner[x] = App => owner'[x] = App
    BY <1>0, <2>1, <2>2, ThreadsDistinct DEF OwnershipTypes
  <2>4. /\ \A u \in Threads : u # Service => thread'[u] = thread[u]
        /\ thread'[Service].d = thread[Service].d /\ thread'[Service].pc = "pend"
    BY <1>0, <2>1, Going
  <2>5. "pend" \in InService /\ "pend" \in Tending
    BY DEF InService, Tending
  <2>6. \A x \in Dispatchers : StillTended(x)
    BY <1>0, <2>1, <2>3, <2>4, <2>5, HandsGo
  <2> QED
    BY <2>1, <2>6, ServedSame DEF ServedInv, On
<1>2. CASE QueuePending
  <2>1. /\ thread[Service].pc = "pend"
        /\ thread' = [thread EXCEPT ![Service].pc = "check", ![Service].d = Nobody]
        /\ UNCHANGED <<owner, eventQ, destroyed, job>>
    BY <1>2 DEF QueuePending, ServiceUnchanged, workVars
  <2>2. PICK d \in Dispatchers : d = thread[Service].d
    BY <2>1, <1>0 DEF Queueing, HelpersHave
  <2>3. queues' = queueDispatcher("pending", d)
    BY <1>2, <2>2 DEF QueuePending
  <2>4. \A q \in QueueNames, x \in Dispatchers :
          x \in Range(queues'[q]) <=> IF x = d THEN q = "pending" ELSE On(q, x)
    <3>1. "pending" \in QueueNames
      BY DEF QueueNames
    <3> QED
      BY <1>0, <2>3, <3>1, QueueProps
  <2>5. \A u \in Threads : u # Service => thread'[u] = thread[u]
    BY <1>0, <2>1, Serving
  <2> SUFFICES ASSUME NEW x \in Dispatchers, x \notin destroyed PROVE ServedOne(x)'
    BY <2>1 DEF ServedInv
  <2>6. CASE x = d
    BY <2>4, <2>6 DEF ServedOne, On, QueueNames
  <2>7. CASE x # d
    <3>1. StillTended(x)
      BY <1>0, <2>1, <2>2, <2>5, <2>7, HandsGo
    <3> QED
      BY <2>1, <2>4, <2>7, <3>1, ServedSame DEF ServedInv, On
  <2> QED
    BY <2>6, <2>7
<1>3. CASE \/ mprServiceEvents \/ CheckCount \/ getIdleTicks \/ mprWaitForIO \/ PruneTimerDue
           \/ pruneWorkers \/ ReadClock
  <2>1. /\ UNCHANGED <<queues, owner, eventQ, destroyed, job>>
        /\ thread[Service].pc \in {"top", "check", "idle", "io", "prune", "now"}
        /\ \E pc \in ServicePlaces : Goes(Service, pc)
    BY <1>3 DEF mprServiceEvents, CheckCount, getIdleTicks, mprWaitForIO, PruneTimerDue,
                pruneWorkers, ReadClock, workVars, dispVars, ServicePlaces
  <2>2. \A u \in Threads : u # Service => thread'[u] = thread[u]
    BY <1>0, <2>1, Going
  <2>3. thread[Service].pc \notin Tending
    BY <2>1 DEF Tending, InService, Dispatching
  <2>4. \A x \in Dispatchers : StillTended(x)
    BY <1>0, <2>1, <2>2, <2>3, HandsGo
  <2> QED
    BY <2>1, <2>4, ServedSame DEF ServedInv, On
<1> QED
  BY <1>1, <1>2, <1>3, ServedClaim, ServedRun, ServedStart DEF ServiceLoop

LEMMA ServedApp ==
    ASSUME Queueing, ServedInv, AppLoop PROVE ServedInv'
<1>0. OwnershipTypes /\ App \in Threads
  BY TypeFacts, ThreadsDistinct DEF Queueing
<1>1. /\ UNCHANGED <<queues, owner, eventQ, destroyed, job>>
      /\ thread[App].pc \in {"app", "looked", "tried", "cond", "wait"}
      /\ \/ \E pc \in {"app", "cond", "wait"} : Goes(App, pc)
         \/ \E d \in Dispatchers \cup {thread[App].d}, back \in {"looked", "tried"} :
               Enters(App, d, back)
  BY DEF AppLoop, mprWaitForEvent, AppLooked, AppTried, CondReturns, WaitReturns, workVars,
         dispVars
<1>2. \A u \in Threads : u # App => thread'[u] = thread[u]
  BY <1>0, <1>1, Going, Entering
<1>3. thread[App].pc \notin Tending
  BY <1>1 DEF Tending, InService, Dispatching
<1>4. \A x \in Dispatchers : StillTended(x)
  BY <1>0, <1>1, <1>2, <1>3, HandsGo
<1> QED
  BY <1>1, <1>4, ServedSame DEF ServedInv, On

LEMMA ServedStep == Queueing /\ WorkInv /\ ServedInv /\ [Next]_vars => ServedInv'
<1> SUFFICES ASSUME Queueing, WorkInv, ServedInv, [Next]_vars PROVE ServedInv'
  OBVIOUS
<1>1. CASE Tick \/ (\E e \in Events : DispatcherIsNull(e)) \/ UNCHANGED vars
  <2>1. UNCHANGED <<queues, owner, eventQ, destroyed, job, thread>>
    BY <1>1 DEF Tick, DispatcherIsNull, dispVars, workVars, vars
  <2>2. \A x \in Dispatchers : StillTended(x)
    BY <2>1, HandsRest
  <2> QED
    BY <2>1, <2>2, ServedSame DEF ServedInv, On
<1>2. CASE Next
  <2>1. TypeOK
    BY DEF Queueing
  <2>2. ASSUME NEW t \in Threads, \/ mprGetNextEvent(t) \/ ProcReturns(t) \/ EventHasRun(t)
                                  \/ Requeue(t) \/ Count(t)
        PROVE  ServedInv'
    BY <2>2, ServedDispatch DEF dispatchEvents
  <2>3. CASE Quiet
    BY <2>2, <2>3, ServedHelper, ServedWorker, ServedService, ServedApp DEF Quiet
  <2> QED
    BY <1>1, <1>2, <2>1, <2>2, <2>3, NextCases, ServedApplication
<1> QED
  BY <1>1, <1>2

LEMMA ServedInit == Init => ServedInv
<1> SUFFICES ASSUME Init, NEW d \in Dispatchers PROVE ServedOne(d)
  BY DEF ServedInv
<1> DEFINE started == {x \in Dispatchers : scenario.mode[x] = "started"}
<1>1. eventQ[d] = <<>>
  BY DEF Init
<1>2. queues["run"] = SetToSeq(started) /\ (d \in started => owner[d] = App)
  BY DEF Init, QueueNames
<1>3. IsFiniteSet(started)
  BY SetsAssumption, FS_Subset
<1> HIDE DEF started
<1>4. On("run", d) => d \in started
  BY <1>2, <1>3, SetToSeqProps DEF On
<1> QED
  BY <1>1, <1>2, <1>4 DEF ServedOne, Tended

\* For any dispatchers, workers, events and scenarios: a dispatcher that has events and is
\* not destroyed is never forgotten, on whatever thread and at whatever moment its events
\* are queued, removed and run while it passes from the queues to the service, to a worker
\* and back.
THEOREM NoDispatcherForgotten == Spec => []QueuedIsServed
<1>1. ServedInv => QueuedIsServed
  BY DEF ServedInv, ServedOne, QueuedIsServed, Held, Tended
<1> QED
  BY <1>1, WorkInit, WorkStep, ServedInit, ServedStep, QueueingInvariant, PTL DEF Spec

-----------------------------------------------------------------------------
(***************************************************************************)
(* The sleep of the service.                                               *)
(***************************************************************************)

\* What is true while the service sleeps.  willAwake is what others compare the time of a
\* new event with, so that has to be no earlier than the end of the sleep.
Covered ==
    /\ queues["ready"] = <<>>
    /\ es.sleep = Never <=> es.willAwake = Never
    /\ es.sleep # Never => es.sleep <= Later(es.willAwake) + es.late
    /\ \A d \in Range(queues["wait"]) :
          eventQ[d] # <<>> =>
              es.sleep # Never /\ es.sleep <= Later(event[Head(eventQ[d])].due) + es.late

SleepInv ==
    /\ thread[Service].pc = "io" => es.waiting
    /\ Asleep => Covered

\* A step that neither puts the service to sleep nor takes a wake-up from it
Calm ==
    /\ \A t \in Threads : \/ thread'[t].pc = thread[t].pc
                          \/ thread[t].pc \notin {"wake", "io"} /\ thread'[t].pc # "io"
    /\ es'.sleep > 0 => es.sleep > 0
    /\ es'.waiting = es.waiting
    /\ woken => woken'

LEMMA SleepsOn ==
    ASSUME SleepInv, Calm, Covered /\ es.waiting /\ Asleep' => Covered' PROVE SleepInv'
<1>1. Service \in Threads
  BY ThreadsDistinct
<1>2. thread'[Service].pc = "io" => thread[Service].pc = "io"
  BY <1>1 DEF Calm
<1>3. Asleep' => Asleep
  BY <1>2 DEF Calm, Asleep
<1>4. Asleep => es.waiting
  BY DEF SleepInv, Asleep
<1> QED
  BY <1>2, <1>3, <1>4 DEF SleepInv, Calm

LEMMA CalmThread ==
    ASSUME NEW t \in Threads, \A u \in Threads : u # t => thread'[u] = thread[u],
           thread[t].pc \notin {"wake", "io"}, thread'[t].pc # "io",
           es'.sleep = es.sleep, es'.waiting = es.waiting, woken => woken'
    PROVE  Calm
BY DEF Calm

LEMMA CalmStill ==
    ASSUME UNCHANGED thread, es'.sleep = es.sleep, es'.waiting = es.waiting, woken => woken'
    PROVE  Calm
BY DEF Calm

\* The step leaves the times as they are; evs are the events that it leaves, not forwarded
ClockKept(evs) ==
    /\ es'.willAwake = Never <=> es.willAwake = Never
    /\ es.willAwake # Never => Later(es.willAwake)' = Later(es.willAwake)
    /\ es'.sleep = es.sleep /\ es'.late = es.late /\ es'.waiting = es.waiting
    /\ \A x \in Events : Later(event[x].due)' = Later(evs[x].due)

LEMMA ClockSame ==
    ASSUME es'.lag = es.lag, es'.willAwake = es.willAwake, es'.sleep = es.sleep,
           es'.late = es.late, es'.waiting = es.waiting
    PROVE  ClockKept(event')
BY DEF ClockKept, Later

\* es->now is read: what was left of each time is what it is ahead of es->now
LEMMA ClockRead ==
    ASSUME es \in EsRecord, NEW evs \in [Events -> LateEvent], event' = Forward(evs),
           NEW counts \in BOOLEAN, TimeRead(counts)
    PROVE  ClockKept(evs)
<1>1. /\ es'.lag = 0 /\ es'.waiting = es.waiting /\ es'.sleep = es.sleep
      /\ es'.late = es.late
      /\ es'.willAwake = IF es.willAwake = Never THEN Never ELSE Later(es.willAwake)
  BY TimeReadProps
<1>2. \A x \in Nat : (IF x > es'.lag THEN x - es'.lag ELSE 0) = x
  BY <1>1
<1>3. ASSUME NEW x \in Events PROVE Later(event[x].due)' = Later(evs[x].due)
  <2>1. event'[x].due = Later(evs[x].due)
    BY ForwardProps
  <2>2. Later(evs[x].due) \in Nat
    BY LaterProps DEF LateEvent
  <2> QED
    BY <1>2, <2>1, <2>2 DEF Later
<1>4. ASSUME es.willAwake # Never
      PROVE  es'.willAwake # Never /\ Later(es.willAwake)' = Later(es.willAwake)
  <2>1. es.willAwake \in Nat /\ es.willAwake < Never
    BY <1>4, PeriodAssumed DEF EsRecord
  <2>2. Later(es.willAwake) \in Nat /\ Later(es.willAwake) <= es.willAwake
    BY <2>1, LaterProps
  <2>3. Later(es.willAwake) # Never
    BY <2>1, <2>2, PeriodAssumed
  <2>4. es'.willAwake = Later(es.willAwake)
    BY <1>1, <1>4
  <2>5. Later(es.willAwake)' = es'.willAwake
    BY <1>2, <2>2, <2>4 DEF Later
  <2> QED
    BY <2>3, <2>4, <2>5
<1> QED
  BY <1>1, <1>3, <1>4 DEF ClockKept

\* The first event of a queue in order is the first to be due
LEMMA HeadFirst ==
    ASSUME NEW q \in Seq(Events), NEW evs, \A x \in Events : evs[x].due \in Nat,
           SortedBy(q, evs), NEW x \in Range(q)
    PROVE  q # <<>> /\ Head(q) \in Events /\ evs[Head(q)].due <= evs[x].due
<1>1. DOMAIN q = 1..Len(q) /\ Len(q) \in Nat
  BY LenProperties
<1>2. PICK i \in DOMAIN q : x = q[i]
  BY DEF Range
<1>3. q # <<>> /\ 1 \in DOMAIN q /\ q[1] = Head(q)
  BY <1>1, <1>2
<1>4. q[1] \in Events /\ q[i] \in Events
  BY <1>1, <1>2, <1>3, ElementOfSeq
<1>5. i = 1 \/ 1 < i
  BY <1>1, <1>2
<1> QED
  BY <1>2, <1>3, <1>4, <1>5 DEF SortedBy

LEMMA RangeTyped == ASSUME NEW S, NEW s \in Seq(S), NEW x \in Range(s) PROVE x \in S
BY RangeIsElements, ElementOfSeq

LEMMA RangeNotEmpty ==
    ASSUME NEW S, NEW s \in Seq(S), s # <<>> PROVE Head(s) \in Range(s) /\ Head(s) \in S
<1>1. DOMAIN s = 1..Len(s) /\ Len(s) \in Nat /\ 1 \in DOMAIN s
  BY LenProperties, EmptySeq
<1>2. Head(s) = s[1]
  BY <1>1
<1> QED
  BY <1>1, <1>2, ElementOfSeq DEF Range

\* No dispatcher becomes ready, none begins to wait, and the first event of those that do
\* is due no earlier
LEMMA CoveredSame ==
    ASSUME Queueing, Covered, NEW evs, ClockKept(evs),
           \A x \in Events : evs[x].due \in Nat,
           queues'["ready"] = <<>>,
           eventQ' \in [Dispatchers -> Seq(Events)],
           queues' \in [QueueNames -> Seq(Dispatchers)],
           \A d \in Dispatchers : d \in Range(queues'["wait"]) => d \in Range(queues["wait"]),
           \A d \in Dispatchers : \A x \in Range(eventQ'[d]) :
               x \in Range(eventQ[d]) /\ evs[x].due = event[x].due
    PROVE  Covered'
<1>0. /\ es \in EsRecord /\ eventQ \in [Dispatchers -> Seq(Events)]
      /\ event \in [Events -> EventRecord] /\ EventsSorted
  BY TypeFacts DEF Queueing
<1>1. \A x \in Events : event[x].due \in Nat
  BY <1>0, PeriodAssumed DEF EventRecord
<1>2. ASSUME NEW d \in Range(queues'["wait"]), eventQ'[d] # <<>>
      PROVE  /\ es'.sleep # Never
             /\ es'.sleep <= Later(event[Head(eventQ[d])].due)' + es'.late
  <2>1. d \in Dispatchers
    <3>1. queues'["wait"] \in Seq(Dispatchers)
      BY DEF QueueNames
    <3> QED
      BY <1>2, <3>1, RangeTyped
  <2>2. PICK h \in Events : h = Head(eventQ'[d]) /\ h \in Range(eventQ'[d])
    BY <1>2, <2>1, RangeNotEmpty
  <2>3. h \in Range(eventQ[d]) /\ evs[h].due = event[h].due /\ d \in Range(queues["wait"])
    BY <1>2, <2>1, <2>2
  <2>4. PICK g \in Events : /\ g = Head(eventQ[d]) /\ eventQ[d] # <<>>
                            /\ event[g].due <= event[h].due
    BY <1>0, <1>1, <2>1, <2>3, HeadFirst DEF EventsSorted
  <2>5. es.sleep # Never /\ es.sleep <= Later(event[g].due) + es.late
    BY <2>3, <2>4 DEF Covered
  <2>6. Later(event[g].due) <= Later(event[h].due) /\ Later(event[g].due) \in Nat
        /\ Later(event[h].due) \in Nat
    BY <1>0, <1>1, <2>4, LaterProps
  <2>7. Later(event[h].due)' = Later(event[h].due)
    BY <2>3 DEF ClockKept
  <2>8. es.sleep \in Nat /\ es.late \in Nat
    BY <1>0, PeriodAssumed DEF EsRecord
  <2>9. es.sleep <= Later(event[h].due) + es.late
    BY <2>5, <2>6, <2>8
  <2>10. es'.sleep = es.sleep /\ es'.late = es.late
    BY DEF ClockKept
  <2> QED
    BY <2>2, <2>5, <2>7, <2>9, <2>10
<1>3. es'.sleep = Never <=> es'.willAwake = Never
  BY DEF ClockKept, Covered
<1>4. es'.sleep # Never => es'.sleep <= Later(es.willAwake)' + es'.late
  BY DEF ClockKept, Covered
<1> QED
  BY <1>2, <1>3, <1>4 DEF Covered

\* mprScheduleDispatcher wakes the service unless the dispatcher has to wait, for an event
\* that is due when the service wakes up anyway, or later
LEMMA CoveredSchedule ==
    ASSUME Queueing, Covered, es.waiting, NEW d \in Dispatchers, NEW q \in Seq(Events), NEW evs,
           Schedulable(evs), NEW counts \in BOOLEAN, Schedules(d, q, evs, counts),
           eventQ' = [eventQ EXCEPT ![d] = q],
           d \in destroyed => q = <<>>,
           d \notin destroyed => ~MustWake(d, q, evs),
           \A y \in Dispatchers : y # d =>
               \A x \in Range(eventQ[y]) : evs[x].due = event[x].due
    PROVE  Covered'
<1>0. /\ TypeOK /\ es \in EsRecord /\ queues \in [QueueNames -> Seq(Dispatchers)]
      /\ QueuesDistinct /\ EventsSorted /\ eventQ \in [Dispatchers -> Seq(Events)]
      /\ event \in [Events -> EventRecord]
  BY TypeFacts DEF Queueing
<1>1. /\ evs \in [Events -> LateEvent] /\ \A x \in Events : evs[x].due \in Nat
      /\ \A x \in Events : Later(evs[x].due) \in 0..MaxPeriod
  <2>1. evs \in [Events -> LateEvent] /\ \A x \in Events : evs[x].due \in Nat
    BY DEF Schedulable, LateEvent
  <2>2. \A x \in Events : Later(evs[x].due) \in Nat
    BY <1>0, <2>1, LaterProps
  <2> QED
    BY <2>1, <2>2, PeriodAssumed DEF Schedulable
<1>2. eventQ' \in [Dispatchers -> Seq(Events)]
      /\ \A y \in Dispatchers : eventQ'[y] = IF y = d THEN q ELSE eventQ[y]
  BY <1>0
<1>3. CASE d \in destroyed
  <2>1. /\ event' = evs /\ UNCHANGED queues
        /\ es' = [es EXCEPT !.counted = es.counted \/ counts]
    BY <1>3 DEF Schedules
  <2>2. es.counted \/ counts \in BOOLEAN
    BY <1>0 DEF EsRecord
  <2>3. ClockKept(evs)
    BY <1>0, <2>1, <2>2, CountedProps, ClockSame
  <2>4. \A y \in Dispatchers : \A x \in Range(eventQ'[y]) :
            x \in Range(eventQ[y]) /\ evs[x].due = event[x].due
    BY <1>2, <1>3 DEF Range
  <2>5. queues'["ready"] = <<>>
    BY <2>1 DEF Covered
  <2> QED
    BY <1>0, <1>1, <1>2, <2>1, <2>3, <2>4, <2>5, CoveredSame
<1>4. CASE d \notin destroyed
  <2>1. ~isRunning(d) /\ Target(d, q, evs) = "wait" /\ ~Sooner(q, evs)
    BY <1>4 DEF MustWake
  <2>2. event' = Forward(evs) /\ TimeRead(counts) /\ queues' = queueDispatcher("wait", d)
    BY <1>4, <2>1 DEF Schedules
  <2>3. ClockKept(evs)
    BY <1>0, <1>1, <2>2, ClockRead
  <2>4. q # <<>>
    BY <2>1 DEF Target
  <2>5. PICK h \in Events : h = Head(q)
    BY <2>4, RangeNotEmpty
  <2>6. es.sleep # Never /\ es.sleep <= Later(evs[h].due) + es.late
    <3>1. ~(Later(evs[h].due) < IF es.willAwake = Never THEN Never ELSE Later(es.willAwake))
      BY <2>1, <2>5 DEF Sooner
    <3>2. es.willAwake # Never
      BY <1>1, <3>1, PeriodAssumed
    <3>3. Later(es.willAwake) \in Nat
      BY <1>0, LaterProps, PeriodAssumed DEF EsRecord
    <3>4. Later(es.willAwake) <= Later(evs[h].due)
      BY <1>1, <3>1, <3>2, <3>3, PeriodAssumed
    <3>5. es.sleep # Never /\ es.sleep <= Later(es.willAwake) + es.late
      BY <3>2 DEF Covered
    <3>6. es.sleep \in Nat /\ es.late \in Nat /\ Later(evs[h].due) \in Nat
      BY <1>0, <1>1, PeriodAssumed DEF EsRecord
    <3> QED
      BY <3>3, <3>4, <3>5, <3>6
  <2>7. /\ queues' \in [QueueNames -> Seq(Dispatchers)]
        /\ \A r \in QueueNames, x \in Dispatchers :
              x \in Range(queues'[r]) <=> IF x = d THEN r = "wait" ELSE On(r, x)
    <3>1. "wait" \in QueueNames
      BY DEF QueueNames
    <3> QED
      BY <1>0, <2>2, <3>1, QueueProps, ZenonT(40)
  <2>8. queues'["ready"] = <<>>
    <3> SUFFICES ASSUME queues'["ready"] # <<>> PROVE FALSE
      OBVIOUS
    <3>1. queues'["ready"] \in Seq(Dispatchers) /\ "ready" \in QueueNames
      BY <2>7 DEF QueueNames
    <3>2. PICK x \in Dispatchers : x \in Range(queues'["ready"])
      BY <3>1, RangeNotEmpty
    <3>3. On("ready", x)
      BY <2>7, <3>1, <3>2
    <3> QED
      BY <3>3 DEF Covered, On, Range
  <2>9. ASSUME NEW x \in Range(queues'["wait"]), eventQ'[x] # <<>>
        PROVE  /\ es'.sleep # Never
               /\ es'.sleep <= Later(event[Head(eventQ[x])].due)' + es'.late
    <3>0. "wait" \in QueueNames /\ queues'["wait"] \in Seq(Dispatchers)
      BY <2>7 DEF QueueNames
    <3>1. x \in Dispatchers
      BY <3>0, RangeTyped
    <3>2. es'.sleep = es.sleep /\ es'.late = es.late
      BY <2>3 DEF ClockKept
    <3>3. CASE x = d
      <4>1. Head(eventQ'[x]) = h /\ Later(event[h].due)' = Later(evs[h].due)
        BY <1>2, <2>3, <2>5, <3>3 DEF ClockKept
      <4> QED
        BY <2>6, <3>2, <4>1
    <3>4. CASE x # d
      <4>1. eventQ'[x] = eventQ[x] /\ x \in Range(queues["wait"])
        BY <1>2, <2>7, <3>0, <3>1, <3>4 DEF On
      <4>2. PICK g \in Events : g = Head(eventQ[x]) /\ g \in Range(eventQ[x])
        BY <1>0, <2>9, <3>1, <4>1, RangeNotEmpty
      <4>3. es.sleep # Never /\ es.sleep <= Later(event[g].due) + es.late
        BY <2>9, <4>1, <4>2 DEF Covered
      <4>4. Later(event[g].due)' = Later(event[g].due)
        BY <2>3, <3>1, <3>4, <4>2 DEF ClockKept
      <4> QED
        BY <3>2, <4>1, <4>2, <4>3, <4>4
    <3> QED
      BY <3>3, <3>4
  <2>10. es'.sleep = Never <=> es'.willAwake = Never
    BY <2>3 DEF ClockKept, Covered
  <2>11. es'.sleep # Never => es'.sleep <= Later(es.willAwake)' + es'.late
    BY <2>3 DEF ClockKept, Covered
  <2> QED
    BY <2>8, <2>9, <2>10, <2>11 DEF Covered
<1> QED
  BY <1>3, <1>4

\* What mprScheduleDispatcher does to the sleep itself: nothing
LEMMA SchedulesSleep ==
    ASSUME Queueing, NEW d, NEW q, NEW evs, NEW counts \in BOOLEAN, Schedules(d, q, evs, counts)
    PROVE  es'.sleep = es.sleep /\ es'.waiting = es.waiting
<1>0. es \in EsRecord /\ (es.counted \/ counts) \in BOOLEAN
  BY TypeFacts DEF Queueing, EsRecord
<1>1. CASE TimeRead(counts)
  BY <1>0, <1>1, TimeReadProps
<1>2. CASE es' = [es EXCEPT !.counted = es.counted \/ counts]
  BY <1>0, <1>2, CountedProps
<1> QED
  BY <1>1, <1>2 DEF Schedules

LEMMA SleepQueueEvent ==
    ASSUME Queueing, QueuesEvent, UNCHANGED destroyed, DataTypes'
    PROVE  /\ es'.sleep = es.sleep /\ es'.waiting = es.waiting /\ (woken => woken')
           /\ Covered /\ es.waiting /\ ~woken' => Covered'
<1>0. /\ es \in EsRecord /\ EventsHome /\ eventQ \in [Dispatchers -> Seq(Events)]
      /\ eventQ' \in [Dispatchers -> Seq(Events)]
      /\ queues' \in [QueueNames -> Seq(Dispatchers)]
  BY TypeFacts DEF Queueing, DataTypes
<1>1. PICK d \in Dispatchers, e \in Events : \E evs :
        /\ Changed(e, evs) /\ mprQueueEvent(d, e, evs)
        /\ \A y \in Dispatchers : y # d => e \notin Range(eventQ[y])
  BY DEF QueuesEvent
<1>2. PICK evs :
        /\ Changed(e, evs) /\ mprQueueEvent(d, e, evs)
        /\ \A y \in Dispatchers : y # d => e \notin Range(eventQ[y])
  BY <1>1
<1>3. /\ evs \in [Events -> LateEvent] /\ \A x \in Events : evs[x].due \in Nat
      /\ \A x \in Events : x # e => evs[x] = event[x]
      /\ \A x \in Events : Later(evs[x].due) <= MaxPeriod
  BY <1>2 DEF Changed, Schedulable, LateEvent
<1>4. \A y \in Dispatchers : \A x \in Range(eventQ[y]) : x \in Events
  BY <1>0, RangeTyped
<1>5. CASE d \in destroyed
  <2>1. event' = evs /\ UNCHANGED <<queues, eventQ, es, woken>>
    BY <1>2, <1>5 DEF mprQueueEvent
  <2>2. ClockKept(evs)
    BY <2>1, ClockSame
  <2>3. eventQ[d] = <<>>
    BY <1>0, <1>5 DEF EventsHome
  <2>4. \A y \in Dispatchers : \A x \in Range(eventQ'[y]) :
            x \in Range(eventQ[y]) /\ evs[x].due = event[x].due
    BY <1>2, <1>3, <1>4, <2>1, <2>3 DEF Range
  <2>5. ASSUME Covered PROVE Covered'
    <3>1. queues'["ready"] = <<>>
      BY <2>1, <2>5 DEF Covered
    <3> QED
      BY <1>0, <1>3, <2>1, <2>2, <2>4, <2>5, <3>1, CoveredSame
  <2> QED
    BY <2>1, <2>5
<1>6. CASE d \notin destroyed
  <2> DEFINE q == Insert(Without(eventQ[d], e), e, evs)
             evs2 == [evs EXCEPT ![e].dispatcher = d]
  <2>1. /\ eventQ' = [eventQ EXCEPT ![d] = q] /\ Schedules(d, q, evs2, TRUE)
        /\ Wakes(d \notin destroyed /\ MustWake(d, q, evs2))
    BY <1>2, <1>6 DEF mprQueueEvent, mprScheduleDispatcher
  <2>2. /\ evs2 \in [Events -> LateEvent]
        /\ \A x \in Events : evs2[x].due = evs[x].due
    BY <1>3 DEF LateEvent
  <2> HIDE DEF q, evs2
  <2>3. Schedulable(evs2)
    BY <1>3, <2>2 DEF Schedulable
  <2>4. q \in Seq(Events)
    BY <1>0, <2>1
  <2>5. \A y \in Dispatchers : y # d =>
            \A x \in Range(eventQ[y]) : evs2[x].due = event[x].due
    BY <1>2, <1>3, <1>4, <2>2
  <2>6. es'.sleep = es.sleep /\ es'.waiting = es.waiting
    BY <2>1, SchedulesSleep
  <2>7. ASSUME Covered, es.waiting, ~woken' PROVE Covered'
    <3>1. ~MustWake(d, q, evs2)
      BY <1>6, <2>1, <2>7 DEF Wakes
    <3> QED
      BY <1>6, <2>1, <2>3, <2>4, <2>5, <2>7, <3>1, CoveredSchedule
  <2>8. woken => woken'
    BY <2>1 DEF Wakes
  <2> QED
    BY <2>6, <2>7, <2>8
<1> QED
  BY <1>5, <1>6

LEMMA DuesNatural ==
    Queueing => /\ \A x \in Events : event[x].due \in Nat
                /\ \A y \in Dispatchers : \A x \in Range(eventQ[y]) : x \in Events
<1> SUFFICES ASSUME Queueing
             PROVE  /\ \A x \in Events : event[x].due \in Nat
                    /\ \A y \in Dispatchers : \A x \in Range(eventQ[y]) : x \in Events
  OBVIOUS
<1>1. event \in [Events -> EventRecord] /\ eventQ \in [Dispatchers -> Seq(Events)]
  BY TypeFacts DEF Queueing
<1>2. \A x \in Events : event[x].due \in Nat
  BY <1>1, PeriodAssumed DEF EventRecord
<1>3. \A y \in Dispatchers : \A x \in Range(eventQ[y]) : x \in Events
  BY <1>1, RangeTyped
<1> QED
  BY <1>2, <1>3

\* Dispatchers leave queues and events leave theirs, and that is all
LEMMA CoveredFewer ==
    ASSUME Queueing, DataTypes', Covered, ClockKept(event'),
           \A q \in {"ready", "wait"}, d \in Dispatchers :
               d \in Range(queues'[q]) => On(q, d),
           \A d \in Dispatchers : \A x \in Range(eventQ'[d]) :
               x \in Range(eventQ[d]) /\ event'[x].due = event[x].due
    PROVE  Covered'
<1>1. /\ eventQ' \in [Dispatchers -> Seq(Events)]
      /\ queues' \in [QueueNames -> Seq(Dispatchers)] /\ event' \in [Events -> EventRecord]
  BY DEF DataTypes
<1>2. PICK evs : evs = event'
  OBVIOUS
<1>3. \A x \in Events : evs[x].due \in Nat
  BY <1>1, <1>2, PeriodAssumed DEF EventRecord
<1>4. queues'["ready"] = <<>>
  <2> SUFFICES ASSUME queues'["ready"] # <<>> PROVE FALSE
    OBVIOUS
  <2>1. queues'["ready"] \in Seq(Dispatchers)
    BY <1>1 DEF QueueNames
  <2>2. PICK x \in Dispatchers : x \in Range(queues'["ready"])
    BY <2>1, RangeNotEmpty
  <2> QED
    BY <2>2 DEF Covered, On, Range
<1>5. \A d \in Dispatchers : d \in Range(queues'["wait"]) => d \in Range(queues["wait"])
  BY DEF On
<1> QED
  BY <1>1, <1>2, <1>3, <1>4, <1>5, CoveredSame

LEMMA SleepApplication ==
    ASSUME Queueing, SleepInv,
           \/ \E e \in Events, d \in Dispatchers, period \in 0..MaxPeriod,
                 continuous \in BOOLEAN : mprCreateEvent(e, d, period, continuous)
           \/ \E t \in Threads, period \in 0..MaxPeriod : mprRescheduleEvent(t, period)
    PROVE  SleepInv'
<1>1. Keeps /\ QueuesEvent
  BY CreateKeeps, RescheduleKeeps
<1>2. UNCHANGED <<thread, destroyed>>
  BY DEF mprCreateEvent, mprRescheduleEvent
<1>3. /\ es'.sleep = es.sleep /\ es'.waiting = es.waiting /\ (woken => woken')
      /\ Covered /\ es.waiting /\ ~woken' => Covered'
  BY <1>1, <1>2, SleepQueueEvent DEF Keeps
<1>4. Calm
  BY <1>2, <1>3, CalmStill
<1> QED
  BY <1>3, <1>4, SleepsOn DEF Asleep

\* The event taken out of a queue may be the one the service would wake up for: then the
\* dispatcher is scheduled again, otherwise the sleep is shorter than it need be
LEMMA SleepRemove ==
    ASSUME Queueing, SleepInv, NEW e \in Events, mprRemoveEvent(e) PROVE SleepInv'
<1>0. /\ es \in EsRecord /\ EventsHome /\ eventQ \in [Dispatchers -> Seq(Events)]
      /\ event \in [Events -> EventRecord]
  BY TypeFacts DEF Queueing
<1>1. Keeps
  BY RemoveKeeps
<1>2. /\ Unlinked(e) \in [Events -> EventRecord]
      /\ \A x \in Events : Unlinked(e)[x].due = event[x].due
  BY <1>0, UnlinkedProps
<1>3. PICK evs \in [Events -> EventRecord] : evs = Unlinked(e)
  BY <1>2
<1>4. UNCHANGED <<thread, destroyed>> /\ event[e].dispatcher # Nobody
  BY DEF mprRemoveEvent
<1>5. PICK d \in Dispatchers : d = event[e].dispatcher
  BY <1>0, <1>4 DEF EventRecord
<1>6. PICK q : q = Without(eventQ[d], e)
  OBVIOUS
<1>7. /\ \A x \in Events : evs[x].due = event[x].due
      /\ \A y \in Dispatchers : \A x \in Range(eventQ[y]) : evs[x].due = event[x].due
  BY <1>2, <1>3, DuesNatural
<1>8. /\ q \in Seq(Events) /\ \A x : x \in Range(q) <=> x \in Range(eventQ[d]) /\ x # e
  BY <1>5, <1>6, <1>7, RestInOrder
<1>9. CASE q # <<>> /\ mprScheduleDispatcher(d, q, evs, FALSE)
  <2>1. /\ eventQ' = [eventQ EXCEPT ![d] = q] /\ Schedules(d, q, evs, FALSE)
        /\ Wakes(d \notin destroyed /\ MustWake(d, q, evs))
    BY <1>9 DEF mprScheduleDispatcher
  <2>2. Schedulable(evs)
    BY <1>0, TypedSchedulable
  <2>3. d \notin destroyed
    <3>1. eventQ[d] # <<>>
      BY <1>8, <1>9, RangeNotEmpty, SMTT(30) DEF Range
    <3> QED
      BY <1>0, <3>1 DEF EventsHome
  <2>4. es'.sleep = es.sleep /\ es'.waiting = es.waiting
    BY <2>1, SchedulesSleep
  <2>5. Calm
    BY <1>4, <2>1, <2>4, CalmStill DEF Wakes
  <2>6. ASSUME Covered, es.waiting, Asleep' PROVE Covered'
    <3>1. ~MustWake(d, q, evs)
      BY <2>1, <2>3, <2>6 DEF Wakes, Asleep
    <3> QED
      BY <1>7, <1>8, <2>1, <2>2, <2>3, <2>6, <3>1, CoveredSchedule, ZenonT(40)
  <2> QED
    BY <2>5, <2>6, SleepsOn
<1>10. CASE /\ eventQ' = [eventQ EXCEPT ![d] = q] /\ event' = evs
            /\ UNCHANGED <<queues, es, woken>>
  <2>1. Calm /\ ClockKept(event')
    BY <1>4, <1>10, CalmStill, ClockSame
  <2>2. \A y \in Dispatchers : \A x \in Range(eventQ'[y]) :
            x \in Range(eventQ[y]) /\ event'[x].due = event[x].due
    BY <1>0, <1>7, <1>8, <1>10
  <2>3. \A r \in {"ready", "wait"}, y \in Dispatchers : y \in Range(queues'[r]) => On(r, y)
    BY <1>10 DEF On
  <2>4. Covered => Covered'
    BY <1>1, <2>1, <2>2, <2>3, CoveredFewer DEF Keeps
  <2> QED
    BY <2>1, <2>4, SleepsOn
<1> QED
  BY <1>3, <1>5, <1>6, <1>9, <1>10 DEF mprRemoveEvent

LEMMA SleepEnable ==
    ASSUME Queueing, SleepInv, NEW e \in Events, NEW enable \in BOOLEAN,
           mprEnableContinuousEvent(e, enable)
    PROVE  SleepInv'
<1>0. event \in [Events -> EventRecord]
  BY TypeFacts DEF Queueing
<1>1. /\ UNCHANGED <<queues, eventQ, es, woken, thread>>
      /\ event' = [event EXCEPT ![e].continuous = enable]
  BY DEF mprEnableContinuousEvent, dispVars
<1>2. Keeps
  BY EnableKeeps
<1>3. \A x \in Events : event'[x].due = event[x].due
  BY <1>0, <1>1 DEF EventRecord
<1>4. Calm /\ ClockKept(event')
  BY <1>1, CalmStill, ClockSame
<1>5. \A y \in Dispatchers : \A x \in Range(eventQ'[y]) :
          x \in Range(eventQ[y]) /\ event'[x].due = event[x].due
  BY <1>1, <1>3, DuesNatural
<1>6. \A r \in {"ready", "wait"}, y \in Dispatchers : y \in Range(queues'[r]) => On(r, y)
  BY <1>1 DEF On
<1>7. Covered => Covered'
  BY <1>2, <1>4, <1>5, <1>6, CoveredFewer DEF Keeps
<1> QED
  BY <1>4, <1>7, SleepsOn

LEMMA SleepDestroy ==
    ASSUME Queueing, SleepInv, NEW d \in Dispatchers, mprDestroyDispatcher(d) PROVE SleepInv'
<1>0. /\ event \in [Events -> EventRecord] /\ queues \in [QueueNames -> Seq(Dispatchers)]
      /\ QueuesDistinct /\ eventQ \in [Dispatchers -> Seq(Events)]
  BY TypeFacts DEF Queueing
<1>1. /\ UNCHANGED thread /\ queues' = dequeueDispatcher(d)
      /\ eventQ' = [eventQ EXCEPT ![d] = <<>>]
      /\ \/ event' = freeEvents(d) /\ UNCHANGED es
         \/ event' = Forward(freeEvents(d)) /\ TimeRead(FALSE)
  BY DEF mprDestroyDispatcher
<1>2. woken => woken'
  BY DEF mprDestroyDispatcher, Wakes
<1>3. DataTypes'
  BY DestroyKeeps DEF Keeps
<1>4. PICK evs \in [Events -> EventRecord] : evs = freeEvents(d)
  BY <1>0, FreeEventsProps
<1>a. \A x \in Events : evs[x].due = event[x].due /\ evs[x].due \in Nat
  <2>1. \A x \in Events : freeEvents(d)[x].due = event[x].due
    BY <1>0, FreeEventsProps
  <2>2. \A x \in Events : event[x].due \in Nat
    BY <1>0, PeriodAssumed DEF EventRecord
  <2> QED
    BY <1>4, <2>1, <2>2
<1>5. ClockKept(evs)
  <2>1. CASE event' = freeEvents(d) /\ UNCHANGED es
    BY <1>4, <2>1, ClockSame
  <2>2. CASE event' = Forward(freeEvents(d)) /\ TimeRead(FALSE)
    <3>1. evs \in [Events -> LateEvent] /\ es \in EsRecord
      BY EventIsLate, TypeFacts DEF Queueing
    <3> QED
      BY <1>4, <2>2, <3>1, ClockRead
  <2> QED
    BY <1>1, <2>1, <2>2
<1>b. Calm
  BY <1>1, <1>2, <1>5, CalmStill DEF ClockKept
<1>6. \A y \in Dispatchers : \A x \in Range(eventQ'[y]) :
          x \in Range(eventQ[y]) /\ evs[x].due = event[x].due
  <2>1. \A y \in Dispatchers : \A x \in Range(eventQ'[y]) : x \in Range(eventQ[y])
    <3>1. \A y \in Dispatchers : eventQ'[y] = IF y = d THEN <<>> ELSE eventQ[y]
      BY <1>0, <1>1
    <3>2. Range(<<>>) = {}
      BY DEF Range
    <3> QED
      BY <3>1, <3>2
  <2> QED
    BY <1>a, <2>1, DuesNatural
<1>7. \A r \in {"ready", "wait"}, y \in Dispatchers : y \in Range(queues'[r]) => On(r, y)
  <2>1. {"ready", "wait"} \subseteq QueueNames
    BY DEF QueueNames
  <2> QED
    BY <1>0, <1>1, <2>1, DequeueProps
<1>8. ASSUME Covered PROVE Covered'
  <2>1. /\ eventQ' \in [Dispatchers -> Seq(Events)]
        /\ queues' \in [QueueNames -> Seq(Dispatchers)]
    BY <1>3 DEF DataTypes
  <2>2. queues'["ready"] \in Seq(Dispatchers)
    BY <2>1 DEF QueueNames
  <2>3. queues'["ready"] = <<>>
    <3> SUFFICES ASSUME queues'["ready"] # <<>> PROVE FALSE
      OBVIOUS
    <3>1. PICK y \in Dispatchers : y \in Range(queues'["ready"])
      BY <2>2, RangeNotEmpty
    <3>2. On("ready", y)
      BY <1>7, <3>1
    <3>3. Range(<<>>) = {}
      BY DEF Range
    <3> QED
      BY <1>8, <3>2, <3>3 DEF Covered, On
  <2>4. \A y \in Dispatchers : y \in Range(queues'["wait"]) => y \in Range(queues["wait"])
    BY <1>7 DEF On
  <2> QED
    BY <1>5, <1>6, <1>8, <1>a, <2>1, <2>3, <2>4, CoveredSame
<1> QED
  BY <1>8, <1>b, SleepsOn

LEMMA SleepNull ==
    ASSUME Queueing, SleepInv, NEW e \in Events, DispatcherIsNull(e) PROVE SleepInv'
<1>0. es \in EsRecord
  BY TypeFacts DEF Queueing
<1>1. /\ UNCHANGED <<queues, eventQ, event, woken, thread>>
      /\ es' = [es EXCEPT !.crashed = TRUE]
  BY DEF DispatcherIsNull, dispVars
<1>2. /\ es'.lag = es.lag /\ es'.willAwake = es.willAwake /\ es'.sleep = es.sleep
      /\ es'.late = es.late /\ es'.waiting = es.waiting
  BY <1>0, <1>1 DEF EsRecord
<1>3. Calm
  BY <1>1, <1>2, CalmStill
<1>4. Covered => Covered'
  BY <1>1, <1>2 DEF Covered, Later
<1> QED
  BY <1>3, <1>4, SleepsOn

\* A tick shortens what is left of the sleep and of every time alike
LEMMA SleepTick ==
    ASSUME Queueing, SleepInv, Tick PROVE SleepInv'
<1>0. /\ es \in EsRecord /\ eventQ \in [Dispatchers -> Seq(Events)]
      /\ queues \in [QueueNames -> Seq(Dispatchers)] /\ event \in [Events -> EventRecord]
  BY TypeFacts DEF Queueing
<1>1. UNCHANGED <<queues, eventQ, event, woken, thread>>
  BY DEF Tick, dispVars
<1>2. /\ es'.willAwake = es.willAwake /\ es'.waiting = es.waiting /\ es'.late = es.late
      /\ es'.lag = IF es.lag < MaxPeriod THEN es.lag + 1 ELSE es.lag
      /\ es'.sleep = IF es.sleep \in 1..MaxPeriod THEN es.sleep - 1 ELSE es.sleep
  BY TickProps
<1>3. /\ es.lag \in Nat /\ es.sleep \in Nat /\ es.late \in Nat /\ es.willAwake \in Nat
      /\ es.sleep <= Never
  BY <1>0, PeriodAssumed DEF EsRecord
<1>4. Calm
  BY <1>1, <1>2, <1>3, PeriodAssumed DEF Calm
<1>5. /\ es'.sleep = Never <=> es.sleep = Never
      /\ es'.sleep > 0 /\ es.sleep # Never => es'.sleep = es.sleep - 1
  BY <1>2, <1>3, PeriodAssumed
<1>6. ASSUME NEW x \in Nat, es'.sleep > 0, es.sleep # Never, es.sleep <= Later(x) + es.late
      PROVE  es'.sleep <= (IF x > es'.lag THEN x - es'.lag ELSE 0) + es'.late
  BY <1>2, <1>3, <1>5, <1>6 DEF Later
<1>7. ASSUME Covered, Asleep' PROVE Covered'
  <2>1. es'.sleep > 0
    BY <1>7 DEF Asleep
  <2>2. es'.sleep # Never => es'.sleep <= Later(es.willAwake)' + es'.late
    BY <1>2, <1>3, <1>5, <1>6, <1>7, <2>1 DEF Covered, Later
  <2>3. ASSUME NEW d \in Range(queues'["wait"]), eventQ'[d] # <<>>
        PROVE  /\ es'.sleep # Never
               /\ es'.sleep <= Later(event[Head(eventQ[d])].due)' + es'.late
    <3>1. d \in Dispatchers /\ d \in Range(queues["wait"]) /\ eventQ[d] # <<>>
      BY <1>0, <1>1, <2>3, RangeTyped DEF QueueNames
    <3>2. PICK h \in Events : h = Head(eventQ[d])
      BY <1>0, <3>1, RangeNotEmpty
    <3>3. event[h].due \in Nat
      BY DuesNatural
    <3>4. es.sleep # Never /\ es.sleep <= Later(event[h].due) + es.late
      BY <1>7, <3>1, <3>2 DEF Covered
    <3>5. es'.sleep <= (IF event[h].due > es'.lag THEN event[h].due - es'.lag ELSE 0) + es'.late
      BY <1>6, <2>1, <3>3, <3>4
    <3> QED
      BY <1>1, <1>5, <3>2, <3>4, <3>5 DEF Later
  <2> QED
    BY <1>1, <1>2, <1>5, <1>7, <2>2, <2>3 DEF Covered
<1> QED
  BY <1>4, <1>7, SleepsOn

\* The service is awake while it runs events itself
LEMMA SleepGetNext ==
    ASSUME Queueing, SleepInv, NEW t \in Threads, mprGetNextEvent(t) PROVE SleepInv'
<1>0. OwnershipTypes
  BY TypeFacts DEF Queueing
<1>1. /\ Keeps /\ UNCHANGED event
      /\ \/ Goes(t, thread[t].back) /\ UNCHANGED eventQ
         \/ \E e \in Events : Taken(t, e)
  BY GetNextKeeps
<1>2. thread[t].pc = "next" /\ UNCHANGED <<queues, es, woken>>
  BY DEF mprGetNextEvent, dispVars
<1>3. /\ \A u \in Threads : u # t => thread'[u] = thread[u]
      /\ thread'[t].pc \in {thread[t].back, "proc"}
      /\ \A y \in Dispatchers : \A x \in Range(eventQ'[y]) : x \in Range(eventQ[y])
  <2>1. ASSUME Goes(t, thread[t].back), UNCHANGED eventQ PROVE <1>3!:
    BY <1>0, <2>1, Going
  <2>2. ASSUME NEW e \in Events, Taken(t, e) PROVE <1>3!:
    BY <2>2 DEF Taken
  <2> QED
    BY <1>1, <2>1, <2>2
<1>4. thread[t].back # "io"
  BY <1>0 DEF OwnershipTypes, ThreadRecord, Callers
<1>5. Calm
  BY <1>2, <1>3, <1>4, CalmThread
<1>6. ClockKept(event')
  BY <1>2, ClockSame
<1>7. \A r \in {"ready", "wait"}, y \in Dispatchers : y \in Range(queues'[r]) => On(r, y)
  BY <1>2 DEF On
<1>8. Covered => Covered'
  BY <1>1, <1>3, <1>6, <1>7, CoveredFewer DEF Keeps
<1> QED
  BY <1>5, <1>8, SleepsOn

LEMMA SleepRequeue ==
    ASSUME Queueing, SleepInv, NEW t \in Threads, Requeue(t) PROVE SleepInv'
<1>0. OwnershipTypes
  BY TypeFacts DEF Queueing
<1>1. Keeps /\ QueuesEvent
  BY RequeueKeeps
<1>2. /\ UNCHANGED destroyed /\ thread[t].pc = "requeue"
      /\ thread' = [thread EXCEPT ![t].pc = "count", ![t].e = Nobody]
  BY DEF Requeue
<1>3. \A u \in Threads : u # t => thread'[u] = thread[u]
  BY <1>0, <1>2, PuttingDown
<1>4. thread'[t].pc = "count"
  BY <1>0, <1>2, PuttingDown
<1>5. /\ es'.sleep = es.sleep /\ es'.waiting = es.waiting /\ (woken => woken')
      /\ Covered /\ es.waiting /\ ~woken' => Covered'
  BY <1>1, <1>2, SleepQueueEvent DEF Keeps
<1>6. Calm
  BY <1>2, <1>3, <1>4, <1>5, CalmThread
<1> QED
  BY <1>5, <1>6, SleepsOn DEF Asleep

\* Steps of other threads that touch at most the clock and take dispatchers off queues
LEMMA SleepQuietly ==
    ASSUME Queueing, SleepInv, DataTypes', NEW t \in Threads,
           \A u \in Threads : u # t => thread'[u] = thread[u],
           thread[t].pc \notin {"wake", "io"}, thread'[t].pc # "io",
           UNCHANGED eventQ, woken => woken',
           \A q \in {"ready", "wait"}, d \in Dispatchers : d \in Range(queues'[q]) => On(q, d),
           \/ UNCHANGED <<event, es>>
           \/ UNCHANGED event /\ es' = [es EXCEPT !.counted = TRUE]
           \/ TimeRead(FALSE) /\ event' = Forward(event)
    PROVE  SleepInv'
<1>0. /\ es \in EsRecord /\ event \in [Events -> EventRecord]
      /\ event \in [Events -> LateEvent] /\ eventQ \in [Dispatchers -> Seq(Events)]
      /\ queues \in [QueueNames -> Seq(Dispatchers)]
  BY TypeFacts, EventIsLate DEF Queueing
<1>1. ClockKept(event)
  <2>1. CASE UNCHANGED <<event, es>>
    BY <2>1, ClockSame
  <2>2. CASE UNCHANGED event /\ es' = [es EXCEPT !.counted = TRUE]
    BY <1>0, <2>2, CountedProps, ClockSame
  <2>3. CASE TimeRead(FALSE) /\ event' = Forward(event)
    BY <1>0, <2>3, ClockRead
  <2> QED
    BY <2>1, <2>2, <2>3
<1>2. Calm
  BY <1>1, CalmThread DEF ClockKept
<1>3. ASSUME Covered PROVE Covered'
  <2>1. /\ eventQ' \in [Dispatchers -> Seq(Events)]
        /\ queues' \in [QueueNames -> Seq(Dispatchers)]
    BY DEF DataTypes
  <2>2. PICK evs : evs = event
    OBVIOUS
  <2>3. ClockKept(evs) /\ \A x \in Events : evs[x].due \in Nat
    BY <1>1, <2>2, DuesNatural
  <2>4. queues'["ready"] = <<>>
    <3> SUFFICES ASSUME queues'["ready"] # <<>> PROVE FALSE
      OBVIOUS
    <3>1. queues'["ready"] \in Seq(Dispatchers)
      BY <2>1 DEF QueueNames
    <3>2. PICK x \in Dispatchers : x \in Range(queues'["ready"])
      BY <3>1, RangeNotEmpty
    <3> QED
      BY <1>3, <3>2 DEF Covered, On, Range
  <2>5. \A d \in Dispatchers : d \in Range(queues'["wait"]) => d \in Range(queues["wait"])
    BY DEF On
  <2>6. \A d \in Dispatchers : \A x \in Range(eventQ'[d]) :
            x \in Range(eventQ[d]) /\ evs[x].due = event[x].due
    BY <2>2
  <2> QED
    BY <1>3, <2>1, <2>3, <2>4, <2>5, <2>6, CoveredSame
<1> QED
  BY <1>2, <1>3, SleepsOn

LEMMA SleepHasRun ==
    ASSUME Queueing, SleepInv, NEW t \in Threads, ProcReturns(t) \/ EventHasRun(t) \/ Count(t)
    PROVE  SleepInv'
<1>0. OwnershipTypes /\ thread[t].back # "io"
  BY TypeFacts DEF Queueing, OwnershipTypes, ThreadRecord, Callers
<1>1. DataTypes'
  BY HasRunKeeps, HelperTypes DEF Keeps
<1>2. /\ UNCHANGED <<queues, eventQ, event, woken>>
      /\ UNCHANGED es \/ es' = [es EXCEPT !.counted = TRUE]
      /\ thread[t].pc \in {"proc", "ran", "count"}
  BY DEF ProcReturns, EventHasRun, Count, dispVars
<1>3. \/ \E pc \in {"ran", "requeue"} : Goes(t, pc)
      \/ \E pc \in {"count", thread[t].back} :
            thread' = [thread EXCEPT ![t].pc = pc, ![t].e = Nobody]
      \/ Count(t)
  BY DEF ProcReturns, EventHasRun
<1>4. /\ \A u \in Threads : u # t => thread'[u] = thread[u]
      /\ thread'[t].pc \in {"ran", "requeue", "next", "count", thread[t].back}
  BY <1>0, <1>3, Going, PuttingDown, Counting
<1>5. \A q \in {"ready", "wait"}, d \in Dispatchers : d \in Range(queues'[q]) => On(q, d)
  BY <1>2 DEF On
<1>6. thread[t].pc \notin {"wake", "io"} /\ thread'[t].pc # "io"
  BY <1>0, <1>2, <1>4
<1> QED
  BY <1>1, <1>2, <1>4, <1>5, <1>6, SleepQuietly

\* A worker that has scheduled its dispatcher is on its way to wake the service if it must;
\* until it has, the service does not count as asleep
LEMMA SleepHelper ==
    ASSUME Queueing, SleepInv, NEW t \in Threads, HelperEnds(t) PROVE SleepInv'
<1>0. /\ OwnershipTypes /\ es \in EsRecord /\ event \in [Events -> EventRecord]
      /\ queues \in [QueueNames -> Seq(Dispatchers)] /\ QueuesDistinct /\ EventsHome
      /\ eventQ \in [Dispatchers -> Seq(Events)]
  BY TypeFacts DEF Queueing
<1>1. DataTypes'
  BY HelperTypes
<1>2. CASE releaseDispatcher(t) \/ HelperDequeues(t)
  <2>1. /\ UNCHANGED <<eventQ, event, es, woken>> /\ thread[t].pc \in {"release", "dequeue"}
        /\ Leaves(t) \/ \E pc \in {"dequeue", "schedule"} : Goes(t, pc)
        /\ \/ UNCHANGED queues
           \/ thread[t].pc = "dequeue" /\ queues' = dequeueDispatcher(thread[t].d)
    BY <1>2 DEF releaseDispatcher, HelperDequeues
  <2>2. /\ \A u \in Threads : u # t => thread'[u] = thread[u]
        /\ thread'[t].pc \in {"get", "leave", "dequeue", "schedule"}
    BY <1>0, <2>1, Going, Leaving
  <2>3. \A q \in {"ready", "wait"}, d \in Dispatchers : d \in Range(queues'[q]) => On(q, d)
    <3>1. {"ready", "wait"} \subseteq QueueNames
      BY DEF QueueNames
    <3>2. thread[t].pc = "dequeue" => thread[t].d \in Dispatchers
      BY DEF Queueing, HelpersHave
    <3> QED
      BY <1>0, <2>1, <3>1, <3>2, DequeueProps DEF On
  <2>4. thread[t].pc \notin {"wake", "io"} /\ thread'[t].pc # "io"
    BY <2>1, <2>2
  <2> QED
    BY <1>1, <2>1, <2>2, <2>3, <2>4, SleepQuietly
<1>3. CASE HelperSchedules(t)
  <2>1. thread[t].pc = "schedule" /\ UNCHANGED <<eventQ, woken, destroyed>>
    BY <1>3 DEF HelperSchedules
  <2>2. PICK d \in Dispatchers : d = thread[t].d
    BY <2>1 DEF Queueing, HelpersHave
  <2>3. PICK q \in Seq(Events) : q = eventQ[d]
    BY <1>0
  <2>4. PICK evs \in [Events -> EventRecord] : evs = event
    BY <1>0
  <2>5. /\ Schedules(d, q, evs, FALSE)
        /\ IF d \notin destroyed /\ MustWake(d, q, evs) THEN Goes(t, "wake") ELSE Leaves(t)
    BY <1>3, <2>2, <2>3, <2>4 DEF HelperSchedules
  <2>6. /\ \A u \in Threads : u # t => thread'[u] = thread[u]
        /\ thread'[t].pc \in {"wake", "get", "leave"}
        /\ d \notin destroyed /\ MustWake(d, q, evs) => thread'[t].pc = "wake"
    BY <1>0, <2>5, Going, Leaving
  <2>7. es'.sleep = es.sleep /\ es'.waiting = es.waiting
    BY <2>5, SchedulesSleep
  <2>8. Calm
    BY <2>1, <2>6, <2>7, CalmThread
  <2>9. ASSUME Covered, es.waiting, Asleep' PROVE Covered'
    <3>1. d \notin destroyed => ~MustWake(d, q, evs)
      BY <2>6, <2>9 DEF Asleep
    <3>2. Schedulable(evs)
      BY <1>0, TypedSchedulable
    <3>3. eventQ' = [eventQ EXCEPT ![d] = q] /\ (d \in destroyed => q = <<>>)
      BY <1>0, <2>1, <2>3 DEF EventsHome
    <3>4. \A y \in Dispatchers : y # d =>
              \A x \in Range(eventQ[y]) : evs[x].due = event[x].due
      BY <2>4
    <3> QED
      BY <2>5, <2>9, <3>1, <3>2, <3>3, <3>4, CoveredSchedule
  <2> QED
    BY <2>8, <2>9, SleepsOn
<1>4. CASE HelperWakes(t)
  <2>1. /\ thread[t].pc = "wake" /\ Leaves(t) /\ UNCHANGED es
        /\ woken' = (woken \/ (TRUE /\ es.waiting))
    BY <1>4 DEF HelperWakes, Wakes
  <2>2. /\ \A u \in Threads : u # t => thread'[u] = thread[u]
        /\ thread'[t].pc \in {"get", "leave"}
    BY <1>0, <2>1, Leaving
  <2>3. thread'[Service].pc = "io" => thread[Service].pc = "io"
    BY <2>2, ThreadsDistinct
  <2>4. Asleep' => FALSE
    BY <2>1, <2>3 DEF Asleep, SleepInv
  <2> QED
    BY <2>1, <2>3, <2>4 DEF SleepInv
<1> QED
  BY <1>2, <1>3, <1>4 DEF HelperEnds

LEMMA SleepWorker ==
    ASSUME Queueing, SleepInv, NEW w \in Workers, workerMain(w) PROVE SleepInv'
<1>0. OwnershipTypes /\ w \in Threads
  BY TypeFacts, ThreadsDistinct DEF Queueing
<1>1. DataTypes'
  BY WorkerTypes
<1>2. UNCHANGED <<queues, eventQ, event, es>> /\ (woken => woken')
  <2>1. UNCHANGED <<queues, eventQ, event, es>>
    BY DEF workerMain, WorkerStarts, WorkerLeaves, mprWakePendingDispatchers, WakePending,
           WorkerExits, dispVars
  <2>2. UNCHANGED woken \/ Wakes(TRUE)
    BY DEF workerMain, WorkerStarts, WorkerLeaves, mprWakePendingDispatchers, WakePending,
           WorkerExits
  <2>3. woken => woken'
    BY <2>2, Zenon DEF Wakes
  <2> QED
    BY <2>1, <2>3
<1>3. /\ thread[w].pc \in {"sleep", "leave", "pending", "poke"}
      /\ \/ UNCHANGED thread
         \/ \E pc \in {"pending", "poke", "sleep"} : Goes(w, pc)
         \/ Leaves(w)
         \/ Enters(w, job[w], "release")
  BY DEF workerMain, WorkerStarts, WorkerLeaves, mprWakePendingDispatchers, WakePending,
         WorkerExits, dispatchEventsHelper
<1>4. \A u \in Threads : u # w => thread'[u] = thread[u]
  BY <1>0, <1>3, Going, Leaving, Entering
<1>5. thread[w].pc \notin {"wake", "io"} /\ thread'[w].pc # "io"
  BY <1>0, <1>3, Going, Leaving, Entering
<1>6. \A q \in {"ready", "wait"}, d \in Dispatchers : d \in Range(queues'[q]) => On(q, d)
  BY <1>2 DEF On
<1> QED
  BY <1>0, <1>1, <1>2, <1>4, <1>5, <1>6, SleepQuietly

LEMMA SleepApp ==
    ASSUME Queueing, SleepInv, AppLoop PROVE SleepInv'
<1>0. OwnershipTypes /\ App \in Threads
  BY TypeFacts, ThreadsDistinct DEF Queueing
<1>1. DataTypes'
  BY AppTypes
<1>2. /\ UNCHANGED <<queues, eventQ, woken>>
      /\ UNCHANGED <<event, es>> \/ (TimeRead(FALSE) /\ event' = Forward(event))
      /\ thread[App].pc \in {"app", "looked", "tried", "cond", "wait"}
      /\ \/ \E pc \in {"app", "cond", "wait"} : Goes(App, pc)
         \/ \E d \in Dispatchers \cup {thread[App].d}, back \in {"looked", "tried"} :
               Enters(App, d, back)
  BY DEF AppLoop, mprWaitForEvent, AppLooked, AppTried, CondReturns, WaitReturns, dispVars
<1>3. \A u \in Threads : u # App => thread'[u] = thread[u]
  BY <1>0, <1>2, Going, Entering
<1>4. thread[App].pc \notin {"wake", "io"} /\ thread'[App].pc # "io"
  BY <1>0, <1>2, Going, Entering
<1>5. \A q \in {"ready", "wait"}, d \in Dispatchers : d \in Range(queues'[q]) => On(q, d)
  BY <1>2 DEF On
<1> QED
  BY <1>0, <1>1, <1>2, <1>3, <1>4, <1>5, SleepQuietly

\* How long the service decides to sleep
LEMMA SleepTicksCover ==
    ASSUME Queueing
    PROVE  /\ queues["ready"] # <<>> => SleepTicks = 0
           /\ queues["ready"] = <<>> =>
                 \A d \in Range(queues["wait"]) :
                     eventQ[d] # <<>> => /\ SleepTicks # Never
                                         /\ SleepTicks <= event[Head(eventQ[d])].due
<1> DEFINE waiters == {x \in Range(queues["wait"]) : eventQ[x] # <<>>}
           firsts == {event[Head(eventQ[x])].due : x \in waiters}
<1>1. /\ queues["wait"] \in Seq(Dispatchers)
      /\ eventQ \in [Dispatchers -> Seq(Events)] /\ event \in [Events -> EventRecord]
  BY TypeFacts DEF Queueing, QueueNames
<1>2. ASSUME NEW x \in waiters PROVE event[Head(eventQ[x])].due \in 0..MaxPeriod
  <2>1. x \in Dispatchers /\ eventQ[x] # <<>>
    BY <1>1, RangeTyped
  <2>2. Head(eventQ[x]) \in Events
    BY <1>1, <2>1, RangeNotEmpty
  <2> QED
    BY <1>1, <2>2 DEF EventRecord
<1>3. firsts \subseteq 0..MaxPeriod
  BY <1>2
<1>4. queues["ready"] # <<>> => SleepTicks = 0
  BY DEF SleepTicks
<1>5. ASSUME queues["ready"] = <<>>, NEW d \in Range(queues["wait"]), eventQ[d] # <<>>
      PROVE  SleepTicks # Never /\ SleepTicks <= event[Head(eventQ[d])].due
  <2>1. event[Head(eventQ[d])].due \in firsts
    BY <1>5
  <2>2. SleepTicks = Min(firsts)
    BY <1>5, <2>1 DEF SleepTicks
  <2> HIDE DEF firsts
  <2>3. firsts \in SUBSET Nat
    BY <1>3, PeriodAssumed
  <2>4. Min(firsts) \in firsts /\ \A n \in firsts : Min(firsts) <= n
    BY <2>1, <2>3, LeastExists
  <2>5. SleepTicks \in 0..MaxPeriod
    BY <1>3, <2>2, <2>4
  <2> QED
    BY <2>1, <2>2, <2>4, <2>5, PeriodAssumed
<1> QED
  BY <1>4, <1>5

LEMMA SleepIdle ==
    ASSUME Queueing, getIdleTicks PROVE SleepInv'
<1>0. /\ es \in EsRecord /\ eventQ \in [Dispatchers -> Seq(Events)]
      /\ queues["wait"] \in Seq(Dispatchers)
  BY TypeFacts DEF Queueing, QueueNames
<1>1. UNCHANGED <<queues, eventQ, event>>
  BY DEF getIdleTicks, dispVars
<1>2. PICK n \in 0..Never : n = SleepTicks
  BY SleepTicksType
<1>3. /\ es'.willAwake = n /\ es'.waiting /\ es'.sleep = n
      /\ es'.late = es.lag /\ es'.lag = es.lag
  BY <1>2, IdleTicksProps
<1>4. es.lag \in Nat /\ n \in Nat
  BY <1>0, <1>2, PeriodAssumed DEF EsRecord
<1>5. \A x \in Nat : n <= x => n <= (IF x > es'.lag THEN x - es'.lag ELSE 0) + es'.late
  BY <1>3, <1>4
<1>6. ASSUME Asleep' PROVE Covered'
  <2>1. queues["ready"] = <<>>
    <3>1. es'.sleep > 0
      BY <1>6 DEF Asleep
    <3> QED
      BY <1>2, <1>3, <3>1, SleepTicksCover
  <2>2. es'.sleep <= Later(es.willAwake)' + es'.late
    BY <1>3, <1>4, <1>5 DEF Later
  <2>3. ASSUME NEW d \in Range(queues'["wait"]), eventQ'[d] # <<>>
        PROVE  /\ es'.sleep # Never
               /\ es'.sleep <= Later(event[Head(eventQ[d])].due)' + es'.late
    <3>1. d \in Dispatchers /\ d \in Range(queues["wait"]) /\ eventQ[d] # <<>>
      BY <1>0, <1>1, <2>3, RangeTyped
    <3>2. PICK h \in Events : h = Head(eventQ[d])
      BY <1>0, <3>1, RangeNotEmpty
    <3>3. event[h].due \in Nat
      BY DuesNatural
    <3>4. n # Never /\ n <= event[h].due
      BY <1>2, <2>1, <3>1, <3>2, SleepTicksCover
    <3>5. n <= (IF event[h].due > es'.lag THEN event[h].due - es'.lag ELSE 0) + es'.late
      BY <1>5, <3>3, <3>4
    <3> QED
      BY <1>1, <1>3, <3>2, <3>4, <3>5 DEF Later
  <2> QED
    BY <1>1, <1>3, <2>1, <2>2, <2>3 DEF Covered
<1> QED
  BY <1>3, <1>6 DEF SleepInv

\* The other steps of the service leave it awake
LEMMA SleepService ==
    ASSUME Queueing, SleepInv, ServiceLoop PROVE SleepInv'
<1>0. OwnershipTypes /\ Service \in Threads
  BY TypeFacts, ThreadsDistinct DEF Queueing
<1>1. CASE getIdleTicks
  BY <1>1, SleepIdle
<1>2. ASSUME thread'[Service].pc # "io" PROVE SleepInv'
  BY <1>2 DEF SleepInv, Asleep
<1>3. CASE mprStartWorker
  <2>1. \/ Goes(Service, "failed")
        \/ thread' = [thread EXCEPT ![Service].pc = "get", ![Service].d = Nobody]
    BY <1>3 DEF mprStartWorker
  <2>2. thread'[Service].pc # "io"
    BY <1>0, <2>1, Going, Serving
  <2> QED
    BY <1>2, <2>2
<1>4. CASE getNextReadyDispatcher
  <2>1. \/ Goes(Service, "check")
        \/ \E d : thread' = [thread EXCEPT ![Service].pc = "claimed", ![Service].d = d]
    BY <1>4 DEF getNextReadyDispatcher
  <2>2. ASSUME Goes(Service, "check") PROVE thread'[Service].pc # "io"
    BY <1>0, <2>2, Going
  <2>3. ASSUME NEW d, thread' = [thread EXCEPT ![Service].pc = "claimed", ![Service].d = d]
        PROVE  thread'[Service].pc # "io"
    <3>1. thread'[Service].pc = "claimed"
      BY <1>0, <2>3, Serving
    <3> QED
      BY <3>1
  <2> QED
    BY <1>2, <2>1, <2>2, <2>3
<1>5. CASE QueuePending
  <2>1. thread' = [thread EXCEPT ![Service].pc = "check", ![Service].d = Nobody]
    BY <1>5 DEF QueuePending
  <2>2. thread'[Service].pc = "check"
    BY <1>0, <2>1, ThreadsDistinct DEF OwnershipTypes, ThreadRecord
  <2> QED
    BY <1>2, <2>2
<1>6. CASE \/ mprServiceEvents \/ RunClaimed \/ StartFailed \/ CheckCount
           \/ mprWaitForIO \/ PruneTimerDue \/ ReadClock \/ pruneWorkers
  <2>1. \/ \E pc \in ServicePlaces \ {"io"} : Goes(Service, pc)
        \/ Leaves(Service)
        \/ Enters(Service, thread[Service].d, "release")
    BY <1>6 DEF mprServiceEvents, RunClaimed, dispatchEventsHelper, StartFailed, CheckCount,
                mprWaitForIO, PruneTimerDue, ReadClock, pruneWorkers, ServicePlaces
  <2>2. thread'[Service].pc # "io"
    BY <1>0, <2>1, Going, Leaving, Entering
  <2> QED
    BY <1>2, <2>2
<1> QED
  BY <1>1, <1>3, <1>4, <1>5, <1>6 DEF ServiceLoop

LEMMA SleepStep == Queueing /\ SleepInv /\ [Next]_vars => SleepInv'
<1> SUFFICES ASSUME Queueing, SleepInv, [Next]_vars PROVE SleepInv'
  OBVIOUS
<1>1. CASE UNCHANGED vars
  BY <1>1 DEF vars, SleepInv, Asleep, Covered, Later
<1>2. CASE Next
  <2>1. TypeOK
    BY DEF Queueing
  <2>2. CASE Quiet
    BY <2>2, SleepHasRun, SleepHelper, SleepWorker, SleepService, SleepApp DEF Quiet
  <2> QED
    BY <1>2, <2>1, <2>2, NextCases, SleepApplication, SleepRemove, SleepEnable, SleepNull, SleepDestroy,
       SleepTick, SleepGetNext, SleepHasRun, SleepRequeue
<1> QED
  BY <1>1, <1>2

LEMMA SleepInit == Init => SleepInv
BY ThreadsDistinct DEF Init, SleepInv, Asleep

\* For any dispatchers, workers, events and periods no wake-up is lost: while the service
\* sleeps and nobody is about to wake it, nothing is ready, and it sleeps no longer than to
\* the first event of those that wait - but for the ticks es->now was late when it went to
\* sleep - although events are queued, moved and removed and dispatchers scheduled meanwhile.
THEOREM NoWakeUpLost == Spec => []SleepCovered
<1>1. Queueing /\ SleepInv => SleepCovered
  <2> SUFFICES ASSUME Queueing, SleepInv, Asleep PROVE
         /\ queues["ready"] = <<>>
         /\ \A d \in Range(queues["wait"]) :
               eventQ[d] # <<>> => es.sleep <= event[Head(eventQ[d])].due + es.late
    BY DEF SleepCovered
  <2>0. /\ es \in EsRecord /\ eventQ \in [Dispatchers -> Seq(Events)]
        /\ queues["wait"] \in Seq(Dispatchers)
    BY TypeFacts DEF Queueing, QueueNames
  <2>1. Covered
    BY DEF SleepInv
  <2>2. ASSUME NEW d \in Range(queues["wait"]), eventQ[d] # <<>>
        PROVE  es.sleep <= event[Head(eventQ[d])].due + es.late
    <3>1. d \in Dispatchers
      BY <2>0, RangeTyped
    <3>2. PICK h \in Events : h = Head(eventQ[d])
      BY <2>0, <2>2, <3>1, RangeNotEmpty
    <3>3. es.sleep <= Later(event[h].due) + es.late
      BY <2>1, <2>2, <3>2 DEF Covered
    <3>4. event[h].due \in Nat
      BY DuesNatural
    <3>5. Later(event[h].due) \in Nat /\ Later(event[h].due) <= event[h].due
      BY <2>0, <3>4, LaterProps
    <3>6. es.sleep \in Nat /\ es.late \in Nat
      BY <2>0, PeriodAssumed DEF EsRecord
    <3> QED
      BY <3>2, <3>3, <3>4, <3>5, <3>6
  <2> QED
    BY <2>1, <2>2 DEF Covered
<1> QED
  BY <1>1, SleepInit, SleepStep, QueueingInvariant, PTL DEF Spec
=============================================================================
