----------------------------- MODULE Dispatcher -----------------------------
(***************************************************************************)
(* Dispatchers, the event service and the worker threads of the MPR        *)
(* (src/mpr/mprLib.c: dispatcher.c, event.c, the workers of thread.c).     *)
(*                                                                         *)
(* A dispatcher is a queue of events that one thread at a time may run.    *)
(* The service thread (mprServiceEvents) looks for dispatchers with events *)
(* that are due and hands each of them to a worker thread; when there is   *)
(* none it is put on pendingQ; when there is nothing to do it sleeps.      *)
(* Worker threads (workerMain) run the events and schedule the dispatcher  *)
(* again.  An application thread may own a dispatcher itself and run its   *)
(* events with mprWaitForEvent.  Events are queued, changed and removed,   *)
(* and dispatchers destroyed, by any thread at any time.                   *)
(*                                                                         *)
(* What happens with the event service locked is one action; a thread may  *)
(* be overtaken wherever the code is outside of the lock.  Ticks are       *)
(* relative to es->now, so that time needs no bound: lag is how far        *)
(* es->now is behind the clock, due and willAwake how far they are ahead   *)
(* of es->now, and 0 is "now or earlier".                                  *)
(***************************************************************************)
EXTENDS Naturals, Sequences, FiniteSets, SequencesExt

CONSTANTS
    Dispatchers,    \* the dispatchers mprCreateDispatcher has created
    Workers,        \* the worker threads there can be
    Service,        \* the thread in mprServiceEvents
    App,            \* the thread that owns the started dispatchers
    Events,         \* the events that can be created
    Nobody,         \* no thread, dispatcher or event
    Reserved,       \* RESERVED_DISPATCHER, an owner
    MaxPeriod,      \* the longest period of an event, in ticks
    Scenarios       \* the applications and machines that are considered

Threads == Workers \cup {Service, App}

ASSUME ThreadsAssumption ==
    /\ Service \notin Workers \cup {App}
    /\ App \notin Workers
    /\ Nobody \notin Threads \cup {Reserved} \cup Dispatchers \cup Events
    /\ Reserved \notin Threads

ASSUME SetsAssumption ==
    /\ Scenarios \subseteq [mode : [Dispatchers -> {"pooled", "immediate", "started"}],
                             calls : SUBSET {"remove", "enable", "reschedule", "destroy",
                                             "continuous"},
                             events : SUBSET Events,
                             minThreads : Nat, maxThreads : Nat, cores : Nat]
    /\ MaxPeriod \in Nat \ {0}
    /\ IsFiniteSet(Dispatchers)

QueueNames == {"run", "ready", "wait", "idle", "pending"}

Never == MaxPeriod + 1      \* a delay of MPR_MAX_TIMEOUT

VARIABLES
    scenario,   \* what the application is like: who runs each dispatcher ("pooled":
                \* workers; "immediate": the service thread, after
                \* mprSetDispatcherImmediate; "started": App, after mprStartDispatcher),
                \* which calls it makes and which events it creates; ws->minThreads,
                \* ws->maxThreads and heap->stats.cpuCores
    queues,     \* the queues of dispatchers, the one queued last in front
    owner,      \* dispatcher->owner
    destroyed,  \* the dispatchers with MPR_DISPATCHER_DESTROYED
    waiting,    \* the dispatchers with MPR_DISPATCHER_WAITING
    cond,       \* the dispatchers whose condition variable is triggered
    eventQ,     \* dispatcher->eventQ, in the order of due
    event,      \* the MprEvent records
    es,         \* the event service, and whether the process has crashed
    woken,      \* mprWakeNotifier has made the break descriptor readable
    thread,     \* where each thread is, and with which dispatcher and event
    worker,     \* MprWorker.state
    job,        \* MprWorker.data: the dispatcher the worker was started for
    pruneTimer, \* ws->pruneTimer exists
    removed     \* history: was the event removed, and has it run since?

dispVars == <<queues, owner, destroyed, waiting, cond>>
workVars == <<worker, job, pruneTimer>>
vars == <<scenario, queues, owner, destroyed, waiting, cond, eventQ, event, es, woken, thread,
          worker, job, pruneTimer, removed>>

\* The places where a thread runs the events of a dispatcher
Dispatching == {"next", "proc", "ran", "requeue", "count", "release"}

ThreadPlaces == Dispatching \cup
    {"top", "get", "claimed", "start", "failed", "pend", "check", "idle", "io", "prune",
     "sleep", "dequeue", "schedule", "wake", "leave", "pending", "poke", "now", "app",
     "looked", "wait", "tried", "cond"}

\* Where dispatchEvents returns to
Callers == {"release", "looked", "tried"}

TypeOK ==
    /\ scenario \in Scenarios
    /\ queues \in [QueueNames -> Seq(Dispatchers)]
    /\ owner \in [Dispatchers -> Threads \cup {Nobody, Reserved}]
    /\ destroyed \subseteq Dispatchers
    /\ waiting \subseteq Dispatchers
    /\ cond \subseteq Dispatchers
    /\ eventQ \in [Dispatchers -> Seq(Events)]
    /\ event \in [Events -> [dispatcher : Dispatchers \cup {Nobody}, created : BOOLEAN,
                             continuous : BOOLEAN, period : 0..MaxPeriod, due : 0..MaxPeriod]]
    /\ es \in [lag : 0..MaxPeriod, willAwake : 0..Never, waiting : BOOLEAN,
               counted : BOOLEAN, sleep : 0..Never, late : 0..MaxPeriod,
               crashed : BOOLEAN]
    /\ woken \in BOOLEAN
    /\ thread \in [Threads -> [pc : ThreadPlaces, d : Dispatchers \cup {Nobody},
                               e : Events \cup {Nobody}, any : BOOLEAN,
                               back : Callers]]
    /\ worker \in [Workers -> {"none", "idle", "busy", "pruned"}]
    /\ job \in [Workers -> Dispatchers \cup {Nobody}]
    /\ pruneTimer \in BOOLEAN
    /\ removed \in [Events -> {"no", "quiet", "running", "again", "after"}]

-----------------------------------------------------------------------------
(***************************************************************************)
(* Queues of dispatchers and of events.                                    *)
(***************************************************************************)

Without(s, x) ==
    IF x \in Range(s) THEN RemoveAt(s, CHOOSE i \in DOMAIN s : s[i] = x) ELSE s

On(q, d) == d \in Range(queues[q])

isRunning(d) == On("run", d)

dequeueDispatcher(d) == [q \in QueueNames |-> Without(queues[q], d)]

queueDispatcher(name, d) ==
    [dequeueDispatcher(d) EXCEPT ![name] = <<d>> \o @]

\* Faulty variant of Later: a time that has passed is not taken as 0.
LaterUnclamped(x) == x - es.lag

\* A time relative to es->now, once es->now is the clock's time again
Later(x) == IF x > es.lag THEN x - es.lag ELSE 0

Forward(evs) == [e \in Events |-> [evs[e] EXCEPT !.due = Later(@)]]

\* The place of an event in a queue: behind the last one that is due no later
Insert(q, e, evs) ==
    LET prior == Max({0} \cup {i \in DOMAIN q : evs[q[i]].due <= evs[e].due})
    IN  InsertAt(q, prior + 1, e)

\* Faulty variant of Target: only a dispatcher with an event that is due is kept.
TargetForgets(d, q, evs) ==
    IF q # <<>> /\ Later(evs[Head(q)].due) = 0 THEN "ready" ELSE "idle"

\* The queue mprScheduleDispatcher moves d to when q is its queue of events
Target(d, q, evs) ==
    CASE q = <<>> -> "idle"
      [] q # <<>> /\ Later(evs[Head(q)].due) > 0 -> "wait"
      [] OTHER -> "ready"

\* Faulty variant of Sooner: the comparison is reversed.
SoonerReversed(q, evs) ==
    LET willAwake == IF es.willAwake = Never THEN Never ELSE Later(es.willAwake)
    IN  Later(evs[Head(q)].due) > willAwake

\* An event that is due later is worth a wake-up only if the service sleeps longer
Sooner(q, evs) ==
    LET willAwake == IF es.willAwake = Never THEN Never ELSE Later(es.willAwake)
    IN  Later(evs[Head(q)].due) < willAwake

MustWake(d, q, evs) ==
    \/ (isRunning(d) \/ Target(d, q, evs) # "wait") /\ es.waiting
    \/ ~isRunning(d) /\ Target(d, q, evs) = "wait" /\ Sooner(q, evs)

MustWakeCond(d, q, evs) ==
    /\ d \in waiting
    /\ isRunning(d) \/ Target(d, q, evs) # "wait" \/ Sooner(q, evs)

\* es->now = mprGetTicks()
TimeRead(counts) ==
    es' = [es EXCEPT !.lag = 0,
                     !.willAwake = IF @ = Never THEN Never ELSE Later(@),
                     !.counted = @ \/ counts]

\* mprScheduleDispatcher, up to the wake-up; q and evs are the events as the caller
\* leaves them
Schedules(d, q, evs, counts) ==
    IF d \in destroyed
    THEN /\ event' = evs
         /\ es' = [es EXCEPT !.counted = @ \/ counts]
         /\ UNCHANGED <<queues, cond>>
    ELSE /\ event' = Forward(evs)
         /\ TimeRead(counts)
         /\ queues' = IF isRunning(d) THEN queues
                                      ELSE queueDispatcher(Target(d, q, evs), d)
         /\ cond' = IF MustWakeCond(d, q, evs) THEN cond \cup {d} ELSE cond

\* mprWakeEventService
Wakes(must) == woken' = (woken \/ (must /\ es.waiting))

mprScheduleDispatcher(d, q, evs, counts) ==
    /\ eventQ' = [eventQ EXCEPT ![d] = q]
    /\ Schedules(d, q, evs, counts)
    /\ Wakes(d \notin destroyed /\ MustWake(d, q, evs))

mprQueueEvent(d, e, evs) ==
    IF d \in destroyed
    THEN event' = evs /\ UNCHANGED <<queues, cond, eventQ, es, woken>>
    ELSE mprScheduleDispatcher(d, Insert(Without(eventQ[d], e), e, evs),
                               [evs EXCEPT ![e].dispatcher = d], TRUE)

-----------------------------------------------------------------------------
(***************************************************************************)
(* Calls of application code, on any thread.                               *)
(***************************************************************************)

mprCreateEvent(e, d, period, continuous) ==
    /\ ~es.crashed /\ ~event[e].created
    /\ d \notin destroyed
    /\ mprQueueEvent(d, e,
           [event EXCEPT ![e] = [dispatcher |-> d, created |-> TRUE,
                                 continuous |-> continuous, period |-> period,
                                 due |-> es.lag + period]])
    /\ UNCHANGED <<scenario, owner, destroyed, waiting, thread, workVars, removed>>

\* The event is in the hands of a thread that has not finished with it
Running(e) == \E t \in Threads : thread[t].e = e

\* Faulty variant of Unlinked: the event stays continuous.
UnlinkedContinuous(e) == [event EXCEPT ![e].dispatcher = Nobody]

Unlinked(e) == [event EXCEPT ![e].dispatcher = Nobody, ![e].continuous = FALSE]

mprRemoveEvent(e) ==
    /\ ~es.crashed /\ "remove" \in scenario.calls
    /\ event[e].dispatcher # Nobody
    /\ LET d == event[e].dispatcher
           q == Without(eventQ[d], e)
       IN  IF event[e].due = es.willAwake /\ q # <<>>
           THEN mprScheduleDispatcher(d, q, Unlinked(e), FALSE)
           ELSE /\ eventQ' = [eventQ EXCEPT ![d] = q]
                /\ event' = Unlinked(e)
                /\ UNCHANGED <<queues, cond, es, woken>>
    /\ removed' = [removed EXCEPT ![e] = IF Running(e) THEN "running" ELSE "quiet"]
    /\ UNCHANGED <<scenario, owner, destroyed, waiting, thread, workVars>>

\* mprStopContinuousEvent and mprEnableContinuousEvent
mprEnableContinuousEvent(e, enable) ==
    /\ ~es.crashed /\ "enable" \in scenario.calls
    /\ event[e].dispatcher # Nobody
    /\ event' = [event EXCEPT ![e].continuous = enable]
    /\ removed' = [removed EXCEPT ![e] = IF enable THEN "no" ELSE @]
    /\ UNCHANGED <<scenario, dispVars, eventQ, es, woken, thread, workVars>>

\* Made by the event's own callback, as all its callers do
mprRescheduleEvent(t, period) ==
    /\ ~es.crashed /\ "reschedule" \in scenario.calls
    /\ thread[t].pc = "proc"
    /\ LET e == thread[t].e
           d == event[e].dispatcher
       IN  /\ d # Nobody
           /\ mprQueueEvent(d, e, [event EXCEPT ![e].period = period, ![e].due = period])
           /\ removed' = [removed EXCEPT ![e] = "no"]
    /\ UNCHANGED <<scenario, owner, destroyed, waiting, thread, workVars>>

\* These calls do not test event->dispatcher, which is NULL once the event was removed or
\* its dispatcher destroyed: the process ends
DispatcherIsNull(e) ==
    /\ ~es.crashed /\ event[e].created /\ event[e].dispatcher = Nobody
    /\ \/ "enable" \in scenario.calls
       \/ /\ "reschedule" \in scenario.calls
          /\ \E t \in Threads : thread[t].pc = "proc" /\ thread[t].e = e
    /\ es' = [es EXCEPT !.crashed = TRUE]
    /\ UNCHANGED <<scenario, dispVars, eventQ, event, woken, thread, workVars, removed>>

\* The places in its queue where freeEvents, taking out one event after the other,
\* schedules the dispatcher for the rest of them
Reschedules(d) ==
    {i \in 1..(Len(eventQ[d]) - 1) : event[eventQ[d][i]].due = es.willAwake}

Rest(d, i) == SubSeq(eventQ[d], i + 1, Len(eventQ[d]))

freeEvents(d) ==
    [e \in Events |-> IF e \in Range(eventQ[d])
                      THEN [event[e] EXCEPT !.dispatcher = Nobody, !.continuous = FALSE]
                      ELSE event[e]]

mprDestroyDispatcher(d) ==
    /\ ~es.crashed /\ "destroy" \in scenario.calls
    /\ d \notin destroyed
    /\ IF Reschedules(d) = {} THEN event' = freeEvents(d) /\ UNCHANGED es
                              ELSE event' = Forward(freeEvents(d)) /\ TimeRead(FALSE)
    /\ eventQ' = [eventQ EXCEPT ![d] = <<>>]
    /\ queues' = dequeueDispatcher(d)
    /\ destroyed' = destroyed \cup {d}
    /\ cond' = IF \E i \in Reschedules(d) : MustWakeCond(d, Rest(d, i), event)
               THEN cond \cup {d} ELSE cond
    /\ Wakes(\E i \in Reschedules(d) : MustWake(d, Rest(d, i), event))
    /\ removed' = [e \in Events |-> IF e \in Range(eventQ[d]) THEN "quiet" ELSE removed[e]]
    /\ UNCHANGED <<scenario, owner, waiting, thread, workVars>>

\* The clock ticks.  A lag of MaxPeriod is as good as any longer one.
Tick ==
    /\ ~es.crashed /\ (es.lag < MaxPeriod \/ es.sleep \in 1..MaxPeriod)
    /\ es' = [es EXCEPT !.lag = IF @ < MaxPeriod THEN @ + 1 ELSE @,
                        !.sleep = IF @ \in 1..MaxPeriod THEN @ - 1 ELSE @]
    /\ UNCHANGED <<scenario, dispVars, eventQ, event, woken, thread, workVars, removed>>

-----------------------------------------------------------------------------
(***************************************************************************)
(* dispatchEvents: a thread runs the events of the dispatcher it owns.     *)
(***************************************************************************)

Goes(t, pc) == thread' = [thread EXCEPT ![t].pc = pc]

\* dispatchEvents(d) is called, and returns to back
Enters(t, d, back) ==
    thread' = [thread EXCEPT ![t] = [pc |-> "next", d |-> d, e |-> Nobody, any |-> FALSE,
                                     back |-> back]]

\* An event that was removed and is about to run
RunsRemoved(e) ==
    [removed EXCEPT ![e] = CASE @ = "running" -> "again"
                             [] @ \in {"quiet", "again"} -> "after"
                             [] OTHER -> @]

\* The first event of the dispatcher is due
Due(d) == eventQ[d] # <<>> /\ event[Head(eventQ[d])].due = 0

mprGetNextEvent(t) ==
    /\ ~es.crashed /\ thread[t].pc = "next"
    /\ \/ /\ Due(thread[t].d)
          /\ eventQ' = [eventQ EXCEPT ![thread[t].d] = Tail(@)]
          /\ \E e \in Events :
                /\ e = Head(eventQ[thread[t].d])
                /\ thread' = [thread EXCEPT ![t].pc = "proc", ![t].e = e]
                /\ removed' = RunsRemoved(e)
       \/ ~Due(thread[t].d) /\ Goes(t, thread[t].back) /\ UNCHANGED <<eventQ, removed>>
    /\ UNCHANGED <<scenario, dispVars, event, es, woken, workVars>>

\* The callback returns
ProcReturns(t) ==
    /\ ~es.crashed /\ thread[t].pc = "proc"
    /\ Goes(t, "ran")
    /\ UNCHANGED <<scenario, dispVars, eventQ, event, es, woken, workVars, removed>>

Queued(e) == \E d \in Dispatchers : e \in Range(eventQ[d])

\* The tests that follow, made without the lock
EventHasRun(t) ==
    /\ ~es.crashed /\ thread[t].pc = "ran"
    /\ LET e == thread[t].e
       IN  CASE thread[t].d \in destroyed ->
                    thread' = [thread EXCEPT ![t].pc = thread[t].back, ![t].e = Nobody]
             [] thread[t].d \notin destroyed /\ event[e].continuous /\ ~Queued(e) ->
                    Goes(t, "requeue")
             [] OTHER -> thread' = [thread EXCEPT ![t].pc = "count", ![t].e = Nobody]
    /\ UNCHANGED <<scenario, dispVars, eventQ, event, es, woken, workVars, removed>>

\* A continuous event is queued again
Requeue(t) ==
    /\ ~es.crashed /\ thread[t].pc = "requeue"
    /\ LET e == thread[t].e
           next == IF event[e].period > 0 THEN event[e].period ELSE 1
       IN  mprQueueEvent(thread[t].d, e, [event EXCEPT ![e].due = next])
    /\ thread' = [thread EXCEPT ![t].pc = "count", ![t].e = Nobody]
    /\ UNCHANGED <<scenario, owner, destroyed, waiting, workVars, removed>>

\* es->eventCount++, and count++ for the callers that test it
Count(t) ==
    /\ ~es.crashed /\ thread[t].pc = "count"
    /\ es' = [es EXCEPT !.counted = TRUE]
    /\ thread' = [thread EXCEPT ![t].pc = "next", ![t].any = (thread[t].back # "release")]
    /\ UNCHANGED <<scenario, dispVars, eventQ, event, woken, workVars, removed>>

\* Where a thread goes when dispatchEventsHelper returns
Finished(t) == IF t = Service THEN "get" ELSE "leave"

Leaves(t) ==
    thread' = [thread EXCEPT ![t] = [pc |-> Finished(t), d |-> Nobody, e |-> Nobody,
                                     any |-> FALSE, back |-> "release"]]

\* dispatchEventsHelper, up to dispatchEvents
dispatchEventsHelper(t, d) ==
    IF d \notin destroyed /\ owner[d] = Reserved
    THEN owner' = [owner EXCEPT ![d] = t] /\ Enters(t, d, "release")
    ELSE UNCHANGED owner /\ Leaves(t)

\* ... and after it, when the dispatcher was not destroyed meanwhile
releaseDispatcher(t) ==
    /\ ~es.crashed /\ thread[t].pc = "release"
    /\ IF thread[t].d \in destroyed
       THEN Leaves(t) /\ UNCHANGED owner
       ELSE /\ owner' = [owner EXCEPT ![thread[t].d] = Nobody]
            /\ Goes(t, "dequeue")
    /\ UNCHANGED <<scenario, queues, destroyed, waiting, cond, eventQ, event, es, woken, workVars,
                   removed>>

HelperDequeues(t) ==
    /\ ~es.crashed /\ thread[t].pc = "dequeue"
    /\ queues' = dequeueDispatcher(thread[t].d)
    /\ Goes(t, "schedule")
    /\ UNCHANGED <<scenario, owner, destroyed, waiting, cond, eventQ, event, es, woken, workVars,
                   removed>>

HelperSchedules(t) ==
    /\ ~es.crashed /\ thread[t].pc = "schedule"
    /\ LET d == thread[t].d
       IN  /\ Schedules(d, eventQ[d], event, FALSE)
           /\ IF d \notin destroyed /\ MustWake(d, eventQ[d], event)
              THEN Goes(t, "wake") ELSE Leaves(t)
    /\ UNCHANGED <<scenario, owner, destroyed, waiting, eventQ, woken, workVars, removed>>

HelperWakes(t) ==
    /\ ~es.crashed /\ thread[t].pc = "wake"
    /\ Wakes(TRUE)
    /\ Leaves(t)
    /\ UNCHANGED <<scenario, dispVars, eventQ, event, es, workVars, removed>>

-----------------------------------------------------------------------------
(***************************************************************************)
(* Worker threads.                                                         *)
(***************************************************************************)

InState(s) == {w \in Workers : worker[w] = s}

numThreads == Cardinality(Workers) - Cardinality(InState("none"))

\* Idle workers and those that could be created, limited by the cores that are free
mprAvailableWorkers ==
    LET busy == Cardinality(InState("busy"))
        idle == Cardinality(InState("idle"))
        spareThreads == scenario.maxThreads - busy - idle
        spareCores == scenario.cores - busy
    IN  IF busy >= scenario.cores THEN 0
        ELSE idle + (IF spareThreads < spareCores THEN spareThreads ELSE spareCores)

\* The worker that gets the work: an idle one, or a new thread
Candidates ==
    IF InState("idle") # {} THEN InState("idle")
    ELSE IF numThreads < scenario.maxThreads /\ mprAvailableWorkers # 0
         THEN InState("none")
    ELSE {}

\* An idle or new worker starts on the dispatcher it was given
WorkerStarts(w) ==
    /\ ~es.crashed /\ thread[w].pc = "sleep"
    /\ worker[w] = "busy"
    /\ dispatchEventsHelper(w, job[w])
    /\ job' = [job EXCEPT ![w] = Nobody]
    /\ UNCHANGED <<scenario, queues, destroyed, waiting, cond, eventQ, event, es, woken, worker,
                   pruneTimer, removed>>

\* changeState(worker, MPR_WORKER_IDLE): from here on the worker can be given work
WorkerLeaves(w) ==
    /\ ~es.crashed /\ thread[w].pc = "leave"
    /\ worker' = [worker EXCEPT ![w] = "idle"]
    /\ Goes(w, "pending")
    /\ UNCHANGED <<scenario, dispVars, eventQ, event, es, woken, job, pruneTimer, removed>>

\* mprWakePendingDispatchers looks at the queue ...
mprWakePendingDispatchers(w) ==
    /\ ~es.crashed /\ thread[w].pc = "pending"
    /\ Goes(w, IF queues["pending"] # <<>> THEN "poke" ELSE "sleep")
    /\ UNCHANGED <<scenario, dispVars, eventQ, event, es, woken, workVars, removed>>

\* ... and wakes the service once it has released the lock
WakePending(w) ==
    /\ ~es.crashed /\ thread[w].pc = "poke"
    /\ Wakes(TRUE)
    /\ Goes(w, "sleep")
    /\ UNCHANGED <<scenario, dispVars, eventQ, event, es, workVars, removed>>

\* A pruned worker's thread ends
WorkerExits(w) ==
    /\ ~es.crashed /\ thread[w].pc = "sleep"
    /\ worker[w] = "pruned"
    /\ worker' = [worker EXCEPT ![w] = "none"]
    /\ UNCHANGED <<scenario, dispVars, eventQ, event, es, woken, thread, job, pruneTimer, removed>>

-----------------------------------------------------------------------------
(***************************************************************************)
(* The service thread: the loop of mprServiceEvents.                       *)
(***************************************************************************)

ServiceUnchanged == UNCHANGED <<scenario, destroyed, waiting, cond, eventQ, event, woken, removed>>

mprServiceEvents ==
    /\ ~es.crashed /\ thread[Service].pc = "top"
    /\ es' = [es EXCEPT !.counted = FALSE]
    /\ Goes(Service, "get")
    /\ UNCHANGED <<scenario, dispVars, eventQ, event, woken, workVars, removed>>

\* The places in the waitQ of dispatchers with an event that is due.  An empty queue of
\* events counts as due.
DueWaiting ==
    {i \in DOMAIN queues["wait"] : LET d == queues["wait"][i] IN eventQ[d] = <<>> \/ Due(d)}

\* The queues once the first due dispatcher has been moved to an empty readyQ
Readied ==
    IF /\ queues["pending"] = <<>> \/ mprAvailableWorkers = 0
       /\ queues["ready"] = <<>>
       /\ DueWaiting # {}
    THEN queueDispatcher("ready", queues["wait"][Min(DueWaiting)])
    ELSE queues

\* The dispatcher that is next, if any
NextReady(qs) ==
    CASE qs["pending"] # <<>> /\ mprAvailableWorkers > 0 -> {Head(qs["pending"])}
      [] ~(qs["pending"] # <<>> /\ mprAvailableWorkers > 0) /\ qs["ready"] # <<>>
            -> {Head(qs["ready"])}
      [] OTHER -> {}

\* claimDispatcher by the service thread
Claimable(d) == d \notin destroyed /\ owner[d] \in {Nobody, Service}

getNextReadyDispatcher ==
    /\ ~es.crashed /\ thread[Service].pc = "get"
    /\ queues' = Readied
    /\ \/ \E d \in Dispatchers :
            /\ d \in NextReady(Readied) /\ Claimable(d)
            /\ owner' = [owner EXCEPT ![d] = Reserved]
            /\ thread' = [thread EXCEPT ![Service].pc = "claimed", ![Service].d = d]
       \/ /\ \A d \in NextReady(Readied) : ~Claimable(d)
          /\ Goes(Service, "check")
          /\ UNCHANGED owner
    /\ UNCHANGED <<es, workVars>> /\ ServiceUnchanged

\* The claimed dispatcher is put on the runQ; an immediate one is run by the service
RunClaimed ==
    /\ ~es.crashed /\ thread[Service].pc = "claimed"
    /\ queues' = queueDispatcher("run", thread[Service].d)
    /\ IF scenario.mode[thread[Service].d] = "immediate"
       THEN dispatchEventsHelper(Service, thread[Service].d)
       ELSE Goes(Service, "start") /\ UNCHANGED owner
    /\ UNCHANGED <<es, workVars>> /\ ServiceUnchanged

\* Faulty variant of mprStartWorker: it fails after it has given the work away.
StartWorkerTwice ==
    /\ ~es.crashed /\ thread[Service].pc = "start"
    /\ \E w \in Candidates :
          /\ worker' = [worker EXCEPT ![w] = "busy"]
          /\ job' = [job EXCEPT ![w] = thread[Service].d]
    /\ Goes(Service, "failed")
    /\ UNCHANGED <<pruneTimer, es, queues, owner>> /\ ServiceUnchanged

mprStartWorker ==
    /\ ~es.crashed /\ thread[Service].pc = "start"
    /\ \/ \E w \in Candidates :
            /\ worker' = [worker EXCEPT ![w] = "busy"]
            /\ job' = [job EXCEPT ![w] = thread[Service].d]
            /\ LET threads == numThreads + (IF worker[w] = "none" THEN 1 ELSE 0)
                   timer == ~pruneTimer /\ threads > scenario.minThreads
               IN  /\ pruneTimer' = (pruneTimer \/ timer)
                   /\ es' = [es EXCEPT !.counted = @ \/ timer]
            /\ thread' = [thread EXCEPT ![Service].pc = "get", ![Service].d = Nobody]
       \/ Candidates = {} /\ Goes(Service, "failed") /\ UNCHANGED <<workVars, es>>
    /\ UNCHANGED <<queues, owner>> /\ ServiceUnchanged

StartFailed ==
    /\ ~es.crashed /\ thread[Service].pc = "failed"
    /\ owner' = [owner EXCEPT ![thread[Service].d] = Nobody]
    /\ Goes(Service, "pend")
    /\ UNCHANGED <<queues, es, workVars>> /\ ServiceUnchanged


QueuePending ==
    /\ ~es.crashed /\ thread[Service].pc = "pend"
    /\ queues' = queueDispatcher("pending", thread[Service].d)
    /\ thread' = [thread EXCEPT ![Service].pc = "check", ![Service].d = Nobody]
    /\ UNCHANGED <<owner, es, workVars>> /\ ServiceUnchanged

\* Nothing is slept for when an event was queued or run since the top of the loop
CheckCount ==
    /\ ~es.crashed /\ thread[Service].pc = "check"
    /\ IF es.counted
       THEN Goes(Service, "top") /\ TimeRead(FALSE) /\ event' = Forward(event)
       ELSE Goes(Service, "idle") /\ UNCHANGED <<es, event>>
    /\ UNCHANGED <<scenario, dispVars, eventQ, woken, workVars, removed>>

SleepTicks ==
    LET firsts == {event[Head(eventQ[d])].due :
                      d \in {x \in Range(queues["wait"]) : eventQ[x] # <<>>}}
    IN  IF queues["ready"] # <<>> THEN 0
        ELSE IF firsts = {} THEN Never
        ELSE Min(firsts)

getIdleTicks ==
    /\ ~es.crashed /\ thread[Service].pc = "idle"
    /\ es' = [es EXCEPT !.willAwake = SleepTicks, !.waiting = TRUE, !.sleep = SleepTicks,
                        !.late = es.lag]
    /\ Goes(Service, "io")
    /\ UNCHANGED <<scenario, dispVars, eventQ, event, woken, workVars, removed>>

\* epoll_wait returns: it was woken or its time is over.  The descriptor is read only
\* when it was seen readable.
mprWaitForIO ==
    /\ ~es.crashed /\ thread[Service].pc = "io"
    /\ woken \/ es.sleep = 0
    /\ es' = [es EXCEPT !.waiting = FALSE, !.sleep = Never, !.late = 0]
    /\ \/ woken /\ woken' = FALSE
       \/ es.sleep = 0 /\ UNCHANGED woken
    /\ Goes(Service, "now")
    /\ UNCHANGED <<scenario, dispVars, eventQ, event, workVars, removed>>

\* pruneTimer, an event of the service's own dispatcher, is due
PruneTimerDue ==
    /\ ~es.crashed /\ thread[Service].pc = "io"
    /\ pruneTimer
    /\ es' = [es EXCEPT !.waiting = FALSE, !.sleep = Never, !.late = 0]
    /\ Goes(Service, "prune")
    /\ UNCHANGED <<scenario, dispVars, eventQ, event, woken, workVars, removed>>

ReadClock ==
    /\ ~es.crashed /\ thread[Service].pc = "now"
    /\ TimeRead(FALSE)
    /\ event' = Forward(event)
    /\ Goes(Service, "top")
    /\ UNCHANGED <<scenario, dispVars, eventQ, woken, workVars, removed>>

\* Workers that have long been idle are told to exit
pruneWorkers ==
    /\ ~es.crashed /\ thread[Service].pc = "prune"
    /\ \E old \in SUBSET InState("idle") :
          /\ numThreads - Cardinality(old) >= scenario.minThreads \/ old = {}
          /\ worker' = [w \in Workers |-> IF w \in old THEN "pruned" ELSE worker[w]]
    /\ TimeRead(TRUE)
    /\ event' = Forward(event)
    /\ Goes(Service, "get")
    /\ UNCHANGED <<scenario, dispVars, eventQ, woken, job, pruneTimer, removed>>

-----------------------------------------------------------------------------
(***************************************************************************)
(* mprWaitForEvent, by the thread that has started the dispatcher.         *)
(***************************************************************************)

mprWaitForEvent(d) ==
    /\ ~es.crashed /\ thread[App].pc = "app"
    /\ scenario.mode[d] = "started" /\ d \notin destroyed
    /\ Enters(App, d, "looked")
    /\ UNCHANGED <<scenario, dispVars, eventQ, event, es, woken, workVars, removed>>

\* Nothing was due: announce the wait, and look once more.  If an event was run since the
\* caller has read its mark, return with the wait still announced.
AppLooked ==
    /\ ~es.crashed /\ thread[App].pc = "looked"
    /\ IF thread[App].any
       THEN Goes(App, "app") /\ UNCHANGED <<event, es, waiting>>
       ELSE /\ TimeRead(FALSE)
            /\ event' = Forward(event)
            /\ waiting' = waiting \cup {thread[App].d}
            /\ \/ Goes(App, "app")
               \/ IF thread[App].d \in destroyed THEN Goes(App, "cond")
                                                 ELSE Enters(App, thread[App].d, "tried")
    /\ UNCHANGED <<scenario, queues, owner, destroyed, cond, eventQ, woken, workVars, removed>>

AppTried ==
    /\ ~es.crashed /\ thread[App].pc = "tried"
    /\ Goes(App, IF thread[App].any THEN "wait" ELSE "cond")
    /\ UNCHANGED <<scenario, dispVars, eventQ, event, es, woken, workVars, removed>>

\* mprWaitForCond returns: it was signalled, or the time to the first event is over
CondReturns ==
    /\ ~es.crashed /\ thread[App].pc = "cond"
    /\ LET d == thread[App].d
       IN  d \in cond \/ (eventQ[d] # <<>> /\ event[Head(eventQ[d])].due <= es.lag)
    /\ cond' = cond \ {thread[App].d}
    /\ TimeRead(FALSE)
    /\ event' = Forward(event)
    /\ Goes(App, "wait")
    /\ UNCHANGED <<scenario, queues, owner, destroyed, waiting, eventQ, woken, workVars, removed>>

WaitReturns ==
    /\ ~es.crashed /\ thread[App].pc = "wait"
    /\ waiting' = waiting \ {thread[App].d}
    /\ Goes(App, "app")
    /\ UNCHANGED <<scenario, queues, owner, destroyed, cond, eventQ, event, es, woken, workVars,
                   removed>>

-----------------------------------------------------------------------------
\* mprCreateDispatcher has put all of them on the idleQ, and mprStartDispatcher the
\* started ones on the runQ
Init ==
    /\ scenario \in Scenarios
    /\ LET started == {d \in Dispatchers : scenario.mode[d] = "started"}
       IN  /\ queues = [q \in QueueNames |->
                           CASE q = "idle" -> SetToSeq(Dispatchers \ started)
                             [] q = "run" -> SetToSeq(started)
                             [] OTHER -> <<>>]
           /\ owner = [d \in Dispatchers |-> IF d \in started THEN App ELSE Nobody]
    /\ destroyed = {} /\ waiting = {} /\ cond = {}
    /\ eventQ = [d \in Dispatchers |-> <<>>]
    /\ event = [e \in Events |-> [dispatcher |-> Nobody, created |-> FALSE,
                                  continuous |-> FALSE, period |-> 0, due |-> 0]]
    /\ es = [lag |-> 0, willAwake |-> 0, waiting |-> FALSE, counted |-> FALSE,
             sleep |-> Never, late |-> 0, crashed |-> FALSE]
    /\ woken = FALSE
    /\ thread = [t \in Threads |->
                    [pc |-> IF t = Service THEN "top" ELSE IF t = App THEN "app" ELSE "sleep",
                     d |-> Nobody, e |-> Nobody, any |-> FALSE, back |-> "release"]]
    /\ worker = [w \in Workers |-> "none"]
    /\ job = [w \in Workers |-> Nobody]
    /\ pruneTimer = FALSE
    /\ removed = [e \in Events |-> "no"]

Application ==
    \/ \E e \in scenario.events, d \in Dispatchers, period \in 0..MaxPeriod,
          continuous \in (IF "continuous" \in scenario.calls THEN BOOLEAN ELSE {FALSE}) :
              mprCreateEvent(e, d, period, continuous)
    \/ \E e \in Events : mprRemoveEvent(e)
    \/ \E e \in Events, enable \in BOOLEAN : mprEnableContinuousEvent(e, enable)
    \/ \E t \in Threads, period \in 0..MaxPeriod : mprRescheduleEvent(t, period)
    \/ \E e \in Events : DispatcherIsNull(e)
    \/ \E d \in Dispatchers : mprDestroyDispatcher(d)

dispatchEvents(t) ==
    mprGetNextEvent(t) \/ ProcReturns(t) \/ EventHasRun(t) \/ Requeue(t) \/ Count(t)

HelperEnds(t) ==
    releaseDispatcher(t) \/ HelperDequeues(t) \/ HelperSchedules(t) \/ HelperWakes(t)

workerMain(w) ==
    \/ WorkerStarts(w) \/ WorkerLeaves(w) \/ mprWakePendingDispatchers(w) \/ WakePending(w)
    \/ WorkerExits(w)

ServiceLoop ==
    \/ mprServiceEvents \/ getNextReadyDispatcher \/ RunClaimed \/ mprStartWorker
    \/ StartFailed \/ QueuePending \/ CheckCount \/ getIdleTicks \/ mprWaitForIO
    \/ PruneTimerDue \/ pruneWorkers \/ ReadClock

AppLoop ==
    \/ \E d \in Dispatchers : mprWaitForEvent(d)
    \/ AppLooked \/ AppTried \/ CondReturns \/ WaitReturns

Next ==
    \/ Application
    \/ Tick
    \/ \E t \in Threads : dispatchEvents(t) \/ HelperEnds(t)
    \/ \E w \in Workers : workerMain(w)
    \/ ServiceLoop
    \/ AppLoop

Spec == Init /\ [][Next]_vars

\* Threads are scheduled, callbacks return and time passes; application code calls what
\* it likes.
Fairness ==
    /\ WF_vars(Tick)
    /\ \A t \in Threads : WF_vars(dispatchEvents(t) \/ HelperEnds(t))
    /\ \A w \in Workers : WF_vars(workerMain(w))
    /\ WF_vars(ServiceLoop)
    /\ WF_vars(AppLoop)

FairSpec == Spec /\ Fairness

-----------------------------------------------------------------------------
(***************************************************************************)
(* Properties                                                              *)
(***************************************************************************)

\* The events of a dispatcher are run by one thread at a time: a dispatcher changes hands
\* between the service, a worker and the queues without the lock being held throughout
\* (claimDispatcher, reclaimDispatcher, releaseDispatcher).
Serialized ==
    \A t, u \in Threads :
        /\ thread[t].pc \in Dispatching /\ thread[u].pc \in Dispatching
        /\ thread[t].d = thread[u].d
        => t = u

\* The dispatcher is in the hands of a thread
Held(d) ==
    \/ \E t \in Threads : thread[t].d = d
    \/ \E w \in Workers : job[w] = d
    \/ owner[d] = App

\* A dispatcher that is not destroyed and has events is never forgotten: it is on a queue
\* the service looks at, or a thread has it and will schedule it when it is done.
QueuedIsServed ==
    \A d \in Dispatchers \ destroyed :
        eventQ[d] # <<>> => \/ On("ready", d) \/ On("wait", d) \/ On("pending", d)
                           \/ Held(d)

\* The service has gone to sleep and nobody is about to wake it
Asleep ==
    /\ thread[Service].pc = "io" /\ es.sleep > 0 /\ ~woken
    /\ \A t \in Threads : thread[t].pc # "wake"

\* No wake-up is lost: while the service sleeps no dispatcher is ready, and it sleeps no
\* longer than to the first event of the waiting ones - but for the ticks es->now was
\* late when it went to sleep, which the code adds to the delay.
SleepCovered ==
    Asleep =>
        /\ queues["ready"] = <<>>
        /\ \A d \in Range(queues["wait"]) :
              eventQ[d] # <<>> => es.sleep <= event[Head(eventQ[d])].due + es.late

\* An event that mprRemoveEvent has removed does not run any more.  One that is just
\* running can run once more when it is continuous: dispatchEvents has tested the flag
\* and queues it again.
RemovedStaysRemoved == \A e \in Events : removed[e] # "after"

\* mprDestroyDispatcher: the dispatcher is off all queues, for good
DestroyedOffQueues == \A d \in destroyed, q \in QueueNames : ~On(q, d)

\* A dispatcher was put on the pendingQ when a worker had already become idle and found
\* the queue empty: the service sleeps with work for an idle worker, and without the
\* timer that prunes workers nothing will wake it.
WakeupLost ==
    /\ Asleep /\ ~pruneTimer
    /\ queues["pending"] # <<>> /\ mprAvailableWorkers > 0


\* mprWakePendingDispatchers, called by a worker that has become idle, is to make the
\* service give it the dispatchers that wait for one.  It does not always: a property
\* that TLC refutes.
PendingIsWoken == ~WakeupLost

=============================================================================
