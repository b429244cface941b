-------------------------- MODULE DispatcherProofs --------------------------
(***************************************************************************)
(* Proof that the events of a dispatcher are run by one thread at a time,  *)
(* for any dispatchers, workers, events and scenarios.                     *)
(***************************************************************************)
EXTENDS Dispatcher, TLAPS

ThreadRecord == [pc : ThreadPlaces, d : Dispatchers \cup {Nobody}, e : Events \cup {Nobody},
                 any : BOOLEAN, back : Callers]

WorkerStates == {"none", "idle", "busy", "pruned"}

OwnershipTypes ==
    /\ owner \in [Dispatchers -> Threads \cup {Nobody, Reserved}]
    /\ thread \in [Threads -> ThreadRecord]
    /\ job \in [Workers -> Dispatchers \cup {Nobody}]
    /\ worker \in [Workers -> WorkerStates]

\* The thread that runs a dispatcher's events is its owner
RunnerOwns ==
    \A t \in Threads :
        thread[t].pc \in Dispatching =>
            thread[t].d \in Dispatchers /\ owner[thread[t].d] = t

\* Between claiming a dispatcher and handing it to a worker the service has reserved it,
\* and no worker has it yet
Claiming == {"claimed", "start", "failed"}

ServiceReserves ==
    thread[Service].pc \in Claiming =>
        /\ thread[Service].d \in Dispatchers
        /\ owner[thread[Service].d] = Reserved
        /\ \A w \in Workers : job[w] # thread[Service].d

\* A dispatcher that was handed to a worker is still reserved, and no other worker has it
JobsReserved ==
    /\ \A w \in Workers : job[w] # Nobody => owner[job[w]] = Reserved
    /\ \A w, v \in Workers : job[w] # Nobody /\ job[w] = job[v] => w = v

\* The application thread owns the dispatchers it has started, runs nothing else, and
\* never gets into the part of the code that releases a dispatcher
AppPlaces == {"app", "looked", "tried", "cond", "wait", "next", "proc", "ran", "requeue",
              "count"}

AppOwns ==
    /\ \A d \in Dispatchers : scenario.mode[d] = "started" => owner[d] = App
    /\ thread[App].pc \in AppPlaces
    /\ thread[App].pc \in AppPlaces \ {"app", "cond", "wait"} =>
           /\ thread[App].back \in {"looked", "tried"}
           /\ thread[App].d \in Dispatchers
           /\ scenario.mode[thread[App].d] = "started"

\* A worker that was started and has not looked at its work yet has some
Resting == {"sleep", "pending", "poke"}

BusyHasJob ==
    \A w \in Workers :
        worker[w] = "busy" /\ thread[w].pc \in Resting => job[w] \in Dispatchers

Ownership ==
    /\ OwnershipTypes /\ RunnerOwns /\ ServiceReserves /\ JobsReserved /\ AppOwns
    /\ BusyHasJob

LEMMA OwnershipSerializes == Ownership => Serialized
BY DEF Ownership, RunnerOwns, Serialized

LEMMA ThreadsDistinct ==
    /\ Service \in Threads /\ App \in Threads /\ Service # App
    /\ \A w \in Workers : w \in Threads /\ w # Service /\ w # App
    /\ Nobody \notin Threads /\ Reserved \notin Threads /\ Nobody # Reserved
    /\ Nobody \notin Dispatchers
BY ThreadsAssumption DEF Threads

LEMMA OwnershipInit == Init => Ownership
<1> SUFFICES ASSUME Init PROVE Ownership
  OBVIOUS
<1>1. OwnershipTypes
  BY ThreadsDistinct DEF Init, OwnershipTypes, ThreadRecord, ThreadPlaces, Callers, WorkerStates
<1>2. \A t \in Threads : thread[t].pc \in {"top", "app", "sleep"}
  BY ThreadsDistinct DEF Init
<1>3. RunnerOwns
  BY <1>2 DEF RunnerOwns, Dispatching
<1>4. ServiceReserves
  BY <1>2, ThreadsDistinct DEF ServiceReserves, Claiming
<1>5. JobsReserved
  BY DEF Init, JobsReserved
<1>6. AppOwns
  BY <1>2, ThreadsDistinct DEF Init, AppOwns, AppPlaces
<1>7. BusyHasJob
  BY DEF Init, BusyHasJob
<1> QED
  BY <1>1, <1>3, <1>4, <1>5, <1>6, <1>7 DEF Ownership

\* A thread moves, and no dispatcher changes hands
LEMMA ThreadMoves ==
    ASSUME Ownership,
           UNCHANGED <<scenario, owner, job>>,
           NEW t \in Threads,
           thread' \in [Threads -> ThreadRecord],
           worker' \in [Workers -> WorkerStates],
           \A u \in Threads : u # t => thread'[u] = thread[u],
           thread'[t].pc \in Dispatching =>
               thread[t].pc \in Dispatching /\ thread'[t].d = thread[t].d,
           t = Service /\ thread'[t].pc \in Claiming =>
               thread[t].pc \in Claiming /\ thread'[t].d = thread[t].d,
           t = App => /\ thread'[t].pc \in AppPlaces
                      /\ thread'[t].pc \in AppPlaces \ {"app", "cond", "wait"} =>
                             /\ thread'[t].back \in {"looked", "tried"}
                             /\ thread[App].pc \in AppPlaces \ {"app", "cond", "wait"}
                             /\ thread'[t].d = thread[t].d,
           \A w \in Workers : worker'[w] = "busy" =>
               /\ worker[w] = "busy"
               /\ w = t /\ thread'[w].pc \in Resting => thread[w].pc \in Resting
    PROVE  Ownership'
<1>1. OwnershipTypes'
  BY DEF Ownership, OwnershipTypes
<1>2. RunnerOwns'
  BY DEF Ownership, RunnerOwns
<1>3. ServiceReserves'
  BY ThreadsDistinct DEF Ownership, ServiceReserves
<1>4. JobsReserved'
  BY DEF Ownership, JobsReserved
<1>5. AppOwns'
  BY ThreadsDistinct DEF Ownership, AppOwns
<1>6. BusyHasJob'
  BY ThreadsDistinct DEF Ownership, BusyHasJob
<1> QED
  BY <1>1, <1>2, <1>3, <1>4, <1>5, <1>6 DEF Ownership

LEMMA WorkersTyped ==
    ASSUME Ownership, UNCHANGED worker PROVE worker' \in [Workers -> WorkerStates]
BY DEF Ownership, OwnershipTypes

\* Where a thread is once its place and its dispatcher have changed
LEMMA ThreadAt ==
    ASSUME thread \in [Threads -> ThreadRecord], NEW t \in Threads, NEW pc \in ThreadPlaces,
           NEW d \in Dispatchers \cup {Nobody},
           thread' = [thread EXCEPT ![t].pc = pc, ![t].d = d]
    PROVE  /\ thread' \in [Threads -> ThreadRecord]
           /\ \A u \in Threads : u # t => thread'[u] = thread[u]
           /\ thread'[t].pc = pc /\ thread'[t].d = d
BY DEF ThreadRecord

\* No thread moves
LEMMA NothingMoves ==
    ASSUME Ownership, UNCHANGED <<scenario, owner, job, worker, thread>> PROVE Ownership'
BY DEF Ownership, OwnershipTypes, RunnerOwns, ServiceReserves, JobsReserved, AppOwns,
       BusyHasJob

LEMMA ApplicationOwnership == Ownership /\ (Application \/ Tick) => Ownership'
<1> SUFFICES ASSUME Ownership, Application \/ Tick PROVE UNCHANGED <<scenario, owner, job, worker, thread>>
  BY NothingMoves
<1>1. CASE Tick
  BY <1>1 DEF Tick, dispVars, workVars
<1>3. ASSUME NEW e \in Events, mprRemoveEvent(e)
      PROVE  UNCHANGED <<scenario, owner, job, worker, thread>>
  BY <1>3 DEF mprRemoveEvent, workVars
<1>4. ASSUME NEW e \in Events, NEW b, mprEnableContinuousEvent(e, b)
      PROVE  UNCHANGED <<scenario, owner, job, worker, thread>>
  BY <1>4 DEF mprEnableContinuousEvent, workVars, dispVars
<1>7. ASSUME NEW e \in Events, DispatcherIsNull(e)
      PROVE  UNCHANGED <<scenario, owner, job, worker, thread>>
  BY <1>7 DEF DispatcherIsNull, workVars, dispVars
<1>5. ASSUME NEW t \in Threads, NEW p \in 0..MaxPeriod, mprRescheduleEvent(t, p)
      PROVE  UNCHANGED <<scenario, owner, job, worker, thread>>
  BY <1>5 DEF mprRescheduleEvent, workVars
<1>6. ASSUME NEW d \in Dispatchers, mprDestroyDispatcher(d)
      PROVE  UNCHANGED <<scenario, owner, job, worker, thread>>
  BY <1>6 DEF mprDestroyDispatcher, workVars
<1>2. ASSUME NEW e \in scenario.events, NEW d \in Dispatchers, NEW p \in 0..MaxPeriod,
             NEW c, mprCreateEvent(e, d, p, c)
      PROVE  UNCHANGED <<scenario, owner, job, worker, thread>>
  BY <1>2 DEF mprCreateEvent, workVars
<1> QED
  BY <1>1, <1>2, <1>3, <1>4, <1>5, <1>6, <1>7 DEF Application

\* Where a thread may go without a dispatcher changing hands
Allowed(t, from, to) ==
    /\ to \in Dispatching => from \in Dispatching
    /\ t = Service /\ to \in Claiming => from \in Claiming
    /\ t = App => /\ to \in AppPlaces
                  /\ to \in AppPlaces \ {"app", "cond", "wait"} =>
                         from \in AppPlaces \ {"app", "cond", "wait"}
    /\ \A w \in Workers : worker'[w] = "busy" =>
           worker[w] = "busy" /\ (w = t /\ to \in Resting => from \in Resting)

LEMMA ThreadGoes ==
    ASSUME Ownership, UNCHANGED <<scenario, owner, job>>, NEW t \in Threads,
           NEW pc \in ThreadPlaces, Goes(t, pc), Allowed(t, thread[t].pc, pc),
           worker' \in [Workers -> WorkerStates]
    PROVE  Ownership'
<1>1. thread \in [Threads -> ThreadRecord]
  BY DEF Ownership, OwnershipTypes
<1>2. /\ thread' \in [Threads -> ThreadRecord]
      /\ \A u \in Threads : u # t => thread'[u] = thread[u]
      /\ thread'[t].pc = pc /\ thread'[t].d = thread[t].d
      /\ thread'[t].back = thread[t].back
  BY <1>1 DEF Goes, ThreadRecord
<1>3. t = App /\ thread[t].pc \in AppPlaces \ {"app", "cond", "wait"} =>
          thread[t].back \in {"looked", "tried"}
  BY DEF Ownership, AppOwns
<1> QED
  BY <1>2, <1>3, ThreadMoves DEF Allowed

LEMMA ThreadLeaves ==
    ASSUME Ownership, UNCHANGED <<scenario, owner, job, worker>>, NEW t \in Threads, t # App,
           Leaves(t)
    PROVE  Ownership'
<1>1. thread \in [Threads -> ThreadRecord]
  BY DEF Ownership, OwnershipTypes
<1> DEFINE r == [pc |-> Finished(t), d |-> Nobody, e |-> Nobody, any |-> FALSE,
                 back |-> "release"]
<1>a. Finished(t) \in {"get", "leave"}
  BY DEF Finished
<1>b. r \in ThreadRecord /\ r.pc = Finished(t)
  BY <1>a DEF ThreadRecord, Callers, ThreadPlaces
<1>c. thread' = [thread EXCEPT ![t] = r]
  BY DEF Leaves
<1> HIDE DEF r
<1>2. /\ thread' \in [Threads -> ThreadRecord]
      /\ \A u \in Threads : u # t => thread'[u] = thread[u]
      /\ thread'[t].pc \in {"get", "leave"}
  BY <1>1, <1>a, <1>b, <1>c
<1> QED
  BY <1>2, ThreadMoves, WorkersTyped DEF Dispatching, Claiming, Resting

\* A thread that runs events comes back to where they were to be run from
LEMMA BackAllowed ==
    ASSUME Ownership, NEW t \in Threads, thread[t].pc \in Dispatching, UNCHANGED worker
    PROVE  /\ thread[t].back \in ThreadPlaces
           /\ Allowed(t, thread[t].pc, thread[t].back)
<1>1. thread[t].back \in Callers
  BY DEF Ownership, OwnershipTypes, ThreadRecord
<1>2. t = App => /\ thread[t].back \in {"looked", "tried"}
                 /\ thread[t].pc \in AppPlaces \ {"app", "cond", "wait"}
  BY DEF Ownership, AppOwns, AppPlaces, Dispatching
<1> QED
  BY <1>1, <1>2 DEF Callers, Allowed, Dispatching, Claiming, AppPlaces, ThreadPlaces, Resting

\* A thread stays among the places where it runs events
LEMMA StaysAllowed ==
    ASSUME Ownership, NEW t \in Threads, thread[t].pc \in Dispatching, UNCHANGED worker,
           NEW pc \in {"next", "proc", "ran", "requeue", "count"}
    PROVE  Allowed(t, thread[t].pc, pc)
BY DEF Ownership, AppOwns, Allowed, Dispatching, Claiming, AppPlaces, Resting

LEMMA DispatchOwnership ==
    ASSUME Ownership, NEW t \in Threads, dispatchEvents(t)
    PROVE  Ownership'
<1>0. thread \in [Threads -> ThreadRecord]
  BY DEF Ownership, OwnershipTypes
<1>a. ASSUME UNCHANGED <<scenario, owner, job, worker>>, thread[t].pc \in Dispatching,
             NEW pc \in {"next", "proc", "ran", "requeue", "count"}, Goes(t, pc)
      PROVE  Ownership'
  BY <1>a, StaysAllowed, ThreadGoes, WorkersTyped DEF ThreadPlaces, Dispatching
\* The same when the thread takes up or puts down an event
<1>b. ASSUME UNCHANGED <<scenario, owner, job, worker>>, thread[t].pc \in Dispatching,
             NEW pc \in {"next", "proc", "count", thread[t].back}, NEW e \in Events \cup {Nobody},
             NEW any \in BOOLEAN,
             thread' = [thread EXCEPT ![t].pc = pc, ![t].e = e, ![t].any = any]
      PROVE  Ownership'
  <2>0. pc \in ThreadPlaces
    BY <1>b, BackAllowed DEF ThreadPlaces, Dispatching
  <2>1. /\ thread' \in [Threads -> ThreadRecord]
        /\ \A u \in Threads : u # t => thread'[u] = thread[u]
        /\ thread'[t].pc = pc /\ thread'[t].d = thread[t].d
        /\ thread'[t].back = thread[t].back
    BY <1>0, <1>b, <2>0, ZenonT(40) DEF ThreadRecord
  <2>2. Allowed(t, thread[t].pc, pc)
    BY <1>b, StaysAllowed, BackAllowed
  <2>3. t = App /\ thread[t].pc \in AppPlaces \ {"app", "cond", "wait"} =>
            thread[t].back \in {"looked", "tried"}
    BY DEF Ownership, AppOwns
  <2> QED
    BY <1>b, <2>1, <2>2, <2>3, ThreadMoves, WorkersTyped DEF Allowed
<1>c. ASSUME UNCHANGED <<scenario, owner, job, worker>>, thread[t].pc \in Dispatching,
             NEW pc \in {"proc", "count", thread[t].back}, NEW e \in Events \cup {Nobody},
             thread' = [thread EXCEPT ![t].pc = pc, ![t].e = e]
      PROVE  Ownership'
  <2>1. thread[t].any \in BOOLEAN
    BY <1>0 DEF ThreadRecord
  <2>2. thread' = [thread EXCEPT ![t].pc = pc, ![t].e = e, ![t].any = thread[t].any]
    BY <1>0, <1>c, <2>1 DEF ThreadRecord
  <2> QED
    BY <1>b, <1>c, <2>1, <2>2
<1>1. CASE mprGetNextEvent(t)
  <2>1. UNCHANGED <<scenario, owner, job, worker>> /\ thread[t].pc = "next"
    BY <1>1 DEF mprGetNextEvent, dispVars, workVars
  <2>2. CASE Goes(t, thread[t].back)
    BY <2>1, <2>2, BackAllowed, ThreadGoes, WorkersTyped DEF Dispatching
  <2>3. ASSUME NEW e \in Events, thread' = [thread EXCEPT ![t].pc = "proc", ![t].e = e]
        PROVE  Ownership'
    BY <1>c, <2>1, <2>3 DEF Dispatching
  <2> QED
    BY <1>1, <2>2, <2>3 DEF mprGetNextEvent
<1>2. CASE ProcReturns(t)
  BY <1>2, <1>a DEF ProcReturns, dispVars, workVars, Dispatching
<1>3. CASE EventHasRun(t)
  <2>1. UNCHANGED <<scenario, owner, job, worker>> /\ thread[t].pc \in Dispatching
    BY <1>3 DEF EventHasRun, dispVars, workVars, Dispatching
  <2>2. \/ thread' = [thread EXCEPT ![t].pc = thread[t].back, ![t].e = Nobody]
        \/ Goes(t, "requeue")
        \/ thread' = [thread EXCEPT ![t].pc = "count", ![t].e = Nobody]
    BY <1>3 DEF EventHasRun
  <2> QED
    BY <1>a, <1>c, <2>1, <2>2
<1>4. CASE Requeue(t)
  <2>1. UNCHANGED <<scenario, owner, job, worker>> /\ thread[t].pc \in Dispatching
    BY <1>4 DEF Requeue, workVars, Dispatching
  <2>2. thread' = [thread EXCEPT ![t].pc = "count", ![t].e = Nobody]
    BY <1>4 DEF Requeue
  <2> QED
    BY <1>c, <2>1, <2>2
<1>5. CASE Count(t)
  <2>1. UNCHANGED <<scenario, owner, job, worker>> /\ thread[t].pc \in Dispatching
    BY <1>5 DEF Count, dispVars, workVars, Dispatching
  <2> DEFINE any == thread[t].back # "release"
  <2>2. any \in BOOLEAN /\ thread' = [thread EXCEPT ![t].pc = "next", ![t].any = any]
    BY <1>5 DEF Count
  <2> HIDE DEF any
  <2>3. thread[t].e \in Events \cup {Nobody}
    BY <1>0 DEF ThreadRecord
  <2>4. thread' = [thread EXCEPT ![t].pc = "next", ![t].e = thread[t].e, ![t].any = any]
    BY <1>0, <2>2, <2>3 DEF ThreadRecord
  <2> QED
    BY <1>b, <2>1, <2>2, <2>3, <2>4
<1> QED
  BY <1>1, <1>2, <1>3, <1>4, <1>5 DEF dispatchEvents

\* A thread gives up the dispatcher it owns, or has reserved, and whose events it no
\* longer runs
LEMMA OwnerReleased ==
    ASSUME Ownership, UNCHANGED <<scenario, job, worker>>, NEW t \in Threads, t # App,
           \/ thread[t].pc \in Dispatching
           \/ t = Service /\ thread[t].pc \in Claiming,
           owner' = [owner EXCEPT ![thread[t].d] = Nobody],
           NEW pc \in {"dequeue", "pend"}, Goes(t, pc)
    PROVE  Ownership'
<1>1. OwnershipTypes
  BY DEF Ownership
<1>2. /\ thread' \in [Threads -> ThreadRecord]
      /\ \A u \in Threads : u # t => thread'[u] = thread[u]
      /\ thread'[t].pc \in {"dequeue", "pend"}
  BY <1>1 DEF OwnershipTypes, Goes, ThreadRecord, ThreadPlaces
<1>3. /\ thread[t].d \in Dispatchers /\ owner[thread[t].d] \in {t, Reserved}
      /\ \A w \in Workers : job[w] # thread[t].d
  BY ThreadsDistinct DEF Ownership, RunnerOwns, ServiceReserves, JobsReserved
<1>4. /\ owner' \in [Dispatchers -> Threads \cup {Nobody, Reserved}]
      /\ \A d \in Dispatchers : d # thread[t].d => owner'[d] = owner[d]
  BY <1>1 DEF OwnershipTypes
<1>5. OwnershipTypes'
  BY <1>1, <1>2, <1>4 DEF OwnershipTypes
<1>6. RunnerOwns'
  <2> SUFFICES ASSUME NEW u \in Threads, thread'[u].pc \in Dispatching
               PROVE  thread'[u].d \in Dispatchers /\ owner'[thread'[u].d] = u
    BY DEF RunnerOwns
  <2>1. u # t
    BY <1>2 DEF Dispatching
  <2>2. thread'[u] = thread[u] /\ thread[u].d \in Dispatchers /\ owner[thread[u].d] = u
    BY <1>2, <2>1 DEF Ownership, RunnerOwns
  <2>3. thread[u].d # thread[t].d
    BY <1>3, <2>1, <2>2, ThreadsDistinct
  <2> QED
    BY <1>4, <2>2, <2>3
<1>7. ServiceReserves'
  <2> SUFFICES ASSUME thread'[Service].pc \in Claiming PROVE ServiceReserves'
    BY DEF ServiceReserves
  <2>1. t # Service /\ thread'[Service] = thread[Service]
    BY <1>2, ThreadsDistinct DEF Claiming
  <2>2. thread[t].pc \in Dispatching /\ owner[thread[t].d] = t
    BY <2>1 DEF Ownership, RunnerOwns
  <2> QED
    BY <1>4, <2>1, <2>2, ThreadsDistinct DEF Ownership, ServiceReserves
<1>8. JobsReserved'
  BY <1>1, <1>3, <1>4 DEF Ownership, OwnershipTypes, JobsReserved
<1>9. AppOwns'
  BY <1>2, <1>3, <1>4, ThreadsDistinct DEF Ownership, AppOwns
<1>10. BusyHasJob'
  BY <1>2, ThreadsDistinct DEF Ownership, BusyHasJob, Resting
<1> QED
  BY <1>5, <1>6, <1>7, <1>8, <1>9, <1>10 DEF Ownership

LEMMA HelperOwnership ==
    ASSUME Ownership, NEW t \in Threads, HelperEnds(t) PROVE Ownership'
<1>0. t # App
  BY DEF Ownership, AppOwns, AppPlaces, HelperEnds, releaseDispatcher, HelperDequeues,
         HelperSchedules, HelperWakes
<1>1. CASE releaseDispatcher(t)
  <2>1. CASE thread[t].d \in destroyed
    BY <1>0, <1>1, <2>1, ThreadLeaves DEF releaseDispatcher, workVars
  <2>2. CASE thread[t].d \notin destroyed
    <3>1. /\ owner' = [owner EXCEPT ![thread[t].d] = Nobody]
          /\ Goes(t, "dequeue") /\ UNCHANGED <<scenario, job, worker>>
          /\ thread[t].pc \in Dispatching
      BY <1>1, <2>2 DEF releaseDispatcher, workVars, Dispatching
    <3> QED
      BY <1>0, <3>1, OwnerReleased
  <2> QED
    BY <2>1, <2>2
<1>2. CASE HelperDequeues(t)
  <2>1. UNCHANGED <<scenario, owner, job, worker>> /\ Goes(t, "schedule")
    BY <1>2 DEF HelperDequeues, workVars
  <2> QED
    BY <1>0, <2>1, ThreadGoes, WorkersTyped DEF Allowed, Dispatching, Claiming, ThreadPlaces,
                                 Resting
<1>3. CASE HelperSchedules(t)
  <2>1. UNCHANGED <<scenario, owner, job, worker>> /\ (Goes(t, "wake") \/ Leaves(t))
    BY <1>3 DEF HelperSchedules, workVars
  <2> QED
    BY <1>0, <2>1, ThreadGoes, WorkersTyped, ThreadLeaves DEF Allowed, Dispatching, Claiming, ThreadPlaces,
                                 Resting
<1>4. CASE HelperWakes(t)
  BY <1>0, <1>4, ThreadLeaves DEF HelperWakes, dispVars, workVars
<1> QED
  BY <1>1, <1>2, <1>3, <1>4 DEF HelperEnds

\* A thread takes over the dispatcher that was reserved for it: the worker that was given
\* it, or the service that has claimed it
LEMMA OwnerTakes ==
    ASSUME Ownership, UNCHANGED <<scenario, worker>>, NEW t \in Threads, t # App,
           NEW d \in Dispatchers, dispatchEventsHelper(t, d),
           \/ /\ t \in Workers /\ job[t] = d /\ thread[t].pc \in Resting
              /\ job' = [job EXCEPT ![t] = Nobody]
           \/ t = Service /\ thread[t].pc \in Claiming /\ thread[t].d = d /\ UNCHANGED job
    PROVE  Ownership'
<1>1. OwnershipTypes
  BY DEF Ownership
<1>2. owner[d] = Reserved
  BY <1>1, ThreadsDistinct DEF Ownership, ServiceReserves, JobsReserved
<1>3. /\ job' \in [Workers -> Dispatchers \cup {Nobody}]
      /\ \A w \in Workers : w # t => job'[w] = job[w]
      /\ \A w \in Workers : job'[w] # Nobody => job'[w] = job[w] /\ job[w] # d
  BY <1>1, ThreadsDistinct DEF Ownership, OwnershipTypes, ServiceReserves, JobsReserved
<1>4. CASE d \notin destroyed
  <2> DEFINE r == [pc |-> "next", d |-> d, e |-> Nobody, any |-> FALSE, back |-> "release"]
  <2>a. r \in ThreadRecord /\ r.pc = "next" /\ r.d = d
    BY DEF ThreadRecord, ThreadPlaces, Dispatching, Callers
  <2>b. thread' = [thread EXCEPT ![t] = r] /\ owner' = [owner EXCEPT ![d] = t]
    BY <1>2, <1>4 DEF dispatchEventsHelper, Enters
  <2> HIDE DEF r
  <2>1. /\ thread' \in [Threads -> ThreadRecord]
        /\ \A u \in Threads : u # t => thread'[u] = thread[u]
        /\ thread'[t].pc = "next" /\ thread'[t].d = d
        /\ owner' \in [Dispatchers -> Threads \cup {Nobody, Reserved}]
        /\ \A x \in Dispatchers : x # d => owner'[x] = owner[x]
        /\ owner'[d] = t
    BY <1>1, <2>a, <2>b DEF OwnershipTypes
  <2>2. OwnershipTypes'
    BY <1>1, <1>3, <2>1 DEF OwnershipTypes
  <2>3. RunnerOwns'
    BY <1>2, <2>1, ThreadsDistinct DEF Ownership, RunnerOwns
  <2>4. ServiceReserves'
    <3> SUFFICES ASSUME thread'[Service].pc \in Claiming PROVE ServiceReserves'
      BY DEF ServiceReserves
    <3>1. t # Service /\ thread'[Service] = thread[Service]
      BY <2>1, ThreadsDistinct DEF Claiming
    <3>2. thread[Service].d # d /\ thread[Service].d \in Dispatchers
      BY <3>1, ThreadsDistinct DEF Ownership, ServiceReserves
    <3> QED
      BY <1>3, <2>1, <3>1, <3>2, ThreadsDistinct DEF Ownership, ServiceReserves
  <2>5. JobsReserved'
    BY <1>1, <1>3, <2>1 DEF Ownership, OwnershipTypes, JobsReserved
  <2>6. AppOwns'
    BY <1>2, <2>1, ThreadsDistinct DEF Ownership, AppOwns
  <2>7. BusyHasJob'
    BY <1>3, <2>1, ThreadsDistinct DEF Ownership, BusyHasJob, Resting
  <2> QED
    BY <2>2, <2>3, <2>4, <2>5, <2>6, <2>7 DEF Ownership
<1>5. CASE d \in destroyed
  <2> DEFINE r == [pc |-> Finished(t), d |-> Nobody, e |-> Nobody, any |-> FALSE,
                   back |-> "release"]
  <2>a. r \in ThreadRecord /\ r.pc \in {"get", "leave"}
    BY DEF ThreadRecord, Callers, ThreadPlaces, Finished
  <2>b. thread' = [thread EXCEPT ![t] = r] /\ owner' = owner
    BY <1>5 DEF dispatchEventsHelper, Leaves
  <2> HIDE DEF r
  <2>1. /\ thread' \in [Threads -> ThreadRecord]
        /\ \A u \in Threads : u # t => thread'[u] = thread[u]
        /\ thread'[t].pc \in {"get", "leave"}
    BY <1>1, <2>a, <2>b DEF OwnershipTypes
  <2>2. OwnershipTypes'
    BY <1>1, <1>3, <2>1, <2>b DEF OwnershipTypes
  <2>3. RunnerOwns'
    BY <2>1, <2>b DEF Ownership, RunnerOwns, Dispatching
  <2>4. ServiceReserves'
    BY <1>3, <2>1, <2>b, ThreadsDistinct DEF Ownership, ServiceReserves, Claiming
  <2>5. JobsReserved'
    BY <1>1, <1>3, <2>b DEF Ownership, OwnershipTypes, JobsReserved
  <2>6. AppOwns'
    BY <2>1, <2>b, ThreadsDistinct DEF Ownership, AppOwns
  <2>7. BusyHasJob'
    BY <1>3, <2>1, ThreadsDistinct DEF Ownership, BusyHasJob, Resting
  <2> QED
    BY <2>2, <2>3, <2>4, <2>5, <2>6, <2>7 DEF Ownership
<1> QED
  BY <1>4, <1>5

LEMMA WorkerOwnership ==
    ASSUME Ownership, NEW w \in Workers, workerMain(w) PROVE Ownership'
<1>0. w \in Threads /\ w # Service /\ w # App
  BY ThreadsDistinct
<1>1. CASE WorkerStarts(w)
  <2>1. job[w] \in Dispatchers
    BY <1>1 DEF Ownership, BusyHasJob, WorkerStarts, Resting
  <2>2. UNCHANGED <<scenario, worker>> /\ thread[w].pc \in Resting
    BY <1>1 DEF WorkerStarts, Resting
  <2>3. dispatchEventsHelper(w, job[w]) /\ job' = [job EXCEPT ![w] = Nobody]
    BY <1>1 DEF WorkerStarts
  <2> QED
    BY <1>0, <2>1, <2>2, <2>3, OwnerTakes
<1>2. CASE WorkerLeaves(w)
  <2>1. UNCHANGED <<scenario, owner, job>> /\ Goes(w, "pending")
    BY <1>2 DEF WorkerLeaves, dispVars
  <2>2. /\ worker' \in [Workers -> WorkerStates]
        /\ \A v \in Workers : worker'[v] = "busy" => v # w /\ worker[v] = "busy"
    BY <1>2 DEF WorkerLeaves, Ownership, OwnershipTypes, WorkerStates
  <2> QED
    BY <1>0, <2>1, <2>2, ThreadGoes, WorkersTyped DEF Allowed, Dispatching, Claiming, ThreadPlaces
<1>3. CASE mprWakePendingDispatchers(w)
  <2>1. /\ UNCHANGED <<scenario, owner, job, worker>> /\ thread[w].pc \in Resting
        /\ Goes(w, "poke") \/ Goes(w, "sleep")
    BY <1>3 DEF mprWakePendingDispatchers, dispVars, workVars, Resting
  <2> QED
    BY <1>0, <2>1, ThreadGoes, WorkersTyped DEF Allowed, Dispatching, Claiming, ThreadPlaces
<1>4. CASE WakePending(w)
  <2>1. /\ UNCHANGED <<scenario, owner, job, worker>> /\ thread[w].pc \in Resting
        /\ Goes(w, "sleep")
    BY <1>4 DEF WakePending, dispVars, workVars, Resting
  <2> QED
    BY <1>0, <2>1, ThreadGoes, WorkersTyped DEF Allowed, Dispatching, Claiming, ThreadPlaces
<1>5. CASE WorkerExits(w)
  <2>1. UNCHANGED <<scenario, owner, job, thread>>
    BY <1>5 DEF WorkerExits, dispVars
  <2>2. /\ worker' \in [Workers -> WorkerStates]
        /\ \A v \in Workers : worker'[v] = "busy" => worker[v] = "busy"
    BY <1>5 DEF WorkerExits, Ownership, OwnershipTypes, WorkerStates
  <2>3. thread' \in [Threads -> ThreadRecord]
    BY <2>1 DEF Ownership, OwnershipTypes
  <2> QED
    BY <1>0, <2>1, <2>2, <2>3, ThreadMoves, WorkersTyped
<1> QED
  BY <1>1, <1>2, <1>3, <1>4, <1>5 DEF workerMain

\* The service reserves a dispatcher that nobody owns
LEMMA ServiceClaims == Ownership /\ getNextReadyDispatcher => Ownership'
<1> SUFFICES ASSUME Ownership, getNextReadyDispatcher PROVE Ownership'
  OBVIOUS
<1>0. UNCHANGED <<scenario, job, worker>> /\ OwnershipTypes
  BY DEF getNextReadyDispatcher, ServiceUnchanged, workVars, Ownership
<1>1. CASE Goes(Service, "check") /\ UNCHANGED owner
  BY <1>0, <1>1, ThreadGoes, WorkersTyped, ThreadsDistinct
     DEF Allowed, Dispatching, Claiming, ThreadPlaces, Resting
<1>2. ASSUME NEW d \in Dispatchers, Claimable(d),
             owner' = [owner EXCEPT ![d] = Reserved],
             thread' = [thread EXCEPT ![Service].pc = "claimed", ![Service].d = d]
      PROVE  Ownership'
  <2>1. /\ thread' \in [Threads -> ThreadRecord]
        /\ \A u \in Threads : u # Service => thread'[u] = thread[u]
        /\ thread'[Service].pc = "claimed" /\ thread'[Service].d = d
    <3>1. "claimed" \in ThreadPlaces /\ thread \in [Threads -> ThreadRecord]
      BY <1>0 DEF OwnershipTypes, ThreadPlaces
    <3>2. d \in Dispatchers \cup {Nobody} /\ Service \in Threads
      BY ThreadsDistinct
    <3>3. PICK pc \in ThreadPlaces : pc = "claimed"
      BY <3>1
    <3>4. thread' = [thread EXCEPT ![Service].pc = pc, ![Service].d = d]
      BY <1>2, <3>3
    <3> QED
      BY <3>1, <3>2, <3>3, <3>4, ZenonT(40) DEF ThreadRecord
  <2>2. /\ owner' \in [Dispatchers -> Threads \cup {Nobody, Reserved}]
        /\ \A x \in Dispatchers : x # d => owner'[x] = owner[x]
        /\ owner'[d] = Reserved
    BY <1>0, <1>2 DEF OwnershipTypes
  <2>3. owner[d] \in {Nobody, Service}
    BY <1>2 DEF Claimable
  <2>4. thread[Service].pc = "get"
    BY DEF getNextReadyDispatcher
  <2>5. OwnershipTypes'
    BY <1>0, <2>1, <2>2 DEF OwnershipTypes
  <2>6. RunnerOwns'
    BY <2>1, <2>2, <2>3, ThreadsDistinct DEF Ownership, RunnerOwns, Dispatching
  <2>7. ServiceReserves'
    BY <1>0, <2>1, <2>2, <2>3, ThreadsDistinct
       DEF Ownership, OwnershipTypes, ServiceReserves, JobsReserved
  <2>8. JobsReserved'
    BY <1>0, <2>2, <2>3 DEF Ownership, OwnershipTypes, JobsReserved
  <2>9. AppOwns'
    BY <1>0, <2>1, <2>2, <2>3, ThreadsDistinct DEF Ownership, AppOwns
  <2>10. BusyHasJob'
    BY <1>0, <2>1, ThreadsDistinct DEF Ownership, BusyHasJob
  <2> QED
    BY <2>5, <2>6, <2>7, <2>8, <2>9, <2>10 DEF Ownership
<1> QED
  BY <1>1, <1>2 DEF getNextReadyDispatcher

\* The service hands the dispatcher it has reserved to a worker
LEMMA ServiceHandsOver == Ownership /\ mprStartWorker => Ownership'
<1> SUFFICES ASSUME Ownership, mprStartWorker PROVE Ownership'
  OBVIOUS
<1>0. UNCHANGED <<scenario, owner>> /\ OwnershipTypes /\ thread[Service].pc = "start"
  BY DEF mprStartWorker, ServiceUnchanged, Ownership
<1>1. CASE Goes(Service, "failed") /\ UNCHANGED workVars
  <2>1. UNCHANGED <<job, worker>>
    BY <1>1 DEF workVars
  <2> QED
    BY <1>0, <1>1, <2>1, ThreadGoes, WorkersTyped, ThreadsDistinct
       DEF Allowed, Dispatching, Claiming, ThreadPlaces, Resting
<1>2. ASSUME NEW w \in Workers,
             worker' = [worker EXCEPT ![w] = "busy"],
             job' = [job EXCEPT ![w] = thread[Service].d],
             thread' = [thread EXCEPT ![Service].pc = "get", ![Service].d = Nobody]
      PROVE  Ownership'
  <2>1. /\ thread' \in [Threads -> ThreadRecord]
        /\ \A u \in Threads : u # Service => thread'[u] = thread[u]
        /\ thread'[Service].pc = "get"
    BY <1>0, <1>2, ThreadAt, ThreadsDistinct DEF OwnershipTypes, ThreadPlaces
  <2>2. /\ thread[Service].d \in Dispatchers /\ owner[thread[Service].d] = Reserved
        /\ \A v \in Workers : job[v] # thread[Service].d
    BY <1>0 DEF Ownership, ServiceReserves, Claiming
  <2>3. /\ job' \in [Workers -> Dispatchers \cup {Nobody}]
        /\ \A v \in Workers : v # w => job'[v] = job[v]
        /\ job'[w] = thread[Service].d
    BY <1>0, <1>2, <2>2 DEF OwnershipTypes
  <2>4. OwnershipTypes'
    BY <1>0, <1>2, <2>1, <2>3 DEF OwnershipTypes, WorkerStates
  <2>5. RunnerOwns'
    BY <1>0, <2>1 DEF Ownership, RunnerOwns, Dispatching
  <2>6. ServiceReserves'
    BY <2>1 DEF ServiceReserves, Claiming
  <2>7. JobsReserved'
    BY <1>0, <2>2, <2>3 DEF Ownership, JobsReserved
  <2>8. AppOwns'
    BY <1>0, <2>1, ThreadsDistinct DEF Ownership, AppOwns
  <2>9. BusyHasJob'
    BY <1>2, <2>1, <2>2, <2>3, ThreadsDistinct DEF Ownership, BusyHasJob
  <2> QED
    BY <2>4, <2>5, <2>6, <2>7, <2>8, <2>9 DEF Ownership
<1>3. Candidates \subseteq Workers
  BY DEF Candidates, InState
<1> QED
  BY <1>1, <1>2, <1>3 DEF mprStartWorker

LEMMA ServiceOwnership == Ownership /\ ServiceLoop => Ownership'
<1> SUFFICES ASSUME Ownership, ServiceLoop PROVE Ownership'
  OBVIOUS
<1>a. ASSUME UNCHANGED <<scenario, owner, job>>,
             worker' \in [Workers -> WorkerStates],
             \A w \in Workers : worker'[w] = "busy" => worker[w] = "busy",
             NEW pc \in {"top", "get", "check", "idle", "io", "prune", "now"},
             Goes(Service, pc)
      PROVE  Ownership'
  BY <1>a, ThreadGoes, WorkersTyped, ThreadsDistinct DEF Allowed, Dispatching, Claiming, ThreadPlaces
<1>1. CASE mprServiceEvents
  BY <1>1, <1>a, WorkersTyped DEF mprServiceEvents, dispVars, workVars
<1>2. CASE getNextReadyDispatcher
  BY <1>2, ServiceClaims
<1>3. CASE RunClaimed
  <2>1. /\ UNCHANGED <<scenario, job, worker>>
        /\ thread[Service].pc \in Claiming /\ thread[Service].d \in Dispatchers
    BY <1>3 DEF RunClaimed, ServiceUnchanged, workVars, Claiming, Ownership, ServiceReserves
  <2>2. CASE dispatchEventsHelper(Service, thread[Service].d)
    BY <2>1, <2>2, OwnerTakes, ThreadsDistinct
  <2>3. CASE Goes(Service, "start") /\ UNCHANGED owner
    BY <2>1, <2>3, ThreadGoes, WorkersTyped, ThreadsDistinct
       DEF Allowed, Dispatching, Claiming, ThreadPlaces, Resting
  <2> QED
    BY <1>3, <2>2, <2>3 DEF RunClaimed
<1>4. CASE mprStartWorker
  BY <1>4, ServiceHandsOver
<1>5. CASE StartFailed
  <2>1. /\ UNCHANGED <<scenario, job, worker>> /\ thread[Service].pc \in Claiming
        /\ owner' = [owner EXCEPT ![thread[Service].d] = Nobody] /\ Goes(Service, "pend")
    BY <1>5 DEF StartFailed, ServiceUnchanged, workVars, Claiming
  <2> QED
    BY <2>1, OwnerReleased, ThreadsDistinct
<1>6. CASE QueuePending
  <2>1. /\ UNCHANGED <<scenario, owner, job, worker>>
        /\ thread' = [thread EXCEPT ![Service].pc = "check", ![Service].d = Nobody]
    BY <1>6 DEF QueuePending, ServiceUnchanged, workVars
  <2>2. thread \in [Threads -> ThreadRecord]
    BY DEF Ownership, OwnershipTypes
  <2>3. /\ thread' \in [Threads -> ThreadRecord]
        /\ \A u \in Threads : u # Service => thread'[u] = thread[u]
        /\ thread'[Service].pc = "check"
    BY <2>1, <2>2, ThreadAt, ThreadsDistinct DEF ThreadPlaces
  <2> QED
    BY <2>1, <2>3, ThreadMoves, WorkersTyped, ThreadsDistinct DEF Dispatching, Claiming
<1>7. CASE CheckCount
  BY <1>7, <1>a, WorkersTyped DEF CheckCount, dispVars, workVars
<1>8. CASE getIdleTicks
  BY <1>8, <1>a, WorkersTyped DEF getIdleTicks, dispVars, workVars
<1>9. CASE mprWaitForIO
  BY <1>9, <1>a, WorkersTyped DEF mprWaitForIO, dispVars, workVars
<1>10. CASE PruneTimerDue
  BY <1>10, <1>a, WorkersTyped DEF PruneTimerDue, dispVars, workVars
<1>11. CASE pruneWorkers
  <2>1. /\ worker' \in [Workers -> WorkerStates]
        /\ \A w \in Workers : worker'[w] = "busy" => worker[w] = "busy"
    BY <1>11 DEF pruneWorkers, Ownership, OwnershipTypes, WorkerStates
  <2> QED
    BY <1>11, <1>a, <2>1 DEF pruneWorkers, dispVars
<1>12. CASE ReadClock
  BY <1>12, <1>a, WorkersTyped DEF ReadClock, dispVars, workVars
<1> QED
  BY <1>1, <1>2, <1>3, <1>4, <1>5, <1>6, <1>7, <1>8, <1>9, <1>10, <1>11, <1>12 DEF ServiceLoop

\* The application thread turns to a dispatcher it owns
LEMMA AppEnters ==
    ASSUME Ownership, UNCHANGED <<scenario, owner, job, worker>>, NEW d \in Dispatchers,
           scenario.mode[d] = "started", NEW back \in {"looked", "tried"},
           Enters(App, d, back)
    PROVE  Ownership'
<1> DEFINE r == [pc |-> "next", d |-> d, e |-> Nobody, any |-> FALSE, back |-> back]
<1>a. r \in ThreadRecord /\ r.pc = "next" /\ r.d = d /\ r.back = back
  BY DEF ThreadRecord, ThreadPlaces, Dispatching, Callers
<1>b. thread' = [thread EXCEPT ![App] = r] /\ OwnershipTypes
  BY DEF Enters, Ownership
<1> HIDE DEF r
<1>1. /\ thread' \in [Threads -> ThreadRecord]
      /\ \A u \in Threads : u # App => thread'[u] = thread[u]
      /\ thread'[App].pc = "next" /\ thread'[App].d = d /\ thread'[App].back = back
  BY <1>a, <1>b, ThreadsDistinct DEF OwnershipTypes
<1>2. OwnershipTypes'
  BY <1>1, <1>b DEF OwnershipTypes
<1>3. RunnerOwns'
  BY <1>1 DEF Ownership, RunnerOwns, AppOwns
<1>4. ServiceReserves'
  BY <1>1, ThreadsDistinct DEF Ownership, ServiceReserves
<1>5. JobsReserved'
  BY DEF Ownership, JobsReserved
<1>6. AppOwns'
  BY <1>1 DEF Ownership, AppOwns, AppPlaces
<1>7. BusyHasJob'
  BY <1>1, ThreadsDistinct DEF Ownership, BusyHasJob
<1> QED
  BY <1>2, <1>3, <1>4, <1>5, <1>6, <1>7 DEF Ownership

LEMMA AppOwnership == Ownership /\ AppLoop => Ownership'
<1> SUFFICES ASSUME Ownership, AppLoop PROVE Ownership'
  OBVIOUS
<1>a. ASSUME UNCHANGED <<scenario, owner, job, worker>>, NEW pc \in {"app", "cond", "wait"},
             Goes(App, pc)
      PROVE  Ownership'
  BY <1>a, ThreadGoes, WorkersTyped, ThreadsDistinct
     DEF Allowed, Dispatching, Claiming, ThreadPlaces, Resting, AppPlaces
<1>1. ASSUME NEW d \in Dispatchers, mprWaitForEvent(d) PROVE Ownership'
  BY <1>1, AppEnters DEF mprWaitForEvent, dispVars, workVars
<1>2. CASE AppLooked
  <2>1. /\ UNCHANGED <<scenario, owner, job, worker>>
        /\ \/ Goes(App, "app") \/ Goes(App, "cond")
           \/ Enters(App, thread[App].d, "tried")
        /\ thread[App].pc = "looked"
    BY <1>2 DEF AppLooked, workVars
  <2>2. thread[App].d \in Dispatchers /\ scenario.mode[thread[App].d] = "started"
    BY <2>1 DEF Ownership, AppOwns, AppPlaces
  <2> QED
    BY <1>a, <2>1, <2>2, AppEnters
<1>3. CASE AppTried
  BY <1>3, <1>a DEF AppTried, dispVars, workVars
<1>4. CASE CondReturns
  BY <1>4, <1>a DEF CondReturns, workVars
<1>5. CASE WaitReturns
  BY <1>5, <1>a DEF WaitReturns, workVars
<1> QED
  BY <1>1, <1>2, <1>3, <1>4, <1>5 DEF AppLoop

LEMMA OwnershipStep == Ownership /\ [Next]_vars => Ownership'
<1> SUFFICES ASSUME Ownership, [Next]_vars PROVE Ownership'
  OBVIOUS
<1>1. CASE Application \/ Tick
  BY <1>1, ApplicationOwnership
<1>2. ASSUME NEW t \in Threads, dispatchEvents(t) \/ HelperEnds(t) PROVE Ownership'
  BY <1>2, DispatchOwnership, HelperOwnership
<1>3. ASSUME NEW w \in Workers, workerMain(w) PROVE Ownership'
  BY <1>3, WorkerOwnership
<1>4. CASE ServiceLoop
  BY <1>4, ServiceOwnership
<1>5. CASE AppLoop
  BY <1>5, AppOwnership
<1>6. CASE UNCHANGED vars
  BY <1>6, NothingMoves DEF vars
<1> QED
  BY <1>1, <1>2, <1>3, <1>4, <1>5, <1>6 DEF Next

\* However many dispatchers, workers and events there are, whatever application code calls
\* and wherever the threads overtake one another: the events of a dispatcher are run by
\* one thread at a time (claimDispatcher, reclaimDispatcher, releaseDispatcher).
THEOREM SerializedCorrect == Spec => []Serialized
<1>1. Init => Ownership
  BY OwnershipInit
<1>2. Ownership /\ [Next]_vars => Ownership'
  BY OwnershipStep
<1>3. Ownership => Serialized
  BY OwnershipSerializes
<1> QED
  BY <1>1, <1>2, <1>3, PTL DEF Spec
=============================================================================
