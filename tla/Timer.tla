-------------------------------- MODULE Timer --------------------------------
(***************************************************************************)
(* Timers of the script library (src/core/src/ejsTimer.c, Timer.es) and    *)
(* the events of the MPR that they use.                                    *)
(*                                                                         *)
(* A timer has an event queued on the dispatcher of its interpreter.  The  *)
(* event, not the timer, is what is run again if it is CONTINUOUS, and the *)
(* methods of the timer keep the two in step.  They run on the thread of   *)
(* the interpreter, which owns the dispatcher (see Dispatcher: Serialized).*)
(* A callback can dispatch more events before it returns, by App.sleep()   *)
(* for one.  Which of the queued events is due first is left open: scripts *)
(* choose their periods.                                                   *)
(***************************************************************************)
EXTENDS Naturals

CONSTANTS
    Timers,     \* the objects that can be made
    Events,     \* the events that can be allocated
    NoTimer,
    NoEvent,
    MaxStarts,  \* bound: events that a timer has queued in its life
    MaxDepth    \* bound: nested callbacks

ASSUME TimerAssumption ==
    /\ NoTimer \notin Timers
    /\ NoEvent \notin Events
    /\ MaxStarts \in Nat
    /\ MaxDepth \in Nat \ {0}

VARIABLES
    timer,      \* the EjsTimers
    event,      \* the MprEvents
    life,       \* a timer is not made yet or freed, held by the script, or dropped by it
    depth,      \* the callbacks that have not returned
    starts,     \* history: the events that start() has created for a timer
    crashed     \* the timer whose callback was called without an interpreter

vars == <<timer, event, life, depth, starts, crashed>>

\* ejs says whether tp->ejs is set; level is 0 for an event that is not running
TimerRecord == [repeat : BOOLEAN, ejs : BOOLEAN, event : Events \cup {NoEvent}]
EventRecord == [timer : Timers \cup {NoTimer}, continuous : BOOLEAN, queued : BOOLEAN, level : Nat]

TypeOK ==
    /\ timer \in [Timers -> TimerRecord]
    /\ event \in [Events -> EventRecord]
    /\ life \in [Timers -> {"none", "held", "dropped"}]
    /\ depth \in Nat
    /\ starts \in [Timers -> Nat]
    /\ crashed \in Timers \cup {NoTimer}

Alive == crashed = NoTimer

Running(e) == event[e].level > 0

Live(e) == event[e].queued \/ Running(e)

EventsOf(t) == {e \in Events : event[e].timer = t /\ Live(e)}

\* An event that is over
Over == [timer |-> NoTimer, continuous |-> FALSE, queued |-> FALSE, level |-> 0]

\* An event that the collector has taken, or that was never used
Unused == {e \in Events : ~Live(e) /\ \A t \in Timers : timer[t].event # e}

-----------------------------------------------------------------------------
(* The methods.                                                            *)

\* The script has the timer, or runs in a callback with the timer as its this
Has(t) ==
    /\ Alive
    /\ \/ life[t] = "held"
       \/ life[t] = "dropped" /\ \E e \in EventsOf(t) : Running(e)

\* Faulty variant of timer_constructor: tp->event is not initialized.
ConstructorWithoutEvent(t) ==
    /\ Alive /\ life[t] = "none"
    /\ timer' = [timer EXCEPT ![t] = [repeat |-> FALSE, ejs |-> TRUE, event |-> NoTimer]]
    /\ life' = [life EXCEPT ![t] = "held"]
    /\ starts' = [starts EXCEPT ![t] = 0]
    /\ UNCHANGED <<event, depth, crashed>>

timer_constructor(t) ==
    /\ Alive /\ life[t] = "none"
    /\ timer' = [timer EXCEPT ![t] = [repeat |-> FALSE, ejs |-> TRUE, event |-> NoEvent]]
    /\ life' = [life EXCEPT ![t] = "held"]
    /\ starts' = [starts EXCEPT ![t] = 0]
    /\ UNCHANGED <<event, depth, crashed>>

\* With mprEnableContinuousEvent
timer_set_repeat(t, enable) ==
    /\ Has(t)
    /\ timer' = [timer EXCEPT ![t].repeat = enable]
    /\ \/ /\ timer[t].event # NoEvent
          /\ event' = [event EXCEPT ![timer[t].event].continuous = enable]
       \/ timer[t].event = NoEvent /\ UNCHANGED event
    /\ UNCHANGED <<life, depth, starts, crashed>>

\* mprCreateEvent: an event that is on the queue
mprCreateEvent(t) ==
    [timer |-> t, continuous |-> timer[t].repeat, queued |-> TRUE, level |-> 0]

\* It does nothing if the timer has an event.  tp->ejs stays as it is.
timer_start(t, e) ==
    /\ Has(t)
    /\ timer[t].event = NoEvent
    /\ starts[t] < MaxStarts
    /\ e \in Unused
    /\ event' = [event EXCEPT ![e] = mprCreateEvent(t)]
    /\ timer' = [timer EXCEPT ![t].event = e]
    /\ starts' = [starts EXCEPT ![t] = @ + 1]
    /\ UNCHANGED <<life, depth, crashed>>

\* Faulty variant of timer_stop: the event is only forgotten.
StopForgets(t) ==
    /\ Has(t)
    /\ timer[t].event # NoEvent
    /\ timer' = [timer EXCEPT ![t].event = NoEvent]
    /\ UNCHANGED <<event, life, depth, starts, crashed>>

\* mprStopContinuousEvent leaves the event on the queue
timer_stop(t) ==
    /\ Has(t)
    /\ timer[t].event # NoEvent
    /\ event' = [event EXCEPT ![timer[t].event].continuous = FALSE]
    /\ timer' = [timer EXCEPT ![t].event = NoEvent]
    /\ UNCHANGED <<life, depth, starts, crashed>>

\* The script has no reference to the timer any more
Drop(t) ==
    /\ Alive /\ life[t] = "held"
    /\ life' = [life EXCEPT ![t] = "dropped"]
    /\ UNCHANGED <<timer, event, depth, starts, crashed>>

-----------------------------------------------------------------------------
(* Running events.                                                         *)

\* dispatchEvents takes a due event off the queue and calls timerCallback, which calls the
\* script's function in the interpreter tp->ejs
RunEvent(e) ==
    /\ Alive
    /\ event[e].queued
    /\ depth < MaxDepth
    /\ event' = [event EXCEPT ![e].queued = FALSE, ![e].level = depth + 1]
    /\ depth' = depth + 1
    /\ crashed' = IF timer[event[e].timer].ejs THEN NoTimer ELSE event[e].timer
    /\ UNCHANGED <<timer, life, starts>>

\* Faulty variant of Requeue: the flag is not looked at.
RequeueAlways(record) == [record EXCEPT !.queued = TRUE, !.level = 0]

\* dispatchEvents, after the callback: a continuous event is queued again
Requeue(record) ==
    IF record.continuous THEN [record EXCEPT !.queued = TRUE, !.level = 0] ELSE Over

\* Faulty variants of AfterRun: tp->event stays, and tp->ejs is always cleared.
AfterRunKeeps(tp) == IF tp.repeat THEN tp ELSE [tp EXCEPT !.ejs = FALSE]
AfterRunClears(tp) == [tp EXCEPT !.event = IF tp.repeat THEN @ ELSE NoEvent, !.ejs = FALSE]

\* The timer of an event that has run
AfterRun(tp) == IF tp.repeat THEN tp ELSE [tp EXCEPT !.event = NoEvent, !.ejs = FALSE]

\* The function, and onerror if it has thrown, are done: the rest of timerCallback and of
\* the round of dispatchEvents
timerCallback(e) ==
    /\ Alive
    /\ depth > 0 /\ event[e].level = depth
    /\ timer' = [timer EXCEPT ![event[e].timer] = AfterRun(@)]
    /\ event' = [event EXCEPT ![e] = Requeue(@)]
    /\ depth' = depth - 1
    /\ UNCHANGED <<life, starts, crashed>>

-----------------------------------------------------------------------------
(* The garbage collector.                                                  *)

\* Of an event that is running only the flag is cleared
mprRemoveEvent(record) ==
    IF record.queued THEN Over ELSE [record EXCEPT !.continuous = FALSE]

\* Faulty variant of MarkTimer: tp->ejs is not looked at.
MarkAny(t) ==
    /\ Alive /\ life[t] # "none"
    /\ timer[t].event # NoEvent
    /\ event' = [event EXCEPT ![timer[t].event] = mprRemoveEvent(@)]
    /\ timer' = [timer EXCEPT ![t].event = NoEvent]
    /\ UNCHANGED <<life, depth, starts, crashed>>

\* manageTimer, MARK: of a timer that something refers to.  Nothing marks an interpreter
\* as abandoned in this build.
MarkTimer(t) ==
    /\ Alive /\ life[t] # "none"
    /\ ~timer[t].ejs /\ timer[t].event # NoEvent
    /\ event' = [event EXCEPT ![timer[t].event] = mprRemoveEvent(@)]
    /\ timer' = [timer EXCEPT ![t].event = NoEvent]
    /\ UNCHANGED <<life, depth, starts, crashed>>

\* manageTimer, FREE: of a timer that neither the script nor an event refers to
FreeTimer(t) ==
    /\ Alive /\ life[t] = "dropped" /\ EventsOf(t) = {}
    /\ event' = IF timer[t].event = NoEvent THEN event
                ELSE [event EXCEPT ![timer[t].event] = mprRemoveEvent(@)]
    /\ timer' = [timer EXCEPT ![t].event = NoEvent]
    /\ life' = [life EXCEPT ![t] = "none"]
    /\ UNCHANGED <<depth, starts, crashed>>

-----------------------------------------------------------------------------
Init ==
    /\ timer = [t \in Timers |-> [repeat |-> FALSE, ejs |-> FALSE, event |-> NoEvent]]
    /\ event = [e \in Events |-> Over]
    /\ life = [t \in Timers |-> "none"]
    /\ depth = 0
    /\ starts = [t \in Timers |-> 0]
    /\ crashed = NoTimer

\* What a script can do, by itself or through restart(), setTimeout(), setInterval(),
\* clearTimeout() and clearInterval()
Script(t) ==
    \/ timer_constructor(t) \/ timer_stop(t) \/ Drop(t)
    \/ \E e \in Events : timer_start(t, e)
    \/ \E enable \in BOOLEAN : timer_set_repeat(t, enable)

Next ==
    \/ \E t \in Timers : Script(t) \/ MarkTimer(t) \/ FreeTimer(t)
    \/ \E e \in Events : RunEvent(e) \/ timerCallback(e)

Spec == Init /\ [][Next]_vars

\* Callbacks return, whatever is dispatched meanwhile, and the interpreter comes back to
\* its events again and again.  They are run in the order in which they are due, so that
\* none is passed over for ever.
Fairness == \A e \in Events : SF_vars(timerCallback(e)) /\ SF_vars(RunEvent(e))

FairSpec == Spec /\ Fairness

-----------------------------------------------------------------------------
(***************************************************************************)
(* Properties                                                              *)
(***************************************************************************)

\* tp->event is an event that is queued or running, whatever the callback did to its own
\* timer: were it one that is over, start() would do nothing and the timer never run.
KnownIsLive == \A t \in Timers : timer[t].event # NoEvent => timer[t].event \in EventsOf(t)

\* An event that repeats is the one its timer knows of, so that stop() and the repeat
\* setter reach it: restarts never leave a repeating event behind, although timerCallback
\* clears tp->event whichever event of the timer it was called for.
RepeatsOnlyIfKnown ==
    \A e \in Events : Live(e) /\ event[e].continuous => timer[event[e].timer].event = e

\* timerCallback clears tp->ejs, which no start() sets again; the next callback is called
\* with no interpreter.  A timer for which only one event was ever created is safe.
CrashNeedsReuse == crashed # NoTimer => starts[crashed] > 1

\* The collector takes an event off the queue only where it was the second or later one
\* of its timer: a timer that was started once runs.
LostNeedsReuse ==
    [][\A e \in Events :
         event[e].queued /\ ~event'[e].queued /\ event'[e].level = 0
             => starts[event[e].timer] > 1]_vars

\* A timer that was stopped gets quiet: the callbacks that its queued events still make
\* come to an end, unless it is started again.
StoppedEnds ==
    \A t \in Timers :
        (life[t] = "held" /\ timer[t].event = NoEvent)
            ~> (EventsOf(t) = {} \/ timer[t].event # NoEvent \/ ~Alive)

\* "This will stop the timer if it is currently scheduled, then reschedule the timer" and
\* "Once stopped a timer can be restarted by calling $start" (Timer.es): a timer can be
\* started again, and its callback is then called in its interpreter.
RestartSafe == crashed = NoTimer

\* "Stop a timer running" (Timer.es): the callback of a timer that is stopped is not called.
StoppedIsQuiet ==
    [][\A e \in Events : RunEvent(e) => timer[event[e].timer].event = e]_vars
==============================================================================
