----------------------------- MODULE TimerProofs -----------------------------
(***************************************************************************)
(* Proofs about Timer, for any timers, events and bounds.                  *)
(*                                                                         *)
(* All of the properties come from one inductive invariant, TimerInv.  The *)
(* two that need it most are FlagAgrees, which says that the flag of the   *)
(* known event follows tp->repeat - so that the test of tp->repeat in      *)
(* timerCallback and the test of the flag in dispatchEvents, which are     *)
(* made one after the other, agree - and OnceSafe, which says what can be  *)
(* said of a timer for which one event was created.                        *)
(***************************************************************************)
EXTENDS Timer, TLAPS

\* Live events belong to a timer, and are queued or running but not both
EventsSound ==
    \A e \in Events :
        /\ Live(e) => event[e].timer \in Timers
        /\ ~(event[e].queued /\ Running(e))

\* The known event repeats if the timer does
FlagAgrees ==
    \A t \in Timers :
        timer[t].event # NoEvent => event[timer[t].event].continuous = timer[t].repeat

\* A timer is freed with no events left, has none before its first start, and has one at a
\* time before its second.  Its interpreter is forgotten only once that one is over.
OnceSafe ==
    \A t \in Timers :
        /\ life[t] = "none" => EventsOf(t) = {}
        /\ starts[t] = 0 => EventsOf(t) = {}
        /\ starts[t] = 0 /\ life[t] # "none" => timer[t].ejs
        /\ starts[t] <= 1 => \A e, f \in EventsOf(t) : e = f
        /\ starts[t] <= 1 /\ ~timer[t].ejs => EventsOf(t) = {}

TimerInv ==
    TypeOK /\ EventsSound /\ KnownIsLive /\ FlagAgrees /\ RepeatsOnlyIfKnown /\ OnceSafe
    /\ CrashNeedsReuse

-----------------------------------------------------------------------------
LEMMA InitInv == Init => TimerInv
  <1> SUFFICES ASSUME Init PROVE TimerInv
    OBVIOUS
  <1>1. TypeOK
    BY TimerAssumption DEF Init, TypeOK, TimerRecord, EventRecord, Over
  <1>2. \A t \in Timers : timer[t].event = NoEvent
    BY DEF Init
  <1>3. \A e \in Events : ~Live(e) /\ ~Running(e)
    BY DEF Init, Live, Running, Over
  <1>4. \A t \in Timers : life[t] = "none" /\ EventsOf(t) = {}
    BY <1>3 DEF Init, EventsOf
  <1>5. CrashNeedsReuse
    BY DEF Init, CrashNeedsReuse
  <1> QED
    BY <1>1, <1>2, <1>3, <1>4, <1>5
    DEF TimerInv, EventsSound, KnownIsLive, FlagAgrees, RepeatsOnlyIfKnown, OnceSafe

\* No two timers know the same event
LEMMA KnownByOne ==
    ASSUME TimerInv, NEW t \in Timers, NEW u \in Timers, timer[t].event # NoEvent,
           timer[t].event = timer[u].event
    PROVE  t = u
  BY DEF TimerInv, KnownIsLive, EventsOf

LEMMA ConstructorStep ==
    ASSUME TimerInv, NEW t \in Timers, timer_constructor(t)
    PROVE  TimerInv'
  <1> USE TimerAssumption
  <1>1. TypeOK'
    BY DEF TimerInv, TypeOK, TimerRecord, timer_constructor
  <1>2. /\ event' = event /\ crashed' = crashed /\ crashed = NoTimer
        /\ timer'[t] = [repeat |-> FALSE, ejs |-> TRUE, event |-> NoEvent]
        /\ \A u \in Timers \ {t} : timer'[u] = timer[u] /\ life'[u] = life[u] /\ starts'[u] = starts[u]
        /\ life[t] = "none" /\ life'[t] = "held" /\ starts'[t] = 0
    BY DEF TimerInv, TypeOK, timer_constructor, Alive
  <1>3. /\ \A e \in Events : Live(e)' = Live(e) /\ Running(e)' = Running(e)
        /\ \A u \in Timers : EventsOf(u)' = EventsOf(u)
    BY <1>2 DEF Live, Running, EventsOf
  <1>4. EventsOf(t) = {}
    BY <1>2 DEF TimerInv, OnceSafe
  <1>5. EventsSound'
    BY <1>2, <1>3 DEF TimerInv, EventsSound
  <1>6. KnownIsLive' /\ FlagAgrees'
    BY <1>2, <1>3 DEF TimerInv, KnownIsLive, FlagAgrees
  <1>7. RepeatsOnlyIfKnown'
    BY <1>2, <1>3, <1>4 DEF TimerInv, RepeatsOnlyIfKnown, EventsSound, EventsOf
  <1>8. OnceSafe'
    BY <1>2, <1>3, <1>4 DEF TimerInv, OnceSafe
  <1>9. CrashNeedsReuse'
    BY <1>2 DEF CrashNeedsReuse
  <1> QED
    BY <1>1, <1>5, <1>6, <1>7, <1>8, <1>9 DEF TimerInv

LEMMA SetRepeatStep ==
    ASSUME TimerInv, NEW t \in Timers, NEW enable \in BOOLEAN, timer_set_repeat(t, enable)
    PROVE  TimerInv'
  <1> USE TimerAssumption
  <1>1. /\ crashed' = crashed /\ crashed = NoTimer /\ life' = life /\ starts' = starts
        /\ timer'[t].repeat = enable /\ timer'[t].ejs = timer[t].ejs
        /\ timer'[t].event = timer[t].event
        /\ \A u \in Timers \ {t} : timer'[u] = timer[u]
    BY DEF TimerInv, TypeOK, TimerRecord, timer_set_repeat, Has, Alive
  <1>2. /\ \A e \in Events : e # timer[t].event => event'[e] = event[e]
        /\ \A e \in Events :
              /\ event'[e].queued = event[e].queued /\ event'[e].level = event[e].level
              /\ event'[e].timer = event[e].timer
        /\ timer[t].event # NoEvent => event'[timer[t].event].continuous = enable
    BY DEF TimerInv, TypeOK, TimerRecord, EventRecord, timer_set_repeat
  <1>3. TypeOK'
    <2>1. timer' \in [Timers -> TimerRecord]
      BY DEF TimerInv, TypeOK, TimerRecord, timer_set_repeat
    <2>2. event' \in [Events -> EventRecord]
      <3>1. CASE timer[t].event = NoEvent
        BY <3>1 DEF TimerInv, TypeOK, timer_set_repeat
      <3>2. CASE timer[t].event # NoEvent
        <4>1. event' = [event EXCEPT ![timer[t].event].continuous = enable]
          BY <3>2 DEF timer_set_repeat
        <4> QED
          BY <4>1, ZenonT(40) DEF TimerInv, TypeOK, EventRecord
      <3> QED
        BY <3>1, <3>2
    <2> QED
      BY <2>1, <2>2 DEF TimerInv, TypeOK, timer_set_repeat
  <1>4. /\ \A e \in Events : Live(e)' = Live(e) /\ Running(e)' = Running(e)
        /\ \A u \in Timers : EventsOf(u)' = EventsOf(u)
    BY <1>2 DEF Live, Running, EventsOf
  <1>5. EventsSound' /\ KnownIsLive'
    BY <1>1, <1>2, <1>4 DEF TimerInv, EventsSound, KnownIsLive
  <1>6. FlagAgrees'
    <2> SUFFICES ASSUME NEW u \in Timers, timer'[u].event # NoEvent
                 PROVE  event'[timer'[u].event].continuous = timer'[u].repeat
      BY DEF FlagAgrees
    <2>1. CASE u = t
      BY <1>1, <1>2, <2>1
    <2>2. CASE u # t
      <3>1. timer[u].event # timer[t].event /\ timer[u].event \in Events
        BY <1>1, <2>2, KnownByOne DEF TimerInv, TypeOK, TimerRecord
      <3> QED
        BY <1>1, <1>2, <2>2, <3>1 DEF TimerInv, FlagAgrees
    <2> QED
      BY <2>1, <2>2
  <1>7. RepeatsOnlyIfKnown'
    <2> SUFFICES ASSUME NEW e \in Events, Live(e)', event'[e].continuous
                 PROVE  timer'[event'[e].timer].event = e
      BY DEF RepeatsOnlyIfKnown
    <2>1. event[e].timer \in Timers
      BY <1>4 DEF TimerInv, EventsSound
    <2>2. CASE e = timer[t].event
      <3>1. event[e].timer = t
        BY <2>2 DEF TimerInv, KnownIsLive, EventsOf
      <3> QED
        BY <1>1, <1>2, <2>2, <3>1
    <2>3. CASE e # timer[t].event
      BY <1>1, <1>2, <1>4, <2>1, <2>3 DEF TimerInv, RepeatsOnlyIfKnown
    <2> QED
      BY <2>2, <2>3
  <1>8. OnceSafe'
    BY <1>1, <1>4 DEF TimerInv, OnceSafe
  <1>9. CrashNeedsReuse'
    BY <1>1 DEF CrashNeedsReuse
  <1> QED
    BY <1>3, <1>5, <1>6, <1>7, <1>8, <1>9 DEF TimerInv

LEMMA StartStep ==
    ASSUME TimerInv, NEW t \in Timers, NEW e \in Events, timer_start(t, e)
    PROVE  TimerInv'
  <1> USE TimerAssumption
  <1>1. /\ crashed' = crashed /\ crashed = NoTimer /\ life' = life /\ life[t] # "none"
        /\ timer[t].event = NoEvent
        /\ timer'[t].repeat = timer[t].repeat /\ timer'[t].ejs = timer[t].ejs
        /\ timer'[t].event = e
        /\ \A u \in Timers \ {t} : timer'[u] = timer[u] /\ starts'[u] = starts[u]
        /\ starts[t] \in Nat /\ starts'[t] = starts[t] + 1
    BY DEF TimerInv, TypeOK, TimerRecord, timer_start, Has, Alive
  <1>2. /\ ~Live(e) /\ \A u \in Timers : timer[u].event # e
        /\ event'[e] = [timer |-> t, continuous |-> timer[t].repeat, queued |-> TRUE, level |-> 0]
        /\ \A f \in Events \ {e} : event'[f] = event[f]
    BY DEF TimerInv, TypeOK, timer_start, Unused, mprCreateEvent
  <1>3. TypeOK'
    <2>1. timer' \in [Timers -> TimerRecord]
      BY DEF TimerInv, TypeOK, TimerRecord, timer_start
    <2>2. event' \in [Events -> EventRecord]
      BY DEF TimerInv, TypeOK, TimerRecord, EventRecord, timer_start, mprCreateEvent
    <2> QED
      BY <2>1, <2>2 DEF TimerInv, TypeOK, timer_start
  <1>4. /\ Live(e)' /\ ~Running(e)'
        /\ \A f \in Events \ {e} : Live(f)' = Live(f) /\ Running(f)' = Running(f)
    BY <1>2 DEF Live, Running
  <1>5. /\ \A u \in Timers \ {t} : EventsOf(u)' = EventsOf(u)
        /\ EventsOf(t)' = EventsOf(t) \cup {e}
    BY <1>2, <1>4 DEF EventsOf
  <1>6. EventsSound'
    BY <1>2, <1>4 DEF TimerInv, EventsSound
  <1>7. KnownIsLive'
    BY <1>1, <1>5 DEF TimerInv, KnownIsLive
  <1>8. FlagAgrees'
    <2> SUFFICES ASSUME NEW u \in Timers, timer'[u].event # NoEvent
                 PROVE  event'[timer'[u].event].continuous = timer'[u].repeat
      BY DEF FlagAgrees
    <2>1. CASE u = t
      BY <1>1, <1>2, <2>1
    <2>2. CASE u # t
      <3>1. timer[u].event \in Events \ {e}
        BY <1>1, <1>2, <2>2 DEF TimerInv, TypeOK, TimerRecord
      <3> QED
        BY <1>1, <1>2, <2>2, <3>1 DEF TimerInv, FlagAgrees
    <2> QED
      BY <2>1, <2>2
  <1>9. RepeatsOnlyIfKnown'
    <2> SUFFICES ASSUME NEW f \in Events, Live(f)', event'[f].continuous
                 PROVE  timer'[event'[f].timer].event = f
      BY DEF RepeatsOnlyIfKnown
    <2>1. CASE f = e
      BY <1>1, <1>2, <2>1
    <2>2. CASE f # e
      <3>1. timer[event[f].timer].event = f /\ event[f].timer \in Timers
        BY <1>2, <1>4, <2>2 DEF TimerInv, RepeatsOnlyIfKnown, EventsSound
      <3>2. event[f].timer # t
        BY <1>1, <3>1
      <3> QED
        BY <1>1, <1>2, <2>2, <3>1, <3>2
    <2> QED
      BY <2>1, <2>2
  <1>10. OnceSafe'
    <2> SUFFICES ASSUME NEW u \in Timers
                 PROVE  /\ life'[u] = "none" => EventsOf(u)' = {}
                        /\ starts'[u] = 0 => EventsOf(u)' = {}
                        /\ starts'[u] = 0 /\ life'[u] # "none" => timer'[u].ejs
                        /\ starts'[u] <= 1 => \A f, g \in EventsOf(u)' : f = g
                        /\ starts'[u] <= 1 /\ ~timer'[u].ejs => EventsOf(u)' = {}
      BY DEF OnceSafe
    <2>1. CASE u = t
      <3>1. starts'[t] <= 1 => starts[t] = 0
        BY <1>1
      <3>2. starts[t] = 0 => EventsOf(t) = {} /\ timer[t].ejs
        BY <1>1 DEF TimerInv, OnceSafe
      <3> QED
        BY <1>1, <1>5, <2>1, <3>1, <3>2
    <2>2. CASE u # t
      BY <1>1, <1>5, <2>2 DEF TimerInv, OnceSafe
    <2> QED
      BY <2>1, <2>2
  <1>11. CrashNeedsReuse'
    BY <1>1 DEF CrashNeedsReuse
  <1> QED
    BY <1>3, <1>6, <1>7, <1>8, <1>9, <1>10, <1>11 DEF TimerInv

LEMMA StopStep ==
    ASSUME TimerInv, NEW t \in Timers, timer_stop(t)
    PROVE  TimerInv'
  <1> USE TimerAssumption
  <1>1. /\ crashed' = crashed /\ crashed = NoTimer /\ life' = life /\ starts' = starts
        /\ timer[t].event # NoEvent /\ timer[t].event \in Events
        /\ timer'[t].repeat = timer[t].repeat /\ timer'[t].ejs = timer[t].ejs
        /\ timer'[t].event = NoEvent
        /\ \A u \in Timers \ {t} : timer'[u] = timer[u]
    BY DEF TimerInv, TypeOK, TimerRecord, timer_stop, Has, Alive
  <1>2. /\ \A e \in Events : e # timer[t].event => event'[e] = event[e]
        /\ \A e \in Events :
              /\ event'[e].queued = event[e].queued /\ event'[e].level = event[e].level
              /\ event'[e].timer = event[e].timer
        /\ ~event'[timer[t].event].continuous
    BY <1>1 DEF TimerInv, TypeOK, TimerRecord, EventRecord, timer_stop
  <1>3. TypeOK'
    <2>1. timer' \in [Timers -> TimerRecord]
      BY DEF TimerInv, TypeOK, TimerRecord, timer_stop
    <2>2. event' \in [Events -> EventRecord]
      BY DEF TimerInv, TypeOK, EventRecord, timer_stop
    <2> QED
      BY <2>1, <2>2 DEF TimerInv, TypeOK, timer_stop
  <1>4. /\ \A e \in Events : Live(e)' = Live(e) /\ Running(e)' = Running(e)
        /\ \A u \in Timers : EventsOf(u)' = EventsOf(u)
    BY <1>2 DEF Live, Running, EventsOf
  <1>5. EventsSound' /\ KnownIsLive'
    BY <1>1, <1>2, <1>4 DEF TimerInv, EventsSound, KnownIsLive
  <1>6. FlagAgrees'
    <2> SUFFICES ASSUME NEW u \in Timers, timer'[u].event # NoEvent
                 PROVE  event'[timer'[u].event].continuous = timer'[u].repeat
      BY DEF FlagAgrees
    <2>1. u # t
      BY <1>1
    <2>2. timer[u].event # timer[t].event /\ timer[u].event \in Events
      BY <1>1, <2>1, KnownByOne DEF TimerInv, TypeOK, TimerRecord
    <2> QED
      BY <1>1, <1>2, <2>1, <2>2 DEF TimerInv, FlagAgrees
  <1>7. RepeatsOnlyIfKnown'
    <2> SUFFICES ASSUME NEW e \in Events, Live(e)', event'[e].continuous
                 PROVE  timer'[event'[e].timer].event = e
      BY DEF RepeatsOnlyIfKnown
    <2>1. e # timer[t].event
      BY <1>2
    <2>2. timer[event[e].timer].event = e /\ event[e].timer \in Timers
      BY <1>2, <1>4, <2>1 DEF TimerInv, RepeatsOnlyIfKnown, EventsSound
    <2> QED
      BY <1>1, <1>2, <2>1, <2>2
  <1>8. OnceSafe'
    BY <1>1, <1>4 DEF TimerInv, OnceSafe
  <1>9. CrashNeedsReuse'
    BY <1>1 DEF CrashNeedsReuse
  <1> QED
    BY <1>3, <1>5, <1>6, <1>7, <1>8, <1>9 DEF TimerInv

LEMMA DropStep ==
    ASSUME TimerInv, NEW t \in Timers, Drop(t)
    PROVE  TimerInv'
  <1>1. /\ UNCHANGED <<timer, event, depth, starts, crashed>>
        /\ \A u \in Timers : life'[u] = "none" <=> life[u] = "none"
    BY DEF TimerInv, TypeOK, Drop
  <1>2. TypeOK'
    BY DEF TimerInv, TypeOK, Drop
  <1>3. /\ \A e \in Events : Live(e)' = Live(e) /\ Running(e)' = Running(e)
        /\ \A u \in Timers : EventsOf(u)' = EventsOf(u)
    BY <1>1 DEF Live, Running, EventsOf
  <1>4. EventsSound' /\ KnownIsLive' /\ FlagAgrees' /\ RepeatsOnlyIfKnown' /\ CrashNeedsReuse'
    BY <1>1, <1>3
    DEF TimerInv, EventsSound, KnownIsLive, FlagAgrees, RepeatsOnlyIfKnown, CrashNeedsReuse
  <1>5. OnceSafe'
    BY <1>1, <1>3 DEF TimerInv, OnceSafe
  <1> QED
    BY <1>2, <1>4, <1>5 DEF TimerInv

LEMMA RunStep ==
    ASSUME TimerInv, NEW e \in Events, RunEvent(e)
    PROVE  TimerInv'
  <1> USE TimerAssumption
  <1>1. /\ timer' = timer /\ life' = life /\ starts' = starts /\ depth \in Nat
        /\ crashed' = IF timer[event[e].timer].ejs THEN NoTimer ELSE event[e].timer
        /\ event[e].queued
    BY DEF TimerInv, TypeOK, RunEvent
  <1>2. /\ \A f \in Events \ {e} : event'[f] = event[f]
        /\ ~event'[e].queued /\ event'[e].level = depth + 1
        /\ event'[e].timer = event[e].timer /\ event'[e].continuous = event[e].continuous
    BY DEF TimerInv, TypeOK, EventRecord, RunEvent
  <1>3. event[e].timer \in Timers /\ e \in EventsOf(event[e].timer)
    BY <1>1 DEF TimerInv, EventsSound, Live, EventsOf
  <1>4. TypeOK'
    <2>1. event' \in [Events -> EventRecord]
      <3> PICK level \in Nat : level = depth + 1
        BY <1>1
      <3> PICK record \in EventRecord : event[e] = record
        BY DEF TimerInv, TypeOK
      <3>1. [record EXCEPT !.queued = FALSE, !.level = level] \in EventRecord
        BY DEF EventRecord
      <3>2. event' = [event EXCEPT ![e] = [record EXCEPT !.queued = FALSE, !.level = level]]
        BY DEF TimerInv, TypeOK, EventRecord, RunEvent
      <3> QED
        BY <3>1, <3>2 DEF TimerInv, TypeOK
    <2> QED
      BY <1>1, <1>3, <2>1 DEF TimerInv, TypeOK, RunEvent
  <1>5. /\ \A f \in Events : Live(f)' = Live(f)
        /\ \A u \in Timers : EventsOf(u)' = EventsOf(u)
    BY <1>1, <1>2 DEF Live, Running, EventsOf
  <1>6. EventsSound'
    BY <1>1, <1>2, <1>5 DEF TimerInv, EventsSound, Running
  <1>7. KnownIsLive'
    BY <1>1, <1>5 DEF TimerInv, KnownIsLive
  <1>8. \A f \in Events : /\ event'[f].timer = event[f].timer
                          /\ event'[f].continuous = event[f].continuous
    BY <1>2
  <1>9. FlagAgrees' /\ RepeatsOnlyIfKnown'
    BY <1>1, <1>5, <1>8
    DEF TimerInv, TypeOK, TimerRecord, FlagAgrees, RepeatsOnlyIfKnown
  <1>10. OnceSafe'
    BY <1>1, <1>5 DEF TimerInv, OnceSafe
  <1>11. CrashNeedsReuse'
    <2> SUFFICES ASSUME ~timer[event[e].timer].ejs PROVE starts[event[e].timer] > 1
      BY <1>1 DEF CrashNeedsReuse
    <2>1. starts[event[e].timer] \in Nat /\ ~(starts[event[e].timer] <= 1)
      BY <1>3 DEF TimerInv, TypeOK, OnceSafe
    <2> QED
      BY <2>1
  <1> QED
    BY <1>4, <1>6, <1>7, <1>9, <1>10, <1>11 DEF TimerInv

\* The tests of timerCallback and of dispatchEvents agree
LEMMA RepeatAgrees ==
    ASSUME TimerInv, NEW e \in Events, Live(e)
    PROVE  LET t == event[e].timer
           IN  /\ t \in Timers
               /\ event[e].continuous => timer[t].event = e /\ timer[t].repeat
               /\ timer[t].event = e /\ timer[t].repeat => event[e].continuous
  <1>1. event[e].timer \in Timers
    BY DEF TimerInv, EventsSound
  <1>2. event[e].continuous => timer[event[e].timer].event = e
    BY DEF TimerInv, RepeatsOnlyIfKnown
  <1>3. timer[event[e].timer].event = e
          => event[e].continuous = timer[event[e].timer].repeat
    BY <1>1, TimerAssumption DEF TimerInv, FlagAgrees
  <1> QED
    BY <1>1, <1>2, <1>3

LEMMA CallbackStep ==
    ASSUME TimerInv, NEW e \in Events, timerCallback(e)
    PROVE  TimerInv'
  <1> USE TimerAssumption
  <1>1. /\ crashed' = crashed /\ crashed = NoTimer /\ life' = life /\ starts' = starts
        /\ depth \in Nat /\ depth > 0 /\ event[e].level = depth /\ depth' = depth - 1
    BY DEF TimerInv, TypeOK, timerCallback, Alive
  <1>0. Live(e) /\ ~event[e].queued /\ event[e].timer \in Timers
    BY <1>1 DEF TimerInv, EventsSound, Live, Running
  <1> PICK t \in Timers : event[e].timer = t
    BY <1>0
  <1>2. Live(e) /\ event[e].timer = t /\ ~event[e].queued /\ e \in EventsOf(t)
    BY <1>0 DEF EventsOf
  <1>3. /\ \A u \in Timers \ {t} : timer'[u] = timer[u]
        /\ timer'[t] = AfterRun(timer[t])
    BY <1>2 DEF TimerInv, TypeOK, timerCallback
  <1>4. /\ timer'[t].repeat = timer[t].repeat
        /\ timer[t].repeat => timer'[t] = timer[t]
        /\ ~timer[t].repeat => timer'[t].event = NoEvent /\ ~timer'[t].ejs
    BY <1>2, <1>3 DEF TimerInv, TypeOK, TimerRecord, AfterRun
  <1>5. /\ \A f \in Events \ {e} : event'[f] = event[f]
        /\ event'[e] = Requeue(event[e])
    BY DEF TimerInv, TypeOK, timerCallback
  <1>6. /\ event[e].continuous => /\ event'[e].queued /\ event'[e].level = 0
                                 /\ event'[e].continuous /\ event'[e].timer = t
        /\ ~event[e].continuous => event'[e] = Over
    BY <1>5 DEF TimerInv, TypeOK, EventRecord, Requeue
  <1>7. TypeOK'
    <2>1. timer' \in [Timers -> TimerRecord]
      BY <1>2, ZenonT(40) DEF TimerInv, TypeOK, TimerRecord, timerCallback, AfterRun
    <2>2. Requeue(event[e]) \in EventRecord
      BY DEF TimerInv, TypeOK, EventRecord, Requeue, Over
    <2>3. event' \in [Events -> EventRecord]
      BY <2>2 DEF TimerInv, TypeOK, timerCallback
    <2> QED
      BY <1>1, <2>1, <2>3 DEF TimerInv, TypeOK
  <1>8. /\ Live(e)' = event[e].continuous /\ ~Running(e)'
        /\ \A f \in Events \ {e} : Live(f)' = Live(f) /\ Running(f)' = Running(f)
    BY <1>5, <1>6 DEF TimerInv, TypeOK, EventRecord, Live, Running, Over
  <1>9. /\ \A u \in Timers \ {t} : EventsOf(u)' = EventsOf(u)
        /\ EventsOf(t)' = IF event[e].continuous THEN EventsOf(t) ELSE EventsOf(t) \ {e}
    BY <1>2, <1>5, <1>6, <1>8 DEF EventsOf, Over
  <1>10. /\ event[e].continuous => timer[t].event = e /\ timer[t].repeat
         /\ timer[t].event = e /\ timer[t].repeat => event[e].continuous
    BY <1>2, RepeatAgrees
  <1>11. EventsSound'
    BY <1>2, <1>5, <1>6, <1>8 DEF TimerInv, EventsSound
  <1>12. KnownIsLive'
    <2> SUFFICES ASSUME NEW u \in Timers, timer'[u].event # NoEvent
                 PROVE  timer'[u].event \in EventsOf(u)'
      BY DEF KnownIsLive
    <2>1. timer'[u] = timer[u] /\ (u = t => timer[t].repeat)
      BY <1>3, <1>4
    <2>2. timer[u].event \in EventsOf(u)
      BY <2>1 DEF TimerInv, KnownIsLive
    <2> QED
      BY <1>9, <1>10, <2>1, <2>2
  <1>13. FlagAgrees'
    <2> SUFFICES ASSUME NEW u \in Timers, timer'[u].event # NoEvent
                 PROVE  event'[timer'[u].event].continuous = timer'[u].repeat
      BY DEF FlagAgrees
    <2>1. timer'[u] = timer[u] /\ (u = t => timer[t].repeat)
      BY <1>3, <1>4
    <2>2. timer[u].event \in EventsOf(u) /\ timer[u].event \in Events
      BY <2>1 DEF TimerInv, KnownIsLive, EventsOf
    <2>3. event[timer[u].event].continuous = timer[u].repeat
      BY <2>1 DEF TimerInv, FlagAgrees
    <2>4. CASE timer[u].event = e
      <3>1. u = t
        BY <1>2, <2>2, <2>4 DEF EventsOf
      <3> QED
        BY <1>6, <1>10, <2>1, <2>3, <2>4, <3>1
    <2>5. CASE timer[u].event # e
      BY <1>5, <2>1, <2>2, <2>3, <2>5
    <2> QED
      BY <2>4, <2>5
  <1>14. RepeatsOnlyIfKnown'
    <2> SUFFICES ASSUME NEW f \in Events, Live(f)', event'[f].continuous
                 PROVE  timer'[event'[f].timer].event = f
      BY DEF RepeatsOnlyIfKnown
    <2>1. CASE f = e
      BY <1>4, <1>6, <1>8, <1>10, <2>1
    <2>2. CASE f # e
      <3>1. /\ event[f].timer \in Timers /\ timer[event[f].timer].event = f
            /\ timer[event[f].timer].repeat
        BY <1>5, <1>8, <2>2, RepeatAgrees
      <3> QED
        BY <1>3, <1>4, <1>5, <2>2, <3>1
    <2> QED
      BY <2>1, <2>2
  <1>15. OnceSafe'
    <2> SUFFICES ASSUME NEW u \in Timers
                 PROVE  /\ life'[u] = "none" => EventsOf(u)' = {}
                        /\ starts'[u] = 0 => EventsOf(u)' = {}
                        /\ starts'[u] = 0 /\ life'[u] # "none" => timer'[u].ejs
                        /\ starts'[u] <= 1 => \A f, g \in EventsOf(u)' : f = g
                        /\ starts'[u] <= 1 /\ ~timer'[u].ejs => EventsOf(u)' = {}
      BY DEF OnceSafe
    <2>1. CASE u = t
      <3>1. starts[t] # 0 /\ life[t] # "none"
        BY <1>2 DEF TimerInv, OnceSafe
      <3>2. starts[t] <= 1 => EventsOf(t) = {e} /\ timer[t].ejs
        BY <1>2 DEF TimerInv, OnceSafe
      <3>3. starts[t] <= 1 => EventsOf(t)' \subseteq {e}
        BY <1>9, <3>2
      <3>4. starts[t] <= 1 /\ ~timer'[t].ejs => EventsOf(t)' = {}
        BY <1>4, <1>9, <1>10, <3>2
      <3> QED
        BY <1>1, <2>1, <3>1, <3>3, <3>4
    <2>2. CASE u # t
      BY <1>1, <1>3, <1>9, <2>2 DEF TimerInv, OnceSafe
    <2> QED
      BY <2>1, <2>2
  <1>16. CrashNeedsReuse'
    BY <1>1 DEF CrashNeedsReuse
  <1> QED
    BY <1>7, <1>11, <1>12, <1>13, <1>14, <1>15, <1>16 DEF TimerInv

\* A timer whose event the collector removes was started more than once
LEMMA MarkedIsReused ==
    ASSUME TimerInv, NEW t \in Timers, MarkTimer(t)
    PROVE  timer[t].event \in EventsOf(t) /\ starts[t] > 1
  <1>1. timer[t].event \in EventsOf(t) /\ ~timer[t].ejs /\ starts[t] \in Nat
    BY DEF TimerInv, TypeOK, KnownIsLive, MarkTimer
  <1>2. ~(starts[t] <= 1)
    BY <1>1 DEF TimerInv, OnceSafe
  <1> QED
    BY <1>1, <1>2

LEMMA MarkStep ==
    ASSUME TimerInv, NEW t \in Timers, MarkTimer(t)
    PROVE  TimerInv'
  <1> USE TimerAssumption
  <1>0. timer[t].event \in Events
    BY DEF TimerInv, TypeOK, TimerRecord, MarkTimer
  <1> PICK e \in Events : timer[t].event = e
    BY <1>0
  <1>1. /\ crashed' = crashed /\ crashed = NoTimer /\ life' = life /\ starts' = starts
        /\ e # NoEvent /\ e \in Events /\ life[t] # "none"
        /\ timer'[t].event = NoEvent
        /\ \A u \in Timers \ {t} : timer'[u] = timer[u]
    BY DEF TimerInv, TypeOK, TimerRecord, MarkTimer, Alive
  <1>2. e \in EventsOf(t) /\ starts[t] > 1 /\ starts[t] \in Nat /\ event[e].timer = t
    BY MarkedIsReused DEF TimerInv, TypeOK, EventsOf
  <1>3. /\ \A f \in Events \ {e} : event'[f] = event[f]
        /\ event'[e] = mprRemoveEvent(event[e])
    BY <1>1 DEF TimerInv, TypeOK, MarkTimer
  <1>4. /\ event[e].queued => event'[e] = Over
        /\ ~event[e].queued => /\ event'[e].queued = FALSE /\ event'[e].level = event[e].level
                               /\ event'[e].timer = t
        /\ ~event'[e].continuous
    BY <1>1, <1>2, <1>3 DEF TimerInv, TypeOK, EventRecord, mprRemoveEvent, Over
  <1>5. TypeOK'
    <2>1. timer' \in [Timers -> TimerRecord]
      BY DEF TimerInv, TypeOK, TimerRecord, MarkTimer
    <2>2. mprRemoveEvent(event[e]) \in EventRecord
      <3>1. Over \in EventRecord
        BY DEF EventRecord, Over
      <3>2. event[e] \in EventRecord
        BY DEF TimerInv, TypeOK
      <3>3. [event[e] EXCEPT !.continuous = FALSE] \in EventRecord
        BY <3>2 DEF EventRecord
      <3> QED
        BY <3>1, <3>3 DEF mprRemoveEvent
    <2>3. event' \in [Events -> EventRecord]
      BY <2>2 DEF TimerInv, TypeOK, MarkTimer
    <2> QED
      BY <2>1, <2>3 DEF TimerInv, TypeOK, MarkTimer
  <1>6. /\ Live(e)' => ~event[e].queued /\ Running(e) /\ Running(e)'
        /\ \A f \in Events \ {e} : Live(f)' = Live(f) /\ Running(f)' = Running(f)
    BY <1>1, <1>3, <1>4 DEF Live, Running, Over
  <1>7. /\ \A u \in Timers \ {t} : EventsOf(u)' = EventsOf(u)
    BY <1>1, <1>2, <1>3, <1>4, <1>6 DEF EventsOf, Over
  <1>8. EventsSound'
    BY <1>1, <1>2, <1>3, <1>4, <1>6 DEF TimerInv, EventsSound, Over, Running
  <1>9. KnownIsLive'
    BY <1>1, <1>7 DEF TimerInv, KnownIsLive
  <1>10. FlagAgrees'
    <2> SUFFICES ASSUME NEW u \in Timers, timer'[u].event # NoEvent
                 PROVE  event'[timer'[u].event].continuous = timer'[u].repeat
      BY DEF FlagAgrees
    <2>1. u # t
      BY <1>1
    <2>2. timer[u].event # e /\ timer[u].event \in Events
      BY <1>1, <2>1, KnownByOne DEF TimerInv, TypeOK, TimerRecord
    <2> QED
      BY <1>1, <1>3, <2>1, <2>2 DEF TimerInv, FlagAgrees
  <1>11. RepeatsOnlyIfKnown'
    <2> SUFFICES ASSUME NEW f \in Events, Live(f)', event'[f].continuous
                 PROVE  timer'[event'[f].timer].event = f
      BY DEF RepeatsOnlyIfKnown
    <2>1. f # e
      BY <1>4
    <2>2. timer[event[f].timer].event = f /\ event[f].timer \in Timers
      BY <1>3, <1>6, <2>1 DEF TimerInv, RepeatsOnlyIfKnown, EventsSound
    <2>3. event[f].timer # t
      BY <2>1, <2>2
    <2> QED
      BY <1>1, <1>3, <2>1, <2>2, <2>3
  <1>12. OnceSafe'
    <2> SUFFICES ASSUME NEW u \in Timers
                 PROVE  /\ life'[u] = "none" => EventsOf(u)' = {}
                        /\ starts'[u] = 0 => EventsOf(u)' = {}
                        /\ starts'[u] = 0 /\ life'[u] # "none" => timer'[u].ejs
                        /\ starts'[u] <= 1 => \A f, g \in EventsOf(u)' : f = g
                        /\ starts'[u] <= 1 /\ ~timer'[u].ejs => EventsOf(u)' = {}
      BY DEF OnceSafe
    <2>1. CASE u = t
      BY <1>1, <1>2, <2>1
    <2>2. CASE u # t
      BY <1>1, <1>7, <2>2 DEF TimerInv, OnceSafe
    <2> QED
      BY <2>1, <2>2
  <1>13. CrashNeedsReuse'
    BY <1>1 DEF CrashNeedsReuse
  <1> QED
    BY <1>5, <1>8, <1>9, <1>10, <1>11, <1>12, <1>13 DEF TimerInv

\* The removal of an event when a timer is freed is never reached
LEMMA FreedHasNoEvent ==
    ASSUME TimerInv, NEW t \in Timers, FreeTimer(t)
    PROVE  timer[t].event = NoEvent /\ event' = event
  BY DEF TimerInv, KnownIsLive, FreeTimer

LEMMA FreeStep ==
    ASSUME TimerInv, NEW t \in Timers, FreeTimer(t)
    PROVE  TimerInv'
  <1>1. /\ event' = event /\ crashed' = crashed /\ starts' = starts
        /\ \A u \in Timers \ {t} : life'[u] = life[u]
        /\ EventsOf(t) = {} /\ life[t] = "dropped" /\ life'[t] = "none"
    BY FreedHasNoEvent DEF TimerInv, TypeOK, FreeTimer
  <1>2. timer' = timer
    BY FreedHasNoEvent DEF TimerInv, TypeOK, TimerRecord, FreeTimer
  <1>3. TypeOK'
    BY <1>1, <1>2 DEF TimerInv, TypeOK, FreeTimer
  <1>4. /\ \A e \in Events : Live(e)' = Live(e) /\ Running(e)' = Running(e)
        /\ \A u \in Timers : EventsOf(u)' = EventsOf(u)
    BY <1>1 DEF Live, Running, EventsOf
  <1>5. EventsSound' /\ KnownIsLive' /\ FlagAgrees' /\ RepeatsOnlyIfKnown' /\ CrashNeedsReuse'
    BY <1>1, <1>2, <1>4
    DEF TimerInv, EventsSound, KnownIsLive, FlagAgrees, RepeatsOnlyIfKnown, CrashNeedsReuse
  <1>6. OnceSafe'
    BY <1>1, <1>2, <1>4 DEF TimerInv, OnceSafe
  <1> QED
    BY <1>3, <1>5, <1>6 DEF TimerInv

LEMMA StepInv == TimerInv /\ [Next]_vars => TimerInv'
  <1> SUFFICES ASSUME TimerInv, [Next]_vars PROVE TimerInv'
    OBVIOUS
  <1>1. ASSUME NEW t \in Timers, Script(t) PROVE TimerInv'
    BY <1>1, ConstructorStep, SetRepeatStep, StartStep, StopStep, DropStep DEF Script
  <1>2. ASSUME NEW t \in Timers, MarkTimer(t) \/ FreeTimer(t) PROVE TimerInv'
    BY <1>2, MarkStep, FreeStep
  <1>3. ASSUME NEW e \in Events, RunEvent(e) \/ timerCallback(e) PROVE TimerInv'
    BY <1>3, RunStep, CallbackStep
  <1>4. CASE UNCHANGED vars
    BY <1>4 DEF vars, TimerInv, TypeOK, EventsSound, KnownIsLive, FlagAgrees,
                RepeatsOnlyIfKnown, OnceSafe, CrashNeedsReuse, EventsOf, Live, Running
  <1> QED
    BY <1>1, <1>2, <1>3, <1>4 DEF Next

\* The invariant that ties tp->event, tp->repeat and tp->ejs to the events on the queue holds
\* in every reachable state.
THEOREM InvCorrect == Spec => []TimerInv
  BY InitInv, StepInv, PTL DEF Spec

-----------------------------------------------------------------------------
\* TypeOK is an invariant: every timer and event has a value of its type.
THEOREM TypeCorrect == Spec => []TypeOK
  <1>1. TimerInv => TypeOK
    BY DEF TimerInv
  <1> QED
    BY <1>1, InvCorrect, PTL

\* start() never finds an event that is over in tp->event, and so never fails silently,
\* whatever a callback does to its own timer.
THEOREM KnownIsLiveCorrect == Spec => []KnownIsLive
  <1>1. TimerInv => KnownIsLive
    BY DEF TimerInv
  <1> QED
    BY <1>1, InvCorrect, PTL

\* A repeating event is always known to its timer, so that stop() ends it.
THEOREM RepeatsOnlyIfKnownCorrect == Spec => []RepeatsOnlyIfKnown
  <1>1. TimerInv => RepeatsOnlyIfKnown
    BY DEF TimerInv
  <1> QED
    BY <1>1, InvCorrect, PTL

\* The callback of a timer that was started once is never called without an interpreter.
THEOREM CrashNeedsReuseCorrect == Spec => []CrashNeedsReuse
  <1>1. TimerInv => CrashNeedsReuse
    BY DEF TimerInv
  <1> QED
    BY <1>1, InvCorrect, PTL

\* The event of a timer that was started once leaves the queue only to run.
THEOREM LostNeedsReuseCorrect == Spec => LostNeedsReuse
  <1> DEFINE Lost(e) == event[e].queued /\ ~event'[e].queued /\ event'[e].level = 0
  <1>1. ASSUME TimerInv, [Next]_vars, NEW e \in Events, Lost(e)
        PROVE  starts[event[e].timer] > 1
    <2>1. ASSUME NEW t \in Timers, Script(t) PROVE FALSE
      <3>1. CASE timer_constructor(t) \/ Drop(t)
        BY <1>1, <3>1 DEF timer_constructor, Drop
      <3>2. CASE timer_stop(t)
        BY <1>1, <3>2 DEF TimerInv, TypeOK, EventRecord, timer_stop
      <3>3. ASSUME NEW f \in Events, timer_start(t, f) PROVE FALSE
        BY <1>1, <3>3 DEF TimerInv, TypeOK, timer_start, mprCreateEvent
      <3>4. ASSUME NEW enable \in BOOLEAN, timer_set_repeat(t, enable) PROVE FALSE
        BY <1>1, <3>4 DEF TimerInv, TypeOK, EventRecord, timer_set_repeat
      <3> QED
        BY <2>1, <3>1, <3>2, <3>3, <3>4 DEF Script
    <2>2. ASSUME NEW t \in Timers, MarkTimer(t) PROVE starts[event[e].timer] > 1
      <3>1. timer[t].event = e
        BY <1>1, <2>2 DEF TimerInv, TypeOK, MarkTimer
      <3>2. event[e].timer = t /\ starts[t] > 1
        BY <1>1, <2>2, <3>1, MarkedIsReused DEF EventsOf
      <3> QED
        BY <3>2
    <2>3. ASSUME NEW t \in Timers, FreeTimer(t) PROVE FALSE
      BY <1>1, <2>3, FreedHasNoEvent
    <2>4. ASSUME NEW f \in Events, RunEvent(f) PROVE FALSE
      BY <1>1, <2>4 DEF TimerInv, TypeOK, EventRecord, RunEvent
    <2>5. ASSUME NEW f \in Events, timerCallback(f) PROVE FALSE
      <3>1. f # e
        BY <1>1, <2>5 DEF TimerInv, TypeOK, EventsSound, Running, timerCallback
      <3> QED
        BY <1>1, <2>5, <3>1 DEF TimerInv, TypeOK, timerCallback
    <2>6. CASE UNCHANGED vars
      BY <1>1, <2>6 DEF vars
    <2> QED
      BY <1>1, <2>1, <2>2, <2>3, <2>4, <2>5, <2>6 DEF Next
  <1>2. TimerInv /\ [Next]_vars
          => [\A e \in Events : Lost(e) => starts[event[e].timer] > 1]_vars
    BY <1>1
  <1> QED
    BY <1>2, InvCorrect, PTL DEF Spec, LostNeedsReuse
=============================================================================
