------------------------------- MODULE Worker -------------------------------
(***************************************************************************)
(* Ejscript workers (src/core/src/ejsWorker.c).  A worker is a pair of     *)
(* objects: the "outside" worker lives in the interpreter that created it, *)
(* the "inside" worker lives in an interpreter of its own, serviced by its *)
(* own thread.  The two interpreters meet through events queued on each    *)
(* other's MPR dispatcher, and through state fields that each thread       *)
(* writes in both objects without a lock.                                  *)
(*                                                                         *)
(* The outside interpreter is one thread with a stack of activities:       *)
(* JavaScript code ("script"), a message callback ("msg"), the toJSON() of *)
(* what is being posted ("json"), and the native calls that service events *)
(* while they block ("join", "joinAll", "eval", "wait") or run code in the *)
(* inside interpreter ("pre").  A callback run by a blocked call may       *)
(* itself block, which is how the stack grows.                             *)
(***************************************************************************)
EXTENDS Naturals, Sequences

CONSTANTS
    Workers,        \* worker pairs the outside interpreter may create
    Calls,          \* the methods of Worker the application calls
    HandlerSets,    \* the sets of callbacks an application may install
    MaxQueue,       \* bound: messages queued when application code posts one
    MaxDepth        \* bound: nested activities when a call blocks

Slots == {"onmessage", "onerror", "onclose"}

Methods == {"new", "clone", "eval", "load", "postMessage", "terminate",
            "preload", "waitForMessage", "join", "self"}

ASSUME CallAssumption == Calls \subseteq Methods
ASSUME HandlerAssumption == HandlerSets \subseteq SUBSET Slots
ASSUME BoundAssumption == MaxQueue \in Nat /\ MaxDepth \in Nat

VARIABLES
    stack,          \* activities of the outside thread, innermost last
    exception,      \* outside ejs->exception is pending
    joining,        \* ejs->joining
    workers,        \* ejs->workers: the list of running workers
    outQ,           \* events queued on the outside dispatcher
    outside,        \* the outside worker objects
    inside,         \* the inside worker objects and their interpreters
    destroyed,      \* the outside interpreter has been destroyed
    fault           \* the NULL dereference that ended the program, if any

program == <<destroyed, fault>>
vars == <<stack, exception, joining, workers, outQ, outside, inside, program>>

-----------------------------------------------------------------------------
(* Types.  A worker that has not been created has state "NONE".  Of a      *)
(* script only its origin matters: a call that was accepted or refused.    *)

States  == {"NONE", "BEGIN", "STARTED", "CLOSED", "COMPLETE"}
Rank    == [s \in States |-> CASE s = "NONE"     -> 0 [] s = "BEGIN"  -> 1
                               [] s = "STARTED"  -> 2 [] s = "CLOSED" -> 3
                               [] s = "COMPLETE" -> 4]
Origins == {"none", "accepted", "refused"}
Joins   == {"join", "joinAll", "eval"}
Waits   == Joins \cup {"wait"}
Code    == {"script", "msg", "json"}

Frame == [kind : Waits \cup Code \cup {"pre"}, ws : SUBSET Workers,
          slot : Slots \cup {"none"}, timed : BOOLEAN,
          phase : {"run", "check", "poll", "true", "false"},
          dispatched : BOOLEAN, nested : BOOLEAN]

\* An exception that ends the script is reported to the outside worker, or
\* dropped there because another one is pending.
Failures == {"none", "raised", "reported", "dropped"}

Message == [worker : Workers, slot : Slots]

Outside == [state : States,             \* worker->state
            linked : BOOLEAN,           \* pair and ejs are set, in both objects
            callbacks : SUBSET Slots,   \* onmessage, onerror, onclose
            scriptFile : Origins, scriptLiteral : Origins,
            gotMessage : BOOLEAN]

Inside == [state : States \ {"COMPLETE"},
           pc : {"idle", "main", "error", "close", "closing", "post", "msg"},
           nested : BOOLEAN,                \* workerMain runs in a callback
           queue : Seq({"main", "msg"}),    \* events on its dispatcher
           exception : BOOLEAN,             \* ejs->exception is pending
           exiting : BOOLEAN,               \* ejs->exiting
           ran : Origins,                   \* the script workerMain picked up
           posting : {"no", "yes", "late"}, \* postMessage of a callback
           failure : Failures]              \* the exception that ended it

Faults == {"none", "doMessage", "workerMain", "handleError", "postInside",
           "postMessage", "clone"}

TypeOK ==
    /\ stack \in Seq(Frame)
    /\ exception \in BOOLEAN
    /\ joining \in BOOLEAN
    /\ workers \in Seq(Workers)
    /\ outQ \in Seq(Message)
    /\ outside \in [Workers -> Outside]
    /\ inside \in [Workers -> Inside]
    /\ destroyed \in BOOLEAN
    /\ fault \in Faults

Init ==
    /\ stack = <<>>
    /\ exception = FALSE
    /\ joining = FALSE
    /\ workers = <<>>
    /\ outQ = <<>>
    /\ outside = [w \in Workers |->
          [state |-> "NONE", linked |-> FALSE, callbacks |-> {},
           scriptFile |-> "none", scriptLiteral |-> "none", gotMessage |-> FALSE]]
    /\ inside = [w \in Workers |->
          [state |-> "NONE", pc |-> "idle", queue |-> <<>>, exception |-> FALSE,
           exiting |-> FALSE, ran |-> "none", nested |-> FALSE,
           posting |-> "no", failure |-> "none"]]
    /\ destroyed = FALSE
    /\ fault = "none"

-----------------------------------------------------------------------------
(* The outside thread and its stack.                                       *)

Running == fault = "none"
Alive   == Running /\ ~destroyed
Top     == stack[Len(stack)]
Below   == SubSeq(stack, 1, Len(stack) - 1)
Retop(f) == stack' = [stack EXCEPT ![Len(stack)] = f]

InCode  == Alive /\ stack # <<>> /\ Top.kind \in Code

\* JavaScript code of the outside interpreter is about to make a call.
Calling == InCode /\ ~exception

Throw == exception' = TRUE

Created == {w \in Workers : outside[w].state # "NONE"}
Listed  == {workers[i] : i \in 1..Len(workers)}

Activity(kind, ws, slot, timed) ==
    [kind |-> kind, ws |-> ws, slot |-> slot, timed |-> timed,
     phase |-> IF kind \in Joins THEN "check"
               ELSE IF kind = "wait" THEN "poll" ELSE "run",
     dispatched |-> FALSE, nested |-> FALSE]

\* Entering a blocking call marks the blocking calls it is nested in.
Block(kind, ws, timed) ==
    /\ Len(stack) < MaxDepth
    /\ stack' = Append([i \in 1..Len(stack) |->
                          [stack[i] EXCEPT !.nested = @ \/ stack[i].kind \in Waits]],
                       Activity(kind, ws, "none", timed))

\* Faulty variant of QueueOutside: the message has no callbackSlot.
QueueWithoutSlot(w, slot) ==
    outQ' = IF destroyed THEN outQ ELSE Append(outQ, [worker |-> w, slot |-> "none"])

\* mprCreateEvent on the outside dispatcher: nothing once it is destroyed.
QueueOutside(w, slot) ==
    outQ' = IF destroyed THEN outQ
            ELSE Append(outQ, [worker |-> w, slot |-> slot])

-----------------------------------------------------------------------------
(* JavaScript code of the outside interpreter comes and goes.              *)

\* A callback that is not a worker message (the program, a timer, a request)
\* is run.  ejsRunFunction refuses to while an exception is pending.
RunScript ==
    /\ Alive /\ stack = <<>> /\ ~exception
    /\ stack' = <<Activity("script", {}, "none", FALSE)>>
    /\ UNCHANGED <<exception, joining, workers, outQ, outside, inside, program>>

\* A timer event clears whatever exception is pending when it is done.
TimerClears ==
    /\ Alive /\ stack = <<>> /\ exception
    /\ exception' = FALSE
    /\ UNCHANGED <<stack, joining, workers, outQ, outside, inside, program>>

\* The code throws, or one of its try blocks catches.
ThrowOrCatch ==
    /\ InCode
    /\ exception' = ~exception
    /\ UNCHANGED <<stack, joining, workers, outQ, outside, inside, program>>

\* Top level code ends; whoever ran it reports and clears its exception.
ScriptReturns ==
    /\ InCode /\ Top.kind = "script"
    /\ stack' = Below
    /\ exception' = FALSE
    /\ UNCHANGED <<joining, workers, outQ, outside, inside, program>>

-----------------------------------------------------------------------------
(* Calls the outside code makes on its workers.                            *)

\* new Worker(script), Worker.fork() and worker.clone(): a pair is made and
\* listed; with a script file it is also started.
initWorker(w, hasScript) ==
    /\ outside[w].state = "NONE"
    /\ \E cbs \in HandlerSets :
          outside' = [outside EXCEPT ![w] =
             [@ EXCEPT !.state = IF hasScript THEN "STARTED" ELSE "BEGIN",
                       !.linked = TRUE, !.callbacks = cbs,
                       !.scriptFile = IF hasScript THEN "accepted" ELSE "none"]]
    /\ inside' = [inside EXCEPT ![w] =
          [@ EXCEPT !.state = "BEGIN",
                    !.queue = IF hasScript THEN <<"main">> ELSE <<>>]]
    /\ workers' = Append(workers, w)

workerConstructor(w, hasScript) ==
    /\ Calling
    /\ initWorker(w, hasScript)
    /\ UNCHANGED <<stack, exception, joining, outQ, program>>

\* clone() reads baseWorker->pair->ejs, which is NULL once base is COMPLETE.
workerClone(base, w) ==
    /\ Calling /\ base \in Created /\ w \notin Created
    /\ \/ /\ outside[base].linked
          /\ initWorker(w, FALSE)
          /\ UNCHANGED fault
       \/ /\ ~outside[base].linked
          /\ fault' = "clone"
          /\ UNCHANGED <<workers, outside, inside>>
    /\ UNCHANGED <<stack, exception, joining, outQ, destroyed>>

\* eval() and load() store their script before startWorker looks at the
\* state.  (workerMain has read the fields once the inside worker has left
\* BEGIN; what is stored after that is never used, and not recorded.)
StoreScript(w, via) ==
    LET origin == IF outside[w].state = "BEGIN" THEN "accepted" ELSE "refused"
    IN  IF inside[w].state # "BEGIN" THEN outside[w]
        ELSE IF via = "load" THEN [outside[w] EXCEPT !.scriptFile = origin]
        ELSE [outside[w] EXCEPT !.scriptLiteral = origin]

\* Faulty variant of startWorker: the state is not tested.
StartAnyway(w, via, timeout) ==
    /\ Calling /\ w \in Created
    /\ outside' = [outside EXCEPT ![w] = [StoreScript(w, via) EXCEPT !.state = "STARTED"]]
    /\ inside' = [inside EXCEPT ![w].queue = Append(@, "main")]
    /\ timeout = "zero"
    /\ UNCHANGED <<stack, exception, joining, workers, outQ, program>>

\* workerMain is queued and, unless the timeout is zero, the call joins.
startWorker(w, via, timeout) ==
    /\ Calling /\ w \in Created
    /\ \/ /\ outside[w].state # "BEGIN"
          /\ outside' = [outside EXCEPT ![w] = StoreScript(w, via)]
          /\ Throw
          /\ UNCHANGED <<stack, inside>>
       \/ /\ outside[w].state = "BEGIN"
          /\ outside' = [outside EXCEPT ![w] =
                           [StoreScript(w, via) EXCEPT !.state = "STARTED"]]
          /\ inside' = [inside EXCEPT ![w].queue = Append(@, "main")]
          /\ \/ timeout = "zero" /\ UNCHANGED stack
             \/ timeout # "zero" /\ Block("eval", {w}, timeout = "timed")
          /\ UNCHANGED exception
    /\ UNCHANGED <<joining, workers, outQ, program>>

\* postMessage() on an outside worker tests the state, and nothing else,
\* before ejsToJSON runs what code the data has for its serialization.
workerPostMessage(w) ==
    /\ Calling /\ w \in Created
    /\ \/ /\ Rank[outside[w].state] >= Rank["CLOSED"]
          /\ Throw
          /\ UNCHANGED stack
       \/ /\ Rank[outside[w].state] < Rank["CLOSED"]
          /\ Len(stack) < MaxDepth
          /\ stack' = Append(stack, Activity("json", {w}, "none", FALSE))
          /\ UNCHANGED exception
    /\ UNCHANGED <<joining, workers, outQ, outside, inside, program>>

\* The rest of postMessage().  Data that cannot be serialized, or whose
\* toJSON() threw, ends it with an exception.  It reads worker->pair, which
\* is NULL when that code has waited for the worker to be COMPLETE.
PostsMessage(w) ==
    /\ InCode /\ Top.kind = "json" /\ Top.ws = {w} /\ w \in Created
    /\ \/ /\ stack' = Below
          /\ Throw
          /\ UNCHANGED <<inside, fault>>
       \/ /\ ~exception /\ outside[w].linked
          /\ Len(inside[w].queue) < MaxQueue
          /\ stack' = Below
          /\ inside' = [inside EXCEPT ![w].queue = Append(@, "msg")]
          /\ UNCHANGED <<exception, fault>>
       \/ /\ ~exception /\ ~outside[w].linked
          /\ fault' = "postMessage"
          /\ UNCHANGED <<stack, exception, inside>>
    /\ UNCHANGED <<joining, workers, outQ, outside, destroyed>>

\* terminate() on an outside worker; nothing happens to a COMPLETE one.
workerTerminate(w) ==
    /\ Calling
    /\ \/ /\ outside[w].state = "BEGIN"
          /\ Throw
          /\ UNCHANGED inside
       \/ /\ outside[w].state \in {"STARTED", "CLOSED"}
          /\ inside' = [inside EXCEPT ![w].exiting = TRUE]
          /\ UNCHANGED exception
    /\ UNCHANGED <<stack, joining, workers, outQ, outside, program>>

\* preload() and preeval(): code of the inside interpreter, run by the
\* outside thread.
workerPreload(w) ==
    /\ Calling /\ w \in Created
    /\ \/ /\ outside[w].state # "BEGIN"
          /\ Throw
          /\ UNCHANGED stack
       \/ /\ outside[w].state = "BEGIN"
          /\ Len(outQ) < MaxQueue
          /\ Block("pre", {w}, FALSE)
          /\ UNCHANGED exception
    /\ UNCHANGED <<joining, workers, outQ, outside, inside, program>>

\* The preloaded code ends.  When it threw (or could not run because an
\* earlier exception is still pending) the error is both queued and thrown,
\* and it stays pending in the inside interpreter.
PreloadReturns(w) ==
    /\ Alive /\ stack # <<>> /\ Top.kind = "pre" /\ Top.ws = {w}
    /\ stack' = Below
    /\ \/ /\ ~inside[w].exception
          /\ UNCHANGED <<exception, outQ, inside>>
       \/ /\ inside' = [inside EXCEPT ![w].exception = TRUE]
          /\ QueueOutside(w, "onerror")
          /\ Throw
    /\ UNCHANGED <<joining, workers, outside, program>>

-----------------------------------------------------------------------------
(* Calls that block and service the outside dispatcher meanwhile.          *)

\* Worker.join(): all listed workers, or the ones given.
workerJoin(kind, ws, timed) ==
    /\ Calling
    /\ IF kind = "joinAll" THEN ws = Listed ELSE ws \subseteq Created
    /\ Block(kind, ws, timed)
    /\ UNCHANGED <<exception, joining, workers, outQ, outside, inside, program>>

\* waitForMessage() on an outside worker.
workerWaitForMessage(w, timed) ==
    /\ Calling /\ w \in Created
    /\ Block("wait", {w}, timed)
    /\ outside' = [outside EXCEPT ![w].gotMessage = FALSE]
    /\ UNCHANGED <<exception, joining, workers, outQ, inside, program>>

Blocked(kinds, phase) ==
    Alive /\ stack # <<>> /\ Top.kind \in kinds /\ Top.phase = phase

\* Faulty variant of reapJoins: CLOSED is taken for the end.
ReapClosed(f) ==
    \A w \in IF f.kind = "joinAll" THEN Listed ELSE f.ws :
        Rank[outside[w].state] >= Rank["CLOSED"]

\* Joining all looks at the list as it is now.
reapJoins(f) ==
    \A w \in IF f.kind = "joinAll" THEN Listed ELSE f.ws :
        outside[w].state = "COMPLETE"

\* Head of join's loop.
JoinChecks ==
    /\ Blocked(Joins, "check")
    /\ joining' = ~reapJoins(Top)
    /\ Retop([Top EXCEPT !.phase = IF reapJoins(Top) THEN "true" ELSE "poll",
                         !.dispatched = FALSE])
    /\ UNCHANGED <<exception, workers, outQ, outside, inside, program>>

\* mprWaitForEvent returns when it has dispatched all that was queued, or
\* when it times out.
PollOver == outQ = <<>> /\ (Top.dispatched \/ Top.timed)

\* Faulty variant of JoinPolls: the workers are not looked at again.
PollsOnly ==
    /\ Blocked(Joins, "poll") /\ PollOver
    /\ \/ /\ exception
          /\ Retop([Top EXCEPT !.phase = "true"])
       \/ /\ ~exception
          /\ Retop([Top EXCEPT !.dispatched = FALSE])
    /\ UNCHANGED <<exception, joining, workers, outQ, outside, inside, program>>

\* Tail of join's loop.  A pending exception ends it with the result 0, that
\* is true, and leaves ejs->joining as it is.
JoinPolls ==
    /\ Blocked(Joins, "poll") /\ PollOver
    /\ \/ /\ exception
          /\ Retop([Top EXCEPT !.phase = "true"])
          /\ UNCHANGED joining
       \/ /\ ~exception /\ Top.dispatched
          /\ Retop([Top EXCEPT !.phase = "check"])
          /\ UNCHANGED joining
       \/ /\ ~exception /\ Top.timed
          /\ Retop([Top EXCEPT !.phase = IF joining THEN "false" ELSE "true"])
          /\ joining' = FALSE
    /\ UNCHANGED <<exception, workers, outQ, outside, inside, program>>

\* waitForMessage's loop; both arms of its final test return true.
WaitPolls ==
    /\ Blocked({"wait"}, "poll") /\ PollOver
    /\ LET got == \E w \in Top.ws : outside[w].gotMessage
       IN  \/ /\ got \/ exception \/ Top.timed
              /\ Retop([Top EXCEPT !.phase = "true"])
              /\ outside' = [w \in Workers |->
                   [outside[w] EXCEPT !.gotMessage = @ /\ w \notin Top.ws]]
           \/ /\ ~got /\ ~exception /\ Top.dispatched
              /\ Retop([Top EXCEPT !.dispatched = FALSE])
              /\ UNCHANGED outside
    /\ UNCHANGED <<exception, joining, workers, outQ, inside, program>>

\* A blocking call returns its result.  An eval() whose join returned true
\* is at this point reading inside->result out of the inside interpreter.
CallReturns ==
    /\ Blocked(Waits, "true") \/ Blocked(Waits, "false")
    /\ stack' = Below
    /\ UNCHANGED <<exception, joining, workers, outQ, outside, inside, program>>

-----------------------------------------------------------------------------
(* Messages arriving at the outside worker.                                *)

\* mprRemoveItem: the first match goes, the rest moves up.
RemoveItem(list, w) ==
    IF \E i \in 1..Len(list) : list[i] = w
    THEN LET n == CHOOSE i \in 1..Len(list) :
                      list[i] = w /\ \A j \in 1..(i - 1) : list[j] # w
         IN  [i \in 1..(Len(list) - 1) |-> IF i < n THEN list[i] ELSE list[i + 1]]
    ELSE list

\* Faulty variant of removeWorker: the list is left alone.
KeepListed(w) == UNCHANGED workers

\* removeWorker takes the worker off the list.  It also clears the links of
\* both objects: the field linked, which its callers assign.
removeWorker(w) == workers' = RemoveItem(workers, w)

\* Faulty variant of MessageDone: an error also unlinks the pair.
UnlinkOnError(w, slot, worker) ==
    /\ outside' = [outside EXCEPT ![w] =
         [worker EXCEPT !.state = IF slot = "onclose" THEN "COMPLETE" ELSE @,
                        !.linked = @ /\ slot = "onmessage"]]
    /\ IF slot = "onmessage" THEN UNCHANGED workers ELSE removeWorker(w)

\* The end of doMessage, after the callback (if any) has run.
MessageDone(w, slot, worker) ==
    \/ /\ slot = "onclose"
       /\ outside' = [outside EXCEPT ![w] =
                        [worker EXCEPT !.state = "COMPLETE", !.linked = FALSE]]
       /\ removeWorker(w)
    \/ /\ slot # "onclose"
       /\ outside' = [outside EXCEPT ![w] = worker]
       /\ UNCHANGED workers

\* The event loop, or the innermost blocking call, takes the next event.
CanDispatch ==
    /\ Alive /\ outQ # <<>>
    /\ stack # <<>> => Top.kind \in Waits /\ Top.phase = "poll"

Dispatching ==
    IF stack = <<>> THEN stack
    ELSE [stack EXCEPT ![Len(stack)].dispatched = TRUE]

\* A waitForMessage() clears gotMessage when it starts, so that the flag is
\* only recorded while such a call is under way.
Awaited(w) == \E i \in 1..Len(stack) : stack[i].kind = "wait" /\ w \in stack[i].ws

\* What becomes of the exception that ended the script when its onerror is
\* dispatched.  With another one pending ejsRunFunction does not run the
\* callback, and without a callback ejsThrowError only logs it.
Dispatched(failure) ==
    IF failure # "raised" THEN failure
    ELSE IF exception THEN "dropped" ELSE "reported"

\* doMessage on the outside interpreter.  The callback is pushed as code;
\* ejsRunFunction does not run it when an exception is pending.  Without a
\* callback, onerror throws in this interpreter.
doMessage ==
    /\ CanDispatch /\ outside[Head(outQ).worker].linked
    /\ outQ' = Tail(outQ)
    /\ LET w    == Head(outQ).worker
           slot == Head(outQ).slot
           runs == slot \in outside[w].callbacks /\ ~exception
           got  == [outside[w] EXCEPT !.gotMessage = @ \/ Awaited(w)]
       IN  /\ inside' = [inside EXCEPT ![w].failure =
                           IF slot = "onerror" THEN Dispatched(@) ELSE @]
           /\ \/ /\ runs
                 /\ stack' = Append(Dispatching, Activity("msg", {w}, slot, FALSE))
                 /\ outside' = [outside EXCEPT ![w] = got]
                 /\ UNCHANGED <<exception, workers>>
              \/ /\ ~runs
                 /\ stack' = Dispatching
                 /\ exception' = (exception \/ slot = "onerror")
                 /\ MessageDone(w, slot, got)
    /\ UNCHANGED <<joining, program>>

\* The program dereferences a NULL pointer and is gone.
Crash(f) ==
    /\ fault' = f
    /\ UNCHANGED <<stack, exception, joining, workers, outQ, outside, inside,
                   destroyed>>

\* A message that comes after onclose finds worker->ejs cleared.
MessageTooLate ==
    /\ CanDispatch /\ ~outside[Head(outQ).worker].linked
    /\ Crash("doMessage")

\* The callback returns, or is unwound by an exception, and doMessage ends.
CallbackReturns ==
    /\ InCode /\ Top.kind = "msg"
    /\ \E w \in Top.ws : MessageDone(w, Top.slot, outside[w])
    /\ stack' = Below
    /\ UNCHANGED <<exception, joining, outQ, inside, program>>

-----------------------------------------------------------------------------
(* The thread that services the inside dispatcher.                         *)

\* A step that only changes the inside worker.
InsideStep(w, new) ==
    /\ inside' = [inside EXCEPT ![w] = new]
    /\ UNCHANGED <<stack, exception, joining, workers, outQ, outside, program>>

\* workerMain starts, from the event loop or from a callback that waits for
\* a message.  It reads outsideWorker->ejs, and outside->service for a
\* literal script: gone when the outside interpreter has been destroyed.
\* (ejsCreateService always installs loadScriptLiteral.)  A pending exception
\* keeps the script from running.
workerMain(w) ==
    /\ Running /\ inside[w].pc \in {"idle", "msg"}
    /\ inside[w].queue # <<>> /\ Head(inside[w].queue) = "main"
    /\ LET literal == outside[w].scriptFile = "none"
           broken  == ~outside[w].linked \/ (literal /\ destroyed)
           script  == IF literal THEN outside[w].scriptLiteral ELSE outside[w].scriptFile
           started == [inside[w] EXCEPT !.queue = Tail(@), !.state = "STARTED",
                                        !.nested = (inside[w].pc = "msg")]
       IN  \/ broken /\ Crash("workerMain")
           \/ /\ ~broken
              /\ InsideStep(w, IF inside[w].exception THEN [started EXCEPT !.pc = "error"]
                               ELSE [started EXCEPT !.pc = "main", !.ran = script])

\* Code of the inside interpreter runs: the script or a callback on the
\* inside thread, or a preload on the outside thread.
InsideCode(w) ==
    \/ inside[w].pc \in {"main", "msg"}
    \/ stack # <<>> /\ Top.kind = "pre" /\ Top.ws = {w}

\* postMessage() by code of the inside interpreter.  Once the inside worker
\* is CLOSED the call throws.  The state that it tests is assigned by
\* workerMain, on this thread: it stays what it was while the data is
\* serialized, unless toJSON() waits and workerMain is run meanwhile.
InsidePost(w) ==
    /\ Running /\ InsideCode(w)
    /\ Rank[inside[w].state] < Rank["CLOSED"]
    /\ \/ ~outside[w].linked /\ Crash("postInside")
       \/ /\ outside[w].linked
          /\ Len(outQ) < MaxQueue
          /\ QueueOutside(w, "onmessage")
          /\ UNCHANGED <<stack, exception, joining, workers, outside, inside, program>>

\* That case: a callback posts, before workerMain has run, data whose
\* toJSON() waits for messages.
InsidePostWaits(w) ==
    /\ Running /\ inside[w].pc = "msg" /\ inside[w].state = "BEGIN"
    /\ inside[w].posting = "no"
    /\ InsideStep(w, [inside[w] EXCEPT !.posting = "yes"])

\* The data has been serialized and the message is queued, "late" if the
\* worker has been closed meanwhile.
InsidePostResumes(w) ==
    /\ Running /\ inside[w].pc = "msg" /\ inside[w].posting = "yes"
    /\ \/ ~outside[w].linked /\ Crash("postMessage")
       \/ /\ outside[w].linked
          /\ Len(outQ) < MaxQueue
          /\ QueueOutside(w, "onmessage")
          /\ inside' = [inside EXCEPT ![w].posting =
                          IF inside[w].state = "CLOSED" THEN "late" ELSE "no"]
          /\ UNCHANGED <<stack, exception, joining, workers, outside, program>>

\* exit() or self.terminate() by code of the inside interpreter.
workerExit(w) ==
    /\ Running /\ InsideCode(w)
    /\ InsideStep(w, [inside[w] EXCEPT !.exiting = TRUE])

\* doMessage on the inside interpreter: on its own, or from within a
\* waitForMessage() of the script or of a callback.  worker->ejs is NULL
\* after removeWorker.  No callback is run with an exception pending.
InsideMessage(w) ==
    /\ Running /\ inside[w].pc \in {"idle", "main", "msg"}
    /\ inside[w].queue # <<>> /\ Head(inside[w].queue) = "msg"
    /\ \/ ~outside[w].linked /\ Crash("doMessage")
       \/ /\ outside[w].linked
          /\ InsideStep(w, [inside[w] EXCEPT !.queue = Tail(@),
                               !.pc = IF @ = "idle" /\ ~inside[w].exception
                                      THEN "msg" ELSE @])

\* The inside callback ends.  Nothing clears an exception that it threw.  A
\* postMessage() that it was making has failed.
InsideMessageDone(w, throws) ==
    /\ Running /\ inside[w].pc = "msg"
    /\ InsideStep(w, [inside[w] EXCEPT !.pc = "idle", !.exception = @ \/ throws,
                         !.posting = IF @ = "yes" THEN "no" ELSE @])

\* The script ends, by itself or because it came to an attention point (an
\* exception, the end of a callback) after it was told to exit.
ScriptEnds(w, throws) ==
    /\ Running /\ inside[w].pc = "main"
    /\ InsideStep(w, IF throws
                     THEN [inside[w] EXCEPT !.pc = "error", !.exception = TRUE,
                                            !.failure = "raised"]
                     ELSE [inside[w] EXCEPT !.pc = "close"])

\* Faulty variants of handleError: it posts onclose; it posts nothing.
ErrorAsClose(w) ==
    /\ Running /\ inside[w].pc = "error"
    /\ QueueOutside(w, "onclose")
    /\ inside' = [inside EXCEPT ![w] = [@ EXCEPT !.exception = FALSE, !.pc = "close"]]
    /\ UNCHANGED <<stack, exception, joining, workers, outside, program>>

SilentError(w) ==
    /\ Running /\ inside[w].pc = "error"
    /\ InsideStep(w, [inside[w] EXCEPT !.exception = FALSE, !.pc = "close"])

\* handleError by workerMain, which reads worker->pair->ejs.
handleError(w) ==
    /\ Running /\ inside[w].pc = "error"
    /\ \/ ~outside[w].linked /\ Crash("handleError")
       \/ /\ outside[w].linked
          /\ QueueOutside(w, "onerror")
          /\ inside' = [inside EXCEPT ![w] =
                          [@ EXCEPT !.exception = FALSE, !.pc = "close"]]
          /\ UNCHANGED <<stack, exception, joining, workers, outside, program>>

\* The inside thread closes the inside worker, then the outside worker, and
\* then queues onclose.
CloseInside(w) ==
    /\ Running /\ inside[w].pc = "close"
    /\ InsideStep(w, [inside[w] EXCEPT !.state = "CLOSED", !.pc = "closing"])

CloseOutside(w) ==
    /\ Running /\ inside[w].pc = "closing"
    /\ outside' = [outside EXCEPT ![w].state = "CLOSED"]
    /\ inside' = [inside EXCEPT ![w].pc = "post"]
    /\ UNCHANGED <<stack, exception, joining, workers, outQ, program>>

\* Faulty variants of PostClose: a repeating event; no event.
PostCloseRepeating(w) ==
    /\ Running /\ inside[w].pc = "post"
    /\ Len(outQ) < 2 * MaxQueue
    /\ QueueOutside(w, "onclose")
    /\ UNCHANGED <<stack, exception, joining, workers, outside, inside, program>>

PostNothing(w) ==
    /\ Running /\ inside[w].pc = "post"
    /\ InsideStep(w, [inside[w] EXCEPT !.pc = "idle"])

PostClose(w) ==
    /\ Running /\ inside[w].pc = "post"
    /\ QueueOutside(w, "onclose")
    /\ inside' = [inside EXCEPT ![w] =
                    [@ EXCEPT !.pc = IF inside[w].nested THEN "msg" ELSE "idle",
                              !.nested = FALSE]]
    /\ UNCHANGED <<stack, exception, joining, workers, outside, program>>

\* The garbage collector frees an unlinked inside interpreter, and with its
\* dispatcher whatever is still queued there.
CollectInside(w) ==
    /\ Running /\ w \in Created /\ ~outside[w].linked
    /\ inside[w].pc = "idle" /\ inside[w].queue # <<>>
    /\ InsideStep(w, [inside[w] EXCEPT !.queue = <<>>])

-----------------------------------------------------------------------------
\* ejsRemoveWorkers walks ejs->workers by index while removeWorker shortens
\* it, and so visits the entries at odd positions only.
ejsRemoveWorkers ==
    /\ outside' = [w \in Workers |->
         [outside[w] EXCEPT !.linked =
            @ /\ ~\E i \in 1..Len(workers) : i % 2 = 1 /\ workers[i] = w]]
    /\ workers' = <<>>

\* ejsDestroyVM, at the end of the program, whatever the workers are doing.
ejsDestroyVM ==
    /\ Alive /\ stack = <<>>
    /\ ejsRemoveWorkers
    /\ outQ' = <<>>
    /\ destroyed' = TRUE
    /\ UNCHANGED <<stack, exception, joining, inside, fault>>

-----------------------------------------------------------------------------
OuterCode == RunScript \/ TimerClears \/ ThrowOrCatch \/ ScriptReturns

OuterCall(w) ==
    \/ "new" \in Calls /\ \E hasScript \in BOOLEAN : workerConstructor(w, hasScript)
    \/ "clone" \in Calls /\ \E base \in Workers : workerClone(base, w)
    \/ \E via \in Calls \cap {"eval", "load"}, timeout \in {"zero", "timed", "forever"} :
          startWorker(w, via, timeout)
    \/ "postMessage" \in Calls /\ workerPostMessage(w)
    \/ PostsMessage(w)
    \/ "terminate" \in Calls /\ workerTerminate(w)
    \/ "preload" \in Calls /\ workerPreload(w)
    \/ PreloadReturns(w)
    \/ "waitForMessage" \in Calls /\ \E timed \in BOOLEAN : workerWaitForMessage(w, timed)

OuterJoin ==
    /\ "join" \in Calls
    /\ \E kind \in {"join", "joinAll"}, ws \in SUBSET Workers, timed \in BOOLEAN :
          workerJoin(kind, ws, timed)

OuterLoop ==
    \/ JoinChecks \/ JoinPolls \/ WaitPolls \/ CallReturns
    \/ doMessage \/ MessageTooLate \/ CallbackReturns

Inner(w) ==
    \/ workerMain(w)
    \/ "self" \in Calls /\ (InsidePost(w) \/ InsidePostWaits(w) \/ workerExit(w))
    \/ InsidePostResumes(w)
    \/ InsideMessage(w)
    \/ \E throws \in BOOLEAN : InsideMessageDone(w, throws) \/ ScriptEnds(w, throws)
    \/ handleError(w)
    \/ CloseInside(w) \/ CloseOutside(w)
    \/ PostClose(w)
    \/ CollectInside(w)

Next ==
    \/ OuterCode \/ OuterJoin \/ OuterLoop \/ ejsDestroyVM
    \/ \E w \in Workers : OuterCall(w) \/ Inner(w)

Spec == Init /\ [][Next]_vars

-----------------------------------------------------------------------------
(* Fairness.  Threads are scheduled and events queued on a dispatcher are   *)
(* run in order; callbacks and top level code return; a blocked call does   *)
(* what it can.  A worker's script is not assumed to end, not even when it  *)
(* is told to: terminate() sets ejs->exiting and nothing makes the script   *)
(* look at it.                                                              *)

InnerFairness(w) ==
    /\ WF_vars(workerMain(w))
    /\ WF_vars(InsideMessage(w))
    /\ WF_vars(InsideMessageDone(w, FALSE))
    /\ WF_vars(handleError(w))
    /\ WF_vars(CloseInside(w)) /\ WF_vars(CloseOutside(w))
    /\ WF_vars(PostClose(w))
    /\ WF_vars(PreloadReturns(w))

Fairness ==
    /\ \A w \in Workers : InnerFairness(w)
    /\ WF_vars(JoinChecks) /\ WF_vars(JoinPolls) /\ WF_vars(WaitPolls)
    /\ WF_vars(CallReturns)
    /\ SF_vars(doMessage) /\ SF_vars(ScriptReturns) /\ SF_vars(CallbackReturns)

FairSpec == Spec /\ Fairness

-----------------------------------------------------------------------------
(* Properties.                                                             *)

\* The onclose that workerMain posts is the last message the outside worker
\* ever gets: none of the same worker is queued behind it, nor still queued
\* while its callback runs.  doMessage relies on it, since it uses
\* worker->ejs, which removeWorker clears after onclose.  The exception is
\* the late post: one that a callback of the worker began before workerMain
\* ran, and whose toJSON() waited until workerMain had ended.
CloseIsLast ==
    \A w \in Workers : inside[w].posting = "late" \/
        /\ \A i, j \in 1..Len(outQ) :
              i < j /\ outQ[i] = [worker |-> w, slot |-> "onclose"] => outQ[j].worker # w
        /\ \A i \in 1..Len(stack), j \in 1..Len(outQ) :
              stack[i].slot = "onclose" /\ w \in stack[i].ws => outQ[j].worker # w

\* Until the interpreter is destroyed, a worker is on ejs->workers (which is
\* what keeps it from being collected) and linked to its pair exactly while
\* it is neither uncreated nor COMPLETE, and it is listed once.
LinkedWhileListed ==
    ~destroyed =>
        /\ \A w \in Workers :
              /\ outside[w].linked <=> w \in Listed
              /\ outside[w].linked <=> outside[w].state \in {"BEGIN", "STARTED", "CLOSED"}
        /\ \A i, j \in 1..Len(workers) : workers[i] = workers[j] => i = j

\* The outside worker is COMPLETE only when the inside thread is out of
\* workerMain and the inside worker is CLOSED.
CompleteAfterMain ==
    \A w \in Workers : outside[w].state = "COMPLETE" =>
        inside[w].state = "CLOSED" /\ inside[w].pc \in {"idle", "msg"}

\* By the time the worker is COMPLETE, the onerror of an exception that ended
\* its script has been dispatched, before onclose: the callback was called,
\* or the error thrown, or - because the outside interpreter had an exception
\* pending at that time - it was dropped.
ErrorBeforeComplete ==
    \A w \in Workers :
        outside[w].state = "COMPLETE" => inside[w].failure # "raised"

\* onerror "is invoked when the Worker thows an exception": the error of a
\* COMPLETE worker has been reported, not dropped.
ErrorDelivered ==
    \A w \in Workers :
        outside[w].state = "COMPLETE" => inside[w].failure \in {"none", "reported"}

\* join() and eval() succeed (with no exception pending) only when every
\* worker they name is COMPLETE - unless a callback they dispatched made a
\* blocking call of its own, which overwrites ejs->joining.  An empty array
\* names no worker: it is not waited for at all (see JoinAllWaits).
JoinSound ==
    \A i \in 1..Len(stack) :
        /\ stack[i].kind \in Joins /\ stack[i].phase = "true"
        /\ ~stack[i].nested /\ ~exception
        => \A w \in stack[i].ws : outside[w].state = "COMPLETE"

\* "If null or if the array is empty, then all workers are waited for": a
\* join() without a worker succeeds (with no exception pending and no nested
\* blocking call) only when all workers are COMPLETE.
JoinAllWaits ==
    \A i \in 1..Len(stack) :
        /\ stack[i].kind = "joinAll" \/ (stack[i].kind = "join" /\ stack[i].ws = {})
        /\ stack[i].phase = "true" /\ ~stack[i].nested /\ ~exception
        => \A w \in Created : outside[w].state = "COMPLETE"

\* The only NULL dereferences are the ones of a teardown.  A worker's thread
\* meets one in workerMain, in handleError or in a postMessage() of its
\* script only when the outside interpreter has been destroyed.  The others
\* need a worker that is COMPLETE: a message to it is still queued, it is
\* cloned, or it became COMPLETE while the toJSON() of a postMessage() ran.
CrashNeedsTeardown ==
    /\ fault \in {"workerMain", "handleError", "postInside"} => destroyed
    /\ fault \in {"doMessage", "clone", "postMessage"} =>
          destroyed \/ \E w \in Workers : outside[w].state = "COMPLETE"

\* Both threads write worker->state without a lock, and yet no worker ever
\* goes back to an earlier state.
StatesAdvance ==
    [][\A w \in Workers : /\ Rank[outside[w].state] <= Rank[outside'[w].state]
                          /\ Rank[inside[w].state] <= Rank[inside'[w].state]]_vars

\* A callback run by activity n has made a call that may block for ever.
BlocksAbove(n) == \E j \in (n + 1)..Len(stack) : stack[j].kind \in Waits /\ ~stack[j].timed

\* Such a call was made by the onclose callback of w.  As w is not COMPLETE
\* before that callback returns, a join() on w made there waits for itself.
CloseBlocks(w) ==
    \E i \in 1..Len(stack) :
        stack[i].slot = "onclose" /\ stack[i].ws = {w} /\ BlocksAbove(i)

\* A worker whose script has ended, well or badly, completes, whatever the
\* outside code is doing - unless its own onclose callback blocks, or the
\* program ends.
WorkerCompletes ==
    \A w \in Workers :
        (Alive /\ inside[w].pc \in {"error", "close"})
            ~> (outside[w].state = "COMPLETE" \/ ~Alive \/ CloseBlocks(w))

Joining(n) == Alive /\ Len(stack) = n /\ Top.kind \in Joins

\* Activity n is over, or kept from ending by a callback that blocks.
Over(n) ==
    \/ Len(stack) < n \/ ~Alive \/ BlocksAbove(n)
    \/ \E w \in Workers : CloseBlocks(w)

AllClosed == \A w \in Created : inside[w].state = "CLOSED"

\* The workers stop posting at some time.  mprWaitForEvent dispatches until
\* the queue is empty: a worker that posts faster than its messages are
\* handled keeps a join() from looking at its timeout.
Quiet == \A w \in Workers : <>[][~InsidePost(w)]_vars

\* A join() or eval() returns when it has a timeout, or when all workers are
\* closed and no new one is created - unless a callback that it runs (or,
\* when it is itself made by an onclose callback, that one) blocks for ever,
\* the workers post for ever, or the program ends.
JoinEnds ==
    Quiet => \A n \in 1..(MaxDepth + 1) :
        /\ (Joining(n) /\ Top.timed) ~> Over(n)
        /\ (Joining(n) /\ AllClosed) ~> (Over(n) \/ ~AllClosed)

\* startWorker refuses a second eval() or load() with "Worker has already
\* started"; the refused script must not be the one that the worker runs.
RefusedScriptNeverRuns ==
    \A w \in Workers : inside[w].ran # "refused"

\* "It ALWAYS runs in the appropriate thread for the interpreter": the inside
\* thread is not in the inside interpreter while the outside thread runs a
\* preload there or reads the result of an eval.
OneThreadInside ==
    \A w \in Workers, i \in 1..Len(stack) :
        /\ stack[i].ws = {w}
        /\ \/ stack[i].kind = "pre"
           \/ stack[i].kind = "eval" /\ stack[i].phase = "true"
        => inside[w].pc = "idle"

-----------------------------------------------------------------------------
(* The inductive invariant: how the two states, what the inside thread is  *)
(* doing and the events still queued hang together.                        *)

\* Where the inside worker is says where the outside worker may be.
StatesAgree(w) ==
    LET o == outside[w].state  i == inside[w].state  pc == inside[w].pc
    IN  /\ i = "NONE"    => o = "NONE" /\ pc = "idle" /\ inside[w].queue = <<>>
        /\ i = "BEGIN"   => o \in {"BEGIN", "STARTED"} /\ pc \in {"idle", "msg"}
        /\ i = "STARTED" => o = "STARTED" /\ pc \in {"main", "error", "close"}
        /\ i = "CLOSED"  => pc \in {"idle", "msg", "closing", "post"}
        /\ i = "CLOSED" /\ pc = "closing" => o = "STARTED"
        /\ i = "CLOSED" /\ pc = "post" => o = "CLOSED"
        /\ i = "CLOSED" /\ pc \in {"idle", "msg"} => o \in {"CLOSED", "COMPLETE"}

\* workerMain is queued at most once, and only before it has run.
MainAgrees(w) ==
    \A k \in 1..Len(inside[w].queue) : inside[w].queue[k] = "main" =>
        /\ inside[w].state = "BEGIN" /\ outside[w].state = "STARTED"
        /\ \A j \in 1..Len(inside[w].queue) : inside[w].queue[j] = "main" => j = k

\* onclose is queued, or its callback runs, only after workerMain has ended.
ClosePending(w) ==
    \/ \E k \in 1..Len(outQ) : outQ[k].worker = w /\ outQ[k].slot = "onclose"
    \/ \E k \in 1..Len(stack) : w \in stack[k].ws /\ stack[k].slot = "onclose"

CloseAgrees(w) ==
    ClosePending(w) => inside[w].state = "CLOSED" /\ inside[w].pc \in {"idle", "msg"}

Lifecycle == \A w \in Workers : StatesAgree(w) /\ MainAgrees(w) /\ CloseAgrees(w)
=============================================================================
