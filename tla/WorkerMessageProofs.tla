------------------------ MODULE WorkerMessageProofs ------------------------
(***************************************************************************)
(* Proofs about Worker, on top of its lifecycle: the activities of the     *)
(* outside thread, the order of a worker's last messages, the list of      *)
(* workers, and what follows for join(), for errors and for the crashes.   *)
(***************************************************************************)
EXTENDS WorkerProofs

(***************************************************************************)
(* The stack of activities.                                                *)
(***************************************************************************)

\* What is true of activity i.  Only a polling call has something above it; a blocking call
\* made above another has marked it; ejs->joining is the one of the innermost join, unless
\* marked; who is joined exists, and who is preloaded has not started.
FrameAgrees(i) ==
    /\ i < Len(stack) => stack[i].kind # "pre"
    /\ i < Len(stack) => (stack[i].kind \in Waits => stack[i].phase = "poll")
    /\ \A j \in 1..Len(stack) :
          i < j /\ stack[i].kind \in Waits /\ stack[j].kind \in Waits => stack[i].nested
    /\ stack[i].kind \in Joins /\ stack[i].phase = "poll" => stack[i].nested \/ joining
    /\ stack[i].kind \in Joins => \A w \in stack[i].ws : outside[w].state # "NONE"
    /\ stack[i].kind = "pre" => \A w \in stack[i].ws : outside[w].state = "BEGIN"

StackAgrees == \A i \in 1..Len(stack) : FrameAgrees(i)

\* An activity that stays, but for its phase and the marks
SameActivity(f, g) ==
    g.kind = f.kind /\ g.ws = f.ws /\ g.slot = f.slot /\ (f.nested => g.nested)

\* The changes of one field of an activity
LEMMA FrameFields ==
    ASSUME NEW f \in Frame
    PROVE  /\ \A p : /\ SameActivity(f, [f EXCEPT !.phase = p])
                     /\ [f EXCEPT !.phase = p].phase = p
           /\ \A d : /\ SameActivity(f, [f EXCEPT !.dispatched = d])
                     /\ [f EXCEPT !.dispatched = d].phase = f.phase
           /\ \A p, d : /\ SameActivity(f, [f EXCEPT !.phase = p, !.dispatched = d])
                        /\ [f EXCEPT !.phase = p, !.dispatched = d].phase = p
BY DEF Frame, SameActivity

LEMMA MarkedFields ==
    ASSUME NEW f \in Frame
    PROVE  LET g == [f EXCEPT !.nested = @ \/ f.kind \in Waits]
           IN  /\ g.kind = f.kind /\ g.ws = f.ws /\ g.slot = f.slot /\ g.phase = f.phase
               /\ f.nested => g.nested
               /\ f.kind \in Waits => g.nested
BY DEF Frame

LEMMA BelowFrames ==
    ASSUME stack \in Seq(Frame), stack # <<>>, stack' = Below
    PROVE  /\ Len(stack) \in Nat /\ Len(stack') = Len(stack) - 1
           /\ \A i \in 1..Len(stack') : i \in 1..Len(stack) /\ stack'[i] = stack[i]
<1>1. Len(stack) \in Nat /\ Len(stack) - 1 \in Nat
  OBVIOUS
<1>2. PICK n \in Nat : n = Len(stack) - 1
  BY <1>1
<1>3. stack' = SubSeq(stack, 1, n)
  BY <1>2 DEF Below
<1>4. Len(stack') = n /\ \A i \in 1..n : stack'[i] = stack[i]
  BY <1>1, <1>2, <1>3
<1> QED
  BY <1>1, <1>2, <1>4

\* Sequence t is s, of n activities, with f above
Pushed(s, t, f, n) == Len(t) = n + 1 /\ t[n + 1] = f /\ \A i \in 1..n : t[i] = s[i]

LEMMA PushFrames ==
    ASSUME NEW s \in Seq(Frame), NEW f, NEW t, t = Append(s, f), NEW n \in Nat, n = Len(s)
    PROVE  Pushed(s, t, f, n)
BY DEF Pushed

LEMMA RetopFrames ==
    ASSUME stack \in Seq(Frame), stack # <<>>, NEW f, Retop(f)
    PROVE  /\ Len(stack) \in Nat /\ Len(stack') = Len(stack)
           /\ stack'[Len(stack)] = f
           /\ \A i \in 1..Len(stack) : i # Len(stack) => stack'[i] = stack[i]
BY DEF Retop

LEMMA BlockFrames ==
    ASSUME stack \in Seq(Frame), NEW kind, NEW ws, NEW timed, Block(kind, ws, timed)
    PROVE  /\ Len(stack) \in Nat /\ Len(stack') = Len(stack) + 1
           /\ stack'[Len(stack) + 1] = Activity(kind, ws, "none", timed)
           /\ \A i \in 1..Len(stack) : /\ SameActivity(stack[i], stack'[i])
                                       /\ stack'[i].phase = stack[i].phase
                                       /\ stack[i].kind \in Waits => stack'[i].nested
<1> DEFINE Marked == [i \in 1..Len(stack) |->
                        [stack[i] EXCEPT !.nested = @ \/ stack[i].kind \in Waits]]
           new == Activity(kind, ws, "none", timed)
<1>1. \A i \in 1..Len(stack) : /\ SameActivity(stack[i], Marked[i])
                               /\ Marked[i].phase = stack[i].phase
                               /\ stack[i].kind \in Waits => Marked[i].nested
  <2> SUFFICES ASSUME NEW i \in 1..Len(stack)
               PROVE  /\ SameActivity(stack[i], Marked[i])
                      /\ Marked[i].phase = stack[i].phase
                      /\ stack[i].kind \in Waits => Marked[i].nested
    OBVIOUS
  <2>1. PICK f \in Frame : f = stack[i]
    OBVIOUS
  <2>3. Marked[i] = [f EXCEPT !.nested = @ \/ f.kind \in Waits]
    BY <2>1
  <2> HIDE DEF Marked
  <2> QED
    BY <2>1, <2>3, MarkedFields DEF SameActivity
<1>2. Len(Marked) = Len(stack) /\ Marked \in Seq({Marked[k] : k \in 1..Len(stack)})
  OBVIOUS
<1>3. stack' = Append(Marked, new)
  BY DEF Block
<1> HIDE DEF Marked, new
<1>4. /\ Len(stack) \in Nat /\ Len(stack') = Len(stack) + 1
      /\ stack'[Len(stack) + 1] = new
      /\ \A k \in 1..Len(stack) : stack'[k] = Marked[k]
  BY <1>2, <1>3
<1> QED
  BY <1>1, <1>4 DEF new

\* The activity whose poll dispatches is marked as having done so
LEMMA DispatchingFrames ==
    ASSUME stack \in Seq(Frame)
    PROVE  /\ Dispatching \in Seq(Frame) /\ Len(Dispatching) = Len(stack) /\ Len(stack) \in Nat
           /\ \A k \in 1..Len(stack) : /\ SameActivity(stack[k], Dispatching[k])
                                       /\ Dispatching[k].phase = stack[k].phase
<1>1. CASE stack = <<>>
  BY <1>1 DEF Dispatching
<1>2. CASE stack # <<>>
  <2>1. PICK f \in Frame : f = stack[Len(stack)]
    BY <1>2
  <2>2. PICK g : g = [f EXCEPT !.dispatched = TRUE]
    OBVIOUS
  <2>3. g \in Frame /\ SameActivity(f, g) /\ g.phase = f.phase
    BY <2>2 DEF Frame, SameActivity
  <2>4. Dispatching = [stack EXCEPT ![Len(stack)] = g]
    BY <1>2, <2>1, <2>2 DEF Dispatching
  <2>5. /\ Dispatching \in Seq(Frame) /\ Len(Dispatching) = Len(stack) /\ Len(stack) \in Nat
        /\ Dispatching[Len(stack)] = g
        /\ \A k \in 1..Len(stack) : k # Len(stack) => Dispatching[k] = stack[k]
    BY <1>2, <2>3, <2>4
  <2>6. ASSUME NEW k \in 1..Len(stack), k # Len(stack)
        PROVE  SameActivity(stack[k], Dispatching[k]) /\ Dispatching[k].phase = stack[k].phase
    BY <2>5, <2>6 DEF SameActivity
  <2> QED
    BY <2>1, <2>3, <2>5, <2>6
<1> QED
  BY <1>1, <1>2

LEMMA ActivityFields ==
    ASSUME NEW kind, NEW ws, NEW slot, NEW timed
    PROVE  LET f == Activity(kind, ws, slot, timed)
           IN  /\ f.kind = kind /\ f.ws = ws /\ f.slot = slot
               /\ kind \in Joins => f.phase = "check"
               /\ kind = "wait" => f.phase = "poll"
BY DEF Activity, Joins

-----------------------------------------------------------------------------
(***************************************************************************)
(* What a step does to the outside workers and to the list.                *)
(***************************************************************************)

SameWorker(v) ==
    outside'[v].state = outside[v].state /\ outside'[v].linked = outside[v].linked

OutsideKept == workers' = workers /\ \A v \in Workers : SameWorker(v)

Moves(w, from, to) ==
    /\ workers' = workers
    /\ outside[w].state = from /\ outside'[w].state = to
    /\ outside'[w].linked = outside[w].linked
    /\ \A v \in Workers : v # w => SameWorker(v)

Creates(w) ==
    /\ Calling
    /\ outside[w].state = "NONE" /\ outside'[w].state \in {"BEGIN", "STARTED"}
    /\ outside'[w].linked = TRUE
    /\ workers' = Append(workers, w)
    /\ \A v \in Workers : v # w => SameWorker(v)

\* The end of onclose: in the dispatch itself, or when the callback returns
ClosesNow(w) ==
    \/ doMessage /\ Head(outQ).worker = w /\ Head(outQ).slot = "onclose"
    \/ CallbackReturns /\ w \in Top.ws /\ Top.slot = "onclose"

Completes(w) ==
    /\ ClosesNow(w)
    /\ outside'[w].state = "COMPLETE" /\ outside'[w].linked = FALSE
    /\ workers' = RemoveItem(workers, w)
    /\ \A v \in Workers : v # w => SameWorker(v)

LEMMA MessageDoneOutside ==
    ASSUME TypeOK, NEW w \in Workers, NEW slot, NEW worker \in Outside,
           worker.state = outside[w].state, worker.linked = outside[w].linked,
           MessageDone(w, slot, worker)
    PROVE  \/ OutsideKept
           \/ /\ slot = "onclose"
              /\ outside'[w].state = "COMPLETE" /\ outside'[w].linked = FALSE
              /\ workers' = RemoveItem(workers, w)
              /\ \A v \in Workers : v # w => SameWorker(v)
<1>0. outside \in [Workers -> Outside]
  BY DEF TypeOK
<1>1. CASE slot # "onclose"
  BY <1>0, <1>1 DEF MessageDone, OutsideKept, SameWorker
<1>2. CASE slot = "onclose"
  <2>1. PICK new : new = [worker EXCEPT !.state = "COMPLETE", !.linked = FALSE]
    OBVIOUS
  <2>2. new.state = "COMPLETE" /\ new.linked = FALSE
    BY <2>1 DEF Outside
  <2>3. outside' = [outside EXCEPT ![w] = new] /\ workers' = RemoveItem(workers, w)
    BY <1>2, <2>1 DEF MessageDone, removeWorker
  <2> QED
    BY <1>0, <1>2, <2>2, <2>3 DEF SameWorker
<1> QED
  BY <1>1, <1>2

LEMMA OutsideUnchanged ==
    ASSUME UNCHANGED <<outside, workers>> PROVE OutsideKept
BY DEF OutsideKept, SameWorker

\* One worker's flag gotMessage says nothing of its state
LEMMA GotMessageFields ==
    ASSUME NEW r \in Outside, NEW b \in BOOLEAN
    PROVE  LET s == [r EXCEPT !.gotMessage = b]
           IN  s \in Outside /\ s.state = r.state /\ s.linked = r.linked
BY DEF Outside

LEMMA CreatesOne ==
    ASSUME TypeOK, NEW w \in Workers, NEW hasScript \in BOOLEAN, Calling,
           initWorker(w, hasScript)
    PROVE  Creates(w)
<1>1. outside[w] \in Outside /\ outside \in [Workers -> Outside]
  BY DEF TypeOK
<1>2. PICK cbs \in HandlerSets :
        outside' = [outside EXCEPT ![w] = [@ EXCEPT
           !.state = IF hasScript THEN "STARTED" ELSE "BEGIN",
           !.linked = TRUE, !.callbacks = cbs,
           !.scriptFile = IF hasScript THEN "accepted" ELSE "none"]]
  BY DEF initWorker
<1>3. PICK state, file : /\ state = IF hasScript THEN "STARTED" ELSE "BEGIN"
                         /\ file = IF hasScript THEN "accepted" ELSE "none"
  OBVIOUS
<1>4. PICK new : new = [outside[w] EXCEPT !.state = state, !.linked = TRUE, !.callbacks = cbs,
                                          !.scriptFile = file]
  OBVIOUS
<1>5. outside' = [outside EXCEPT ![w] = new]
  BY <1>1, <1>2, <1>3, <1>4
<1>6. new.state = state /\ new.linked = TRUE
  BY <1>1, <1>4 DEF Outside
<1>7. outside[w].state = "NONE" /\ workers' = Append(workers, w)
  BY DEF initWorker
<1>8. \A v \in Workers : v # w => SameWorker(v)
  BY <1>1, <1>5 DEF SameWorker
<1>9. outside'[w] = new
  BY <1>1, <1>5
<1> QED
  BY <1>3, <1>6, <1>7, <1>8, <1>9 DEF Creates

LEMMA OutsideCall ==
    ASSUME TypeOK, Lifecycle, NEW w \in Workers, OuterCall(w)
    PROVE  OutsideKept \/ (Calling /\ Moves(w, "BEGIN", "STARTED")) \/ Creates(w)
<1>0. outside[w] \in Outside /\ outside \in [Workers -> Outside]
  BY DEF TypeOK
<1>1. ASSUME NEW hasScript \in BOOLEAN, workerConstructor(w, hasScript) PROVE Creates(w)
  BY <1>1, CreatesOne DEF workerConstructor
<1>2. ASSUME NEW base \in Workers, workerClone(base, w) PROVE Creates(w) \/ OutsideKept
  <2>1. Calling /\ (initWorker(w, FALSE) \/ UNCHANGED <<outside, workers>>)
    BY <1>2 DEF workerClone
  <2> QED
    BY <2>1, CreatesOne, OutsideUnchanged
<1>3. ASSUME NEW via, NEW timeout, startWorker(w, via, timeout)
      PROVE  OutsideKept \/ (Calling /\ Moves(w, "BEGIN", "STARTED"))
  <2>0. Calling /\ workers' = workers
    BY <1>3 DEF startWorker
  <2>1. PICK r : r = StoreScript(w, via)
    OBVIOUS
  <2>2. r \in Outside /\ r.state = outside[w].state /\ r.linked = outside[w].linked
    BY <1>0, <2>1 DEF StoreScript, Outside, Origins
  <2>3. CASE outside[w].state # "BEGIN"
    <3>1. outside' = [outside EXCEPT ![w] = r]
      BY <1>3, <2>1, <2>3 DEF startWorker
    <3> QED
      BY <1>0, <2>0, <2>2, <3>1 DEF OutsideKept, SameWorker
  <2>4. CASE outside[w].state = "BEGIN"
    <3>1. PICK s : s = [r EXCEPT !.state = "STARTED"]
      OBVIOUS
    <3>2. s.state = "STARTED" /\ s.linked = r.linked
      BY <2>2, <3>1 DEF Outside
    <3>3. outside' = [outside EXCEPT ![w] = s]
      BY <1>3, <2>1, <2>4, <3>1 DEF startWorker
    <3> QED
      BY <1>0, <2>0, <2>2, <2>4, <3>2, <3>3 DEF Moves, SameWorker
  <2> QED
    BY <2>3, <2>4
<1>4. ASSUME \/ workerPostMessage(w) \/ PostsMessage(w) \/ workerTerminate(w)
             \/ workerPreload(w) \/ PreloadReturns(w)
      PROVE  OutsideKept
  BY <1>4, OutsideUnchanged
     DEF workerPostMessage, PostsMessage, workerTerminate, workerPreload, PreloadReturns
<1>5. ASSUME NEW timed \in BOOLEAN, workerWaitForMessage(w, timed) PROVE OutsideKept
  <2>1. PICK new : new = [outside[w] EXCEPT !.gotMessage = FALSE]
    OBVIOUS
  <2>2. new.state = outside[w].state /\ new.linked = outside[w].linked
    BY <1>0, <2>1, GotMessageFields
  <2>3. workers' = workers /\ outside' = [outside EXCEPT ![w] = new]
    BY <1>5, <2>1 DEF workerWaitForMessage
  <2> QED
    BY <1>0, <2>2, <2>3 DEF OutsideKept, SameWorker
<1> QED
  BY <1>1, <1>2, <1>3, <1>4, <1>5 DEF OuterCall

LEMMA OutsideLoop ==
    ASSUME TypeOK, OuterLoop PROVE OutsideKept \/ \E w \in Workers : Completes(w)
<1>0. outside \in [Workers -> Outside]
  BY DEF TypeOK
<1>1. CASE JoinChecks \/ JoinPolls \/ CallReturns \/ MessageTooLate
  BY <1>1, OutsideUnchanged DEF JoinChecks, JoinPolls, CallReturns, MessageTooLate, Crash
<1>2. CASE WaitPolls
  <2>1. workers' = workers
    BY <1>2 DEF WaitPolls
  <2>2. \/ UNCHANGED outside
        \/ outside' = [w \in Workers |->
                         [outside[w] EXCEPT !.gotMessage = @ /\ w \notin Top.ws]]
    BY <1>2 DEF WaitPolls
  <2>3. ASSUME NEW v \in Workers,
               outside' = [w \in Workers |->
                             [outside[w] EXCEPT !.gotMessage = @ /\ w \notin Top.ws]]
        PROVE  SameWorker(v)
    <3>1. PICK r \in Outside : r = outside[v]
      BY <1>0
    <3>2. PICK b \in BOOLEAN : b = (r.gotMessage /\ v \notin Top.ws)
      BY <3>1 DEF Outside
    <3>3. outside'[v] = [r EXCEPT !.gotMessage = b]
      BY <2>3, <3>1, <3>2
    <3> QED
      BY <3>1, <3>3, GotMessageFields DEF SameWorker
  <2> QED
    BY <2>1, <2>2, <2>3, OutsideUnchanged DEF OutsideKept
<1>3. CASE doMessage
  <2>1. outQ # <<>> /\ Head(outQ) \in Message
    BY <1>3 DEF doMessage, CanDispatch, TypeOK
  <2>2. PICK w \in Workers, slot \in Slots : w = Head(outQ).worker /\ slot = Head(outQ).slot
    BY <2>1 DEF Message
  <2>3. PICK got : got = [outside[w] EXCEPT !.gotMessage = @ \/ Awaited(w)]
    OBVIOUS
  <2>4. got \in Outside /\ got.state = outside[w].state /\ got.linked = outside[w].linked
    <3>1. ASSUME NEW r \in Outside, NEW b
          PROVE  LET s == [r EXCEPT !.gotMessage = @ \/ b]
                 IN  s \in Outside /\ s.state = r.state /\ s.linked = r.linked
      BY DEF Outside
    <3> QED
      BY <1>0, <2>3, <3>1
  <2>5. \/ outside' = [outside EXCEPT ![w] = got] /\ UNCHANGED workers
        \/ MessageDone(w, slot, got)
    BY <1>3, <2>2, <2>3 DEF doMessage
  <2>6. CASE outside' = [outside EXCEPT ![w] = got] /\ UNCHANGED workers
    BY <1>0, <2>4, <2>6 DEF OutsideKept, SameWorker
  <2>7. CASE MessageDone(w, slot, got)
    <3>1. slot = "onclose" => ClosesNow(w)
      BY <1>3, <2>2 DEF ClosesNow
    <3> QED
      BY <2>4, <2>7, <3>1, MessageDoneOutside DEF Completes
  <2> QED
    BY <2>5, <2>6, <2>7
<1>4. CASE CallbackReturns
  <2>1. stack # <<>>
    BY <1>4 DEF CallbackReturns, InCode
  <2>2. Top \in Frame
    BY <2>1, TopType DEF TypeOK
  <2>3. PICK w \in Top.ws : MessageDone(w, Top.slot, outside[w])
    BY <1>4 DEF CallbackReturns
  <2>4. w \in Workers
    BY <2>2 DEF Frame
  <2>5. Top.slot = "onclose" => ClosesNow(w)
    BY <1>4, <2>3 DEF ClosesNow
  <2> QED
    BY <1>0, <2>3, <2>4, <2>5, MessageDoneOutside DEF Completes
<1> QED
  BY <1>1, <1>2, <1>3, <1>4 DEF OuterLoop

LEMMA OutsideInner ==
    ASSUME TypeOK, Lifecycle, NEW w \in Workers, Inner(w)
    PROVE  OutsideKept \/ Moves(w, "STARTED", "CLOSED")
<1>0. outside \in [Workers -> Outside] /\ inside[w] \in Inside /\ StatesAgree(w)
  BY DEF TypeOK, Lifecycle
<1>1. CASE CloseOutside(w)
  <2>1. inside[w].pc = "closing" /\ inside[w].state \in States
    BY <1>0, <1>1 DEF CloseOutside, Inside
  <2>2. outside[w].state = "STARTED"
    BY <1>0, <2>1 DEF StatesAgree, States, Inside
  <2>3. workers' = workers /\ outside' = [outside EXCEPT ![w].state = "CLOSED"]
    BY <1>1 DEF CloseOutside
  <2> QED
    BY <1>0, <2>2, <2>3 DEF Moves, SameWorker, Outside
<1>2. CASE ~CloseOutside(w)
  <2>1. UNCHANGED <<outside, workers>>
    BY <1>2 DEF Inner, workerMain, InsidePost, InsidePostWaits, InsidePostResumes, workerExit,
                InsideMessage, InsideMessageDone, ScriptEnds, handleError, CloseInside,
                PostClose, CollectInside, InsideStep, Crash
  <2> QED
    BY <2>1, OutsideUnchanged
<1> QED
  BY <1>1, <1>2

LEMMA OutsideDestroy ==
    ASSUME TypeOK, ejsDestroyVM, NEW v \in Workers PROVE outside'[v].state = outside[v].state
<1>1. PICK r \in Outside : r = outside[v]
  BY DEF TypeOK
<1>2. PICK b : outside'[v] = [r EXCEPT !.linked = b]
  BY <1>1 DEF ejsDestroyVM, ejsRemoveWorkers
<1> QED
  BY <1>1, <1>2 DEF Outside

LEMMA OutsideSteps ==
    ASSUME TypeOK, Lifecycle, Next
    PROVE  \/ ejsDestroyVM
           \/ OutsideKept
           \/ \E w \in Workers : \/ Calling /\ Moves(w, "BEGIN", "STARTED")
                                 \/ Moves(w, "STARTED", "CLOSED")
                                 \/ Creates(w)
                                 \/ Completes(w)
<1>1. CASE OuterCode
  BY <1>1, OutsideUnchanged DEF OuterCode, RunScript, TimerClears, ThrowOrCatch, ScriptReturns
<1>2. CASE OuterJoin
  BY <1>2, OutsideUnchanged DEF OuterJoin, workerJoin
<1> QED
  BY <1>1, <1>2, OutsideLoop, OutsideCall, OutsideInner DEF Next

-----------------------------------------------------------------------------
(***************************************************************************)
(* The stack agrees with joining and with the workers.                     *)
(***************************************************************************)

\* A created worker stays created, and one that is being preloaded does not start
WorkersKept ==
    \A w \in Workers :
        /\ outside[w].state # "NONE" => outside'[w].state # "NONE"
        /\ stack # <<>> /\ Top.kind = "pre" /\ outside[w].state = "BEGIN" =>
              outside'[w].state = "BEGIN"

LEMMA WorkersKeep == ASSUME TypeOK, Lifecycle, Next PROVE WorkersKept
<1>1. CASE ejsDestroyVM
  BY <1>1, OutsideDestroy DEF WorkersKept
<1>2. CASE OutsideKept
  BY <1>2 DEF WorkersKept, OutsideKept, SameWorker
<1>3. ASSUME NEW w \in Workers, Calling /\ Moves(w, "BEGIN", "STARTED") PROVE WorkersKept
  <2>1. Top.kind # "pre"
    BY <1>3 DEF Calling, InCode, Code
  <2> QED
    BY <1>3, <2>1 DEF Moves, WorkersKept, SameWorker
<1>4. ASSUME NEW w \in Workers, Moves(w, "STARTED", "CLOSED") PROVE WorkersKept
  BY <1>4 DEF Moves, WorkersKept, SameWorker
<1>5. ASSUME NEW w \in Workers, Creates(w) PROVE WorkersKept
  BY <1>5 DEF Creates, WorkersKept, SameWorker
<1>6. ASSUME NEW w \in Workers, Completes(w) PROVE WorkersKept
  <2>1. stack # <<>> => Top.kind # "pre"
    BY <1>6 DEF Completes, ClosesNow, doMessage, CanDispatch, CallbackReturns, InCode, Code,
                Waits, Joins
  <2> QED
    BY <1>6, <2>1 DEF Completes, WorkersKept, SameWorker
<1> QED
  BY <1>1, <1>2, <1>3, <1>4, <1>5, <1>6, OutsideSteps

LEMMA FrameTypes ==
    ASSUME TypeOK, StackAgrees, NEW i \in 1..Len(stack)
    PROVE  stack[i] \in Frame /\ stack[i].ws \subseteq Workers /\ FrameAgrees(i)
<1>1. stack[i] \in Frame
  BY DEF TypeOK
<1>2. stack[i].ws \subseteq Workers
  BY <1>1 DEF Frame
<1> QED
  BY <1>1, <1>2 DEF StackAgrees

\* An activity with the same ones above
LEMMA FrameStays ==
    ASSUME TypeOK, StackAgrees, WorkersKept, NEW i \in 1..Len(stack), Len(stack') = Len(stack),
           \A j \in 1..Len(stack) : SameActivity(stack[j], stack'[j]),
           stack'[i].phase = stack[i].phase,
           stack[i].kind \in Joins => stack[i].nested \/ joining'  = joining
    PROVE  FrameAgrees(i)'
<1>0. Len(stack) \in Nat /\ stack[i] \in Frame /\ FrameAgrees(i)
  BY DEF TypeOK, StackAgrees
<1>1. stack[i].ws \subseteq Workers
  BY <1>0 DEF Frame
<1>2. \A j \in 1..Len(stack) : stack'[j].kind = stack[j].kind
  BY DEF SameActivity
<1>3. stack'[i].ws = stack[i].ws /\ (stack[i].nested => stack'[i].nested)
  BY DEF SameActivity
<1>4. stack[i].kind \in Joins => \A w \in stack'[i].ws : outside'[w].state # "NONE"
  BY <1>0, <1>1, <1>3 DEF FrameAgrees, WorkersKept
<1>5. stack[i].kind = "pre" => \A w \in stack'[i].ws : outside'[w].state = "BEGIN"
  <2>1. stack[i].kind = "pre" => i = Len(stack) /\ stack # <<>> /\ Top.kind = "pre"
    BY <1>0 DEF FrameAgrees, Top
  <2> QED
    BY <1>0, <1>1, <1>3, <2>1 DEF FrameAgrees, WorkersKept
<1>6. stack[i].kind \in Joins /\ stack[i].phase = "poll" => stack'[i].nested \/ joining'
  BY <1>0, <1>3 DEF FrameAgrees
<1> QED
  BY <1>0, <1>2, <1>3, <1>4, <1>5, <1>6 DEF FrameAgrees

LEMMA StackStays ==
    ASSUME TypeOK, StackAgrees, WorkersKept, UNCHANGED <<stack, joining>>
    PROVE  StackAgrees'
<1>1. \A j \in 1..Len(stack) : SameActivity(stack[j], stack'[j])
  BY DEF SameActivity
<1> QED
  BY <1>1, FrameStays DEF StackAgrees

LEMMA StackBelow ==
    ASSUME TypeOK, StackAgrees, WorkersKept, stack # <<>>, stack' = Below, joining' = joining
    PROVE  StackAgrees'
<1>0. /\ Len(stack) \in Nat /\ Len(stack') = Len(stack) - 1
      /\ \A i \in 1..Len(stack') : i \in 1..Len(stack) /\ stack'[i] = stack[i]
  BY BelowFrames DEF TypeOK
<1> SUFFICES ASSUME NEW i \in 1..Len(stack') PROVE FrameAgrees(i)'
  BY DEF StackAgrees
<1>1. i \in 1..Len(stack) /\ i < Len(stack) /\ stack'[i] = stack[i] /\ FrameAgrees(i)
  BY <1>0 DEF StackAgrees
<1>2. stack[i].ws \subseteq Workers
  BY <1>1, FrameTypes
<1>3. stack[i].kind # "pre" /\ (stack[i].kind \in Waits => stack[i].phase = "poll")
  BY <1>1 DEF FrameAgrees
<1>4. stack[i].kind \in Joins => \A w \in stack'[i].ws : outside'[w].state # "NONE"
  BY <1>1, <1>2 DEF FrameAgrees, WorkersKept
<1>5. \A j \in 1..Len(stack') :
         i < j /\ stack'[i].kind \in Waits /\ stack'[j].kind \in Waits => stack'[i].nested
  BY <1>0, <1>1 DEF FrameAgrees
<1>6. stack[i].kind \in Joins /\ stack[i].phase = "poll" => stack[i].nested \/ joining'
  BY <1>1 DEF FrameAgrees
<1> QED
  BY <1>1, <1>3, <1>4, <1>5, <1>6 DEF FrameAgrees

\* The innermost call goes on: all joins below it are marked
LEMMA StackRetop ==
    ASSUME TypeOK, StackAgrees, WorkersKept, stack # <<>>, Top.kind \in Waits,
           NEW f, Retop(f), SameActivity(Top, f),
           f.kind \in Joins /\ f.phase = "poll" => f.nested \/ joining'
    PROVE  StackAgrees'
<1>0. /\ Len(stack) \in Nat /\ Len(stack') = Len(stack) /\ stack'[Len(stack)] = f
      /\ \A i \in 1..Len(stack) : i # Len(stack) => stack'[i] = stack[i]
      /\ Len(stack) \in 1..Len(stack) /\ Top = stack[Len(stack)]
  BY RetopFrames, TopType DEF TypeOK, Top
<1>1. \A j \in 1..Len(stack) : SameActivity(stack[j], stack'[j])
  BY <1>0 DEF SameActivity
<1>2. ASSUME NEW i \in 1..Len(stack), i # Len(stack) PROVE FrameAgrees(i)'
  <2>1. stack[i].kind \in Waits => stack[i].nested
    BY <1>0, <1>2 DEF StackAgrees, FrameAgrees
  <2>2. stack[i].kind \in Joins => stack[i].nested \/ joining' = joining
    BY <2>1 DEF Waits
  <2>3. stack'[i].phase = stack[i].phase
    BY <1>0, <1>2
  <2> QED
    BY <1>0, <1>1, <2>2, <2>3, FrameStays
<1>3. FrameAgrees(Len(stack))'
  <2>1. FrameAgrees(Len(stack)) /\ Top \in Frame /\ Top.ws \subseteq Workers
    BY <1>0, FrameTypes
  <2>2. f.kind = Top.kind /\ f.ws = Top.ws /\ f.kind # "pre"
    BY DEF SameActivity, Waits, Joins
  <2>3. f.kind \in Joins => \A w \in f.ws : outside'[w].state # "NONE"
    BY <1>0, <2>1, <2>2 DEF FrameAgrees, WorkersKept
  <2> QED
    BY <1>0, <2>2, <2>3 DEF FrameAgrees
<1> QED
  BY <1>0, <1>2, <1>3 DEF StackAgrees

LEMMA StackBlock ==
    ASSUME TypeOK, StackAgrees, WorkersKept, InCode, joining' = joining,
           NEW kind \in Waits \cup {"pre"}, NEW ws \in SUBSET Workers, NEW timed,
           Block(kind, ws, timed),
           kind \in Joins => \A w \in ws : outside'[w].state # "NONE",
           kind = "pre" => \A w \in ws : outside'[w].state = "BEGIN"
    PROVE  StackAgrees'
<1>3. PICK n \in Nat : n = Len(stack)
  BY DEF TypeOK
<1>0. /\ n \in Nat /\ Len(stack') = n + 1
      /\ stack'[n + 1] = Activity(kind, ws, "none", timed)
      /\ \A i \in 1..n : /\ SameActivity(stack[i], stack'[i])
                         /\ stack'[i].phase = stack[i].phase
                         /\ stack[i].kind \in Waits => stack'[i].nested
  BY <1>3, BlockFrames DEF TypeOK
<1>1. ASSUME NEW i \in 1..n PROVE FrameAgrees(i)'
  <2>0. i \in 1..Len(stack) /\ FrameAgrees(i) /\ stack[i] \in Frame /\ stack[i].ws \subseteq Workers
    BY <1>3, FrameTypes
  <2>1. /\ stack'[i].kind = stack[i].kind /\ stack'[i].ws = stack[i].ws
        /\ stack'[i].phase = stack[i].phase /\ (stack[i].kind \in Waits => stack'[i].nested)
    BY <1>0 DEF SameActivity
  <2>2. stack[i].kind # "pre" /\ (stack[i].kind \in Waits => stack[i].phase = "poll")
    <3>1. CASE i < n
      BY <1>3, <2>0, <3>1 DEF FrameAgrees
    <3>2. CASE i = n
      BY <1>3, <3>2 DEF InCode, Top, Code, Waits, Joins
    <3> QED
      BY <1>0, <3>1, <3>2
  <2>3. stack[i].kind \in Joins => \A w \in stack[i].ws : outside'[w].state # "NONE"
    BY <2>0 DEF FrameAgrees, WorkersKept
  <2>4. stack[i].kind \in Joins => stack[i].kind \in Waits
    BY DEF Waits
  <2> QED
    BY <2>1, <2>2, <2>3, <2>4 DEF FrameAgrees
<1>2. FrameAgrees(n + 1)'
  <2>1. PICK f : f = Activity(kind, ws, "none", timed)
    OBVIOUS
  <2>2. f.kind = kind /\ f.ws = ws /\ (kind \in Joins => f.phase = "check")
    BY <2>1, ActivityFields
  <2>3. stack'[n + 1] = f
    BY <1>0, <2>1
  <2>4. ~(n + 1 < Len(stack')) /\ \A j \in 1..Len(stack') : ~(n + 1 < j)
    BY <1>0
  <2> QED
    BY <2>2, <2>3, <2>4 DEF FrameAgrees
<1>4. \A i \in 1..Len(stack') : i \in 1..n \/ i = n + 1
  BY <1>0
<1> QED
  BY <1>1, <1>2, <1>4 DEF StackAgrees

\* Code is entered above code
LEMMA StackPush ==
    ASSUME TypeOK, StackAgrees, WorkersKept, InCode, joining' = joining,
           NEW ws, stack' = Append(stack, Activity("json", ws, "none", FALSE))
    PROVE  StackAgrees'
<1>2. PICK new : new = Activity("json", ws, "none", FALSE)
  OBVIOUS
<1>3. PICK n \in Nat : n = Len(stack)
  BY DEF TypeOK
<1>5. new.kind = "json"
  BY <1>2 DEF Activity
<1>6. stack \in Seq(Frame) /\ stack' = Append(stack, new)
  BY <1>2 DEF TypeOK
<1>7. Len(stack') = n + 1 /\ stack'[n + 1] = new /\ \A k \in 1..n : stack'[k] = stack[k]
  <2>1. Pushed(stack, stack', new, n)
    BY <1>3, <1>6, PushFrames
  <2> QED
    BY <2>1 DEF Pushed
<1>8. \A j \in 1..(n + 1) : j \in 1..n \/ j = n + 1
  OBVIOUS
<1>9. new.kind \notin Waits
  BY <1>5 DEF Waits, Joins
<1>10. FrameAgrees(n + 1)'
  BY <1>5, <1>7 DEF FrameAgrees, Joins, Waits
<1>11. ASSUME NEW i \in 1..n PROVE FrameAgrees(i)'
  <2>0. /\ i \in 1..Len(stack) /\ FrameAgrees(i) /\ stack[i] \in Frame
        /\ stack[i].ws \subseteq Workers /\ stack'[i] = stack[i]
    BY <1>3, <1>7, FrameTypes
  <2>1. stack[i].kind # "pre" /\ (stack[i].kind \in Waits => stack[i].phase = "poll")
    <3>1. CASE i < n
      BY <1>3, <2>0, <3>1 DEF FrameAgrees
    <3>2. CASE i = n
      BY <1>3, <3>2 DEF InCode, Top, Code, Waits, Joins
    <3> QED
      BY <1>3, <3>1, <3>2
  <2>2. stack[i].kind \in Joins => \A v \in stack[i].ws : outside'[v].state # "NONE"
    BY <2>0 DEF FrameAgrees, WorkersKept
  <2>3. ASSUME NEW j \in 1..(n + 1), i < j, stack'[i].kind \in Waits, stack'[j].kind \in Waits
        PROVE  stack'[i].nested
    <3>1. j \in 1..n
      BY <1>7, <1>8, <1>9, <2>3
    <3> QED
      BY <1>3, <1>7, <2>0, <2>3, <3>1 DEF FrameAgrees
  <2>4. stack[i].kind \in Joins /\ stack[i].phase = "poll" => stack[i].nested \/ joining'
    BY <2>0 DEF FrameAgrees
  <2> QED
    BY <1>7, <2>0, <2>1, <2>2, <2>3, <2>4 DEF FrameAgrees
<1> QED
  BY <1>7, <1>8, <1>10, <1>11 DEF StackAgrees

\* A message is dispatched, and its callback may be entered
LEMMA StackDispatch ==
    ASSUME TypeOK, StackAgrees, WorkersKept, CanDispatch, joining' = joining,
           NEW w, NEW slot,
           \/ stack' = Dispatching
           \/ stack' = Append(Dispatching, Activity("msg", {w}, slot, FALSE))
    PROVE  StackAgrees'
<1>1. PICK D \in Seq(Frame) : D = Dispatching
  BY DispatchingFrames DEF TypeOK
<1>2. PICK new : new = Activity("msg", {w}, slot, FALSE)
  OBVIOUS
<1>3. PICK n \in Nat : n = Len(stack)
  BY DEF TypeOK
<1>4. Len(D) = n /\ \A k \in 1..n : SameActivity(stack[k], D[k]) /\ D[k].phase = stack[k].phase
  BY <1>1, <1>3, DispatchingFrames DEF TypeOK
<1>5. new.kind = "msg"
  BY <1>2 DEF Activity
<1>6. CASE stack' = D
  <2>1. ASSUME NEW i \in 1..n PROVE FrameAgrees(i)'
    BY <1>3, <1>4, <1>6, FrameStays
  <2> QED
    BY <1>4, <1>6, <2>1 DEF StackAgrees
<1>7. CASE stack' = Append(D, new)
  <2>1. Len(stack') = n + 1 /\ stack'[n + 1] = new /\ \A k \in 1..n : stack'[k] = D[k]
    BY <1>4, <1>7
  <2>2. FrameAgrees(n + 1)'
    BY <1>5, <2>1 DEF FrameAgrees, Joins, Waits
  <2>3. ASSUME NEW i \in 1..n PROVE FrameAgrees(i)'
    <3>0. /\ i \in 1..Len(stack) /\ FrameAgrees(i) /\ stack[i] \in Frame
          /\ stack[i].ws \subseteq Workers
      BY <1>3, FrameTypes
    <3>1. /\ \A k \in 1..n : stack'[k].kind = stack[k].kind
          /\ stack'[i].ws = stack[i].ws
          /\ stack'[i].phase = stack[i].phase /\ (stack[i].nested => stack'[i].nested)
      BY <1>4, <2>1 DEF SameActivity
    <3>2. stack[i].kind # "pre" /\ (stack[i].kind \in Waits => stack[i].phase = "poll")
      <4>1. CASE i < n
        BY <1>3, <3>0, <4>1 DEF FrameAgrees
      <4>2. CASE i = n
        BY <1>3, <4>2 DEF CanDispatch, Top, Waits, Joins
      <4> QED
        BY <1>3, <4>1, <4>2
    <3>3. stack[i].kind \in Joins => \A v \in stack[i].ws : outside'[v].state # "NONE"
      BY <3>0 DEF FrameAgrees, WorkersKept
    <3>4. \A j \in 1..(n + 1) :
             i < j /\ stack'[i].kind \in Waits /\ stack'[j].kind \in Waits => stack'[i].nested
      <4>1. ASSUME NEW j \in 1..(n + 1), i < j, stack'[i].kind \in Waits,
                   stack'[j].kind \in Waits
            PROVE  stack'[i].nested
        <5>1. j # n + 1
          BY <1>5, <2>1, <4>1 DEF Waits, Joins
        <5>2. j \in 1..n
          BY <5>1
        <5> QED
          BY <1>3, <3>0, <3>1, <4>1, <5>2 DEF FrameAgrees
      <4> QED
        BY <4>1
    <3>5. stack[i].kind \in Joins /\ stack[i].phase = "poll" => stack'[i].nested \/ joining'
      BY <3>0, <3>1 DEF FrameAgrees
    <3> QED
      BY <2>1, <3>1, <3>2, <3>3, <3>4, <3>5 DEF FrameAgrees
  <2> QED
    BY <2>1, <2>2, <2>3 DEF StackAgrees
<1> QED
  BY <1>1, <1>2, <1>6, <1>7

-----------------------------------------------------------------------------
(***************************************************************************)
(* The list of workers.                                                    *)
(***************************************************************************)

Distinct(list) == \A i, j \in 1..Len(list) : list[i] = list[j] => i = j

\* new is list without w, and otherwise the same
Removed(list, w, new) ==
    /\ Distinct(new)
    /\ \A i \in 1..Len(new) : new[i] # w
    /\ \A i \in 1..Len(new) : \E k \in 1..Len(list) : new[i] = list[k]
    /\ \A k \in 1..Len(list) : list[k] # w => \E i \in 1..Len(new) : new[i] = list[k]

\* mprRemoveItem, on a list without duplicates, removes one item and nothing else
LEMMA RemoveItemProps ==
    ASSUME NEW list \in Seq(Workers), NEW w, Distinct(list)
    PROVE  Removed(list, w, RemoveItem(list, w))
<1>4. PICK new : new = RemoveItem(list, w)
  OBVIOUS
<1> SUFFICES Removed(list, w, new)
  BY <1>4
<1>0. PICK m \in Nat : m = Len(list)
  OBVIOUS
<1>1. CASE ~ \E i \in 1..m : list[i] = w
  <2>1. new = list
    BY <1>0, <1>1, <1>4 DEF RemoveItem
  <2> QED
    BY <1>0, <1>1, <2>1 DEF Removed
<1>2. CASE \E i \in 1..m : list[i] = w
  <2>1. PICK p \in 1..m : list[p] = w
    BY <1>2
  <2>2. list[p] = w /\ \A j \in 1..(p - 1) : list[j] # w
    <3>1. \A j \in 1..(p - 1) : j \in 1..m /\ j # p
      BY <1>0, <2>1
    <3> QED
      BY <1>0, <2>1, <3>1 DEF Distinct
  <2> DEFINE n == CHOOSE i \in 1..Len(list) :
                     list[i] = w /\ \A j \in 1..(i - 1) : list[j] # w
  <2>3. n \in 1..m /\ list[n] = w
    BY <1>0, <2>2
  <2>4. new = [i \in 1..(Len(list) - 1) |-> IF i < n THEN list[i] ELSE list[i + 1]]
    BY <1>0, <1>2, <1>4 DEF RemoveItem
  <2> HIDE DEF n
  <2>5. PICK l \in Nat : l = m - 1
    BY <2>1
  <2>6. new = [i \in 1..l |-> IF i < n THEN list[i] ELSE list[i + 1]]
    BY <1>0, <2>4, <2>5
  <2>7. Len(new) = l
    BY <2>6
  <2>8. \A i \in 1..l : /\ i < n => new[i] = list[i]
                        /\ ~(i < n) => new[i] = list[i + 1]
    BY <2>6
  <2>9. \A i \in 1..l : i \in 1..m /\ i + 1 \in 1..m
    BY <2>5
  <2>10. \A i, j \in 1..m : list[i] = list[j] => i = j
    BY <1>0 DEF Distinct
  <2> HIDE <2>6
  <2>11. \A i \in 1..l : new[i] # w
    <3> SUFFICES ASSUME NEW i \in 1..l PROVE new[i] # w
      OBVIOUS
    <3>1. CASE i < n
      BY <2>3, <2>8, <2>9, <2>10, <3>1
    <3>2. CASE ~(i < n)
      <4>1. i + 1 # n
        BY <2>3, <3>2
      <4> QED
        BY <2>3, <2>8, <2>9, <2>10, <3>2, <4>1
    <3> QED
      BY <3>1, <3>2
  <2>12. \A i, j \in 1..l : new[i] = new[j] => i = j
    <3> SUFFICES ASSUME NEW i \in 1..l, NEW j \in 1..l, new[i] = new[j] PROVE i = j
      OBVIOUS
    <3>1. PICK a \in 1..m : new[i] = list[a] /\ a = IF i < n THEN i ELSE i + 1
      BY <2>8, <2>9
    <3>2. PICK b \in 1..m : new[j] = list[b] /\ b = IF j < n THEN j ELSE j + 1
      BY <2>8, <2>9
    <3>3. a = b
      BY <2>10, <3>1, <3>2
    <3> QED
      BY <2>3, <3>1, <3>2, <3>3
  <2>13. \A i \in 1..l : \E k \in 1..m : new[i] = list[k]
    BY <2>8, <2>9
  <2>14. ASSUME NEW k \in 1..m, list[k] # w PROVE \E i \in 1..l : new[i] = list[k]
    <3>1. k # n
      BY <2>3, <2>14
    <3>2. CASE k < n
      <4>1. k \in 1..l
        BY <2>3, <2>5, <3>2
      <4> QED
        BY <2>8, <3>2, <4>1
    <3>3. CASE k > n
      <4>1. k - 1 \in 1..l /\ ~(k - 1 < n) /\ (k - 1) + 1 = k
        BY <2>3, <2>5, <3>3
      <4>2. new[k - 1] = list[k]
        BY <2>8, <4>1
      <4> QED
        BY <4>1, <4>2
    <3> QED
      BY <2>3, <3>1, <3>2, <3>3
  <2> QED
    BY <1>0, <2>7, <2>11, <2>12, <2>13, <2>14 DEF Distinct, Removed
<1> QED
  BY <1>1, <1>2

Live == {"BEGIN", "STARTED", "CLOSED"}

\* LinkedWhileListed, in parts
ListAgrees(v) ==
    /\ outside[v].linked <=> v \in Listed
    /\ outside[v].linked <=> outside[v].state \in Live

LEMMA LinkedParts ==
    LinkedWhileListed <=> (~destroyed => Distinct(workers) /\ \A v \in Workers : ListAgrees(v))
BY DEF LinkedWhileListed, Distinct, ListAgrees, Live

LEMMA LinkedSame ==
    ASSUME NEW v, ListAgrees(v), outside'[v].linked = outside[v].linked,
           outside'[v].state \in Live <=> outside[v].state \in Live,
           v \in Listed' <=> v \in Listed
    PROVE  ListAgrees(v)'
BY DEF ListAgrees

\* Once the interpreter is destroyed it stays so
LEMMA StaysDestroyed == ASSUME Next PROVE destroyed => destroyed'
<1> USE DEF program
<1>1. CASE OuterCode
  BY <1>1 DEF OuterCode, RunScript, TimerClears, ThrowOrCatch, ScriptReturns
<1>2. CASE OuterJoin
  BY <1>2 DEF OuterJoin, workerJoin
<1>3. CASE OuterLoop
  BY <1>3 DEF OuterLoop, JoinChecks, JoinPolls, WaitPolls, CallReturns, doMessage,
              MessageTooLate, Crash, CallbackReturns
<1>4. CASE ejsDestroyVM
  BY <1>4 DEF ejsDestroyVM
<1>5. ASSUME NEW w \in Workers, OuterCall(w) PROVE destroyed => destroyed'
  BY <1>5 DEF OuterCall, workerConstructor, workerClone, startWorker, workerPostMessage,
              PostsMessage, workerTerminate, workerPreload, PreloadReturns, workerWaitForMessage
<1>6. ASSUME NEW w \in Workers, Inner(w) PROVE destroyed => destroyed'
  BY <1>6 DEF Inner, workerMain, InsidePost, InsidePostWaits, InsidePostResumes, workerExit,
              InsideMessage, InsideMessageDone, ScriptEnds, handleError, CloseInside,
              CloseOutside, PostClose, CollectInside, InsideStep, Crash
<1> QED
  BY <1>1, <1>2, <1>3, <1>4, <1>5, <1>6 DEF Next

LEMMA LinkedStep ==
    ASSUME TypeOK, Lifecycle, LinkedWhileListed, Next PROVE LinkedWhileListed'
<1> SUFFICES ASSUME ~destroyed' PROVE Distinct(workers') /\ \A v \in Workers : ListAgrees(v)'
  BY DEF LinkedWhileListed, Distinct, ListAgrees, Live
<1>0. Distinct(workers) /\ \A v \in Workers : ListAgrees(v)
  BY StaysDestroyed, LinkedParts
<1>1. workers \in Seq(Workers)
  BY DEF TypeOK
<1>2. ASSUME ejsDestroyVM PROVE FALSE
  BY <1>2 DEF ejsDestroyVM
<1>3. CASE OutsideKept
  <2>1. workers' = workers /\ Listed' = Listed
    BY <1>3 DEF OutsideKept, Listed
  <2> QED
    BY <1>0, <1>3, <2>1, LinkedSame DEF OutsideKept, SameWorker
<1>4. ASSUME NEW w \in Workers,
             Moves(w, "BEGIN", "STARTED") \/ Moves(w, "STARTED", "CLOSED")
      PROVE  Distinct(workers') /\ \A v \in Workers : ListAgrees(v)'
  <2>1. workers' = workers /\ Listed' = Listed
    BY <1>4 DEF Moves, Listed
  <2>2. ASSUME NEW v \in Workers PROVE ListAgrees(v)'
    <3>1. /\ outside'[v].linked = outside[v].linked
          /\ outside'[v].state \in Live <=> outside[v].state \in Live
      BY <1>4 DEF Moves, SameWorker, Live
    <3> QED
      BY <1>0, <2>1, <3>1, LinkedSame
  <2> QED
    BY <1>0, <2>1, <2>2
<1>5. ASSUME NEW w \in Workers, Creates(w)
      PROVE  Distinct(workers') /\ \A v \in Workers : ListAgrees(v)'
  <2>1. w \notin Listed
    BY <1>0, <1>5 DEF Creates, ListAgrees, Live
  <2>2. PICK n \in Nat : n = Len(workers)
    BY <1>1
  <2>3. Len(workers') = n + 1 /\ workers'[n + 1] = w /\ \A i \in 1..n : workers'[i] = workers[i]
    BY <1>1, <1>5, <2>2 DEF Creates
  <2>4. \A i \in 1..n : workers[i] # w
    BY <2>1, <2>2 DEF Listed
  <2>5. \A i \in 1..(n + 1) : i \in 1..n \/ i = n + 1
    OBVIOUS
  <2>6. Distinct(workers')
    BY <1>0, <2>2, <2>3, <2>4, <2>5 DEF Distinct
  <2>7. \A v \in Workers : v \in Listed' <=> v \in Listed \/ v = w
    BY <2>2, <2>3, <2>5 DEF Listed
  <2>8. ListAgrees(w)'
    BY <1>5, <2>7 DEF Creates, ListAgrees, Live
  <2>9. ASSUME NEW v \in Workers, v # w PROVE ListAgrees(v)'
    BY <1>0, <1>5, <2>7, <2>9, LinkedSame DEF Creates, SameWorker
  <2> QED
    BY <2>6, <2>8, <2>9
<1>6. ASSUME NEW w \in Workers, Completes(w)
      PROVE  Distinct(workers') /\ \A v \in Workers : ListAgrees(v)'
  <2>1. workers' = RemoveItem(workers, w)
    BY <1>6 DEF Completes
  <2>2. /\ Distinct(workers')
        /\ \A i \in 1..Len(workers') : workers'[i] # w
        /\ \A i \in 1..Len(workers') : \E k \in 1..Len(workers) : workers'[i] = workers[k]
        /\ \A k \in 1..Len(workers) :
              workers[k] # w => \E i \in 1..Len(workers') : workers'[i] = workers[k]
    <3>1. Removed(workers, w, RemoveItem(workers, w))
      BY <1>0, <1>1, RemoveItemProps
    <3>2. Removed(workers, w, workers')
      BY <2>1, <3>1
    <3> QED
      BY <3>2 DEF Removed
  <2>3. w \notin Listed' /\ \A v \in Workers : v # w => (v \in Listed' <=> v \in Listed)
    BY <2>2 DEF Listed
  <2>4. ListAgrees(w)'
    BY <1>6, <2>3 DEF Completes, ListAgrees, Live
  <2>5. ASSUME NEW v \in Workers, v # w PROVE ListAgrees(v)'
    BY <1>0, <1>6, <2>3, <2>5, LinkedSame DEF Completes, SameWorker
  <2> QED
    BY <2>2, <2>4, <2>5
<1> QED
  BY <1>2, <1>3, <1>4, <1>5, <1>6, OutsideSteps

LEMMA LinkedInit == Init => LinkedWhileListed
<1> SUFFICES ASSUME Init PROVE LinkedWhileListed
  OBVIOUS
<1>1. workers = <<>> /\ \A v \in Workers : outside[v].state = "NONE" /\ outside[v].linked = FALSE
  BY DEF Init
<1>2. Listed = {}
  BY <1>1 DEF Listed
<1> QED
  BY <1>1, <1>2 DEF LinkedWhileListed

\* For any number of workers: until the interpreter is destroyed, ejs->workers holds exactly
\* the workers that are linked to their pair, each once, and those are the ones that have
\* been created and have not completed.
THEOREM ListedAndLinked == Spec => []LinkedWhileListed
<1>1. TypeOK /\ Lifecycle /\ LinkedWhileListed /\ [Next]_vars => LinkedWhileListed'
  <2>1. LinkedWhileListed /\ UNCHANGED vars => LinkedWhileListed'
    BY DEF vars, program, LinkedWhileListed, Listed
  <2> QED
    BY <2>1, LinkedStep
<1> QED
  BY <1>1, LinkedInit, TypeCorrect, LifecycleCorrect, PTL DEF Spec

-----------------------------------------------------------------------------
(***************************************************************************)
(* StackAgrees is preserved.                                               *)
(***************************************************************************)

LEMMA StackCode ==
    ASSUME TypeOK, StackAgrees, WorkersKept, OuterCode PROVE StackAgrees'
<1>1. CASE TimerClears \/ ThrowOrCatch
  BY <1>1, StackStays DEF TimerClears, ThrowOrCatch
<1>2. CASE ScriptReturns
  BY <1>2, StackBelow DEF ScriptReturns, InCode
<1>3. CASE RunScript
  <2>1. PICK f : f = Activity("script", {}, "none", FALSE)
    OBVIOUS
  <2>2. f.kind = "script"
    BY <2>1 DEF Activity
  <2>3. stack' = <<f>>
    BY <1>3, <2>1 DEF RunScript
  <2>4. Len(stack') = 1 /\ stack'[1] = f
    BY <2>3
  <2>5. FrameAgrees(1)'
    BY <2>2, <2>4 DEF FrameAgrees, Waits, Joins
  <2>6. \A i \in 1..Len(stack') : i = 1
    BY <2>4
  <2> QED
    BY <2>5, <2>6 DEF StackAgrees
<1> QED
  BY <1>1, <1>2, <1>3 DEF OuterCode

LEMMA StackCall ==
    ASSUME TypeOK, Lifecycle, StackAgrees, WorkersKept, NEW w \in Workers, OuterCall(w)
    PROVE  StackAgrees'
<1>0. {w} \in SUBSET Workers
  OBVIOUS
<1>1. ASSUME UNCHANGED <<stack, joining>> PROVE StackAgrees'
  BY <1>1, StackStays
<1>2. ASSUME NEW via, NEW timeout, startWorker(w, via, timeout) PROVE StackAgrees'
  <2>1. CASE Block("eval", {w}, timeout = "timed")
    <3>1. InCode /\ joining' = joining /\ w \in Created
      BY <1>2 DEF startWorker, Calling
    <3>2. \A v \in {w} : outside'[v].state # "NONE"
      BY <3>1 DEF WorkersKept, Created
    <3> QED
      BY <1>0, <2>1, <3>1, <3>2, StackBlock DEF Waits, Joins
  <2> QED
    BY <1>1, <1>2, <2>1 DEF startWorker
<1>3. ASSUME workerPreload(w) PROVE StackAgrees'
  <2>1. CASE outside[w].state = "BEGIN" /\ Block("pre", {w}, FALSE)
    <3>1. InCode /\ joining' = joining /\ outside' = outside
      BY <1>3 DEF workerPreload, Calling
    <3>2. \A v \in {w} : outside'[v].state = "BEGIN"
      BY <2>1, <3>1
    <3> QED
      BY <1>0, <2>1, <3>1, <3>2, StackBlock DEF Joins
  <2> QED
    BY <1>1, <1>3, <2>1 DEF workerPreload
<1>4. ASSUME NEW timed \in BOOLEAN, workerWaitForMessage(w, timed) PROVE StackAgrees'
  <2>1. InCode /\ joining' = joining /\ Block("wait", {w}, timed)
    BY <1>4 DEF workerWaitForMessage, Calling
  <2> QED
    BY <1>0, <2>1, StackBlock DEF Joins, Waits
<1>5. ASSUME PreloadReturns(w) PROVE StackAgrees'
  BY <1>5, StackBelow DEF PreloadReturns
<1>6. ASSUME NEW hasScript \in BOOLEAN, workerConstructor(w, hasScript) PROVE StackAgrees'
  BY <1>1, <1>6 DEF workerConstructor
<1>7. ASSUME NEW base \in Workers, workerClone(base, w) PROVE StackAgrees'
  BY <1>1, <1>7 DEF workerClone
<1>8. ASSUME workerTerminate(w) PROVE StackAgrees'
  BY <1>1, <1>8 DEF workerTerminate
<1>9. ASSUME workerPostMessage(w) PROVE StackAgrees'
  <2>1. InCode /\ joining' = joining
    BY <1>9 DEF workerPostMessage, Calling
  <2>2. UNCHANGED stack \/ stack' = Append(stack, Activity("json", {w}, "none", FALSE))
    BY <1>9 DEF workerPostMessage
  <2> QED
    BY <1>1, <2>1, <2>2, StackPush
<1>10. ASSUME PostsMessage(w) PROVE StackAgrees'
  <2>1. stack # <<>> /\ joining' = joining /\ (UNCHANGED stack \/ stack' = Below)
    BY <1>10 DEF PostsMessage, InCode
  <2> QED
    BY <1>1, <2>1, StackBelow
<1> QED
  BY <1>2, <1>3, <1>4, <1>5, <1>6, <1>7, <1>8, <1>9, <1>10 DEF OuterCall

\* Joining all waits for the listed workers, which exist
LEMMA StackJoin ==
    ASSUME TypeOK, LinkedWhileListed, StackAgrees, WorkersKept, OuterJoin PROVE StackAgrees'
<1>1. PICK kind \in {"join", "joinAll"}, ws \in SUBSET Workers, timed \in BOOLEAN :
         workerJoin(kind, ws, timed)
  BY DEF OuterJoin
<1>2. InCode /\ ~destroyed /\ joining' = joining /\ Block(kind, ws, timed)
  BY <1>1 DEF workerJoin, Calling, InCode, Alive
<1>3. ws \subseteq Listed \/ ws \subseteq Created
  BY <1>1 DEF workerJoin
<1>4. \A w \in Workers : w \in Listed => outside[w].state # "NONE"
  BY <1>2, LinkedParts DEF ListAgrees, Live
<1>5. \A w \in ws : outside'[w].state # "NONE"
  BY <1>3, <1>4 DEF WorkersKept, Created
<1>6. kind \in Waits \cup {"pre"} /\ kind # "pre"
  BY DEF Waits, Joins
<1> QED
  BY <1>2, <1>5, <1>6, StackBlock

LEMMA StackLoop ==
    ASSUME TypeOK, StackAgrees, WorkersKept, OuterLoop PROVE StackAgrees'
<1>0. ASSUME stack # <<>> PROVE Top \in Frame
  BY <1>0, TopType DEF TypeOK
<1>1. CASE JoinChecks
  <2>1. stack # <<>> /\ Top.kind \in Waits
    BY <1>1 DEF JoinChecks, Blocked, Waits
  <2>2. PICK p : p = IF reapJoins(Top) THEN "true" ELSE "poll"
    OBVIOUS
  <2>7. PICK d : d = FALSE
    OBVIOUS
  <2>3. PICK f : f = [Top EXCEPT !.phase = p, !.dispatched = d]
    OBVIOUS
  <2>4. Retop(f) /\ joining' = ~reapJoins(Top)
    BY <1>1, <2>2, <2>3, <2>7 DEF JoinChecks
  <2>5. SameActivity(Top, f) /\ f.phase = p
    BY <1>0, <2>1, <2>3 DEF Frame, SameActivity
  <2>6. f.phase = "poll" => joining'
    BY <2>2, <2>4, <2>5
  <2> QED
    BY <2>1, <2>4, <2>5, <2>6, StackRetop
<1>2. CASE JoinPolls
  <2>1. stack # <<>> /\ Top.kind \in Waits
    BY <1>2 DEF JoinPolls, Blocked, Waits
  <2>2. PICK p \in {"true", "false", "check"} : Retop([Top EXCEPT !.phase = p])
    BY <1>2 DEF JoinPolls
  <2>3. PICK f : f = [Top EXCEPT !.phase = p]
    OBVIOUS
  <2>4. SameActivity(Top, f) /\ f.phase = p
    BY <1>0, <2>1, <2>3, FrameFields
  <2> QED
    BY <2>1, <2>2, <2>3, <2>4, StackRetop
<1>3. CASE WaitPolls
  <2>1. stack # <<>> /\ Top.kind = "wait"
    BY <1>3 DEF WaitPolls, Blocked
  <2>5. PICK p, d : p = "true" /\ d = FALSE
    OBVIOUS
  <2>2. PICK f : /\ Retop(f)
                 /\ \/ f = [Top EXCEPT !.phase = p]
                    \/ f = [Top EXCEPT !.dispatched = d]
    BY <1>3, <2>5 DEF WaitPolls
  <2>3. SameActivity(Top, f)
    BY <1>0, <2>1, <2>2 DEF Frame, SameActivity
  <2>4. f.kind \notin Joins /\ Top.kind \in Waits
    BY <2>1, <2>3 DEF SameActivity, Joins, Waits
  <2> QED
    BY <2>1, <2>2, <2>3, <2>4, StackRetop
<1>4. CASE CallReturns
  BY <1>4, StackBelow DEF CallReturns, Blocked
<1>5. CASE CallbackReturns
  BY <1>5, StackBelow DEF CallbackReturns, InCode
<1>6. CASE doMessage
  <2>1. PICK w, slot : w = Head(outQ).worker /\ slot = Head(outQ).slot
    OBVIOUS
  <2>2. CanDispatch /\ joining' = joining
    BY <1>6 DEF doMessage
  <2>3. \/ stack' = Dispatching
        \/ stack' = Append(Dispatching, Activity("msg", {w}, slot, FALSE))
    BY <1>6, <2>1 DEF doMessage
  <2> QED
    BY <2>2, <2>3, StackDispatch
<1>7. CASE MessageTooLate
  BY <1>7, StackStays DEF MessageTooLate, Crash
<1> QED
  BY <1>1, <1>2, <1>3, <1>4, <1>5, <1>6, <1>7 DEF OuterLoop

LEMMA StackInner ==
    ASSUME TypeOK, StackAgrees, WorkersKept, NEW w \in Workers, Inner(w) PROVE StackAgrees'
<1>1. UNCHANGED <<stack, joining>>
  BY DEF Inner, workerMain, InsidePost, InsidePostWaits, InsidePostResumes, workerExit,
         InsideMessage, InsideMessageDone, Crash, ScriptEnds, handleError, CloseInside,
         CloseOutside, PostClose, CollectInside, InsideStep
<1> QED
  BY <1>1, StackStays

LEMMA StackStep ==
    ASSUME TypeOK, Lifecycle, LinkedWhileListed, StackAgrees, Next PROVE StackAgrees'
<1>0. WorkersKept
  BY WorkersKeep
<1>1. CASE ejsDestroyVM
  BY <1>0, <1>1, StackStays DEF ejsDestroyVM
<1> QED
  BY <1>0, <1>1, StackCode, StackJoin, StackLoop, StackCall, StackInner DEF Next

-----------------------------------------------------------------------------
(***************************************************************************)
(* What a step does to the inside workers.                                 *)
(***************************************************************************)

\* A failure is raised by a script that ends, and handleError posts it; a worker that has
\* posted late has
InsideKept(v) ==
    /\ inside'[v].failure = "raised" =>
          \/ inside[v].pc = "main" /\ inside'[v].pc = "error"
          \/ /\ inside[v].failure = "raised"
             /\ inside[v].pc = "error" => inside'[v].pc = "error" \/ QueueOutside(v, "onerror")
    /\ inside[v].posting = "late" => inside'[v].posting = "late"

LEMMA InsideSame ==
    ASSUME UNCHANGED inside, NEW v PROVE InsideKept(v)
BY DEF InsideKept

\* Only worker w changes
LEMMA InsideOther ==
    ASSUME TypeOK, NEW w \in Workers, NEW new, inside' = [inside EXCEPT ![w] = new],
           InsideKept(w), NEW v \in Workers
    PROVE  InsideKept(v)
<1>1. CASE v = w
  BY <1>1
<1>2. CASE v # w
  <2>1. inside'[v] = inside[v]
    BY <1>2 DEF TypeOK
  <2> QED
    BY <2>1 DEF InsideKept
<1> QED
  BY <1>1, <1>2

LEMMA InsideFields ==
    ASSUME TypeOK, NEW w \in Workers, NEW new, inside' = [inside EXCEPT ![w] = new],
           new.failure = inside[w].failure,
           inside[w].posting = "late" => new.posting = "late",
           new.pc = inside[w].pc \/ inside[w].pc # "error", NEW v \in Workers
    PROVE  InsideKept(v)
<1>1. inside'[w] = new
  BY DEF TypeOK
<1>2. InsideKept(w)
  BY <1>1 DEF InsideKept
<1> QED
  BY <1>2, InsideOther

LEMMA InsideCall ==
    ASSUME TypeOK, NEW w \in Workers, OuterCall(w), NEW v \in Workers PROVE InsideKept(v)
<1>0. inside[w] \in Inside /\ inside \in [Workers -> Inside]
  BY DEF TypeOK
<1>1. ASSUME NEW hasScript \in BOOLEAN, initWorker(w, hasScript) PROVE InsideKept(v)
  <2>1. PICK q, s : q = (IF hasScript THEN <<"main">> ELSE <<>>) /\ s = "BEGIN"
    OBVIOUS
  <2>2. PICK new : new = [inside[w] EXCEPT !.state = s, !.queue = q]
    OBVIOUS
  <2>3. inside' = [inside EXCEPT ![w] = new]
    BY <1>0, <1>1, <2>1, <2>2 DEF initWorker
  <2>4. /\ new.failure = inside[w].failure /\ new.pc = inside[w].pc
        /\ new.posting = inside[w].posting
    BY <1>0, <2>2 DEF Inside
  <2> QED
    BY <2>3, <2>4, InsideFields
<1>2. ASSUME NEW e, inside' = [inside EXCEPT ![w].queue = Append(@, e)] PROVE InsideKept(v)
  <2>1. PICK q : q = Append(inside[w].queue, e)
    OBVIOUS
  <2>2. PICK new : new = [inside[w] EXCEPT !.queue = q]
    OBVIOUS
  <2>3. inside' = [inside EXCEPT ![w] = new]
    BY <1>0, <1>2, <2>1, <2>2
  <2>4. /\ new.failure = inside[w].failure /\ new.pc = inside[w].pc
        /\ new.posting = inside[w].posting
    BY <1>0, <2>2 DEF Inside
  <2> QED
    BY <2>3, <2>4, InsideFields
<1>3. ASSUME inside' = [inside EXCEPT ![w].exiting = TRUE] PROVE InsideKept(v)
  <2>2. PICK new : new = [inside[w] EXCEPT !.exiting = TRUE]
    OBVIOUS
  <2>3. inside' = [inside EXCEPT ![w] = new]
    BY <1>0, <1>3, <2>2
  <2>4. /\ new.failure = inside[w].failure /\ new.pc = inside[w].pc
        /\ new.posting = inside[w].posting
    BY <1>0, <2>2 DEF Inside
  <2> QED
    BY <2>3, <2>4, InsideFields
<1>4. ASSUME inside' = [inside EXCEPT ![w].exception = TRUE] PROVE InsideKept(v)
  <2>2. PICK new : new = [inside[w] EXCEPT !.exception = TRUE]
    OBVIOUS
  <2>3. inside' = [inside EXCEPT ![w] = new]
    BY <1>0, <1>4, <2>2
  <2>4. /\ new.failure = inside[w].failure /\ new.pc = inside[w].pc
        /\ new.posting = inside[w].posting
    BY <1>0, <2>2 DEF Inside
  <2> QED
    BY <2>3, <2>4, InsideFields
<1>5. CASE \E hasScript \in BOOLEAN : workerConstructor(w, hasScript)
  BY <1>1, <1>5 DEF workerConstructor
<1>6. CASE \E base \in Workers : workerClone(base, w)
  BY <1>1, <1>6, InsideSame DEF workerClone
<1>7. CASE \E via, timeout : startWorker(w, via, timeout)
  BY <1>2, <1>7, InsideSame DEF startWorker
<1>8. CASE workerPostMessage(w) \/ PostsMessage(w)
  BY <1>2, <1>8, InsideSame DEF workerPostMessage, PostsMessage
<1>9. CASE workerTerminate(w)
  BY <1>3, <1>9, InsideSame DEF workerTerminate
<1>10. CASE PreloadReturns(w)
  BY <1>4, <1>10, InsideSame DEF PreloadReturns
<1>11. CASE workerPreload(w) \/ \E timed \in BOOLEAN : workerWaitForMessage(w, timed)
  BY <1>11, InsideSame DEF workerPreload, workerWaitForMessage
<1> QED
  BY <1>5, <1>6, <1>7, <1>8, <1>9, <1>10, <1>11 DEF OuterCall

LEMMA InsideMain ==
    ASSUME TypeOK, NEW w \in Workers, workerMain(w), NEW v \in Workers PROVE InsideKept(v)
<1>0. inside[w] \in Inside /\ inside \in [Workers -> Inside]
  BY DEF TypeOK
<1>1. CASE UNCHANGED inside
  BY <1>1, InsideSame
<1>2. CASE inside' # inside
  <2>1. inside[w].pc # "error"
    BY DEF workerMain
  <2>2. PICK q, s, b : q = Tail(inside[w].queue) /\ s = "STARTED" /\ b = (inside[w].pc = "msg")
    OBVIOUS
  <2>3. PICK started : started = [inside[w] EXCEPT !.queue = q, !.state = s, !.nested = b]
    OBVIOUS
  <2>4. started = [inside[w] EXCEPT !.queue = Tail(@), !.state = "STARTED",
                                    !.nested = (inside[w].pc = "msg")]
    BY <1>0, <2>2, <2>3
  <2>8. q \in Seq({"main", "msg"}) /\ s \in States \ {"COMPLETE"} /\ b \in BOOLEAN
    <3>1. inside[w].queue \in Seq({"main", "msg"}) /\ inside[w].queue # <<>>
      BY <1>0 DEF workerMain, Inside
    <3> QED
      BY <2>2, <3>1 DEF States
  <2>5. /\ started.failure = inside[w].failure /\ started.posting = inside[w].posting
        /\ started \in Inside
    BY <1>0, <2>3, <2>8 DEF Inside
  <2>6. PICK new : /\ inside' = [inside EXCEPT ![w] = new]
                   /\ \/ new = [started EXCEPT !.pc = "error"]
                      \/ \E script : new = [started EXCEPT !.pc = "main", !.ran = script]
    BY <1>2, <2>4, ZenonT(40) DEF workerMain, InsideStep, Crash
  <2>7. new.failure = started.failure /\ new.posting = started.posting
    BY <2>5, <2>6 DEF Inside
  <2> QED
    BY <2>1, <2>5, <2>6, <2>7, InsideFields
<1> QED
  BY <1>1, <1>2

LEMMA InsideInner ==
    ASSUME TypeOK, NEW w \in Workers, Inner(w), NEW v \in Workers PROVE InsideKept(v)
<1>0. inside[w] \in Inside /\ inside \in [Workers -> Inside]
  BY DEF TypeOK
<1>1. ASSUME NEW new, inside' = [inside EXCEPT ![w] = new], new.failure = inside[w].failure,
             inside[w].posting = "late" => new.posting = "late",
             new.pc = inside[w].pc \/ inside[w].pc # "error"
      PROVE  InsideKept(v)
  BY <1>1, InsideFields
<1>2. CASE workerMain(w)
  BY <1>2, InsideMain
<1>3. CASE InsidePost(w)
  BY <1>3, InsideSame DEF InsidePost, Crash
<1>4. CASE workerExit(w)
  <2>1. PICK new : /\ inside' = [inside EXCEPT ![w] = new]
                   /\ new = [inside[w] EXCEPT !.exiting = TRUE]
    BY <1>4 DEF workerExit, InsideStep
  <2>2. /\ new.failure = inside[w].failure /\ new.pc = inside[w].pc
        /\ new.posting = inside[w].posting
    BY <1>0, <2>1 DEF Inside
  <2> QED
    BY <1>1, <2>1, <2>2
<1>5. CASE InsideMessage(w)
  <2>1. CASE UNCHANGED inside
    BY <2>1, InsideSame
  <2>2. CASE inside' # inside
    <3>1. PICK new : /\ inside' = [inside EXCEPT ![w] = new]
                     /\ new = [inside[w] EXCEPT !.queue = Tail(@),
                                  !.pc = IF @ = "idle" /\ ~inside[w].exception
                                         THEN "msg" ELSE @]
      BY <1>5, <2>2 DEF InsideMessage, InsideStep, Crash
    <3>2. new.failure = inside[w].failure /\ new.posting = inside[w].posting
      BY <1>0, <3>1 DEF Inside
    <3>3. inside[w].pc # "error"
      BY <1>5 DEF InsideMessage
    <3> QED
      BY <1>1, <3>1, <3>2, <3>3
  <2> QED
    BY <2>1, <2>2
<1>6. ASSUME NEW throws \in BOOLEAN, InsideMessageDone(w, throws) PROVE InsideKept(v)
  <2>1. PICK new : /\ inside' = [inside EXCEPT ![w] = new]
                   /\ new = [inside[w] EXCEPT !.pc = "idle", !.exception = @ \/ throws,
                                !.posting = IF @ = "yes" THEN "no" ELSE @]
    BY <1>6 DEF InsideMessageDone, InsideStep
  <2>4. PICK r \in Inside : r = inside[w]
    BY <1>0
  <2>5. PICK p, e, g : /\ p = "idle" /\ e = (r.exception \/ throws)
                       /\ g = IF r.posting = "yes" THEN "no" ELSE r.posting
    OBVIOUS
  <2>6. new = [r EXCEPT !.pc = p, !.exception = e, !.posting = g]
    BY <2>1, <2>4, <2>5
  <2>7. new.failure = r.failure /\ new.posting = g
    BY <2>4, <2>6 DEF Inside
  <2>2. new.failure = inside[w].failure /\ (inside[w].posting = "late" => new.posting = "late")
    BY <2>4, <2>5, <2>7
  <2>3. inside[w].pc # "error"
    BY <1>6 DEF InsideMessageDone
  <2> QED
    BY <1>1, <2>1, <2>2, <2>3
<1>7. ASSUME NEW throws \in BOOLEAN, ScriptEnds(w, throws) PROVE InsideKept(v)
  <2>1. inside[w].pc = "main"
    BY <1>7 DEF ScriptEnds
  <2>2. CASE throws
    <3>1. PICK new : /\ inside' = [inside EXCEPT ![w] = new]
                     /\ new = [inside[w] EXCEPT !.pc = "error", !.exception = TRUE,
                                                !.failure = "raised"]
      BY <1>7, <2>2 DEF ScriptEnds, InsideStep
    <3>2. new.pc = "error" /\ new.posting = inside[w].posting
      BY <1>0, <3>1 DEF Inside
    <3>3. inside'[w].pc = "error" /\ inside'[w].posting = inside[w].posting
      BY <1>0, <3>1, <3>2
    <3>4. InsideKept(w)
      BY <2>1, <3>3 DEF InsideKept
    <3> QED
      BY <3>1, <3>4, InsideOther
  <2>3. CASE ~throws
    <3>1. PICK new : /\ inside' = [inside EXCEPT ![w] = new]
                     /\ new = [inside[w] EXCEPT !.pc = "close"]
      BY <1>7, <2>3 DEF ScriptEnds, InsideStep
    <3>2. new.failure = inside[w].failure /\ new.posting = inside[w].posting
      BY <1>0, <3>1 DEF Inside
    <3> QED
      BY <1>1, <2>1, <3>1, <3>2
  <2> QED
    BY <2>2, <2>3
<1>8. CASE handleError(w)
  <2>1. CASE UNCHANGED inside
    BY <2>1, InsideSame
  <2>2. CASE inside' # inside
    <3>0. PICK e, p : e = FALSE /\ p = "close"
      OBVIOUS
    <3>1. PICK new : new = [inside[w] EXCEPT !.exception = e, !.pc = p]
      OBVIOUS
    <3>2. inside' = [inside EXCEPT ![w] = new] /\ QueueOutside(w, "onerror")
      BY <1>0, <1>8, <2>2, <3>0, <3>1 DEF handleError, Crash
    <3>3. new.failure = inside[w].failure /\ new.posting = inside[w].posting
      BY <1>0, <3>1 DEF Inside
    <3>4. inside'[w].failure = inside[w].failure /\ inside'[w].posting = inside[w].posting
      BY <1>0, <3>2, <3>3
    <3>5. InsideKept(w)
      BY <3>2, <3>4 DEF InsideKept
    <3> QED
      BY <3>2, <3>5, InsideOther
  <2> QED
    BY <2>1, <2>2
<1>9. CASE CloseInside(w)
  <2>1. PICK s, p : s = "CLOSED" /\ p = "closing"
    OBVIOUS
  <2>2. PICK new : new = [inside[w] EXCEPT !.state = s, !.pc = p]
    OBVIOUS
  <2>3. inside' = [inside EXCEPT ![w] = new] /\ inside[w].pc # "error"
    BY <1>0, <1>9, <2>1, <2>2 DEF CloseInside, InsideStep
  <2>4. new.failure = inside[w].failure /\ new.posting = inside[w].posting
    BY <1>0, <2>2 DEF Inside
  <2> QED
    BY <1>1, <2>3, <2>4
<1>12. CASE CloseOutside(w)
  <2>1. PICK p : p = "post"
    OBVIOUS
  <2>2. PICK new : new = [inside[w] EXCEPT !.pc = p]
    OBVIOUS
  <2>3. inside' = [inside EXCEPT ![w] = new] /\ inside[w].pc # "error"
    BY <1>0, <1>12, <2>1, <2>2 DEF CloseOutside
  <2>4. new.failure = inside[w].failure /\ new.posting = inside[w].posting
    BY <1>0, <2>2 DEF Inside
  <2> QED
    BY <1>1, <2>3, <2>4
<1>10. CASE PostClose(w)
  <2>0. PICK p, b : p = (IF inside[w].nested THEN "msg" ELSE "idle") /\ b = FALSE
    OBVIOUS
  <2>1. PICK new : new = [inside[w] EXCEPT !.pc = p, !.nested = b]
    OBVIOUS
  <2>2. inside' = [inside EXCEPT ![w] = new] /\ inside[w].pc # "error"
    BY <1>0, <1>10, <2>0, <2>1 DEF PostClose
  <2>3. new.failure = inside[w].failure /\ new.posting = inside[w].posting
    BY <1>0, <2>1 DEF Inside
  <2> QED
    BY <1>1, <2>2, <2>3
<1>13. CASE InsidePostWaits(w)
  <2>1. PICK g : g = "yes"
    OBVIOUS
  <2>2. PICK new : new = [inside[w] EXCEPT !.posting = g]
    OBVIOUS
  <2>3. inside' = [inside EXCEPT ![w] = new] /\ inside[w].posting # "late"
    BY <1>13, <2>1, <2>2 DEF InsidePostWaits, InsideStep
  <2>4. new.failure = inside[w].failure /\ new.pc = inside[w].pc
    BY <1>0, <2>2 DEF Inside
  <2> QED
    BY <1>1, <2>3, <2>4
<1>14. CASE InsidePostResumes(w)
  <2>1. CASE UNCHANGED inside
    BY <2>1, InsideSame
  <2>2. CASE inside' # inside
    <3>1. PICK g : g = IF inside[w].state = "CLOSED" THEN "late" ELSE "no"
      OBVIOUS
    <3>2. PICK new : new = [inside[w] EXCEPT !.posting = g]
      OBVIOUS
    <3>3. inside' = [inside EXCEPT ![w] = new] /\ inside[w].posting # "late"
      BY <1>0, <1>14, <2>2, <3>1, <3>2 DEF InsidePostResumes, Crash
    <3>4. new.failure = inside[w].failure /\ new.pc = inside[w].pc
      BY <1>0, <3>2 DEF Inside
    <3> QED
      BY <1>1, <3>3, <3>4
  <2> QED
    BY <2>1, <2>2
<1>11. CASE CollectInside(w)
  <2>1. PICK new : /\ inside' = [inside EXCEPT ![w] = new]
                   /\ new = [inside[w] EXCEPT !.queue = <<>>]
    BY <1>11 DEF CollectInside, InsideStep
  <2>2. /\ new.failure = inside[w].failure /\ new.pc = inside[w].pc
        /\ new.posting = inside[w].posting
    BY <1>0, <2>1 DEF Inside
  <2> QED
    BY <1>1, <2>1, <2>2
<1> QED
  BY <1>2, <1>3, <1>4, <1>5, <1>6, <1>7, <1>8, <1>9, <1>10, <1>11, <1>12, <1>13, <1>14
     DEF Inner

LEMMA InsideSteps ==
    ASSUME TypeOK, Next, ~doMessage, NEW v \in Workers PROVE InsideKept(v)
<1>1. CASE OuterCode \/ OuterJoin \/ OuterLoop \/ ejsDestroyVM
  <2>1. UNCHANGED inside
    BY <1>1 DEF OuterCode, RunScript, TimerClears, ThrowOrCatch, ScriptReturns, OuterJoin,
       workerJoin, OuterLoop, JoinChecks, JoinPolls, WaitPolls, CallReturns, CallbackReturns,
       MessageTooLate, Crash, ejsDestroyVM
  <2> QED
    BY <2>1, InsideSame
<1> QED
  BY <1>1, InsideCall, InsideInner DEF Next

LEMMA DispatchInside ==
    ASSUME TypeOK, doMessage, NEW v \in Workers
    PROVE  /\ inside'[v].pc = inside[v].pc /\ inside'[v].posting = inside[v].posting
           /\ inside'[v].failure = "raised" =>
                /\ inside[v].failure = "raised"
                /\ Head(outQ).worker = v => Head(outQ).slot # "onerror"
<1>0. inside \in [Workers -> Inside]
  BY DEF TypeOK
<1>1. PICK w, slot : w = Head(outQ).worker /\ slot = Head(outQ).slot
  OBVIOUS
<1>2. inside' = [inside EXCEPT ![w].failure =
                   IF slot = "onerror" THEN Dispatched(@) ELSE @]
  BY <1>1 DEF doMessage
<1>3. CASE v # w
  BY <1>0, <1>1, <1>2, <1>3
<1>4. CASE v = w
  <2>1. PICK g : g = IF slot = "onerror" THEN Dispatched(inside[v].failure)
                     ELSE inside[v].failure
    OBVIOUS
  <2>2. PICK r \in Inside : r = inside[v]
    BY <1>0
  <2>3. inside'[v] = [r EXCEPT !.failure = g]
    BY <1>0, <1>2, <1>4, <2>1, <2>2
  <2>4. inside'[v].pc = r.pc /\ inside'[v].posting = r.posting /\ inside'[v].failure = g
    BY <2>2, <2>3 DEF Inside
  <2>5. g = "raised" => r.failure = "raised" /\ slot # "onerror"
    BY <2>1, <2>2 DEF Dispatched
  <2> QED
    BY <1>1, <1>4, <2>2, <2>4, <2>5
<1> QED
  BY <1>3, <1>4

\* A worker in workerMain, or about to enter it, is not COMPLETE
LEMMA MainIsLinked ==
    ASSUME TypeOK, Lifecycle, NEW w \in Workers, workerMain(w) \/ handleError(w)
    PROVE  outside[w].state \notin {"NONE", "COMPLETE"}
<1>0. inside[w] \in Inside /\ StatesAgree(w) /\ MainAgrees(w)
  BY DEF TypeOK, Lifecycle
<1>1. CASE workerMain(w)
  <2>1. inside[w].queue \in Seq({"main", "msg"}) /\ inside[w].queue # <<>>
        /\ Head(inside[w].queue) = "main"
    BY <1>0, <1>1 DEF workerMain, Inside
  <2>2. 1 \in 1..Len(inside[w].queue) /\ inside[w].queue[1] = "main"
    BY <2>1
  <2> QED
    BY <1>0, <2>2 DEF MainAgrees
<1>2. CASE handleError(w)
  <2>1. inside[w].pc = "error"
    BY <1>2 DEF handleError
  <2> QED
    BY <1>0, <2>1 DEF StatesAgree, Inside, States
<1> QED
  BY <1>1, <1>2

\* So is one whose code posts a message: on its own thread before the inside worker is
\* closed, or on the outside thread as a preload
LEMMA PostIsLinked ==
    ASSUME TypeOK, Lifecycle, StackAgrees, NEW w \in Workers, InsidePost(w)
    PROVE  outside[w].state \notin {"NONE", "COMPLETE"}
<1>0. inside[w] \in Inside /\ StatesAgree(w)
  BY DEF TypeOK, Lifecycle
<1>1. InsideCode(w) /\ inside[w].state # "CLOSED"
  BY RankFacts DEF InsidePost
<1>2. CASE inside[w].pc \in {"main", "msg"}
  BY <1>0, <1>1, <1>2 DEF StatesAgree, Inside, States
<1>3. CASE stack # <<>> /\ Top.kind = "pre" /\ Top.ws = {w}
  <2>1. FrameAgrees(Len(stack))
    BY <1>3 DEF StackAgrees, TypeOK
  <2> QED
    BY <1>3, <2>1 DEF FrameAgrees, Top
<1> QED
  BY <1>1, <1>2, <1>3 DEF InsideCode

-----------------------------------------------------------------------------
(***************************************************************************)
(* onclose is the last message.                                            *)
(***************************************************************************)

\* No onclose callback is entered
CallbacksKept ==
    \A i \in 1..Len(stack') : stack'[i].slot = "onclose" =>
        \E k \in 1..Len(stack) : stack[k].slot = "onclose" /\ stack[k].ws = stack'[i].ws

LEMMA CallbacksSame ==
    ASSUME \A i \in 1..Len(stack') : /\ i \in 1..Len(stack)
                                     /\ SameActivity(stack[i], stack'[i])
    PROVE  CallbacksKept
BY DEF CallbacksKept, SameActivity

LEMMA CallbacksBelow ==
    ASSUME TypeOK, stack # <<>>, stack' = Below PROVE CallbacksKept
<1>1. \A i \in 1..Len(stack') : i \in 1..Len(stack) /\ stack'[i] = stack[i]
  BY BelowFrames DEF TypeOK
<1> QED
  BY <1>1 DEF CallbacksKept

LEMMA CallbacksRetop ==
    ASSUME TypeOK, stack # <<>>, NEW f, Retop(f), f.slot = Top.slot, f.ws = Top.ws
    PROVE  CallbacksKept
<1>1. /\ Len(stack') = Len(stack) /\ stack'[Len(stack)] = f /\ Top = stack[Len(stack)]
      /\ \A i \in 1..Len(stack) : i # Len(stack) => stack'[i] = stack[i]
  BY RetopFrames DEF TypeOK, Top
<1> QED
  BY <1>1 DEF CallbacksKept

LEMMA CallbacksBlock ==
    ASSUME TypeOK, NEW kind, NEW ws, NEW timed, Block(kind, ws, timed) PROVE CallbacksKept
<1>1. PICK f : f = Activity(kind, ws, "none", timed)
  OBVIOUS
<1>2. f.slot = "none"
  BY <1>1 DEF Activity
<1>3. PICK n \in Nat : n = Len(stack)
  BY DEF TypeOK
<1>4. /\ Len(stack') = n + 1 /\ stack'[n + 1] = f
      /\ \A i \in 1..n : SameActivity(stack[i], stack'[i])
  BY <1>1, <1>3, BlockFrames DEF TypeOK
<1>5. \A i \in 1..Len(stack') : i \in 1..n \/ i = n + 1
  BY <1>4
<1> QED
  BY <1>2, <1>3, <1>4, <1>5 DEF CallbacksKept, SameActivity

LEMMA CallbacksPush ==
    ASSUME TypeOK, NEW ws, stack' = Append(stack, Activity("json", ws, "none", FALSE))
    PROVE  CallbacksKept
<1>1. PICK f : f = Activity("json", ws, "none", FALSE)
  OBVIOUS
<1>2. f.slot = "none"
  BY <1>1 DEF Activity
<1>3. PICK n \in Nat : n = Len(stack)
  BY DEF TypeOK
<1>4. stack \in Seq(Frame) /\ stack' = Append(stack, f)
  BY <1>1 DEF TypeOK
<1>5. Len(stack') = n + 1 /\ stack'[n + 1] = f /\ \A i \in 1..n : stack'[i] = stack[i]
  <2>1. Pushed(stack, stack', f, n)
    BY <1>3, <1>4, PushFrames
  <2> QED
    BY <2>1 DEF Pushed
<1>6. \A i \in 1..Len(stack') : i \in 1..n \/ i = n + 1
  BY <1>5
<1> QED
  BY <1>2, <1>3, <1>5, <1>6 DEF CallbacksKept

LEMMA CallbacksStep == ASSUME TypeOK, Next, ~doMessage PROVE CallbacksKept
<1>1. ASSUME UNCHANGED stack PROVE CallbacksKept
  BY <1>1 DEF CallbacksKept
<1>2. ASSUME NEW f, Retop(f), stack # <<>>,
             \E p, d : \/ f = [Top EXCEPT !.phase = p]
                       \/ f = [Top EXCEPT !.dispatched = d]
                       \/ f = [Top EXCEPT !.phase = p, !.dispatched = d]
      PROVE  CallbacksKept
  <2>1. Top \in Frame
    BY <1>2, TopType DEF TypeOK
  <2>2. f.slot = Top.slot /\ f.ws = Top.ws
    BY <1>2, <2>1 DEF Frame
  <2> QED
    BY <1>2, <2>2, CallbacksRetop
<1>3. CASE OuterCode
  <2>1. CASE RunScript
    <3>1. PICK f : f = Activity("script", {}, "none", FALSE)
      OBVIOUS
    <3>2. f.slot = "none"
      BY <3>1 DEF Activity
    <3>3. stack' = <<f>>
      BY <2>1, <3>1 DEF RunScript
    <3>4. \A i \in 1..Len(stack') : stack'[i] = f
      BY <3>3
    <3> QED
      BY <3>2, <3>4 DEF CallbacksKept
  <2>2. CASE ScriptReturns
    BY <2>2, CallbacksBelow DEF ScriptReturns, InCode
  <2> QED
    BY <1>1, <1>3, <2>1, <2>2 DEF OuterCode, TimerClears, ThrowOrCatch
<1>4. CASE OuterJoin
  BY <1>4, CallbacksBlock DEF OuterJoin, workerJoin
<1>5. CASE JoinChecks
  <2>1. stack # <<>>
    BY <1>5 DEF JoinChecks, Blocked
  <2>2. PICK p, d : Retop([Top EXCEPT !.phase = p, !.dispatched = d])
    BY <1>5 DEF JoinChecks
  <2> QED
    BY <1>2, <2>1, <2>2
<1>6. CASE JoinPolls
  <2>1. stack # <<>>
    BY <1>6 DEF JoinPolls, Blocked
  <2>2. PICK p : Retop([Top EXCEPT !.phase = p])
    BY <1>6 DEF JoinPolls
  <2> QED
    BY <1>2, <2>1, <2>2
<1>7. CASE WaitPolls
  <2>1. stack # <<>>
    BY <1>7 DEF WaitPolls, Blocked
  <2>2. \/ \E p : Retop([Top EXCEPT !.phase = p])
        \/ \E d : Retop([Top EXCEPT !.dispatched = d])
    BY <1>7 DEF WaitPolls
  <2> QED
    BY <1>2, <2>1, <2>2
<1>8. CASE CallReturns \/ CallbackReturns
  BY <1>8, CallbacksBelow DEF CallReturns, Blocked, CallbackReturns, InCode
<1>9. CASE ejsDestroyVM \/ MessageTooLate
  BY <1>1, <1>9 DEF ejsDestroyVM, MessageTooLate, Crash
<1>10. ASSUME NEW w \in Workers, OuterCall(w) PROVE CallbacksKept
  <2>1. \/ UNCHANGED stack
        \/ stack # <<>> /\ stack' = Below
        \/ \E kind, timed : Block(kind, {w}, timed)
        \/ stack' = Append(stack, Activity("json", {w}, "none", FALSE))
    BY <1>10 DEF OuterCall, workerConstructor, workerClone, startWorker, workerPostMessage,
                 PostsMessage, InCode, workerTerminate, workerPreload, PreloadReturns,
                 workerWaitForMessage
  <2> QED
    BY <1>1, <2>1, CallbacksBelow, CallbacksBlock, CallbacksPush
<1>11. ASSUME NEW w \in Workers, Inner(w) PROVE CallbacksKept
  <2>1. UNCHANGED stack
    BY <1>11 DEF Inner, workerMain, InsidePost, InsidePostWaits, InsidePostResumes, workerExit,
             InsideMessage, InsideMessageDone, Crash, ScriptEnds, handleError, CloseInside,
             CloseOutside, PostClose, CollectInside, InsideStep
  <2> QED
    BY <1>1, <2>1
<1> QED
  BY <1>3, <1>4, <1>5, <1>6, <1>7, <1>8, <1>9, <1>10, <1>11 DEF Next, OuterLoop

\* What is queued is queued for a worker that exists, and once its onclose is, only late
Queues(w, slot) ==
    /\ QueueOutside(w, slot)
    /\ outside[w].state # "NONE"
    /\ ClosePending(w) => slot = "onmessage" /\ inside'[w].posting = "late"

LEMMA QueueGrows ==
    ASSUME TypeOK, Lifecycle, StackAgrees, Next, ~doMessage
    PROVE  \/ outQ' = outQ
           \/ outQ' = <<>> /\ destroyed'
           \/ \E w \in Workers, slot \in Slots : Queues(w, slot)
<1>0. \A w \in Workers : /\ inside[w] \in Inside
                         /\ inside[w].state \in {"NONE", "BEGIN", "STARTED", "CLOSED"}
                         /\ StatesAgree(w)
                         /\ ClosePending(w) => /\ inside[w].state = "CLOSED"
                                               /\ inside[w].pc \in {"idle", "msg"}
  BY DEF TypeOK, Inside, States, Lifecycle, CloseAgrees
<1>1. CASE OuterCode \/ OuterJoin \/ OuterLoop \/ ejsDestroyVM
  BY <1>1 DEF OuterCode, RunScript, TimerClears, ThrowOrCatch, ScriptReturns, OuterJoin,
       workerJoin, OuterLoop, JoinChecks, JoinPolls, WaitPolls, CallReturns, CallbackReturns,
       MessageTooLate, Crash, ejsDestroyVM
<1>2. ASSUME NEW w \in Workers, OuterCall(w), ~PreloadReturns(w) PROVE outQ' = outQ
  BY <1>2 DEF OuterCall, workerConstructor, workerClone, startWorker, workerPostMessage,
              PostsMessage, workerTerminate, workerPreload, workerWaitForMessage
<1>3. ASSUME NEW w \in Workers, PreloadReturns(w)
      PROVE  outQ' = outQ \/ Queues(w, "onerror")
  <2>1. stack # <<>> /\ Top.kind = "pre" /\ Top.ws = {w}
    BY <1>3 DEF PreloadReturns
  <2>2. FrameAgrees(Len(stack))
    BY <2>1, TopType DEF StackAgrees, TypeOK
  <2>3. outside[w].state = "BEGIN"
    BY <2>1, <2>2 DEF FrameAgrees, Top
  <2>4. ~ClosePending(w)
    BY <1>0, <2>3 DEF StatesAgree
  <2> QED
    BY <1>3, <2>3, <2>4 DEF PreloadReturns, Queues
<1>4. ASSUME NEW w \in Workers, InsidePost(w)
      PROVE  outQ' = outQ \/ Queues(w, "onmessage")
  <2>1. inside[w].state # "CLOSED"
    BY <1>4, RankFacts DEF InsidePost
  <2>2. outside[w].state # "NONE"
    BY <1>4, PostIsLinked
  <2> QED
    BY <1>0, <1>4, <2>1, <2>2 DEF InsidePost, Crash, Queues
<1>5. ASSUME NEW w \in Workers, handleError(w)
      PROVE  outQ' = outQ \/ Queues(w, "onerror")
  <2>1. inside[w].pc = "error"
    BY <1>5 DEF handleError
  <2>2. inside[w].state # "CLOSED"
    BY <1>0, <2>1 DEF StatesAgree
  <2>3. outside[w].state # "NONE"
    BY <1>5, MainIsLinked
  <2> QED
    BY <1>0, <1>5, <2>2, <2>3 DEF handleError, Crash, Queues
<1>6. ASSUME NEW w \in Workers, PostClose(w)
      PROVE  Queues(w, "onclose")
  <2>1. inside[w].pc = "post"
    BY <1>6 DEF PostClose
  <2>2. outside[w].state # "NONE"
    BY <1>0, <2>1 DEF StatesAgree
  <2> QED
    BY <1>0, <1>6, <2>1, <2>2 DEF PostClose, Queues
<1>8. ASSUME NEW w \in Workers, InsidePostResumes(w)
      PROVE  outQ' = outQ \/ Queues(w, "onmessage")
  <2>1. inside[w].pc = "msg"
    BY <1>8 DEF InsidePostResumes
  <2>2. outside[w].state # "NONE"
    BY <1>0, <2>1 DEF StatesAgree
  <2>3. CASE outQ' = outQ
    BY <2>3
  <2>4. CASE outQ' # outQ
    <3>1. PICK r \in Inside : r = inside[w]
      BY <1>0
    <3>2. PICK g : g = IF inside[w].state = "CLOSED" THEN "late" ELSE "no"
      OBVIOUS
    <3>3. QueueOutside(w, "onmessage") /\ inside' = [inside EXCEPT ![w].posting = g]
      BY <1>8, <2>4, <3>2 DEF InsidePostResumes, Crash
    <3>4. inside'[w] = [r EXCEPT !.posting = g]
      BY <3>1, <3>3 DEF TypeOK
    <3>5. inside'[w].posting = g
      BY <3>4 DEF Inside
    <3> QED
      BY <1>0, <2>2, <3>2, <3>3, <3>5 DEF Queues
  <2> QED
    BY <2>3, <2>4
<1>7. ASSUME NEW w \in Workers, Inner(w), ~InsidePost(w), ~InsidePostResumes(w),
             ~handleError(w), ~PostClose(w)
      PROVE  outQ' = outQ
  BY <1>7 DEF Inner, workerMain, InsidePostWaits, workerExit, InsideMessage, InsideMessageDone,
             Crash, ScriptEnds, CloseInside, CloseOutside, CollectInside, InsideStep
<1> QED
  BY <1>1, <1>2, <1>3, <1>4, <1>5, <1>6, <1>7, <1>8 DEF Next, Slots

\* The workers that messages are queued for exist
QueuedExist == \A k \in 1..Len(outQ) : outside[outQ[k].worker].state # "NONE"

LEMMA QueuedExistStep ==
    ASSUME TypeOK, Lifecycle, StackAgrees, QueuedExist, Next PROVE QueuedExist'
<1>0. WorkersKept /\ outQ \in Seq(Message)
  BY WorkersKeep DEF TypeOK
<1>1. \A k \in 1..Len(outQ) : outQ[k].worker \in Workers
  <2>1. \A k \in 1..Len(outQ) : outQ[k] \in Message
    BY <1>0
  <2> QED
    BY <2>1 DEF Message
<1>2. \A k \in 1..Len(outQ) : outside'[outQ[k].worker].state # "NONE"
  BY <1>0, <1>1 DEF WorkersKept, QueuedExist
<1>3. CASE outQ' = outQ
  BY <1>2, <1>3 DEF QueuedExist
<1>4. CASE outQ' = <<>>
  BY <1>4 DEF QueuedExist
<1>5. ASSUME NEW w \in Workers, NEW slot \in Slots, Queues(w, slot), outQ' # outQ
      PROVE  QueuedExist'
  <2>1. PICK n \in Nat : n = Len(outQ)
    BY <1>0
  <2>2. PICK m : m = [worker |-> w, slot |-> slot]
    OBVIOUS
  <2>3. outQ' = Append(outQ, m) /\ m.worker = w
    BY <1>5, <2>2 DEF Queues, QueueOutside
  <2>4. Len(outQ') = n + 1 /\ outQ'[n + 1] = m /\ \A i \in 1..n : outQ'[i] = outQ[i]
    BY <1>0, <2>1, <2>3
  <2>5. \A i \in 1..Len(outQ') : i \in 1..n \/ i = n + 1
    BY <2>4
  <2>6. outside'[w].state # "NONE"
    BY <1>0, <1>5 DEF Queues, WorkersKept
  <2> QED
    BY <1>2, <2>1, <2>3, <2>4, <2>5, <2>6 DEF QueuedExist
<1>6. CASE doMessage
  <2>1. outQ # <<>> /\ outQ' = Tail(outQ)
    BY <1>6 DEF doMessage, CanDispatch
  <2>2. PICK n \in Nat : n = Len(outQ)
    BY <1>0
  <2>3. Len(outQ') = n - 1 /\ \A i \in 1..(n - 1) : outQ'[i] = outQ[i + 1] /\ i + 1 \in 1..n
    BY <1>0, <2>1, <2>2
  <2> QED
    BY <1>2, <2>2, <2>3 DEF QueuedExist
<1> QED
  BY <1>3, <1>4, <1>5, <1>6, QueueGrows

\* The first message, of n, is taken, and its callback may be entered above s activities
Dispatches(w, slot, n, s) ==
    /\ n = Len(outQ) /\ n > 0 /\ outQ[1].worker = w /\ outQ[1].slot = slot
    /\ Len(outQ') = n - 1
    /\ \A i \in 1..(n - 1) : outQ'[i] = outQ[i + 1]
    /\ s = Len(stack)
    /\ \A i \in 1..Len(stack') :
          \/ i \in 1..s /\ SameActivity(stack[i], stack'[i])
          \/ i = s + 1 /\ stack'[i].ws = {w} /\ stack'[i].slot = slot

LEMMA DispatchEffects ==
    ASSUME TypeOK, doMessage
    PROVE  \E w \in Workers, slot \in Slots, n, s \in Nat : Dispatches(w, slot, n, s)
<1>1. outQ \in Seq(Message) /\ outQ # <<>> /\ outQ' = Tail(outQ)
  BY DEF doMessage, CanDispatch, TypeOK
<1>2. Head(outQ) \in Message /\ outQ[1] = Head(outQ)
  BY <1>1
<1>3. PICK w \in Workers, slot \in Slots : w = Head(outQ).worker /\ slot = Head(outQ).slot
  BY <1>2 DEF Message
<1>4. PICK n \in Nat : n = Len(outQ) /\ n > 0
  BY <1>1
<1>5. Len(outQ') = n - 1 /\ \A i \in 1..(n - 1) : outQ'[i] = outQ[i + 1]
  BY <1>1, <1>4
<1>6. PICK new : new = Activity("msg", {w}, slot, FALSE)
  OBVIOUS
<1>7. new.ws = {w} /\ new.slot = slot
  BY <1>6 DEF Activity
<1>8. PICK D \in Seq(Frame) : D = Dispatching
  BY DispatchingFrames DEF TypeOK
<1>9. PICK s \in Nat : s = Len(stack)
  BY DEF TypeOK
<1>10. Len(D) = s /\ \A k \in 1..s : SameActivity(stack[k], D[k])
  BY <1>8, <1>9, DispatchingFrames DEF TypeOK
<1>11. stack' = D \/ stack' = Append(D, new)
  BY <1>3, <1>6, <1>8 DEF doMessage
<1>12. \A i \in 1..Len(stack') : \/ i \in 1..s /\ SameActivity(stack[i], stack'[i])
                                 \/ i = s + 1 /\ stack'[i] = new
  <2>1. CASE stack' = D
    BY <1>10, <2>1
  <2>2. CASE stack' = Append(D, new)
    <3>1. Len(stack') = s + 1 /\ stack'[s + 1] = new /\ \A k \in 1..s : stack'[k] = D[k]
      BY <1>10, <2>2
    <3>2. \A i \in 1..Len(stack') : i \in 1..s \/ i = s + 1
      BY <3>1
    <3> QED
      BY <1>10, <3>1, <3>2
  <2> QED
    BY <1>11, <2>1, <2>2
<1>13. Dispatches(w, slot, n, s)
  BY <1>2, <1>3, <1>4, <1>5, <1>7, <1>9, <1>12 DEF Dispatches
<1> QED
  BY <1>13

\* CloseIsLast, with what the exception to it may be: message m is not one of w, or a late one
IsLate(m, w) == m.worker = w => m.slot = "onmessage" /\ inside[w].posting = "late"

LateOnly ==
    \A w \in Workers :
        /\ \A i, j \in 1..Len(outQ) :
              i < j /\ outQ[i].worker = w /\ outQ[i].slot = "onclose" => IsLate(outQ[j], w)
        /\ \A i \in 1..Len(stack), j \in 1..Len(outQ) :
              stack[i].slot = "onclose" /\ w \in stack[i].ws => IsLate(outQ[j], w)

LEMMA LateOnlyIsLast == ASSUME LateOnly PROVE CloseIsLast
<1> SUFFICES ASSUME NEW w \in Workers, inside[w].posting # "late"
             PROVE  /\ \A i, j \in 1..Len(outQ) :
                          i < j /\ outQ[i] = [worker |-> w, slot |-> "onclose"] =>
                              outQ[j].worker # w
                    /\ \A i \in 1..Len(stack), j \in 1..Len(outQ) :
                          stack[i].slot = "onclose" /\ w \in stack[i].ws => outQ[j].worker # w
  BY DEF CloseIsLast
<1>1. PICK m : m = [worker |-> w, slot |-> "onclose"]
  OBVIOUS
<1>2. m.worker = w /\ m.slot = "onclose"
  BY <1>1
<1> QED
  BY <1>1, <1>2 DEF LateOnly, IsLate

LEMMA LateStays == ASSUME TypeOK, Next, NEW v \in Workers, NEW m
                   PROVE  IsLate(m, v) => IsLate(m, v)'
<1>1. inside[v].posting = "late" => inside'[v].posting = "late"
  BY InsideSteps, DispatchInside DEF InsideKept
<1> QED
  BY <1>1 DEF IsLate

LEMMA LateOnlyStep ==
    ASSUME TypeOK, Lifecycle, StackAgrees, LateOnly, Next PROVE LateOnly'
<1> SUFFICES ASSUME NEW v \in Workers
             PROVE  /\ \A i, j \in 1..Len(outQ') :
                          i < j /\ outQ'[i].worker = v /\ outQ'[i].slot = "onclose" =>
                              IsLate(outQ[j], v)'
                    /\ \A i \in 1..Len(stack'), j \in 1..Len(outQ') :
                          stack'[i].slot = "onclose" /\ v \in stack'[i].ws => IsLate(outQ[j], v)'
  BY DEF LateOnly
<1>0. outQ \in Seq(Message)
  BY DEF TypeOK
<1>5. \A m : IsLate(m, v) => (m.worker = v => m.slot = "onmessage" /\ inside'[v].posting = "late")
  BY LateStays DEF IsLate
<1>6. /\ \A i, j \in 1..Len(outQ) :
            i < j /\ outQ[i].worker = v /\ outQ[i].slot = "onclose" => IsLate(outQ[j], v)
      /\ \A i \in 1..Len(stack), j \in 1..Len(outQ) :
            stack[i].slot = "onclose" /\ v \in stack[i].ws => IsLate(outQ[j], v)
  BY DEF LateOnly
<1>7. ASSUME NEW j, outQ'[j].worker = v => /\ outQ'[j].slot = "onmessage"
                                           /\ inside'[v].posting = "late"
      PROVE  IsLate(outQ[j], v)'
  BY <1>7 DEF IsLate
<1>1. CASE ~doMessage /\ outQ' = outQ
  <2>1. CallbacksKept
    BY <1>1, CallbacksStep
  <2>2. ASSUME NEW i \in 1..Len(outQ'), NEW j \in 1..Len(outQ'), i < j,
               outQ'[i].worker = v, outQ'[i].slot = "onclose"
        PROVE  IsLate(outQ[j], v)'
    BY <1>1, <1>5, <1>6, <1>7, <2>2
  <2>3. ASSUME NEW i \in 1..Len(stack'), NEW j \in 1..Len(outQ'),
               stack'[i].slot = "onclose", v \in stack'[i].ws
        PROVE  IsLate(outQ[j], v)'
    <3>1. IsLate(outQ[j], v)
      BY <1>1, <1>6, <2>1, <2>3 DEF CallbacksKept
    <3> QED
      BY <1>1, <1>5, <1>7, <3>1
  <2> QED
    BY <2>2, <2>3
<1>2. CASE outQ' = <<>>
  <2>1. 1..Len(outQ') = {}
    BY <1>2
  <2> QED
    BY <2>1
<1>3. ASSUME ~doMessage, NEW w \in Workers, NEW slot \in Slots, Queues(w, slot), outQ' # outQ
      PROVE  /\ \A i, j \in 1..Len(outQ') :
                   i < j /\ outQ'[i].worker = v /\ outQ'[i].slot = "onclose" =>
                       IsLate(outQ[j], v)'
             /\ \A i \in 1..Len(stack'), j \in 1..Len(outQ') :
                   stack'[i].slot = "onclose" /\ v \in stack'[i].ws => IsLate(outQ[j], v)'
  <2>1. CallbacksKept
    BY <1>3, CallbacksStep
  <2>2. PICK n \in Nat : n = Len(outQ)
    BY <1>0
  <2>3. PICK m : m = [worker |-> w, slot |-> slot]
    OBVIOUS
  <2>4. outQ' = Append(outQ, m) /\ m.worker = w /\ m.slot = slot
    BY <1>3, <2>3 DEF Queues, QueueOutside
  <2>5. Len(outQ') = n + 1 /\ outQ'[n + 1] = m /\ \A i \in 1..n : outQ'[i] = outQ[i]
    BY <1>0, <2>2, <2>4
  <2>6. \A i \in 1..Len(outQ') : i \in 1..n \/ i = n + 1
    BY <2>5
  <2>7. ClosePending(v) => (m.worker = v => m.slot = "onmessage" /\ inside'[v].posting = "late")
    BY <1>3, <2>4 DEF Queues
  <2>8. ASSUME NEW i \in 1..Len(outQ'), NEW j \in 1..Len(outQ'), i < j,
               outQ'[i].worker = v, outQ'[i].slot = "onclose"
        PROVE  IsLate(outQ[j], v)'
    <3>1. i \in 1..n /\ outQ[i].worker = v /\ outQ[i].slot = "onclose"
      BY <2>5, <2>8
    <3>2. CASE j = n + 1
      <4>1. ClosePending(v)
        BY <2>2, <3>1 DEF ClosePending
      <4> QED
        BY <1>7, <2>5, <2>7, <3>2, <4>1
    <3>3. CASE j \in 1..n
      <4>1. IsLate(outQ[j], v) /\ outQ'[j] = outQ[j]
        BY <1>6, <2>2, <2>5, <2>8, <3>1, <3>3
      <4> QED
        BY <1>5, <1>7, <4>1
    <3> QED
      BY <2>6, <3>2, <3>3
  <2>9. ASSUME NEW i \in 1..Len(stack'), NEW j \in 1..Len(outQ'),
               stack'[i].slot = "onclose", v \in stack'[i].ws
        PROVE  IsLate(outQ[j], v)'
    <3>1. PICK k \in 1..Len(stack) : stack[k].slot = "onclose" /\ v \in stack[k].ws
      BY <2>1, <2>9 DEF CallbacksKept
    <3>2. CASE j = n + 1
      <4>1. ClosePending(v)
        BY <3>1 DEF ClosePending
      <4> QED
        BY <1>7, <2>5, <2>7, <3>2, <4>1
    <3>3. CASE j \in 1..n
      <4>1. IsLate(outQ[j], v) /\ outQ'[j] = outQ[j]
        BY <1>6, <2>2, <2>5, <3>1, <3>3
      <4> QED
        BY <1>5, <1>7, <4>1
    <3> QED
      BY <2>6, <3>2, <3>3
  <2> QED
    BY <2>8, <2>9
<1>4. CASE doMessage
  <2>0. PICK w \in Workers, slot \in Slots, n, s \in Nat : Dispatches(w, slot, n, s)
    BY <1>4, DispatchEffects
  <2>1. /\ n = Len(outQ) /\ n > 0 /\ outQ[1].worker = w /\ outQ[1].slot = slot
        /\ Len(outQ') = n - 1
        /\ \A i \in 1..(n - 1) : outQ'[i] = outQ[i + 1]
        /\ s = Len(stack)
        /\ \A i \in 1..Len(stack') :
              \/ i \in 1..s /\ SameActivity(stack[i], stack'[i])
              \/ i = s + 1 /\ stack'[i].ws = {w} /\ stack'[i].slot = slot
    BY <2>0 DEF Dispatches
  <2>2. \A i \in 1..Len(outQ') : i + 1 \in 1..n /\ 1 < i + 1 /\ outQ'[i] = outQ[i + 1]
    BY <2>1
  <2>5. ASSUME NEW j \in 1..Len(outQ'), IsLate(outQ[j + 1], v) PROVE IsLate(outQ[j], v)'
    BY <1>5, <1>7, <2>2, <2>5
  <2>3. ASSUME NEW i \in 1..Len(outQ'), NEW j \in 1..Len(outQ'), i < j,
               outQ'[i].worker = v, outQ'[i].slot = "onclose"
        PROVE  IsLate(outQ[j], v)'
    <3>1. i + 1 < j + 1
      BY <2>1, <2>3
    <3>2. IsLate(outQ[j + 1], v)
      BY <1>6, <2>1, <2>2, <2>3, <3>1
    <3> QED
      BY <2>5, <3>2
  <2>4. ASSUME NEW i \in 1..Len(stack'), NEW j \in 1..Len(outQ'),
               stack'[i].slot = "onclose", v \in stack'[i].ws
        PROVE  IsLate(outQ[j], v)'
    <3>1. CASE i \in 1..s /\ SameActivity(stack[i], stack'[i])
      <4>1. IsLate(outQ[j + 1], v)
        BY <1>6, <2>1, <2>2, <2>4, <3>1 DEF SameActivity
      <4> QED
        BY <2>5, <4>1
    <3>2. CASE stack'[i].ws = {w} /\ stack'[i].slot = slot
      <4>1. 1 \in 1..n /\ v = w
        BY <2>1, <2>4, <3>2
      <4>2. IsLate(outQ[j + 1], v)
        BY <1>6, <2>1, <2>2, <2>4, <3>2, <4>1
      <4> QED
        BY <2>5, <4>2
    <3> QED
      BY <2>1, <3>1, <3>2
  <2> QED
    BY <2>3, <2>4
<1> QED
  BY <1>1, <1>2, <1>3, <1>4, QueueGrows

LEMMA StackInit == Init => StackAgrees /\ QueuedExist /\ LateOnly
<1> SUFFICES ASSUME Init PROVE StackAgrees /\ QueuedExist /\ LateOnly
  OBVIOUS
<1>1. stack = <<>> /\ outQ = <<>>
  BY DEF Init
<1>2. 1..Len(stack) = {} /\ 1..Len(outQ) = {}
  BY <1>1
<1> QED
  BY <1>2 DEF StackAgrees, QueuedExist, LateOnly

\* For any nesting of blocking calls and callbacks: only a polling call has something above it,
\* a call that blocks above another has marked it, ejs->joining holds for every unmarked join
\* that polls, and a preloaded worker has not been started.
THEOREM StackCorrect == Spec => []StackAgrees
<1>1. TypeOK /\ Lifecycle /\ LinkedWhileListed /\ StackAgrees /\ [Next]_vars => StackAgrees'
  <2>1. StackAgrees /\ UNCHANGED vars => StackAgrees'
    BY DEF vars, program, StackAgrees, FrameAgrees
  <2> QED
    BY <2>1, StackStep
<1> QED
  BY <1>1, StackInit, TypeCorrect, LifecycleCorrect, ListedAndLinked, PTL DEF Spec

\* For any number of workers and messages: behind the onclose of a worker, or while its
\* callback runs, nothing of that worker is queued but a message posted late.
THEOREM LateOnlyCorrect == Spec => []LateOnly
<1>1. TypeOK /\ Lifecycle /\ StackAgrees /\ LateOnly /\ [Next]_vars => LateOnly'
  <2>1. LateOnly /\ UNCHANGED vars => LateOnly'
    BY DEF vars, program, LateOnly, IsLate
  <2> QED
    BY <2>1, LateOnlyStep
<1> QED
  BY <1>1, StackInit, TypeCorrect, LifecycleCorrect, StackCorrect, PTL DEF Spec

\* For any number of workers and messages: the onclose of a worker is the last message that
\* its outside worker gets, unless a toJSON() kept a post of its own from being made in time.
THEOREM CloseIsLastCorrect == Spec => []CloseIsLast
  BY LateOnlyCorrect, LateOnlyIsLast, PTL

\* For any number of workers and messages: a message is queued only for a worker that exists.
THEOREM QueuedExistCorrect == Spec => []QueuedExist
<1>1. TypeOK /\ Lifecycle /\ StackAgrees /\ QueuedExist /\ [Next]_vars => QueuedExist'
  <2>1. QueuedExist /\ UNCHANGED vars => QueuedExist'
    BY DEF vars, program, QueuedExist
  <2> QED
    BY <2>1, QueuedExistStep
<1> QED
  BY <1>1, StackInit, TypeCorrect, LifecycleCorrect, StackCorrect, PTL DEF Spec

-----------------------------------------------------------------------------
(***************************************************************************)
(* A join that succeeds.                                                   *)
(***************************************************************************)

\* Activity i is a join about to return true, in which nothing else blocked
Succeeds(i) == stack[i].kind \in Joins /\ stack[i].phase = "true" /\ ~stack[i].nested

\* No join comes to return true, and the completed workers stay completed
SuccessKept ==
    \A i \in 1..Len(stack') : Succeeds(i)' =>
        i \in 1..Len(stack) /\ Succeeds(i) /\ stack'[i].ws = stack[i].ws

CompleteKept ==
    \A v \in Workers : outside[v].state = "COMPLETE" => outside'[v].state = "COMPLETE"

LEMMA CompleteStays == ASSUME TypeOK, Lifecycle, Next PROVE CompleteKept
<1>1. CASE ejsDestroyVM
  BY <1>1, OutsideDestroy DEF CompleteKept
<1>2. CASE OutsideKept
  BY <1>2 DEF CompleteKept, OutsideKept, SameWorker
<1>3. ASSUME NEW w \in Workers, Moves(w, "BEGIN", "STARTED") \/ Moves(w, "STARTED", "CLOSED")
      PROVE  CompleteKept
  BY <1>3 DEF Moves, CompleteKept, SameWorker
<1>4. ASSUME NEW w \in Workers, Creates(w) \/ Completes(w) PROVE CompleteKept
  BY <1>4 DEF Creates, Completes, CompleteKept, SameWorker
<1> QED
  BY <1>1, <1>2, <1>3, <1>4, OutsideSteps

\* The workers an activity waits for are workers
LEMMA FrameWorkers ==
    ASSUME TypeOK, NEW i \in 1..Len(stack) PROVE \A w \in stack[i].ws : w \in Workers
<1>1. stack[i] \in Frame
  BY DEF TypeOK
<1> QED
  BY <1>1 DEF Frame

LEMMA JoinStays ==
    ASSUME TypeOK, JoinSound, CompleteKept, SuccessKept, ~exception' => ~exception
    PROVE  JoinSound'
BY FrameWorkers DEF JoinSound, CompleteKept, SuccessKept, Succeeds

\* Only the innermost activity can be a join about to return
LEMMA SuccessOnTop ==
    ASSUME TypeOK, StackAgrees, stack # <<>>, Top.kind \notin Joins \/ Top.phase # "true",
           NEW i \in 1..Len(stack)
    PROVE  ~Succeeds(i)
<1>1. PICK n \in Nat : n = Len(stack)
  BY DEF TypeOK
<1>2. CASE i = n
  BY <1>1, <1>2 DEF Top, Succeeds
<1>3. CASE i < n
  BY <1>1, <1>3 DEF StackAgrees, FrameAgrees, Succeeds, Waits
<1> QED
  BY <1>1, <1>2, <1>3

LEMMA NoneSucceeds ==
    ASSUME \A i \in 1..Len(stack') : ~Succeeds(i)' PROVE JoinSound'
BY DEF JoinSound, Succeeds

LEMMA SuccessSame == ASSUME UNCHANGED stack PROVE SuccessKept
BY DEF SuccessKept, Succeeds

LEMMA SuccessBelow == ASSUME TypeOK, stack # <<>>, stack' = Below PROVE SuccessKept
<1>1. \A i \in 1..Len(stack') : i \in 1..Len(stack) /\ stack'[i] = stack[i]
  BY BelowFrames DEF TypeOK
<1> QED
  BY <1>1 DEF SuccessKept, Succeeds

LEMMA SuccessBlock ==
    ASSUME TypeOK, NEW kind, NEW ws, NEW timed, Block(kind, ws, timed) PROVE SuccessKept
<1>1. PICK f : f = Activity(kind, ws, "none", timed)
  OBVIOUS
<1>2. f.phase # "true"
  BY <1>1 DEF Activity
<1>3. PICK n \in Nat : n = Len(stack)
  BY DEF TypeOK
<1>4. /\ Len(stack') = n + 1 /\ stack'[n + 1] = f
      /\ \A i \in 1..n : SameActivity(stack[i], stack'[i]) /\ stack'[i].phase = stack[i].phase
  BY <1>1, <1>3, BlockFrames DEF TypeOK
<1>5. \A i \in 1..Len(stack') : i \in 1..n \/ i = n + 1
  BY <1>4
<1> QED
  BY <1>2, <1>3, <1>4, <1>5 DEF SuccessKept, Succeeds, SameActivity

LEMMA SuccessPush ==
    ASSUME TypeOK, NEW ws, stack' = Append(stack, Activity("json", ws, "none", FALSE))
    PROVE  SuccessKept
<1>1. PICK f : f = Activity("json", ws, "none", FALSE)
  OBVIOUS
<1>2. f.phase # "true"
  BY <1>1 DEF Activity, Joins
<1>3. PICK n \in Nat : n = Len(stack)
  BY DEF TypeOK
<1>4. stack \in Seq(Frame) /\ stack' = Append(stack, f)
  BY <1>1 DEF TypeOK
<1>5. Len(stack') = n + 1 /\ stack'[n + 1] = f /\ \A i \in 1..n : stack'[i] = stack[i]
  <2>1. Pushed(stack, stack', f, n)
    BY <1>3, <1>4, PushFrames
  <2> QED
    BY <2>1 DEF Pushed
<1>6. \A i \in 1..Len(stack') : i \in 1..n \/ i = n + 1
  BY <1>5
<1> QED
  BY <1>2, <1>3, <1>5, <1>6 DEF SuccessKept, Succeeds

LEMMA SuccessDispatch == ASSUME TypeOK, doMessage PROVE SuccessKept
<1>1. PICK D \in Seq(Frame) : D = Dispatching
  BY DispatchingFrames DEF TypeOK
<1>2. PICK n \in Nat : n = Len(stack)
  BY DEF TypeOK
<1>3. /\ Len(D) = n
      /\ \A k \in 1..n : SameActivity(stack[k], D[k]) /\ D[k].phase = stack[k].phase
  BY <1>1, <1>2, DispatchingFrames DEF TypeOK
<1>4. PICK new : /\ new.phase # "true"
                 /\ stack' = D \/ stack' = Append(D, new)
  <2>1. PICK new : new = Activity("msg", {Head(outQ).worker}, Head(outQ).slot, FALSE)
    OBVIOUS
  <2>2. new.phase # "true"
    BY <2>1 DEF Activity
  <2> QED
    BY <1>1, <2>1, <2>2 DEF doMessage
<1>5. CASE stack' = D
  BY <1>2, <1>3, <1>5 DEF SuccessKept, Succeeds, SameActivity
<1>6. CASE stack' = Append(D, new)
  <2>1. Len(stack') = n + 1 /\ stack'[n + 1] = new /\ \A k \in 1..n : stack'[k] = D[k]
    BY <1>3, <1>6
  <2>2. \A i \in 1..Len(stack') : i \in 1..n \/ i = n + 1
    BY <2>1
  <2> QED
    BY <1>2, <1>3, <1>4, <2>1, <2>2 DEF SuccessKept, Succeeds, SameActivity
<1> QED
  BY <1>4, <1>5, <1>6

\* A new top that does not succeed
LEMMA SuccessRetop ==
    ASSUME TypeOK, StackAgrees, stack # <<>>, Top.phase # "true", NEW f, Retop(f),
           f.kind \notin Joins \/ f.phase # "true" \/ f.nested
    PROVE  JoinSound'
<1>1. PICK n \in Nat : n = Len(stack)
  BY DEF TypeOK
<1>2. /\ Len(stack') = n /\ stack'[n] = f
      /\ \A i \in 1..n : i # n => stack'[i] = stack[i]
  BY <1>1, RetopFrames DEF TypeOK
<1>3. \A i \in 1..n : ~Succeeds(i)
  BY <1>1, SuccessOnTop
<1>4. \A i \in 1..Len(stack') : ~Succeeds(i)'
  BY <1>2, <1>3 DEF Succeeds
<1> QED
  BY <1>4, NoneSucceeds

\* reapJoins answers for the workers the join was made for.  For a join of all it looks at
\* the list as it is now: a worker that has left the list is COMPLETE.
LEMMA ReapedAreComplete ==
    ASSUME TypeOK, StackAgrees, LinkedWhileListed, ~destroyed, NEW i \in 1..Len(stack),
           stack[i].kind \in Joins, reapJoins(stack[i])
    PROVE  \A w \in stack[i].ws : outside[w].state = "COMPLETE"
<1> SUFFICES ASSUME NEW w \in stack[i].ws PROVE outside[w].state = "COMPLETE"
  OBVIOUS
<1>1. w \in Workers
  BY FrameWorkers
<1>2. CASE stack[i].kind # "joinAll"
  BY <1>2 DEF reapJoins
<1>3. CASE stack[i].kind = "joinAll"
  <2>1. w \in Listed => outside[w].state = "COMPLETE"
    BY <1>3 DEF reapJoins
  <2>2. ListAgrees(w) /\ outside[w] \in Outside
    BY <1>1, LinkedParts DEF TypeOK
  <2>3. outside[w].state # "NONE"
    BY DEF StackAgrees, FrameAgrees
  <2> QED
    BY <2>1, <2>2, <2>3 DEF ListAgrees, Live, Outside, States
<1> QED
  BY <1>2, <1>3

LEMMA JoinLoopSound ==
    ASSUME TypeOK, Lifecycle, StackAgrees, LinkedWhileListed, JoinSound, CompleteKept,
           OuterLoop
    PROVE  JoinSound'
<1>0. ASSUME stack # <<>> PROVE Top \in Frame
  BY <1>0, TopType DEF TypeOK
<1>1. CASE JoinChecks
  <2>0. stack # <<>> /\ Top.kind \in Joins /\ Top.phase = "check" /\ ~destroyed
    BY <1>1 DEF JoinChecks, Blocked, Alive
  <2>1. PICK p, d : /\ p = IF reapJoins(Top) THEN "true" ELSE "poll"
                    /\ d = FALSE
    OBVIOUS
  <2>2. PICK f : f = [Top EXCEPT !.phase = p, !.dispatched = d]
    OBVIOUS
  <2>3. Retop(f)
    BY <1>1, <2>1, <2>2 DEF JoinChecks
  <2>4. SameActivity(Top, f) /\ f.phase = p
    BY <1>0, <2>0, <2>2 DEF Frame, SameActivity
  <2>5. CASE ~reapJoins(Top)
    BY <2>0, <2>1, <2>3, <2>4, <2>5, SuccessRetop
  <2>6. CASE reapJoins(Top)
    <3>1. PICK n \in Nat : n = Len(stack)
      BY DEF TypeOK
    <3>2. n \in 1..Len(stack) /\ Top = stack[n]
      BY <2>0, <3>1 DEF TypeOK, Top
    <3>3. \A w \in Top.ws : outside[w].state = "COMPLETE"
      BY <2>0, <2>6, <3>2, ReapedAreComplete
    <3>4. /\ Len(stack') = n /\ stack'[n] = f
          /\ \A i \in 1..n : i # n => stack'[i] = stack[i]
      BY <2>0, <2>3, <3>1, RetopFrames DEF TypeOK
    <3>5. \A i \in 1..n : ~Succeeds(i)
      BY <2>0, <3>1, SuccessOnTop
    <3>6. \A i \in 1..Len(stack') : i # n => ~Succeeds(i)'
      BY <3>4, <3>5 DEF Succeeds
    <3>7. \A w \in stack'[n].ws : outside'[w].state = "COMPLETE"
      BY <2>4, <3>2, <3>3, <3>4, FrameWorkers DEF SameActivity, CompleteKept
    <3> QED
      BY <3>6, <3>7 DEF JoinSound, Succeeds
  <2> QED
    BY <2>5, <2>6
<1>2. CASE JoinPolls
  <2>0. stack # <<>> /\ Top.kind \in Joins /\ Top.phase = "poll" /\ exception' = exception
    BY <1>2 DEF JoinPolls, Blocked
  <2>1. CASE exception
    BY <2>0, <2>1 DEF JoinSound
  <2>2. CASE ~exception
    <3>1. PICK p, f : /\ f = [Top EXCEPT !.phase = p] /\ Retop(f)
                      /\ p = "true" => ~joining
      BY <1>2, <2>2 DEF JoinPolls
    <3>2. SameActivity(Top, f) /\ f.phase = p
      BY <1>0, <2>0, <3>1 DEF Frame, SameActivity
    <3>3. FrameAgrees(Len(stack))
      BY <2>0 DEF StackAgrees, TypeOK
    <3>4. Top.nested \/ joining
      BY <2>0, <3>3 DEF FrameAgrees, Top
    <3>5. f.phase # "true" \/ f.nested
      BY <3>1, <3>2, <3>4 DEF SameActivity
    <3> QED
      BY <2>0, <3>1, <3>5, SuccessRetop
  <2> QED
    BY <2>1, <2>2
<1>3. CASE WaitPolls
  <2>1. stack # <<>> /\ Top.kind = "wait" /\ Top.phase = "poll"
    BY <1>3 DEF WaitPolls, Blocked
  <2>5. PICK p, d : p = "true" /\ d = FALSE
    OBVIOUS
  <2>2. PICK f : /\ Retop(f)
                 /\ \/ f = [Top EXCEPT !.phase = p]
                    \/ f = [Top EXCEPT !.dispatched = d]
    BY <1>3, <2>5 DEF WaitPolls
  <2>3. SameActivity(Top, f)
    BY <1>0, <2>1, <2>2 DEF Frame, SameActivity
  <2>4. f.kind \notin Joins
    BY <2>1, <2>3 DEF SameActivity, Joins
  <2> QED
    BY <2>1, <2>2, <2>4, SuccessRetop
<1>4. CASE CallReturns \/ CallbackReturns
  <2>1. SuccessKept /\ exception' = exception
    BY <1>4, SuccessBelow DEF CallReturns, Blocked, CallbackReturns, InCode
  <2> QED
    BY <2>1, JoinStays
<1>5. CASE doMessage
  <2>1. SuccessKept
    BY <1>5, SuccessDispatch
  <2>2. ~exception' => ~exception
    BY <1>5 DEF doMessage
  <2> QED
    BY <2>1, <2>2, JoinStays
<1>6. CASE MessageTooLate
  <2>1. SuccessKept /\ exception' = exception
    BY <1>6, SuccessSame DEF MessageTooLate, Crash
  <2> QED
    BY <2>1, JoinStays
<1> QED
  BY <1>1, <1>2, <1>3, <1>4, <1>5, <1>6 DEF OuterLoop

LEMMA JoinStep ==
    ASSUME TypeOK, Lifecycle, StackAgrees, LinkedWhileListed, JoinSound, Next PROVE JoinSound'
<1>0. CompleteKept
  BY CompleteStays
<1>1. CASE OuterCode
  <2>1. CASE RunScript
    <3>1. PICK f : f = Activity("script", {}, "none", FALSE)
      OBVIOUS
    <3>2. f.kind = "script"
      BY <3>1 DEF Activity
    <3>3. stack' = <<f>>
      BY <2>1, <3>1 DEF RunScript
    <3>4. \A i \in 1..Len(stack') : ~Succeeds(i)'
      BY <3>2, <3>3 DEF Succeeds, Joins
    <3> QED
      BY <3>4, NoneSucceeds
  <2>2. CASE TimerClears
    <3>1. 1..Len(stack') = {}
      BY <2>2 DEF TimerClears
    <3> QED
      BY <3>1, NoneSucceeds
  <2>3. CASE ThrowOrCatch \/ ScriptReturns
    <3>1. stack # <<>> /\ Top.kind \notin Joins
      BY <2>3 DEF ThrowOrCatch, ScriptReturns, InCode, Code, Joins
    <3>2. SuccessKept
      BY <2>3, <3>1, SuccessSame, SuccessBelow DEF ThrowOrCatch, ScriptReturns
    <3>3. \A i \in 1..Len(stack') : ~Succeeds(i)'
      BY <3>1, <3>2, SuccessOnTop DEF SuccessKept
    <3> QED
      BY <3>3, NoneSucceeds
  <2> QED
    BY <1>1, <2>1, <2>2, <2>3 DEF OuterCode
<1>2. CASE OuterJoin
  <2>1. SuccessKept /\ exception' = exception
    BY <1>2, SuccessBlock DEF OuterJoin, workerJoin
  <2> QED
    BY <1>0, <2>1, JoinStays
<1>3. CASE ejsDestroyVM
  <2>1. SuccessKept /\ exception' = exception
    BY <1>3, SuccessSame DEF ejsDestroyVM
  <2> QED
    BY <1>0, <2>1, JoinStays
<1>4. ASSUME NEW w \in Workers, OuterCall(w) PROVE JoinSound'
  <2>1. \/ UNCHANGED stack
        \/ stack # <<>> /\ stack' = Below
        \/ \E kind, timed : Block(kind, {w}, timed)
        \/ stack' = Append(stack, Activity("json", {w}, "none", FALSE))
    BY <1>4 DEF OuterCall, workerConstructor, workerClone, startWorker, workerPostMessage,
                PostsMessage, InCode, workerTerminate, workerPreload, PreloadReturns,
                workerWaitForMessage
  <2>2. exception' = exception \/ exception' = TRUE
    BY <1>4 DEF OuterCall, workerConstructor, workerClone, startWorker, workerPostMessage,
                PostsMessage, workerTerminate, workerPreload, PreloadReturns,
                workerWaitForMessage, Throw
  <2>3. SuccessKept
    BY <2>1, SuccessSame, SuccessBelow, SuccessBlock, SuccessPush
  <2> QED
    BY <1>0, <2>2, <2>3, JoinStays
<1>5. ASSUME NEW w \in Workers, Inner(w) PROVE JoinSound'
  <2>1. UNCHANGED stack
    BY <1>5 DEF Inner, workerMain, InsidePost, InsidePostWaits, InsidePostResumes, workerExit,
             InsideMessage, InsideMessageDone, Crash, ScriptEnds, handleError, CloseInside,
             CloseOutside, PostClose, CollectInside, InsideStep
  <2>2. exception' = exception \/ exception' = TRUE
    BY <1>5 DEF Inner, workerMain, InsidePost, InsidePostWaits, InsidePostResumes, workerExit,
             InsideMessage, InsideMessageDone, Crash, ScriptEnds, handleError, CloseInside,
             CloseOutside, PostClose, CollectInside, InsideStep,
             Throw
  <2> QED
    BY <1>0, <2>1, <2>2, SuccessSame, JoinStays
<1> QED
  BY <1>0, <1>1, <1>2, <1>3, <1>4, <1>5, JoinLoopSound DEF Next

\* For any nesting and any number of workers: a join() or eval() about to return true, in which
\* nothing else blocked and with no exception pending, has only COMPLETE workers (none, if it
\* was given none).
THEOREM JoinSoundCorrect == Spec => []JoinSound
<1>1. Init => JoinSound
  <2> SUFFICES ASSUME Init PROVE JoinSound
    OBVIOUS
  <2>1. 1..Len(stack) = {}
    BY DEF Init
  <2> QED
    BY <2>1 DEF JoinSound
<1>2. TypeOK /\ Lifecycle /\ StackAgrees /\ LinkedWhileListed /\ JoinSound /\ [Next]_vars
        => JoinSound'
  <2>1. JoinSound /\ UNCHANGED vars => JoinSound'
    BY DEF vars, program, JoinSound
  <2> QED
    BY <2>1, JoinStep
<1> QED
  BY <1>1, <1>2, TypeCorrect, LifecycleCorrect, StackCorrect, ListedAndLinked, PTL DEF Spec

-----------------------------------------------------------------------------
(***************************************************************************)
(* The crashes.                                                            *)
(***************************************************************************)

\* A NULL dereference of f by a worker that is not linked
Dereferences(f, w) ==
    /\ fault' = f /\ destroyed' = destroyed
    /\ ~outside[w].linked \/ destroyed
    /\ outside' = outside

LEMMA FaultSteps ==
    ASSUME TypeOK, Next
    PROVE  \/ fault' = "none"
           \/ \E w \in Workers : \/ workerMain(w) /\ Dereferences("workerMain", w)
                                 \/ handleError(w) /\ Dereferences("handleError", w)
                                 \/ InsidePost(w) /\ Dereferences("postInside", w)
                                 \/ InsidePostResumes(w) /\ Dereferences("postMessage", w)
                                 \/ InsideMessage(w) /\ Dereferences("doMessage", w)
                                 \/ MessageTooLate /\ Head(outQ).worker = w
                                       /\ Dereferences("doMessage", w)
                                 \/ w \in Created /\ Dereferences("postMessage", w)
                                 \/ w \in Created /\ Dereferences("clone", w)
<1> USE DEF program, Alive, Running
<1>1. CASE OuterCode
  BY <1>1 DEF OuterCode, RunScript, TimerClears, ThrowOrCatch, ScriptReturns, InCode
<1>2. CASE OuterJoin
  BY <1>2 DEF OuterJoin, workerJoin, Calling, InCode
<1>3. CASE OuterLoop
  <2>1. CASE MessageTooLate
    <3>1. outQ \in Seq(Message) /\ outQ # <<>>
      BY <2>1 DEF MessageTooLate, CanDispatch, TypeOK
    <3>2. Head(outQ) \in Message
      BY <3>1
    <3>3. PICK w \in Workers : w = Head(outQ).worker
      BY <3>2 DEF Message
    <3> QED
      BY <2>1, <3>3 DEF MessageTooLate, Crash, Dereferences
  <2> QED
    BY <1>3, <2>1 DEF OuterLoop, JoinChecks, JoinPolls, WaitPolls, CallReturns, doMessage,
              CanDispatch, CallbackReturns, Blocked, InCode
<1>4. CASE ejsDestroyVM
  BY <1>4 DEF ejsDestroyVM
<1>8. ASSUME NEW w \in Workers, PostsMessage(w)
      PROVE  fault' = "none" \/ (w \in Created /\ Dereferences("postMessage", w))
  BY <1>8 DEF PostsMessage, InCode, Dereferences
<1>5. ASSUME NEW w \in Workers, OuterCall(w), ~PostsMessage(w),
             ~\E base \in Workers : workerClone(base, w)
      PROVE  fault' = "none"
  BY <1>5 DEF OuterCall, workerConstructor, startWorker, workerPostMessage, workerTerminate,
              workerPreload, PreloadReturns, workerWaitForMessage, Calling, InCode
<1>6. ASSUME NEW w \in Workers, NEW base \in Workers, workerClone(base, w)
      PROVE  fault' = "none" \/ (base \in Created /\ Dereferences("clone", base))
  <2>1. fault = "none" /\ base \in Created /\ destroyed' = destroyed
    BY <1>6 DEF workerClone, Calling, InCode
  <2>2. \/ fault' = fault
        \/ ~outside[base].linked /\ fault' = "clone" /\ outside' = outside
    BY <1>6 DEF workerClone
  <2> QED
    BY <2>1, <2>2 DEF Dereferences
<1>7. ASSUME NEW w \in Workers, Inner(w)
      PROVE  \/ fault' = "none"
             \/ workerMain(w) /\ Dereferences("workerMain", w)
             \/ handleError(w) /\ Dereferences("handleError", w)
             \/ InsidePost(w) /\ Dereferences("postInside", w)
             \/ InsidePostResumes(w) /\ Dereferences("postMessage", w)
             \/ InsideMessage(w) /\ Dereferences("doMessage", w)
  <2>1. CASE workerMain(w)
    BY <2>1 DEF workerMain, InsideStep, Crash, Dereferences
  <2>2. CASE handleError(w)
    BY <2>2 DEF handleError, Crash, Dereferences
  <2>3. CASE InsidePost(w)
    BY <2>3 DEF InsidePost, Crash, Dereferences
  <2>4. CASE InsideMessage(w)
    BY <2>4 DEF InsideMessage, InsideStep, Crash, Dereferences
  <2>5. CASE InsidePostResumes(w)
    BY <2>5 DEF InsidePostResumes, Crash, Dereferences
  <2> QED
    BY <1>7, <2>1, <2>2, <2>3, <2>4, <2>5 DEF Inner, InsidePostWaits, workerExit,
       InsideMessageDone, ScriptEnds, CloseInside, CloseOutside, PostClose, CollectInside,
       InsideStep
<1> QED
  BY <1>1, <1>2, <1>3, <1>4, <1>5, <1>6, <1>7, <1>8 DEF Next

\* Of the workers the interpreter knows, the unlinked ones are the COMPLETE ones
LEMMA UnlinkedIsComplete ==
    ASSUME TypeOK, LinkedWhileListed, ~destroyed, NEW w \in Workers, ~outside[w].linked
    PROVE  outside[w].state \in {"NONE", "COMPLETE"}
<1>1. ListAgrees(w) /\ outside[w] \in Outside
  BY LinkedParts DEF TypeOK
<1> QED
  BY <1>1 DEF ListAgrees, Live, Outside, States

LEMMA CrashStep ==
    ASSUME TypeOK, Lifecycle, StackAgrees, LinkedWhileListed, QueuedExist, Next
    PROVE  CrashNeedsTeardown'
<1>1. CASE fault' = "none"
  BY <1>1 DEF CrashNeedsTeardown
<1>2. ASSUME NEW w \in Workers, workerMain(w) \/ handleError(w) \/ InsidePost(w),
             NEW f, Dereferences(f, w)
      PROVE  CrashNeedsTeardown'
  <2>1. destroyed
    BY <1>2, MainIsLinked, PostIsLinked, UnlinkedIsComplete DEF Dereferences
  <2> QED
    BY <1>2, <2>1 DEF Dereferences, CrashNeedsTeardown
<1>4. ASSUME NEW w \in Workers, InsideMessage(w) \/ InsidePostResumes(w)
      PROVE  w \in Created
  <2>1. StatesAgree(w) /\ inside[w] \in Inside
    BY DEF Lifecycle, TypeOK
  <2>2. inside[w].queue # <<>> \/ inside[w].pc = "msg"
    BY <1>4 DEF InsideMessage, InsidePostResumes
  <2> QED
    BY <2>1, <2>2 DEF StatesAgree, Inside, States, Created
<1>5. ASSUME NEW w \in Workers, MessageTooLate, Head(outQ).worker = w PROVE w \in Created
  <2>1. outQ \in Seq(Message) /\ outQ # <<>>
    BY <1>5 DEF MessageTooLate, CanDispatch, TypeOK
  <2>2. 1 \in 1..Len(outQ) /\ outQ[1] = Head(outQ)
    BY <2>1
  <2> QED
    BY <1>5, <2>2 DEF QueuedExist, Created
<1>3. ASSUME NEW w \in Workers, w \in Created, NEW f, Dereferences(f, w),
             f \in {"doMessage", "clone", "postMessage"}
      PROVE  CrashNeedsTeardown'
  <2>2. destroyed \/ outside[w].state = "COMPLETE"
    BY <1>3, UnlinkedIsComplete DEF Dereferences, Created
  <2>3. destroyed' \/ outside'[w].state = "COMPLETE"
    BY <1>3, <2>2 DEF Dereferences
  <2> QED
    BY <1>3, <2>3 DEF Dereferences, CrashNeedsTeardown
<1> QED
  BY <1>1, <1>2, <1>3, <1>4, <1>5, FaultSteps

\* For any number of workers: a NULL dereference in workerMain, in handleError or in a post of
\* the worker's script happens only after the interpreter was destroyed; one in doMessage, in
\* clone() or in a postMessage() whose data ran code only then or once a worker is COMPLETE.
THEOREM CrashNeedsTeardownCorrect == Spec => []CrashNeedsTeardown
<1>1. Init => CrashNeedsTeardown
  BY DEF Init, CrashNeedsTeardown
<1>2. TypeOK /\ Lifecycle /\ StackAgrees /\ LinkedWhileListed /\ QueuedExist
        /\ CrashNeedsTeardown /\ [Next]_vars => CrashNeedsTeardown'
  <2>1. CrashNeedsTeardown /\ UNCHANGED vars => CrashNeedsTeardown'
    BY DEF vars, program, CrashNeedsTeardown
  <2> QED
    BY <2>1, CrashStep
<1> QED
  BY <1>1, <1>2, TypeCorrect, LifecycleCorrect, StackCorrect, ListedAndLinked,
     QueuedExistCorrect, PTL DEF Spec

-----------------------------------------------------------------------------
(***************************************************************************)
(* The error that ended a script is dispatched.                            *)
(***************************************************************************)

\* An error that ended a script is still to be posted, or posted and not yet dispatched -
\* unless the interpreter is gone
ErrorQueued(w) == \E k \in 1..Len(outQ) : outQ[k].worker = w /\ outQ[k].slot = "onerror"

ErrorAgrees(w) ==
    inside[w].failure = "raised" => inside[w].pc = "error" \/ ErrorQueued(w) \/ destroyed

ErrorsAgree == \A w \in Workers : ErrorAgrees(w)

LEMMA QueuedByPost ==
    ASSUME TypeOK, NEW w \in Workers, QueueOutside(w, "onerror"), ~destroyed
    PROVE  ErrorQueued(w)'
<1>1. PICK n \in Nat : n = Len(outQ)
  BY DEF TypeOK
<1>2. PICK m : m = [worker |-> w, slot |-> "onerror"]
  OBVIOUS
<1>3. m.worker = w /\ m.slot = "onerror"
  BY <1>2
<1>4. outQ' = Append(outQ, m) /\ outQ \in Seq(Message)
  BY <1>2 DEF QueueOutside, TypeOK
<1>5. Len(outQ') = n + 1 /\ outQ'[n + 1] = m
  BY <1>1, <1>4
<1>6. n + 1 \in 1..Len(outQ')
  BY <1>5
<1> QED
  BY <1>3, <1>5, <1>6 DEF ErrorQueued

LEMMA QueuedStays ==
    ASSUME TypeOK, Lifecycle, StackAgrees, Next, ~doMessage, NEW v \in Workers, ErrorQueued(v)
    PROVE  ErrorQueued(v)' \/ destroyed'
<1>1. CASE outQ' = outQ
  BY <1>1 DEF ErrorQueued
<1>2. ASSUME NEW w \in Workers, NEW slot \in Slots, Queues(w, slot), outQ' # outQ
      PROVE  ErrorQueued(v)'
  <2>1. PICK n \in Nat : n = Len(outQ)
    BY DEF TypeOK
  <2>2. PICK m : outQ' = Append(outQ, m)
    BY <1>2 DEF Queues, QueueOutside
  <2>3. Len(outQ') = n + 1 /\ \A k \in 1..n : k \in 1..(n + 1) /\ outQ'[k] = outQ[k]
    BY <2>1, <2>2 DEF TypeOK
  <2> QED
    BY <2>1, <2>3 DEF ErrorQueued
<1> QED
  BY <1>1, <1>2, QueueGrows

LEMMA ErrorStep ==
    ASSUME TypeOK, Lifecycle, StackAgrees, ErrorsAgree, Next PROVE ErrorsAgree'
<1> SUFFICES ASSUME NEW v \in Workers, inside'[v].failure = "raised", inside'[v].pc # "error",
                    ~destroyed'
             PROVE  ErrorQueued(v)'
  BY DEF ErrorsAgree, ErrorAgrees
<1>0. ~destroyed /\ ErrorAgrees(v)
  BY StaysDestroyed DEF ErrorsAgree
<1>1. CASE ~doMessage
  <2>1. InsideKept(v)
    BY <1>1, InsideSteps
  <2>2. inside[v].failure = "raised" /\ (inside[v].pc = "error" => QueueOutside(v, "onerror"))
    BY <2>1 DEF InsideKept
  <2>3. CASE inside[v].pc = "error"
    BY <1>0, <2>2, <2>3, QueuedByPost
  <2>4. CASE ErrorQueued(v)
    BY <1>1, <2>4, QueuedStays
  <2> QED
    BY <1>0, <2>2, <2>3, <2>4 DEF ErrorAgrees
<1>2. CASE doMessage
  <2>1. ErrorQueued(v)
    BY <1>0, <1>2, DispatchInside DEF ErrorAgrees
  <2>0. outQ \in Seq(Message) /\ outQ # <<>> /\ outQ' = Tail(outQ)
    BY <1>2 DEF doMessage, CanDispatch, TypeOK
  <2>2. PICK n \in Nat : n = Len(outQ)
    BY <2>0
  <2>3. PICK k \in 1..n : outQ[k].worker = v /\ outQ[k].slot = "onerror"
    BY <2>1, <2>2 DEF ErrorQueued
  <2>4. outQ[1] = Head(outQ)
    BY <2>0
  <2>5. k # 1
    BY <1>2, <2>3, <2>4, DispatchInside
  <2>6. k - 1 \in 1..(n - 1) /\ (k - 1) + 1 = k
    BY <2>5
  <2>7. Len(outQ') = n - 1 /\ \A i \in 1..(n - 1) : outQ'[i] = outQ[i + 1]
    BY <2>0, <2>2
  <2>8. k - 1 \in 1..Len(outQ') /\ outQ'[k - 1] = outQ[k]
    BY <2>6, <2>7
  <2> QED
    BY <2>3, <2>8 DEF ErrorQueued
<1> QED
  BY <1>1, <1>2

\* When onclose ends, the error is no longer pending: workerMain is over, and no error of the
\* worker is queued behind its onclose
LEMMA ClosedWithoutError ==
    ASSUME TypeOK, Lifecycle, LateOnly, ErrorsAgree, NEW w \in Workers, ClosesNow(w)
    PROVE  inside[w].failure # "raised" /\ inside[w].pc # "main"
<1>1. CASE doMessage /\ Head(outQ).worker = w /\ Head(outQ).slot = "onclose"
  <2>0. outQ \in Seq(Message) /\ outQ # <<>>
    BY <1>1 DEF doMessage, CanDispatch, TypeOK
  <2>1. PICK n \in Nat : n = Len(outQ) /\ n > 0 /\ outQ[1] = Head(outQ)
    BY <2>0
  <2>2. 1 \in 1..n
    BY <2>1
  <2>3. ClosePending(w)
    BY <1>1, <2>1, <2>2 DEF ClosePending
  <2>4. ~ErrorQueued(w)
    <3>1. ASSUME NEW k \in 1..n, outQ[k].worker = w, outQ[k].slot = "onerror" PROVE FALSE
      <4>1. k # 1
        BY <1>1, <2>1, <3>1
      <4>2. 1 < k
        BY <4>1
      <4> QED
        BY <1>1, <2>1, <2>2, <3>1, <4>2 DEF LateOnly, IsLate
    <3> QED
      BY <2>1, <3>1 DEF ErrorQueued
  <2>5. ~destroyed
    BY <1>1 DEF doMessage, CanDispatch, Alive
  <2>6. inside[w].state = "CLOSED" /\ StatesAgree(w) /\ ErrorAgrees(w)
    BY <2>3 DEF Lifecycle, CloseAgrees, ErrorsAgree
  <2> QED
    BY <2>4, <2>5, <2>6 DEF StatesAgree, ErrorAgrees
<1>2. CASE CallbackReturns /\ w \in Top.ws /\ Top.slot = "onclose"
  <2>1. PICK n \in Nat : n = Len(stack) /\ n > 0 /\ Top = stack[n]
    BY <1>2 DEF CallbackReturns, InCode, TypeOK, Top
  <2>2. n \in 1..Len(stack)
    BY <2>1
  <2>3. ClosePending(w)
    BY <1>2, <2>1, <2>2 DEF ClosePending
  <2>4. ~ErrorQueued(w)
    BY <1>2, <2>1, <2>2 DEF ErrorQueued, LateOnly, IsLate
  <2>5. ~destroyed
    BY <1>2 DEF CallbackReturns, InCode, Alive
  <2>6. inside[w].state = "CLOSED" /\ StatesAgree(w) /\ ErrorAgrees(w)
    BY <2>3 DEF Lifecycle, CloseAgrees, ErrorsAgree
  <2> QED
    BY <2>4, <2>5, <2>6 DEF StatesAgree, ErrorAgrees
<1> QED
  BY <1>1, <1>2 DEF ClosesNow

\* A step completes a worker only by ending its onclose
LEMMA NewlyComplete ==
    ASSUME TypeOK, Lifecycle, Next, NEW v \in Workers, outside'[v].state = "COMPLETE"
    PROVE  outside[v].state = "COMPLETE" \/ ClosesNow(v)
<1>1. CASE ejsDestroyVM
  BY <1>1, OutsideDestroy
<1>2. CASE OutsideKept
  BY <1>2 DEF OutsideKept, SameWorker
<1>3. ASSUME NEW w \in Workers, Moves(w, "BEGIN", "STARTED") \/ Moves(w, "STARTED", "CLOSED")
      PROVE  outside[v].state = "COMPLETE"
  BY <1>3 DEF Moves, SameWorker
<1>4. ASSUME NEW w \in Workers, Creates(w) PROVE outside[v].state = "COMPLETE"
  BY <1>4 DEF Creates, SameWorker
<1>5. ASSUME NEW w \in Workers, Completes(w) PROVE outside[v].state = "COMPLETE" \/ ClosesNow(v)
  BY <1>5 DEF Completes, SameWorker
<1> QED
  BY <1>1, <1>2, <1>3, <1>4, <1>5, OutsideSteps

LEMMA ErrorBeforeStep ==
    ASSUME TypeOK, Lifecycle, LateOnly, ErrorsAgree, ErrorBeforeComplete, Next
    PROVE  ErrorBeforeComplete'
<1> SUFFICES ASSUME NEW v \in Workers, outside'[v].state = "COMPLETE",
                    inside'[v].failure = "raised"
             PROVE  FALSE
  BY DEF ErrorBeforeComplete
<1>1. inside[v].failure # "raised" /\ inside[v].pc # "main"
  <2>1. CASE outside[v].state = "COMPLETE"
    <3>1. StatesAgree(v) /\ inside[v] \in Inside
      BY DEF Lifecycle, TypeOK
    <3>2. inside[v].pc # "main"
      BY <2>1, <3>1 DEF StatesAgree, Inside, States
    <3> QED
      BY <2>1, <3>2 DEF ErrorBeforeComplete
  <2>2. CASE ClosesNow(v)
    BY <2>2, ClosedWithoutError
  <2> QED
    BY <2>1, <2>2, NewlyComplete
<1>2. CASE doMessage
  BY <1>1, <1>2, DispatchInside
<1>3. CASE ~doMessage
  BY <1>1, <1>3, InsideSteps DEF InsideKept
<1> QED
  BY <1>2, <1>3

\* For any number of workers and messages: the onerror of an exception that ended a worker's
\* script has been dispatched (reported, or dropped for an exception that was pending) by the
\* time the worker is COMPLETE.
THEOREM ErrorBeforeCompleteCorrect == Spec => []ErrorBeforeComplete
<1>1. Init => ErrorsAgree /\ ErrorBeforeComplete
  <2> SUFFICES ASSUME Init PROVE ErrorsAgree /\ ErrorBeforeComplete
    OBVIOUS
  <2>1. \A w \in Workers : inside[w].failure = "none"
    BY DEF Init
  <2> QED
    BY <2>1 DEF ErrorsAgree, ErrorAgrees, ErrorBeforeComplete
<1>2. TypeOK /\ Lifecycle /\ StackAgrees /\ ErrorsAgree /\ [Next]_vars => ErrorsAgree'
  <2>1. ErrorsAgree /\ UNCHANGED vars => ErrorsAgree'
    BY DEF vars, program, ErrorsAgree, ErrorAgrees, ErrorQueued
  <2> QED
    BY <2>1, ErrorStep
<1>3. TypeOK /\ Lifecycle /\ LateOnly /\ ErrorsAgree /\ ErrorBeforeComplete /\ [Next]_vars
        => ErrorBeforeComplete'
  <2>1. ErrorBeforeComplete /\ UNCHANGED vars => ErrorBeforeComplete'
    BY DEF vars, program, ErrorBeforeComplete
  <2> QED
    BY <2>1, ErrorBeforeStep
<1> QED
  BY <1>1, <1>2, <1>3, TypeCorrect, LifecycleCorrect, StackCorrect, LateOnlyCorrect, PTL
     DEF Spec
=============================================================================
