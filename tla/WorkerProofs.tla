---------------------------- MODULE WorkerProofs ----------------------------
(***************************************************************************)
(* Proofs about Worker: its type invariant, the lifecycle invariant of a   *)
(* worker pair, and what follows from them, for any number of workers, any *)
(* bounds and any set of calls.                                            *)
(***************************************************************************)
EXTENDS Worker, TLAPS

-----------------------------------------------------------------------------
(* Types of the building blocks of the actions.                            *)

\* A new activity is a well-formed frame of the stack.
LEMMA ActivityType ==
    ASSUME NEW kind \in Waits \cup Code \cup {"pre"}, NEW ws \in SUBSET Workers,
           NEW slot \in Slots \cup {"none"}, NEW timed \in BOOLEAN
    PROVE  Activity(kind, ws, slot, timed) \in Frame
  BY DEF Activity, Frame, Joins, Waits, Code

\* The innermost activity is a frame, and what is below it is a stack.
LEMMA TopType ==
    ASSUME stack \in Seq(Frame), stack # <<>>
    PROVE  /\ Top \in Frame
           /\ Below \in Seq(Frame)
           /\ Len(stack) \in 1..Len(stack)
  BY DEF Top, Below

\* Replacing the innermost activity leaves a stack.
LEMMA RetopType ==
    ASSUME stack \in Seq(Frame), stack # <<>>, NEW f \in Frame, Retop(f)
    PROVE  stack' \in Seq(Frame)
  BY DEF Retop

\* Entering a blocking call leaves a stack.
LEMMA BlockType ==
    ASSUME stack \in Seq(Frame), NEW kind \in Waits \cup {"pre"},
           NEW ws \in SUBSET Workers, NEW timed \in BOOLEAN, Block(kind, ws, timed)
    PROVE  stack' \in Seq(Frame)
  <1> DEFINE Marked == [i \in 1..Len(stack) |->
                          [stack[i] EXCEPT !.nested = @ \/ stack[i].kind \in Waits]]
  <1>1. Activity(kind, ws, "none", timed) \in Frame
    BY ActivityType DEF Slots
  <1>2. ASSUME NEW f \in Frame
        PROVE  [f EXCEPT !.nested = @ \/ f.kind \in Waits] \in Frame
    BY DEF Frame
  <1>3. \A i \in 1..Len(stack) : Marked[i] \in Frame
    <2>1. \A i \in 1..Len(stack) : stack[i] \in Frame
      OBVIOUS
    <2> QED
      BY <1>2, <2>1
  <1>4. Marked \in Seq(Frame)
    BY <1>3
  <1>5. stack' = Append(Marked, Activity(kind, ws, "none", timed))
    BY DEF Block
  <1> HIDE DEF Marked
  <1> QED
    BY <1>1, <1>4, <1>5

\* Queueing a message leaves a queue of messages.
LEMMA QueueType ==
    ASSUME outQ \in Seq(Message), destroyed \in BOOLEAN,
           NEW w \in Workers, NEW slot \in Slots, QueueOutside(w, slot)
    PROVE  outQ' \in Seq(Message)
  <1>1. [worker |-> w, slot |-> slot] \in Message
    BY DEF Message
  <1> QED
    BY <1>1 DEF QueueOutside

\* Removing an item from a list leaves a list of the remaining ones.
LEMMA RemoveItemType ==
    ASSUME NEW S, NEW list \in Seq(S), NEW w
    PROVE  RemoveItem(list, w) \in Seq(S)
  <1>1. CASE \E i \in 1..Len(list) : list[i] = w
    <2> DEFINE n == CHOOSE i \in 1..Len(list) :
                       list[i] = w /\ \A j \in 1..(i - 1) : list[j] # w
               shorter == [i \in 1..(Len(list) - 1) |->
                              IF i < n THEN list[i] ELSE list[i + 1]]
    <2>1. Len(list) \in Nat /\ Len(list) # 0
      BY <1>1
    <2>2. \A i \in 1..(Len(list) - 1) : shorter[i] \in S
      <3> HIDE DEF n
      <3> QED
        BY <2>1
    <2>3. shorter \in Seq(S)
      <3>1. Len(list) - 1 \in Nat
        BY <2>1
      <3> HIDE DEF n
      <3> QED
        BY <2>2, <3>1
    <2>4. RemoveItem(list, w) = shorter
      BY <1>1 DEF RemoveItem
    <2> QED
      BY <2>3, <2>4
  <1>2. CASE ~ \E i \in 1..Len(list) : list[i] = w
    BY <1>2 DEF RemoveItem
  <1> QED
    BY <1>1, <1>2

\* Replacing one worker object by another leaves the functions well typed.
LEMMA OutsideType ==
    ASSUME outside \in [Workers -> Outside], NEW w \in Workers, NEW new \in Outside,
           outside' = [outside EXCEPT ![w] = new]
    PROVE  outside' \in [Workers -> Outside]
  OBVIOUS

\* The same for the inside workers.
LEMMA InsideType ==
    ASSUME inside \in [Workers -> Inside], NEW w \in Workers, NEW new \in Inside,
           inside' = [inside EXCEPT ![w] = new]
    PROVE  inside' \in [Workers -> Inside]
  OBVIOUS

\* So are the records themselves when the calls create, queue and dequeue.
LEMMA NewOutsideType ==
    ASSUME NEW r \in Outside, NEW cbs \in SUBSET Slots,
           NEW state \in States, NEW file \in Origins
    PROVE  [r EXCEPT !.state = state, !.linked = TRUE, !.callbacks = cbs,
                     !.scriptFile = file] \in Outside
  BY DEF Outside

\* An inside worker just created, with or without workerMain queued.
LEMMA NewInsideType ==
    ASSUME NEW r \in Inside, NEW queue \in Seq({"main", "msg"})
    PROVE  [r EXCEPT !.state = "BEGIN", !.queue = queue] \in Inside
  BY DEF Inside, States

\* An inside worker with one more event.
LEMMA QueuedType ==
    ASSUME NEW r \in Inside, NEW event \in {"main", "msg"}
    PROVE  [r EXCEPT !.queue = Append(@, event)] \in Inside
  BY DEF Inside

\* The events of an inside worker without the first.
LEMMA TailType ==
    ASSUME NEW q \in Seq({"main", "msg"}), q # <<>>
    PROVE  Tail(q) \in Seq({"main", "msg"})
  OBVIOUS

\* An inside worker with its first event gone.
LEMMA DequeuedType ==
    ASSUME NEW r \in Inside, r.queue # <<>>, NEW pc \in {"idle", "main", "error", "msg"}
    PROVE  [r EXCEPT !.queue = Tail(@), !.pc = pc] \in Inside
  <1>1. r.queue \in Seq({"main", "msg"})
    BY DEF Inside
  <1>2. Tail(r.queue) \in Seq({"main", "msg"})
    BY <1>1, TailType
  <1> DEFINE q == Tail(r.queue)
  <1> HIDE DEF q
  <1>3. [r EXCEPT !.queue = q, !.pc = pc] \in Inside
    <2>1. q \in Seq({"main", "msg"})
      BY <1>2 DEF q
    <2> QED
      BY <2>1 DEF Inside
  <1> QED
    BY <1>3 DEF q

\* The end of a message leaves the outside workers and the list well typed.
LEMMA MessageDoneType ==
    ASSUME TypeOK, NEW w \in Workers, NEW slot \in Slots, NEW worker \in Outside,
           MessageDone(w, slot, worker)
    PROVE  outside' \in [Workers -> Outside] /\ workers' \in Seq(Workers)
  <1>1. CASE slot = "onclose"
    <2>1. [worker EXCEPT !.state = "COMPLETE", !.linked = FALSE] \in Outside
      BY DEF Outside, States
    <2>2. outside' \in [Workers -> Outside]
      BY <1>1, <2>1 DEF MessageDone, TypeOK
    <2>3. workers' \in Seq(Workers)
      BY <1>1, RemoveItemType DEF MessageDone, removeWorker, TypeOK
    <2> QED
      BY <2>2, <2>3
  <1>2. CASE slot # "onclose"
    BY <1>2 DEF MessageDone, TypeOK
  <1> QED
    BY <1>1, <1>2

-----------------------------------------------------------------------------
(* Type correctness.                                                       *)

\* The initial state is well typed.
LEMMA TypeInit == Init => TypeOK
  <1> SUFFICES ASSUME Init PROVE TypeOK
    OBVIOUS
  <1>1. outside \in [Workers -> Outside]
    BY DEF Init, Outside, States, Origins
  <1>2. inside \in [Workers -> Inside]
    BY DEF Init, Inside, States, Origins, Failures
  <1>4. stack \in Seq(Frame) /\ workers \in Seq(Workers) /\ outQ \in Seq(Message)
    BY DEF Init
  <1>5. exception \in BOOLEAN /\ joining \in BOOLEAN /\ destroyed \in BOOLEAN
    BY DEF Init
  <1>6. fault \in Faults
    BY DEF Init, Faults
  <1> QED
    BY <1>1, <1>2, <1>4, <1>5, <1>6 DEF TypeOK

\* A call of the outside code on one worker.
LEMMA TypeCall ==
    ASSUME TypeOK, NEW w \in Workers, OuterCall(w)
    PROVE  TypeOK'
  <1> USE DEF TypeOK, program, Throw
  <1>1. ASSUME NEW hasScript \in BOOLEAN, initWorker(w, hasScript)
        PROVE  /\ outside' \in [Workers -> Outside]
               /\ inside' \in [Workers -> Inside]
               /\ workers' \in Seq(Workers)
    <2>1. PICK cbs \in HandlerSets :
             outside' = [outside EXCEPT ![w] =
               [@ EXCEPT !.state = IF hasScript THEN "STARTED" ELSE "BEGIN",
                         !.linked = TRUE, !.callbacks = cbs,
                         !.scriptFile = IF hasScript THEN "accepted" ELSE "none"]]
      BY <1>1 DEF initWorker
    <2>2. [outside[w] EXCEPT !.state = IF hasScript THEN "STARTED" ELSE "BEGIN",
                     !.linked = TRUE, !.callbacks = cbs,
                     !.scriptFile = IF hasScript THEN "accepted" ELSE "none"] \in Outside
      <3>1. cbs \in SUBSET Slots
        BY HandlerAssumption
      <3>2. (IF hasScript THEN "STARTED" ELSE "BEGIN") \in States
        BY DEF States
      <3>3. (IF hasScript THEN "accepted" ELSE "none") \in Origins
        BY DEF Origins
      <3>4. outside[w] \in Outside
        OBVIOUS
      <3> QED
        BY <3>1, <3>2, <3>3, <3>4, NewOutsideType
    <2>3. [inside[w] EXCEPT !.state = "BEGIN",
                     !.queue = IF hasScript THEN <<"main">> ELSE <<>>] \in Inside
      <3>1. (IF hasScript THEN <<"main">> ELSE <<>>) \in Seq({"main", "msg"})
        <4>1. <<"main">> \in Seq({"main", "msg"}) /\ <<>> \in Seq({"main", "msg"})
          OBVIOUS
        <4> QED
          BY <4>1, Zenon
      <3>2. inside[w] \in Inside
        OBVIOUS
      <3> QED
        BY <3>1, <3>2, NewInsideType
    <2>4. outside' \in [Workers -> Outside]
      BY <2>1, <2>2
    <2>5. inside' \in [Workers -> Inside]
      BY <1>1, <2>3 DEF initWorker
    <2> QED
      BY <1>1, <2>4, <2>5 DEF initWorker
  <1>2. ASSUME NEW hasScript \in BOOLEAN, workerConstructor(w, hasScript)
        PROVE  TypeOK'
    BY <1>1, <1>2 DEF workerConstructor
  <1>3. ASSUME NEW base \in Workers, workerClone(base, w)
        PROVE  TypeOK'
    <2>1. CASE initWorker(w, FALSE) /\ UNCHANGED fault
      BY <1>1, <1>3, <2>1 DEF workerClone
    <2>2. CASE fault' = "clone" /\ UNCHANGED <<workers, outside, inside>>
      BY <1>3, <2>2 DEF workerClone, Faults
    <2> QED
      BY <1>3, <2>1, <2>2 DEF workerClone
  <1>4. ASSUME NEW via, NEW timeout, startWorker(w, via, timeout)
        PROVE  TypeOK'
    <2>1. StoreScript(w, via) \in Outside
      BY DEF StoreScript, Outside, Origins
    <2>2. CASE outside[w].state # "BEGIN"
      BY <1>4, <2>1, <2>2 DEF startWorker
    <2>3. CASE outside[w].state = "BEGIN"
      <3>1. [StoreScript(w, via) EXCEPT !.state = "STARTED"] \in Outside
        BY <2>1 DEF Outside, States
      <3>2. outside' \in [Workers -> Outside]
        BY <1>4, <2>3, <3>1 DEF startWorker
      <3>3. [inside[w] EXCEPT !.queue = Append(@, "main")] \in Inside
        BY QueuedType
      <3>4. inside' \in [Workers -> Inside]
        BY <1>4, <2>3, <3>3 DEF startWorker
      <3>5. stack' \in Seq(Frame)
        <4>1. CASE UNCHANGED stack
          BY <4>1
        <4>2. CASE Block("eval", {w}, timeout = "timed")
          BY <4>2, BlockType DEF Waits, Joins
        <4> QED
          BY <1>4, <2>3, <4>1, <4>2 DEF startWorker
      <3> QED
        BY <1>4, <2>3, <3>2, <3>4, <3>5 DEF startWorker
    <2> QED
      BY <2>2, <2>3
  <1>5. ASSUME workerPostMessage(w) PROVE TypeOK'
    <2>1. stack' \in Seq(Frame)
      <3>1. Activity("json", {w}, "none", FALSE) \in Frame
        BY ActivityType DEF Code
      <3>2. PICK f \in Frame : f = Activity("json", {w}, "none", FALSE)
        BY <3>1
      <3>3. stack' = stack \/ stack' = Append(stack, f)
        BY <1>5, <3>2 DEF workerPostMessage
      <3>4. ASSUME NEW s \in Seq(Frame) PROVE Append(s, f) \in Seq(Frame)
        OBVIOUS
      <3> QED
        BY <3>3, <3>4, Zenon
    <2> QED
      BY <1>5, <2>1 DEF workerPostMessage
  <1>10. ASSUME PostsMessage(w) PROVE TypeOK'
    <2>1. stack' \in Seq(Frame)
      BY <1>10, TopType DEF PostsMessage, InCode
    <2>2. [inside[w] EXCEPT !.queue = Append(@, "msg")] \in Inside
      BY QueuedType
    <2>3. inside' \in [Workers -> Inside]
      BY <1>10, <2>2 DEF PostsMessage
    <2>4. fault' \in Faults
      BY <1>10 DEF PostsMessage, Faults
    <2> QED
      BY <1>10, <2>1, <2>3, <2>4 DEF PostsMessage
  <1>6. ASSUME workerTerminate(w) PROVE TypeOK'
    <2>1. [inside[w] EXCEPT !.exiting = TRUE] \in Inside
      BY DEF Inside
    <2> QED
      BY <1>6, <2>1 DEF workerTerminate
  <1>7. ASSUME workerPreload(w) PROVE TypeOK'
    <2>1. CASE UNCHANGED stack
      BY <1>7, <2>1 DEF workerPreload
    <2>2. CASE Block("pre", {w}, FALSE)
      <3>1. stack' \in Seq(Frame)
        BY <2>2, BlockType
      <3> QED
        BY <1>7, <3>1 DEF workerPreload
    <2> QED
      BY <1>7, <2>1, <2>2 DEF workerPreload
  <1>8. ASSUME PreloadReturns(w) PROVE TypeOK'
    <2>1. stack' \in Seq(Frame)
      BY <1>8, TopType DEF PreloadReturns
    <2>2. [inside[w] EXCEPT !.exception = TRUE] \in Inside
      BY DEF Inside
    <2>3. outQ' \in Seq(Message)
      BY <1>8, QueueType DEF PreloadReturns, Slots
    <2>4. inside' \in [Workers -> Inside]
      BY <1>8, <2>2 DEF PreloadReturns
    <2> QED
      BY <1>8, <2>1, <2>3, <2>4 DEF PreloadReturns
  <1>9. ASSUME NEW timed \in BOOLEAN, workerWaitForMessage(w, timed)
        PROVE  TypeOK'
    <2>1. stack' \in Seq(Frame)
      BY <1>9, BlockType DEF workerWaitForMessage, Waits
    <2>2. [outside[w] EXCEPT !.gotMessage = FALSE] \in Outside
      BY DEF Outside
    <2>3. outside' \in [Workers -> Outside]
      BY <1>9, <2>2 DEF workerWaitForMessage
    <2> QED
      BY <1>9, <2>1, <2>3 DEF workerWaitForMessage
  <1> QED
    BY <1>2, <1>3, <1>4, <1>5, <1>6, <1>7, <1>8, <1>9, <1>10 DEF OuterCall

\* A step of the outside thread that is not a call on one worker.
LEMMA TypeOuter ==
    ASSUME TypeOK, OuterCode \/ OuterJoin \/ OuterLoop \/ ejsDestroyVM
    PROVE  TypeOK'
  <1> USE DEF TypeOK, program
  <1>1. ASSUME RunScript PROVE TypeOK'
    <2>1. Activity("script", {}, "none", FALSE) \in Frame
      BY ActivityType DEF Code
    <2>2. stack' = <<Activity("script", {}, "none", FALSE)>>
      BY <1>1 DEF RunScript
    <2>3. ASSUME NEW f \in Frame PROVE <<f>> \in Seq(Frame)
      OBVIOUS
    <2>4. stack' \in Seq(Frame)
      BY <2>1, <2>2, <2>3, Zenon
    <2> QED
      BY <1>1, <2>4 DEF RunScript
  <1>2. ASSUME TimerClears PROVE TypeOK'
    BY <1>2 DEF TimerClears
  <1>3. ASSUME ThrowOrCatch PROVE TypeOK'
    BY <1>3 DEF ThrowOrCatch
  <1>4. ASSUME ScriptReturns PROVE TypeOK'
    BY <1>4, TopType DEF ScriptReturns, InCode
  <1>5. ASSUME OuterJoin PROVE TypeOK'
    <2>1. PICK kind \in {"join", "joinAll"}, ws \in SUBSET Workers, timed \in BOOLEAN :
             workerJoin(kind, ws, timed)
      BY <1>5 DEF OuterJoin
    <2>2. stack' \in Seq(Frame)
      BY <2>1, BlockType DEF workerJoin, Waits, Joins
    <2> QED
      BY <2>1, <2>2 DEF workerJoin
  <1>6. ASSUME JoinChecks PROVE TypeOK'
    <2>1. Top \in Frame
      BY <1>6, TopType DEF JoinChecks, Blocked
    <2> DEFINE f == [Top EXCEPT !.phase = IF reapJoins(Top) THEN "true" ELSE "poll",
                                !.dispatched = FALSE]
    <2>2. f \in Frame
      BY <2>1 DEF Frame
    <2> HIDE DEF f
    <2>3. stack' \in Seq(Frame)
      BY <1>6, <2>2, RetopType DEF JoinChecks, Blocked, f
    <2>4. joining' \in BOOLEAN
      BY <1>6 DEF JoinChecks
    <2> QED
      BY <1>6, <2>3, <2>4 DEF JoinChecks
  <1>7. ASSUME JoinPolls PROVE TypeOK'
    <2>1. Top \in Frame
      BY <1>7, TopType DEF JoinPolls, Blocked
    <2>2. \A phase \in {"true", "false", "check"} : [Top EXCEPT !.phase = phase] \in Frame
      BY <2>1 DEF Frame
    <2>3. PICK phase \in {"true", "false", "check"} : Retop([Top EXCEPT !.phase = phase])
      <3>1. CASE joining
        BY <1>7, <3>1 DEF JoinPolls
      <3>2. CASE ~joining
        BY <1>7, <3>2 DEF JoinPolls
      <3> QED
        BY <3>1, <3>2
    <2>4. stack' \in Seq(Frame)
      BY <1>7, <2>2, <2>3, RetopType DEF JoinPolls, Blocked
    <2>5. joining' \in BOOLEAN
      BY <1>7 DEF JoinPolls
    <2> QED
      BY <1>7, <2>4, <2>5 DEF JoinPolls
  <1>8. ASSUME WaitPolls PROVE TypeOK'
    <2>1. Top \in Frame
      BY <1>8, TopType DEF WaitPolls, Blocked
    <2>2. [Top EXCEPT !.phase = "true"] \in Frame /\ [Top EXCEPT !.dispatched = FALSE] \in Frame
      BY <2>1 DEF Frame
    <2>3. stack' \in Seq(Frame)
      BY <1>8, <2>2, RetopType DEF WaitPolls, Blocked
    <2>4. ASSUME NEW r \in Outside, NEW b PROVE [r EXCEPT !.gotMessage = @ /\ b] \in Outside
      BY DEF Outside
    <2>5. outside' \in [Workers -> Outside]
      <3>1. CASE UNCHANGED outside
        BY <3>1
      <3>2. CASE outside' = [w \in Workers |->
                   [outside[w] EXCEPT !.gotMessage = @ /\ w \notin Top.ws]]
        <4>1. \A w \in Workers :
                 [outside[w] EXCEPT !.gotMessage = @ /\ w \notin Top.ws] \in Outside
          BY <2>4
        <4> QED
          BY <3>2, <4>1
      <3> QED
        BY <1>8, <3>1, <3>2 DEF WaitPolls
    <2> QED
      BY <1>8, <2>3, <2>5 DEF WaitPolls
  <1>9. ASSUME CallReturns PROVE TypeOK'
    BY <1>9, TopType DEF CallReturns, Blocked
  <1>10. ASSUME doMessage PROVE TypeOK'
    <2> DEFINE w    == Head(outQ).worker
               slot == Head(outQ).slot
               got  == [outside[w] EXCEPT !.gotMessage = @ \/ Awaited(w)]
    <2>1. outQ # <<>> /\ outQ' = Tail(outQ)
      BY <1>10 DEF doMessage, CanDispatch
    <2>2. outQ' \in Seq(Message) /\ Head(outQ) \in Message
      BY <2>1
    <2>3. w \in Workers /\ slot \in Slots
      BY <2>2 DEF Message
    <2>4. ASSUME NEW r \in Outside, NEW b PROVE [r EXCEPT !.gotMessage = @ \/ b] \in Outside
      BY DEF Outside
    <2>5. got \in Outside
      BY <2>3, <2>4
    <2>6. inside' \in [Workers -> Inside]
      <3>1. ASSUME NEW r \in Inside
            PROVE  [r EXCEPT !.failure = IF slot = "onerror"
                                         THEN Dispatched(@) ELSE @] \in Inside
        BY DEF Inside, Failures, Dispatched
      <3>2. inside' = [inside EXCEPT ![w].failure =
                          IF slot = "onerror" THEN Dispatched(@) ELSE @]
        BY <1>10 DEF doMessage
      <3> HIDE DEF w, slot
      <3> QED
        BY <2>3, <3>1, <3>2
    <2>7. Dispatching \in Seq(Frame)
      <3>1. CASE stack = <<>>
        BY <3>1 DEF Dispatching
      <3>2. CASE stack # <<>>
        <4>1. [stack[Len(stack)] EXCEPT !.dispatched = TRUE] \in Frame
          BY <3>2, TopType DEF Top, Frame
        <4> QED
          BY <3>2, <4>1 DEF Dispatching
      <3> QED
        BY <3>1, <3>2
    <2>8. Activity("msg", {w}, slot, FALSE) \in Frame
      BY <2>3, ActivityType DEF Code
    <2>9. /\ joining' = joining
          /\ destroyed' = destroyed /\ fault' = fault
          /\ \/ /\ stack' = Append(Dispatching, Activity("msg", {w}, slot, FALSE))
                /\ outside' = [outside EXCEPT ![w] = got]
                /\ exception' = exception /\ workers' = workers
             \/ /\ stack' = Dispatching
                /\ exception' = (exception \/ slot = "onerror")
                /\ MessageDone(w, slot, got)
      BY <1>10 DEF doMessage
    <2>10. stack' \in Seq(Frame) /\ exception' \in BOOLEAN
      <3> HIDE DEF w, slot, got
      <3> DEFINE f == Activity("msg", {w}, slot, FALSE)
      <3> HIDE DEF f
      <3>0. Append(Dispatching, f) \in Seq(Frame)
        <4>1. f \in Frame
          BY <2>8 DEF f
        <4>2. ASSUME NEW s \in Seq(Frame), NEW g \in Frame PROVE Append(s, g) \in Seq(Frame)
          OBVIOUS
        <4> QED
          BY <2>7, <4>1, <4>2, Zenon
      <3>1. stack' \in Seq(Frame)
        BY <2>7, <2>9, <3>0, Zenon DEF f
      <3>2. exception' = exception \/ exception' = (exception \/ slot = "onerror")
        BY <2>9, Zenon
      <3> QED
        BY <3>1, <3>2
    <2>11. outside' \in [Workers -> Outside] /\ workers' \in Seq(Workers)
      <3> HIDE DEF w, slot, got
      <3> QED
        BY <2>3, <2>5, <2>9, MessageDoneType
    <2> QED
      BY <2>2, <2>6, <2>9, <2>10, <2>11
  <1>11. ASSUME CallbackReturns PROVE TypeOK'
    <2>1. Top \in Frame /\ Below \in Seq(Frame)
      BY <1>11, TopType DEF CallbackReturns, InCode
    <2>2. PICK w \in Top.ws : MessageDone(w, Top.slot, outside[w])
      BY <1>11 DEF CallbackReturns
    <2>3. w \in Workers /\ outside[w] \in Outside
      BY <2>1, <2>2 DEF Frame
    <2>4. outside' \in [Workers -> Outside] /\ workers' \in Seq(Workers)
      <3>1. CASE Top.slot \in Slots
        BY <2>2, <2>3, <3>1, MessageDoneType
      <3>2. CASE Top.slot \notin Slots
        BY <2>2, <2>3, <3>2 DEF MessageDone, Slots
      <3> QED
        BY <3>1, <3>2
    <2> QED
      BY <1>11, <2>1, <2>4 DEF CallbackReturns
  <1>12. ASSUME ejsDestroyVM PROVE TypeOK'
    <2>1. ASSUME NEW r \in Outside, NEW b PROVE [r EXCEPT !.linked = @ /\ b] \in Outside
      BY DEF Outside
    <2>2. outside' \in [Workers -> Outside]
      BY <1>12, <2>1 DEF ejsDestroyVM, ejsRemoveWorkers
    <2>3. workers' = <<>> /\ outQ' = <<>> /\ destroyed' = TRUE
      BY <1>12 DEF ejsDestroyVM, ejsRemoveWorkers
    <2>4. UNCHANGED <<stack, exception, joining, inside, fault>>
      BY <1>12 DEF ejsDestroyVM
    <2>5. workers' \in Seq(Workers) /\ outQ' \in Seq(Message)
      BY <2>3
    <2> QED
      BY <2>2, <2>3, <2>4, <2>5
  <1>13. ASSUME MessageTooLate PROVE TypeOK'
    BY <1>13 DEF MessageTooLate, Crash, Faults
  <1> QED
    BY <1>1, <1>2, <1>3, <1>4, <1>5, <1>6, <1>7, <1>8, <1>9, <1>10, <1>11, <1>12, <1>13
       DEF OuterCode, OuterLoop

\* A step of the inside thread, or of the collector.
LEMMA TypeInner ==
    ASSUME TypeOK, NEW w \in Workers, Inner(w)
    PROVE  TypeOK'
  <1> USE DEF TypeOK, program, Throw
  <1>0. inside[w] \in Inside
    OBVIOUS
  <1>1. ASSUME NEW f \in Faults, Crash(f) PROVE TypeOK'
    BY <1>1 DEF Crash
  <1>2. ASSUME NEW new \in Inside, InsideStep(w, new) PROVE TypeOK'
    BY <1>2 DEF InsideStep
  <1>3. ASSUME workerMain(w) PROVE TypeOK'
    <2>1. CASE Crash("workerMain")
      BY <1>1, <2>1 DEF Faults
    <2>2. CASE ~Crash("workerMain")
      <3> DEFINE literal == outside[w].scriptFile = "none"
                 script  == IF literal THEN outside[w].scriptLiteral ELSE outside[w].scriptFile
                 started == [inside[w] EXCEPT !.queue = Tail(@), !.state = "STARTED",
                                              !.nested = (inside[w].pc = "msg")]
                 new     == IF inside[w].exception THEN [started EXCEPT !.pc = "error"]
                            ELSE [started EXCEPT !.pc = "main", !.ran = script]
      <3>1. script \in Origins
        BY DEF Outside
      <3>2. started \in Inside
        <4>1. PICK q \in Seq({"main", "msg"}) : q = Tail(inside[w].queue)
          <5>1. inside[w].queue \in Seq({"main", "msg"}) /\ inside[w].queue # <<>>
            BY <1>0, <1>3 DEF workerMain, Inside
          <5>3. Tail(inside[w].queue) \in Seq({"main", "msg"})
            BY <5>1, TailType
          <5> QED
            BY <5>3
        <4>2. PICK b \in BOOLEAN : b = (inside[w].pc = "msg")
          OBVIOUS
        <4>3. started = [inside[w] EXCEPT !.queue = q, !.state = "STARTED", !.nested = b]
          BY <4>1, <4>2
        <4>4. ASSUME NEW r \in Inside
              PROVE  [r EXCEPT !.queue = q, !.state = "STARTED", !.nested = b] \in Inside
          BY DEF Inside, States
        <4> QED
          BY <1>0, <4>3, <4>4
      <3>3. new \in Inside
        <4>1. ASSUME NEW r \in Inside, NEW o \in Origins
              PROVE  /\ [r EXCEPT !.pc = "error"] \in Inside
                     /\ [r EXCEPT !.pc = "main", !.ran = o] \in Inside
          BY DEF Inside
        <4> HIDE DEF started, script
        <4> QED
          BY <3>1, <3>2, <4>1
      <3>4. InsideStep(w, new)
        BY <1>3, <2>2 DEF workerMain
      <3> HIDE DEF new
      <3> QED
        BY <1>2, <3>3, <3>4
    <2> QED
      BY <2>1, <2>2
  <1>4. ASSUME InsidePost(w) PROVE TypeOK'
    <2>1. CASE Crash("postInside")
      BY <1>1, <2>1 DEF Faults
    <2>2. CASE ~Crash("postInside")
      <3>1. outQ' \in Seq(Message)
        BY <1>4, <2>2, QueueType DEF InsidePost, Slots
      <3> QED
        BY <1>4, <2>2, <3>1 DEF InsidePost
    <2> QED
      BY <2>1, <2>2
  <1>13. ASSUME NEW r \in Inside, NEW p \in {"no", "yes", "late"}
         PROVE  [r EXCEPT !.posting = p] \in Inside
    BY DEF Inside
  <1>14. ASSUME InsidePostWaits(w) PROVE TypeOK'
    <2>1. [inside[w] EXCEPT !.posting = "yes"] \in Inside
      BY <1>0, <1>13
    <2> QED
      BY <1>2, <1>14, <2>1 DEF InsidePostWaits
  <1>15. ASSUME InsidePostResumes(w) PROVE TypeOK'
    <2>1. CASE Crash("postMessage")
      BY <1>1, <2>1 DEF Faults
    <2>2. CASE ~Crash("postMessage")
      <3>1. outQ' \in Seq(Message)
        BY <1>15, <2>2, QueueType DEF InsidePostResumes, Slots
      <3>2. PICK p \in {"no", "yes", "late"} : inside' = [inside EXCEPT ![w].posting = p]
        BY <1>15, <2>2 DEF InsidePostResumes
      <3>3. inside' \in [Workers -> Inside]
        BY <1>0, <1>13, <3>2
      <3> QED
        BY <1>15, <2>2, <3>1, <3>3 DEF InsidePostResumes
    <2> QED
      BY <2>1, <2>2
  <1>5. ASSUME workerExit(w) PROVE TypeOK'
    <2>1. [inside[w] EXCEPT !.exiting = TRUE] \in Inside
      BY <1>0 DEF Inside
    <2> QED
      BY <1>2, <1>5, <2>1 DEF workerExit
  <1>6. ASSUME InsideMessage(w) PROVE TypeOK'
    <2>1. CASE Crash("doMessage")
      BY <1>1, <2>1 DEF Faults
    <2>2. CASE ~Crash("doMessage")
      <3> DEFINE pc == IF inside[w].pc = "idle" /\ ~inside[w].exception
                       THEN "msg" ELSE inside[w].pc
      <3>1. inside[w].queue # <<>> /\ pc \in {"idle", "main", "error", "msg"}
        BY <1>6 DEF InsideMessage
      <3>2. InsideStep(w, [inside[w] EXCEPT !.queue = Tail(@), !.pc = pc])
        BY <1>6, <2>2 DEF InsideMessage
      <3> HIDE DEF pc
      <3>3. [inside[w] EXCEPT !.queue = Tail(@), !.pc = pc] \in Inside
        BY <1>0, <3>1, DequeuedType
      <3> QED
        BY <1>2, <3>2, <3>3
    <2> QED
      BY <2>1, <2>2
  <1>7. ASSUME NEW throws \in BOOLEAN, InsideMessageDone(w, throws) PROVE TypeOK'
    <2>1. ASSUME NEW r \in Inside, NEW p \in {"no", "yes", "late"}
          PROVE  [r EXCEPT !.pc = "idle", !.exception = @ \/ throws, !.posting = p] \in Inside
      BY DEF Inside
    <2>2. PICK p \in {"no", "yes", "late"} :
             p = IF inside[w].posting = "yes" THEN "no" ELSE inside[w].posting
      BY <1>0 DEF Inside
    <2>3. InsideStep(w, [inside[w] EXCEPT !.pc = "idle", !.exception = @ \/ throws,
                                          !.posting = p])
      BY <1>7, <2>2 DEF InsideMessageDone
    <2> QED
      BY <1>0, <1>2, <2>1, <2>3
  <1>8. ASSUME NEW throws \in BOOLEAN, ScriptEnds(w, throws) PROVE TypeOK'
    <2>1. ASSUME NEW r \in Inside
          PROVE  /\ [r EXCEPT !.pc = "error", !.exception = TRUE, !.failure = "raised"] \in Inside
                 /\ [r EXCEPT !.pc = "close"] \in Inside
      BY DEF Inside, Failures
    <2> QED
      BY <1>0, <1>2, <1>8, <2>1 DEF ScriptEnds
  <1>9. ASSUME handleError(w) PROVE TypeOK'
    <2>1. CASE Crash("handleError")
      BY <1>1, <2>1 DEF Faults
    <2>2. CASE ~Crash("handleError")
      <3>1. outQ' \in Seq(Message)
        BY <1>9, <2>2, QueueType DEF handleError, Slots
      <3>2. ASSUME NEW r \in Inside
            PROVE  [r EXCEPT !.exception = FALSE, !.pc = "close"] \in Inside
        BY DEF Inside
      <3>3. inside' \in [Workers -> Inside]
        BY <1>0, <1>9, <2>2, <3>2 DEF handleError
      <3> QED
        BY <1>9, <2>2, <3>1, <3>3 DEF handleError
    <2> QED
      BY <2>1, <2>2
  <1>10. ASSUME CloseInside(w) PROVE TypeOK'
    <2>1. ASSUME NEW r \in Inside PROVE [r EXCEPT !.state = "CLOSED", !.pc = "closing"] \in Inside
      BY DEF Inside, States
    <2> QED
      BY <1>0, <1>2, <1>10, <2>1 DEF CloseInside
  <1>16. ASSUME CloseOutside(w) PROVE TypeOK'
    <2>1. ASSUME NEW r \in Inside PROVE [r EXCEPT !.pc = "post"] \in Inside
      BY DEF Inside
    <2>2. ASSUME NEW r \in Outside PROVE [r EXCEPT !.state = "CLOSED"] \in Outside
      BY DEF Outside, States
    <2>3. inside' \in [Workers -> Inside]
      BY <1>16, <2>1 DEF CloseOutside
    <2>4. outside' \in [Workers -> Outside]
      BY <1>16, <2>2 DEF CloseOutside
    <2> QED
      BY <1>16, <2>3, <2>4 DEF CloseOutside
  <1>11. ASSUME PostClose(w) PROVE TypeOK'
    <2>1. outQ' \in Seq(Message)
      BY <1>11, QueueType DEF PostClose, Slots
    <2>2. ASSUME NEW r \in Inside, NEW pc \in {"msg", "idle"}
          PROVE  [r EXCEPT !.pc = pc, !.nested = FALSE] \in Inside
      BY DEF Inside
    <2>3. PICK pc \in {"msg", "idle"} : pc = IF inside[w].nested THEN "msg" ELSE "idle"
      OBVIOUS
    <2>4. inside' = [inside EXCEPT ![w] = [@ EXCEPT !.pc = pc, !.nested = FALSE]]
      BY <1>11, <2>3 DEF PostClose
    <2>5. inside' \in [Workers -> Inside]
      BY <2>2, <2>4
    <2> QED
      BY <1>11, <2>1, <2>5 DEF PostClose
  <1>12. ASSUME CollectInside(w) PROVE TypeOK'
    <2>1. ASSUME NEW r \in Inside, NEW q \in Seq({"main", "msg"})
          PROVE  [r EXCEPT !.queue = q] \in Inside
      BY DEF Inside
    <2>2. <<>> \in Seq({"main", "msg"})
      OBVIOUS
    <2> QED
      BY <1>0, <1>2, <1>12, <2>1, <2>2 DEF CollectInside
  <1> QED
    BY <1>3, <1>4, <1>5, <1>6, <1>7, <1>8, <1>9, <1>10, <1>11, <1>12,
       <1>14, <1>15, <1>16 DEF Inner

\* Every step preserves the type invariant.
LEMMA TypeNext == TypeOK /\ [Next]_vars => TypeOK'
  <1> SUFFICES ASSUME TypeOK, [Next]_vars PROVE TypeOK'
    OBVIOUS
  <1>1. CASE OuterCode \/ OuterJoin \/ OuterLoop \/ ejsDestroyVM
    BY <1>1, TypeOuter
  <1>2. ASSUME NEW w \in Workers, OuterCall(w) PROVE TypeOK'
    BY <1>2, TypeCall
  <1>3. ASSUME NEW w \in Workers, Inner(w) PROVE TypeOK'
    BY <1>3, TypeInner
  <1>4. CASE UNCHANGED vars
    BY <1>4 DEF vars, program, TypeOK
  <1> QED
    BY <1>1, <1>2, <1>3, <1>4 DEF Next

\* The variables of the worker model always have their types.
THEOREM TypeCorrect == Spec => []TypeOK
  BY TypeInit, TypeNext, PTL DEF Spec

-----------------------------------------------------------------------------
(* The lifecycle of a worker pair.                                         *)

Good(v) == StatesAgree(v) /\ MainAgrees(v) /\ CloseAgrees(v)

\* A worker whose states, program counter and queue stay as they are, and
\* for which no onclose appears, keeps its part of the invariant.
LEMMA Unmoved ==
    ASSUME Lifecycle, NEW v \in Workers,
           outside'[v].state = outside[v].state, inside'[v].state = inside[v].state,
           inside'[v].pc = inside[v].pc, inside'[v].queue = inside[v].queue,
           ClosePending(v)' => ClosePending(v)
    PROVE  Good(v)'
  <1>1. StatesAgree(v) /\ MainAgrees(v) /\ CloseAgrees(v)
    BY DEF Lifecycle
  <1>2. StatesAgree(v)'
    BY <1>1 DEF StatesAgree
  <1>3. MainAgrees(v)'
    BY <1>1 DEF MainAgrees
  <1>4. CloseAgrees(v)'
    BY <1>1 DEF CloseAgrees
  <1> QED
    BY <1>2, <1>3, <1>4 DEF Good

\* The same when the worker objects are not touched at all.
LEMMA Untouched ==
    ASSUME Lifecycle, NEW v \in Workers,
           outside'[v] = outside[v], inside'[v] = inside[v],
           ClosePending(v)' => ClosePending(v)
    PROVE  Good(v)'
  BY Unmoved

\* Returning to the activity below brings no onclose.
LEMMA PendingBelow ==
    ASSUME stack \in Seq(Frame), stack # <<>>, stack' = Below, outQ' = outQ, NEW v
    PROVE  ClosePending(v)' => ClosePending(v)
  <1>1. \A k \in 1..Len(stack') : k \in 1..Len(stack) /\ stack'[k] = stack[k]
    BY DEF Below
  <1> QED
    BY <1>1 DEF ClosePending

\* Nor does an activity that is not a callback.
LEMMA PendingPush ==
    ASSUME stack \in Seq(Frame), NEW f, f.slot = "none", stack' = Append(stack, f),
           outQ' = outQ, NEW v
    PROVE  ClosePending(v)' => ClosePending(v)
  <1>1. /\ Len(stack') = Len(stack) + 1 /\ stack'[Len(stack) + 1] = f
        /\ \A k \in 1..Len(stack) : stack'[k] = stack[k]
        /\ Len(stack) \in Nat
    OBVIOUS
  <1>2. \A k \in 1..Len(stack') : stack'[k].slot = "onclose" =>
            k \in 1..Len(stack) /\ stack'[k] = stack[k]
    BY <1>1
  <1> QED
    BY <1>2 DEF ClosePending

\* Nor does a change of the innermost activity that keeps what it is about.
LEMMA PendingRetop ==
    ASSUME stack \in Seq(Frame), stack # <<>>, NEW f, Retop(f),
           f.ws = Top.ws, f.slot = Top.slot, outQ' = outQ, NEW v
    PROVE  ClosePending(v)' => ClosePending(v)
  <1>1. Len(stack') = Len(stack)
    BY DEF Retop
  <1>2. \A k \in 1..Len(stack) : stack'[k].ws = stack[k].ws /\ stack'[k].slot = stack[k].slot
    BY DEF Retop, Top
  <1> QED
    BY <1>1, <1>2 DEF ClosePending

\* Nor does a blocking call.
LEMMA PendingBlock ==
    ASSUME stack \in Seq(Frame), NEW kind \in Waits \cup {"pre"},
           NEW ws \in SUBSET Workers, NEW timed \in BOOLEAN,
           Block(kind, ws, timed), outQ' = outQ, NEW v
    PROVE  ClosePending(v)' => ClosePending(v)
  <1> DEFINE Marked == [i \in 1..Len(stack) |->
                          [stack[i] EXCEPT !.nested = @ \/ stack[i].kind \in Waits]]
             new == Activity(kind, ws, "none", timed)
  <1>1. \A k \in 1..Len(stack) : Marked[k].ws = stack[k].ws /\ Marked[k].slot = stack[k].slot
    <2>1. ASSUME NEW f \in Frame, NEW b
          PROVE  [f EXCEPT !.nested = b].ws = f.ws /\ [f EXCEPT !.nested = b].slot = f.slot
      BY DEF Frame
    <2>2. \A k \in 1..Len(stack) : stack[k] \in Frame
      OBVIOUS
    <2> QED
      BY <2>1, <2>2
  <1>2. new.slot = "none"
    BY DEF Activity
  <1>3. stack' = Append(Marked, new)
    BY DEF Block
  <1>4. Len(Marked) = Len(stack) /\ Marked \in Seq({Marked[k] : k \in 1..Len(stack)})
    OBVIOUS
  <1> HIDE DEF Marked, new
  <1>5. /\ Len(stack') = Len(stack) + 1
        /\ stack'[Len(stack) + 1] = new
        /\ \A k \in 1..Len(stack) : stack'[k] = Marked[k]
    BY <1>3, <1>4
  <1>6. \A k \in 1..Len(stack') : stack'[k].slot = "onclose" =>
            k \in 1..Len(stack) /\ stack[k].slot = "onclose" /\ stack[k].ws = stack'[k].ws
    BY <1>1, <1>2, <1>5
  <1> QED
    BY <1>6 DEF ClosePending

\* Nor does a message of another kind, or for another worker.
LEMMA PendingQueue ==
    ASSUME outQ \in Seq(Message), destroyed \in BOOLEAN, NEW w \in Workers, NEW slot \in Slots,
           QueueOutside(w, slot), NEW v \in Workers, v # w \/ slot # "onclose",
           stack' = stack \/ (stack \in Seq(Frame) /\ stack # <<>> /\ stack' = Below)
    PROVE  ClosePending(v)' => ClosePending(v)
  <1>1. \A k \in 1..Len(outQ') :
           \/ k \in 1..Len(outQ) /\ outQ'[k] = outQ[k]
           \/ outQ'[k] = [worker |-> w, slot |-> slot]
    BY DEF QueueOutside
  <1>2. \A k \in 1..Len(stack') : k \in 1..Len(stack) /\ stack'[k] = stack[k]
    BY DEF Below
  <1>3. \A k \in 1..Len(outQ') : outQ'[k].worker = v /\ outQ'[k].slot = "onclose" =>
            k \in 1..Len(outQ) /\ outQ'[k] = outQ[k]
    BY <1>1
  <1> QED
    BY <1>2, <1>3 DEF ClosePending

\* The end of a message completes a worker only when onclose was pending.
LEMMA MessageDoneGood ==
    ASSUME TypeOK, Lifecycle, NEW w \in Workers, NEW slot, NEW worker \in Outside,
           worker.state = outside[w].state, MessageDone(w, slot, worker),
           slot = "onclose" => ClosePending(w), NEW v \in Workers,
           inside'[v].state = inside[v].state, inside'[v].pc = inside[v].pc,
           inside'[v].queue = inside[v].queue, ClosePending(v)' => ClosePending(v)
    PROVE  Good(v)'
  <1>1. CASE slot = "onclose" /\ v = w
    <2>1. inside[w].state = "CLOSED" /\ inside[w].pc \in {"idle", "msg"}
      BY <1>1 DEF Lifecycle, CloseAgrees
    <2>2. outside'[w].state = "COMPLETE"
      BY <1>1 DEF MessageDone, TypeOK, Outside
    <2>3. StatesAgree(w) /\ MainAgrees(w)
      BY DEF Lifecycle
    <2>4. StatesAgree(w)'
      BY <1>1, <2>1, <2>2, <2>3 DEF StatesAgree
    <2>5. MainAgrees(w)'
      BY <1>1, <2>1, <2>3 DEF MainAgrees
    <2>6. CloseAgrees(w)'
      BY <1>1, <2>1 DEF CloseAgrees
    <2> QED
      BY <1>1, <2>4, <2>5, <2>6 DEF Good
  <1>2. CASE ~(slot = "onclose" /\ v = w)
    <2>1. outside'[v].state = outside[v].state
      BY <1>2 DEF MessageDone, TypeOK
    <2> QED
      BY <2>1, Unmoved
  <1> QED
    BY <1>1, <1>2

\* No worker exists initially.
LEMMA LifecycleInit == Init => Lifecycle
  <1> SUFFICES ASSUME Init, NEW w \in Workers
               PROVE  StatesAgree(w) /\ MainAgrees(w) /\ CloseAgrees(w)
    BY DEF Lifecycle
  <1>1. /\ outside[w].state = "NONE" /\ inside[w].state = "NONE"
        /\ inside[w].pc = "idle" /\ inside[w].queue = <<>>
    BY DEF Init
  <1>2. stack = <<>> /\ outQ = <<>>
    BY DEF Init
  <1>3. ~ClosePending(w)
    BY <1>2 DEF ClosePending
  <1>4. StatesAgree(w)
    BY <1>1 DEF StatesAgree
  <1>5. MainAgrees(w)
    BY <1>1 DEF MainAgrees
  <1> QED
    BY <1>3, <1>4, <1>5 DEF CloseAgrees

\* A program that crashes changes no worker.
LEMMA CrashGood ==
    ASSUME Lifecycle, NEW f, Crash(f), NEW v \in Workers
    PROVE  Good(v)'
  <1>1. UNCHANGED <<stack, outQ, outside, inside>>
    BY DEF Crash
  <1>2. ClosePending(v)' => ClosePending(v)
    BY <1>1 DEF ClosePending
  <1> QED
    BY <1>1, <1>2, Untouched

\* A step of the outside thread that is not a call on one worker.
LEMMA LifecycleOuter ==
    ASSUME TypeOK, Lifecycle, OuterCode \/ OuterJoin \/ OuterLoop \/ ejsDestroyVM,
           NEW v \in Workers
    PROVE  Good(v)'
  <1> USE DEF TypeOK
  <1>1. ASSUME OuterCode PROVE Good(v)'
    <2>1. UNCHANGED <<outQ, outside, inside>>
      BY <1>1 DEF OuterCode, RunScript, TimerClears, ThrowOrCatch, ScriptReturns
    <2>2. ClosePending(v)' => ClosePending(v)
      <3>1. CASE RunScript
        <4> DEFINE f == Activity("script", {}, "none", FALSE)
        <4>1. stack' = <<f>>
          BY <3>1 DEF RunScript
        <4>2. f.slot = "none"
          BY DEF Activity
        <4> HIDE DEF f
        <4>3. \A k \in 1..Len(stack') : stack'[k].slot = "none"
          BY <4>1, <4>2
        <4> QED
          BY <2>1, <4>3 DEF ClosePending
      <3>2. CASE UNCHANGED stack
        BY <2>1, <3>2 DEF ClosePending
      <3>3. CASE ScriptReturns
        BY <2>1, <3>3, PendingBelow DEF ScriptReturns, InCode
      <3> QED
        BY <1>1, <3>1, <3>2, <3>3 DEF OuterCode, TimerClears, ThrowOrCatch
    <2> QED
      BY <2>1, <2>2, Untouched
  <1>2. ASSUME OuterJoin PROVE Good(v)'
    <2>1. PICK kind \in {"join", "joinAll"}, ws \in SUBSET Workers, timed \in BOOLEAN :
             workerJoin(kind, ws, timed)
      BY <1>2 DEF OuterJoin
    <2>2. ClosePending(v)' => ClosePending(v)
      BY <2>1, PendingBlock DEF workerJoin, Waits, Joins
    <2> QED
      BY <2>1, <2>2, Untouched DEF workerJoin
  <1>3. ASSUME NEW f, Retop(f), stack # <<>>, f.ws = Top.ws, f.slot = Top.slot,
               UNCHANGED <<outQ, inside>>, outside'[v].state = outside[v].state
        PROVE  Good(v)'
    <2>1. ClosePending(v)' => ClosePending(v)
      BY <1>3, PendingRetop
    <2> QED
      BY <1>3, <2>1, Unmoved
  <1>4. ASSUME stack # <<>>
        PROVE  /\ \A p, d : /\ [Top EXCEPT !.phase = p, !.dispatched = d].ws = Top.ws
                            /\ [Top EXCEPT !.phase = p, !.dispatched = d].slot = Top.slot
               /\ \A p : /\ [Top EXCEPT !.phase = p].ws = Top.ws
                         /\ [Top EXCEPT !.phase = p].slot = Top.slot
               /\ \A d : /\ [Top EXCEPT !.dispatched = d].ws = Top.ws
                         /\ [Top EXCEPT !.dispatched = d].slot = Top.slot
    <2>1. Top \in Frame
      BY <1>4, TopType
    <2> QED
      BY <2>1 DEF Frame
  <1>5. ASSUME JoinChecks PROVE Good(v)'
    <2> DEFINE f == [Top EXCEPT !.phase = IF reapJoins(Top) THEN "true" ELSE "poll",
                                !.dispatched = FALSE]
    <2>1. Retop(f) /\ stack # <<>> /\ UNCHANGED <<outQ, inside, outside>>
      BY <1>5 DEF JoinChecks, Blocked
    <2>2. f.ws = Top.ws /\ f.slot = Top.slot
      BY <1>4, <2>1
    <2> HIDE DEF f
    <2> QED
      BY <1>3, <2>1, <2>2
  <1>6. ASSUME JoinPolls PROVE Good(v)'
    <2>1. stack # <<>> /\ UNCHANGED <<outQ, inside, outside>>
      BY <1>6 DEF JoinPolls, Blocked
    <2>2. PICK p : Retop([Top EXCEPT !.phase = p])
      BY <1>6 DEF JoinPolls
    <2> QED
      BY <1>3, <1>4, <2>1, <2>2
  <1>7. ASSUME WaitPolls PROVE Good(v)'
    <2>1. stack # <<>> /\ UNCHANGED <<outQ, inside>>
      BY <1>7 DEF WaitPolls, Blocked
    <2>2. outside'[v].state = outside[v].state
      <3>2. outside[v] \in Outside
        OBVIOUS
      <3>3. CASE UNCHANGED outside
        BY <3>3
      <3>4. CASE outside' = [w \in Workers |->
                   [outside[w] EXCEPT !.gotMessage = @ /\ w \notin Top.ws]]
        <4> DEFINE b == outside[v].gotMessage /\ v \notin Top.ws
        <4>1. outside'[v] = [outside[v] EXCEPT !.gotMessage = b]
          BY <3>4
        <4> HIDE DEF b
        <4> QED
          BY <3>2, <4>1 DEF Outside
      <3> QED
        BY <1>7, <3>3, <3>4 DEF WaitPolls
    <2>3. \/ Retop([Top EXCEPT !.phase = "true"]) \/ Retop([Top EXCEPT !.dispatched = FALSE])
      BY <1>7 DEF WaitPolls
    <2> QED
      BY <1>3, <1>4, <2>1, <2>2, <2>3
  <1>8. ASSUME CallReturns PROVE Good(v)'
    <2>1. stack # <<>> /\ stack' = Below /\ UNCHANGED <<outQ, inside, outside>>
      BY <1>8 DEF CallReturns, Blocked
    <2>2. ClosePending(v)' => ClosePending(v)
      BY <2>1, PendingBelow
    <2> QED
      BY <2>1, <2>2, Untouched
  <1>9. ASSUME doMessage PROVE Good(v)'
    <2> DEFINE w    == Head(outQ).worker
               slot == Head(outQ).slot
               got  == [outside[w] EXCEPT !.gotMessage = @ \/ Awaited(w)]
               new  == Activity("msg", {w}, slot, FALSE)
    <2>1. outQ # <<>> /\ outQ' = Tail(outQ) /\ Head(outQ) \in Message
      BY <1>9 DEF doMessage, CanDispatch
    <2>2. w \in Workers /\ slot \in Slots
      BY <2>1 DEF Message
    <2>3. got \in Outside /\ got.state = outside[w].state
      <3>1. ASSUME NEW r \in Outside, NEW b
            PROVE  /\ [r EXCEPT !.gotMessage = @ \/ b] \in Outside
                   /\ [r EXCEPT !.gotMessage = @ \/ b].state = r.state
        BY DEF Outside
      <3> QED
        BY <2>2, <3>1
    <2>4. /\ inside'[v].state = inside[v].state /\ inside'[v].pc = inside[v].pc
          /\ inside'[v].queue = inside[v].queue
      <3>1. inside' = [inside EXCEPT ![w].failure =
                          IF slot = "onerror" THEN Dispatched(@) ELSE @]
        BY <1>9 DEF doMessage
      <3>2. ASSUME NEW r \in Inside, NEW x
            PROVE  /\ [r EXCEPT !.failure = x].state = r.state
                   /\ [r EXCEPT !.failure = x].pc = r.pc
                   /\ [r EXCEPT !.failure = x].queue = r.queue
        BY DEF Inside
      <3>3. inside[v] \in Inside
        OBVIOUS
      <3> HIDE DEF w, slot
      <3> QED
        BY <2>2, <3>1, <3>2, <3>3
    <2>5. \/ /\ stack' = Append(Dispatching, new)
             /\ outside' = [outside EXCEPT ![w] = got]
          \/ /\ stack' = Dispatching
             /\ MessageDone(w, slot, got)
      BY <1>9 DEF doMessage
    <2>6. slot = "onclose" => ClosePending(w)
      <3>1. 1 \in 1..Len(outQ) /\ outQ[1] = Head(outQ)
        BY <2>1
      <3> QED
        BY <3>1 DEF ClosePending
    <2>7. /\ Dispatching \in Seq(Frame) /\ Len(Dispatching) = Len(stack)
          /\ \A k \in 1..Len(stack) :
               Dispatching[k].ws = stack[k].ws /\ Dispatching[k].slot = stack[k].slot
      <3>1. CASE stack = <<>>
        BY <3>1 DEF Dispatching
      <3>2. CASE stack # <<>>
        <4>1. ASSUME NEW f \in Frame
              PROVE  /\ [f EXCEPT !.dispatched = TRUE] \in Frame
                     /\ [f EXCEPT !.dispatched = TRUE].ws = f.ws
                     /\ [f EXCEPT !.dispatched = TRUE].slot = f.slot
          BY DEF Frame
        <4>2. Dispatching = [stack EXCEPT ![Len(stack)] =
                                [stack[Len(stack)] EXCEPT !.dispatched = TRUE]]
          BY <3>2 DEF Dispatching
        <4> DEFINE g == [stack[Len(stack)] EXCEPT !.dispatched = TRUE]
        <4>3. g \in Frame /\ g.ws = stack[Len(stack)].ws /\ g.slot = stack[Len(stack)].slot
          BY <3>2, <4>1
        <4> HIDE DEF g
        <4> QED
          BY <3>2, <4>2, <4>3 DEF g
      <3> QED
        BY <3>1, <3>2
    <2>8. new.ws = {w} /\ new.slot = slot
      BY DEF Activity
    <2>9. ClosePending(v)' => ClosePending(v)
      <3> HIDE DEF new, got
      <3>1. \A k \in 1..Len(outQ') : k + 1 \in 1..Len(outQ) /\ outQ'[k] = outQ[k + 1]
        BY <2>1
      <3>2. \A k \in 1..Len(stack') :
               \/ /\ k \in 1..Len(stack)
                  /\ stack'[k].ws = stack[k].ws /\ stack'[k].slot = stack[k].slot
               \/ stack'[k] = new
        <4> DEFINE D == Dispatching
        <4>1. D \in Seq(Frame) /\ Len(D) = Len(stack)
          BY <2>7
        <4>2. stack' = Append(D, new) \/ stack' = D
          BY <2>5
        <4>3. \A k \in 1..Len(stack) : D[k].ws = stack[k].ws /\ D[k].slot = stack[k].slot
          BY <2>7
        <4> HIDE DEF D
        <4>4. CASE stack' = D
          BY <4>1, <4>3, <4>4
        <4>5. CASE stack' = Append(D, new)
          <5>1. Len(stack') = Len(stack) + 1 /\ stack'[Len(stack) + 1] = new
            BY <4>1, <4>5
          <5>2. \A k \in 1..Len(stack) : stack'[k] = D[k]
            BY <4>1, <4>5
          <5>3. Len(stack) \in Nat
            OBVIOUS
          <5> HIDE DEF TypeOK
          <5> QED
            BY <4>3, <5>1, <5>2, <5>3
        <4> QED
          BY <4>2, <4>4, <4>5
      <3> HIDE DEF w, slot
      <3>3. ASSUME NEW k \in 1..Len(stack'), v \in stack'[k].ws, stack'[k].slot = "onclose"
            PROVE  ClosePending(v)
        <4>1. CASE stack'[k] = new
          BY <2>6, <2>8, <3>3, <4>1
        <4>2. CASE stack'[k] # new
          BY <3>2, <3>3, <4>2 DEF ClosePending
        <4> QED
          BY <4>1, <4>2
      <3>4. ASSUME NEW k \in 1..Len(outQ'), outQ'[k].worker = v, outQ'[k].slot = "onclose"
            PROVE  ClosePending(v)
        BY <3>1, <3>4 DEF ClosePending
      <3> QED
        BY <3>3, <3>4 DEF ClosePending
    <2> HIDE DEF w, slot, got, new
    <2>10. CASE outside' = [outside EXCEPT ![w] = got]
      <3>1. outside'[v].state = outside[v].state
        BY <2>2, <2>3, <2>10
      <3> QED
        BY <2>4, <2>9, <3>1, Unmoved
    <2>11. CASE MessageDone(w, slot, got)
      BY <2>2, <2>3, <2>4, <2>6, <2>9, <2>11, MessageDoneGood
    <2> QED
      BY <2>5, <2>10, <2>11
  <1>10. ASSUME CallbackReturns PROVE Good(v)'
    <2>1. stack # <<>> /\ stack' = Below /\ UNCHANGED <<outQ, inside>>
      BY <1>10 DEF CallbackReturns, InCode
    <2>2. Top \in Frame
      BY <2>1, TopType
    <2>3. PICK w \in Top.ws : MessageDone(w, Top.slot, outside[w])
      BY <1>10 DEF CallbackReturns
    <2>4. w \in Workers /\ outside[w] \in Outside
      BY <2>2, <2>3 DEF Frame
    <2>5. Top.slot = "onclose" => ClosePending(w)
      BY <2>1, <2>3, TopType DEF ClosePending, Top
    <2>6. ClosePending(v)' => ClosePending(v)
      BY <2>1, PendingBelow
    <2> QED
      BY <2>1, <2>3, <2>4, <2>5, <2>6, MessageDoneGood
  <1>11. ASSUME ejsDestroyVM PROVE Good(v)'
    <2>1. UNCHANGED <<stack, inside>> /\ outQ' = <<>>
      BY <1>11 DEF ejsDestroyVM
    <2>3. outside'[v].state = outside[v].state
      <3>1. outside[v] \in Outside
        OBVIOUS
      <3> DEFINE b == /\ outside[v].linked
                      /\ ~\E i \in 1..Len(workers) : i % 2 = 1 /\ workers[i] = v
      <3>2. outside'[v] = [outside[v] EXCEPT !.linked = b]
        BY <1>11 DEF ejsDestroyVM, ejsRemoveWorkers
      <3> HIDE DEF b
      <3> QED
        BY <3>1, <3>2 DEF Outside
    <2>4. ClosePending(v)' => ClosePending(v)
      BY <2>1 DEF ClosePending
    <2> QED
      BY <2>1, <2>3, <2>4, Unmoved
  <1>12. ASSUME MessageTooLate PROVE Good(v)'
    BY <1>12, CrashGood DEF MessageTooLate
  <1> QED
    BY <1>1, <1>2, <1>5, <1>6, <1>7, <1>8, <1>9, <1>10, <1>11, <1>12 DEF OuterLoop

\* Queueing a message keeps the invariant of that worker.
LEMMA QueueGood ==
    ASSUME TypeOK, Lifecycle, NEW v \in Workers, inside[v].state # "NONE",
           NEW event \in {"main", "msg"},
           inside'[v].queue = Append(inside[v].queue, event),
           inside'[v].state = inside[v].state, inside'[v].pc = inside[v].pc,
           IF event = "msg" THEN outside'[v].state = outside[v].state
           ELSE outside[v].state = "BEGIN" /\ outside'[v].state = "STARTED",
           ClosePending(v)' => ClosePending(v)
    PROVE  Good(v)'
  <1> DEFINE q == inside[v].queue
             r == inside'[v].queue
  <1>1. StatesAgree(v) /\ MainAgrees(v) /\ CloseAgrees(v)
    BY DEF Lifecycle
  <1>2. q \in Seq({"main", "msg"})
    BY DEF TypeOK, Inside
  <1>3. /\ Len(r) = Len(q) + 1 /\ r[Len(q) + 1] = event
        /\ \A k \in 1..Len(q) : r[k] = q[k]
        /\ Len(q) \in Nat
    BY <1>2
  <1>4. event = "main" => inside[v].state = "BEGIN" /\ \A k \in 1..Len(q) : q[k] # "main"
    BY <1>1 DEF StatesAgree, MainAgrees, TypeOK, Inside, States
  <1>5. StatesAgree(v)'
    BY <1>1, <1>4 DEF StatesAgree
  <1>6. MainAgrees(v)'
    <2> HIDE DEF r
    <2> SUFFICES ASSUME NEW k \in 1..Len(r), r[k] = "main"
                 PROVE  /\ inside'[v].state = "BEGIN" /\ outside'[v].state = "STARTED"
                        /\ \A j \in 1..Len(r) : r[j] = "main" => j = k
      BY DEF MainAgrees, r
    <2>1. CASE event = "main"
      <3>1. inside'[v].state = "BEGIN" /\ outside'[v].state = "STARTED"
        BY <1>4, <2>1
      <3> HIDE DEF q
      <3>2. \A j \in 1..Len(r) : r[j] = "main" => j = Len(q) + 1
        <4> SUFFICES ASSUME NEW j \in 1..Len(r), r[j] = "main", j # Len(q) + 1 PROVE FALSE
          OBVIOUS
        <4>1. j \in 1..Len(q)
          BY <1>3
        <4> QED
          BY <1>3, <1>4, <2>1, <4>1
      <3> QED
        BY <3>1, <3>2
    <2>2. CASE event = "msg"
      <3>1. k \in 1..Len(q) /\ q[k] = "main"
        BY <1>3, <2>2
      <3>2. /\ inside[v].state = "BEGIN" /\ outside[v].state = "STARTED"
            /\ \A j \in 1..Len(q) : q[j] = "main" => j = k
        BY <1>1, <3>1 DEF MainAgrees
      <3> QED
        BY <1>3, <2>2, <3>2
    <2> QED
      BY <2>1, <2>2
  <1>7. CloseAgrees(v)'
    BY <1>1 DEF CloseAgrees
  <1> QED
    BY <1>5, <1>6, <1>7 DEF Good

\* A worker that is created keeps the invariant.
LEMMA CreateGood ==
    ASSUME TypeOK, Lifecycle, NEW w \in Workers, NEW hasScript \in BOOLEAN,
           initWorker(w, hasScript), UNCHANGED <<stack, outQ>>, NEW v \in Workers
    PROVE  Good(v)'
  <1>0. ClosePending(v)' <=> ClosePending(v)
    BY DEF ClosePending
  <1>1. CASE v # w
    <2>1. outside'[v] = outside[v] /\ inside'[v] = inside[v]
      BY <1>1 DEF initWorker, TypeOK
    <2> QED
      BY <1>0, <2>1, Untouched
  <1>2. CASE v = w
    <2>0. StatesAgree(w) /\ CloseAgrees(w) /\ outside[w].state = "NONE"
      BY DEF Lifecycle, initWorker
    <2>1. inside[w].state = "NONE" /\ inside[w].pc = "idle"
      BY <2>0 DEF StatesAgree, TypeOK, Inside, States
    <2>2. /\ inside'[w].state = "BEGIN" /\ inside'[w].pc = "idle"
          /\ inside'[w].queue = IF hasScript THEN <<"main">> ELSE <<>>
      <3>1. inside[w] \in Inside
        BY DEF TypeOK
      <3>2. inside'[w] = [inside[w] EXCEPT !.state = "BEGIN",
                             !.queue = IF hasScript THEN <<"main">> ELSE <<>>]
        BY DEF initWorker, TypeOK
      <3> QED
        BY <2>1, <3>1, <3>2 DEF Inside
    <2>3. outside'[w].state = IF hasScript THEN "STARTED" ELSE "BEGIN"
      <3>1. outside[w] \in Outside
        BY DEF TypeOK
      <3>2. PICK cbs \in HandlerSets :
              outside'[w] = [outside[w] EXCEPT
                 !.state = IF hasScript THEN "STARTED" ELSE "BEGIN",
                 !.linked = TRUE, !.callbacks = cbs,
                 !.scriptFile = IF hasScript THEN "accepted" ELSE "none"]
        BY DEF initWorker, TypeOK
      <3> QED
        BY <3>1, <3>2 DEF Outside
    <2>4. StatesAgree(w)'
      BY <2>2, <2>3 DEF StatesAgree
    <2>5. MainAgrees(w)'
      <3>1. CASE hasScript
        BY <2>2, <2>3, <3>1 DEF MainAgrees
      <3>2. CASE ~hasScript
        BY <2>2, <3>2 DEF MainAgrees
      <3> QED
        BY <3>1, <3>2
    <2>6. CloseAgrees(w)'
      BY <1>0, <1>2, <2>0, <2>1 DEF CloseAgrees
    <2> QED
      BY <1>2, <2>4, <2>5, <2>6 DEF Good
  <1> QED
    BY <1>1, <1>2

\* A call of the outside code on one worker.
LEMMA LifecycleCall ==
    ASSUME TypeOK, Lifecycle, NEW w \in Workers, OuterCall(w), NEW v \in Workers
    PROVE  Good(v)'
  <1>0. ASSUME w \in Created PROVE inside[w].state # "NONE"
    BY <1>0 DEF Created, Lifecycle, StatesAgree
  <1>1. ASSUME NEW hasScript \in BOOLEAN, workerConstructor(w, hasScript) PROVE Good(v)'
    BY <1>1, CreateGood DEF workerConstructor
  <1>2. ASSUME NEW base \in Workers, workerClone(base, w) PROVE Good(v)'
    <2>1. CASE initWorker(w, FALSE)
      BY <1>2, <2>1, CreateGood DEF workerClone
    <2>2. CASE ~initWorker(w, FALSE)
      <3>1. UNCHANGED <<stack, outQ, outside, inside>>
        BY <1>2, <2>2 DEF workerClone
      <3>2. ClosePending(v)' => ClosePending(v)
        BY <3>1 DEF ClosePending
      <3> QED
        BY <3>1, <3>2, Untouched
    <2> QED
      BY <2>1, <2>2
  <1>3. ASSUME NEW via, NEW timeout, startWorker(w, via, timeout) PROVE Good(v)'
    <2>1. ClosePending(v)' => ClosePending(v)
      <3>1. outQ' = outQ
        BY <1>3 DEF startWorker
      <3>2. CASE UNCHANGED stack
        BY <3>1, <3>2 DEF ClosePending
      <3>3. CASE Block("eval", {w}, timeout = "timed")
        BY <3>1, <3>3, PendingBlock DEF TypeOK, Waits, Joins
      <3> QED
        BY <1>3, <3>2, <3>3 DEF startWorker
    <2>2. StoreScript(w, via) \in Outside /\ StoreScript(w, via).state = outside[w].state
      BY DEF StoreScript, TypeOK, Outside, Origins
    <2>3. CASE v # w
      <3>1. outside'[v] = outside[v] /\ inside'[v] = inside[v]
        BY <1>3, <2>3 DEF startWorker, TypeOK
      <3> QED
        BY <2>1, <3>1, Untouched
    <2>4. CASE v = w /\ outside[w].state # "BEGIN"
      <3>1. outside'[w].state = outside[w].state /\ inside'[w] = inside[w]
        BY <1>3, <2>2, <2>4 DEF startWorker, TypeOK
      <3> QED
        BY <2>1, <2>4, <3>1, Unmoved
    <2>5. CASE v = w /\ outside[w].state = "BEGIN"
      <3>1. outside'[w].state = "STARTED"
        BY <1>3, <2>2, <2>5 DEF startWorker, TypeOK, Outside
      <3>2. inside'[w] = [inside[w] EXCEPT !.queue = Append(@, "main")]
        BY <1>3, <2>5 DEF startWorker, TypeOK
      <3>3. /\ inside'[w].queue = Append(inside[w].queue, "main")
            /\ inside'[w].state = inside[w].state /\ inside'[w].pc = inside[w].pc
        BY <3>2 DEF TypeOK, Inside
      <3>4. inside[w].state # "NONE"
        BY <1>0, <1>3 DEF startWorker
      <3> QED
        BY <2>1, <2>5, <3>1, <3>3, <3>4, QueueGood
    <2> QED
      BY <2>3, <2>4, <2>5
  <1>4. ASSUME workerPostMessage(w) PROVE Good(v)'
    <2> DEFINE f == Activity("json", {w}, "none", FALSE)
    <2>1. UNCHANGED <<outQ, outside, inside>>
      BY <1>4 DEF workerPostMessage
    <2>2. stack' = stack \/ stack' = Append(stack, f)
      BY <1>4 DEF workerPostMessage
    <2>3. f.slot = "none"
      BY DEF Activity
    <2> HIDE DEF f
    <2>4. ClosePending(v)' => ClosePending(v)
      <3>1. CASE stack' = stack
        BY <2>1, <3>1 DEF ClosePending
      <3>2. CASE stack' = Append(stack, f)
        BY <2>1, <2>3, <3>2, PendingPush DEF TypeOK
      <3> QED
        BY <2>2, <3>1, <3>2
    <2> QED
      BY <2>1, <2>4, Untouched
  <1>9. ASSUME PostsMessage(w) PROVE Good(v)'
    <2>1. UNCHANGED <<outQ, outside>> /\ stack # <<>> /\ (stack' = Below \/ stack' = stack)
      BY <1>9 DEF PostsMessage, InCode
    <2>2. ClosePending(v)' => ClosePending(v)
      <3>1. CASE stack' = stack
        BY <2>1, <3>1 DEF ClosePending
      <3>2. CASE stack' = Below
        BY <2>1, <3>2, PendingBelow DEF TypeOK
      <3> QED
        BY <2>1, <3>1, <3>2
    <2>3. CASE v # w \/ UNCHANGED inside
      <3>1. inside'[v] = inside[v]
        BY <1>9, <2>3 DEF PostsMessage, TypeOK
      <3> QED
        BY <2>1, <2>2, <3>1, Untouched
    <2>4. CASE v = w /\ inside' = [inside EXCEPT ![w].queue = Append(@, "msg")]
      <3>1. /\ inside'[w].queue = Append(inside[w].queue, "msg")
            /\ inside'[w].state = inside[w].state /\ inside'[w].pc = inside[w].pc
        BY <2>4 DEF TypeOK, Inside
      <3>2. inside[w].state # "NONE"
        BY <1>0, <1>9 DEF PostsMessage
      <3> QED
        BY <2>1, <2>2, <2>4, <3>1, <3>2, QueueGood
    <2> QED
      BY <1>9, <2>3, <2>4 DEF PostsMessage
  <1>5. ASSUME workerTerminate(w) PROVE Good(v)'
    <2>1. UNCHANGED <<stack, outQ, outside>>
      BY <1>5 DEF workerTerminate
    <2>2. ClosePending(v)' => ClosePending(v)
      BY <2>1 DEF ClosePending
    <2>3. /\ inside'[v].state = inside[v].state /\ inside'[v].pc = inside[v].pc
          /\ inside'[v].queue = inside[v].queue
      <3>1. \/ inside' = inside
            \/ inside' = [inside EXCEPT ![w].exiting = TRUE]
        BY <1>5 DEF workerTerminate
      <3>2. inside[v] \in Inside /\ inside \in [Workers -> Inside]
        BY DEF TypeOK
      <3>3. inside'[v] = inside[v] \/ inside'[v] = [inside[v] EXCEPT !.exiting = TRUE]
        BY <3>1, <3>2
      <3> QED
        BY <3>2, <3>3 DEF Inside
    <2> QED
      BY <2>1, <2>2, <2>3, Unmoved
  <1>6. ASSUME workerPreload(w) PROVE Good(v)'
    <2>1. UNCHANGED <<outQ, outside, inside>>
      BY <1>6 DEF workerPreload
    <2>2. ClosePending(v)' => ClosePending(v)
      <3>1. CASE UNCHANGED stack
        BY <2>1, <3>1 DEF ClosePending
      <3>2. CASE Block("pre", {w}, FALSE)
        BY <2>1, <3>2, PendingBlock DEF TypeOK
      <3> QED
        BY <1>6, <3>1, <3>2 DEF workerPreload
    <2> QED
      BY <2>1, <2>2, Untouched
  <1>7. ASSUME PreloadReturns(w) PROVE Good(v)'
    <2>1. stack # <<>> /\ stack' = Below /\ UNCHANGED outside
      BY <1>7 DEF PreloadReturns
    <2>2. /\ inside'[v].state = inside[v].state /\ inside'[v].pc = inside[v].pc
          /\ inside'[v].queue = inside[v].queue
      <3>1. \/ inside' = inside
            \/ inside' = [inside EXCEPT ![w].exception = TRUE]
        BY <1>7 DEF PreloadReturns
      <3>2. inside[v] \in Inside /\ inside \in [Workers -> Inside]
        BY DEF TypeOK
      <3>3. inside'[v] = inside[v] \/ inside'[v] = [inside[v] EXCEPT !.exception = TRUE]
        BY <3>1, <3>2
      <3> QED
        BY <3>2, <3>3 DEF Inside
    <2>3. ClosePending(v)' => ClosePending(v)
      <3>1. CASE UNCHANGED outQ
        BY <2>1, <3>1, PendingBelow DEF TypeOK
      <3>2. CASE QueueOutside(w, "onerror")
        BY <2>1, <3>2, PendingQueue DEF TypeOK, Slots
      <3> QED
        BY <1>7, <3>1, <3>2 DEF PreloadReturns
    <2> QED
      BY <2>1, <2>2, <2>3, Unmoved
  <1>8. ASSUME NEW timed \in BOOLEAN, workerWaitForMessage(w, timed) PROVE Good(v)'
    <2>1. UNCHANGED <<outQ, inside>>
      BY <1>8 DEF workerWaitForMessage
    <2>2. outside'[v].state = outside[v].state
      BY <1>8 DEF workerWaitForMessage, TypeOK, Outside
    <2>3. ClosePending(v)' => ClosePending(v)
      BY <1>8, PendingBlock DEF workerWaitForMessage, TypeOK, Waits
    <2> QED
      BY <2>1, <2>2, <2>3, Unmoved
  <1> QED
    BY <1>1, <1>2, <1>3, <1>4, <1>5, <1>6, <1>7, <1>8, <1>9 DEF OuterCall

\* Removing the first event keeps MainAgrees when the states stay, and when
\* that event was workerMain leaves none behind.
LEMMA DequeueMain ==
    ASSUME NEW q \in Seq({"main", "msg"}), q # <<>>,
           \A j, k \in 1..Len(q) : q[j] = "main" /\ q[k] = "main" => j = k
    PROVE  /\ \A k \in 1..Len(Tail(q)) : k + 1 \in 1..Len(q) /\ Tail(q)[k] = q[k + 1]
           /\ Head(q) = "main" => \A k \in 1..Len(Tail(q)) : Tail(q)[k] # "main"
  <1>1. \A k \in 1..Len(Tail(q)) : k + 1 \in 1..Len(q) /\ Tail(q)[k] = q[k + 1]
    OBVIOUS
  <1>2. Head(q) = q[1] /\ 1 \in 1..Len(q)
    OBVIOUS
  <1>3. ASSUME Head(q) = "main", NEW k \in 1..Len(Tail(q)), Tail(q)[k] = "main" PROVE FALSE
    <2>1. k + 1 \in 1..Len(q) /\ q[k + 1] = "main"
      BY <1>1, <1>3
    <2>2. k + 1 = 1
      BY <1>2, <1>3, <2>1
    <2> QED
      BY <2>2
  <1> QED
    BY <1>1, <1>3

\* What a step that replaces inside[w] has to show.
LEMMA InsideGood ==
    ASSUME TypeOK, Lifecycle, NEW w \in Workers, NEW new, inside' = [inside EXCEPT ![w] = new],
           NEW v \in Workers,
           outside'[v].state = outside[v].state \/ v = w,
           ClosePending(v)' => ClosePending(v) \/ v = w,
           v = w => Good(w)'
    PROVE  Good(v)'
  <1>1. CASE v = w
    BY <1>1
  <1>2. CASE v # w
    <2>1. inside'[v] = inside[v]
      BY <1>2 DEF TypeOK
    <2> QED
      BY <1>2, <2>1, Unmoved
  <1> QED
    BY <1>1, <1>2

\* A step of the inside thread keeps the lifecycle of every worker.
LEMMA LifecycleInner ==
    ASSUME TypeOK, Lifecycle, NEW w \in Workers, Inner(w), NEW v \in Workers
    PROVE  Good(v)'
  <1>0. /\ StatesAgree(w) /\ MainAgrees(w) /\ CloseAgrees(w)
        /\ inside[w] \in Inside /\ inside \in [Workers -> Inside]
        /\ outside[w] \in Outside /\ outside \in [Workers -> Outside]
    BY DEF Lifecycle, TypeOK
  <1>1. /\ inside[w].queue \in Seq({"main", "msg"})
        /\ \A j, k \in 1..Len(inside[w].queue) :
              inside[w].queue[j] = "main" /\ inside[w].queue[k] = "main" => j = k
    BY <1>0 DEF Inside, MainAgrees
  <1>2. inside[w].state \in {"NONE", "BEGIN", "STARTED", "CLOSED"}
    BY <1>0 DEF Inside, States
  <1>3. inside[w].pc \in {"main", "error", "close"} =>
            inside[w].state = "STARTED" /\ outside[w].state = "STARTED"
    BY <1>0, <1>2 DEF StatesAgree
  <1>4. inside[w].queue # <<>> => inside[w].state # "NONE"
    BY <1>0 DEF StatesAgree
  <1>5. ASSUME workerMain(w) PROVE Good(v)'
    <2>1. CASE Crash("workerMain")
      BY <2>1, CrashGood
    <2>2. CASE ~Crash("workerMain")
      <3> DEFINE q == inside[w].queue
      <3>1. /\ UNCHANGED <<stack, outQ, outside>> /\ q # <<>> /\ Head(q) = "main"
        BY <1>5, <2>2 DEF workerMain, InsideStep
      <3>2. inside[w].state = "BEGIN" /\ outside[w].state = "STARTED"
        <4>1. 1 \in 1..Len(q) /\ q[1] = "main"
          BY <1>1, <3>1
        <4> QED
          BY <1>0, <4>1 DEF MainAgrees
      <3>3. \A k \in 1..Len(Tail(q)) : Tail(q)[k] # "main"
        BY <1>1, <3>1, DequeueMain
      <3>4. PICK new : /\ inside' = [inside EXCEPT ![w] = new]
                       /\ new.queue = Tail(q) /\ new.state = "STARTED"
                       /\ new.pc \in {"error", "main"}
        <4> DEFINE b       == (inside[w].pc = "msg")
                   started == [inside[w] EXCEPT !.queue = Tail(@), !.state = "STARTED",
                                                !.nested = b]
                   script  == IF outside[w].scriptFile = "none" THEN outside[w].scriptLiteral
                              ELSE outside[w].scriptFile
        <4>1. \/ inside' = [inside EXCEPT ![w] = [started EXCEPT !.pc = "error"]]
              \/ inside' = [inside EXCEPT ![w] = [started EXCEPT !.pc = "main", !.ran = script]]
          BY <1>5, <2>2 DEF workerMain, InsideStep
        <4> HIDE DEF script, b
        <4>3. \A new \in {[started EXCEPT !.pc = "error"],
                          [started EXCEPT !.pc = "main", !.ran = script]} :
                 /\ new.queue = Tail(q) /\ new.state = "STARTED"
                 /\ new.pc \in {"error", "main"}
          BY <1>0, <3>1 DEF Inside
        <4> HIDE DEF started, q
        <4> QED
          BY <4>1, <4>3
      <3>5. inside'[w] = new
        BY <1>0, <3>4
      <3>6. Good(w)'
        <4>1. StatesAgree(w)'
          BY <3>1, <3>2, <3>4, <3>5 DEF StatesAgree
        <4>2. MainAgrees(w)'
          <5> DEFINE t == inside'[w].queue
          <5>1. t = Tail(q)
            BY <3>4, <3>5
          <5> HIDE DEF t
          <5>2. \A k \in 1..Len(t) : t[k] # "main"
            BY <3>3, <5>1
          <5> QED
            BY <5>2 DEF MainAgrees, t
        <4>3. ~ClosePending(w)
          BY <1>0, <3>2 DEF CloseAgrees
        <4>4. CloseAgrees(w)'
          BY <3>1, <4>3 DEF CloseAgrees, ClosePending
        <4> QED
          BY <4>1, <4>2, <4>4 DEF Good
      <3>7. ClosePending(v)' => ClosePending(v)
        BY <3>1 DEF ClosePending
      <3> QED
        BY <3>1, <3>4, <3>6, <3>7, InsideGood
    <2> QED
      BY <2>1, <2>2
  <1>6. ASSUME InsidePost(w) PROVE Good(v)'
    <2>1. CASE Crash("postInside")
      BY <2>1, CrashGood
    <2>2. CASE ~Crash("postInside")
      <3>1. QueueOutside(w, "onmessage") /\ UNCHANGED <<stack, outside, inside>>
        BY <1>6, <2>2 DEF InsidePost
      <3>2. ClosePending(v)' => ClosePending(v)
        BY <3>1, PendingQueue DEF TypeOK, Slots
      <3> QED
        BY <3>1, <3>2, Untouched
    <2> QED
      BY <2>1, <2>2
  <1>7. ASSUME NEW new, InsideStep(w, new), new.state = inside[w].state,
               new.pc = inside[w].pc, new.queue = inside[w].queue
        PROVE  Good(v)'
    <2>1. UNCHANGED <<stack, outQ, outside>> /\ inside' = [inside EXCEPT ![w] = new]
      BY <1>7 DEF InsideStep
    <2>2. \A u \in Workers : ClosePending(u)' => ClosePending(u)
      BY <2>1 DEF ClosePending
    <2>3. inside'[w] = new
      BY <1>0, <2>1
    <2>4. Good(w)'
      BY <1>7, <2>1, <2>2, <2>3, Unmoved
    <2> QED
      BY <2>1, <2>2, <2>4, InsideGood
  \* A change of the inside worker that keeps its state and does not post.
  <1>8. ASSUME NEW new, InsideStep(w, new), new.state = inside[w].state,
               inside[w].state # "NONE",
               \/ inside[w].pc = new.pc
               \/ new.pc \in {"idle", "msg"} /\ inside[w].pc \in {"idle", "msg"}
               \/ new.pc \in {"error", "close"} /\ inside[w].pc = "main",
               \/ new.queue = inside[w].queue
               \/ inside[w].queue # <<>> /\ new.queue = Tail(inside[w].queue)
                  /\ Head(inside[w].queue) = "msg"
               \/ new.queue = <<>>
        PROVE  Good(v)'
    <2>1. UNCHANGED <<stack, outQ, outside>> /\ inside' = [inside EXCEPT ![w] = new]
      BY <1>8 DEF InsideStep
    <2>2. \A u \in Workers : ClosePending(u)' => ClosePending(u)
      BY <2>1 DEF ClosePending
    <2>3. inside'[w] = new
      BY <1>0, <2>1
    <2>4. StatesAgree(w)'
      BY <1>0, <1>3, <1>8, <2>1, <2>3 DEF StatesAgree
    <2>5. MainAgrees(w)'
      <3>1. CASE new.queue = inside[w].queue
        BY <1>0, <1>8, <2>1, <2>3, <3>1 DEF MainAgrees
      <3>2. CASE new.queue = <<>>
        BY <2>3, <3>2 DEF MainAgrees
      <3>3. CASE inside[w].queue # <<>> /\ new.queue = Tail(inside[w].queue)
        <4> DEFINE q == inside[w].queue
        <4>1. \A k \in 1..Len(Tail(q)) : k + 1 \in 1..Len(q) /\ Tail(q)[k] = q[k + 1]
          BY <1>1, <3>3, DequeueMain
        <4>2. ASSUME NEW k \in 1..Len(Tail(q)), Tail(q)[k] = "main"
              PROVE  /\ inside[w].state = "BEGIN" /\ outside[w].state = "STARTED"
                     /\ \A j \in 1..Len(Tail(q)) : Tail(q)[j] = "main" => j = k
          <5>1. k + 1 \in 1..Len(q) /\ q[k + 1] = "main"
            BY <4>1, <4>2
          <5>2. inside[w].state = "BEGIN" /\ outside[w].state = "STARTED"
            BY <1>0, <5>1 DEF MainAgrees
          <5>3. ASSUME NEW j \in 1..Len(Tail(q)), Tail(q)[j] = "main" PROVE j = k
            <6>1. j + 1 \in 1..Len(q) /\ q[j + 1] = "main"
              BY <4>1, <5>3
            <6>2. j + 1 = k + 1
              BY <1>1, <5>1, <6>1
            <6> QED
              BY <6>2
          <5> QED
            BY <5>2, <5>3
        <4>3. outside'[w].state = outside[w].state
          BY <2>1
        <4> QED
          BY <1>8, <2>3, <3>3, <4>2, <4>3 DEF MainAgrees
      <3> QED
        BY <1>8, <3>1, <3>2, <3>3
    <2>6. CloseAgrees(w)'
      BY <1>0, <1>3, <1>8, <2>2, <2>3 DEF CloseAgrees
    <2>7. Good(w)'
      BY <2>4, <2>5, <2>6 DEF Good
    <2> QED
      BY <2>1, <2>2, <2>7, InsideGood
  <1>17. ASSUME InsidePostWaits(w) PROVE Good(v)'
    <2> DEFINE new == [inside[w] EXCEPT !.posting = "yes"]
    <2>1. new.state = inside[w].state /\ new.pc = inside[w].pc /\ new.queue = inside[w].queue
      BY <1>0 DEF Inside
    <2>2. InsideStep(w, new)
      BY <1>17 DEF InsidePostWaits
    <2> HIDE DEF new
    <2> QED
      BY <1>7, <2>1, <2>2
  <1>18. ASSUME InsidePostResumes(w) PROVE Good(v)'
    <2>1. CASE Crash("postMessage")
      BY <2>1, CrashGood
    <2>2. CASE ~Crash("postMessage")
      <3>1. PICK p : /\ QueueOutside(w, "onmessage") /\ UNCHANGED <<stack, outside>>
                     /\ inside' = [inside EXCEPT ![w].posting = p]
        BY <1>18, <2>2 DEF InsidePostResumes
      <3>2. ClosePending(v)' => ClosePending(v)
        BY <3>1, PendingQueue DEF TypeOK, Slots
      <3>3. /\ inside'[v].state = inside[v].state /\ inside'[v].pc = inside[v].pc
            /\ inside'[v].queue = inside[v].queue
        <4>1. inside[v] \in Inside
          BY DEF TypeOK
        <4>2. inside'[v] = inside[v] \/ inside'[v] = [inside[v] EXCEPT !.posting = p]
          BY <1>0, <3>1
        <4> QED
          BY <4>1, <4>2 DEF Inside
      <3> QED
        BY <3>1, <3>2, <3>3, Unmoved
    <2> QED
      BY <2>1, <2>2
  <1>9. ASSUME workerExit(w) PROVE Good(v)'
    <2> DEFINE new == [inside[w] EXCEPT !.exiting = TRUE]
    <2>1. new.state = inside[w].state /\ new.pc = inside[w].pc /\ new.queue = inside[w].queue
      BY <1>0 DEF Inside
    <2>2. InsideStep(w, new)
      BY <1>9 DEF workerExit
    <2> HIDE DEF new
    <2> QED
      BY <1>7, <2>1, <2>2
  <1>10. ASSUME InsideMessage(w) PROVE Good(v)'
    <2>1. CASE Crash("doMessage")
      BY <2>1, CrashGood
    <2>2. CASE ~Crash("doMessage")
      <3> DEFINE pc  == IF inside[w].pc = "idle" /\ ~inside[w].exception
                        THEN "msg" ELSE inside[w].pc
                 new == [inside[w] EXCEPT !.queue = Tail(@), !.pc = pc]
      <3>1. /\ inside[w].queue # <<>> /\ Head(inside[w].queue) = "msg"
            /\ inside[w].pc \in {"idle", "main", "msg"}
        BY <1>10 DEF InsideMessage
      <3>2. InsideStep(w, new)
        BY <1>10, <2>2 DEF InsideMessage
      <3>3. pc \in {"msg", inside[w].pc} /\ (pc = "msg" => inside[w].pc \in {"idle", "msg"})
        BY <3>1
      <3> HIDE DEF pc
      <3>4. /\ new.state = inside[w].state /\ new.pc = pc
            /\ new.queue = Tail(inside[w].queue)
        BY <1>0 DEF Inside
      <3> HIDE DEF new
      <3>5. \/ inside[w].pc = new.pc
            \/ new.pc \in {"idle", "msg"} /\ inside[w].pc \in {"idle", "msg"}
            \/ new.pc \in {"error", "close"} /\ inside[w].pc = "main"
        BY <3>3, <3>4
      <3> QED
        BY <1>4, <1>8, <3>1, <3>2, <3>4, <3>5
    <2> QED
      BY <2>1, <2>2
  <1>11. ASSUME NEW throws \in BOOLEAN, InsideMessageDone(w, throws) PROVE Good(v)'
    <2> DEFINE e   == inside[w].exception \/ throws
               p   == IF inside[w].posting = "yes" THEN "no" ELSE inside[w].posting
               new == [inside[w] EXCEPT !.pc = "idle", !.exception = e, !.posting = p]
    <2>1. InsideStep(w, new) /\ inside[w].pc = "msg"
      BY <1>11 DEF InsideMessageDone
    <2> HIDE DEF e, p
    <2>2. /\ new.state = inside[w].state /\ new.pc = "idle"
          /\ new.queue = inside[w].queue
      BY <1>0 DEF Inside
    <2> HIDE DEF new
    <2>3. inside[w].state # "NONE"
      BY <1>0, <2>1 DEF StatesAgree
    <2> QED
      BY <1>8, <2>1, <2>2, <2>3
  <1>12. ASSUME NEW throws \in BOOLEAN, ScriptEnds(w, throws) PROVE Good(v)'
    <2>1. inside[w].pc = "main" /\ inside[w].state # "NONE"
      BY <1>3, <1>12 DEF ScriptEnds
    <2>2. PICK new : /\ InsideStep(w, new) /\ new.state = inside[w].state
                     /\ new.pc \in {"error", "close"} /\ new.queue = inside[w].queue
      <3> DEFINE a == [inside[w] EXCEPT !.pc = "error", !.exception = TRUE,
                                        !.failure = "raised"]
                 b == [inside[w] EXCEPT !.pc = "close"]
      <3>1. InsideStep(w, a) \/ InsideStep(w, b)
        BY <1>12 DEF ScriptEnds
      <3>2. /\ a.state = inside[w].state /\ a.pc = "error" /\ a.queue = inside[w].queue
            /\ b.state = inside[w].state /\ b.pc = "close" /\ b.queue = inside[w].queue
        BY <1>0 DEF Inside
      <3> HIDE DEF a, b
      <3> QED
        BY <3>1, <3>2
    <2> QED
      BY <1>8, <2>1, <2>2
  <1>13. ASSUME handleError(w) PROVE Good(v)'
    <2>1. CASE Crash("handleError")
      BY <2>1, CrashGood
    <2>2. CASE ~Crash("handleError")
      <3> DEFINE new == [inside[w] EXCEPT !.exception = FALSE, !.pc = "close"]
      <3>1. /\ QueueOutside(w, "onerror") /\ UNCHANGED <<stack, outside>>
            /\ inside[w].pc = "error" /\ inside' = [inside EXCEPT ![w] = new]
        BY <1>13, <2>2 DEF handleError
      <3>2. \A u \in Workers : ClosePending(u)' => ClosePending(u)
        BY <3>1, PendingQueue DEF TypeOK, Slots
      <3>3. /\ inside'[w] = new /\ new.state = inside[w].state
            /\ new.pc = "close" /\ new.queue = inside[w].queue
        BY <1>0, <3>1 DEF Inside
      <3> HIDE DEF new
      <3>4. StatesAgree(w)'
        BY <1>3, <3>1, <3>3 DEF StatesAgree
      <3>5. MainAgrees(w)'
        BY <1>0, <3>1, <3>3 DEF MainAgrees
      <3>6. CloseAgrees(w)'
        BY <1>0, <3>1, <3>2, <3>3 DEF CloseAgrees
      <3>7. Good(w)'
        BY <3>4, <3>5, <3>6 DEF Good
      <3> QED
        BY <3>1, <3>2, <3>7, InsideGood
    <2> QED
      BY <2>1, <2>2
  <1>14. ASSUME CloseInside(w) PROVE Good(v)'
    <2> DEFINE new == [inside[w] EXCEPT !.state = "CLOSED", !.pc = "closing"]
    <2>1. /\ UNCHANGED <<stack, outQ, outside>> /\ inside[w].pc = "close"
          /\ inside' = [inside EXCEPT ![w] = new]
      BY <1>14 DEF CloseInside, InsideStep
    <2>2. \A u \in Workers : ClosePending(u)' => ClosePending(u)
      BY <2>1 DEF ClosePending
    <2>3. /\ inside'[w] = new /\ new.state = "CLOSED"
          /\ new.pc = "closing" /\ new.queue = inside[w].queue
      BY <1>0, <2>1 DEF Inside
    <2> HIDE DEF new
    <2>5. StatesAgree(w)'
      BY <1>3, <2>1, <2>3 DEF StatesAgree
    <2>6. MainAgrees(w)'
      <3>1. \A k \in 1..Len(inside[w].queue) : inside[w].queue[k] # "main"
        BY <1>0, <1>3, <2>1 DEF MainAgrees
      <3> QED
        BY <2>3, <3>1 DEF MainAgrees
    <2>7. CloseAgrees(w)'
      BY <1>0, <1>3, <2>1, <2>2 DEF CloseAgrees
    <2>8. Good(w)'
      BY <2>5, <2>6, <2>7 DEF Good
    <2> QED
      BY <2>1, <2>2, <2>8, InsideGood
  <1>19. ASSUME CloseOutside(w) PROVE Good(v)'
    <2> DEFINE new == [inside[w] EXCEPT !.pc = "post"]
    <2>1. /\ UNCHANGED <<stack, outQ>> /\ inside[w].pc = "closing"
          /\ inside' = [inside EXCEPT ![w] = new]
          /\ outside' = [outside EXCEPT ![w].state = "CLOSED"]
      BY <1>19 DEF CloseOutside
    <2>2. \A u \in Workers : ClosePending(u)' => ClosePending(u)
      BY <2>1 DEF ClosePending
    <2>3. /\ inside'[w] = new /\ new.state = inside[w].state
          /\ new.pc = "post" /\ new.queue = inside[w].queue
      BY <1>0, <2>1 DEF Inside
    <2>4. /\ outside'[w].state = "CLOSED"
          /\ v # w => outside'[v].state = outside[v].state
      BY <1>0, <2>1 DEF Outside
    <2> HIDE DEF new
    <2>9. inside[w].state = "CLOSED"
      BY <1>0, <1>2, <2>1 DEF StatesAgree
    <2>5. StatesAgree(w)'
      BY <2>3, <2>4, <2>9 DEF StatesAgree
    <2>6. MainAgrees(w)'
      <3>1. \A k \in 1..Len(inside[w].queue) : inside[w].queue[k] # "main"
        BY <1>0, <2>9 DEF MainAgrees
      <3> QED
        BY <2>3, <3>1 DEF MainAgrees
    <2>7. CloseAgrees(w)'
      BY <1>0, <2>1, <2>2 DEF CloseAgrees
    <2>8. Good(w)'
      BY <2>5, <2>6, <2>7 DEF Good
    <2> QED
      BY <2>1, <2>2, <2>4, <2>8, InsideGood
  <1>15. ASSUME PostClose(w) PROVE Good(v)'
    <2> DEFINE pc  == IF inside[w].nested THEN "msg" ELSE "idle"
               new == [inside[w] EXCEPT !.pc = pc, !.nested = FALSE]
    <2>1. /\ QueueOutside(w, "onclose") /\ UNCHANGED <<stack, outside>>
          /\ inside[w].pc = "post" /\ inside' = [inside EXCEPT ![w] = new]
      BY <1>15 DEF PostClose
    <2>2. v # w => (ClosePending(v)' => ClosePending(v))
      BY <2>1, PendingQueue DEF TypeOK, Slots
    <2>9. pc \in {"idle", "msg"}
      OBVIOUS
    <2> HIDE DEF pc
    <2>3. /\ inside'[w] = new /\ new.state = inside[w].state
          /\ new.pc = pc /\ new.queue = inside[w].queue
      BY <1>0, <2>1 DEF Inside
    <2> HIDE DEF new
    <2>4. inside[w].state = "CLOSED" /\ outside[w].state = "CLOSED"
      BY <1>0, <1>2, <2>1 DEF StatesAgree
    <2>5. StatesAgree(w)'
      BY <1>0, <2>1, <2>3, <2>4, <2>9 DEF StatesAgree
    <2>6. MainAgrees(w)'
      BY <1>0, <2>1, <2>3 DEF MainAgrees
    <2>7. CloseAgrees(w)'
      BY <2>3, <2>4, <2>9 DEF CloseAgrees
    <2>8. Good(w)'
      BY <2>5, <2>6, <2>7 DEF Good
    <2> QED
      BY <2>1, <2>2, <2>8, InsideGood
  <1>16. ASSUME CollectInside(w) PROVE Good(v)'
    <2> DEFINE new == [inside[w] EXCEPT !.queue = <<>>]
    <2>1. InsideStep(w, new) /\ inside[w].queue # <<>>
      BY <1>16 DEF CollectInside
    <2>2. new.state = inside[w].state /\ new.pc = inside[w].pc /\ new.queue = <<>>
      BY <1>0 DEF Inside
    <2> HIDE DEF new
    <2> QED
      BY <1>4, <1>8, <2>1, <2>2
  <1> QED
    BY <1>5, <1>6, <1>9, <1>10, <1>11, <1>12, <1>13, <1>14, <1>15, <1>16,
       <1>17, <1>18, <1>19 DEF Inner

\* Every step preserves the lifecycle invariant.
LEMMA LifecycleNext == TypeOK /\ Lifecycle /\ [Next]_vars => Lifecycle'
  <1> SUFFICES ASSUME TypeOK, Lifecycle, [Next]_vars, NEW v \in Workers PROVE Good(v)'
    BY DEF Lifecycle, Good
  <1>1. CASE OuterCode \/ OuterJoin \/ OuterLoop \/ ejsDestroyVM
    BY <1>1, LifecycleOuter
  <1>2. ASSUME NEW w \in Workers, OuterCall(w) PROVE Good(v)'
    BY <1>2, LifecycleCall
  <1>3. ASSUME NEW w \in Workers, Inner(w) PROVE Good(v)'
    BY <1>3, LifecycleInner
  <1>4. CASE UNCHANGED vars
    <2>1. UNCHANGED <<stack, outQ, outside, inside>>
      BY <1>4 DEF vars
    <2>2. ClosePending(v)' => ClosePending(v)
      BY <2>1 DEF ClosePending
    <2> QED
      BY <2>1, <2>2, Untouched
  <1> QED
    BY <1>1, <1>2, <1>3, <1>4 DEF Next

\* The states of the two objects of every worker, what its thread is doing
\* and the events still queued always agree, for any number of workers and
\* any nesting of callbacks.
THEOREM LifecycleCorrect == Spec => []Lifecycle
  <1>1. Init => TypeOK /\ Lifecycle
    BY TypeInit, LifecycleInit
  <1>2. TypeOK /\ Lifecycle /\ [Next]_vars => TypeOK' /\ Lifecycle'
    BY TypeNext, LifecycleNext
  <1> QED
    BY <1>1, <1>2, PTL DEF Spec

\* A worker is COMPLETE only when its thread is out of workerMain.
THEOREM CompleteAfterMainCorrect == Spec => []CompleteAfterMain
  <1>1. TypeOK /\ Lifecycle => CompleteAfterMain
    <2> SUFFICES ASSUME TypeOK, Lifecycle, NEW w \in Workers, outside[w].state = "COMPLETE"
                 PROVE  inside[w].state = "CLOSED" /\ inside[w].pc \in {"idle", "msg"}
      BY DEF CompleteAfterMain
    <2>1. StatesAgree(w) /\ inside[w] \in Inside
      BY DEF Lifecycle, TypeOK
    <2>2. inside[w].state \in {"NONE", "BEGIN", "STARTED", "CLOSED"}
      BY <2>1 DEF Inside, States
    <2> QED
      BY <2>1, <2>2 DEF StatesAgree
  <1> QED
    BY <1>1, TypeCorrect, LifecycleCorrect, PTL

-----------------------------------------------------------------------------
(* No worker goes back to an earlier state.                                *)

Advance(v) ==
    /\ Rank[outside[v].state] <= Rank[outside'[v].state]
    /\ Rank[inside[v].state] <= Rank[inside'[v].state]

\* The order of the states.
LEMMA RankFacts ==
    /\ Rank["NONE"] = 0 /\ Rank["BEGIN"] = 1 /\ Rank["STARTED"] = 2
    /\ Rank["CLOSED"] = 3 /\ Rank["COMPLETE"] = 4
    /\ \A s \in States : Rank[s] \in 0..4
  BY DEF Rank, States

\* A worker whose two states stay as they are does not go back.
LEMMA Stays ==
    ASSUME TypeOK, NEW v \in Workers,
           outside'[v].state = outside[v].state, inside'[v].state = inside[v].state
    PROVE  Advance(v)
  <1>1. outside[v].state \in States /\ inside[v].state \in States
    BY DEF TypeOK, Outside, Inside
  <1>2. Rank[outside[v].state] \in 0..4 /\ Rank[inside[v].state] \in 0..4
    BY <1>1, RankFacts
  <1> QED
    BY <1>2 DEF Advance

\* The end of a message completes a CLOSED worker, or changes no state.
LEMMA MessageDoneAdvance ==
    ASSUME TypeOK, Lifecycle, NEW w \in Workers, NEW slot, NEW worker \in Outside,
           worker.state = outside[w].state, MessageDone(w, slot, worker),
           slot = "onclose" => ClosePending(w), NEW v \in Workers,
           inside'[v].state = inside[v].state
    PROVE  Advance(v)
  <1>1. CASE slot = "onclose" /\ v = w
    <2>1. inside[w].state = "CLOSED" /\ StatesAgree(w)
      BY <1>1 DEF Lifecycle, CloseAgrees
    <2>2. outside[w].state \in {"CLOSED", "COMPLETE"}
      BY <1>1, <2>1 DEF Lifecycle, CloseAgrees, StatesAgree
    <2>3. outside'[w].state = "COMPLETE"
      BY <1>1 DEF MessageDone, TypeOK, Outside
    <2> QED
      BY <1>1, <2>1, <2>2, <2>3, RankFacts DEF Advance
  <1>2. CASE ~(slot = "onclose" /\ v = w)
    <2>1. outside'[v].state = outside[v].state
      BY <1>2 DEF MessageDone, TypeOK
    <2> QED
      BY <2>1, Stays
  <1> QED
    BY <1>1, <1>2

\* A step of the outside thread that is not a call on one worker.
LEMMA AdvanceOuter ==
    ASSUME TypeOK, Lifecycle, OuterCode \/ OuterJoin \/ OuterLoop \/ ejsDestroyVM,
           NEW v \in Workers
    PROVE  Advance(v)
  <1>1. CASE OuterCode \/ OuterJoin
    <2>1. UNCHANGED <<outside, inside>>
      BY <1>1 DEF OuterCode, RunScript, TimerClears, ThrowOrCatch, ScriptReturns,
                  OuterJoin, workerJoin
    <2> QED
      BY <2>1, Stays
  <1>2. CASE JoinChecks \/ JoinPolls \/ CallReturns
    <2>1. UNCHANGED <<outside, inside>>
      BY <1>2 DEF JoinChecks, JoinPolls, CallReturns
    <2> QED
      BY <2>1, Stays
  <1>3. CASE WaitPolls
    <2>1. outside[v] \in Outside
      BY DEF TypeOK
    <2> DEFINE b == outside[v].gotMessage /\ v \notin Top.ws
    <2>2. outside'[v] = outside[v] \/ outside'[v] = [outside[v] EXCEPT !.gotMessage = b]
      BY <1>3 DEF WaitPolls
    <2> HIDE DEF b
    <2>3. outside'[v].state = outside[v].state
      BY <2>1, <2>2 DEF Outside
    <2>4. inside' = inside
      BY <1>3 DEF WaitPolls
    <2> QED
      BY <2>3, <2>4, Stays
  <1>4. CASE doMessage
    <2> DEFINE w    == Head(outQ).worker
               slot == Head(outQ).slot
               a    == Awaited(w)
               got  == [outside[w] EXCEPT !.gotMessage = @ \/ a]
    <2>1. outQ # <<>> /\ Head(outQ) \in Message
      BY <1>4 DEF doMessage, CanDispatch, TypeOK
    <2>2. w \in Workers /\ slot \in Slots
      BY <2>1 DEF Message
    <2>3. \/ outside' = [outside EXCEPT ![w] = got]
          \/ MessageDone(w, slot, got)
      BY <1>4 DEF doMessage
    <2>4. inside' = [inside EXCEPT ![w].failure =
                        IF slot = "onerror" THEN Dispatched(@) ELSE @]
      BY <1>4 DEF doMessage
    <2>5. slot = "onclose" => ClosePending(w)
      <3>1. 1 \in 1..Len(outQ) /\ outQ[1] = Head(outQ)
        BY <2>1 DEF TypeOK
      <3> QED
        BY <3>1 DEF ClosePending
    <2> HIDE DEF w, slot, a
    <2>6. inside'[v].state = inside[v].state
      BY <2>2, <2>4 DEF TypeOK, Inside
    <2>7. got \in Outside /\ got.state = outside[w].state
      <3>1. ASSUME NEW r \in Outside
            PROVE  /\ [r EXCEPT !.gotMessage = @ \/ a] \in Outside
                   /\ [r EXCEPT !.gotMessage = @ \/ a].state = r.state
        BY DEF Outside
      <3> QED
        BY <2>2, <3>1 DEF TypeOK
    <2> HIDE DEF got
    <2>8. CASE outside' = [outside EXCEPT ![w] = got]
      <3>1. outside'[v].state = outside[v].state
        BY <2>2, <2>7, <2>8 DEF TypeOK
      <3> QED
        BY <2>6, <3>1, Stays
    <2>9. CASE MessageDone(w, slot, got)
      BY <2>2, <2>5, <2>6, <2>7, <2>9, MessageDoneAdvance
    <2> QED
      BY <2>3, <2>8, <2>9
  <1>5. CASE CallbackReturns
    <2>1. stack # <<>> /\ inside' = inside
      BY <1>5 DEF CallbackReturns, InCode
    <2>2. Top \in Frame
      BY <2>1, TopType DEF TypeOK
    <2>3. PICK w \in Top.ws : MessageDone(w, Top.slot, outside[w])
      BY <1>5 DEF CallbackReturns
    <2>4. w \in Workers /\ outside[w] \in Outside
      BY <2>2, <2>3 DEF Frame, TypeOK
    <2>5. Top.slot = "onclose" => ClosePending(w)
      BY <2>1, <2>3, TopType DEF ClosePending, Top, TypeOK
    <2> QED
      BY <2>1, <2>3, <2>4, <2>5, MessageDoneAdvance
  <1>6. CASE ejsDestroyVM
    <2>1. outside[v] \in Outside
      BY DEF TypeOK
    <2> DEFINE b == /\ outside[v].linked
                    /\ ~\E i \in 1..Len(workers) : i % 2 = 1 /\ workers[i] = v
    <2>2. outside'[v] = [outside[v] EXCEPT !.linked = b] /\ inside' = inside
      BY <1>6 DEF ejsDestroyVM, ejsRemoveWorkers
    <2> HIDE DEF b
    <2>3. outside'[v].state = outside[v].state
      BY <2>1, <2>2 DEF Outside
    <2> QED
      BY <2>2, <2>3, Stays
  <1>7. CASE MessageTooLate
    BY <1>7, Stays DEF MessageTooLate, Crash
  <1> QED
    BY <1>1, <1>2, <1>3, <1>4, <1>5, <1>6, <1>7 DEF OuterLoop

\* A new worker advances from NONE.
LEMMA CreateAdvance ==
    ASSUME TypeOK, Lifecycle, NEW w \in Workers, NEW hasScript \in BOOLEAN,
           initWorker(w, hasScript), NEW v \in Workers
    PROVE  Advance(v)
  <1>1. CASE v # w
    <2>1. outside'[v] = outside[v] /\ inside'[v] = inside[v]
      BY <1>1 DEF initWorker, TypeOK
    <2> QED
      BY <2>1, Stays
  <1>2. CASE v = w
    <2>1. outside[w].state = "NONE" /\ StatesAgree(w)
      BY DEF Lifecycle, initWorker
    <2>2. inside[w].state = "NONE"
      BY <2>1 DEF StatesAgree, TypeOK, Inside, States
    <2>3. inside'[w].state = "BEGIN"
      <3>1. inside[w] \in Inside
        BY DEF TypeOK
      <3>2. inside'[w] = [inside[w] EXCEPT !.state = "BEGIN",
                             !.queue = IF hasScript THEN <<"main">> ELSE <<>>]
        BY DEF initWorker, TypeOK
      <3> QED
        BY <3>1, <3>2 DEF Inside
    <2>4. outside'[w].state \in {"BEGIN", "STARTED"}
      <3>1. outside[w] \in Outside
        BY DEF TypeOK
      <3>2. PICK cbs \in HandlerSets :
              outside'[w] = [outside[w] EXCEPT
                 !.state = IF hasScript THEN "STARTED" ELSE "BEGIN",
                 !.linked = TRUE, !.callbacks = cbs,
                 !.scriptFile = IF hasScript THEN "accepted" ELSE "none"]
        BY DEF initWorker, TypeOK
      <3> QED
        BY <3>1, <3>2 DEF Outside
    <2> QED
      BY <1>2, <2>1, <2>2, <2>3, <2>4, RankFacts DEF Advance
  <1> QED
    BY <1>1, <1>2

\* A call of the outside code on one worker.
LEMMA AdvanceCall ==
    ASSUME TypeOK, Lifecycle, NEW w \in Workers, OuterCall(w), NEW v \in Workers
    PROVE  Advance(v)
  <1>0. /\ inside[v] \in Inside /\ inside \in [Workers -> Inside]
        /\ outside[v] \in Outside /\ outside \in [Workers -> Outside]
    BY DEF TypeOK
  <1>1. ASSUME NEW hasScript \in BOOLEAN, workerConstructor(w, hasScript) PROVE Advance(v)
    BY <1>1, CreateAdvance DEF workerConstructor
  <1>2. ASSUME NEW base \in Workers, workerClone(base, w) PROVE Advance(v)
    <2>1. CASE initWorker(w, FALSE)
      BY <2>1, CreateAdvance
    <2>2. CASE ~initWorker(w, FALSE)
      <3>1. UNCHANGED <<outside, inside>>
        BY <1>2, <2>2 DEF workerClone
      <3> QED
        BY <3>1, Stays
    <2> QED
      BY <2>1, <2>2
  <1>3. ASSUME NEW via, NEW timeout, startWorker(w, via, timeout) PROVE Advance(v)
    <2>1. StoreScript(w, via) \in Outside /\ StoreScript(w, via).state = outside[w].state
      BY DEF StoreScript, TypeOK, Outside, Origins
    <2>2. inside'[v].state = inside[v].state
      <3>1. \/ inside' = inside
            \/ inside' = [inside EXCEPT ![w].queue = Append(@, "main")]
        BY <1>3 DEF startWorker
      <3>2. inside'[v] = inside[v] \/ inside'[v] = [inside[v] EXCEPT !.queue = Append(@, "main")]
        BY <1>0, <3>1
      <3> QED
        BY <1>0, <3>2 DEF Inside
    <2>3. CASE v # w \/ outside[w].state # "BEGIN"
      <3>1. outside'[v].state = outside[v].state
        BY <1>0, <1>3, <2>1, <2>3 DEF startWorker
      <3> QED
        BY <2>2, <3>1, Stays
    <2>4. CASE v = w /\ outside[w].state = "BEGIN"
      <3>1. outside'[w].state = "STARTED"
        BY <1>0, <1>3, <2>1, <2>4 DEF startWorker, Outside
      <3>2. Rank[inside[v].state] \in 0..4
        BY <1>0, RankFacts DEF Inside
      <3> QED
        BY <2>2, <2>4, <3>1, <3>2, RankFacts DEF Advance
    <2> QED
      BY <2>3, <2>4
  <1>4. ASSUME \/ workerPostMessage(w) \/ PostsMessage(w) \/ workerTerminate(w)
               \/ PreloadReturns(w)
        PROVE  Advance(v)
    <2>1. \/ inside' = inside
          \/ inside' = [inside EXCEPT ![w].queue = Append(@, "msg")]
          \/ inside' = [inside EXCEPT ![w].exiting = TRUE]
          \/ inside' = [inside EXCEPT ![w].exception = TRUE]
      BY <1>4 DEF workerPostMessage, PostsMessage, workerTerminate, PreloadReturns
    <2>2. \/ inside'[v] = inside[v]
          \/ inside'[v] = [inside[v] EXCEPT !.queue = Append(@, "msg")]
          \/ inside'[v] = [inside[v] EXCEPT !.exiting = TRUE]
          \/ inside'[v] = [inside[v] EXCEPT !.exception = TRUE]
      BY <1>0, <2>1
    <2>3. inside'[v].state = inside[v].state
      BY <1>0, <2>2 DEF Inside
    <2>4. outside' = outside
      BY <1>4 DEF workerPostMessage, PostsMessage, workerTerminate, PreloadReturns
    <2> QED
      BY <2>3, <2>4, Stays
  <1>5. ASSUME workerPreload(w) PROVE Advance(v)
    BY <1>5, Stays DEF workerPreload
  <1>6. ASSUME NEW timed \in BOOLEAN, workerWaitForMessage(w, timed) PROVE Advance(v)
    <2>1. inside' = inside
      BY <1>6 DEF workerWaitForMessage
    <2>2. outside'[v].state = outside[v].state
      BY <1>6 DEF workerWaitForMessage, TypeOK, Outside
    <2> QED
      BY <2>1, <2>2, Stays
  <1> QED
    BY <1>1, <1>2, <1>3, <1>4, <1>5, <1>6 DEF OuterCall

\* A step of the inside thread: workerMain leaves BEGIN, its end leaves STARTED.
LEMMA AdvanceInner ==
    ASSUME TypeOK, Lifecycle, NEW w \in Workers, Inner(w), NEW v \in Workers
    PROVE  Advance(v)
  <1>0. /\ StatesAgree(w) /\ MainAgrees(w)
        /\ inside[w] \in Inside /\ inside \in [Workers -> Inside]
        /\ outside[w] \in Outside /\ outside \in [Workers -> Outside]
    BY DEF Lifecycle, TypeOK
  <1>1. ASSUME NEW f, Crash(f) PROVE Advance(v)
    BY <1>1, Stays DEF Crash
  <1>2. ASSUME NEW new, inside' = [inside EXCEPT ![w] = new], outside' = outside,
               new.state = inside[w].state
        PROVE  Advance(v)
    <2>1. inside'[v].state = inside[v].state
      BY <1>0, <1>2
    <2> QED
      BY <1>2, <2>1, Stays
  <1>3. ASSUME workerMain(w) PROVE Advance(v)
    <2>1. CASE Crash("workerMain")
      BY <1>1, <2>1
    <2>2. CASE ~Crash("workerMain")
      <3> DEFINE q == inside[w].queue
                 b == (inside[w].pc = "msg")
                 started == [inside[w] EXCEPT !.queue = Tail(@), !.state = "STARTED",
                                              !.nested = b]
                 script  == IF outside[w].scriptFile = "none" THEN outside[w].scriptLiteral
                            ELSE outside[w].scriptFile
      <3>1. outside' = outside /\ q # <<>> /\ Head(q) = "main"
        BY <1>3, <2>2 DEF workerMain, InsideStep
      <3>2. inside[w].state = "BEGIN"
        <4>1. 1 \in 1..Len(q) /\ q[1] = "main"
          BY <1>0, <3>1 DEF Inside
        <4> QED
          BY <1>0, <4>1 DEF MainAgrees
      <3>3. \/ inside' = [inside EXCEPT ![w] = [started EXCEPT !.pc = "error"]]
            \/ inside' = [inside EXCEPT ![w] = [started EXCEPT !.pc = "main", !.ran = script]]
        BY <1>3, <2>2 DEF workerMain, InsideStep
      <3> HIDE DEF script, b
      <3>4. /\ [started EXCEPT !.pc = "error"].state = "STARTED"
            /\ [started EXCEPT !.pc = "main", !.ran = script].state = "STARTED"
        BY <1>0 DEF Inside
      <3> HIDE DEF started, q
      <3>5. /\ v = w => inside'[v].state = "STARTED"
            /\ v # w => inside'[v] = inside[v]
        BY <1>0, <3>3, <3>4
      <3>6. outside[v].state \in States
        BY <1>0 DEF Outside
      <3>7. CASE v = w
        BY <3>1, <3>2, <3>5, <3>6, <3>7, RankFacts DEF Advance
      <3>8. CASE v # w
        BY <3>1, <3>5, <3>8, Stays
      <3> QED
        BY <3>7, <3>8
    <2> QED
      BY <2>1, <2>2
  <1>4. ASSUME InsidePost(w) PROVE Advance(v)
    BY <1>1, <1>4, Stays DEF InsidePost
  <1>13. ASSUME InsidePostWaits(w) \/ InsidePostResumes(w) PROVE Advance(v)
    <2>1. CASE Crash("postMessage")
      BY <1>1, <2>1
    <2>2. CASE ~Crash("postMessage")
      <3>1. PICK p : /\ inside' = [inside EXCEPT ![w].posting = p] /\ outside' = outside
        BY <1>13, <2>2 DEF InsidePostWaits, InsidePostResumes, InsideStep
      <3> DEFINE new == [inside[w] EXCEPT !.posting = p]
      <3>2. new.state = inside[w].state
        BY <1>0 DEF Inside
      <3>3. inside' = [inside EXCEPT ![w] = new]
        BY <3>1
      <3> HIDE DEF new
      <3> QED
        BY <1>2, <3>1, <3>2, <3>3
    <2> QED
      BY <2>1, <2>2
  <1>5. ASSUME workerExit(w) PROVE Advance(v)
    <2> DEFINE new == [inside[w] EXCEPT !.exiting = TRUE]
    <2>1. inside' = [inside EXCEPT ![w] = new] /\ outside' = outside
      BY <1>5 DEF workerExit, InsideStep
    <2>2. new.state = inside[w].state
      BY <1>0 DEF Inside
    <2> QED
      BY <1>2, <2>1, <2>2
  <1>6. ASSUME InsideMessage(w) PROVE Advance(v)
    <2> DEFINE pc  == IF inside[w].pc = "idle" /\ ~inside[w].exception
                      THEN "msg" ELSE inside[w].pc
               new == [inside[w] EXCEPT !.queue = Tail(@), !.pc = pc]
    <2>1. CASE Crash("doMessage")
      BY <1>1, <2>1
    <2>2. CASE ~Crash("doMessage")
      <3>1. inside' = [inside EXCEPT ![w] = new] /\ outside' = outside
        BY <1>6, <2>2 DEF InsideMessage, InsideStep
      <3> HIDE DEF pc
      <3>2. new.state = inside[w].state
        BY <1>0 DEF Inside
      <3> HIDE DEF new
      <3> QED
        BY <1>2, <3>1, <3>2
    <2> QED
      BY <2>1, <2>2
  <1>7. ASSUME NEW throws \in BOOLEAN, InsideMessageDone(w, throws) PROVE Advance(v)
    <2> DEFINE e   == inside[w].exception \/ throws
               p   == IF inside[w].posting = "yes" THEN "no" ELSE inside[w].posting
               new == [inside[w] EXCEPT !.pc = "idle", !.exception = e, !.posting = p]
    <2>1. inside' = [inside EXCEPT ![w] = new] /\ outside' = outside
      BY <1>7 DEF InsideMessageDone, InsideStep
    <2> HIDE DEF e, p
    <2>2. new.state = inside[w].state
      BY <1>0 DEF Inside
    <2> HIDE DEF new
    <2> QED
      BY <1>2, <2>1, <2>2
  <1>8. ASSUME NEW throws \in BOOLEAN, ScriptEnds(w, throws) PROVE Advance(v)
    <2> DEFINE a == [inside[w] EXCEPT !.pc = "error", !.exception = TRUE, !.failure = "raised"]
               b == [inside[w] EXCEPT !.pc = "close"]
    <2>1. InsideStep(w, a) \/ InsideStep(w, b)
      BY <1>8 DEF ScriptEnds
    <2>2. a.state = inside[w].state /\ b.state = inside[w].state
      BY <1>0 DEF Inside
    <2> HIDE DEF a, b
    <2> QED
      BY <1>2, <2>1, <2>2 DEF InsideStep
  <1>9. ASSUME handleError(w) PROVE Advance(v)
    <2> DEFINE new == [inside[w] EXCEPT !.exception = FALSE, !.pc = "close"]
    <2>1. CASE Crash("handleError")
      BY <1>1, <2>1
    <2>2. CASE ~Crash("handleError")
      <3>1. inside' = [inside EXCEPT ![w] = new] /\ outside' = outside
        BY <1>9, <2>2 DEF handleError
      <3>2. new.state = inside[w].state
        BY <1>0 DEF Inside
      <3> HIDE DEF new
      <3> QED
        BY <1>2, <3>1, <3>2
    <2> QED
      BY <2>1, <2>2
  <1>10. ASSUME CloseInside(w) \/ CloseOutside(w) PROVE Advance(v)
    <2>1. \/ inside[w].pc = "close" /\ inside[w].state = "STARTED" /\ outside[w].state = "STARTED"
          \/ inside[w].pc = "closing" /\ inside[w].state = "CLOSED" /\ outside[w].state = "STARTED"
      <3>1. inside[w].pc \in {"close", "closing"}
        BY <1>10 DEF CloseInside, CloseOutside
      <3>2. inside[w].state \in {"NONE", "BEGIN", "STARTED", "CLOSED"}
        BY <1>0 DEF Inside, States
      <3> QED
        BY <1>0, <3>1, <3>2 DEF StatesAgree
    <2>2. /\ v = w => inside'[v].state = "CLOSED" /\ outside'[v].state \in {"STARTED", "CLOSED"}
          /\ v # w => inside'[v] = inside[v] /\ outside'[v] = outside[v]
      <3>1. CASE CloseInside(w)
        BY <1>0, <2>1, <3>1 DEF CloseInside, InsideStep, Inside
      <3>2. CASE CloseOutside(w)
        <4>1. inside[w].state = "CLOSED"
          BY <2>1, <3>2 DEF CloseOutside
        <4> QED
          BY <1>0, <3>2, <4>1 DEF CloseOutside, Inside, Outside
      <3> QED
        BY <1>10, <3>1, <3>2
    <2>3. CASE v = w
      BY <2>1, <2>2, <2>3, RankFacts DEF Advance
    <2>4. CASE v # w
      BY <2>2, <2>4, Stays
    <2> QED
      BY <2>3, <2>4
  <1>11. ASSUME PostClose(w) PROVE Advance(v)
    <2> DEFINE pc  == IF inside[w].nested THEN "msg" ELSE "idle"
               new == [inside[w] EXCEPT !.pc = pc, !.nested = FALSE]
    <2>1. inside' = [inside EXCEPT ![w] = new] /\ outside' = outside
      BY <1>11 DEF PostClose
    <2> HIDE DEF pc
    <2>2. new.state = inside[w].state
      BY <1>0 DEF Inside
    <2> HIDE DEF new
    <2> QED
      BY <1>2, <2>1, <2>2
  <1>12. ASSUME CollectInside(w) PROVE Advance(v)
    <2> DEFINE new == [inside[w] EXCEPT !.queue = <<>>]
    <2>1. inside' = [inside EXCEPT ![w] = new] /\ outside' = outside
      BY <1>12 DEF CollectInside, InsideStep
    <2>2. new.state = inside[w].state
      BY <1>0 DEF Inside
    <2> HIDE DEF new
    <2> QED
      BY <1>2, <2>1, <2>2
  <1> QED
    BY <1>3, <1>4, <1>5, <1>6, <1>7, <1>8, <1>9, <1>10, <1>11, <1>12,
       <1>13 DEF Inner

\* No step of either thread takes the state of a worker back, although both
\* threads assign it and neither locks it.
THEOREM StatesAdvanceCorrect == Spec => StatesAdvance
  <1>1. TypeOK /\ Lifecycle /\ Next => \A w \in Workers : Advance(w)
    <2> SUFFICES ASSUME TypeOK, Lifecycle, Next, NEW v \in Workers PROVE Advance(v)
      OBVIOUS
    <2>1. CASE OuterCode \/ OuterJoin \/ OuterLoop \/ ejsDestroyVM
      BY <2>1, AdvanceOuter
    <2>2. ASSUME NEW w \in Workers, OuterCall(w) PROVE Advance(v)
      BY <2>2, AdvanceCall
    <2>3. ASSUME NEW w \in Workers, Inner(w) PROVE Advance(v)
      BY <2>3, AdvanceInner
    <2> QED
      BY <2>1, <2>2, <2>3 DEF Next
  <1>2. TypeOK /\ Lifecycle /\ [Next]_vars =>
            [\A w \in Workers : /\ Rank[outside[w].state] <= Rank[outside'[w].state]
                                /\ Rank[inside[w].state] <= Rank[inside'[w].state]]_vars
    BY <1>1 DEF Advance
  <1> QED
    BY <1>2, TypeCorrect, LifecycleCorrect, PTL DEF Spec, StatesAdvance
=============================================================================
