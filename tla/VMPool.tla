------------------------------- MODULE VMPool -------------------------------
(***************************************************************************)
(* The pool of interpreters for hosted web requests (src/vm/ejsService.c:  *)
(* ejsCreatePool, ejsAllocPoolVM, ejsFreePoolVM) and the parts of the web  *)
(* handler that use it (src/ejs.web/ejsHttpServer.c: hs_passRequest,       *)
(* closeEjsHandler).                                                       *)
(*                                                                         *)
(* Requests are served by different threads.  A request asks the pool for  *)
(* an interpreter, which the pool pops off its free list or else clones    *)
(* from a template that the first request creates.  Only the list and the  *)
(* creation of the template are locked.  An interpreter that nothing       *)
(* refers to is collected, and its name may stand for a new one.           *)
(***************************************************************************)
EXTENDS Naturals, Sequences, FiniteSets, SequencesExt

CONSTANTS
    Requests,   \* the requests, with the connection each of them is on
    VMs,        \* the interpreters that can be cloned
    WorkerVMs,  \* the interpreters of workers a request can be passed to
    PoolMax,        \* pool->max
    Nobody,     \* no request
    NoVM        \* no interpreter

\* A poolMax of 0 or less means MAXINT to ejsCreatePool
ASSUME PoolAssumption ==
    /\ PoolMax \in Nat \ {0}
    /\ Nobody \notin Requests
    /\ NoVM \notin VMs \cup WorkerVMs
    /\ VMs \cap WorkerVMs = {}
    /\ IsFiniteSet(Requests)

VARIABLES
    list,       \* pool->list, the free list
    count,      \* pool->count
    template,   \* pool->template: none, loaded in part, or ready
    mutex,      \* the request whose thread has locked pool->mutex
    ejs,        \* conn->ejs of each request
    exception,  \* the interpreters of the pool with a pending exception
    call        \* where each request is in its calls, with the locals of ejsAllocPoolVM

vars == <<list, count, template, mutex, ejs, exception, call>>

\* Places where an interpreter that was cloned has not been handed over yet
Cloned == {"script", "store"}

\* Places on the way from an empty list to a clone
Pending == {"check", "lock", "create", "clone"}

Places == Cloned \cup Pending \cup {"idle", "using", "closed"}

TypeOK ==
    /\ list \in Seq(VMs \cup WorkerVMs)
    /\ count \in Nat
    /\ template \in {"none", "partial", "ready"}
    /\ mutex \in Requests \cup {Nobody}
    /\ ejs \in [Requests -> VMs \cup WorkerVMs \cup {NoVM}]
    /\ exception \subseteq VMs
    /\ call \in [Requests -> [pc : Places, vm : VMs \cup {NoVM}, n : Nat]]

-----------------------------------------------------------------------------
Goes(r, pc) == call' = [call EXCEPT ![r].pc = pc]

\* ejsAllocPoolVM returns an interpreter, which the host keeps in conn->ejs
Hands(r, v) ==
    /\ ejs' = [ejs EXCEPT ![r] = v]
    /\ call' = [call EXCEPT ![r] = [pc |-> "using", vm |-> NoVM, n |-> 0]]

\* ejsAllocPoolVM returns 0, and the host fails the request
ReturnsNone(r) ==
    call' = [call EXCEPT ![r] = [pc |-> "idle", vm |-> NoVM, n |-> 0]]

\* Faulty variants of mprPopItem: the item stays on the list, and the list is not looked at.
PopKeeps(r) ==
    /\ call[r].pc = "idle"
    /\ \/ list # <<>> /\ Hands(r, Last(list)) /\ UNCHANGED list
       \/ list = <<>> /\ Goes(r, "check") /\ UNCHANGED <<list, ejs>>
    /\ UNCHANGED <<count, template, mutex, exception>>

PopNever(r) ==
    /\ call[r].pc = "idle"
    /\ Goes(r, "check")
    /\ UNCHANGED <<list, ejs, count, template, mutex, exception>>

\* ejsAllocPoolVM, to the end if there is a free interpreter
mprPopItem(r) ==
    /\ call[r].pc = "idle"
    /\ \/ /\ list # <<>>
          /\ list' = Front(list)
          /\ Hands(r, Last(list))
       \/ list = <<>> /\ Goes(r, "check") /\ UNCHANGED <<list, ejs>>
    /\ UNCHANGED <<count, template, mutex, exception>>

\* The number of interpreters is tested without the lock
CheckMax(r) ==
    /\ call[r].pc = "check"
    /\ IF count >= PoolMax THEN ReturnsNone(r) ELSE Goes(r, "lock")
    /\ UNCHANGED <<list, count, template, mutex, ejs, exception>>

\* Faulty variant of LockPool: the template is tested without the lock.
LockNothing(r) ==
    /\ call[r].pc = "lock"
    /\ IF template = "none" THEN mutex' = r /\ Goes(r, "create")
                            ELSE UNCHANGED mutex /\ Goes(r, "clone")
    /\ UNCHANGED <<list, count, template, ejs, exception>>

LockPool(r) ==
    /\ call[r].pc = "lock"
    /\ mutex = Nobody
    /\ IF template = "none" THEN mutex' = r /\ Goes(r, "create")
                            ELSE UNCHANGED mutex /\ Goes(r, "clone")
    /\ UNCHANGED <<list, count, template, ejs, exception>>

\* Faulty variant of CreateTemplate: returns for an error with the pool locked.
CreateLocked(r) ==
    /\ call[r].pc = "create"
    /\ \/ UNCHANGED <<template, mutex>> /\ ReturnsNone(r)
       \/ template' = "partial" /\ ReturnsNone(r) /\ UNCHANGED mutex
       \/ template' = "ready" /\ Goes(r, "clone") /\ mutex' = Nobody
    /\ UNCHANGED <<list, count, ejs, exception>>

\* No template could be created, its modules or script could not be loaded, or it is
\* ready.  One that is loaded in part stays.
CreateTemplate(r) ==
    /\ call[r].pc = "create"
    /\ mutex' = Nobody
    /\ \/ UNCHANGED template /\ ReturnsNone(r)
       \/ template' = "partial" /\ ReturnsNone(r)
       \/ template' = "ready" /\ Goes(r, "clone")
    /\ UNCHANGED <<list, count, ejs, exception>>

\* What the list and the requests refer to
Reachable(v) ==
    \/ v \in Range(list)
    \/ \E r \in Requests : ejs[r] = v \/ call[r].vm = v

\* Faulty variant of ejsCloneVM: the interpreter is counted before its script has run.
CloneCounts(r) ==
    /\ call[r].pc = "clone"
    /\ \E v \in {x \in VMs : ~Reachable(x)} :
          /\ call' = [call EXCEPT ![r].pc = "script", ![r].vm = v]
          /\ exception' = exception \ {v}
    /\ count' = count + 1
    /\ UNCHANGED <<list, template, mutex, ejs>>

ejsCloneVM(r) ==
    /\ call[r].pc = "clone"
    /\ \/ \E v \in {x \in VMs : ~Reachable(x)} :
            /\ call' = [call EXCEPT ![r].pc = "script", ![r].vm = v]
            /\ exception' = exception \ {v}
       \/ ReturnsNone(r) /\ UNCHANGED exception
    /\ UNCHANGED <<list, count, template, mutex, ejs>>

\* The start script fails, or pool->count++ has read the count
StartScript(r) ==
    /\ call[r].pc = "script"
    /\ \/ ReturnsNone(r)
       \/ call' = [call EXCEPT ![r].pc = "store", ![r].n = count]
    /\ UNCHANGED <<list, count, template, mutex, ejs, exception>>

StoreCount(r) ==
    /\ call[r].pc = "store"
    /\ count' = call[r].n + 1
    /\ Hands(r, call[r].vm)
    /\ UNCHANGED <<list, template, mutex, exception>>

\* The request's script throws
Throws(r) ==
    /\ call[r].pc = "using"
    /\ exception' = exception \cup ({ejs[r]} \cap VMs)
    /\ UNCHANGED <<list, count, template, mutex, ejs, call>>

\* conn->ejs is replaced: the interpreter of the pool is forgotten
hs_passRequest(r, w) ==
    /\ call[r].pc = "using"
    /\ ejs' = [ejs EXCEPT ![r] = w]
    /\ UNCHANGED <<list, count, template, mutex, exception, call>>

\* Faulty variant of ejsFreePoolVM: conn->ejs is cleared first.
FreeNothing(r) ==
    /\ call[r].pc = "using"
    /\ ejs' = [ejs EXCEPT ![r] = NoVM]
    /\ list' = Append(list, NoVM)
    /\ Goes(r, "closed")
    /\ UNCHANGED <<count, template, mutex, exception>>

\* closeEjsHandler, up to the end of ejsFreePoolVM
ejsFreePoolVM(r) ==
    /\ call[r].pc = "using"
    /\ list' = Append(list, ejs[r])
    /\ exception' = exception \ {ejs[r]}
    /\ Goes(r, "closed")
    /\ UNCHANGED <<count, template, mutex, ejs>>

\* conn->ejs = 0
closeEjsHandler(r) ==
    /\ call[r].pc = "closed"
    /\ ejs' = [ejs EXCEPT ![r] = NoVM]
    /\ Goes(r, "idle")
    /\ UNCHANGED <<list, count, template, mutex, exception>>

-----------------------------------------------------------------------------
\* ejsCreatePool
Init ==
    /\ list = <<>>
    /\ count = 0
    /\ template = "none"
    /\ mutex = Nobody
    /\ ejs = [r \in Requests |-> NoVM]
    /\ exception = {}
    /\ call = [r \in Requests |-> [pc |-> "idle", vm |-> NoVM, n |-> 0]]

ejsAllocPoolVM(r) ==
    \/ CheckMax(r) \/ LockPool(r) \/ CreateTemplate(r) \/ ejsCloneVM(r) \/ StartScript(r)
    \/ StoreCount(r)

Next ==
    \E r \in Requests :
        \/ mprPopItem(r) \/ ejsAllocPoolVM(r)
        \/ Throws(r) \/ \E w \in WorkerVMs : hs_passRequest(r, w)
        \/ ejsFreePoolVM(r) \/ closeEjsHandler(r)

Spec == Init /\ [][Next]_vars

\* A thread that is in ejsAllocPoolVM goes on, and gets a lock that is released again and
\* again; scripts and module loading end.  Requests come as they like.
Fairness == \A r \in Requests : SF_vars(ejsAllocPoolVM(r))

FairSpec == Spec /\ Fairness

-----------------------------------------------------------------------------
(***************************************************************************)
(* Properties                                                              *)
(***************************************************************************)

\* The interpreter a request has: until it is pushed on the free list
Lease == [r \in Requests |-> IF call[r].pc = "using" THEN ejs[r] ELSE NoVM]

Dirty == {v \in VMs : v \in exception /\ \E r \in Requests : Lease[r] = v}

Promise == INSTANCE VMLease WITH lease <- Lease, dirty <- Dirty

\* The pool implements the lease: an interpreter cloned for it is never with two requests,
\* and is handed over without an exception, although the list is all that ejsAllocPoolVM
\* and ejsFreePoolVM lock, and conn->ejs still refers to it after it was pushed.
LeaseKept == Promise!LeaseSpec

InPlaces(places) == {r \in Requests : call[r].pc \in places}

\* pool->max is tested without the lock, long before pool->count++, which can be lost: it is
\* no bound on the interpreters.  There is one all the same: clones are only made after the
\* list was found empty, so that there are never more interpreters, free or in use, than
\* requests at the same time: for each that is free some request has none.
PoolBounded == Len(list) <= Cardinality(InPlaces({"idle", "closed"}))

\* Increments of pool->count are lost and the count can even fall, but it never runs ahead
\* of the interpreters there are: no request is refused for a count of interpreters that
\* do not exist.
CountCovered == count <= Len(list) + Cardinality(InPlaces({"using"}))

\* Requests that find no template at the same time do not replace one another's: once
\* there is one, however much of it could be loaded, it stays.
TemplateOnce == [][template # "none" => UNCHANGED template]_vars

\* Every call of ejsAllocPoolVM returns: no way out of it leaves the pool locked.
AllocReturns ==
    \A r \in Requests : call[r].pc \in Pending \cup Cloned ~> call[r].pc \in {"idle", "using"}
=============================================================================
