------------------------------ MODULE VMLease ------------------------------
(***************************************************************************)
(* What the pool of interpreters promises its users (ejs.h, EjsPool): an   *)
(* interpreter of the pool is lent to one request at a time, and it is     *)
(* lent without an exception of the request that had it before.            *)
(*                                                                         *)
(* The interpreters of workers, which get into the pool when a request was *)
(* passed to a worker, are not under that promise.                         *)
(***************************************************************************)
CONSTANTS
    Requests,   \* the requests, with the connection each of them is on
    VMs,        \* the interpreters that are cloned for the pool
    WorkerVMs,  \* the interpreters of workers
    NoVM        \* no interpreter

VARIABLES
    lease,      \* the interpreter each request has
    dirty       \* the interpreters of the pool with an exception

leaseVars == <<lease, dirty>>

LeaseInit ==
    /\ lease = [r \in Requests |-> NoVM]
    /\ dirty = {}

Lend(r, v) ==
    /\ lease[r] = NoVM
    /\ v \in VMs => v \notin dirty /\ \A s \in Requests : lease[s] # v
    /\ lease' = [lease EXCEPT ![r] = v]
    /\ UNCHANGED dirty

\* The request's script throws
Throw(r) ==
    /\ lease[r] # NoVM
    /\ dirty' = dirty \cup ({lease[r]} \cap VMs)
    /\ UNCHANGED lease

\* The request goes on in the interpreter of a worker
Pass(r, w) ==
    /\ lease[r] # NoVM
    /\ lease' = [lease EXCEPT ![r] = w]
    /\ dirty' = dirty \ {lease[r]}

Return(r) ==
    /\ lease[r] # NoVM
    /\ lease' = [lease EXCEPT ![r] = NoVM]
    /\ dirty' = dirty \ {lease[r]}

LeaseNext ==
    \E r \in Requests :
        \/ \E v \in VMs \cup WorkerVMs : Lend(r, v)
        \/ Throw(r)
        \/ \E w \in WorkerVMs : Pass(r, w)
        \/ Return(r)

LeaseSpec == LeaseInit /\ [][LeaseNext]_leaseVars
=============================================================================
