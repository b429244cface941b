---------------------------- MODULE VMPoolProofs ----------------------------
(***************************************************************************)
(* Proofs about the pool of interpreters, for any numbers of requests,     *)
(* interpreters and workers and any maximum.                               *)
(***************************************************************************)
EXTENDS VMPool, SequenceTheorems, FiniteSetTheorems, TLAPS

\* The place of a free interpreter in the list
Listed(l, v) == \E i \in 1..Len(l) : l[i] = v

\* An interpreter of the pool is in one place: once on the free list, with the one request
\* that uses it, or with the one that has just cloned it
ListOnce ==
    \A i, j \in 1..Len(list) : list[i] \in VMs /\ list[i] = list[j] => i = j

UsedOnce ==
    \A r, s \in Requests : Lease[r] \in VMs /\ Lease[r] = Lease[s] => r = s

ClonedOnce ==
    \A r, s \in Requests : call[r].vm # NoVM /\ call[r].vm = call[s].vm => r = s

Apart ==
    \A r, s \in Requests :
        /\ Lease[r] \in VMs => ~Listed(list, Lease[r])
        /\ call[r].vm # NoVM => ~Listed(list, call[r].vm) /\ Lease[s] # call[r].vm

\* What the locals of a call are, and what a request in use has
CallsSound ==
    \A r \in Requests :
        /\ call[r].pc \in Cloned <=> call[r].vm # NoVM
        /\ call[r].pc = "using" => ejs[r] # NoVM

\* What can be handed over has no exception
CleanToLend ==
    \A v \in VMs : Listed(list, v) \/ (\E r \in Requests : call[r].vm = v) => v \notin exception

PoolInv ==
    /\ TypeOK /\ ListOnce /\ UsedOnce /\ ClonedOnce /\ Apart /\ CallsSound /\ CleanToLend

-----------------------------------------------------------------------------
LEMMA Distinct ==
    NoVM \notin VMs /\ NoVM \notin WorkerVMs /\ \A v \in VMs : v \notin WorkerVMs
BY PoolAssumption

CallRecord == [pc : Places, vm : VMs \cup {NoVM}, n : Nat]

\* What a request's call is after each of the ways to leave a place
LEMMA AfterGoes ==
    ASSUME call \in [Requests -> CallRecord], NEW r \in Requests, NEW pc \in Places, Goes(r, pc)
    PROVE  /\ call' \in [Requests -> CallRecord]
           /\ \A s \in Requests : s # r => call'[s] = call[s]
           /\ call'[r].pc = pc /\ call'[r].vm = call[r].vm /\ call'[r].n = call[r].n
BY DEF Goes, CallRecord

LEMMA AfterReturn ==
    ASSUME call \in [Requests -> CallRecord], NEW r \in Requests, NEW pc \in {"idle", "using"},
           call' = [call EXCEPT ![r] = [pc |-> pc, vm |-> NoVM, n |-> 0]]
    PROVE  /\ call' \in [Requests -> CallRecord]
           /\ \A s \in Requests : s # r => call'[s] = call[s]
           /\ call'[r].pc = pc /\ call'[r].vm = NoVM /\ call'[r].n = 0
<1> DEFINE c == [pc |-> pc, vm |-> NoVM, n |-> 0]
<1>1. c \in CallRecord /\ c.pc = pc /\ c.vm = NoVM /\ c.n = 0
  BY DEF CallRecord, Places
<1>2. call' = [call EXCEPT ![r] = c]
  OBVIOUS
<1> HIDE DEF c
<1> QED
  BY <1>1, <1>2

LEMMA PoolInvInit == Init => PoolInv
<1> SUFFICES ASSUME Init PROVE PoolInv
  OBVIOUS
<1>1. TypeOK
  BY PoolAssumption DEF Init, TypeOK, Places
<1>2. \A r \in Requests : call[r].pc = "idle" /\ call[r].vm = NoVM
  BY DEF Init
<1>3. Len(list) = 0 /\ list = <<>> /\ exception = {}
  BY DEF Init
<1>4. \A r \in Requests : Lease[r] = NoVM
  BY <1>2 DEF Lease
<1>5. ListOnce /\ UsedOnce /\ ClonedOnce /\ Apart
  BY <1>2, <1>3, <1>4, Distinct DEF ListOnce, UsedOnce, ClonedOnce, Apart
<1>6. CallsSound /\ CleanToLend
  BY <1>2, <1>3 DEF CallsSound, CleanToLend, Cloned
<1> QED
  BY <1>1, <1>5, <1>6 DEF PoolInv

-----------------------------------------------------------------------------
\* What the steps do to the leases

LEMMA TypedCall == ASSUME PoolInv PROVE call \in [Requests -> CallRecord]
BY DEF PoolInv, TypeOK, CallRecord

\* A request moves between places where it has no lease
LEMMA LeaseStays ==
    ASSUME NEW r \in Requests, \A s \in Requests : s # r => call'[s] = call[s] /\ ejs'[s] = ejs[s],
           call[r].pc # "using", call'[r].pc # "using"
    PROVE  Lease' = Lease
BY DEF Lease

LEMMA LeaseChanges ==
    ASSUME NEW r \in Requests, NEW v,
           \A s \in Requests : s # r => call'[s] = call[s] /\ ejs'[s] = ejs[s],
           v = IF call'[r].pc = "using" THEN ejs'[r] ELSE NoVM
    PROVE  /\ Lease' = [Lease EXCEPT ![r] = v]
           /\ Lease'[r] = v /\ \A s \in Requests : s # r => Lease'[s] = Lease[s]
BY DEF Lease

\* A call goes on without an interpreter changing hands
LEMMA CallMoves ==
    ASSUME PoolInv, TypeOK', UNCHANGED <<list, exception>>, Lease' = Lease,
           NEW r \in Requests, \A s \in Requests : s # r => call'[s] = call[s] /\ ejs'[s] = ejs[s],
           call'[r].vm = call[r].vm \/ call'[r].vm = NoVM,
           call'[r].pc \in Cloned <=> call'[r].vm # NoVM,
           call'[r].pc = "using" => ejs'[r] # NoVM
    PROVE  PoolInv'
<1>1. ListOnce' /\ UsedOnce'
  BY DEF PoolInv, ListOnce, UsedOnce
<1>2. \A s \in Requests : call'[s].vm = call[s].vm \/ call'[s].vm = NoVM
  OBVIOUS
<1>3. ClonedOnce'
  BY <1>2 DEF PoolInv, ClonedOnce
<1>4. Apart'
  BY <1>2 DEF PoolInv, Apart, Listed
<1>5. CallsSound'
  BY DEF PoolInv, CallsSound
<1>6. CleanToLend'
  BY <1>2, Distinct DEF PoolInv, CleanToLend, Listed
<1> QED
  BY <1>1, <1>3, <1>4, <1>5, <1>6 DEF PoolInv

LEMMA MovesKeep ==
    ASSUME PoolInv, NEW r \in Requests, UNCHANGED <<list, ejs, exception>>,
           count' \in Nat, template' \in {"none", "partial", "ready"},
           mutex' \in Requests \cup {Nobody},
           call' \in [Requests -> CallRecord],
           \A s \in Requests : s # r => call'[s] = call[s],
           call[r].pc # "using", call'[r].pc # "using",
           call'[r].vm = call[r].vm \/ call'[r].vm = NoVM,
           call'[r].pc \in Cloned <=> call'[r].vm # NoVM
    PROVE  PoolInv' /\ Lease' = Lease
<1>1. TypeOK'
  BY DEF PoolInv, TypeOK, CallRecord
<1>2. Lease' = Lease
  BY LeaseStays
<1> QED
  BY <1>1, <1>2, CallMoves

LEMMA CheckMaxKeeps ==
    ASSUME PoolInv, NEW r \in Requests, CheckMax(r) PROVE PoolInv' /\ Lease' = Lease
<1>1. /\ UNCHANGED <<list, ejs, exception, count, template, mutex>> /\ call[r].pc = "check"
      /\ ReturnsNone(r) \/ Goes(r, "lock")
  BY DEF CheckMax
<1>2. call[r].vm = NoVM /\ TypeOK
  BY <1>1 DEF PoolInv, CallsSound, Cloned
<1>3. CASE ReturnsNone(r)
  BY <1>1, <1>2, <1>3, TypedCall, AfterReturn, MovesKeep DEF ReturnsNone, Cloned, TypeOK
<1>4. CASE Goes(r, "lock")
  <2>1. "lock" \in Places
    BY DEF Places, Pending
  <2>2. /\ call' \in [Requests -> CallRecord]
        /\ \A s \in Requests : s # r => call'[s] = call[s]
        /\ call'[r].pc = "lock" /\ call'[r].vm = call[r].vm
    BY <1>4, <2>1, TypedCall, AfterGoes
  <2> QED
    BY <1>1, <1>2, <2>2, MovesKeep DEF Cloned, TypeOK
<1> QED
  BY <1>1, <1>3, <1>4

LEMMA LockKeeps ==
    ASSUME PoolInv, NEW r \in Requests, LockPool(r) PROVE PoolInv' /\ Lease' = Lease
<1>1. /\ UNCHANGED <<list, ejs, exception, count, template>> /\ call[r].pc = "lock"
      /\ mutex' \in {r, mutex}
      /\ Goes(r, "create") \/ Goes(r, "clone")
  BY DEF LockPool
<1>2. call[r].vm = NoVM /\ TypeOK
  BY <1>1 DEF PoolInv, CallsSound, Cloned
<1> QED
  BY <1>1, <1>2, TypedCall, AfterGoes, MovesKeep DEF Cloned, Places, Pending, TypeOK

LEMMA CreateKeeps ==
    ASSUME PoolInv, NEW r \in Requests, CreateTemplate(r) PROVE PoolInv' /\ Lease' = Lease
<1>1. /\ UNCHANGED <<list, ejs, exception, count>> /\ call[r].pc = "create"
      /\ mutex' = Nobody /\ template' \in {template, "partial", "ready"}
      /\ ReturnsNone(r) \/ Goes(r, "clone")
  BY DEF CreateTemplate
<1>2. call[r].vm = NoVM /\ TypeOK
  BY <1>1 DEF PoolInv, CallsSound, Cloned
<1>3. CASE ReturnsNone(r)
  BY <1>1, <1>2, <1>3, TypedCall, AfterReturn, MovesKeep DEF ReturnsNone, Cloned, TypeOK
<1>4. CASE Goes(r, "clone")
  BY <1>1, <1>2, <1>4, TypedCall, AfterGoes, MovesKeep, SMTT(30) DEF Cloned, Places, Pending, TypeOK
<1> QED
  BY <1>1, <1>3, <1>4

LEMMA ScriptKeeps ==
    ASSUME PoolInv, NEW r \in Requests, StartScript(r) PROVE PoolInv' /\ Lease' = Lease
<1>1. /\ UNCHANGED <<list, ejs, exception, count, template, mutex>> /\ call[r].pc = "script"
  BY DEF StartScript
<1>2. call[r].vm # NoVM /\ TypeOK
  BY <1>1 DEF PoolInv, CallsSound, Cloned
<1>3. CASE ReturnsNone(r)
  BY <1>1, <1>2, <1>3, TypedCall, AfterReturn, MovesKeep DEF ReturnsNone, Cloned, TypeOK
<1>4. CASE call' = [call EXCEPT ![r].pc = "store", ![r].n = count]
  <2>1. PICK pc \in Places : pc = "store"
    BY DEF Places, Cloned
  <2>2. call' = [call EXCEPT ![r].pc = pc, ![r].n = count]
    BY <1>4, <2>1
  <2>3. /\ call' \in [Requests -> CallRecord]
        /\ \A s \in Requests : s # r => call'[s] = call[s]
        /\ call'[r].pc = pc /\ call'[r].vm = call[r].vm
    BY <1>2, <2>2, TypedCall DEF CallRecord, TypeOK
  <2> QED
    BY <1>1, <1>2, <2>1, <2>3, MovesKeep DEF Cloned, TypeOK
<1> QED
  BY <1>3, <1>4 DEF StartScript

LEMMA PopFacts ==
    ASSUME NEW S, NEW l \in Seq(S), l # <<>>
    PROVE  /\ Len(l) \in Nat \ {0} /\ Last(l) = l[Len(l)] /\ Last(l) \in S
           /\ Front(l) \in Seq(S) /\ Len(Front(l)) = Len(l) - 1
           /\ \A i \in 1..Len(Front(l)) : Front(l)[i] = l[i]
<1>1. Len(l) \in Nat \ {0}
  OBVIOUS
<1>2. Last(l) = l[Len(l)] /\ Last(l) \in S
  BY <1>1 DEF Last
<1>3. Front(l) = SubSeq(l, 1, Len(l) - 1)
  BY DEF Front
<1>4. PICK n \in Nat : Len(l) = n + 1
  <2>1. \A k \in Nat \ {0} : k - 1 \in Nat /\ k = (k - 1) + 1
    OBVIOUS
  <2> QED
    BY <1>1, <2>1
<1>5. Len(l) - 1 = n /\ \A i \in 1..n : l[i] \in S
  BY <1>4
<1>6. /\ SubSeq(l, 1, n) \in Seq(S) /\ Len(SubSeq(l, 1, n)) = n
      /\ \A i \in 1..n : SubSeq(l, 1, n)[i] = l[i]
  <2>1. n \in Int /\ 1 \in Int /\ (1 <= n \/ n = 0) /\ n - 1 + 1 = n
    OBVIOUS
  <2>2. /\ SubSeq(l, 1, n) \in Seq(S)
        /\ Len(SubSeq(l, 1, n)) = IF 1 <= n THEN n - 1 + 1 ELSE 0
        /\ \A i \in 1..(n - 1 + 1) : SubSeq(l, 1, n)[i] = l[1 + i - 1]
    BY <1>5, <2>1, SubSeqProperties
  <2>3. \A i \in 1..n : 1 + i - 1 = i
    OBVIOUS
  <2> QED
    BY <2>1, <2>2, <2>3
<1> QED
  BY <1>1, <1>2, <1>3, <1>5, <1>6

\* A free interpreter is lent
LEMMA PopLends ==
    ASSUME PoolInv, NEW r \in Requests, call[r].pc = "idle", list # <<>>, list' = Front(list),
           Hands(r, Last(list)), UNCHANGED <<count, template, mutex, exception>>
    PROVE  /\ PoolInv' /\ Lease[r] = NoVM /\ Lease' = [Lease EXCEPT ![r] = Last(list)]
           /\ Last(list) \in VMs \cup WorkerVMs
           /\ Last(list) \in VMs => /\ Last(list) \notin exception
                                    /\ \A s \in Requests : Lease[s] # Last(list)
<1> DEFINE v == Last(list)
<1>1. /\ Len(list) \in Nat \ {0} /\ v = list[Len(list)] /\ v \in VMs \cup WorkerVMs
      /\ list' \in Seq(VMs \cup WorkerVMs) /\ Len(list') = Len(list) - 1
      /\ \A i \in 1..Len(list') : list'[i] = list[i]
  BY PopFacts DEF PoolInv, TypeOK
<1> HIDE DEF v
<1>2. /\ call' \in [Requests -> CallRecord] /\ \A s \in Requests : s # r => call'[s] = call[s]
      /\ call'[r].pc = "using" /\ call'[r].vm = NoVM
  BY TypedCall, AfterReturn DEF Hands
<1>3. /\ ejs' \in [Requests -> VMs \cup WorkerVMs \cup {NoVM}] /\ ejs'[r] = v
      /\ \A s \in Requests : s # r => ejs'[s] = ejs[s]
  BY <1>1 DEF Hands, PoolInv, TypeOK, v
<1>4. TypeOK'
  BY <1>1, <1>2, <1>3 DEF PoolInv, TypeOK, CallRecord
<1>5. /\ Lease' = [Lease EXCEPT ![r] = v] /\ Lease'[r] = v /\ Lease[r] = NoVM
      /\ \A s \in Requests : s # r => Lease'[s] = Lease[s]
  <2>1. v = IF call'[r].pc = "using" THEN ejs'[r] ELSE NoVM
    BY <1>2, <1>3
  <2>2. Lease[r] = NoVM
    BY DEF Lease
  <2> QED
    BY <1>2, <1>3, <2>1, <2>2, LeaseChanges
<1>6. Listed(list, v) /\ \A u : Listed(list', u) => Listed(list, u)
  BY <1>1 DEF Listed
<1>7. v \in VMs => /\ v \notin exception /\ ~Listed(list', v)
                    /\ \A s \in Requests : Lease[s] # v /\ call[s].vm # v
  <2>1. v \in VMs => ~Listed(list', v)
    BY <1>1 DEF PoolInv, ListOnce, Listed
  <2> QED
    BY <1>6, <2>1, Distinct DEF PoolInv, Apart, CleanToLend
<1>8. ListOnce'
  BY <1>1 DEF PoolInv, ListOnce
<1>9. UsedOnce'
  BY <1>5, <1>7 DEF PoolInv, UsedOnce
<1>10. ClonedOnce'
  BY <1>2 DEF PoolInv, ClonedOnce
<1>11. Apart'
  <2> SUFFICES ASSUME NEW s \in Requests, NEW q \in Requests
               PROVE  /\ Lease'[s] \in VMs => ~Listed(list', Lease'[s])
                      /\ call'[s].vm # NoVM =>
                             ~Listed(list', call'[s].vm) /\ Lease'[q] # call'[s].vm
    BY DEF Apart, Listed
  <2>1. Lease'[s] \in VMs => ~Listed(list', Lease'[s])
    BY <1>5, <1>6, <1>7 DEF PoolInv, Apart
  <2>2. ASSUME call'[s].vm # NoVM PROVE ~Listed(list', call'[s].vm) /\ Lease'[q] # call'[s].vm
    <3>1. s # r /\ call'[s] = call[s] /\ call[s].vm \in VMs
      BY <1>2, <2>2, TypedCall DEF CallRecord
    <3> QED
      BY <1>5, <1>6, <1>7, <3>1, <2>2 DEF PoolInv, Apart
  <2> QED
    BY <2>1, <2>2
<1>12. CallsSound'
  BY <1>1, <1>2, <1>3, Distinct DEF PoolInv, CallsSound, Cloned
<1>13. CleanToLend'
  BY <1>2, <1>6, Distinct DEF PoolInv, CleanToLend
<1>14. PoolInv'
  BY <1>4, <1>8, <1>9, <1>10, <1>11, <1>12, <1>13 DEF PoolInv
<1> QED
  BY <1>1, <1>5, <1>7, <1>14 DEF v

\* A clone is lent
LEMMA StoreLends ==
    ASSUME PoolInv, NEW r \in Requests, StoreCount(r)
    PROVE  /\ PoolInv' /\ Lease[r] = NoVM /\ Lease' = [Lease EXCEPT ![r] = call[r].vm]
           /\ call[r].vm \in VMs /\ call[r].vm \notin exception
           /\ \A s \in Requests : Lease[s] # call[r].vm
<1> DEFINE v == call[r].vm
<1>1. /\ v \in VMs /\ ~Listed(list, v) /\ v \notin exception /\ call[r].n \in Nat
      /\ \A s \in Requests : Lease[s] # v /\ (s # r => call[s].vm # v)
  <2>1. call[r].vm # NoVM /\ call[r].vm \in VMs /\ call[r].n \in Nat
    BY TypedCall DEF PoolInv, CallsSound, StoreCount, Cloned, CallRecord
  <2> QED
    BY <2>1 DEF PoolInv, Apart, ClonedOnce, CleanToLend
<1> HIDE DEF v
<1>2. /\ call' \in [Requests -> CallRecord] /\ \A s \in Requests : s # r => call'[s] = call[s]
      /\ call'[r].pc = "using" /\ call'[r].vm = NoVM
  BY TypedCall, AfterReturn DEF StoreCount, Hands
<1>3. /\ ejs' \in [Requests -> VMs \cup WorkerVMs \cup {NoVM}] /\ ejs'[r] = v
      /\ \A s \in Requests : s # r => ejs'[s] = ejs[s]
  BY <1>1 DEF StoreCount, Hands, PoolInv, TypeOK, v
<1>4. /\ UNCHANGED <<list, exception, template, mutex>> /\ count' \in Nat
      /\ call[r].pc = "store"
  BY <1>1 DEF StoreCount
<1>5. TypeOK'
  BY <1>2, <1>3, <1>4 DEF PoolInv, TypeOK, CallRecord
<1>6. /\ Lease' = [Lease EXCEPT ![r] = v] /\ Lease'[r] = v /\ Lease[r] = NoVM
      /\ \A s \in Requests : s # r => Lease'[s] = Lease[s]
  <2>1. v = IF call'[r].pc = "using" THEN ejs'[r] ELSE NoVM
    BY <1>2, <1>3
  <2>2. Lease[r] = NoVM
    BY <1>4 DEF Lease
  <2> QED
    BY <1>2, <1>3, <2>1, <2>2, LeaseChanges
<1>7. ListOnce' /\ \A u : Listed(list', u) <=> Listed(list, u)
  BY <1>4 DEF PoolInv, ListOnce, Listed
<1>8. UsedOnce'
  BY <1>1, <1>6 DEF PoolInv, UsedOnce
<1>9. ClonedOnce'
  BY <1>2 DEF PoolInv, ClonedOnce
<1>10. Apart'
  <2> SUFFICES ASSUME NEW s \in Requests, NEW q \in Requests
               PROVE  /\ Lease'[s] \in VMs => ~Listed(list', Lease'[s])
                      /\ call'[s].vm # NoVM =>
                             ~Listed(list', call'[s].vm) /\ Lease'[q] # call'[s].vm
    BY DEF Apart, Listed
  <2>1. Lease'[s] \in VMs => ~Listed(list', Lease'[s])
    BY <1>1, <1>6, <1>7 DEF PoolInv, Apart
  <2>2. ASSUME call'[s].vm # NoVM PROVE ~Listed(list', call'[s].vm) /\ Lease'[q] # call'[s].vm
    <3>1. s # r /\ call'[s] = call[s]
      BY <1>2, <2>2
    <3> QED
      BY <1>1, <1>6, <1>7, <2>2, <3>1 DEF PoolInv, Apart
  <2> QED
    BY <2>1, <2>2
<1>11. CallsSound'
  BY <1>1, <1>2, <1>3, Distinct DEF PoolInv, CallsSound, Cloned
<1>12. CleanToLend'
  BY <1>2, <1>4, <1>7, Distinct DEF PoolInv, CleanToLend
<1>13. PoolInv'
  BY <1>5, <1>7, <1>8, <1>9, <1>10, <1>11, <1>12 DEF PoolInv
<1> QED
  BY <1>1, <1>6, <1>13 DEF v

LEMMA CloneKeeps ==
    ASSUME PoolInv, NEW r \in Requests, ejsCloneVM(r)
    PROVE  PoolInv' /\ Lease' = Lease /\ Dirty' = Dirty
<1>1. /\ UNCHANGED <<list, ejs, count, template, mutex>> /\ call[r].pc = "clone"
  BY DEF ejsCloneVM
<1>2. call[r].vm = NoVM /\ TypeOK
  BY <1>1 DEF PoolInv, CallsSound, Cloned
<1>3. CASE ReturnsNone(r) /\ UNCHANGED exception
  <2>1. PoolInv' /\ Lease' = Lease
    BY <1>1, <1>2, <1>3, TypedCall, AfterReturn, MovesKeep DEF ReturnsNone, Cloned, TypeOK
  <2> QED
    BY <1>3, <2>1 DEF Dirty
<1>4. ASSUME NEW v \in VMs, ~Reachable(v),
             call' = [call EXCEPT ![r].pc = "script", ![r].vm = v],
             exception' = exception \ {v}
      PROVE  PoolInv' /\ Lease' = Lease /\ Dirty' = Dirty
  <2>1. PICK pc \in Places : pc = "script"
    BY DEF Places, Cloned
  <2>2. call' = [call EXCEPT ![r].pc = pc, ![r].vm = v]
    BY <1>4, <2>1
  <2>3. /\ call' \in [Requests -> CallRecord]
        /\ \A s \in Requests : s # r => call'[s] = call[s]
        /\ call'[r].pc = "script" /\ call'[r].vm = v
    BY <2>1, <2>2, TypedCall DEF CallRecord
  <2>4. Lease' = Lease
    BY <1>1, <2>3, LeaseStays
  <2>5. ~Listed(list, v) /\ \A s \in Requests : Lease[s] # v /\ call[s].vm # v
    BY <1>4, Distinct DEF Reachable, Listed, Range, Lease
  <2>6. TypeOK'
    BY <1>1, <1>2, <1>4, <2>3 DEF TypeOK, CallRecord
  <2>7. ListOnce' /\ UsedOnce'
    BY <1>1, <2>4 DEF PoolInv, ListOnce, UsedOnce
  <2>8. ClonedOnce'
    BY <2>3, <2>5 DEF PoolInv, ClonedOnce
  <2>9. Apart'
    BY <1>1, <2>3, <2>4, <2>5 DEF PoolInv, Apart, Listed
  <2>10. CallsSound'
    BY <1>1, <2>3, Distinct DEF PoolInv, CallsSound, Cloned
  <2>11. CleanToLend'
    BY <1>1, <1>4, <2>3 DEF PoolInv, CleanToLend, Listed
  <2>12. Dirty' = Dirty
    BY <1>4, <2>4, <2>5 DEF Dirty
  <2> QED
    BY <2>4, <2>6, <2>7, <2>8, <2>9, <2>10, <2>11, <2>12 DEF PoolInv
<1> QED
  BY <1>3, <1>4 DEF ejsCloneVM

LEMMA ThrowsDirties ==
    ASSUME PoolInv, NEW r \in Requests, Throws(r)
    PROVE  /\ PoolInv' /\ Lease' = Lease /\ Lease[r] # NoVM
           /\ Dirty' = Dirty \cup ({Lease[r]} \cap VMs)
<1>1. /\ UNCHANGED <<list, count, template, mutex, ejs, call>> /\ call[r].pc = "using"
      /\ exception' = exception \cup ({ejs[r]} \cap VMs)
  BY DEF Throws
<1>2. Lease' = Lease /\ Lease[r] = ejs[r] /\ ejs[r] # NoVM
  BY <1>1 DEF Lease, PoolInv, CallsSound
<1>3. TypeOK' /\ ListOnce' /\ UsedOnce' /\ ClonedOnce' /\ CallsSound' /\ Apart'
  BY <1>1, <1>2 DEF PoolInv, TypeOK, ListOnce, UsedOnce, ClonedOnce, CallsSound, Apart
<1>4. CleanToLend'
  <2> SUFFICES ASSUME NEW v \in VMs, Listed(list', v) \/ (\E s \in Requests : call'[s].vm = v)
               PROVE  v \notin exception'
    BY DEF CleanToLend, Listed
  <2>1. Listed(list, v) \/ (\E s \in Requests : call[s].vm = v)
    BY <1>1
  <2>2. v \notin exception
    BY <2>1 DEF PoolInv, CleanToLend
  <2>3. Lease[r] # v
    BY <2>1, Distinct DEF PoolInv, Apart
  <2> QED
    BY <1>1, <1>2, <2>2, <2>3
<1>5. Dirty' = Dirty \cup ({Lease[r]} \cap VMs)
  BY <1>1, <1>2 DEF Dirty
<1> QED
  BY <1>2, <1>3, <1>4, <1>5 DEF PoolInv

\* A request is passed to a worker
LEMMA PassSwaps ==
    ASSUME PoolInv, NEW r \in Requests, NEW w \in WorkerVMs, hs_passRequest(r, w)
    PROVE  /\ PoolInv' /\ Lease' = [Lease EXCEPT ![r] = w] /\ Lease[r] # NoVM
           /\ Dirty' = Dirty \ {Lease[r]}
<1>1. /\ UNCHANGED <<list, count, template, mutex, exception, call>> /\ call[r].pc = "using"
      /\ ejs' = [ejs EXCEPT ![r] = w] /\ TypeOK
  BY DEF hs_passRequest, PoolInv
<1>2. /\ ejs' \in [Requests -> VMs \cup WorkerVMs \cup {NoVM}] /\ ejs'[r] = w
      /\ \A s \in Requests : s # r => ejs'[s] = ejs[s]
  BY <1>1 DEF TypeOK
<1>3. Lease[r] = ejs[r] /\ ejs[r] # NoVM
  BY <1>1 DEF Lease, PoolInv, CallsSound
<1>4. w = IF call'[r].pc = "using" THEN ejs'[r] ELSE NoVM
  BY <1>1, <1>2
<1>5. /\ Lease' = [Lease EXCEPT ![r] = w] /\ Lease'[r] = w
      /\ \A s \in Requests : s # r => Lease'[s] = Lease[s]
  BY <1>1, <1>2, <1>4, LeaseChanges
<1>6. TypeOK' /\ ListOnce' /\ ClonedOnce'
  BY <1>1, <1>2 DEF PoolInv, TypeOK, ListOnce, ClonedOnce
<1>7. UsedOnce'
  BY <1>5, Distinct DEF PoolInv, UsedOnce
<1>8. Apart'
  <2> SUFFICES ASSUME NEW s \in Requests, NEW q \in Requests
               PROVE  /\ Lease'[s] \in VMs => ~Listed(list, Lease'[s])
                      /\ call[s].vm # NoVM =>
                             ~Listed(list, call[s].vm) /\ Lease'[q] # call[s].vm
    BY <1>1 DEF Apart, Listed
  <2>1. call[s].vm \in VMs \cup {NoVM}
    BY TypedCall DEF CallRecord
  <2> QED
    BY <1>5, <2>1, Distinct DEF PoolInv, Apart
<1>9. CallsSound' /\ CleanToLend'
  BY <1>1, <1>2, Distinct DEF PoolInv, CallsSound, CleanToLend, Listed
<1>10. Dirty' = Dirty \ {Lease[r]}
  BY <1>1, <1>5, Distinct DEF Dirty, PoolInv, UsedOnce
<1> QED
  BY <1>3, <1>5, <1>6, <1>7, <1>8, <1>9, <1>10 DEF PoolInv

\* An interpreter is returned
LEMMA FreeReturns ==
    ASSUME PoolInv, NEW r \in Requests, ejsFreePoolVM(r)
    PROVE  /\ PoolInv' /\ Lease' = [Lease EXCEPT ![r] = NoVM] /\ Lease[r] # NoVM
           /\ Dirty' = Dirty \ {Lease[r]}
<1>1. /\ UNCHANGED <<count, template, mutex, ejs>> /\ call[r].pc = "using"
      /\ exception' = exception \ {ejs[r]} /\ list' = Append(list, ejs[r]) /\ Goes(r, "closed")
      /\ TypeOK
  BY DEF ejsFreePoolVM, PoolInv
<1>2. ejs[r] # NoVM /\ Lease[r] = ejs[r] /\ ejs[r] \in VMs \cup WorkerVMs
  BY <1>1 DEF Lease, PoolInv, CallsSound, TypeOK
<1>3. /\ call' \in [Requests -> CallRecord] /\ \A s \in Requests : s # r => call'[s] = call[s]
      /\ call'[r].pc = "closed" /\ call'[r].vm = call[r].vm
  <2>1. "closed" \in Places
    BY DEF Places
  <2> QED
    BY <1>1, <2>1, TypedCall, AfterGoes
<1>4. call[r].vm = NoVM
  BY <1>1 DEF PoolInv, CallsSound, Cloned
<1>5. /\ list' \in Seq(VMs \cup WorkerVMs) /\ Len(list') = Len(list) + 1 /\ Len(list) \in Nat
      /\ \A i \in 1..Len(list) : list'[i] = list[i]
      /\ list'[Len(list) + 1] = ejs[r]
  BY <1>1, <1>2 DEF TypeOK
<1>6. \A v : Listed(list', v) <=> Listed(list, v) \/ v = ejs[r]
  BY <1>5 DEF Listed
<1>7. NoVM = IF call'[r].pc = "using" THEN ejs'[r] ELSE NoVM
  BY <1>3
<1>8. /\ Lease' = [Lease EXCEPT ![r] = NoVM] /\ Lease'[r] = NoVM
      /\ \A s \in Requests : s # r => Lease'[s] = Lease[s]
  BY <1>1, <1>3, <1>7, LeaseChanges
<1>9. TypeOK'
  BY <1>1, <1>3, <1>5 DEF TypeOK, CallRecord
<1>10. ListOnce'
  <2> SUFFICES ASSUME NEW i \in 1..Len(list'), NEW j \in 1..Len(list'),
                      list'[i] \in VMs, list'[i] = list'[j]
               PROVE  i = j
    BY DEF ListOnce
  <2>1. ~Listed(list, ejs[r]) \/ ejs[r] \notin VMs
    BY <1>2 DEF PoolInv, Apart
  <2>2. i \in 1..Len(list) \/ i = Len(list) + 1
    BY <1>5
  <2>3. j \in 1..Len(list) \/ j = Len(list) + 1
    BY <1>5
  <2> QED
    BY <1>5, <2>1, <2>2, <2>3 DEF PoolInv, ListOnce, Listed
<1>11. UsedOnce'
  BY <1>8, Distinct DEF PoolInv, UsedOnce
<1>12. ClonedOnce'
  BY <1>3, <1>4 DEF PoolInv, ClonedOnce
<1>13. Apart'
  <2> SUFFICES ASSUME NEW s \in Requests, NEW q \in Requests
               PROVE  /\ Lease'[s] \in VMs => ~Listed(list', Lease'[s])
                      /\ call'[s].vm # NoVM =>
                             ~Listed(list', call'[s].vm) /\ Lease'[q] # call'[s].vm
    BY DEF Apart, Listed
  <2>1. Lease'[s] \in VMs => ~Listed(list', Lease'[s])
    BY <1>2, <1>6, <1>8, Distinct DEF PoolInv, Apart, UsedOnce
  <2>2. ASSUME call'[s].vm # NoVM PROVE ~Listed(list', call'[s].vm) /\ Lease'[q] # call'[s].vm
    <3>1. s # r /\ call'[s] = call[s]
      BY <1>3, <1>4, <2>2
    <3> QED
      BY <1>2, <1>6, <1>8, <2>2, <3>1 DEF PoolInv, Apart
  <2> QED
    BY <2>1, <2>2
<1>14. CallsSound'
  BY <1>1, <1>3, <1>4 DEF PoolInv, CallsSound, Cloned
<1>15. CleanToLend'
  BY <1>1, <1>3, <1>4, <1>6, Distinct DEF PoolInv, CleanToLend
<1>16. Dirty' = Dirty \ {Lease[r]}
  BY <1>1, <1>2, <1>8, Distinct DEF Dirty, PoolInv, UsedOnce
<1>17. PoolInv'
  BY <1>9, <1>10, <1>11, <1>12, <1>13, <1>14, <1>15 DEF PoolInv
<1> QED
  BY <1>2, <1>8, <1>16, <1>17

LEMMA CloseKeeps ==
    ASSUME PoolInv, NEW r \in Requests, closeEjsHandler(r) PROVE PoolInv' /\ Lease' = Lease
<1>1. /\ UNCHANGED <<list, count, template, mutex, exception>> /\ call[r].pc = "closed"
      /\ ejs' = [ejs EXCEPT ![r] = NoVM] /\ Goes(r, "idle") /\ TypeOK
  BY DEF closeEjsHandler, PoolInv
<1>2. /\ call' \in [Requests -> CallRecord] /\ \A s \in Requests : s # r => call'[s] = call[s]
      /\ call'[r].pc = "idle" /\ call'[r].vm = call[r].vm
  <2>1. "idle" \in Places
    BY DEF Places
  <2> QED
    BY <1>1, <2>1, TypedCall, AfterGoes
<1>3. /\ ejs' \in [Requests -> VMs \cup WorkerVMs \cup {NoVM}]
      /\ \A s \in Requests : s # r => ejs'[s] = ejs[s]
  BY <1>1 DEF TypeOK
<1>4. Lease' = Lease
  BY <1>1, <1>2, <1>3, LeaseStays
<1>5. TypeOK'
  BY <1>1, <1>2, <1>3 DEF TypeOK, CallRecord
<1>6. call[r].vm = NoVM
  BY <1>1 DEF PoolInv, CallsSound, Cloned
<1> QED
  BY <1>1, <1>2, <1>3, <1>4, <1>5, <1>6, CallMoves DEF Cloned

LEMMA PopMissKeeps ==
    ASSUME PoolInv, NEW r \in Requests, call[r].pc = "idle", Goes(r, "check"),
           UNCHANGED <<list, ejs, count, template, mutex, exception>>
    PROVE  PoolInv' /\ Lease' = Lease
<1>1. "check" \in Places
  BY DEF Places, Pending
<1>2. call[r].vm = NoVM /\ TypeOK
  BY DEF PoolInv, CallsSound, Cloned
<1>3. /\ call' \in [Requests -> CallRecord] /\ \A s \in Requests : s # r => call'[s] = call[s]
      /\ call'[r].pc = "check" /\ call'[r].vm = call[r].vm
  BY <1>1, TypedCall, AfterGoes
<1> QED
  BY <1>2, <1>3, MovesKeep DEF Cloned, TypeOK

\* A step in which an interpreter changes hands without its exception doing so
LEMMA DirtyStays ==
    ASSUME PoolInv, NEW r \in Requests, NEW v \in VMs \cup WorkerVMs, Lease[r] = NoVM,
           v \in VMs => v \notin exception,
           Lease' = [Lease EXCEPT ![r] = v], UNCHANGED exception
    PROVE  Dirty' = Dirty
<1>1. Lease'[r] = v /\ \A s \in Requests : s # r => Lease'[s] = Lease[s]
  BY DEF Lease
<1> QED
  BY <1>1, Distinct DEF Dirty

-----------------------------------------------------------------------------
\* Every step preserves the invariant and is a step of the lease, or none
LEMMA StepSimulates ==
    ASSUME PoolInv, NEW r \in Requests,
           \/ mprPopItem(r) \/ ejsAllocPoolVM(r) \/ Throws(r)
           \/ \E w \in WorkerVMs : hs_passRequest(r, w)
           \/ ejsFreePoolVM(r) \/ closeEjsHandler(r)
    PROVE  PoolInv' /\ (Promise!LeaseNext \/ (Lease' = Lease /\ Dirty' = Dirty))
<1>a. ASSUME Lease' = Lease, UNCHANGED exception PROVE Dirty' = Dirty
  BY <1>a DEF Dirty
<1>1. CASE mprPopItem(r)
  <2>1. UNCHANGED <<count, template, mutex, exception>> /\ call[r].pc = "idle"
    BY <1>1 DEF mprPopItem
  <2>2. CASE list = <<>> /\ Goes(r, "check") /\ UNCHANGED <<list, ejs>>
    BY <1>a, <2>1, <2>2, PopMissKeeps
  <2>3. CASE list # <<>> /\ list' = Front(list) /\ Hands(r, Last(list))
    <3>1. /\ PoolInv' /\ Lease[r] = NoVM /\ Lease' = [Lease EXCEPT ![r] = Last(list)]
          /\ Last(list) \in VMs \cup WorkerVMs
          /\ Last(list) \in VMs => /\ Last(list) \notin exception
                                   /\ \A s \in Requests : Lease[s] # Last(list)
      BY <2>1, <2>3, PopLends
    <3>2. Dirty' = Dirty
      BY <2>1, <3>1, DirtyStays
    <3>3. Last(list) \in VMs => Last(list) \notin Dirty
      BY <3>1 DEF Dirty
    <3> QED
      BY <3>1, <3>2, <3>3 DEF Promise!LeaseNext, Promise!Lend
  <2> QED
    BY <1>1, <2>2, <2>3 DEF mprPopItem
<1>2. CASE CheckMax(r) \/ LockPool(r) \/ CreateTemplate(r) \/ StartScript(r) \/ closeEjsHandler(r)
  <2>1. UNCHANGED exception
    BY <1>2 DEF CheckMax, LockPool, CreateTemplate, StartScript, closeEjsHandler
  <2> QED
    BY <1>2, <1>a, <2>1, CheckMaxKeeps, LockKeeps, CreateKeeps, ScriptKeeps, CloseKeeps
<1>3. CASE ejsCloneVM(r)
  BY <1>3, CloneKeeps
<1>4. CASE StoreCount(r)
  <2>1. /\ PoolInv' /\ Lease[r] = NoVM /\ Lease' = [Lease EXCEPT ![r] = call[r].vm]
        /\ call[r].vm \in VMs /\ call[r].vm \notin exception
        /\ \A s \in Requests : Lease[s] # call[r].vm
        /\ UNCHANGED exception
    BY <1>4, StoreLends DEF StoreCount
  <2>2. Dirty' = Dirty
    BY <2>1, DirtyStays
  <2>3. call[r].vm \notin Dirty
    BY <2>1 DEF Dirty
  <2> QED
    BY <2>1, <2>2, <2>3 DEF Promise!LeaseNext, Promise!Lend
<1>5. CASE Throws(r)
  BY <1>5, ThrowsDirties DEF Promise!LeaseNext, Promise!Throw
<1>6. ASSUME NEW w \in WorkerVMs, hs_passRequest(r, w)
      PROVE  PoolInv' /\ Promise!LeaseNext
  BY <1>6, PassSwaps DEF Promise!LeaseNext, Promise!Pass
<1>7. CASE ejsFreePoolVM(r)
  BY <1>7, FreeReturns DEF Promise!LeaseNext, Promise!Return
<1> QED
  BY <1>1, <1>2, <1>3, <1>4, <1>5, <1>6, <1>7 DEF ejsAllocPoolVM

LEMMA PoolStutters == ASSUME PoolInv, UNCHANGED vars PROVE PoolInv' /\ Lease' = Lease /\ Dirty' = Dirty
BY DEF PoolInv, vars, TypeOK, ListOnce, UsedOnce, ClonedOnce, Apart, CallsSound, CleanToLend,
       Listed, Lease, Dirty

LEMMA PoolInvariant == Spec => []PoolInv
<1>1. PoolInv /\ [Next]_vars => PoolInv'
  BY StepSimulates, PoolStutters DEF Next
<1> QED
  BY <1>1, PoolInvInit, PTL DEF Spec

\* The variables keep their types: the free list holds interpreters only, although what
\* closeEjsHandler pushes is whatever conn->ejs refers to.
THEOREM TypeCorrect == Spec => []TypeOK
<1>1. PoolInv => TypeOK
  BY DEF PoolInv
<1> QED
  BY <1>1, PoolInvariant, PTL

\* The pool implements the lease, whatever the number of requests and interpreters: an
\* interpreter that was cloned for the pool is with one request at a time, and is lent
\* without the exception of another.
THEOREM LeaseCorrect == Spec => LeaseKept
<1>1. Init => Promise!LeaseInit
  BY Distinct DEF Init, Promise!LeaseInit, Lease, Dirty
<1>2. PoolInv /\ [Next]_vars => [Promise!LeaseNext]_<<Lease, Dirty>>
  <2> SUFFICES ASSUME PoolInv, [Next]_vars
               PROVE  Promise!LeaseNext \/ (Lease' = Lease /\ Dirty' = Dirty)
    OBVIOUS
  <2> QED
    BY StepSimulates, PoolStutters DEF Next
<1> QED
  BY <1>1, <1>2, PoolInvariant, PTL
     DEF Spec, LeaseKept, Promise!LeaseSpec, Promise!leaseVars

-----------------------------------------------------------------------------
\* The template is created with the pool locked, and only while there is none
Creating ==
    /\ call \in [Requests -> CallRecord]
    /\ \A r \in Requests : call[r].pc = "create" => mutex = r /\ template = "none"

\* A step of a request that neither begins nor ends the creation of the template
LEMMA NotCreating ==
    ASSUME Creating, NEW r \in Requests, UNCHANGED <<mutex, template>>,
           call' \in [Requests -> CallRecord],
           \A s \in Requests : s # r => call'[s] = call[s], call'[r].pc # "create"
    PROVE  Creating'
BY DEF Creating

LEMMA CreatingStep ==
    ASSUME PoolInv, PoolInv', Creating, [Next]_vars
    PROVE  Creating' /\ (template # "none" => UNCHANGED template)
<1>0. call' \in [Requests -> CallRecord]
  BY DEF PoolInv, TypeOK, CallRecord
<1>1. CASE UNCHANGED vars
  BY <1>0, <1>1 DEF vars, Creating
<1>2. ASSUME NEW r \in Requests, LockPool(r)
      PROVE  Creating' /\ UNCHANGED template
  <2>1. UNCHANGED template /\ mutex = Nobody /\ \A s \in Requests : call[s].pc # "create"
    BY <1>2, PoolAssumption DEF LockPool, Creating
  <2>2. CASE template = "none" /\ mutex' = r /\ Goes(r, "create")
    <3>1. \A s \in Requests : s # r => call'[s] = call[s]
      BY <2>2 DEF Goes, Creating
    <3> QED
      BY <1>0, <2>1, <2>2, <3>1 DEF Creating
  <2>3. CASE UNCHANGED mutex /\ Goes(r, "clone")
    <3>1. \A s \in Requests : call'[s].pc = "clone" \/ call'[s] = call[s]
      BY <2>3 DEF Goes, Creating, CallRecord
    <3> QED
      BY <1>0, <2>1, <3>1 DEF Creating
  <2> QED
    BY <1>2, <2>1, <2>2, <2>3 DEF LockPool
<1>3. ASSUME NEW r \in Requests, CreateTemplate(r)
      PROVE  Creating' /\ template = "none"
  <2>1. template = "none" /\ mutex = r /\ \A s \in Requests : s # r => call[s].pc # "create"
    BY <1>3 DEF CreateTemplate, Creating
  <2>2. ReturnsNone(r) \/ Goes(r, "clone")
    BY <1>3 DEF CreateTemplate
  <2>3. /\ call'[r].pc # "create" /\ \A s \in Requests : s # r => call'[s] = call[s]
    BY <2>2 DEF ReturnsNone, Goes, Creating, CallRecord
  <2> QED
    BY <1>0, <2>1, <2>3 DEF Creating
<1>4. ASSUME NEW r \in Requests,
             \/ mprPopItem(r) \/ CheckMax(r) \/ ejsCloneVM(r) \/ StartScript(r) \/ StoreCount(r)
             \/ Throws(r) \/ (\E w \in WorkerVMs : hs_passRequest(r, w))
             \/ ejsFreePoolVM(r) \/ closeEjsHandler(r)
      PROVE  Creating' /\ UNCHANGED template
  <2>1. UNCHANGED <<mutex, template>>
    BY <1>4 DEF mprPopItem, CheckMax, ejsCloneVM, StartScript, StoreCount, Throws,
                hs_passRequest, ejsFreePoolVM, closeEjsHandler
  <2>2. /\ call'[r].pc # "create" /\ \A s \in Requests : s # r => call'[s] = call[s]
    BY <1>4 DEF mprPopItem, CheckMax, ejsCloneVM, StartScript, StoreCount, Throws,
                hs_passRequest, ejsFreePoolVM, closeEjsHandler, ReturnsNone, Hands, Goes,
                Creating, CallRecord
  <2> QED
    BY <1>0, <2>1, <2>2, NotCreating
<1> QED
  BY <1>1, <1>2, <1>3, <1>4 DEF Next, ejsAllocPoolVM

\* Once there is a template it is never replaced, however many requests have found none:
\* the test is made with the pool locked.
THEOREM TemplateOnceCorrect == Spec => TemplateOnce
<1>1. Init => Creating
  BY PoolInvInit, TypedCall DEF Init, Creating
<1>2. PoolInv /\ PoolInv' /\ Creating /\ [Next]_vars => Creating'
  BY CreatingStep
<1>3. PoolInv /\ PoolInv' /\ Creating /\ [Next]_vars
         => [template # "none" => UNCHANGED template]_vars
  BY CreatingStep
<1> QED
  BY <1>1, <1>2, <1>3, PoolInvariant, PTL DEF Spec, TemplateOnce

-----------------------------------------------------------------------------
\* Requests without an interpreter, and interpreters that were handed over
Without == Cardinality(InPlaces({"idle", "closed"}))

Using == Cardinality(InPlaces({"using"}))

\* What the steps that were counted or are about to be rest on
Counted ==
    /\ PoolBounded /\ CountCovered
    /\ \A r \in Requests : call[r].pc = "store" => call[r].n <= Len(list) + Using

\* How a set of requests changes when one of them moves
LEMMA PlacesMove ==
    ASSUME NEW P, NEW r \in Requests, \A s \in Requests : s # r => call'[s] = call[s]
    PROVE  /\ Cardinality(InPlaces(P)) \in Nat /\ Cardinality(InPlaces(P)') \in Nat
           /\ (call[r].pc \in P <=> call'[r].pc \in P) =>
                  Cardinality(InPlaces(P)') = Cardinality(InPlaces(P))
           /\ call[r].pc \in P /\ call'[r].pc \notin P =>
                  Cardinality(InPlaces(P)') = Cardinality(InPlaces(P)) - 1
           /\ call[r].pc \notin P /\ call'[r].pc \in P =>
                  Cardinality(InPlaces(P)') = Cardinality(InPlaces(P)) + 1
<1> DEFINE old == InPlaces(P)
           new == {s \in Requests : call'[s].pc \in P}
<1>1. new = InPlaces(P)'
  BY DEF InPlaces
<1>2. IsFiniteSet(old) /\ IsFiniteSet(new)
  BY PoolAssumption, FS_Subset DEF InPlaces
<1>3. /\ r \in old <=> call[r].pc \in P
      /\ r \in new <=> call'[r].pc \in P
      /\ \A s : s # r => (s \in old <=> s \in new)
  BY DEF InPlaces
<1> HIDE DEF old, new
<1>4. Cardinality(old) \in Nat /\ Cardinality(new) \in Nat
  BY <1>2, FS_CardinalityType
<1>5. (r \in old <=> r \in new) => new = old
  BY <1>3
<1>6. r \in old /\ r \notin new => Cardinality(new) = Cardinality(old) - 1
  <2> SUFFICES ASSUME r \in old, r \notin new PROVE Cardinality(new) = Cardinality(old) - 1
    OBVIOUS
  <2>1. new = old \ {r}
    BY <1>3
  <2> QED
    BY <1>2, <2>1, FS_RemoveElement
<1>7. r \notin old /\ r \in new => Cardinality(new) = Cardinality(old) + 1
  <2> SUFFICES ASSUME r \notin old, r \in new PROVE Cardinality(new) = Cardinality(old) + 1
    OBVIOUS
  <2>1. new = old \cup {r}
    BY <1>3
  <2> QED
    BY <1>2, <2>1, FS_AddElement
<1> QED
  BY <1>1, <1>3, <1>4, <1>5, <1>6, <1>7 DEF old

\* The two numbers, when a request moves
LEMMA NumbersMove ==
    ASSUME NEW r \in Requests, \A s \in Requests : s # r => call'[s] = call[s]
    PROVE  /\ Without \in Nat /\ Without' \in Nat /\ Using \in Nat /\ Using' \in Nat
           /\ call[r].pc \in {"idle", "closed"} /\ call'[r].pc \in {"idle", "closed"} =>
                  Without' = Without /\ Using' = Using
           /\ call[r].pc \in {"idle", "closed"} /\ call'[r].pc = "using" =>
                  Without' = Without - 1 /\ Using' = Using + 1
           /\ call[r].pc = "using" /\ call'[r].pc = "closed" =>
                  Without' = Without + 1 /\ Using' = Using - 1
           /\ call[r].pc \notin {"idle", "closed", "using"} /\ call'[r].pc = "using" =>
                  Without' = Without /\ Using' = Using + 1
           /\ call[r].pc \notin {"idle", "closed", "using"} /\ call'[r].pc # "using" =>
                  Without' >= Without /\ Using' = Using
           /\ call[r].pc = "using" /\ call'[r].pc = "using" =>
                  Without' = Without /\ Using' = Using
<1>1. /\ Without \in Nat /\ Without' \in Nat
      /\ (call[r].pc \in {"idle", "closed"} <=> call'[r].pc \in {"idle", "closed"}) =>
             Without' = Without
      /\ call[r].pc \in {"idle", "closed"} /\ call'[r].pc \notin {"idle", "closed"} =>
             Without' = Without - 1
      /\ call[r].pc \notin {"idle", "closed"} /\ call'[r].pc \in {"idle", "closed"} =>
             Without' = Without + 1
  BY PlacesMove DEF Without
<1>2. /\ Using \in Nat /\ Using' \in Nat
      /\ (call[r].pc \in {"using"} <=> call'[r].pc \in {"using"}) => Using' = Using
      /\ call[r].pc \in {"using"} /\ call'[r].pc \notin {"using"} => Using' = Using - 1
      /\ call[r].pc \notin {"using"} /\ call'[r].pc \in {"using"} => Using' = Using + 1
  BY PlacesMove DEF Using
<1> QED
  BY <1>1, <1>2

\* A step that hands over nothing and takes nothing back
LEMMA NothingHanded ==
    ASSUME PoolInv, PoolInv', Counted, NEW r \in Requests, UNCHANGED <<list, count>>,
           \A s \in Requests : s # r => call'[s] = call[s],
           Without' >= Without, Using' = Using,
           call'[r].pc = "store" => call'[r].n <= Len(list) + Using
    PROVE  Counted'
<1>1. Without' \in Nat /\ Without \in Nat /\ Using \in Nat /\ Len(list) \in Nat
  BY NumbersMove DEF PoolInv, TypeOK
<1>2. PoolBounded' /\ CountCovered'
  BY <1>1 DEF Counted, PoolBounded, CountCovered, Without, Using
<1> QED
  BY <1>1, <1>2 DEF Counted

LEMMA CountedStep ==
    ASSUME PoolInv, PoolInv', Counted, [Next]_vars PROVE Counted'
<1>0. /\ call \in [Requests -> CallRecord] /\ call' \in [Requests -> CallRecord]
      /\ count \in Nat /\ Len(list) \in Nat /\ Len(list') \in Nat
  BY DEF PoolInv, TypeOK, CallRecord
<1>1. CASE UNCHANGED vars
  BY <1>1 DEF vars, Counted, PoolBounded, CountCovered, Without, Using, InPlaces
<1>2. ASSUME NEW r \in Requests, mprPopItem(r) PROVE Counted'
  <2>1. CASE list = <<>> /\ Goes(r, "check") /\ UNCHANGED <<list, ejs>>
    <3>1. /\ call[r].pc = "idle" /\ call'[r].pc = "check" /\ UNCHANGED <<list, count>>
          /\ \A s \in Requests : s # r => call'[s] = call[s]
      BY <1>0, <1>2, <2>1 DEF mprPopItem, Goes, CallRecord
    <3>2. /\ Without' \in Nat /\ Using' = Using /\ Using \in Nat
      BY <3>1, PlacesMove DEF Without, Using
    <3>3. Len(list) = 0
      BY <2>1
    <3> QED
      BY <1>0, <3>1, <3>2, <3>3 DEF Counted, PoolBounded, CountCovered, Without, Using
  <2>2. CASE list # <<>> /\ list' = Front(list) /\ Hands(r, Last(list))
    <3>1. /\ call[r].pc = "idle" /\ call'[r].pc = "using" /\ UNCHANGED count
          /\ \A s \in Requests : s # r => call'[s] = call[s]
      BY <1>0, <1>2, <2>2 DEF mprPopItem, Hands, CallRecord
    <3>2. Len(list') = Len(list) - 1
      BY <2>2, PopFacts DEF PoolInv, TypeOK
    <3>3. Without' = Without - 1 /\ Using' = Using + 1 /\ Without \in Nat /\ Using \in Nat
      BY <3>1, NumbersMove
    <3> QED
      BY <1>0, <3>1, <3>2, <3>3, SMTT(30) DEF Counted, PoolBounded, CountCovered, Without, Using
  <2> QED
    BY <1>2, <2>1, <2>2 DEF mprPopItem
<1>3. ASSUME NEW r \in Requests,
             CheckMax(r) \/ LockPool(r) \/ CreateTemplate(r) \/ ejsCloneVM(r) \/ StartScript(r)
      PROVE  Counted'
  <2>1. /\ call[r].pc \in {"check", "lock", "create", "clone", "script"}
        /\ call'[r].pc # "using" /\ UNCHANGED <<list, count>>
        /\ \A s \in Requests : s # r => call'[s] = call[s]
    BY <1>0, <1>3 DEF CheckMax, LockPool, CreateTemplate, ejsCloneVM, StartScript, ReturnsNone,
                      Goes, CallRecord
  <2>2. Without' >= Without /\ Using' = Using
    BY <2>1, NumbersMove
  <2>3. call'[r].pc = "store" => call'[r].n = count
    BY <1>0, <1>3 DEF CheckMax, LockPool, CreateTemplate, ejsCloneVM, StartScript, ReturnsNone,
                      Goes, CallRecord
  <2>4. count <= Len(list) + Using
    BY DEF Counted, CountCovered, Using
  <2> QED
    BY <2>1, <2>2, <2>3, <2>4, NothingHanded
<1>4. ASSUME NEW r \in Requests, StoreCount(r) PROVE Counted'
  <2>1. /\ call[r].pc = "store" /\ call'[r].pc = "using" /\ UNCHANGED list
        /\ \A s \in Requests : s # r => call'[s] = call[s]
        /\ count' = call[r].n + 1 /\ call[r].n \in Nat
    BY <1>0, <1>4 DEF StoreCount, Hands, CallRecord
  <2>2. Without' = Without /\ Using' = Using + 1 /\ Without \in Nat /\ Using \in Nat
    BY <2>1, NumbersMove
  <2> QED
    <3>1. PoolBounded'
      BY <2>1, <2>2 DEF Counted, PoolBounded, Without
    <3>2. call[r].n <= Len(list) + Using
      BY <2>1 DEF Counted
    <3>3. CountCovered'
      BY <1>0, <2>1, <2>2, <3>2 DEF CountCovered, Using
    <3>4. \A s \in Requests : call'[s].pc = "store" => call'[s].n <= Len(list') + Using'
      <4> SUFFICES ASSUME NEW s \in Requests, call'[s].pc = "store"
                   PROVE  call'[s].n <= Len(list') + Using'
        OBVIOUS
      <4>1. call'[s] = call[s] /\ call[s].n \in Nat /\ call[s].n <= Len(list) + Using
        BY <1>0, <2>1 DEF Counted, CallRecord
      <4> QED
        BY <1>0, <2>1, <2>2, <4>1
    <3> QED
      BY <3>1, <3>3, <3>4 DEF Counted
<1>5. ASSUME NEW r \in Requests, Throws(r) \/ \E w \in WorkerVMs : hs_passRequest(r, w)
      PROVE  Counted'
  BY <1>5 DEF Throws, hs_passRequest, Counted, PoolBounded, CountCovered, Without, Using, InPlaces
<1>6. ASSUME NEW r \in Requests, ejsFreePoolVM(r) PROVE Counted'
  <2>1. /\ call[r].pc = "using" /\ call'[r].pc = "closed" /\ UNCHANGED count
        /\ \A s \in Requests : s # r => call'[s] = call[s]
    BY <1>0, <1>6 DEF ejsFreePoolVM, Goes, CallRecord
  <2>2. Len(list') = Len(list) + 1
    BY <1>6 DEF ejsFreePoolVM, PoolInv, TypeOK, CallsSound
  <2>3. /\ Without' = Without + 1 /\ Using' = Using - 1 /\ Without \in Nat
        /\ Using \in Nat /\ Using' \in Nat
    BY <2>1, NumbersMove
  <2> QED
    BY <1>0, <2>1, <2>2, <2>3, SMTT(30) DEF Counted, PoolBounded, CountCovered, Without, Using, CallRecord
<1>7. ASSUME NEW r \in Requests, closeEjsHandler(r) PROVE Counted'
  <2>1. /\ call[r].pc = "closed" /\ call'[r].pc = "idle" /\ UNCHANGED <<list, count>>
        /\ \A s \in Requests : s # r => call'[s] = call[s]
    BY <1>0, <1>7 DEF closeEjsHandler, Goes, CallRecord
  <2>2. Without' = Without /\ Using' = Using /\ Without \in Nat
    BY <2>1, NumbersMove
  <2> QED
    BY <2>1, <2>2, NothingHanded
<1> QED
  BY <1>1, <1>2, <1>3, <1>4, <1>5, <1>6, <1>7 DEF Next, ejsAllocPoolVM

LEMMA CountedInvariant == Spec => []Counted
<1>1. Init => Counted
  <2> SUFFICES ASSUME Init PROVE Counted
    OBVIOUS
  <2>1. Len(list) = 0 /\ count = 0 /\ \A r \in Requests : call[r].pc = "idle"
    BY DEF Init
  <2>2. IsFiniteSet(InPlaces({"idle", "closed"})) /\ IsFiniteSet(InPlaces({"using"}))
    BY PoolAssumption, FS_Subset DEF InPlaces
  <2>3. Without \in Nat /\ Using \in Nat
    BY <2>2, FS_CardinalityType DEF Without, Using
  <2> QED
    BY <2>1, <2>3 DEF Counted, PoolBounded, CountCovered, Without, Using
<1>2. PoolInv /\ PoolInv' /\ Counted /\ [Next]_vars => Counted'
  BY CountedStep
<1> QED
  BY <1>1, <1>2, PoolInvariant, PTL DEF Spec

\* There are never more interpreters than requests at the same time, although the test of
\* pool->max bounds nothing.
THEOREM PoolBoundedCorrect == Spec => []PoolBounded
<1>1. Counted => PoolBounded
  BY DEF Counted
<1> QED
  BY <1>1, CountedInvariant, PTL

\* The count never runs ahead of the interpreters, for any interleaving of its unlocked
\* reads and writes.
THEOREM CountCoveredCorrect == Spec => []CountCovered
<1>1. Counted => CountCovered
  BY DEF Counted
<1> QED
  BY <1>1, CountedInvariant, PTL
=============================================================================
