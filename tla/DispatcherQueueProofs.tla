------------------------ MODULE DispatcherQueueProofs ------------------------
(***************************************************************************)
(* Proofs about what the dispatchers have queued: the queues of            *)
(* dispatchers, the events of each of them, and the sleep of the service.  *)
(***************************************************************************)
EXTENDS DispatcherProofs, SequenceTheorems, FiniteSetTheorems, NaturalsInduction,
        WellFoundedInduction

-----------------------------------------------------------------------------
(***************************************************************************)
(* Sequences without duplicates.                                           *)
(***************************************************************************)

NoDup(s) == \A i, j \in DOMAIN s : s[i] = s[j] => i = j

\* A set of numbers that is not empty has a least one.
LEMMA LeastExists ==
    ASSUME NEW S \in SUBSET Nat, S # {}
    PROVE  /\ Min(S) \in S
           /\ \A n \in S : Min(S) <= n
<1> DEFINE R == {ss \in Nat \X Nat : ss[1] < ss[2]}
<1>0. IsWellFoundedOn(R, Nat)
  BY NatLessThanWellFounded, Zenon DEF OpToRel
<1>1. PICK x \in S : \A y \in S : ~ (<<y, x>> \in R)
  <2> HIDE DEF R
  <2> QED
    BY <1>0, WFMin
<1>2. ASSUME NEW y \in S
      PROVE  x <= y
  <2>1. x \in Nat /\ y \in Nat
    OBVIOUS
  <2>2. y < x => <<y, x>> \in R
    BY <2>1
  <2>3. ~(y < x)
    BY <1>1, <2>2
  <2> QED
    BY <2>1, <2>3
<1>3. \E m \in S : \A n \in S : m <= n
  BY <1>2
<1> QED
  BY <1>3 DEF Min

\* A bounded set of numbers that is not empty has a greatest one: its distance to the
\* bound is the least.
LEMMA GreatestExists ==
    ASSUME NEW n \in Nat, NEW S \in SUBSET (0..n), S # {}
    PROVE  /\ Max(S) \in S
           /\ \A m \in S : m <= Max(S)
<1> DEFINE T == {n - m : m \in S}
<1>1. T \in SUBSET Nat /\ T # {}
  <2>1. \A m \in S : n - m \in Nat
    OBVIOUS
  <2>2. PICK m \in S : TRUE
    OBVIOUS
  <2>3. n - m \in T
    OBVIOUS
  <2> QED
    BY <2>1, <2>3
<1>2. PICK k \in T : \A x \in T : k <= x
  <2> HIDE DEF T
  <2> QED
    BY <1>1, LeastExists
<1>3. PICK g \in S : k = n - g
  OBVIOUS
<1>4. \A m \in S : g >= m
  <2> SUFFICES ASSUME NEW m \in S PROVE g >= m
    OBVIOUS
  <2>1. k <= n - m
    BY <1>2
  <2> QED
    BY <1>3, <2>1
<1>5. \E x \in S : \A y \in S : x >= y
  BY <1>4
<1>6. Max(S) \in S /\ \A y \in S : Max(S) >= y
  BY <1>5 DEF Max
<1> QED
  BY <1>6

LEMMA RemoveAtProps ==
    ASSUME NEW S, NEW s \in Seq(S), NEW i \in 1..Len(s)
    PROVE  /\ RemoveAt(s, i) \in Seq(S)
           /\ Len(RemoveAt(s, i)) = Len(s) - 1
           /\ \A j \in 1..(Len(s) - 1) :
                 RemoveAt(s, i)[j] = IF j < i THEN s[j] ELSE s[j + 1]
<1> DEFINE a == SubSeq(s, 1, i - 1)
           b == SubSeq(s, i + 1, Len(s))
<1>1. Len(s) \in Nat
  BY LenProperties
<1>2. /\ a \in Seq(S) /\ Len(a) = i - 1
      /\ \A j \in 1..(i - 1) : a[j] = s[j]
  BY <1>1, SubSeqProperties
<1>3. /\ b \in Seq(S) /\ Len(b) = Len(s) - i
      /\ \A j \in 1..(Len(s) - i) : b[j] = s[i + j]
  <2>1. CASE i = Len(s)
    BY <1>1, <2>1, SubSeqProperties
  <2>2. CASE i < Len(s)
    <3>1. i + 1 \in 1..Len(s) + 1 /\ Len(s) \in (i + 1)..Len(s)
      BY <1>1, <2>2
    <3>2. /\ b \in Seq(S) /\ Len(b) = Len(s) - (i + 1) + 1
          /\ \A j \in 1..(Len(s) - (i + 1) + 1) : b[j] = s[(i + 1) + j - 1]
      BY <1>1, <3>1, SubSeqProperties
    <3> QED
      BY <1>1, <3>2
  <2> QED
    BY <1>1, <2>1, <2>2
<1> HIDE DEF a, b
<1>4. /\ a \o b \in Seq(S)
      /\ Len(a \o b) = Len(a) + Len(b)
      /\ \A j \in 1..(Len(a) + Len(b)) :
            (a \o b)[j] = IF j <= Len(a) THEN a[j] ELSE b[j - Len(a)]
  BY <1>2, <1>3, ConcatProperties
<1>5. RemoveAt(s, i) = a \o b
  BY DEF RemoveAt, a, b
<1>6. ASSUME NEW j \in 1..(Len(s) - 1)
      PROVE  (a \o b)[j] = IF j < i THEN s[j] ELSE s[j + 1]
  <2>1. CASE j < i
    BY <1>1, <1>2, <1>3, <1>4, <2>1
  <2>2. CASE ~(j < i)
    <3>1. (a \o b)[j] = b[j - (i - 1)]
      BY <1>1, <1>2, <1>3, <1>4, <2>2
    <3>2. j - (i - 1) \in 1..(Len(s) - i) /\ i + (j - (i - 1)) = j + 1
      BY <1>1, <2>2
    <3> QED
      BY <1>3, <2>2, <3>1, <3>2
  <2> QED
    BY <2>1, <2>2
<1>7. Len(a \o b) = Len(s) - 1
  BY <1>1, <1>2, <1>3, <1>4
<1> QED
  BY <1>4, <1>5, <1>6, <1>7

LEMMA InsertAtProps ==
    ASSUME NEW S, NEW s \in Seq(S), NEW i \in 1..(Len(s) + 1), NEW e \in S
    PROVE  /\ InsertAt(s, i, e) \in Seq(S)
           /\ Len(InsertAt(s, i, e)) = Len(s) + 1
           /\ \A j \in 1..(Len(s) + 1) :
                 InsertAt(s, i, e)[j] =
                     IF j < i THEN s[j] ELSE IF j = i THEN e ELSE s[j - 1]
<1> DEFINE a == SubSeq(s, 1, i - 1)
           b == SubSeq(s, i, Len(s))
           c == <<e>>
<1>1. Len(s) \in Nat
  BY LenProperties
<1>2. /\ a \in Seq(S) /\ Len(a) = i - 1
      /\ \A j \in 1..(i - 1) : a[j] = s[j]
  BY <1>1, SubSeqProperties
<1>3. /\ b \in Seq(S) /\ Len(b) = Len(s) - i + 1
      /\ \A j \in 1..(Len(s) - i + 1) : b[j] = s[i + j - 1]
  BY <1>1, SubSeqProperties
<1>c. c \in Seq(S) /\ Len(c) = 1 /\ c[1] = e
  OBVIOUS
<1> HIDE DEF a, b, c
<1>4. /\ a \o c \in Seq(S) /\ Len(a \o c) = i
      /\ \A j \in 1..i : (a \o c)[j] = IF j <= i - 1 THEN a[j] ELSE c[j - (i - 1)]
  <2>1. /\ a \o c \in Seq(S) /\ Len(a \o c) = Len(a) + Len(c)
        /\ \A j \in 1..(Len(a) + Len(c)) :
              (a \o c)[j] = IF j <= Len(a) THEN a[j] ELSE c[j - Len(a)]
    BY <1>2, <1>c, ConcatProperties
  <2> QED
    BY <1>1, <1>2, <1>c, <2>1
<1> DEFINE ac == a \o c
<1> HIDE DEF ac
<1>5. /\ ac \in Seq(S) /\ Len(ac) = i
      /\ \A j \in 1..(i - 1) : ac[j] = s[j]
      /\ ac[i] = e
  <2>1. ac[i] = c[1]
    BY <1>1, <1>4 DEF ac
  <2> QED
    BY <1>1, <1>2, <1>4, <1>c, <2>1 DEF ac
<1>6. /\ ac \o b \in Seq(S) /\ Len(ac \o b) = Len(ac) + Len(b)
      /\ \A j \in 1..(Len(ac) + Len(b)) :
            (ac \o b)[j] = IF j <= Len(ac) THEN ac[j] ELSE b[j - Len(ac)]
  BY <1>3, <1>5, ConcatProperties
<1>7. InsertAt(s, i, e) = ac \o b
  BY DEF InsertAt, a, b, c, ac
<1>8. ASSUME NEW j \in 1..(Len(s) + 1)
      PROVE  (ac \o b)[j] = IF j < i THEN s[j] ELSE IF j = i THEN e ELSE s[j - 1]
  <2>1. CASE j < i
    BY <1>1, <1>3, <1>5, <1>6, <2>1
  <2>2. CASE j = i
    BY <1>1, <1>3, <1>5, <1>6, <2>2
  <2>3. CASE j > i
    <3>1. (ac \o b)[j] = b[j - i]
      BY <1>1, <1>3, <1>5, <1>6, <2>3
    <3>2. j - i \in 1..(Len(s) - i + 1) /\ i + (j - i) - 1 = j - 1
      BY <1>1, <2>3
    <3>3. (ac \o b)[j] = s[j - 1]
      BY <1>3, <3>1, <3>2
    <3> QED
      BY <1>1, <2>3, <3>3
  <2>4. j < i \/ j = i \/ j > i
    BY <1>1
  <2> QED
    BY <2>1, <2>2, <2>3, <2>4
<1>9. Len(ac \o b) = Len(s) + 1
  BY <1>1, <1>3, <1>5, <1>6
<1> QED
  BY <1>6, <1>7, <1>8, <1>9

LEMMA RangeIsElements ==
    ASSUME NEW S, NEW s \in Seq(S), NEW x
    PROVE  x \in Range(s) <=> \E i \in 1..Len(s) : s[i] = x
BY LenProperties DEF Range

\* Without takes one element out and leaves the others in their order.
LEMMA WithoutProps ==
    ASSUME NEW S, NEW s \in Seq(S), NoDup(s), NEW x
    PROVE  /\ Without(s, x) \in Seq(S)
           /\ NoDup(Without(s, x))
           /\ \A y : y \in Range(Without(s, x)) <=> y \in Range(s) /\ y # x
           /\ \A i, j \in DOMAIN Without(s, x) : i < j =>
                 \E k, l \in DOMAIN s : /\ k < l /\ s[k] = Without(s, x)[i]
                                        /\ s[l] = Without(s, x)[j]
<1>0. Len(s) \in Nat /\ DOMAIN s = 1..Len(s)
  BY LenProperties
<1>1. CASE x \notin Range(s)
  BY <1>1, <1>0 DEF Without
<1>2. CASE x \in Range(s)
  <2> DEFINE p == CHOOSE i \in DOMAIN s : s[i] = x
             r == RemoveAt(s, p)
  <2>1. p \in 1..Len(s) /\ s[p] = x
    <3>1. \E i \in DOMAIN s : s[i] = x
      BY <1>2 DEF Range
    <3> QED
      BY <3>1, <1>0
  <2>2. Without(s, x) = r
    BY <1>2 DEF Without
  <2> HIDE DEF p
  <2>3. /\ r \in Seq(S) /\ Len(r) = Len(s) - 1
        /\ \A j \in 1..(Len(s) - 1) : r[j] = IF j < p THEN s[j] ELSE s[j + 1]
    BY <2>1, RemoveAtProps
  <2> HIDE DEF r
  <2>4. DOMAIN r = 1..(Len(s) - 1)
    BY <2>3, LenProperties
  <2>5. ASSUME NEW i \in DOMAIN r, NEW j \in DOMAIN r, i < j
        PROVE  \E k, l \in DOMAIN s : k < l /\ s[k] = r[i] /\ s[l] = r[j]
    <3> DEFINE k == IF i < p THEN i ELSE i + 1
               l == IF j < p THEN j ELSE j + 1
    <3>1. k \in DOMAIN s /\ l \in DOMAIN s /\ k < l
      BY <1>0, <2>1, <2>4, <2>5
    <3>2. s[k] = r[i] /\ s[l] = r[j]
      BY <2>3, <2>4
    <3> QED
      BY <3>1, <3>2
  <2>6. NoDup(r)
    <3> SUFFICES ASSUME NEW i \in DOMAIN r, NEW j \in DOMAIN r, r[i] = r[j], i < j
                 PROVE  FALSE
      BY <1>0, <2>4 DEF NoDup
    <3>1. PICK k \in DOMAIN s, l \in DOMAIN s : k < l /\ s[k] = r[i] /\ s[l] = r[j]
      BY <2>5
    <3> QED
      BY <1>0, <3>1 DEF NoDup
  <2>7. ASSUME NEW y \in Range(r) PROVE y \in Range(s) /\ y # x
    <3>1. PICK i \in DOMAIN r : r[i] = y
      BY DEF Range
    <3> DEFINE k == IF i < p THEN i ELSE i + 1
    <3>2. k \in DOMAIN s /\ s[k] = y /\ k # p
      BY <1>0, <2>1, <2>3, <2>4, <3>1
    <3> QED
      BY <1>0, <2>1, <3>2 DEF NoDup, Range
  <2>8. ASSUME NEW y \in Range(s), y # x PROVE y \in Range(r)
    <3>1. PICK k \in DOMAIN s : s[k] = y
      BY DEF Range
    <3>2. k # p
      BY <2>1, <2>8, <3>1
    <3> DEFINE i == IF k < p THEN k ELSE k - 1
    <3>3. i \in DOMAIN r
      BY <1>0, <2>1, <2>4, <3>2
    <3>4. r[i] = s[k]
      BY <1>0, <2>1, <2>3, <2>4, <3>2, <3>3
    <3> QED
      BY <3>1, <3>3, <3>4 DEF Range
  <2> QED
    BY <2>2, <2>3, <2>5, <2>6, <2>7, <2>8
<1> QED
  BY <1>1, <1>2

\* The events of a queue are in the order in which they are due
SortedBy(q, evs) == \A i, j \in DOMAIN q : i < j => evs[q[i]].due <= evs[q[j]].due

LEMMA InsertAtEvents ==
    ASSUME NEW q \in Seq(Events), NEW k \in 1..(Len(q) + 1), NEW e \in Events
    PROVE  /\ InsertAt(q, k, e) \in Seq(Events)
           /\ Len(InsertAt(q, k, e)) = Len(q) + 1
           /\ \A j \in 1..(Len(q) + 1) :
                 InsertAt(q, k, e)[j] = IF j < k THEN q[j] ELSE IF j = k THEN e ELSE q[j - 1]
BY InsertAtProps, SMT

\* Insert puts an event at a place where the queue stays in order: initEventQ's loop from
\* the back stops at the last event that is due no later, and what is before that one is
\* due no later either.
LEMMA InsertProps ==
    ASSUME NEW q \in Seq(Events), NoDup(q), NEW e \in Events, e \notin Range(q),
           NEW evs, \A x \in Events : evs[x].due \in Nat,
           SortedBy(q, evs)
    PROVE  /\ Insert(q, e, evs) \in Seq(Events)
           /\ NoDup(Insert(q, e, evs))
           /\ \A x : x \in Range(Insert(q, e, evs)) <=> x \in Range(q) \/ x = e
           /\ SortedBy(Insert(q, e, evs), evs)
<1> DEFINE places == {0} \cup {i \in DOMAIN q : evs[q[i]].due <= evs[e].due}
           p == Max(places)
           r == Insert(q, e, evs)
<1>0. Len(q) \in Nat /\ DOMAIN q = 1..Len(q) /\ \A i \in 1..Len(q) : q[i] \in Events
  BY LenProperties, ElementOfSeq
<1>1. places \in SUBSET (0..Len(q)) /\ places # {}
  BY <1>0
<1>2. p \in places /\ \A i \in places : i <= p
  <2> HIDE DEF places
  <2> QED
    BY <1>0, <1>1, GreatestExists
<1> HIDE DEF p
<1>3. p \in 0..Len(q)
  BY <1>1, <1>2
<1>4. \A i \in 1..Len(q) : i > p => evs[q[i]].due > evs[e].due
  <2> SUFFICES ASSUME NEW i \in 1..Len(q), i > p, evs[q[i]].due <= evs[e].due PROVE FALSE
    BY <1>0
  <2>1. i \in places
    BY <1>0
  <2> QED
    BY <1>2, <1>3, <2>1
<1>5. \A i \in 1..Len(q) : i <= p => evs[q[i]].due <= evs[e].due
  <2> SUFFICES ASSUME NEW i \in 1..Len(q), i <= p PROVE evs[q[i]].due <= evs[e].due
    OBVIOUS
  <2>1. p \in DOMAIN q /\ evs[q[p]].due <= evs[e].due
    BY <1>0, <1>2, <1>3
  <2>2. evs[q[i]].due <= evs[q[p]].due
    <3>1. CASE i = p
      BY <1>0, <3>1
    <3>2. CASE i < p
      BY <1>0, <2>1, <3>2 DEF SortedBy
    <3> QED
      BY <1>3, <3>1, <3>2
  <2> QED
    BY <1>0, <2>1, <2>2
<1>6. r = InsertAt(q, p + 1, e)
  BY DEF Insert, p
<1> HIDE DEF places, r
<1>7. /\ r \in Seq(Events) /\ Len(r) = Len(q) + 1
      /\ \A j \in 1..(Len(q) + 1) :
            r[j] = IF j < p + 1 THEN q[j] ELSE IF j = p + 1 THEN e ELSE q[j - 1]
  <2>1. p + 1 \in 1..(Len(q) + 1)
    BY <1>0, <1>3
  <2>2. PICK k \in 1..(Len(q) + 1) : k = p + 1
    BY <2>1
  <2>3. /\ InsertAt(q, k, e) \in Seq(Events)
        /\ Len(InsertAt(q, k, e)) = Len(q) + 1
        /\ \A j \in 1..(Len(q) + 1) :
              InsertAt(q, k, e)[j] = IF j < k THEN q[j] ELSE IF j = k THEN e ELSE q[j - 1]
    BY InsertAtEvents
  <2> QED
    BY <1>6, <2>2, <2>3
<1>8. DOMAIN r = 1..(Len(q) + 1)
  BY <1>7, LenProperties
\* The places of r and those of q
<1>9. ASSUME NEW j \in DOMAIN r
      PROVE  \/ j <= p /\ j \in DOMAIN q /\ r[j] = q[j]
             \/ j = p + 1 /\ r[j] = e
             \/ j > p + 1 /\ j - 1 \in DOMAIN q /\ r[j] = q[j - 1]
  <2>1. CASE j <= p
    BY <1>0, <1>3, <1>7, <1>8, <2>1
  <2>2. CASE j = p + 1
    BY <1>0, <1>3, <1>7, <1>8, <2>2
  <2>3. CASE j > p + 1
    BY <1>0, <1>3, <1>7, <1>8, <2>3
  <2> QED
    BY <1>3, <1>8, <2>1, <2>2, <2>3
<1>10. ASSUME NEW i \in DOMAIN r, NEW j \in DOMAIN r, i < j
       PROVE  /\ r[i] # r[j]
              /\ evs[r[i]].due <= evs[r[j]].due
  <2>0. \A k \in DOMAIN q : q[k] # e /\ evs[q[k]].due \in Nat
    BY <1>0 DEF Range
  <2>1. CASE i <= p /\ j <= p
    BY <1>0, <1>3, <1>8, <1>9, <1>10, <2>1 DEF NoDup, SortedBy
  <2>2. CASE i <= p /\ j = p + 1
    BY <1>0, <1>3, <1>5, <1>8, <1>9, <1>10, <2>0, <2>2, SMTT(30)
  <2>3. CASE i <= p /\ j > p + 1
    <3>1. i < j - 1 /\ j - 1 \in DOMAIN q /\ r[j] = q[j - 1] /\ i \in DOMAIN q /\ r[i] = q[i]
      BY <1>0, <1>3, <1>8, <1>9, <2>3
    <3> QED
      BY <1>0, <3>1 DEF NoDup, SortedBy
  <2>4. CASE i = p + 1
    <3>1. j > p + 1 /\ j - 1 > p /\ j - 1 \in DOMAIN q /\ r[j] = q[j - 1] /\ r[i] = e
      BY <1>0, <1>3, <1>8, <1>9, <1>10, <2>4
    <3> QED
      BY <1>0, <1>4, <2>0, <3>1
  <2>5. CASE i > p + 1
    <3>1. /\ i - 1 < j - 1 /\ j - 1 \in DOMAIN q /\ r[j] = q[j - 1]
          /\ i - 1 \in DOMAIN q /\ r[i] = q[i - 1]
      BY <1>0, <1>3, <1>8, <1>9, <1>10, <2>5
    <3> QED
      BY <1>0, <3>1 DEF NoDup, SortedBy
  <2> QED
    BY <1>3, <1>8, <2>1, <2>2, <2>3, <2>4, <2>5
<1>11. NoDup(r)
  BY <1>0, <1>8, <1>10 DEF NoDup
<1>12. SortedBy(r, evs)
  BY <1>10 DEF SortedBy
<1>13. ASSUME NEW x PROVE x \in Range(r) <=> x \in Range(q) \/ x = e
  <2>1. ASSUME x \in Range(r) PROVE x \in Range(q) \/ x = e
    BY <1>9, <2>1 DEF Range
  <2>2. e \in Range(r)
    <3>1. p + 1 \in DOMAIN r /\ r[p + 1] = e
      BY <1>0, <1>3, <1>7, <1>8
    <3> QED
      BY <3>1 DEF Range
  <2>3. ASSUME x \in Range(q) PROVE x \in Range(r)
    <3>1. PICK k \in DOMAIN q : q[k] = x
      BY <2>3 DEF Range
    <3>2. CASE k <= p
      BY <1>0, <1>3, <1>7, <1>8, <3>1, <3>2 DEF Range
    <3>3. CASE k > p
      <4>1. k + 1 \in DOMAIN r /\ (k + 1) - 1 = k /\ ~(k + 1 < p + 1) /\ k + 1 # p + 1
        BY <1>0, <1>3, <1>8, <3>3
      <4>2. r[k + 1] = q[k]
        BY <1>7, <1>8, <4>1
      <4> QED
        BY <3>1, <4>1, <4>2 DEF Range
    <3> QED
      BY <1>0, <1>3, <3>2, <3>3
  <2> QED
    BY <2>1, <2>2, <2>3
<1> QED
  BY <1>7, <1>11, <1>12, <1>13 DEF r

-----------------------------------------------------------------------------
(***************************************************************************)
(* The invariant.                                                          *)
(***************************************************************************)

EventRecord == [dispatcher : Dispatchers \cup {Nobody}, created : BOOLEAN,
                continuous : BOOLEAN, period : 0..MaxPeriod, due : 0..MaxPeriod]

EsRecord == [lag : 0..MaxPeriod, willAwake : 0..Never, waiting : BOOLEAN,
             counted : BOOLEAN, sleep : 0..Never, late : 0..MaxPeriod,
             crashed : BOOLEAN]

RemovedStates == {"no", "quiet", "running", "again", "after"}

\* A thread that is to put a dispatcher on another queue has one
HelpersHave ==
    \A t \in Threads : thread[t].pc \in {"pend", "dequeue", "schedule"} =>
                           thread[t].d \in Dispatchers

\* A dispatcher is on at most one queue, and there once
Distinct(qs) ==
    /\ \A q \in QueueNames : NoDup(qs[q])
    /\ \A q, r \in QueueNames, d \in Dispatchers :
          d \in Range(qs[q]) /\ d \in Range(qs[r]) => q = r

QueuesDistinct == Distinct(queues)

\* An event is queued at most once, and with the dispatcher it names
EventsHome ==
    /\ \A d \in Dispatchers : NoDup(eventQ[d])
    /\ \A d \in Dispatchers : \A e \in Range(eventQ[d]) : event[e].dispatcher = d
    /\ \A d \in destroyed : eventQ[d] = <<>>

\* The queue of a dispatcher is in order
EventsSorted == \A d \in Dispatchers : SortedBy(eventQ[d], event)

\* The places where a thread has an event in its hands
Handling == {"proc", "ran", "requeue"}

\* An event is in the hands of one thread at most, which runs the event's dispatcher if
\* it still has one; an event that was not created yet is nowhere
InHand ==
    /\ \A t \in Threads : thread[t].e \in Events <=> thread[t].pc \in Handling
    /\ \A t \in Threads :
          thread[t].e \in Events => event[thread[t].e].dispatcher \in {Nobody, thread[t].d}
    /\ \A t, u \in Threads : thread[t].e \in Events /\ thread[t].e = thread[u].e => t = u
    /\ \A e \in Events : ~event[e].created =>
          event[e].dispatcher = Nobody /\ removed[e] = "no" /\ ~Running(e)

Queueing ==
    /\ Ownership /\ TypeOK /\ HelpersHave /\ QueuesDistinct /\ EventsHome /\ EventsSorted
    /\ InHand

\* The types of all that ownership is not about
DataTypes ==
    /\ scenario \in Scenarios
    /\ queues \in [QueueNames -> Seq(Dispatchers)]
    /\ destroyed \subseteq Dispatchers
    /\ waiting \subseteq Dispatchers
    /\ cond \subseteq Dispatchers
    /\ eventQ \in [Dispatchers -> Seq(Events)]
    /\ event \in [Events -> EventRecord]
    /\ es \in EsRecord
    /\ woken \in BOOLEAN
    /\ pruneTimer \in BOOLEAN
    /\ removed \in [Events -> RemovedStates]

LEMMA TypeParts == TypeOK <=> OwnershipTypes /\ DataTypes
BY DEF TypeOK, DataTypes, OwnershipTypes, ThreadRecord, WorkerStates, EventRecord, EsRecord,
       RemovedStates

LEMMA TypePartsNext == OwnershipTypes' /\ DataTypes' => TypeOK'
BY DEF TypeOK, DataTypes, OwnershipTypes, ThreadRecord, WorkerStates, EventRecord, EsRecord,
       RemovedStates

LEMMA TypeFacts ==
    TypeOK => /\ OwnershipTypes
              /\ scenario \in Scenarios
              /\ queues \in [QueueNames -> Seq(Dispatchers)]
              /\ destroyed \subseteq Dispatchers
              /\ waiting \subseteq Dispatchers
              /\ cond \subseteq Dispatchers
              /\ eventQ \in [Dispatchers -> Seq(Events)]
              /\ event \in [Events -> EventRecord]
              /\ es \in EsRecord
              /\ woken \in BOOLEAN
              /\ pruneTimer \in BOOLEAN
              /\ removed \in [Events -> RemovedStates]
BY TypeParts DEF DataTypes

LEMMA NobodyAssumed == Nobody \notin Events /\ Nobody \notin Dispatchers
BY ThreadsAssumption

LEMMA PeriodAssumed == MaxPeriod \in Nat /\ MaxPeriod >= 1 /\ Never \in Nat /\ Never = MaxPeriod + 1
BY SetsAssumption DEF Never

\* A thread goes on with what it has
LEMMA Going ==
    ASSUME OwnershipTypes, NEW t \in Threads, NEW pc, Goes(t, pc)
    PROVE  /\ \A u \in Threads : u # t => thread'[u] = thread[u]
           /\ thread'[t].pc = pc /\ thread'[t].d = thread[t].d /\ thread'[t].e = thread[t].e
           /\ thread'[t].back = thread[t].back /\ thread'[t].any = thread[t].any
BY DEF Goes, OwnershipTypes, ThreadRecord

\* A thread takes up an event
LEMMA TakingUp ==
    ASSUME OwnershipTypes, NEW t \in Threads, NEW e,
           thread' = [thread EXCEPT ![t].pc = "proc", ![t].e = e]
    PROVE  /\ \A u \in Threads : u # t => thread'[u] = thread[u]
           /\ thread'[t].pc = "proc" /\ thread'[t].d = thread[t].d /\ thread'[t].e = e
           /\ thread'[t].back = thread[t].back
BY DEF OwnershipTypes, ThreadRecord

\* A thread has counted an event
LEMMA Counting ==
    ASSUME OwnershipTypes, NEW t \in Threads, Count(t)
    PROVE  /\ \A u \in Threads : u # t => thread'[u] = thread[u]
           /\ thread'[t].pc = "next" /\ thread'[t].d = thread[t].d
           /\ thread'[t].e = thread[t].e /\ thread'[t].back = thread[t].back
<1> DEFINE any == thread[t].back # "release"
<1>1. thread' = [thread EXCEPT ![t].pc = "next", ![t].any = any]
  BY DEF Count
<1> HIDE DEF any
<1> QED
  BY <1>1 DEF OwnershipTypes, ThreadRecord

LEMMA Leaving ==
    ASSUME OwnershipTypes, NEW t \in Threads, Leaves(t)
    PROVE  /\ \A u \in Threads : u # t => thread'[u] = thread[u]
           /\ thread'[t].pc \in {"get", "leave"} /\ thread'[t].pc = Finished(t)
           /\ thread'[t].d = Nobody /\ thread'[t].e = Nobody /\ thread'[t].back = "release"
<1> DEFINE r == [pc |-> Finished(t), d |-> Nobody, e |-> Nobody, any |-> FALSE,
                 back |-> "release"]
<1>1. r.pc = Finished(t) /\ r.pc \in {"get", "leave"} /\ r.d = Nobody /\ r.e = Nobody
      /\ r.back = "release"
  BY DEF Finished
<1>2. thread' = [thread EXCEPT ![t] = r]
  BY DEF Leaves
<1> HIDE DEF r
<1> QED
  BY <1>1, <1>2 DEF OwnershipTypes

LEMMA Entering ==
    ASSUME OwnershipTypes, NEW t \in Threads, NEW d, NEW back, Enters(t, d, back)
    PROVE  /\ \A u \in Threads : u # t => thread'[u] = thread[u]
           /\ thread'[t].pc = "next" /\ thread'[t].d = d /\ thread'[t].e = Nobody
           /\ thread'[t].back = back
<1> DEFINE r == [pc |-> "next", d |-> d, e |-> Nobody, any |-> FALSE, back |-> back]
<1>1. r.pc = "next" /\ r.d = d /\ r.e = Nobody /\ r.back = back
  OBVIOUS
<1>2. thread' = [thread EXCEPT ![t] = r]
  BY DEF Enters
<1> HIDE DEF r
<1> QED
  BY <1>1, <1>2 DEF OwnershipTypes

\* The service takes up or puts down a dispatcher
LEMMA Serving ==
    ASSUME OwnershipTypes, NEW pc, NEW d,
           thread' = [thread EXCEPT ![Service].pc = pc, ![Service].d = d]
    PROVE  /\ \A u \in Threads : u # Service => thread'[u] = thread[u]
           /\ thread'[Service].pc = pc /\ thread'[Service].d = d
           /\ thread'[Service].e = thread[Service].e
           /\ thread'[Service].back = thread[Service].back
BY ThreadsDistinct DEF OwnershipTypes, ThreadRecord

-----------------------------------------------------------------------------
(***************************************************************************)
(* Steps that take up no event and put none down: all but those of         *)
(* application code and of dispatchEvents.                                 *)
(***************************************************************************)

QuietHands ==
    \A t \in Threads :
        \/ thread'[t] = thread[t]
        \/ /\ thread[t].pc \notin Handling /\ thread'[t].pc \notin Handling
           /\ thread'[t].e \in {thread[t].e, Nobody}

Quiet ==
    \/ \E t \in Threads : Count(t) \/ HelperEnds(t)
    \/ \E w \in Workers : workerMain(w)
    \/ ServiceLoop
    \/ AppLoop

LEMMA QuietMove ==
    ASSUME OwnershipTypes, NEW t \in Threads, thread[t].pc \notin Handling,
           \/ \E pc : Goes(t, pc) /\ pc \notin Handling
           \/ Leaves(t)
           \/ \E d, back : Enters(t, d, back)
    PROVE  QuietHands
<1>1. ASSUME NEW pc, Goes(t, pc), pc \notin Handling PROVE QuietHands
  BY <1>1, Going DEF QuietHands
<1>2. ASSUME Leaves(t) PROVE QuietHands
  BY <1>2, Leaving DEF QuietHands, Handling
<1>3. ASSUME NEW d, NEW back, Enters(t, d, back) PROVE QuietHands
  BY <1>3, Entering DEF QuietHands, Handling
<1> QED
  BY <1>1, <1>2, <1>3

LEMMA QuietHelper ==
    ASSUME Ownership, NEW t \in Threads, Count(t) \/ HelperEnds(t)
    PROVE  /\ QuietHands /\ UNCHANGED <<eventQ, destroyed, removed>>
           /\ event' \in {event, Forward(event)}
<1>0. OwnershipTypes
  BY DEF Ownership
<1>1. CASE Count(t)
  <2>1. QuietHands
    BY <1>0, <1>1, Counting DEF Count, QuietHands, Handling
  <2> QED
    BY <1>1, <2>1 DEF Count, dispVars
<1>2. CASE releaseDispatcher(t)
  BY <1>0, <1>2, QuietMove DEF releaseDispatcher, Handling
<1>3. CASE HelperDequeues(t)
  BY <1>0, <1>3, QuietMove DEF HelperDequeues, Handling
<1>4. CASE HelperSchedules(t)
  <2>1. QuietHands
    BY <1>0, <1>4, QuietMove DEF HelperSchedules, Handling
  <2> QED
    BY <1>4, <2>1 DEF HelperSchedules, Schedules
<1>5. CASE HelperWakes(t)
  BY <1>0, <1>5, QuietMove DEF HelperWakes, dispVars, Handling
<1> QED
  BY <1>1, <1>2, <1>3, <1>4, <1>5 DEF HelperEnds

LEMMA QuietWorker ==
    ASSUME Ownership, NEW w \in Workers, workerMain(w)
    PROVE  /\ QuietHands /\ UNCHANGED <<eventQ, destroyed, removed, event>>
<1>0. OwnershipTypes /\ w \in Threads
  BY ThreadsDistinct DEF Ownership
<1>1. CASE WorkerStarts(w)
  <2>1. Leaves(w) \/ \E d, back : Enters(w, d, back)
    BY <1>1 DEF WorkerStarts, dispatchEventsHelper
  <2> QED
    BY <1>0, <1>1, <2>1, QuietMove DEF WorkerStarts, Handling
<1>2. CASE WorkerLeaves(w)
  BY <1>0, <1>2, QuietMove DEF WorkerLeaves, dispVars, Handling
<1>3. CASE mprWakePendingDispatchers(w)
  BY <1>0, <1>3, QuietMove DEF mprWakePendingDispatchers, dispVars, Handling
<1>4. CASE WakePending(w)
  BY <1>0, <1>4, QuietMove DEF WakePending, dispVars, Handling
<1>5. CASE WorkerExits(w)
  BY <1>5 DEF WorkerExits, dispVars, QuietHands
<1> QED
  BY <1>1, <1>2, <1>3, <1>4, <1>5 DEF workerMain

LEMMA QuietService ==
    ASSUME Ownership, ServiceLoop
    PROVE  /\ QuietHands /\ UNCHANGED <<eventQ, destroyed, removed>>
           /\ event' \in {event, Forward(event)}
<1>0. OwnershipTypes /\ Service \in Threads
  BY ThreadsDistinct DEF Ownership
<1>s. ASSUME NEW pc, NEW d, pc \notin Handling, thread[Service].pc \notin Handling,
             thread' = [thread EXCEPT ![Service].pc = pc, ![Service].d = d]
      PROVE  QuietHands
  <2>1. /\ \A u \in Threads : u # Service => thread'[u] = thread[u]
        /\ thread'[Service].pc = pc /\ thread'[Service].e = thread[Service].e
    BY <1>0, <1>s, Serving
  <2> QED
    BY <1>s, <2>1 DEF QuietHands
<1>1. CASE mprServiceEvents
  BY <1>0, <1>1, QuietMove DEF mprServiceEvents, dispVars, Handling
<1>2. CASE getNextReadyDispatcher
  <2>1. \/ Goes(Service, "check")
        \/ \E d : thread' = [thread EXCEPT ![Service].pc = "claimed", ![Service].d = d]
    BY <1>2 DEF getNextReadyDispatcher
  <2>2. thread[Service].pc \notin Handling
    BY <1>2 DEF getNextReadyDispatcher, Handling
  <2>3. QuietHands
    BY <1>0, <1>s, <2>1, <2>2, QuietMove DEF Handling
  <2> QED
    BY <1>2, <2>3 DEF getNextReadyDispatcher, ServiceUnchanged
<1>3. CASE RunClaimed
  <2>1. Leaves(Service) \/ Goes(Service, "start") \/ \E d, back : Enters(Service, d, back)
    BY <1>3 DEF RunClaimed, dispatchEventsHelper
  <2> QED
    BY <1>0, <1>3, <2>1, QuietMove DEF RunClaimed, ServiceUnchanged, Handling
<1>4. CASE mprStartWorker
  <2>1. \/ Goes(Service, "failed")
        \/ thread' = [thread EXCEPT ![Service].pc = "get", ![Service].d = Nobody]
    BY <1>4 DEF mprStartWorker
  <2>2. thread[Service].pc \notin Handling
    BY <1>4 DEF mprStartWorker, Handling
  <2>3. QuietHands
    BY <1>0, <1>s, <2>1, <2>2, QuietMove DEF Handling
  <2> QED
    BY <1>4, <2>3 DEF mprStartWorker, ServiceUnchanged
<1>5. CASE StartFailed
  BY <1>0, <1>5, QuietMove DEF StartFailed, ServiceUnchanged, Handling
<1>6. CASE QueuePending
  <2>1. /\ thread' = [thread EXCEPT ![Service].pc = "check", ![Service].d = Nobody]
        /\ thread[Service].pc \notin Handling /\ "check" \notin Handling
    BY <1>6 DEF QueuePending, Handling
  <2>2. QuietHands
    BY <1>s, <2>1
  <2> QED
    BY <1>6, <2>2 DEF QueuePending, ServiceUnchanged
<1>7. CASE CheckCount
  <2>0. /\ Goes(Service, "top") \/ Goes(Service, "idle")
        /\ thread[Service].pc \notin Handling
    BY <1>7 DEF CheckCount, Handling
  <2>1. QuietHands
    BY <1>0, <2>0, QuietMove DEF Handling
  <2> QED
    BY <1>7, <2>1 DEF CheckCount, dispVars
<1>8. CASE getIdleTicks
  BY <1>0, <1>8, QuietMove DEF getIdleTicks, dispVars, Handling
<1>9. CASE mprWaitForIO
  BY <1>0, <1>9, QuietMove DEF mprWaitForIO, dispVars, Handling
<1>10. CASE PruneTimerDue
  BY <1>0, <1>10, QuietMove DEF PruneTimerDue, dispVars, Handling
<1>11. CASE pruneWorkers
  BY <1>0, <1>11, QuietMove DEF pruneWorkers, dispVars, Handling
<1>12. CASE ReadClock
  BY <1>0, <1>12, QuietMove DEF ReadClock, dispVars, Handling
<1> QED
  BY <1>1, <1>2, <1>3, <1>4, <1>5, <1>6, <1>7, <1>8, <1>9, <1>10, <1>11, <1>12 DEF ServiceLoop

LEMMA QuietApp ==
    ASSUME Ownership, AppLoop
    PROVE  /\ QuietHands /\ UNCHANGED <<eventQ, destroyed, removed>>
           /\ event' \in {event, Forward(event)}
<1>0. OwnershipTypes /\ App \in Threads
  BY ThreadsDistinct DEF Ownership
<1>1. ASSUME NEW d \in Dispatchers, mprWaitForEvent(d)
      PROVE  QuietHands /\ UNCHANGED <<eventQ, destroyed, removed, event>>
  BY <1>0, <1>1, QuietMove DEF mprWaitForEvent, dispVars, Handling
<1>2. CASE AppLooked
  <2>1. Goes(App, "app") \/ Goes(App, "cond") \/ \E d, back : Enters(App, d, back)
    BY <1>2 DEF AppLooked
  <2>2. thread[App].pc \notin Handling
    BY <1>2 DEF AppLooked, Handling
  <2>3. QuietHands
    BY <1>0, <2>1, <2>2, QuietMove DEF Handling
  <2> QED
    BY <1>2, <2>3 DEF AppLooked
<1>3. CASE AppTried
  BY <1>0, <1>3, QuietMove DEF AppTried, dispVars, Handling
<1>4. CASE CondReturns
  BY <1>0, <1>4, QuietMove DEF CondReturns, Handling
<1>5. CASE WaitReturns
  BY <1>0, <1>5, QuietMove DEF WaitReturns, Handling
<1> QED
  BY <1>1, <1>2, <1>3, <1>4, <1>5 DEF AppLoop

LEMMA QuietEffect ==
    ASSUME Ownership, Quiet
    PROVE  /\ QuietHands /\ UNCHANGED <<eventQ, destroyed, removed>>
           /\ event' \in {event, Forward(event)}
BY QuietHelper, QuietWorker, QuietService, QuietApp DEF Quiet

-----------------------------------------------------------------------------
(***************************************************************************)
(* The events.                                                             *)
(***************************************************************************)

\* An event whose time is still relative to an es->now that is behind the clock
LateEvent == [dispatcher : Dispatchers \cup {Nobody}, created : BOOLEAN,
              continuous : BOOLEAN, period : 0..MaxPeriod, due : Nat]

LEMMA EventIsLate == \A r \in EventRecord : r \in LateEvent
BY PeriodAssumed DEF EventRecord, LateEvent

LEMMA LaterProps ==
    ASSUME es \in EsRecord
    PROVE  /\ \A x \in Nat : Later(x) \in Nat /\ Later(x) <= x
           /\ \A x, y \in Nat : x <= y => Later(x) <= Later(y)
           /\ \A x \in Nat : Later(es.lag + x) = x
           /\ es.lag \in Nat
BY PeriodAssumed DEF Later, EsRecord

LEMMA ForwardProps ==
    ASSUME es \in EsRecord, NEW evs \in [Events -> LateEvent]
    PROVE  /\ \A x \in Events :
                 /\ Forward(evs)[x].dispatcher = evs[x].dispatcher
                 /\ Forward(evs)[x].created = evs[x].created
                 /\ Forward(evs)[x].continuous = evs[x].continuous
                 /\ Forward(evs)[x].period = evs[x].period
                 /\ Forward(evs)[x].due = Later(evs[x].due)
           /\ (\A x \in Events : Later(evs[x].due) <= MaxPeriod) =>
                 Forward(evs) \in [Events -> EventRecord]
<1>1. ASSUME NEW x \in Events
      PROVE  /\ Forward(evs)[x].dispatcher = evs[x].dispatcher
             /\ Forward(evs)[x].created = evs[x].created
             /\ Forward(evs)[x].continuous = evs[x].continuous
             /\ Forward(evs)[x].period = evs[x].period
             /\ Forward(evs)[x].due = Later(evs[x].due)
  BY DEF Forward, LateEvent
<1>2. ASSUME \A x \in Events : Later(evs[x].due) <= MaxPeriod
      PROVE  Forward(evs) \in [Events -> EventRecord]
  <2> SUFFICES ASSUME NEW x \in Events
               PROVE  [evs[x] EXCEPT !.due = Later(@)] \in EventRecord
    BY DEF Forward
  <2>1. evs[x] \in LateEvent /\ evs[x].due \in Nat
    BY DEF LateEvent
  <2>2. Later(evs[x].due) \in 0..MaxPeriod
    BY <1>2, <2>1, LaterProps, PeriodAssumed
  <2> QED
    BY <2>1, <2>2 DEF LateEvent, EventRecord
<1> QED
  BY <1>1, <1>2

LEMMA ForwardSorted ==
    ASSUME es \in EsRecord, NEW evs \in [Events -> LateEvent], NEW q \in Seq(Events),
           SortedBy(q, evs)
    PROVE  SortedBy(q, Forward(evs))
<1> SUFFICES ASSUME NEW i \in DOMAIN q, NEW j \in DOMAIN q, i < j
             PROVE  Forward(evs)[q[i]].due <= Forward(evs)[q[j]].due
  BY DEF SortedBy
<1>1. q[i] \in Events /\ q[j] \in Events
  BY ElementOfSeq, LenProperties
<1>2. evs[q[i]].due \in Nat /\ evs[q[j]].due \in Nat
  BY <1>1 DEF LateEvent
<1>3. evs[q[i]].due <= evs[q[j]].due
  BY DEF SortedBy
<1>4. /\ Forward(evs)[q[i]].due = Later(evs[q[i]].due)
      /\ Forward(evs)[q[j]].due = Later(evs[q[j]].due)
  BY <1>1, ForwardProps
<1> QED
  BY <1>2, <1>3, <1>4, LaterProps

\* The events as they are, or with es->now read
LEMMA TimePasses ==
    ASSUME TypeOK, event' \in {event, Forward(event)}
    PROVE  /\ event' \in [Events -> EventRecord]
           /\ \A x \in Events : /\ event'[x].dispatcher = event[x].dispatcher
                                /\ event'[x].created = event[x].created
                                /\ event'[x].continuous = event[x].continuous
           /\ \A q \in Seq(Events) : SortedBy(q, event) => SortedBy(q, event')
<1>1. event \in [Events -> EventRecord] /\ es \in EsRecord
  BY TypeFacts
<1>2. event \in [Events -> LateEvent]
  BY <1>1, EventIsLate
<1>3. CASE event' = event
  BY <1>1, <1>3
<1>4. CASE event' = Forward(event)
  <2>1. \A x \in Events : Later(event[x].due) <= MaxPeriod
    <3> SUFFICES ASSUME NEW x \in Events PROVE Later(event[x].due) <= MaxPeriod
      OBVIOUS
    <3>1. event[x].due \in Nat /\ event[x].due <= MaxPeriod
      BY <1>1, PeriodAssumed DEF EventRecord
    <3> QED
      BY <1>1, <3>1, LaterProps, PeriodAssumed
  <2>2. event' \in [Events -> EventRecord]
    BY <1>1, <1>2, <1>4, <2>1, ForwardProps
  <2>3. \A x \in Events : /\ event'[x].dispatcher = event[x].dispatcher
                          /\ event'[x].created = event[x].created
                          /\ event'[x].continuous = event[x].continuous
    BY <1>1, <1>2, <1>4, ForwardProps
  <2>4. \A q \in Seq(Events) : SortedBy(q, event) => SortedBy(q, event')
    BY <1>1, <1>2, <1>4, ForwardSorted
  <2> QED
    BY <2>2, <2>3, <2>4
<1> QED
  BY <1>3, <1>4

LEMMA QuietKeeps ==
    ASSUME Queueing, QuietHands, UNCHANGED <<eventQ, destroyed, removed>>,
           event' \in {event, Forward(event)}
    PROVE  EventsHome' /\ EventsSorted' /\ InHand'
<1>1. TypeOK /\ EventsHome /\ EventsSorted /\ InHand
  BY DEF Queueing
<1>2. eventQ \in [Dispatchers -> Seq(Events)]
  BY <1>1, TypeFacts
<1>3. /\ \A x \in Events : /\ event'[x].dispatcher = event[x].dispatcher
                           /\ event'[x].created = event[x].created
      /\ \A q \in Seq(Events) : SortedBy(q, event) => SortedBy(q, event')
  BY <1>1, TimePasses
<1>4. \A d \in Dispatchers : \A e \in Range(eventQ[d]) : e \in Events
  BY <1>2, RangeIsElements, ElementOfSeq
<1>5. EventsHome'
  BY <1>1, <1>3, <1>4 DEF EventsHome
<1>6. EventsSorted'
  BY <1>1, <1>2, <1>3 DEF EventsSorted
<1>7. \A t \in Threads : /\ thread'[t].e \in Events <=> thread[t].e \in Events
                         /\ thread'[t].pc \in Handling <=> thread[t].pc \in Handling
                         /\ thread[t].e \in Events => thread'[t] = thread[t]
  BY <1>1, NobodyAssumed DEF InHand, QuietHands
<1>8. \A e \in Events : Running(e)' => Running(e)
  BY <1>7 DEF Running
<1>9. InHand'
  <2>1. \A t \in Threads : thread'[t].e \in Events <=> thread'[t].pc \in Handling
    BY <1>1, <1>7 DEF InHand
  <2>2. \A t \in Threads :
          thread'[t].e \in Events => event'[thread'[t].e].dispatcher \in {Nobody, thread'[t].d}
    BY <1>1, <1>3, <1>7 DEF InHand
  <2>3. \A t, u \in Threads :
          thread'[t].e \in Events /\ thread'[t].e = thread'[u].e => t = u
    BY <1>1, <1>7 DEF InHand
  <2>4. \A e \in Events : ~event'[e].created =>
          event'[e].dispatcher = Nobody /\ removed'[e] = "no" /\ ~Running(e)'
    BY <1>1, <1>3, <1>8 DEF InHand
  <2> QED
    BY <2>1, <2>2, <2>3, <2>4 DEF InHand
<1> QED
  BY <1>5, <1>6, <1>9

-----------------------------------------------------------------------------
(***************************************************************************)
(* The queues of dispatchers.                                              *)
(***************************************************************************)

LEMMA DequeueProps ==
    ASSUME queues \in [QueueNames -> Seq(Dispatchers)], QueuesDistinct, NEW d \in Dispatchers
    PROVE  /\ dequeueDispatcher(d) \in [QueueNames -> Seq(Dispatchers)]
           /\ Distinct(dequeueDispatcher(d))
           /\ \A q \in QueueNames, x \in Dispatchers :
                 x \in Range(dequeueDispatcher(d)[q]) <=> On(q, x) /\ x # d
<1>1. ASSUME NEW q \in QueueNames
      PROVE  /\ dequeueDispatcher(d)[q] = Without(queues[q], d)
             /\ Without(queues[q], d) \in Seq(Dispatchers)
             /\ NoDup(Without(queues[q], d))
             /\ \A x : x \in Range(Without(queues[q], d)) <=> x \in Range(queues[q]) /\ x # d
  <2>1. queues[q] \in Seq(Dispatchers) /\ NoDup(queues[q])
    BY DEF QueuesDistinct, Distinct
  <2> QED
    BY <2>1, WithoutProps DEF dequeueDispatcher
<1>2. dequeueDispatcher(d) \in [QueueNames -> Seq(Dispatchers)]
  BY <1>1 DEF dequeueDispatcher
<1>3. \A q \in QueueNames, x \in Dispatchers :
          x \in Range(dequeueDispatcher(d)[q]) <=> On(q, x) /\ x # d
  BY <1>1 DEF On
<1>4. Distinct(dequeueDispatcher(d))
  BY <1>1, <1>3 DEF Distinct, QueuesDistinct, On
<1> QED
  BY <1>2, <1>3, <1>4

LEMMA ConsProps ==
    ASSUME NEW S, NEW s \in Seq(S), NEW x \in S, NoDup(s), x \notin Range(s)
    PROVE  /\ <<x>> \o s \in Seq(S)
           /\ NoDup(<<x>> \o s)
           /\ \A y : y \in Range(<<x>> \o s) <=> y \in Range(s) \/ y = x
           /\ <<x>> \o s # <<>>
           /\ Head(<<x>> \o s) = x
<1> DEFINE c == <<x>>
           r == c \o s
<1>0. Len(s) \in Nat /\ DOMAIN s = 1..Len(s)
  BY LenProperties
<1>1. c \in Seq(S) /\ Len(c) = 1 /\ c[1] = x
  OBVIOUS
<1> HIDE DEF c
<1>2. /\ r \in Seq(S) /\ Len(r) = Len(c) + Len(s)
      /\ \A i \in 1..(Len(c) + Len(s)) : r[i] = IF i <= Len(c) THEN c[i] ELSE s[i - Len(c)]
  BY <1>1, ConcatProperties
<1> HIDE DEF r
<1>3. DOMAIN r = 1..(Len(s) + 1) /\ Len(r) = Len(s) + 1
  BY <1>0, <1>1, <1>2, LenProperties
<1>4. r[1] = x /\ \A i \in 2..(Len(s) + 1) : i - 1 \in DOMAIN s /\ r[i] = s[i - 1]
  BY <1>0, <1>1, <1>2
<1>5. NoDup(r)
  BY <1>0, <1>3, <1>4 DEF NoDup, Range
<1>6. ASSUME NEW y PROVE y \in Range(r) <=> y \in Range(s) \/ y = x
  <2>1. ASSUME y \in Range(r) PROVE y \in Range(s) \/ y = x
    BY <1>0, <1>3, <1>4, <2>1 DEF Range
  <2>2. ASSUME y \in Range(s) PROVE y \in Range(r)
    <3>1. PICK k \in DOMAIN s : s[k] = y
      BY <2>2 DEF Range
    <3>2. k + 1 \in 2..(Len(s) + 1) /\ (k + 1) - 1 = k /\ k + 1 \in DOMAIN r
      BY <1>0, <1>3
    <3>3. r[k + 1] = y
      BY <1>4, <3>1, <3>2
    <3> QED
      BY <3>2, <3>3 DEF Range
  <2>3. x \in Range(r)
    <3>1. 1 \in DOMAIN r
      BY <1>0, <1>3
    <3> QED
      BY <1>4, <3>1 DEF Range
  <2> QED
    BY <2>1, <2>2, <2>3
<1>7. r # <<>>
  BY <1>0, <1>3
<1>8. Head(r) = x
  BY <1>2, <1>4, <1>7
<1> QED
  BY <1>2, <1>5, <1>6, <1>7, <1>8 DEF r, c

LEMMA QueueProps ==
    ASSUME queues \in [QueueNames -> Seq(Dispatchers)], QueuesDistinct, NEW d \in Dispatchers,
           NEW name \in QueueNames
    PROVE  /\ queueDispatcher(name, d) \in [QueueNames -> Seq(Dispatchers)]
           /\ Distinct(queueDispatcher(name, d))
           /\ \A q \in QueueNames, x \in Dispatchers :
                 x \in Range(queueDispatcher(name, d)[q]) <=>
                     IF x = d THEN q = name ELSE On(q, x)
           /\ Head(queueDispatcher(name, d)[name]) = d
           /\ queueDispatcher(name, d)[name] # <<>>
<1> DEFINE qs == dequeueDispatcher(d)
           rs == queueDispatcher(name, d)
<1>1. /\ qs \in [QueueNames -> Seq(Dispatchers)]
      /\ Distinct(qs)
      /\ \A q \in QueueNames, x \in Dispatchers : x \in Range(qs[q]) <=> On(q, x) /\ x # d
  BY DequeueProps
<1>2. rs = [qs EXCEPT ![name] = <<d>> \o qs[name]]
  BY DEF queueDispatcher
<1> HIDE DEF qs, rs
<1>3. qs[name] \in Seq(Dispatchers) /\ NoDup(qs[name]) /\ d \notin Range(qs[name])
  BY <1>1 DEF Distinct
<1>4. /\ <<d>> \o qs[name] \in Seq(Dispatchers)
      /\ NoDup(<<d>> \o qs[name])
      /\ \A y : y \in Range(<<d>> \o qs[name]) <=> y \in Range(qs[name]) \/ y = d
      /\ <<d>> \o qs[name] # <<>>
      /\ Head(<<d>> \o qs[name]) = d
  BY <1>3, ConsProps
<1>5. /\ rs \in [QueueNames -> Seq(Dispatchers)]
      /\ \A q \in QueueNames : q # name => rs[q] = qs[q]
      /\ rs[name] = <<d>> \o qs[name]
  BY <1>1, <1>2, <1>4
<1>6. \A q \in QueueNames, x \in Dispatchers :
          x \in Range(rs[q]) <=> IF x = d THEN q = name ELSE On(q, x)
  BY <1>1, <1>4, <1>5
<1>7. \A q \in QueueNames : NoDup(rs[q])
  BY <1>1, <1>4, <1>5 DEF Distinct
<1>8. Distinct(rs)
  BY <1>6, <1>7 DEF Distinct, QueuesDistinct, On
<1> QED
  BY <1>4, <1>5, <1>6, <1>8 DEF rs

-----------------------------------------------------------------------------
(***************************************************************************)
(* mprScheduleDispatcher and mprQueueEvent.                                *)
(***************************************************************************)

LEMMA TimeReadProps ==
    ASSUME es \in EsRecord, NEW counts \in BOOLEAN, TimeRead(counts)
    PROVE  /\ es' \in EsRecord
           /\ es'.lag = 0 /\ es'.waiting = es.waiting /\ es'.sleep = es.sleep
           /\ es'.late = es.late
           /\ es'.willAwake = IF es.willAwake = Never THEN Never ELSE Later(es.willAwake)
<1> DEFINE awake == IF es.willAwake = Never THEN Never ELSE Later(es.willAwake)
           count == es.counted \/ counts
<1>1. awake \in 0..Never
  <2>1. es.willAwake \in Nat /\ es.willAwake <= Never
    BY PeriodAssumed DEF EsRecord
  <2>2. Later(es.willAwake) \in Nat /\ Later(es.willAwake) <= es.willAwake
    BY <2>1, LaterProps
  <2> QED
    BY <2>1, <2>2, PeriodAssumed
<1>2. count \in BOOLEAN
  BY DEF EsRecord
<1>3. es' = [es EXCEPT !.lag = 0, !.willAwake = awake, !.counted = count]
  BY DEF TimeRead
<1> HIDE DEF awake, count
<1>4. 0 \in 0..MaxPeriod
  BY PeriodAssumed
<1>5. es' \in EsRecord
  BY <1>1, <1>2, <1>3, <1>4 DEF EsRecord
<1>6. /\ es'.lag = 0 /\ es'.waiting = es.waiting /\ es'.sleep = es.sleep
      /\ es'.late = es.late /\ es'.willAwake = awake
  BY <1>3 DEF EsRecord
<1> QED
  BY <1>5, <1>6 DEF awake

LEMMA CountedProps ==
    ASSUME es \in EsRecord, NEW c \in BOOLEAN, es' = [es EXCEPT !.counted = c]
    PROVE  /\ es' \in EsRecord
           /\ es'.lag = es.lag /\ es'.waiting = es.waiting /\ es'.sleep = es.sleep
           /\ es'.late = es.late /\ es'.willAwake = es.willAwake
BY DEF EsRecord

LEMMA TargetName ==
    ASSUME NEW d, NEW q, NEW evs
    PROVE  Target(d, q, evs) \in QueueNames /\ Target(d, q, evs) \in {"idle", "wait", "ready"}
BY DEF Target, QueueNames

\* The events a caller of mprScheduleDispatcher may leave
Schedulable(evs) ==
    /\ evs \in [Events -> LateEvent]
    /\ \A x \in Events : Later(evs[x].due) <= MaxPeriod

LEMMA TypedSchedulable ==
    ASSUME es \in EsRecord, NEW evs \in [Events -> EventRecord]
    PROVE  Schedulable(evs)
<1>1. evs \in [Events -> LateEvent]
  BY EventIsLate
<1>2. ASSUME NEW x \in Events PROVE Later(evs[x].due) <= MaxPeriod
  <2>1. evs[x].due \in Nat /\ evs[x].due <= MaxPeriod
    BY PeriodAssumed DEF EventRecord
  <2> QED
    BY <2>1, LaterProps, PeriodAssumed
<1> QED
  BY <1>1, <1>2 DEF Schedulable

LEMMA SchedulesEffect ==
    ASSUME TypeOK, QueuesDistinct, NEW d \in Dispatchers, NEW q, NEW evs, Schedulable(evs),
           NEW counts \in BOOLEAN, d \in destroyed => evs \in [Events -> EventRecord],
           Schedules(d, q, evs, counts)
    PROVE  /\ queues' \in [QueueNames -> Seq(Dispatchers)] /\ QueuesDistinct'
           /\ cond' \subseteq Dispatchers
           /\ event' \in [Events -> EventRecord]
           /\ es' \in EsRecord
<1>0. /\ queues \in [QueueNames -> Seq(Dispatchers)] /\ cond \subseteq Dispatchers
      /\ es \in EsRecord
  BY TypeFacts
<1>1. CASE d \in destroyed
  <2>1. event' = evs /\ UNCHANGED <<queues, cond>>
    BY <1>1 DEF Schedules
  <2>2. es' = [es EXCEPT !.counted = es.counted \/ counts] /\ es.counted \in BOOLEAN
    BY <1>0, <1>1 DEF Schedules, EsRecord
  <2>3. PICK c \in BOOLEAN : es' = [es EXCEPT !.counted = c]
    BY <2>2
  <2>4. es' \in EsRecord
    BY <1>0, <2>3, CountedProps
  <2> QED
    BY <1>0, <1>1, <2>1, <2>4 DEF QueuesDistinct
<1>2. CASE d \notin destroyed
  <2>1. event' = Forward(evs) /\ TimeRead(counts)
    BY <1>2 DEF Schedules
  <2>2. queues' = IF isRunning(d) THEN queues ELSE queueDispatcher(Target(d, q, evs), d)
    BY <1>2 DEF Schedules
  <2>3. cond' \subseteq Dispatchers
    BY <1>0, <1>2 DEF Schedules
  <2>4. queues' \in [QueueNames -> Seq(Dispatchers)] /\ Distinct(queues')
    BY <1>0, <2>2, TargetName, QueueProps DEF QueuesDistinct
  <2>5. event' \in [Events -> EventRecord]
    BY <1>0, <2>1, ForwardProps DEF Schedulable
  <2>6. es' \in EsRecord
    BY <1>0, <2>1, TimeReadProps
  <2> QED
    BY <2>3, <2>4, <2>5, <2>6 DEF QueuesDistinct
<1> QED
  BY <1>1, <1>2

LEMMA WakesBoolean ==
    ASSUME woken \in BOOLEAN, NEW must, Wakes(must) PROVE woken' \in BOOLEAN
BY DEF Wakes

\* An event that changes while it is taken from the queue of d: what is left is in order
\* and is where it was.
LEMMA RestInOrder ==
    ASSUME Queueing, NEW d \in Dispatchers, NEW e \in Events, NEW evs,
           \A x \in Events : x # e => evs[x].due = event[x].due
    PROVE  /\ Without(eventQ[d], e) \in Seq(Events)
           /\ NoDup(Without(eventQ[d], e))
           /\ \A x : x \in Range(Without(eventQ[d], e)) <=> x \in Range(eventQ[d]) /\ x # e
           /\ SortedBy(Without(eventQ[d], e), evs)
<1> DEFINE s == eventQ[d]
           r == Without(s, e)
<1>1. s \in Seq(Events) /\ NoDup(s) /\ SortedBy(s, event)
  BY TypeFacts DEF Queueing, EventsHome, EventsSorted
<1> HIDE DEF s
<1>2. /\ r \in Seq(Events) /\ NoDup(r)
      /\ \A x : x \in Range(r) <=> x \in Range(s) /\ x # e
      /\ \A i, j \in DOMAIN r : i < j =>
            \E k, l \in DOMAIN s : k < l /\ s[k] = r[i] /\ s[l] = r[j]
  BY <1>1, WithoutProps
<1> HIDE DEF r
<1>3. \A i \in DOMAIN r : r[i] \in Events /\ r[i] # e
  <2>1. \A i \in DOMAIN r : r[i] \in Range(r)
    BY DEF Range
  <2> QED
    BY <1>2, <2>1, LenProperties, ElementOfSeq
<1>4. SortedBy(r, evs)
  <2> SUFFICES ASSUME NEW i \in DOMAIN r, NEW j \in DOMAIN r, i < j
               PROVE  evs[r[i]].due <= evs[r[j]].due
    BY DEF SortedBy
  <2>1. PICK k \in DOMAIN s, l \in DOMAIN s : k < l /\ s[k] = r[i] /\ s[l] = r[j]
    BY <1>2
  <2>2. event[r[i]].due <= event[r[j]].due
    BY <1>1, <2>1 DEF SortedBy
  <2> QED
    BY <1>3, <2>2
<1> QED
  BY <1>2, <1>4 DEF r, s

\* mprScheduleDispatcher with a new queue of events for d: every event is at home again.
LEMMA ScheduledHome ==
    ASSUME Queueing, NEW d \in Dispatchers, NEW q \in Seq(Events), NoDup(q),
           d \in destroyed => q = <<>>, UNCHANGED destroyed, NEW evs, Schedulable(evs), SortedBy(q, evs),
           \A x \in Range(q) : evs[x].dispatcher = d,
           \A y \in Dispatchers : y # d => \A x \in Range(eventQ[y]) : evs[x] = event[x],
           eventQ' = [eventQ EXCEPT ![d] = q], event' \in {evs, Forward(evs)}
    PROVE  EventsHome' /\ EventsSorted'
<1>0. /\ eventQ \in [Dispatchers -> Seq(Events)] /\ es \in EsRecord
      /\ EventsHome /\ EventsSorted /\ evs \in [Events -> LateEvent]
  BY TypeFacts DEF Queueing, Schedulable
<1>1. /\ \A x \in Events : event'[x].dispatcher = evs[x].dispatcher
      /\ \A s \in Seq(Events) : SortedBy(s, evs) => SortedBy(s, event')
  BY <1>0, ForwardProps, ForwardSorted
<1>2. \A y \in Dispatchers : eventQ'[y] = IF y = d THEN q ELSE eventQ[y]
  BY <1>0
<1>3. /\ \A x \in Range(q) : x \in Events
      /\ \A y \in Dispatchers : \A x \in Range(eventQ[y]) : x \in Events
  BY <1>0, RangeIsElements, ElementOfSeq
<1>4. ASSUME NEW y \in Dispatchers, y # d PROVE SortedBy(eventQ[y], evs)
  <2>1. SortedBy(eventQ[y], event)
    BY <1>0 DEF EventsSorted
  <2>2. \A i \in DOMAIN eventQ[y] : evs[eventQ[y][i]] = event[eventQ[y][i]]
    BY <1>4 DEF Range
  <2> QED
    BY <2>1, <2>2 DEF SortedBy
<1>5. EventsSorted'
  BY <1>0, <1>1, <1>2, <1>4 DEF EventsSorted
<1>6. EventsHome'
  <2>1. \A y \in Dispatchers : NoDup(eventQ'[y])
    BY <1>0, <1>2 DEF EventsHome
  <2>2. ASSUME NEW y \in Dispatchers, NEW x \in Range(eventQ'[y])
        PROVE  event'[x].dispatcher = y
    <3>1. CASE y = d
      BY <1>1, <1>2, <1>3, <2>2, <3>1
    <3>2. CASE y # d
      <4>1. x \in Range(eventQ[y]) /\ x \in Events
        BY <1>2, <1>3, <2>2, <3>2
      <4>2. event[x].dispatcher = y /\ evs[x] = event[x]
        BY <1>0, <3>2, <4>1 DEF EventsHome
      <4> QED
        BY <1>1, <4>1, <4>2
    <3> QED
      BY <3>1, <3>2
  <2>3. \A y \in destroyed' : eventQ'[y] = <<>>
    <3>1. destroyed \subseteq Dispatchers
      BY TypeFacts DEF Queueing
    <3> QED
      BY <1>0, <1>2, <3>1 DEF EventsHome
  <2> QED
    BY <2>1, <2>2, <2>3 DEF EventsHome
<1> QED
  BY <1>5, <1>6

\* The event that is queued may have changed, the others have not
Changed(e, evs) ==
    /\ Schedulable(evs)
    /\ \A x \in Events : x # e => evs[x] = event[x]

LEMMA QueueEventEffect ==
    ASSUME Queueing, NEW d \in Dispatchers, d \notin destroyed, UNCHANGED destroyed,
           NEW e \in Events, \A y \in Dispatchers : y # d => e \notin Range(eventQ[y]),
           NEW evs, Changed(e, evs), mprQueueEvent(d, e, evs)
    PROVE  /\ queues' \in [QueueNames -> Seq(Dispatchers)] /\ QueuesDistinct'
           /\ cond' \subseteq Dispatchers /\ woken' \in BOOLEAN
           /\ eventQ' \in [Dispatchers -> Seq(Events)]
           /\ event' \in [Events -> EventRecord]
           /\ es' \in EsRecord
           /\ EventsHome' /\ EventsSorted'
           /\ \A y \in Dispatchers : y # d => eventQ'[y] = eventQ[y]
           /\ \A x : x \in Range(eventQ'[d]) <=> x \in Range(eventQ[d]) \/ x = e
           /\ \A x \in Events :
                 /\ event'[x].dispatcher = IF x = e THEN d ELSE event[x].dispatcher
                 /\ event'[x].created = evs[x].created
                 /\ event'[x].continuous = evs[x].continuous
<1> DEFINE s == Without(eventQ[d], e)
           q == Insert(s, e, evs)
           ws == [evs EXCEPT ![e].dispatcher = d]
<1>0. /\ TypeOK /\ QueuesDistinct /\ eventQ \in [Dispatchers -> Seq(Events)]
      /\ es \in EsRecord /\ woken \in BOOLEAN
      /\ evs \in [Events -> LateEvent] /\ \A x \in Events : Later(evs[x].due) <= MaxPeriod
  BY TypeFacts DEF Queueing, Changed, Schedulable
<1>1. mprScheduleDispatcher(d, q, ws, TRUE)
  BY DEF mprQueueEvent
<1>2. /\ ws \in [Events -> LateEvent]
      /\ \A x \in Events : x # e => ws[x] = evs[x]
      /\ ws[e].dispatcher = d
      /\ \A x \in Events : /\ ws[x].due = evs[x].due /\ ws[x].created = evs[x].created
                           /\ ws[x].continuous = evs[x].continuous
  BY <1>0 DEF LateEvent
<1>3. Schedulable(ws)
  BY <1>0, <1>2 DEF Schedulable
<1>4. /\ s \in Seq(Events) /\ NoDup(s)
      /\ \A x : x \in Range(s) <=> x \in Range(eventQ[d]) /\ x # e
      /\ SortedBy(s, evs)
  BY RestInOrder DEF Changed
<1>5. /\ q \in Seq(Events) /\ NoDup(q)
      /\ \A x : x \in Range(q) <=> x \in Range(s) \/ x = e
      /\ SortedBy(q, evs)
  <2> HIDE DEF s
  <2>1. \A x \in Events : evs[x].due \in Nat
    BY <1>0 DEF LateEvent
  <2> QED
    BY <1>4, <2>1, InsertProps
<1> HIDE DEF s, q, ws
<1>6. SortedBy(q, ws)
  <2>1. \A i \in DOMAIN q : q[i] \in Events
    BY <1>5, LenProperties, ElementOfSeq
  <2> QED
    BY <1>2, <1>5, <2>1 DEF SortedBy
<1>7. /\ eventQ' = [eventQ EXCEPT ![d] = q]
      /\ Schedules(d, q, ws, TRUE)
      /\ woken' \in BOOLEAN
  BY <1>0, <1>1, WakesBoolean DEF mprScheduleDispatcher
<1>8. event' = Forward(ws)
  BY <1>7 DEF Schedules
<1>9. \A x \in Range(q) : ws[x].dispatcher = d
  <2> SUFFICES ASSUME NEW x \in Range(q) PROVE ws[x].dispatcher = d
    OBVIOUS
  <2>1. CASE x = e
    BY <1>2, <2>1
  <2>2. CASE x # e
    <3>1. x \in Range(eventQ[d]) /\ x \in Events
      BY <1>0, <1>4, <1>5, <2>2, RangeIsElements, ElementOfSeq
    <3>2. event[x].dispatcher = d /\ evs[x] = event[x]
      BY <2>2, <3>1 DEF Queueing, EventsHome, Changed
    <3> QED
      BY <1>2, <2>2, <3>1, <3>2
  <2> QED
    BY <2>1, <2>2
<1>10. \A y \in Dispatchers : y # d => \A x \in Range(eventQ[y]) : ws[x] = event[x]
  <2> SUFFICES ASSUME NEW y \in Dispatchers, y # d, NEW x \in Range(eventQ[y])
               PROVE  ws[x] = event[x]
    OBVIOUS
  <2>1. x # e /\ x \in Events
    BY <1>0, RangeIsElements, ElementOfSeq
  <2> QED
    BY <1>2, <2>1 DEF Changed
<1>11. EventsHome' /\ EventsSorted'
  BY <1>3, <1>5, <1>6, <1>7, <1>8, <1>9, <1>10, ScheduledHome
<1>12. /\ queues' \in [QueueNames -> Seq(Dispatchers)] /\ QueuesDistinct'
       /\ cond' \subseteq Dispatchers
       /\ event' \in [Events -> EventRecord]
       /\ es' \in EsRecord
  BY <1>0, <1>3, <1>7, SchedulesEffect
<1>13. /\ eventQ' \in [Dispatchers -> Seq(Events)]
       /\ \A y \in Dispatchers : y # d => eventQ'[y] = eventQ[y]
       /\ eventQ'[d] = q
  BY <1>0, <1>5, <1>7
<1>14. \A x : x \in Range(eventQ'[d]) <=> x \in Range(eventQ[d]) \/ x = e
  BY <1>4, <1>5, <1>13
<1>15. \A x \in Events :
         /\ event'[x].dispatcher = IF x = e THEN d ELSE event[x].dispatcher
         /\ event'[x].created = evs[x].created
         /\ event'[x].continuous = evs[x].continuous
  <2>1. \A x \in Events : /\ event'[x].dispatcher = ws[x].dispatcher
                          /\ event'[x].created = ws[x].created
                          /\ event'[x].continuous = ws[x].continuous
    BY <1>0, <1>2, <1>8, ForwardProps
  <2> QED
    BY <1>2, <2>1 DEF Changed
<1> QED
  BY <1>7, <1>11, <1>12, <1>13, <1>14, <1>15

-----------------------------------------------------------------------------
(***************************************************************************)
(* Calls of application code keep the events at home.                      *)
(***************************************************************************)

Keeps ==
    /\ DataTypes' /\ QueuesDistinct' /\ EventsHome' /\ EventsSorted' /\ InHand'

\* The step is, as far as queues of events go, a call of mprQueueEvent
QueuesEvent ==
    \E d \in Dispatchers, e \in Events : \E evs :
        /\ Changed(e, evs) /\ mprQueueEvent(d, e, evs)
        /\ \A y \in Dispatchers : y # d => e \notin Range(eventQ[y])

\* An event whose dispatcher is not y is not queued there
LEMMA NotQueuedElsewhere ==
    ASSUME Queueing, NEW e \in Events, NEW y \in Dispatchers, event[e].dispatcher # y
    PROVE  e \notin Range(eventQ[y])
BY DEF Queueing, EventsHome

\* Nothing is taken up or put down
LEMMA HandsUnchanged ==
    ASSUME InHand, UNCHANGED thread,
           \A x \in Events : \/ event'[x].dispatcher \in {event[x].dispatcher, Nobody}
                             \/ ~Running(x),
           \A x \in Events : ~event'[x].created =>
               /\ ~event[x].created /\ removed'[x] = removed[x]
               /\ event'[x].dispatcher \in {event[x].dispatcher, Nobody}
    PROVE  InHand'
<1>1. \A x \in Events : Running(x)' <=> Running(x)
  BY DEF Running
<1>2. \A t \in Threads :
        thread[t].e \in Events => event'[thread[t].e].dispatcher \in {Nobody, thread[t].d}
  BY DEF InHand, Running
<1>3. \A x \in Events : ~event'[x].created =>
        event'[x].dispatcher = Nobody /\ removed'[x] = "no" /\ ~Running(x)'
  BY <1>1 DEF InHand
<1> QED
  BY <1>2, <1>3 DEF InHand

LEMMA CreateKeeps ==
    ASSUME Queueing, NEW e \in Events, NEW d \in Dispatchers, NEW period \in 0..MaxPeriod,
           NEW continuous \in BOOLEAN, mprCreateEvent(e, d, period, continuous)
    PROVE  /\ Keeps
           /\ QueuesEvent
           /\ \A y \in Dispatchers : y # d => eventQ'[y] = eventQ[y]
           /\ \A x : x \in Range(eventQ'[d]) <=> x \in Range(eventQ[d]) \/ x = e
           /\ \A x \in Events : x # e => /\ event'[x].dispatcher = event[x].dispatcher
                                         /\ event'[x].continuous = event[x].continuous
<1> DEFINE r == [dispatcher |-> d, created |-> TRUE, continuous |-> continuous,
                 period |-> period, due |-> es.lag + period]
           evs == [event EXCEPT ![e] = r]
<1>0. /\ TypeOK /\ DataTypes /\ InHand /\ event \in [Events -> EventRecord] /\ es \in EsRecord
  BY TypeFacts, TypeParts DEF Queueing
<1>1. /\ d \notin destroyed /\ ~event[e].created /\ mprQueueEvent(d, e, evs)
      /\ UNCHANGED <<scenario, destroyed, waiting, thread, removed, pruneTimer>>
  BY DEF mprCreateEvent, workVars
<1>2. r \in LateEvent /\ Later(r.due) <= MaxPeriod /\ r.created
  <2>1. es.lag \in Nat /\ period \in Nat /\ Later(es.lag + period) = period /\ period <= MaxPeriod
    BY <1>0, LaterProps, PeriodAssumed
  <2> QED
    BY <2>1 DEF LateEvent
<1> HIDE DEF r
<1>3. Changed(e, evs)
  <2>1. Schedulable(event)
    BY <1>0, TypedSchedulable
  <2> QED
    BY <1>0, <1>2, <2>1 DEF Changed, Schedulable
<1>4. event[e].dispatcher = Nobody /\ ~Running(e)
  BY <1>0, <1>1 DEF InHand
<1>5. \A y \in Dispatchers : e \notin Range(eventQ[y])
  BY <1>4, NotQueuedElsewhere, NobodyAssumed
<1>6. /\ evs[e].created
      /\ \A x \in Events : x # e => /\ evs[x].created = event[x].created
                                    /\ evs[x].continuous = event[x].continuous
  BY <1>0, <1>2
<1> HIDE DEF evs
<1>7. /\ queues' \in [QueueNames -> Seq(Dispatchers)] /\ QueuesDistinct'
      /\ cond' \subseteq Dispatchers /\ woken' \in BOOLEAN
      /\ eventQ' \in [Dispatchers -> Seq(Events)]
      /\ event' \in [Events -> EventRecord]
      /\ es' \in EsRecord
      /\ EventsHome' /\ EventsSorted'
      /\ \A y \in Dispatchers : y # d => eventQ'[y] = eventQ[y]
      /\ \A x : x \in Range(eventQ'[d]) <=> x \in Range(eventQ[d]) \/ x = e
      /\ \A x \in Events :
            /\ event'[x].dispatcher = IF x = e THEN d ELSE event[x].dispatcher
            /\ event'[x].created = evs[x].created
            /\ event'[x].continuous = evs[x].continuous
  BY <1>1, <1>3, <1>5, QueueEventEffect
<1>8. InHand'
  BY <1>0, <1>1, <1>4, <1>6, <1>7, HandsUnchanged
<1>9. DataTypes'
  BY <1>0, <1>1, <1>7 DEF DataTypes
<1>10. QueuesEvent
  BY <1>1, <1>3, <1>5 DEF QueuesEvent
<1> QED
  BY <1>6, <1>7, <1>8, <1>9, <1>10 DEF Keeps

LEMMA UnlinkedProps ==
    ASSUME event \in [Events -> EventRecord], NEW e \in Events
    PROVE  /\ Unlinked(e) \in [Events -> EventRecord]
           /\ \A x \in Events : x # e => Unlinked(e)[x] = event[x]
           /\ Unlinked(e)[e].dispatcher = Nobody /\ Unlinked(e)[e].continuous = FALSE
           /\ Unlinked(e)[e].created = event[e].created /\ Unlinked(e)[e].due = event[e].due
BY DEF Unlinked, EventRecord

LEMMA RemoveKeeps ==
    ASSUME Queueing, NEW e \in Events, mprRemoveEvent(e)
    PROVE  /\ Keeps
           /\ \A x \in Events : /\ event'[x].dispatcher = Unlinked(e)[x].dispatcher
                                /\ event'[x].continuous = Unlinked(e)[x].continuous
           /\ \A y \in Dispatchers :
                 \A x : x \in Range(eventQ'[y]) <=> x \in Range(eventQ[y]) /\ x # e
<1> DEFINE d == event[e].dispatcher
           q == Without(eventQ[d], e)
           evs == Unlinked(e)
<1>0. /\ TypeOK /\ DataTypes /\ InHand /\ QueuesDistinct /\ EventsHome
      /\ event \in [Events -> EventRecord] /\ es \in EsRecord
      /\ removed \in [Events -> RemovedStates] /\ eventQ \in [Dispatchers -> Seq(Events)]
  BY TypeFacts, TypeParts DEF Queueing
<1>1. /\ d # Nobody
      /\ \/ mprScheduleDispatcher(d, q, evs, FALSE) /\ q # <<>>
         \/ /\ eventQ' = [eventQ EXCEPT ![d] = q] /\ event' = evs
            /\ UNCHANGED <<queues, cond, es, woken>>
      /\ removed' = [removed EXCEPT ![e] = IF Running(e) THEN "running" ELSE "quiet"]
      /\ UNCHANGED <<scenario, destroyed, waiting, thread, pruneTimer>>
  BY DEF mprRemoveEvent, workVars
<1>2. d \in Dispatchers
  BY <1>0, <1>1 DEF EventRecord
<1>3. /\ evs \in [Events -> EventRecord]
      /\ \A x \in Events : x # e => evs[x] = event[x]
      /\ evs[e].dispatcher = Nobody /\ evs[e].due = event[e].due
      /\ \A x \in Events : evs[x].created = event[x].created
      /\ \A x \in Events : evs[x].dispatcher \in {event[x].dispatcher, Nobody}
  BY <1>0, UnlinkedProps
<1>4. Schedulable(evs)
  BY <1>0, <1>3, TypedSchedulable
<1> HIDE DEF d, evs
<1>5. /\ q \in Seq(Events) /\ NoDup(q)
      /\ \A x : x \in Range(q) <=> x \in Range(eventQ[d]) /\ x # e
      /\ SortedBy(q, evs)
  BY <1>2, <1>3, RestInOrder
<1>6. d \in destroyed => q = <<>>
  <2> SUFFICES ASSUME d \in destroyed, q # <<>> PROVE FALSE
    OBVIOUS
  <2>1. eventQ[d] = <<>>
    BY <1>0 DEF EventsHome
  <2>2. Len(q) \in Nat /\ Len(q) # 0 /\ DOMAIN q = 1..Len(q)
    BY <1>5, EmptySeq, LenProperties
  <2>3. q[1] \in Range(q)
    BY <2>2 DEF Range
  <2>4. q[1] \in Range(eventQ[d])
    BY <1>5, <2>3
  <2> QED
    BY <2>1, <2>4 DEF Range
<1> HIDE DEF q
<1>7. event' \in {evs, Forward(evs)} /\ eventQ' = [eventQ EXCEPT ![d] = q]
  BY <1>1 DEF mprScheduleDispatcher, Schedules
<1>8. \A y \in Dispatchers : y # d => e \notin Range(eventQ[y])
  BY NotQueuedElsewhere DEF d
<1>9. EventsHome' /\ EventsSorted'
  <2>1. \A x \in Range(q) : evs[x].dispatcher = d
    BY <1>0, <1>2, <1>3, <1>5, RangeIsElements, ElementOfSeq DEF EventsHome
  <2>2. \A y \in Dispatchers : y # d => \A x \in Range(eventQ[y]) : evs[x] = event[x]
    BY <1>0, <1>3, <1>8, RangeIsElements, ElementOfSeq
  <2> QED
    BY <1>1, <1>2, <1>4, <1>5, <1>6, <1>7, <2>1, <2>2, ScheduledHome
<1>10. /\ queues' \in [QueueNames -> Seq(Dispatchers)] /\ QueuesDistinct'
       /\ cond' \subseteq Dispatchers /\ woken' \in BOOLEAN
       /\ event' \in [Events -> EventRecord]
       /\ es' \in EsRecord
  <2>1. CASE mprScheduleDispatcher(d, q, evs, FALSE)
    <3>1. Schedules(d, q, evs, FALSE) /\ woken' \in BOOLEAN
      BY <1>0, <2>1, TypeFacts, WakesBoolean DEF mprScheduleDispatcher
    <3> QED
      BY <1>0, <1>2, <1>3, <1>4, <3>1, SchedulesEffect
  <2>2. CASE event' = evs /\ UNCHANGED <<queues, cond, es, woken>>
    BY <1>0, <1>3, <2>2, TypeFacts DEF QueuesDistinct
  <2> QED
    BY <1>1, <2>1, <2>2
<1>11. removed' \in [Events -> RemovedStates] /\ \A x \in Events : x # e => removed'[x] = removed[x]
  BY <1>0, <1>1 DEF RemovedStates
<1>12. eventQ' \in [Dispatchers -> Seq(Events)]
  BY <1>0, <1>5, <1>7
<1>13. \A x \in Events : /\ event'[x].dispatcher = evs[x].dispatcher
                         /\ event'[x].created = evs[x].created
                         /\ event'[x].continuous = evs[x].continuous
  BY <1>0, <1>4, <1>7, ForwardProps DEF Schedulable
<1>14. event[e].created
  BY <1>0, <1>1 DEF InHand, d
<1>15. InHand'
  BY <1>0, <1>1, <1>3, <1>11, <1>13, <1>14, HandsUnchanged
<1>16. DataTypes'
  BY <1>0, <1>1, <1>10, <1>11, <1>12 DEF DataTypes
<1>17. \A y \in Dispatchers :
         \A x : x \in Range(eventQ'[y]) <=> x \in Range(eventQ[y]) /\ x # e
  BY <1>0, <1>5, <1>7, <1>8
<1> QED
  BY <1>9, <1>10, <1>13, <1>15, <1>16, <1>17 DEF Keeps, evs

\* Events stay where they are, with the dispatchers and the times they have
LEMMA HomesUnchanged ==
    ASSUME Queueing, UNCHANGED <<eventQ, destroyed>>,
           \A x \in Events : Queued(x) => /\ event'[x].dispatcher = event[x].dispatcher
                                          /\ event'[x].due = event[x].due
    PROVE  EventsHome' /\ EventsSorted'
<1>1. eventQ \in [Dispatchers -> Seq(Events)] /\ EventsHome /\ EventsSorted
  BY TypeFacts DEF Queueing
<1>2. \A d \in Dispatchers : \A x \in Range(eventQ[d]) : x \in Events /\ Queued(x)
  BY <1>1, RangeIsElements, ElementOfSeq DEF Queued
<1>3. EventsHome'
  BY <1>1, <1>2 DEF EventsHome
<1>4. ASSUME NEW d \in Dispatchers PROVE SortedBy(eventQ'[d], event')
  <2>1. SortedBy(eventQ[d], event)
    BY <1>1 DEF EventsSorted
  <2>2. \A i \in DOMAIN eventQ[d] : event'[eventQ[d][i]].due = event[eventQ[d][i]].due
    <3>1. \A i \in DOMAIN eventQ[d] : eventQ[d][i] \in Range(eventQ[d])
      BY DEF Range
    <3> QED
      BY <1>2, <3>1
  <2> QED
    BY <2>1, <2>2 DEF SortedBy
<1> QED
  BY <1>3, <1>4 DEF EventsSorted

LEMMA EnableKeeps ==
    ASSUME Queueing, NEW e \in Events, NEW enable \in BOOLEAN,
           mprEnableContinuousEvent(e, enable)
    PROVE  /\ Keeps
           /\ UNCHANGED <<eventQ, destroyed, thread>>
           /\ \A x \in Events :
                 /\ event'[x].dispatcher = event[x].dispatcher
                 /\ event'[x].continuous = IF x = e THEN enable ELSE event[x].continuous
<1>0. /\ DataTypes /\ InHand /\ QueuesDistinct /\ event \in [Events -> EventRecord]
      /\ removed \in [Events -> RemovedStates]
  BY TypeFacts, TypeParts DEF Queueing
<1>1. /\ event[e].dispatcher # Nobody
      /\ event' = [event EXCEPT ![e].continuous = enable]
      /\ removed' = [removed EXCEPT ![e] = IF enable THEN "no" ELSE removed[e]]
      /\ UNCHANGED <<scenario, queues, destroyed, waiting, cond, eventQ, es, woken, thread,
                     pruneTimer>>
  BY DEF mprEnableContinuousEvent, dispVars, workVars
<1>2. /\ event' \in [Events -> EventRecord]
      /\ \A x \in Events : /\ event'[x].dispatcher = event[x].dispatcher
                           /\ event'[x].created = event[x].created
                           /\ event'[x].due = event[x].due
                           /\ event'[x].continuous = IF x = e THEN enable ELSE event[x].continuous
  BY <1>0, <1>1 DEF EventRecord
<1>3. removed' \in [Events -> RemovedStates] /\ \A x \in Events : x # e => removed'[x] = removed[x]
  BY <1>0, <1>1 DEF RemovedStates
<1>4. EventsHome' /\ EventsSorted'
  BY <1>1, <1>2, HomesUnchanged
<1>5. event[e].created
  BY <1>0, <1>1 DEF InHand
<1>6. InHand'
  BY <1>0, <1>1, <1>2, <1>3, <1>5, HandsUnchanged
<1>7. DataTypes' /\ QueuesDistinct'
  BY <1>0, <1>1, <1>2, <1>3 DEF DataTypes, QueuesDistinct
<1> QED
  BY <1>1, <1>2, <1>4, <1>6, <1>7 DEF Keeps

LEMMA RescheduleKeeps ==
    ASSUME Queueing, NEW t \in Threads, NEW period \in 0..MaxPeriod,
           mprRescheduleEvent(t, period)
    PROVE  /\ Keeps
           /\ QueuesEvent
           /\ thread[t].e \in Events
           /\ \A x \in Events : /\ event'[x].dispatcher = event[x].dispatcher
                                /\ event'[x].continuous = event[x].continuous
           /\ \A y \in Dispatchers : \A x \in Events :
                 x # thread[t].e => (x \in Range(eventQ'[y]) <=> x \in Range(eventQ[y]))
<1> DEFINE e == thread[t].e
           d == event[e].dispatcher
           evs == [event EXCEPT ![e].period = period, ![e].due = period]
<1>0. /\ TypeOK /\ DataTypes /\ InHand /\ QueuesDistinct /\ EventsHome
      /\ event \in [Events -> EventRecord] /\ es \in EsRecord
      /\ removed \in [Events -> RemovedStates]
  BY TypeFacts, TypeParts DEF Queueing
<1>1. /\ thread[t].pc = "proc" /\ d # Nobody /\ mprQueueEvent(d, e, evs)
      /\ removed' = [removed EXCEPT ![e] = "no"]
      /\ UNCHANGED <<scenario, destroyed, waiting, thread, pruneTimer>>
  BY DEF mprRescheduleEvent, workVars
<1>2. e \in Events
  BY <1>0, <1>1 DEF InHand, Handling
<1>3. d \in Dispatchers /\ event[e].created
  BY <1>0, <1>1, <1>2 DEF EventRecord, InHand
<1>4. /\ evs \in [Events -> EventRecord]
      /\ \A x \in Events : x # e => evs[x] = event[x]
      /\ \A x \in Events : /\ evs[x].dispatcher = event[x].dispatcher
                           /\ evs[x].created = event[x].created
                           /\ evs[x].continuous = event[x].continuous
  <2> HIDE DEF e
  <2> QED
    BY <1>0, <1>2 DEF EventRecord
<1>5. Changed(e, evs)
  BY <1>0, <1>4, TypedSchedulable DEF Changed
<1>6. \A y \in Dispatchers : y # d => e \notin Range(eventQ[y])
  BY <1>2, NotQueuedElsewhere
<1>7. removed' \in [Events -> RemovedStates] /\ \A x \in Events : x # e => removed'[x] = removed[x]
  BY <1>0, <1>1, <1>2 DEF RemovedStates
<1> HIDE DEF d, e, evs
<1>10. QueuesEvent
  BY <1>1, <1>2, <1>3, <1>5, <1>6 DEF QueuesEvent
<1>8. CASE d \in destroyed
  <2>1. event' = evs /\ UNCHANGED <<queues, cond, eventQ, es, woken>>
    BY <1>1, <1>8 DEF mprQueueEvent
  <2>2. eventQ[d] = <<>>
    BY <1>0, <1>8 DEF EventsHome
  <2>3. ~Queued(e)
    BY <1>6, <2>2 DEF Queued, Range
  <2>4. \A x \in Events : Queued(x) => evs[x] = event[x]
    BY <1>4, <2>3
  <2>5. EventsHome' /\ EventsSorted'
    BY <1>1, <2>1, <2>4, HomesUnchanged
  <2>6. InHand'
    BY <1>0, <1>1, <1>3, <1>4, <1>7, <2>1, HandsUnchanged
  <2>7. DataTypes' /\ QueuesDistinct'
    BY <1>0, <1>1, <1>4, <1>7, <2>1 DEF DataTypes, QueuesDistinct
  <2> QED
    BY <1>2, <1>4, <1>10, <2>1, <2>5, <2>6, <2>7 DEF Keeps, e
<1>9. CASE d \notin destroyed
  <2>1. /\ queues' \in [QueueNames -> Seq(Dispatchers)] /\ QueuesDistinct'
        /\ cond' \subseteq Dispatchers /\ woken' \in BOOLEAN
        /\ eventQ' \in [Dispatchers -> Seq(Events)]
        /\ event' \in [Events -> EventRecord]
        /\ es' \in EsRecord
        /\ EventsHome' /\ EventsSorted'
        /\ \A y \in Dispatchers : y # d => eventQ'[y] = eventQ[y]
        /\ \A x : x \in Range(eventQ'[d]) <=> x \in Range(eventQ[d]) \/ x = e
        /\ \A x \in Events :
              /\ event'[x].dispatcher = IF x = e THEN d ELSE event[x].dispatcher
              /\ event'[x].created = evs[x].created
              /\ event'[x].continuous = evs[x].continuous
    BY <1>1, <1>2, <1>3, <1>5, <1>6, <1>9, QueueEventEffect
  <2>2. \A x \in Events : event'[x].dispatcher = event[x].dispatcher
    BY <2>1 DEF d
  <2>3. InHand'
    BY <1>0, <1>1, <1>3, <1>4, <1>7, <2>1, <2>2, HandsUnchanged
  <2>4. DataTypes'
    BY <1>0, <1>1, <1>7, <2>1 DEF DataTypes
  <2>5. \A y \in Dispatchers : \A x \in Events :
          x # e => (x \in Range(eventQ'[y]) <=> x \in Range(eventQ[y]))
    BY <2>1
  <2> QED
    BY <1>2, <1>4, <1>10, <2>1, <2>2, <2>3, <2>4, <2>5 DEF Keeps, e
<1> QED
  BY <1>8, <1>9

\* The events that mprDestroyDispatcher removes
LEMMA FreeEventsProps ==
    ASSUME event \in [Events -> EventRecord], NEW d \in Dispatchers
    PROVE  /\ freeEvents(d) \in [Events -> EventRecord]
           /\ \A x \in Events :
                 /\ freeEvents(d)[x].created = event[x].created
                 /\ freeEvents(d)[x].due = event[x].due
                 /\ freeEvents(d)[x].dispatcher =
                        IF x \in Range(eventQ[d]) THEN Nobody ELSE event[x].dispatcher
                 /\ freeEvents(d)[x].continuous =
                        IF x \in Range(eventQ[d]) THEN FALSE ELSE event[x].continuous
<1>1. ASSUME NEW x \in Events
      PROVE  /\ freeEvents(d)[x] \in EventRecord
             /\ freeEvents(d)[x].created = event[x].created
             /\ freeEvents(d)[x].due = event[x].due
             /\ freeEvents(d)[x].dispatcher =
                    IF x \in Range(eventQ[d]) THEN Nobody ELSE event[x].dispatcher
             /\ freeEvents(d)[x].continuous =
                    IF x \in Range(eventQ[d]) THEN FALSE ELSE event[x].continuous
  <2>1. event[x] \in EventRecord
    OBVIOUS
  <2>2. CASE x \in Range(eventQ[d])
    <3>1. freeEvents(d)[x] = [event[x] EXCEPT !.dispatcher = Nobody, !.continuous = FALSE]
      BY <2>2 DEF freeEvents
    <3> QED
      BY <2>1, <2>2, <3>1 DEF EventRecord
  <2>3. CASE x \notin Range(eventQ[d])
    <3>1. freeEvents(d)[x] = event[x]
      BY <2>3 DEF freeEvents
    <3> QED
      BY <2>1, <2>3, <3>1
  <2> QED
    BY <2>2, <2>3
<1>2. freeEvents(d) = [x \in Events |-> freeEvents(d)[x]]
  BY DEF freeEvents
<1> QED
  BY <1>1, <1>2

LEMMA DestroyKeeps ==
    ASSUME Queueing, NEW d \in Dispatchers, mprDestroyDispatcher(d)
    PROVE  /\ Keeps
           /\ \A x \in Events :
                 /\ event'[x].dispatcher =
                        IF x \in Range(eventQ[d]) THEN Nobody ELSE event[x].dispatcher
                 /\ event'[x].continuous =
                        IF x \in Range(eventQ[d]) THEN FALSE ELSE event[x].continuous
           /\ \A y \in Dispatchers : eventQ'[y] = IF y = d THEN <<>> ELSE eventQ[y]
<1>0. /\ TypeOK /\ DataTypes /\ InHand /\ QueuesDistinct /\ EventsHome /\ EventsSorted
      /\ queues \in [QueueNames -> Seq(Dispatchers)]
      /\ eventQ \in [Dispatchers -> Seq(Events)]
      /\ event \in [Events -> EventRecord]
      /\ removed \in [Events -> RemovedStates]
  BY TypeFacts, TypeParts DEF Queueing
<1>1. /\ \/ event' = freeEvents(d) /\ UNCHANGED es
         \/ event' = Forward(freeEvents(d)) /\ TimeRead(FALSE)
      /\ cond' \in {cond, cond \cup {d}}
      /\ eventQ' = [eventQ EXCEPT ![d] = <<>>]
      /\ queues' = dequeueDispatcher(d)
      /\ destroyed' = destroyed \cup {d}
      /\ removed' = [e \in Events |-> IF e \in Range(eventQ[d]) THEN "quiet" ELSE removed[e]]
      /\ UNCHANGED <<scenario, waiting, thread, pruneTimer>>
  BY DEF mprDestroyDispatcher, workVars
<1>2. woken' \in BOOLEAN
  BY <1>0, TypeFacts, WakesBoolean DEF mprDestroyDispatcher
<1>a. es' \in EsRecord
  BY <1>0, <1>1, TypeFacts, TimeReadProps
<1>b. cond' \subseteq Dispatchers
  BY <1>0, <1>1, TypeFacts
<1>c. freeEvents(d) \in [Events -> EventRecord]
      /\ \A x \in Events :
            /\ freeEvents(d)[x].created = event[x].created
            /\ freeEvents(d)[x].due = event[x].due
            /\ freeEvents(d)[x].dispatcher =
                   IF x \in Range(eventQ[d]) THEN Nobody ELSE event[x].dispatcher
            /\ freeEvents(d)[x].continuous =
                   IF x \in Range(eventQ[d]) THEN FALSE ELSE event[x].continuous
  BY <1>0, FreeEventsProps
<1>d. freeEvents(d) \in [Events -> LateEvent] /\ es \in EsRecord
      /\ \A x \in Events : Later(freeEvents(d)[x].due) <= MaxPeriod
  BY <1>0, <1>c, TypeFacts, TypedSchedulable DEF Schedulable
<1>3. /\ event' \in [Events -> EventRecord]
      /\ \A x \in Events :
             /\ event'[x].created = event[x].created
             /\ event'[x].dispatcher =
                    IF x \in Range(eventQ[d]) THEN Nobody ELSE event[x].dispatcher
             /\ event'[x].continuous =
                    IF x \in Range(eventQ[d]) THEN FALSE ELSE event[x].continuous
  <2>1. CASE event' = freeEvents(d)
    BY <1>c, <2>1
  <2>2. CASE event' = Forward(freeEvents(d))
    <3>1. \A x \in Events :
              /\ Forward(freeEvents(d))[x].created = freeEvents(d)[x].created
              /\ Forward(freeEvents(d))[x].dispatcher = freeEvents(d)[x].dispatcher
              /\ Forward(freeEvents(d))[x].continuous = freeEvents(d)[x].continuous
      BY <1>d, ForwardProps
    <3>2. Forward(freeEvents(d)) \in [Events -> EventRecord]
      BY <1>d, ForwardProps
    <3> QED
      BY <1>c, <2>2, <3>1, <3>2
  <2> QED
    BY <1>1, <2>1, <2>2
<1>4. event' \in [Events -> EventRecord]
  BY <1>3
<1>5. \A y \in Dispatchers : eventQ'[y] = IF y = d THEN <<>> ELSE eventQ[y]
  BY <1>0, <1>1
<1>6. eventQ' \in [Dispatchers -> Seq(Events)]
  BY <1>0, <1>1, EmptySeq
<1>7. queues' \in [QueueNames -> Seq(Dispatchers)] /\ QueuesDistinct'
  BY <1>0, <1>1, DequeueProps DEF QueuesDistinct
<1>8. removed' \in [Events -> RemovedStates]
  BY <1>0, <1>1 DEF RemovedStates
<1>9. EventsHome'
  <2>1. \A y \in Dispatchers : NoDup(eventQ'[y])
    BY <1>0, <1>5 DEF EventsHome, NoDup
  <2>2. ASSUME NEW y \in Dispatchers, NEW x \in Range(eventQ'[y])
        PROVE  event'[x].dispatcher = y
    <3>1. y # d
      BY <1>5, <2>2 DEF Range
    <3>2. x \in Range(eventQ[y]) /\ event[x].dispatcher = y /\ x \in Events
      BY <1>0, <1>5, <2>2, <3>1, RangeIsElements, ElementOfSeq, SMTT(30) DEF EventsHome
    <3>3. x \notin Range(eventQ[d])
      BY <1>0, <3>1, <3>2 DEF EventsHome
    <3> QED
      BY <1>3, <3>2, <3>3
  <2>3. \A y \in destroyed' : eventQ'[y] = <<>>
    <3>1. destroyed \subseteq Dispatchers
      BY <1>0, TypeFacts
    <3> QED
      BY <1>0, <1>1, <1>5, <3>1 DEF EventsHome
  <2> QED
    BY <2>1, <2>2, <2>3 DEF EventsHome
<1>10. EventsSorted'
  <2> SUFFICES ASSUME NEW y \in Dispatchers PROVE SortedBy(eventQ'[y], event')
    BY DEF EventsSorted
  <2>1. CASE y = d
    BY <1>5, <2>1 DEF SortedBy
  <2>2. CASE y # d
    <3>1. eventQ'[y] = eventQ[y] /\ SortedBy(eventQ[y], event)
      BY <1>0, <1>5, <2>2 DEF EventsSorted
    <3>2. \A i \in DOMAIN eventQ[y] : eventQ[y][i] \in Events
      BY <1>0, LenProperties, ElementOfSeq
    <3>3. SortedBy(eventQ[y], freeEvents(d))
      BY <1>c, <3>1, <3>2 DEF SortedBy
    <3>4. eventQ[y] \in Seq(Events)
      BY <1>0
    <3>5. SortedBy(eventQ[y], Forward(freeEvents(d)))
      BY <1>d, <3>3, <3>4, ForwardSorted
    <3> QED
      BY <1>1, <3>1, <3>3, <3>5
  <2> QED
    BY <2>1, <2>2
<1>11. InHand'
  <2>1. ASSUME NEW x \in Events, x \in Range(eventQ[d]) PROVE event[x].created
    <3>1. event[x].dispatcher = d
      BY <1>0, <2>1 DEF EventsHome
    <3>2. ~event[x].created => event[x].dispatcher = Nobody
      BY <1>0 DEF InHand
    <3> QED
      BY <3>1, <3>2, NobodyAssumed
  <2>2. \A x \in Events : event'[x].dispatcher \in {event[x].dispatcher, Nobody}
    BY <1>3
  <2>3. \A x \in Events : ~event'[x].created => ~event[x].created /\ removed'[x] = removed[x]
    BY <1>1, <1>3, <2>1
  <2> QED
    BY <1>0, <1>1, <2>2, <2>3, HandsUnchanged
<1>12. DataTypes'
  BY <1>0, <1>1, <1>2, <1>4, <1>6, <1>7, <1>8, <1>a, <1>b DEF DataTypes
<1> QED
  BY <1>3, <1>5, <1>7, <1>9, <1>10, <1>11, <1>12 DEF Keeps

-----------------------------------------------------------------------------
(***************************************************************************)
(* The steps of dispatchEvents keep the events at home.                    *)
(***************************************************************************)

LEMMA TailProps ==
    ASSUME NEW S, NEW s \in Seq(S), s # <<>>, NoDup(s)
    PROVE  /\ Tail(s) \in Seq(S) /\ NoDup(Tail(s))
           /\ \A x : x \in Range(Tail(s)) <=> x \in Range(s) /\ x # Head(s)
           /\ Head(s) \in Range(s) /\ Head(s) \in S
           /\ \A evs : SortedBy(s, evs) => SortedBy(Tail(s), evs)
<1> DEFINE r == Tail(s)
<1>0. Len(s) \in Nat \ {0} /\ DOMAIN s = 1..Len(s) /\ Head(s) = s[1]
  BY EmptySeq, LenProperties
<1>1. /\ r \in Seq(S) /\ Len(r) = Len(s) - 1
      /\ \A i \in 1..Len(r) : r[i] = s[i + 1]
  BY HeadTailProperties
<1> HIDE DEF r
<1>2. DOMAIN r = 1..(Len(s) - 1) /\ \A i \in DOMAIN r : i + 1 \in DOMAIN s /\ r[i] = s[i + 1]
  BY <1>0, <1>1, LenProperties
<1>3. NoDup(r)
  <2> SUFFICES ASSUME NEW i \in DOMAIN r, NEW j \in DOMAIN r, r[i] = r[j] PROVE i = j
    BY DEF NoDup
  <2>1. i + 1 = j + 1
    BY <1>2 DEF NoDup
  <2> QED
    BY <1>0, <1>2, <2>1
<1>4. 1 \in DOMAIN s /\ Head(s) \in Range(s) /\ Head(s) \in S
  BY <1>0, ElementOfSeq DEF Range
<1>5. ASSUME NEW x PROVE x \in Range(r) <=> x \in Range(s) /\ x # Head(s)
  <2>1. ASSUME x \in Range(r) PROVE x \in Range(s) /\ x # Head(s)
    <3>1. PICK i \in DOMAIN r : r[i] = x
      BY <2>1 DEF Range
    <3>2. i + 1 \in DOMAIN s /\ s[i + 1] = x /\ i + 1 # 1
      BY <1>0, <1>2, <3>1
    <3> QED
      BY <1>0, <1>4, <3>2 DEF NoDup, Range
  <2>2. ASSUME x \in Range(s), x # Head(s) PROVE x \in Range(r)
    <3>1. PICK k \in DOMAIN s : s[k] = x
      BY <2>2 DEF Range
    <3>2. k - 1 \in DOMAIN r /\ (k - 1) + 1 = k
      BY <1>0, <1>2, <2>2, <3>1
    <3>3. r[k - 1] = x
      BY <1>2, <3>1, <3>2
    <3> QED
      BY <3>2, <3>3 DEF Range
  <2> QED
    BY <2>1, <2>2
<1>6. ASSUME NEW evs, SortedBy(s, evs) PROVE SortedBy(r, evs)
  <2> SUFFICES ASSUME NEW i \in DOMAIN r, NEW j \in DOMAIN r, i < j
               PROVE  evs[r[i]].due <= evs[r[j]].due
    BY DEF SortedBy
  <2>1. i + 1 < j + 1 /\ i + 1 \in DOMAIN s /\ j + 1 \in DOMAIN s
    BY <1>0, <1>2
  <2> QED
    BY <1>2, <1>6, <2>1 DEF SortedBy
<1> QED
  BY <1>1, <1>3, <1>4, <1>5, <1>6 DEF r

\* A thread puts an event down
LEMMA PuttingDown ==
    ASSUME OwnershipTypes, NEW t \in Threads, NEW pc,
           thread' = [thread EXCEPT ![t].pc = pc, ![t].e = Nobody]
    PROVE  /\ \A u \in Threads : u # t => thread'[u] = thread[u]
           /\ thread'[t].pc = pc /\ thread'[t].d = thread[t].d /\ thread'[t].e = Nobody
           /\ thread'[t].back = thread[t].back
BY DEF OwnershipTypes, ThreadRecord

\* What becomes of the events in the hands of threads when t goes on with an event of the
\* dispatcher it runs
LEMMA HandsMove ==
    ASSUME InHand, NEW t \in Threads,
           \A u \in Threads : u # t => thread'[u] = thread[u],
           thread'[t].d = thread[t].d,
           thread'[t].e \in Events <=> thread'[t].pc \in Handling,
           thread'[t].e \in Events =>
               /\ event'[thread'[t].e].dispatcher \in {Nobody, thread[t].d}
               /\ event'[thread'[t].e].created
               /\ \A u \in Threads : u # t => thread[u].e # thread'[t].e,
           \A x \in Events : \/ event'[x].dispatcher = event[x].dispatcher
                             \/ \A u \in Threads : u # t => thread[u].e # x,
           \A x \in Events : ~event'[x].created =>
               /\ ~event[x].created /\ removed'[x] = removed[x]
               /\ event'[x].dispatcher = event[x].dispatcher
    PROVE  InHand'
<1>1. \A u \in Threads : thread'[u].e \in Events <=> thread'[u].pc \in Handling
  BY DEF InHand
<1>2. ASSUME NEW u \in Threads, thread'[u].e \in Events
      PROVE  event'[thread'[u].e].dispatcher \in {Nobody, thread'[u].d}
  BY <1>2 DEF InHand
<1>3. \A u, v \in Threads : thread'[u].e \in Events /\ thread'[u].e = thread'[v].e => u = v
  BY DEF InHand
<1>4. ASSUME NEW x \in Events, ~event'[x].created
      PROVE  event'[x].dispatcher = Nobody /\ removed'[x] = "no" /\ ~Running(x)'
  <2>1. event'[x].dispatcher = Nobody /\ removed'[x] = "no" /\ ~Running(x)
    BY <1>4 DEF InHand
  <2>2. ~Running(x)'
    BY <1>4, <2>1 DEF Running
  <2> QED
    BY <2>1, <2>2
<1> QED
  BY <1>1, <1>2, <1>3, <1>4 DEF InHand

\* t has taken the event e, which is due, from the queue of its dispatcher
Taken(t, e) ==
    /\ e \in Range(eventQ[thread[t].d])
    /\ \A u \in Threads : u # t => thread'[u] = thread[u] /\ thread[u].e # e
    /\ thread'[t].pc = "proc" /\ thread'[t].d = thread[t].d /\ thread'[t].e = e
    /\ thread'[t].back = thread[t].back
    /\ removed' = RunsRemoved(e)
    /\ eventQ' = [eventQ EXCEPT ![thread[t].d] = Tail(@)]
    /\ \A y \in Dispatchers : \A x : x \in Range(eventQ'[y]) <=> x \in Range(eventQ[y]) /\ x # e

LEMMA GetNextKeeps ==
    ASSUME Queueing, NEW t \in Threads, mprGetNextEvent(t)
    PROVE  /\ Keeps
           /\ UNCHANGED <<destroyed, event>>
           /\ \/ Goes(t, thread[t].back) /\ UNCHANGED <<eventQ, removed>>
              \/ \E e \in Events : Taken(t, e)
<1> DEFINE d == thread[t].d
<1>0. /\ TypeOK /\ DataTypes /\ InHand /\ QueuesDistinct /\ EventsHome /\ EventsSorted
      /\ OwnershipTypes
      /\ eventQ \in [Dispatchers -> Seq(Events)]
      /\ removed \in [Events -> RemovedStates]
  BY TypeFacts, TypeParts DEF Queueing
<1>1. /\ thread[t].pc = "next"
      /\ UNCHANGED <<scenario, queues, destroyed, waiting, cond, event, es, woken, pruneTimer>>
  BY DEF mprGetNextEvent, dispVars, workVars
<1>2. d \in Dispatchers
  BY <1>1 DEF Queueing, Ownership, RunnerOwns, Dispatching
<1>3. QueuesDistinct'
  BY <1>0, <1>1 DEF QueuesDistinct
<1>4. CASE Goes(t, thread[t].back) /\ UNCHANGED <<eventQ, removed>>
  <2>1. /\ \A u \in Threads : u # t => thread'[u] = thread[u]
        /\ thread'[t].pc = thread[t].back /\ thread'[t].d = thread[t].d
        /\ thread'[t].e = thread[t].e
    BY <1>0, <1>4, Going
  <2>2. thread[t].back \notin Handling /\ thread[t].e \notin Events
    BY <1>0, <1>1 DEF OwnershipTypes, ThreadRecord, Callers, Handling, InHand
  <2>3. InHand'
    BY <1>0, <1>1, <1>4, <2>1, <2>2, HandsMove
  <2>4. EventsHome' /\ EventsSorted'
    BY <1>1, <1>4, HomesUnchanged
  <2>5. DataTypes'
    BY <1>0, <1>1, <1>4 DEF DataTypes
  <2> QED
    BY <1>1, <1>3, <1>4, <2>3, <2>4, <2>5 DEF Keeps
<1>5. ASSUME Due(d), eventQ' = [eventQ EXCEPT ![d] = Tail(@)], NEW e \in Events,
             e = Head(eventQ[d]),
             thread' = [thread EXCEPT ![t].pc = "proc", ![t].e = e],
             removed' = RunsRemoved(e)
      PROVE  Keeps /\ UNCHANGED <<destroyed, event>> /\ Taken(t, e)
  <2>0. eventQ[d] \in Seq(Events) /\ eventQ[d] # <<>> /\ NoDup(eventQ[d])
    BY <1>0, <1>2, <1>5 DEF Due, EventsHome
  <2> HIDE DEF d
  <2>1. /\ Tail(eventQ[d]) \in Seq(Events) /\ NoDup(Tail(eventQ[d]))
        /\ \A x : x \in Range(Tail(eventQ[d])) <=> x \in Range(eventQ[d]) /\ x # e
        /\ e \in Range(eventQ[d])
        /\ SortedBy(Tail(eventQ[d]), event)
    BY <1>0, <1>2, <1>5, <2>0, TailProps DEF EventsSorted
  <2>2. /\ \A u \in Threads : u # t => thread'[u] = thread[u]
        /\ thread'[t].pc = "proc" /\ thread'[t].d = thread[t].d /\ thread'[t].e = e
        /\ thread'[t].back = thread[t].back
    BY <1>0, <1>5, TakingUp
  <2>3. /\ \A y \in Dispatchers : eventQ'[y] = IF y = d THEN Tail(eventQ[d]) ELSE eventQ[y]
        /\ eventQ' \in [Dispatchers -> Seq(Events)]
    BY <1>0, <1>2, <1>5, <2>1
  <2>4. event[e].dispatcher = d /\ event[e].created
    BY <1>0, <1>2, <2>1, NobodyAssumed DEF EventsHome, InHand
  <2>5. /\ removed' \in [Events -> RemovedStates]
        /\ \A x \in Events : x # e => removed'[x] = removed[x]
    BY <1>0, <1>5 DEF RunsRemoved, RemovedStates
  \* Another thread with the same event would run the same dispatcher
  <2>6. \A u \in Threads : u # t => thread[u].e # e
    <3> SUFFICES ASSUME NEW u \in Threads, u # t, thread[u].e = e PROVE FALSE
      OBVIOUS
    <3>1. thread[u].pc \in Handling /\ thread[u].d = d
      BY <1>0, <1>2, <2>4, NobodyAssumed DEF InHand
    <3>2. thread[u].pc \in Dispatching /\ thread[t].pc \in Dispatching
      BY <1>1, <3>1 DEF Handling, Dispatching
    <3>3. Serialized
      BY OwnershipSerializes DEF Queueing
    <3> QED
      BY <3>1, <3>2, <3>3 DEF Serialized, d
  <2>7. InHand'
    <3>1. /\ thread'[t].e \in Events <=> thread'[t].pc \in Handling
          /\ event'[e].dispatcher = thread[t].d /\ event'[e].created
      BY <1>1, <2>2, <2>4 DEF Handling, d
    <3>2. \A x \in Events : ~event'[x].created =>
            /\ ~event[x].created /\ removed'[x] = removed[x]
            /\ event'[x].dispatcher = event[x].dispatcher
      BY <1>1, <2>4, <2>5
    <3> QED
      BY <1>0, <1>1, <2>2, <2>6, <3>1, <3>2, HandsMove
  <2>8. EventsHome'
    <3>1. \A y \in Dispatchers : NoDup(eventQ'[y])
      BY <1>0, <2>1, <2>3 DEF EventsHome
    <3>2. \A y \in Dispatchers : \A x \in Range(eventQ'[y]) : event'[x].dispatcher = y
      BY <1>0, <1>1, <2>1, <2>3 DEF EventsHome
    <3>3. \A y \in destroyed' : eventQ'[y] = <<>>
      <4>1. destroyed \subseteq Dispatchers /\ d \notin destroyed
        BY <1>0, <2>0, TypeFacts DEF EventsHome
      <4> QED
        BY <1>0, <1>1, <2>3, <4>1 DEF EventsHome
    <3> QED
      BY <3>1, <3>2, <3>3 DEF EventsHome
  <2>9. EventsSorted'
    BY <1>0, <1>1, <2>1, <2>3 DEF EventsSorted
  <2>10. DataTypes'
    BY <1>0, <1>1, <2>3, <2>5 DEF DataTypes
  <2>11. \A y \in Dispatchers :
            \A x : x \in Range(eventQ'[y]) <=> x \in Range(eventQ[y]) /\ x # e
    <3>1. \A y \in Dispatchers : y # d => e \notin Range(eventQ[y])
      BY <1>0, <2>4 DEF EventsHome
    <3>2. \A x : x \in Range(eventQ'[d]) <=> x \in Range(eventQ[d]) /\ x # e
      BY <1>2, <2>1, <2>3
    <3>3. \A y \in Dispatchers : y # d => eventQ'[y] = eventQ[y]
      BY <2>3
    <3> QED
      BY <3>1, <3>2, <3>3
  <2>12. Taken(t, e)
    BY <1>5, <2>1, <2>2, <2>6, <2>11 DEF Taken, d
  <2> QED
    BY <1>1, <1>3, <2>7, <2>8, <2>9, <2>10, <2>12 DEF Keeps
<1> QED
  BY <1>4, <1>5 DEF mprGetNextEvent

\* A callback returns, or an event that has run is put down or kept to be queued again
LEMMA HasRunKeeps ==
    ASSUME Queueing, NEW t \in Threads, ProcReturns(t) \/ EventHasRun(t)
    PROVE  /\ Keeps
           /\ UNCHANGED <<eventQ, event, destroyed, removed>>
<1>0. DataTypes /\ InHand /\ QueuesDistinct /\ OwnershipTypes
  BY TypeFacts, TypeParts DEF Queueing
<1>1. /\ thread[t].pc \in {"proc", "ran"}
      /\ UNCHANGED <<scenario, queues, destroyed, waiting, cond, eventQ, event, es, woken,
                     pruneTimer, removed>>
  BY DEF ProcReturns, EventHasRun, dispVars, workVars
<1>2. \/ \E pc \in {"ran", "requeue"} : Goes(t, pc)
      \/ \E pc \in {"count", thread[t].back} :
            thread' = [thread EXCEPT ![t].pc = pc, ![t].e = Nobody]
  BY DEF ProcReturns, EventHasRun
<1>3. /\ \A u \in Threads : u # t => thread'[u] = thread[u]
      /\ thread'[t].d = thread[t].d
      /\ \/ thread'[t].pc \in {"ran", "requeue"} /\ thread'[t].e = thread[t].e
         \/ thread'[t].pc \in {"count", thread[t].back} /\ thread'[t].e = Nobody
  BY <1>0, <1>2, Going, PuttingDown, SMTT(30)
<1>4. thread[t].back \notin Handling /\ thread[t].e \in Events /\ Running(thread[t].e)
  BY <1>0, <1>1 DEF OwnershipTypes, ThreadRecord, Callers, Handling, InHand, Running
<1>5. thread'[t].e \in Events <=> thread'[t].pc \in Handling
  BY <1>3, <1>4, NobodyAssumed DEF Handling
<1>6. /\ event[thread[t].e].dispatcher \in {Nobody, thread[t].d}
      /\ event[thread[t].e].created
      /\ \A u \in Threads : u # t => thread[u].e # thread[t].e
  BY <1>0, <1>4 DEF InHand
<1>7. InHand'
  BY <1>0, <1>1, <1>3, <1>5, <1>6, HandsMove, NobodyAssumed
<1>8. EventsHome' /\ EventsSorted'
  BY <1>1, HomesUnchanged
<1>9. DataTypes' /\ QueuesDistinct'
  BY <1>0, <1>1 DEF DataTypes, QueuesDistinct
<1> QED
  BY <1>1, <1>7, <1>8, <1>9 DEF Keeps

LEMMA RequeueKeeps ==
    ASSUME Queueing, NEW t \in Threads, Requeue(t)
    PROVE  /\ Keeps
           /\ QueuesEvent
           /\ thread[t].e \in Events
           /\ UNCHANGED removed
           /\ \A x \in Events :
                 /\ x # thread[t].e => event'[x].dispatcher = event[x].dispatcher
                 /\ event'[x].continuous = event[x].continuous
           /\ \A y \in Dispatchers : \A x \in Events :
                 x # thread[t].e => (x \in Range(eventQ'[y]) <=> x \in Range(eventQ[y]))
           /\ thread[t].d \in destroyed => UNCHANGED eventQ
           /\ thread[t].d \in destroyed =>
                 event'[thread[t].e].dispatcher = event[thread[t].e].dispatcher
<1> DEFINE e == thread[t].e
           d == thread[t].d
           next == IF event[e].period > 0 THEN event[e].period ELSE 1
           evs == [event EXCEPT ![e].due = next]
<1>0. /\ TypeOK /\ DataTypes /\ InHand /\ QueuesDistinct /\ EventsHome
      /\ OwnershipTypes
      /\ event \in [Events -> EventRecord] /\ es \in EsRecord
  BY TypeFacts, TypeParts DEF Queueing
<1>1. /\ thread[t].pc = "requeue" /\ mprQueueEvent(d, e, evs)
      /\ thread' = [thread EXCEPT ![t].pc = "count", ![t].e = Nobody]
      /\ UNCHANGED <<scenario, destroyed, waiting, pruneTimer, removed>>
  BY DEF Requeue, workVars
<1>2. e \in Events /\ d \in Dispatchers
  BY <1>0, <1>1 DEF InHand, Handling, Queueing, Ownership, RunnerOwns, Dispatching
<1>3. /\ \A u \in Threads : u # t => thread'[u] = thread[u]
      /\ thread'[t].pc = "count" /\ thread'[t].d = thread[t].d /\ thread'[t].e = Nobody
  BY <1>0, <1>1, PuttingDown
<1> HIDE DEF e, d
<1>4. next \in 0..MaxPeriod
  BY <1>0, <1>2, PeriodAssumed DEF EventRecord
<1> HIDE DEF next
<1>5. /\ evs \in [Events -> EventRecord]
      /\ \A x \in Events : x # e => evs[x] = event[x]
      /\ \A x \in Events : /\ evs[x].dispatcher = event[x].dispatcher
                           /\ evs[x].created = event[x].created
                           /\ evs[x].continuous = event[x].continuous
  BY <1>0, <1>2, <1>4 DEF EventRecord
<1>6. Changed(e, evs)
  BY <1>0, <1>5, TypedSchedulable DEF Changed
<1> HIDE DEF evs
<1>7. /\ event[e].dispatcher \in {Nobody, d} /\ event[e].created
      /\ \A u \in Threads : u # t => thread[u].e # e
  BY <1>0, <1>2 DEF InHand, Running, e, d
<1>8. \A y \in Dispatchers : y # d => e \notin Range(eventQ[y])
  BY <1>2, <1>7, NotQueuedElsewhere, NobodyAssumed
<1>9. thread'[t].e \notin Events /\ thread'[t].pc \notin Handling
  BY <1>3, NobodyAssumed DEF Handling
<1>12. QueuesEvent
  BY <1>1, <1>2, <1>6, <1>8 DEF QueuesEvent
<1>10. CASE d \in destroyed
  <2>1. event' = evs /\ UNCHANGED <<queues, cond, eventQ, es, woken>>
    BY <1>1, <1>10 DEF mprQueueEvent
  <2>2. ~Queued(e)
    BY <1>0, <1>8, <1>10 DEF Queued, Range, EventsHome
  <2>3. \A x \in Events : Queued(x) => evs[x] = event[x]
    BY <1>5, <2>2
  <2>4. EventsHome' /\ EventsSorted'
    BY <1>1, <2>1, <2>3, HomesUnchanged
  <2>5. InHand'
    BY <1>0, <1>1, <1>3, <1>5, <1>7, <1>9, <2>1, HandsMove
  <2>6. DataTypes' /\ QueuesDistinct'
    BY <1>0, <1>1, <1>5, <2>1 DEF DataTypes, QueuesDistinct
  <2> QED
    BY <1>1, <1>2, <1>5, <1>12, <2>1, <2>4, <2>5, <2>6 DEF Keeps, e
<1>11. CASE d \notin destroyed
  <2>1. /\ queues' \in [QueueNames -> Seq(Dispatchers)] /\ QueuesDistinct'
        /\ cond' \subseteq Dispatchers /\ woken' \in BOOLEAN
        /\ eventQ' \in [Dispatchers -> Seq(Events)]
        /\ event' \in [Events -> EventRecord]
        /\ es' \in EsRecord
        /\ EventsHome' /\ EventsSorted'
        /\ \A y \in Dispatchers : y # d => eventQ'[y] = eventQ[y]
        /\ \A x : x \in Range(eventQ'[d]) <=> x \in Range(eventQ[d]) \/ x = e
        /\ \A x \in Events :
              /\ event'[x].dispatcher = IF x = e THEN d ELSE event[x].dispatcher
              /\ event'[x].created = evs[x].created
              /\ event'[x].continuous = evs[x].continuous
    BY <1>1, <1>2, <1>6, <1>8, <1>11, QueueEventEffect
  <2>2. \A x \in Events : \/ event'[x].dispatcher = event[x].dispatcher
                          \/ \A u \in Threads : u # t => thread[u].e # x
    BY <1>7, <2>1
  <2>3. \A x \in Events : ~event'[x].created =>
          /\ ~event[x].created /\ removed'[x] = removed[x]
          /\ event'[x].dispatcher = event[x].dispatcher
    BY <1>1, <1>5, <1>7, <2>1
  <2>4. InHand'
    BY <1>0, <1>3, <1>9, <2>2, <2>3, HandsMove
  <2>5. DataTypes'
    BY <1>0, <1>1, <2>1 DEF DataTypes
  <2>6. \A y \in Dispatchers : \A x \in Events :
          x # e => (x \in Range(eventQ'[y]) <=> x \in Range(eventQ[y]))
    BY <2>1
  <2> QED
    BY <1>1, <1>2, <1>5, <1>11, <1>12, <2>1, <2>4, <2>5, <2>6 DEF Keeps, e, d
<1> QED
  BY <1>10, <1>11

-----------------------------------------------------------------------------
(***************************************************************************)
(* The other steps keep the types and the queues.                          *)
(***************************************************************************)

LEMMA QuietData ==
    ASSUME Queueing, UNCHANGED <<scenario, eventQ, destroyed, removed>>,
           event' \in {event, Forward(event)},
           queues' \in [QueueNames -> Seq(Dispatchers)], Distinct(queues'),
           waiting' \subseteq Dispatchers, cond' \subseteq Dispatchers,
           es' \in EsRecord, woken' \in BOOLEAN, pruneTimer' \in BOOLEAN
    PROVE  DataTypes' /\ QueuesDistinct'
<1>1. TypeOK /\ DataTypes
  BY TypeParts DEF Queueing
<1>2. event' \in [Events -> EventRecord]
  BY <1>1, TimePasses
<1> QED
  BY <1>1, <1>2 DEF DataTypes, QueuesDistinct

LEMMA QueueingFacts ==
    Queueing => /\ queues \in [QueueNames -> Seq(Dispatchers)] /\ Distinct(queues)
                /\ waiting \subseteq Dispatchers /\ cond \subseteq Dispatchers
                /\ es \in EsRecord /\ woken \in BOOLEAN /\ pruneTimer \in BOOLEAN
BY TypeFacts DEF Queueing, QueuesDistinct

\* Only es changes
LEMMA QuietEs ==
    ASSUME Queueing, UNCHANGED <<scenario, queues, destroyed, waiting, cond, eventQ, removed>>,
           event' \in {event, Forward(event)}, es' \in EsRecord,
           woken' \in BOOLEAN, pruneTimer' \in BOOLEAN
    PROVE  DataTypes' /\ QueuesDistinct'
BY QueueingFacts, QuietData

LEMMA HelperTypes ==
    ASSUME Queueing, NEW t \in Threads, Count(t) \/ HelperEnds(t)
    PROVE  DataTypes' /\ QueuesDistinct'
<1>0. /\ queues \in [QueueNames -> Seq(Dispatchers)] /\ Distinct(queues)
      /\ waiting \subseteq Dispatchers /\ cond \subseteq Dispatchers
      /\ es \in EsRecord /\ woken \in BOOLEAN /\ pruneTimer \in BOOLEAN
      /\ TypeOK /\ QueuesDistinct
  BY QueueingFacts DEF Queueing
<1>1. CASE Count(t)
  <2>1. es' = [es EXCEPT !.counted = TRUE]
    BY <1>1 DEF Count
  <2>2. es' \in EsRecord
    BY <1>0, <2>1, CountedProps
  <2> QED
    BY <1>0, <1>1, <2>2, QuietEs DEF Count, dispVars, workVars
<1>2. CASE releaseDispatcher(t)
  BY <1>0, <1>2, QuietEs DEF releaseDispatcher, workVars
<1>3. CASE HelperDequeues(t)
  <2>1. thread[t].d \in Dispatchers
    BY <1>3 DEF HelperDequeues, Queueing, HelpersHave
  <2>2. queues' \in [QueueNames -> Seq(Dispatchers)] /\ Distinct(queues')
    BY <1>0, <1>3, <2>1, DequeueProps DEF HelperDequeues
  <2> QED
    BY <1>0, <1>3, <2>2, QuietData DEF HelperDequeues, workVars
<1>4. CASE HelperSchedules(t)
  <2>1. thread[t].d \in Dispatchers /\ Schedules(thread[t].d, eventQ[thread[t].d], event, FALSE)
    BY <1>4 DEF HelperSchedules, Queueing, HelpersHave
  <2>2. event \in [Events -> EventRecord] /\ Schedulable(event)
    BY <1>0, TypeFacts, TypedSchedulable
  <2>3. /\ queues' \in [QueueNames -> Seq(Dispatchers)] /\ QueuesDistinct'
        /\ cond' \subseteq Dispatchers /\ es' \in EsRecord
    BY <1>0, <2>1, <2>2, SchedulesEffect
  <2>4. event' \in {event, Forward(event)}
    BY <2>1 DEF Schedules
  <2> QED
    BY <1>0, <1>4, <2>3, <2>4, QuietData DEF HelperSchedules, workVars, QueuesDistinct
<1>5. CASE HelperWakes(t)
  <2>1. woken' \in BOOLEAN
    BY <1>0, <1>5, WakesBoolean DEF HelperWakes
  <2> QED
    BY <1>0, <1>5, <2>1, QuietEs DEF HelperWakes, dispVars, workVars
<1> QED
  BY <1>1, <1>2, <1>3, <1>4, <1>5 DEF HelperEnds

LEMMA WorkerTypes ==
    ASSUME Queueing, NEW w \in Workers, workerMain(w)
    PROVE  DataTypes' /\ QueuesDistinct'
<1>0. es \in EsRecord /\ woken \in BOOLEAN /\ pruneTimer \in BOOLEAN
  BY QueueingFacts
<1>1. /\ UNCHANGED <<scenario, queues, destroyed, waiting, cond, eventQ, event, es, pruneTimer,
                     removed>>
      /\ woken' \in BOOLEAN
  <2>1. CASE WorkerStarts(w)
    BY <1>0, <2>1 DEF WorkerStarts
  <2>2. CASE WorkerLeaves(w)
    BY <1>0, <2>2 DEF WorkerLeaves, dispVars
  <2>3. CASE mprWakePendingDispatchers(w)
    BY <1>0, <2>3 DEF mprWakePendingDispatchers, dispVars, workVars
  <2>4. CASE WakePending(w)
    BY <1>0, <2>4, WakesBoolean DEF WakePending, dispVars, workVars
  <2>5. CASE WorkerExits(w)
    BY <1>0, <2>5 DEF WorkerExits, dispVars
  <2> QED
    BY <2>1, <2>2, <2>3, <2>4, <2>5 DEF workerMain
<1> QED
  BY <1>0, <1>1, QuietEs

\* The dispatcher that is moved to the readyQ was waiting
LEMMA ReadiedProps ==
    ASSUME Queueing
    PROVE  /\ Readied \in [QueueNames -> Seq(Dispatchers)] /\ Distinct(Readied)
           /\ \/ Readied = queues
              \/ \E d \in Dispatchers : /\ On("wait", d) /\ queues["ready"] = <<>>
                                        /\ Readied = queueDispatcher("ready", d)
<1>0. queues \in [QueueNames -> Seq(Dispatchers)] /\ QueuesDistinct /\ "wait" \in QueueNames
      /\ "ready" \in QueueNames
  BY QueueingFacts DEF Queueing, QueueNames
<1>1. CASE Readied = queues
  BY <1>0, <1>1 DEF QueuesDistinct
<1>2. CASE Readied # queues
  <2> DEFINE i == Min(DueWaiting)
             d == queues["wait"][i]
  <2>1. DueWaiting # {} /\ queues["ready"] = <<>> /\ Readied = queueDispatcher("ready", d)
    BY <1>2 DEF Readied
  <2>2. queues["wait"] \in Seq(Dispatchers)
    BY <1>0
  <2>3. DOMAIN queues["wait"] = 1..Len(queues["wait"]) /\ Len(queues["wait"]) \in Nat
    BY <2>2, LenProperties
  <2>4. DueWaiting \in SUBSET Nat /\ DueWaiting \subseteq DOMAIN queues["wait"]
    BY <2>3 DEF DueWaiting
  <2>5. i \in DOMAIN queues["wait"]
    BY <2>1, <2>4, LeastExists
  <2> HIDE DEF i
  <2>6. d \in Dispatchers /\ On("wait", d)
    BY <2>2, <2>3, <2>5, ElementOfSeq DEF On, Range
  <2> HIDE DEF d
  <2>7. Readied \in [QueueNames -> Seq(Dispatchers)] /\ Distinct(Readied)
    BY <1>0, <2>1, <2>6, QueueProps
  <2> QED
    BY <2>1, <2>6, <2>7
<1> QED
  BY <1>1, <1>2

LEMMA SleepTicksType ==
    ASSUME Queueing
    PROVE  SleepTicks \in 0..Never
<1> DEFINE waiters == {x \in Range(queues["wait"]) : eventQ[x] # <<>>}
           firsts == {event[Head(eventQ[x])].due : x \in waiters}
<1>1. /\ queues["wait"] \in Seq(Dispatchers)
      /\ eventQ \in [Dispatchers -> Seq(Events)] /\ event \in [Events -> EventRecord]
  BY TypeFacts DEF Queueing, QueueNames
<1>2. ASSUME NEW x \in waiters PROVE event[Head(eventQ[x])].due \in 0..MaxPeriod
  <2>1. x \in Dispatchers /\ eventQ[x] # <<>>
    BY <1>1, RangeIsElements, ElementOfSeq
  <2>2. Head(eventQ[x]) \in Events
    BY <1>1, <2>1, HeadTailProperties
  <2> QED
    BY <1>1, <2>2 DEF EventRecord
<1>3. firsts \subseteq 0..MaxPeriod
  BY <1>2
<1>4. firsts # {} => Min(firsts) \in firsts
  <2> HIDE DEF firsts
  <2>1. firsts \in SUBSET Nat
    BY <1>3, PeriodAssumed
  <2> QED
    BY <2>1, LeastExists
<1>6. SleepTicks \in {0, Never} \/ (firsts # {} /\ SleepTicks = Min(firsts))
  BY DEF SleepTicks
<1> HIDE DEF firsts
<1>5. \A x \in firsts : x \in 0..Never
  <2> SUFFICES ASSUME NEW x \in firsts PROVE x \in 0..Never
    OBVIOUS
  <2>1. x \in 0..MaxPeriod
    BY <1>3
  <2> QED
    BY <2>1, PeriodAssumed
<1>7. 0 \in 0..Never /\ Never \in 0..Never
  BY PeriodAssumed
<1> QED
  BY <1>4, <1>5, <1>6, <1>7

LEMMA IdleTicksProps ==
    ASSUME Queueing, getIdleTicks
    PROVE  /\ es' \in EsRecord
           /\ es'.willAwake = SleepTicks /\ es'.waiting /\ es'.sleep = SleepTicks
           /\ es'.late = es.lag /\ es'.lag = es.lag
<1>1. es' = [es EXCEPT !.willAwake = SleepTicks, !.waiting = TRUE, !.sleep = SleepTicks,
                       !.late = es.lag]
  BY DEF getIdleTicks
<1>2. es \in EsRecord /\ SleepTicks \in 0..Never
  BY QueueingFacts, SleepTicksType
<1>3. PICK ticks \in 0..Never : ticks = SleepTicks
  BY <1>2
<1>4. PICK lag \in 0..MaxPeriod : lag = es.lag
  BY <1>2 DEF EsRecord
<1>5. es' = [es EXCEPT !.willAwake = ticks, !.waiting = TRUE, !.sleep = ticks, !.late = lag]
  BY <1>1, <1>3, <1>4
<1>6. es' \in EsRecord
  BY <1>2, <1>5 DEF EsRecord
<1>7. /\ es'.willAwake = ticks /\ es'.waiting /\ es'.sleep = ticks
      /\ es'.late = lag /\ es'.lag = es.lag
  BY <1>2, <1>5 DEF EsRecord
<1> QED
  BY <1>3, <1>4, <1>6, <1>7

LEMMA WaitOverProps ==
    ASSUME Queueing, mprWaitForIO \/ PruneTimerDue
    PROVE  /\ es' \in EsRecord
           /\ ~es'.waiting /\ es'.willAwake = es.willAwake /\ es'.lag = es.lag
<1>1. es' = [es EXCEPT !.waiting = FALSE, !.sleep = Never, !.late = 0] /\ es \in EsRecord
  BY QueueingFacts DEF mprWaitForIO, PruneTimerDue
<1>a. PICK ticks \in 0..Never : ticks = Never
  BY PeriodAssumed
<1>b. PICK none \in 0..MaxPeriod : none = 0
  BY PeriodAssumed
<1>2. es' = [es EXCEPT !.waiting = FALSE, !.sleep = ticks, !.late = none]
  BY <1>1, <1>a, <1>b
<1>3. es' \in EsRecord
  BY <1>1, <1>2 DEF EsRecord
<1>4. ~es'.waiting /\ es'.willAwake = es.willAwake /\ es'.lag = es.lag
  BY <1>1, <1>2 DEF EsRecord
<1> QED
  BY <1>3, <1>4

LEMMA ServiceTypes ==
    ASSUME Queueing, ServiceLoop
    PROVE  DataTypes' /\ QueuesDistinct'
<1>0. /\ queues \in [QueueNames -> Seq(Dispatchers)] /\ Distinct(queues)
      /\ waiting \subseteq Dispatchers /\ cond \subseteq Dispatchers
      /\ es \in EsRecord /\ woken \in BOOLEAN /\ pruneTimer \in BOOLEAN
      /\ QueuesDistinct
  BY QueueingFacts DEF Queueing
<1>1. CASE mprServiceEvents
  <2>1. es' = [es EXCEPT !.counted = FALSE]
    BY <1>1 DEF mprServiceEvents
  <2>2. es' \in EsRecord
    BY <1>0, <2>1, CountedProps
  <2> QED
    BY <1>0, <1>1, <2>2, QuietEs DEF mprServiceEvents, dispVars, workVars
<1>2. CASE getNextReadyDispatcher
  <2>1. /\ UNCHANGED <<scenario, destroyed, waiting, cond, eventQ, event, woken, removed, es,
                       pruneTimer>>
        /\ queues' = Readied
    BY <1>2 DEF getNextReadyDispatcher, ServiceUnchanged, workVars
  <2>2. queues' \in [QueueNames -> Seq(Dispatchers)] /\ Distinct(queues')
    BY <2>1, ReadiedProps
  <2> QED
    BY <1>0, <2>1, <2>2, QuietData
<1>3. CASE RunClaimed
  <2>1. /\ UNCHANGED <<scenario, destroyed, waiting, cond, eventQ, event, woken, removed, es,
                       pruneTimer>>
        /\ queues' = queueDispatcher("run", thread[Service].d)
    BY <1>3 DEF RunClaimed, ServiceUnchanged, workVars
  <2>2. thread[Service].d \in Dispatchers
    BY <1>3 DEF RunClaimed, Queueing, Ownership, ServiceReserves, Claiming
  <2>3. queues' \in [QueueNames -> Seq(Dispatchers)] /\ Distinct(queues')
    BY <1>0, <2>1, <2>2, QueueProps DEF QueueNames
  <2> QED
    BY <1>0, <2>1, <2>3, QuietData
<1>4. CASE mprStartWorker
  <2>1. /\ UNCHANGED <<scenario, destroyed, waiting, cond, eventQ, event, woken, removed, queues>>
        /\ \/ \E timer \in BOOLEAN : /\ pruneTimer' = (pruneTimer \/ timer)
                                     /\ es' = [es EXCEPT !.counted = @ \/ timer]
           \/ UNCHANGED <<pruneTimer, es>>
    <3>1. UNCHANGED <<scenario, destroyed, waiting, cond, eventQ, event, woken, removed, queues>>
      BY <1>4 DEF mprStartWorker, ServiceUnchanged
    <3>2. ASSUME NEW w \in Candidates,
                 LET threads == numThreads + (IF worker[w] = "none" THEN 1 ELSE 0)
                     timer == ~pruneTimer /\ threads > scenario.minThreads
                 IN  /\ pruneTimer' = (pruneTimer \/ timer)
                     /\ es' = [es EXCEPT !.counted = @ \/ timer]
          PROVE  \E timer \in BOOLEAN : /\ pruneTimer' = (pruneTimer \/ timer)
                                        /\ es' = [es EXCEPT !.counted = @ \/ timer]
      <4> DEFINE tm == ~pruneTimer
                       /\ numThreads + (IF worker[w] = "none" THEN 1 ELSE 0) > scenario.minThreads
      <4>1. tm \in BOOLEAN /\ pruneTimer' = (pruneTimer \/ tm) /\ es' = [es EXCEPT !.counted = @ \/ tm]
        BY <3>2
      <4> HIDE DEF tm
      <4> QED
        BY <4>1
    <3> QED
      BY <1>4, <3>1, <3>2 DEF mprStartWorker, workVars
  <2>2. pruneTimer' \in BOOLEAN
    BY <1>0, <2>1
  <2>3. es' \in EsRecord
    <3>1. ASSUME NEW timer \in BOOLEAN, es' = [es EXCEPT !.counted = @ \/ timer]
          PROVE  es' \in EsRecord
      <4>1. (es.counted \/ timer) \in BOOLEAN /\ es' = [es EXCEPT !.counted = es.counted \/ timer]
        BY <3>1
      <4>2. PICK c \in BOOLEAN : es' = [es EXCEPT !.counted = c]
        BY <4>1
      <4> QED
        BY <1>0, <4>2, CountedProps
    <3> QED
      BY <1>0, <2>1, <3>1
  <2> QED
    BY <1>0, <2>1, <2>2, <2>3, QuietEs
<1>5. CASE StartFailed
  BY <1>0, <1>5, QuietEs DEF StartFailed, ServiceUnchanged, workVars
<1>6. CASE QueuePending
  <2>1. /\ UNCHANGED <<scenario, destroyed, waiting, cond, eventQ, event, woken, removed, es,
                       pruneTimer>>
        /\ queues' = queueDispatcher("pending", thread[Service].d)
    BY <1>6 DEF QueuePending, ServiceUnchanged, workVars
  <2>2. thread[Service].d \in Dispatchers
    BY <1>6, ThreadsDistinct DEF QueuePending, Queueing, HelpersHave
  <2>3. queues' \in [QueueNames -> Seq(Dispatchers)] /\ Distinct(queues')
    BY <1>0, <2>1, <2>2, QueueProps DEF QueueNames
  <2> QED
    BY <1>0, <2>1, <2>3, QuietData
<1>7. CASE CheckCount
  <2>1. /\ UNCHANGED <<scenario, queues, destroyed, waiting, cond, eventQ, woken, pruneTimer, removed>>
        /\ (TimeRead(FALSE) /\ event' = Forward(event)) \/ UNCHANGED <<es, event>>
    BY <1>7 DEF CheckCount, dispVars, workVars
  <2>2. es' \in EsRecord
    BY <1>0, <2>1, TimeReadProps
  <2> QED
    BY <1>0, <2>1, <2>2, QuietEs
<1>8. CASE getIdleTicks
  <2>1. /\ UNCHANGED <<scenario, queues, destroyed, waiting, cond, eventQ, event, woken,
                       pruneTimer, removed>>
    BY <1>8 DEF getIdleTicks, dispVars, workVars
  <2>3. es' \in EsRecord
    BY <1>8, IdleTicksProps
  <2> QED
    BY <1>0, <2>1, <2>3, QuietEs
<1>9. CASE mprWaitForIO \/ PruneTimerDue
  <2>1. /\ UNCHANGED <<scenario, queues, destroyed, waiting, cond, eventQ, event, pruneTimer,
                       removed>>
        /\ woken' \in BOOLEAN
    BY <1>0, <1>9 DEF mprWaitForIO, PruneTimerDue, dispVars, workVars
  <2>2. es' \in EsRecord
    BY <1>9, WaitOverProps
  <2> QED
    BY <1>0, <2>1, <2>2, QuietEs
<1>10. CASE pruneWorkers \/ ReadClock
  <2>1. /\ UNCHANGED <<scenario, queues, destroyed, waiting, cond, eventQ, woken, pruneTimer,
                       removed>>
        /\ event' = Forward(event)
        /\ \E counts \in BOOLEAN : TimeRead(counts)
    BY <1>10 DEF pruneWorkers, ReadClock, dispVars, workVars
  <2>2. es' \in EsRecord
    BY <1>0, <2>1, TimeReadProps
  <2> QED
    BY <1>0, <2>1, <2>2, QuietEs
<1> QED
  BY <1>1, <1>2, <1>3, <1>4, <1>5, <1>6, <1>7, <1>8, <1>9, <1>10 DEF ServiceLoop

LEMMA AppTypes ==
    ASSUME Queueing, AppLoop
    PROVE  DataTypes' /\ QueuesDistinct'
<1>0. /\ queues \in [QueueNames -> Seq(Dispatchers)] /\ Distinct(queues)
      /\ waiting \subseteq Dispatchers /\ cond \subseteq Dispatchers
      /\ es \in EsRecord /\ woken \in BOOLEAN /\ pruneTimer \in BOOLEAN
  BY QueueingFacts
<1>1. ASSUME NEW d \in Dispatchers, mprWaitForEvent(d) PROVE DataTypes' /\ QueuesDistinct'
  BY <1>0, <1>1, QuietEs DEF mprWaitForEvent, dispVars, workVars
<1>2. CASE AppLooked
  <2>1. /\ UNCHANGED <<scenario, queues, destroyed, cond, eventQ, woken, pruneTimer, removed>>
        /\ \/ UNCHANGED <<event, es, waiting>>
           \/ /\ TimeRead(FALSE) /\ event' = Forward(event)
              /\ waiting' = waiting \cup {thread[App].d}
    BY <1>2 DEF AppLooked, workVars
  <2>2. thread[App].d \in Dispatchers
    BY <1>2 DEF AppLooked, Queueing, Ownership, AppOwns, AppPlaces
  <2>3. es' \in EsRecord /\ waiting' \subseteq Dispatchers
    BY <1>0, <2>1, <2>2, TimeReadProps
  <2> QED
    BY <1>0, <2>1, <2>3, QuietData
<1>3. CASE AppTried
  BY <1>0, <1>3, QuietEs DEF AppTried, dispVars, workVars
<1>4. CASE CondReturns
  <2>1. /\ UNCHANGED <<scenario, queues, destroyed, waiting, eventQ, woken, pruneTimer, removed>>
        /\ cond' = cond \ {thread[App].d}
        /\ TimeRead(FALSE) /\ event' = Forward(event)
    BY <1>4 DEF CondReturns, workVars
  <2>2. es' \in EsRecord /\ cond' \subseteq Dispatchers
    BY <1>0, <2>1, TimeReadProps
  <2> QED
    BY <1>0, <2>1, <2>2, QuietData
<1>5. CASE WaitReturns
  BY <1>0, <1>5, QuietData DEF WaitReturns, workVars
<1> QED
  BY <1>1, <1>2, <1>3, <1>4, <1>5 DEF AppLoop

LEMMA QuietQueueing ==
    ASSUME Queueing, Quiet PROVE Keeps
<1>1. Ownership
  BY DEF Queueing
<1>2. EventsHome' /\ EventsSorted' /\ InHand'
  BY <1>1, QuietEffect, QuietKeeps
<1>3. DataTypes' /\ QueuesDistinct'
  BY HelperTypes, WorkerTypes, ServiceTypes, AppTypes DEF Quiet
<1> QED
  BY <1>2, <1>3 DEF Keeps

LEMMA TickProps ==
    ASSUME Queueing, Tick
    PROVE  /\ es' \in EsRecord
           /\ es'.willAwake = es.willAwake /\ es'.waiting = es.waiting /\ es'.late = es.late
           /\ es'.lag = IF es.lag < MaxPeriod THEN es.lag + 1 ELSE es.lag
           /\ es'.sleep = IF es.sleep \in 1..MaxPeriod THEN es.sleep - 1 ELSE es.sleep
<1> DEFINE lag == IF es.lag < MaxPeriod THEN es.lag + 1 ELSE es.lag
           sleep == IF es.sleep \in 1..MaxPeriod THEN es.sleep - 1 ELSE es.sleep
<1>1. es' = [es EXCEPT !.lag = lag, !.sleep = sleep] /\ es \in EsRecord
  BY TypeFacts DEF Tick, Queueing
<1>2. lag \in 0..MaxPeriod /\ sleep \in 0..Never
  BY <1>1, PeriodAssumed DEF EsRecord
<1> HIDE DEF lag, sleep
<1>3. es' \in EsRecord
  BY <1>1, <1>2 DEF EsRecord
<1>4. /\ es'.willAwake = es.willAwake /\ es'.waiting = es.waiting /\ es'.late = es.late
      /\ es'.lag = lag /\ es'.sleep = sleep
  BY <1>1 DEF EsRecord
<1> QED
  BY <1>3, <1>4 DEF lag, sleep

LEMMA TickKeeps ==
    ASSUME Queueing, Tick PROVE Keeps
<1>0. DataTypes /\ InHand /\ QueuesDistinct
  BY TypeFacts, TypeParts DEF Queueing
<1>1. /\ UNCHANGED <<scenario, queues, destroyed, waiting, cond, eventQ, event, woken, thread,
                     pruneTimer, removed>>
      /\ es' \in EsRecord
  BY TickProps DEF Tick, dispVars, workVars
<1>2. EventsHome' /\ EventsSorted'
  BY <1>1, HomesUnchanged
<1>3. InHand'
  BY <1>0, <1>1 DEF InHand, Running
<1>4. DataTypes' /\ QueuesDistinct'
  BY <1>0, <1>1 DEF DataTypes, QueuesDistinct
<1> QED
  BY <1>2, <1>3, <1>4 DEF Keeps

LEMMA NullKeeps ==
    ASSUME Queueing, NEW e \in Events, DispatcherIsNull(e) PROVE Keeps
<1>0. DataTypes /\ InHand /\ QueuesDistinct
  BY TypeFacts, TypeParts DEF Queueing
<1>1. /\ UNCHANGED <<scenario, queues, destroyed, waiting, cond, eventQ, event, woken, thread,
                     pruneTimer, removed>>
      /\ es' = [es EXCEPT !.crashed = TRUE]
  BY DEF DispatcherIsNull, dispVars, workVars
<1>a. es' \in EsRecord
  BY <1>0, <1>1 DEF DataTypes, EsRecord
<1>2. EventsHome' /\ EventsSorted'
  BY <1>1, HomesUnchanged
<1>3. InHand'
  BY <1>0, <1>1 DEF InHand, Running
<1>4. DataTypes' /\ QueuesDistinct'
  BY <1>0, <1>1, <1>a DEF DataTypes, QueuesDistinct
<1> QED
  BY <1>2, <1>3, <1>4 DEF Keeps

-----------------------------------------------------------------------------
(***************************************************************************)
(* All steps keep the invariant.                                           *)
(***************************************************************************)

LEMMA HelpersMove ==
    ASSUME HelpersHave, NEW t \in Threads, \A u \in Threads : u # t => thread'[u] = thread[u],
           thread'[t].pc \in {"pend", "dequeue", "schedule"} => thread'[t].d \in Dispatchers
    PROVE  HelpersHave'
BY DEF HelpersHave

LEMMA HelpersGo ==
    ASSUME HelpersHave, OwnershipTypes, NEW t \in Threads,
           \/ \E pc : Goes(t, pc) /\ pc \notin {"pend", "dequeue", "schedule"}
           \/ Leaves(t)
           \/ \E d, back : Enters(t, d, back)
    PROVE  HelpersHave'
<1>1. ASSUME NEW pc, Goes(t, pc), pc \notin {"pend", "dequeue", "schedule"} PROVE HelpersHave'
  BY <1>1, Going, HelpersMove
<1>2. CASE Leaves(t)
  BY <1>2, Leaving, HelpersMove
<1>3. ASSUME NEW d, NEW back, Enters(t, d, back) PROVE HelpersHave'
  BY <1>3, Entering, HelpersMove
<1> QED
  BY <1>1, <1>2, <1>3

LEMMA HelpersDispatch ==
    ASSUME Ownership, HelpersHave, NEW t \in Threads, dispatchEvents(t) \/ HelperEnds(t)
    PROVE  HelpersHave'
<1>0. OwnershipTypes /\ thread[t].back \in Callers
  BY DEF Ownership, OwnershipTypes, ThreadRecord
<1>1. CASE mprGetNextEvent(t)
  <2>1. CASE Goes(t, thread[t].back)
    BY <1>0, <2>1, HelpersGo DEF Callers
  <2>2. CASE ~Goes(t, thread[t].back)
    <3>1. PICK e \in Events : thread' = [thread EXCEPT ![t].pc = "proc", ![t].e = e]
      BY <1>1, <2>2 DEF mprGetNextEvent
    <3>3. (\A u \in Threads : u # t => thread'[u] = thread[u]) /\ thread'[t].pc = "proc"
      BY <1>0, <3>1, TakingUp
    <3> QED
      BY <3>3, HelpersMove
  <2> QED
    BY <2>1, <2>2
<1>2. CASE ProcReturns(t)
  BY <1>0, <1>2, HelpersGo DEF ProcReturns
<1>3. CASE EventHasRun(t) \/ Requeue(t)
  <2>1. \/ Goes(t, "requeue")
        \/ \E pc \in {"count", thread[t].back} :
              thread' = [thread EXCEPT ![t].pc = pc, ![t].e = Nobody]
    BY <1>3 DEF EventHasRun, Requeue
  <2>2. ASSUME NEW pc \in {"count", thread[t].back},
               thread' = [thread EXCEPT ![t].pc = pc, ![t].e = Nobody]
        PROVE  HelpersHave'
    BY <1>0, <2>2, PuttingDown, HelpersMove DEF Callers
  <2> QED
    BY <1>0, <2>1, <2>2, HelpersGo
<1>4. CASE Count(t)
  BY <1>0, <1>4, Counting, HelpersMove
<1>5. CASE releaseDispatcher(t)
  <2>1. thread[t].d \in Dispatchers
    BY <1>5 DEF releaseDispatcher, Ownership, RunnerOwns, Dispatching
  <2>2. CASE Goes(t, "dequeue")
    BY <1>0, <2>1, <2>2, Going, HelpersMove
  <2> QED
    BY <1>0, <1>5, <2>2, HelpersGo DEF releaseDispatcher
<1>6. CASE HelperDequeues(t)
  <2>1. thread[t].d \in Dispatchers /\ Goes(t, "schedule")
    BY <1>6 DEF HelperDequeues, HelpersHave
  <2> QED
    BY <1>0, <2>1, Going, HelpersMove
<1>7. CASE HelperSchedules(t)
  <2>1. Goes(t, "wake") \/ Leaves(t)
    BY <1>7 DEF HelperSchedules
  <2> QED
    BY <1>0, <2>1, HelpersGo
<1>8. CASE HelperWakes(t)
  BY <1>0, <1>8, HelpersGo DEF HelperWakes
<1> QED
  BY <1>1, <1>2, <1>3, <1>4, <1>5, <1>6, <1>7, <1>8 DEF dispatchEvents, HelperEnds

LEMMA HelpersWorker ==
    ASSUME Ownership, HelpersHave, NEW w \in Workers, workerMain(w)
    PROVE  HelpersHave'
<1>0. OwnershipTypes /\ w \in Threads
  BY ThreadsDistinct DEF Ownership
<1>1. CASE WorkerStarts(w)
  <2>1. Leaves(w) \/ \E d, back : Enters(w, d, back)
    BY <1>1 DEF WorkerStarts, dispatchEventsHelper
  <2> QED
    BY <1>0, <2>1, HelpersGo
<1>2. CASE WorkerLeaves(w)
  BY <1>0, <1>2, HelpersGo DEF WorkerLeaves
<1>3. CASE mprWakePendingDispatchers(w)
  BY <1>0, <1>3, HelpersGo DEF mprWakePendingDispatchers
<1>4. CASE WakePending(w)
  BY <1>0, <1>4, HelpersGo DEF WakePending
<1>5. CASE WorkerExits(w)
  BY <1>5 DEF WorkerExits, HelpersHave
<1> QED
  BY <1>1, <1>2, <1>3, <1>4, <1>5 DEF workerMain

LEMMA HelpersService ==
    ASSUME Ownership, HelpersHave, ServiceLoop
    PROVE  HelpersHave'
<1>0. OwnershipTypes /\ Service \in Threads
  BY ThreadsDistinct DEF Ownership
<1>s. ASSUME NEW pc \in {"claimed", "get", "check"}, NEW d,
             thread' = [thread EXCEPT ![Service].pc = pc, ![Service].d = d]
      PROVE  HelpersHave'
  <2>1. (\A u \in Threads : u # Service => thread'[u] = thread[u]) /\ thread'[Service].pc = pc
    BY <1>0, <1>s, Serving
  <2> QED
    BY <1>0, <2>1, HelpersMove
<1>1. CASE \E pc \in {"get", "check", "top", "idle", "io", "now", "prune", "failed", "start"} :
              Goes(Service, pc)
  BY <1>0, <1>1, HelpersGo
<1>2. CASE getNextReadyDispatcher
  <2>1. \/ Goes(Service, "check")
        \/ \E d : thread' = [thread EXCEPT ![Service].pc = "claimed", ![Service].d = d]
    BY <1>2 DEF getNextReadyDispatcher
  <2> QED
    BY <1>1, <1>s, <2>1
<1>3. CASE RunClaimed
  <2>1. Leaves(Service) \/ Goes(Service, "start") \/ \E d, back : Enters(Service, d, back)
    BY <1>3 DEF RunClaimed, dispatchEventsHelper
  <2> QED
    BY <1>0, <1>1, <2>1, HelpersGo
<1>4. CASE mprStartWorker
  <2>1. \/ Goes(Service, "failed")
        \/ thread' = [thread EXCEPT ![Service].pc = "get", ![Service].d = Nobody]
    BY <1>4 DEF mprStartWorker
  <2> QED
    BY <1>1, <1>s, <2>1
<1>5. CASE StartFailed
  <2>1. thread[Service].d \in Dispatchers /\ Goes(Service, "pend")
    BY <1>5 DEF StartFailed, Ownership, ServiceReserves, Claiming
  <2> QED
    BY <1>0, <2>1, Going, HelpersMove
<1>6. CASE QueuePending
  <2>1. thread' = [thread EXCEPT ![Service].pc = "check", ![Service].d = Nobody]
    BY <1>6 DEF QueuePending
  <2> QED
    BY <1>s, <2>1
<1>7. CASE mprServiceEvents
  BY <1>1, <1>7 DEF mprServiceEvents
<1>8. CASE CheckCount
  BY <1>1, <1>8 DEF CheckCount
<1>9. CASE getIdleTicks
  BY <1>1, <1>9 DEF getIdleTicks
<1>10. CASE mprWaitForIO
  BY <1>1, <1>10 DEF mprWaitForIO
<1>11. CASE PruneTimerDue
  BY <1>1, <1>11 DEF PruneTimerDue
<1>12. CASE pruneWorkers
  BY <1>1, <1>12 DEF pruneWorkers
<1>13. CASE ReadClock
  BY <1>1, <1>13 DEF ReadClock
<1> QED
  BY <1>2, <1>3, <1>4, <1>5, <1>6, <1>7, <1>8, <1>9, <1>10, <1>11, <1>12, <1>13 DEF ServiceLoop

LEMMA HelpersApp ==
    ASSUME Ownership, HelpersHave, AppLoop
    PROVE  HelpersHave'
<1>0. OwnershipTypes /\ App \in Threads
  BY ThreadsDistinct DEF Ownership
<1>1. \/ Goes(App, "app") \/ Goes(App, "cond") \/ Goes(App, "wait")
      \/ \E d, back : Enters(App, d, back)
  BY DEF AppLoop, mprWaitForEvent, AppLooked, AppTried, CondReturns, WaitReturns
<1> QED
  BY <1>0, <1>1, HelpersGo

\* The steps of Next, with the bounds of their parameters
LEMMA NextCases ==
    ASSUME TypeOK, Next
    PROVE  \/ \E e \in Events, d \in Dispatchers, period \in 0..MaxPeriod,
                 continuous \in BOOLEAN : mprCreateEvent(e, d, period, continuous)
           \/ \E e \in Events : mprRemoveEvent(e)
           \/ \E e \in Events, enable \in BOOLEAN : mprEnableContinuousEvent(e, enable)
           \/ \E t \in Threads, period \in 0..MaxPeriod : mprRescheduleEvent(t, period)
           \/ \E e \in Events : DispatcherIsNull(e)
           \/ \E d \in Dispatchers : mprDestroyDispatcher(d)
           \/ Tick
           \/ \E t \in Threads : mprGetNextEvent(t)
           \/ \E t \in Threads : ProcReturns(t) \/ EventHasRun(t)
           \/ \E t \in Threads : Requeue(t)
           \/ Quiet
<1>1. scenario.events \subseteq Events
  BY SetsAssumption, TypeFacts
<1>2. (IF "continuous" \in scenario.calls THEN BOOLEAN ELSE {FALSE}) \subseteq BOOLEAN
  OBVIOUS
<1>3. CASE Application
  BY <1>1, <1>2, <1>3 DEF Application
<1>4. CASE \E t \in Threads : dispatchEvents(t) \/ HelperEnds(t)
  BY <1>4 DEF dispatchEvents, Quiet
<1> QED
  BY <1>3, <1>4 DEF Next, Quiet

LEMMA QueueingStep == Queueing /\ [Next]_vars => Queueing'
<1> SUFFICES ASSUME Queueing, [Next]_vars PROVE Queueing'
  OBVIOUS
<1>0. TypeOK /\ Ownership /\ HelpersHave
  BY DEF Queueing
<1>1. Ownership' /\ OwnershipTypes'
  BY <1>0, OwnershipStep DEF Ownership
<1>2. CASE Next
  <2>1. Keeps
    BY <1>0, <1>2, NextCases, CreateKeeps, RemoveKeeps, EnableKeeps, RescheduleKeeps,
       NullKeeps, DestroyKeeps, TickKeeps, GetNextKeeps, HasRunKeeps, RequeueKeeps, QuietQueueing
  <2>2. HelpersHave'
    <3>1. CASE Application \/ Tick
      <4>1. UNCHANGED thread
        BY <3>1 DEF Application, Tick, mprCreateEvent, mprRemoveEvent, mprEnableContinuousEvent,
               mprRescheduleEvent, mprDestroyDispatcher, DispatcherIsNull
      <4> QED
        BY <1>0, <4>1 DEF HelpersHave
    <3> QED
      BY <1>0, <1>2, <3>1, HelpersDispatch, HelpersWorker, HelpersService, HelpersApp DEF Next
  <2>3. TypeOK'
    BY <1>1, <2>1, TypePartsNext DEF Keeps
  <2> QED
    BY <1>1, <2>1, <2>2, <2>3 DEF Keeps, Queueing
<1>3. CASE UNCHANGED vars
  <2>1. TypeOK'
    BY <1>0, <1>3 DEF TypeOK, vars
  <2>2. HelpersHave' /\ QueuesDistinct' /\ EventsHome' /\ EventsSorted'
    BY <1>3 DEF Queueing, HelpersHave, QueuesDistinct, EventsHome, EventsSorted, vars
  <2>3. InHand'
    BY <1>3 DEF Queueing, InHand, Running, vars
  <2> QED
    BY <1>1, <2>1, <2>2, <2>3 DEF Queueing
<1> QED
  BY <1>2, <1>3

\* A finite set has a sequence that holds each of its elements once
LEMMA SetToSeqProps ==
    ASSUME NEW S, IsFiniteSet(S)
    PROVE  /\ SetToSeq(S) \in Seq(S)
           /\ NoDup(SetToSeq(S))
           /\ \A x \in Range(SetToSeq(S)) : x \in S
<1> DEFINE n == Cardinality(S)
<1>1. n \in Nat /\ ExistsBijection(1..n, S)
  BY FS_CardinalityType
<1>2. \E f \in [1..n -> S] : IsInjective(f)
  BY <1>1 DEF ExistsBijection, Bijection, Injection
<1>3. SetToSeq(S) \in [1..n -> S] /\ IsInjective(SetToSeq(S))
  BY <1>2 DEF SetToSeq
<1>4. SetToSeq(S) \in Seq(S)
  BY <1>1, <1>3, SeqDef
<1> QED
  BY <1>3, <1>4 DEF IsInjective, NoDup, Range

LEMMA QueueingInit == Init => Queueing
<1> SUFFICES ASSUME Init PROVE Queueing
  OBVIOUS
<1> DEFINE started == {d \in Dispatchers : scenario.mode[d] = "started"}
<1>1. IsFiniteSet(started) /\ IsFiniteSet(Dispatchers \ started)
  BY SetsAssumption, FS_Subset
<1>2. queues = [q \in QueueNames |-> CASE q = "idle" -> SetToSeq(Dispatchers \ started)
                                       [] q = "run" -> SetToSeq(started)
                                       [] OTHER -> <<>>]
  BY DEF Init
<1> HIDE DEF started
<1>3. ASSUME NEW q \in QueueNames
      PROVE  /\ queues[q] = CASE q = "idle" -> SetToSeq(Dispatchers \ started)
                              [] q = "run" -> SetToSeq(started)
                              [] OTHER -> <<>>
             /\ queues[q] \in Seq(Dispatchers) /\ NoDup(queues[q])
             /\ \A x \in Range(queues[q]) : q \in {"idle", "run"} /\ (q = "run" <=> x \in started)
  <2>0. started \subseteq Dispatchers
    BY DEF started
  <2>1. CASE q = "idle"
    <3>1. queues[q] = SetToSeq(Dispatchers \ started)
      BY <1>2, <2>1
    <3>2. /\ SetToSeq(Dispatchers \ started) \in Seq(Dispatchers \ started)
          /\ NoDup(SetToSeq(Dispatchers \ started))
          /\ \A x \in Range(SetToSeq(Dispatchers \ started)) : x \in Dispatchers \ started
      BY <1>1, SetToSeqProps
    <3>3. SetToSeq(Dispatchers \ started) \in Seq(Dispatchers)
      BY <3>2, SeqMonotonic
    <3> QED
      BY <2>1, <3>1, <3>2, <3>3
  <2>2. CASE q = "run"
    <3>1. queues[q] = SetToSeq(started)
      BY <1>2, <2>2
    <3>2. /\ SetToSeq(started) \in Seq(started) /\ NoDup(SetToSeq(started))
          /\ \A x \in Range(SetToSeq(started)) : x \in started
      BY <1>1, SetToSeqProps
    <3>3. SetToSeq(started) \in Seq(Dispatchers)
      BY <2>0, <3>2, SeqMonotonic
    <3> QED
      BY <2>2, <3>1, <3>2, <3>3
  <2>3. CASE q \notin {"idle", "run"}
    <3>1. queues[q] = <<>>
      BY <1>2, <2>3
    <3> QED
      BY <2>3, <3>1 DEF NoDup, Range
  <2> QED
    BY <2>1, <2>2, <2>3
<1>4. Ownership /\ OwnershipTypes
  BY OwnershipInit DEF Ownership
<1>5. QueuesDistinct
  <2>1. \A q \in QueueNames : NoDup(queues[q])
    BY <1>3
  <2>2. ASSUME NEW q \in QueueNames, NEW r \in QueueNames, NEW d \in Dispatchers,
               d \in Range(queues[q]), d \in Range(queues[r])
        PROVE  q = r
    <3>1. /\ q \in {"idle", "run"} /\ (q = "run" <=> d \in started)
          /\ r \in {"idle", "run"} /\ (r = "run" <=> d \in started)
      BY <1>3, <2>2
    <3> QED
      BY <3>1
  <2> QED
    BY <2>1, <2>2 DEF QueuesDistinct, Distinct
<1>6. queues \in [QueueNames -> Seq(Dispatchers)]
  BY <1>2, <1>3
<1>7. event \in [Events -> EventRecord]
  <2>1. [dispatcher |-> Nobody, created |-> FALSE, continuous |-> FALSE, period |-> 0,
         due |-> 0] \in EventRecord
    BY PeriodAssumed DEF EventRecord
  <2> QED
    BY <2>1 DEF Init
<1>8. es \in EsRecord
  BY PeriodAssumed DEF Init, EsRecord
<1>9. DataTypes
  <2>1. eventQ \in [Dispatchers -> Seq(Events)]
    BY EmptySeq DEF Init
  <2>2. removed \in [Events -> RemovedStates]
    BY DEF Init, RemovedStates
  <2>3. /\ scenario \in Scenarios /\ destroyed = {} /\ waiting = {} /\ cond = {}
        /\ woken \in BOOLEAN /\ pruneTimer \in BOOLEAN
    BY DEF Init
  <2> QED
    BY <1>6, <1>7, <1>8, <2>1, <2>2, <2>3 DEF DataTypes
<1>10. TypeOK
  BY <1>4, <1>9, TypeParts
<1>11. \A t \in Threads : thread[t].pc \in {"top", "app", "sleep"} /\ thread[t].e = Nobody
  BY ThreadsDistinct DEF Init
<1>12. HelpersHave
  BY <1>11 DEF HelpersHave
<1>13. EventsHome /\ EventsSorted
  BY DEF Init, EventsHome, EventsSorted, NoDup, SortedBy, Range
<1>14. InHand
  <2>1. \A t \in Threads : thread[t].e \notin Events /\ thread[t].pc \notin Handling
    BY <1>11, NobodyAssumed DEF Handling
  <2>2. \A e \in Events : event[e].dispatcher = Nobody /\ removed[e] = "no" /\ ~Running(e)
    BY <2>1 DEF Init, Running
  <2> QED
    BY <2>1, <2>2 DEF InHand
<1> QED
  BY <1>4, <1>5, <1>10, <1>12, <1>13, <1>14 DEF Queueing

\* The invariant holds: a dispatcher is on one queue at most, an event is queued once and
\* with its own dispatcher, in the order of due, and one thread at most has it in hand.
THEOREM QueueingInvariant == Spec => []Queueing
BY QueueingInit, QueueingStep, PTL DEF Spec

\* The types of the whole state of the event service, for any dispatchers, workers, events
\* and periods: no queue ever holds what is not a dispatcher, no delay leaves its range.
THEOREM TypeCorrect == Spec => []TypeOK
<1>1. Queueing => TypeOK
  BY DEF Queueing
<1> QED
  BY <1>1, QueueingInvariant, PTL
=============================================================================
