-------------------------- MODULE LocalCacheProofs --------------------------
(***************************************************************************)
(* Proofs about the in-memory cache (module LocalCache), for every number  *)
(* of interpreters, caches, keys and scenarios: the type invariant, the    *)
(* safety invariants, and the count by which the pruner removes keys.      *)
(***************************************************************************)
EXTENDS LocalCache, FiniteSetTheorems, TLAPS

\* A cache that was not created yet is empty, and nothing leads to it.
UnusedIsEmpty ==
    \A c \in Caches : life[c] = "none" =>
        /\ Stored(c) = {}
        /\ c # shared
        /\ \A t \in Threads : handle[t] # c

\* Whoever leads to a cache that the collector has condemned is a link that was
\* made since; shared leads to none that is freed.
CondemnedIsLinked ==
    \A c \in Caches : life[c] \in {"condemned", "freed"} =>
        /\ life[c] = "freed" => c # shared
        /\ \A t \in Threads : handle[t] = c => late[t] /\ ~owns[t]

\* What the version that interpreter t has read of key k is worth: while its
\* history is "fresh" the key still has that version, once it is "updated" the
\* key has a later one.
SeenOf(t, k) ==
    LET c == handle[t]
    IN  /\ seen[t][k].history = "fresh" =>
              /\ c # NoCache
              /\ seen[t][k].version # 0
              /\ store[c][k].version = seen[t][k].version
        /\ seen[t][k].history = "updated" =>
              /\ c # NoCache
              /\ seen[t][k].version # 0
              /\ store[c][k].version > seen[t][k].version

VersionsSeen == \A t \in Threads, k \in Keys : SeenOf(t, k)

\* Between its rounds, the pruner's excessKeys is the number of keys over the limit
\* that it has read.
ExcessExact ==
    \A c \in Caches : pruner[c].at = "round" =>
        pruner[c].excess = Cardinality(Stored(c)) - pruner[c].maxKeys

\* The inductive invariant.
CacheInv ==
    /\ TypeOK
    /\ UnusedIsEmpty
    /\ CondemnedIsLinked
    /\ TimerWhileStored
    /\ VersionsSeen
    /\ CasNeverStale
    /\ MemoryCovered
    /\ ExcessExact

-----------------------------------------------------------------------------
(* The steps, and the types of what they compute.                          *)

LEMMA UnlimitedType == Unlimited \in Nat
  BY SMT DEF Unlimited

\* Next, with the arguments of every action in their sets.
LEMMA NextCases ==
    ASSUME use \in Scenarios, now \in Nat, [Next]_vars
    PROVE  \/ \E t \in Threads, w \in BOOLEAN : localConstructor(t, w)
           \/ \E t \in Threads, c \in Caches, lims \in [keys : Nat, memory : Nat] :
                 CreateCache(t, c, lims)
           \/ \E t \in Threads : LinkShared(t) \/ Drop(t) \/ IncReturns(t) \/ ClampLimit(t)
           \/ \E t \in Threads, c \in Caches : sl_destroy(t, c) \/ RemoveAll(t, c)
           \/ \E t \in Threads, c, d \in Caches : cloneLocalCache(t, c, d)
           \/ \E t \in Threads, c \in Caches, field \in {"keys", "memory"}, limit \in Nat :
                 setLocalLimits(t, c, field, limit)
           \/ \E t \in Threads, c \in Caches, k \in Keys :
                 sl_inc(t, c, k) \/ sl_read(t, c, k) \/ sl_remove(t, c, k)
           \/ \E t \in Threads, c \in Caches, k \in Keys, date \in Nat : sl_expire(t, c, k, date)
           \/ \E t \in Threads, c \in Caches, k \in Keys, value \in Nat, mode \in use.modes,
                 ttl, date \in Nat, check \in BOOLEAN :
                 sl_write(t, c, k, value, mode, ttl, date, check)
           \/ \E c \in Caches : localPruner(c) \/ CountExcess(c) \/ PruneRound(c)
                                 \/ RoundsEnd(c) \/ PruneEnds(c)
           \/ \E c \in Caches : MarkCaches(c) \/ manageLocalCache(c)
           \/ Tick
           \/ UNCHANGED vars
<1>1. /\ use.threads \subseteq Threads /\ use.caches \subseteq Caches /\ use.keys \subseteq Keys
      /\ use.lifespans \subseteq Nat /\ use.limits \subseteq Nat /\ Values \subseteq Nat
  BY CacheAssumption
<1>2. Dates \subseteq Nat
  BY <1>1 DEF Dates
<1>3. CASE \E t \in use.threads : Create(t)
  <2>1. PICK t \in use.threads : Create(t)
    BY <1>3
  <2>2. CASE (\E w \in BOOLEAN : localConstructor(t, w)) \/ LinkShared(t)
    BY <1>1, <2>2
  <2>3. CASE \E c \in use.caches, keys, memory \in (use.limits \ {0}) \cup {Unlimited} :
                CreateCache(t, c, [keys |-> keys, memory |-> memory])
    <3>1. PICK c \in use.caches, keys, memory \in (use.limits \ {0}) \cup {Unlimited} :
             CreateCache(t, c, [keys |-> keys, memory |-> memory])
      BY <2>3
    <3>2. [keys |-> keys, memory |-> memory] \in [keys : Nat, memory : Nat]
      BY <1>1, UnlimitedType
    <3> QED
      BY <1>1, <3>1, <3>2
  <2> QED
    BY <2>1, <2>2, <2>3 DEF Create
<1>4. CASE \E t \in use.threads : IncReturns(t) \/ ClampLimit(t) \/ Drop(t)
  BY <1>1, <1>4
<1>5. CASE \E t \in use.threads, c \in use.caches : Method(t, c)
  <2>1. PICK t \in use.threads, c \in use.caches : Method(t, c)
    BY <1>5
  <2>2. CASE \E k \in use.keys : \E value \in Values, mode \in use.modes, check \in BOOLEAN,
                expiry \in (use.lifespans \X {0}) \cup ({0} \X Dates) :
                sl_write(t, c, k, value, mode, expiry[1], expiry[2], check)
    <3>1. PICK k \in use.keys, value \in Values, mode \in use.modes, check \in BOOLEAN,
                expiry \in (use.lifespans \X {0}) \cup ({0} \X Dates) :
                sl_write(t, c, k, value, mode, expiry[1], expiry[2], check)
      BY <2>2
    <3>2. expiry[1] \in Nat /\ expiry[2] \in Nat
      <4>1. CASE expiry \in use.lifespans \X {0}
        BY <1>1, <4>1
      <4>2. CASE expiry \in {0} \X Dates
        <5>1. PICK d \in Dates : expiry = <<0, d>>
          BY <4>2
        <5>2. d \in Nat
          BY <1>2
        <5> QED
          BY <5>1, <5>2
      <4> QED
        BY <4>1, <4>2
    <3> QED
      BY <1>1, <3>1, <3>2
  <2>3. CASE \E k \in use.keys :
                \/ \E date \in {0} \cup Dates : sl_expire(t, c, k, date)
                \/ sl_inc(t, c, k) \/ sl_read(t, c, k) \/ sl_remove(t, c, k)
    <3>1. PICK k \in use.keys :
                \/ \E date \in {0} \cup Dates : sl_expire(t, c, k, date)
                \/ sl_inc(t, c, k) \/ sl_read(t, c, k) \/ sl_remove(t, c, k)
      BY <2>3
    <3>2. \A date \in {0} \cup Dates : date \in Nat
      BY <1>2
    <3> QED
      BY <1>1, <3>1, <3>2
  <2>4. CASE \/ sl_destroy(t, c) \/ RemoveAll(t, c)
             \/ \E d \in use.caches : cloneLocalCache(t, c, d)
             \/ \E field \in {"keys", "memory"}, limit \in use.limits :
                   setLocalLimits(t, c, field, limit)
    BY <1>1, <2>4
  <2> QED
    BY <2>1, <2>2, <2>3, <2>4 DEF Method
<1>6. CASE \E c \in use.caches : Prune(c) \/ MarkCaches(c) \/ manageLocalCache(c)
  BY <1>1, <1>6 DEF Prune
<1>7. CASE Tick \/ UNCHANGED vars
  BY <1>7
<1> QED
  BY <1>3, <1>4, <1>5, <1>6, <1>7 DEF Next

LEMMA DigitsRange ==
    ASSUME NEW n \in Nat
    PROVE  Digits(n) \in {1, 2, 3}
  BY DEF Digits

LEMMA JoinStringType ==
    ASSUME NEW a \in Nat, NEW b \in Nat
    PROVE  JoinString(a, b) \in Nat
<1>1. CASE Digits(b) = 1
  BY <1>1 DEF JoinString
<1>2. CASE Digits(b) = 2
  BY <1>2 DEF JoinString
<1>3. CASE Digits(b) = 3
  BY <1>3 DEF JoinString
<1> QED
  BY <1>1, <1>2, <1>3, DigitsRange

LEMMA AbsentType == Absent \in Item
  BY DEF Absent, Item

LEMMA WrittenType ==
    ASSUME now \in Nat, NEW old \in Item, NEW value \in Nat, NEW ttl \in Nat, NEW date \in Nat
    PROVE  /\ Written(old, value, ttl, date) \in Item
           /\ Written(old, value, ttl, date).version = old.version + 1
           /\ Written(old, value, ttl, date).data = value
  BY DEF Written, Item

LEMMA IncrementedType ==
    ASSUME NEW old \in Item, NEW value \in Nat, NEW date \in Nat, NEW version \in Nat
    PROVE  [old EXCEPT !.data = value, !.expires = date, !.version = version] \in Item
  BY DEF Item

LEMMA IncTaskType ==
    ASSUME NEW x \in Task, x.op = "inc"
    PROVE  x \in [op : {"inc"}, key : Keys, attached : BOOLEAN, computed : Nat, result : Nat]
  BY DEF Task, Idle

LEMMA LimitTaskType ==
    ASSUME NEW x \in Task, x.op = "limit"
    PROVE  x \in [op : {"limit"}, field : {"keys", "memory"}]
  BY DEF Task, Idle

\* The records of the pruner.
LEMMA PrunerStarts ==
    ASSUME NEW p \in Pruner, NEW time \in Nat
    PROVE  /\ [p EXCEPT !.at = "limits", !.when = time] \in Pruner
           /\ [p EXCEPT !.at = "limits", !.when = time].at = "limits"
  BY DEF Pruner

LEMMA RestingType == Resting \in Pruner
  BY DEF Resting, Pruner

\* What is stored, and what expires of it, can be counted.
LEMMA KeysFinite ==
    ASSUME NEW ks \in SUBSET Keys
    PROVE  IsFiniteSet(ks) /\ Cardinality(ks) \in Nat
<1>1. IsFiniteSet(ks)
  BY CacheAssumption, FS_Subset
<1> QED
  BY <1>1, FS_CardinalityType

LEMMA AgeType ==
    ASSUME TypeOK, NEW c, NEW ks, NEW from, NEW to \in Histories, Age(c, ks, from, to)
    PROVE  seen' \in [Threads -> [Keys -> Seen]]
<1>1. ASSUME NEW t \in Threads, NEW k \in Keys
      PROVE  (IF handle[t] = c /\ k \in ks /\ seen[t][k].history \in from
              THEN [seen[t][k] EXCEPT !.history = to] ELSE seen[t][k]) \in Seen
  <2>1. seen[t][k] \in Seen
    BY DEF TypeOK
  <2> QED
    BY <2>1 DEF Seen
<1> QED
  BY <1>1 DEF Age

LEMMA UpdateType ==
    ASSUME TypeOK, NEW c \in Caches, NEW k \in Keys, NEW new \in Item, Update(c, k, new)
    PROVE  /\ store' \in [Caches -> [Keys -> Item]]
           /\ seen' \in [Threads -> [Keys -> Seen]]
<1>1. store' \in [Caches -> [Keys -> Item]]
  BY DEF Update, TypeOK
<1>2. seen' \in [Threads -> [Keys -> Seen]]
  BY AgeType DEF Update, Histories
<1> QED
  BY <1>1, <1>2

LEMMA TasksAfterUpdateType ==
    ASSUME TypeOK, NEW c, NEW k, NEW new \in Item
    PROVE  TasksAfterUpdate(c, k, new) \in [Threads -> Task]
<1>1. ASSUME NEW u \in Threads
      PROVE  (IF Pointing(u, c, {k}) THEN [task[u] EXCEPT !.result = new.data] ELSE task[u]) \in Task
  <2>1. task[u] \in Task /\ new.data \in Nat
    BY DEF TypeOK, Item
  <2>2. CASE Pointing(u, c, {k})
    <3>1. task[u] \in [op : {"inc"}, key : Keys, attached : BOOLEAN, computed : Nat, result : Nat]
      BY <2>1, <2>2, IncTaskType DEF Pointing
    <3> QED
      BY <2>1, <2>2, <3>1 DEF Task
  <2> QED
    BY <2>1, <2>2
<1> QED
  BY <1>1 DEF TasksAfterUpdate

LEMMA DiscardType ==
    ASSUME TypeOK, NEW c \in Caches, NEW ks, Discard(c, ks)
    PROVE  /\ store' \in [Caches -> [Keys -> Item]]
           /\ seen' \in [Threads -> [Keys -> Seen]]
           /\ task' \in [Threads -> Task]
<1>1. store' \in [Caches -> [Keys -> Item]]
  BY AbsentType DEF Discard, TypeOK
<1>2. seen' \in [Threads -> [Keys -> Seen]]
  BY AgeType DEF Discard, Histories
<1>3. ASSUME NEW u \in Threads
      PROVE  (IF Pointing(u, c, ks) THEN [task[u] EXCEPT !.attached = FALSE] ELSE task[u]) \in Task
  <2>1. task[u] \in Task
    BY DEF TypeOK
  <2>2. CASE Pointing(u, c, ks)
    <3>1. task[u] \in [op : {"inc"}, key : Keys, attached : BOOLEAN, computed : Nat, result : Nat]
      BY <2>1, <2>2, IncTaskType DEF Pointing
    <3> QED
      BY <2>2, <3>1 DEF Task
  <2> QED
    BY <2>1, <2>2
<1>4. task' \in [Threads -> Task]
  BY <1>3 DEF Discard
<1> QED
  BY <1>1, <1>2, <1>4

LEMMA ConnectType ==
    ASSUME TypeOK, NEW t \in Threads, NEW c \in Caches \cup {NoCache}, NEW isOwner \in BOOLEAN,
           Connect(t, c, isOwner)
    PROVE  /\ handle' \in [Threads -> Caches \cup {NoCache}]
           /\ owns' \in [Threads -> BOOLEAN] /\ late' \in [Threads -> BOOLEAN]
           /\ task' \in [Threads -> Task]
           /\ seen' \in [Threads -> [Keys -> Seen]]
<1>1. handle' \in [Threads -> Caches \cup {NoCache}] /\ owns' \in [Threads -> BOOLEAN]
  BY DEF TypeOK, Connect
<1>5. late' \in [Threads -> BOOLEAN]
  <2>1. PICK b \in BOOLEAN : b = (c # NoCache /\ life[c] = "condemned")
    OBVIOUS
  <2>2. late' = [late EXCEPT ![t] = b]
    BY <2>1 DEF Connect
  <2> QED
    BY <2>2 DEF TypeOK
<1>2. task' \in [Threads -> Task]
  BY DEF TypeOK, Connect, Task
<1>3. [k \in Keys |-> [version |-> 0, history |-> "removed"]] \in [Keys -> Seen]
  BY DEF Seen, Histories
<1>4. seen' \in [Threads -> [Keys -> Seen]]
  BY <1>3 DEF TypeOK, Connect
<1> QED
  BY <1>1, <1>2, <1>4, <1>5

LEMMA AllocateType ==
    ASSUME TypeOK, NEW t \in Threads, NEW c \in Caches,
           NEW lims \in [keys : Nat, memory : Nat], NEW used \in Int,
           Allocate(t, c, lims, used)
    PROVE  /\ handle' \in [Threads -> Caches \cup {NoCache}]
           /\ owns' \in [Threads -> BOOLEAN] /\ late' \in [Threads -> BOOLEAN]
           /\ task' \in [Threads -> Task]
           /\ seen' \in [Threads -> [Keys -> Seen]]
           /\ life' \in [Caches -> {"none", "live", "stopped", "condemned", "freed"}]
           /\ limits' \in [Caches -> [keys : Nat, memory : Nat]]
           /\ usedMem' \in [Caches -> Int]
<1>1. Connect(t, c, TRUE)
  BY DEF Allocate
<1>2. /\ life' \in [Caches -> {"none", "live", "stopped", "condemned", "freed"}]
      /\ limits' \in [Caches -> [keys : Nat, memory : Nat]]
      /\ usedMem' \in [Caches -> Int]
  BY DEF Allocate, TypeOK
<1> QED
  BY <1>1, <1>2, ConnectType

-----------------------------------------------------------------------------
(* Memory.                                                                 *)

LEMMA ItemLengthType ==
    ASSUME NEW item \in Item
    PROVE  ItemLength(item) \in 1..(KeyLength + 3)
<1>1. Digits(item.data) \in {1, 2, 3} /\ KeyLength \in Nat
  BY DigitsRange, CacheAssumption DEF Item
<1> QED
  BY <1>1 DEF ItemLength

LEMMA MemoryType ==
    ASSUME NEW s \in [Keys -> Item]
    PROVE  /\ IsFiniteSet(Bytes(s))
           /\ Memory(s) \in Nat
<1>1. IsFiniteSet(Keys \X (1..(KeyLength + 3)))
  <2>1. IsFiniteSet(Keys) /\ IsFiniteSet(1..(KeyLength + 3))
    BY FS_Interval, CacheAssumption
  <2> QED
    BY <2>1, FS_Product, Zenon
<1>2. ASSUME NEW b \in Bytes(s)
      PROVE  b \in Keys \X (1..(KeyLength + 3))
  <2>1. PICK k \in Present(s) : b \in {k} \X (1..ItemLength(s[k]))
    BY DEF Bytes
  <2>2. k \in Keys /\ ItemLength(s[k]) \in 1..(KeyLength + 3) /\ KeyLength \in Nat
    BY ItemLengthType, CacheAssumption DEF Present
  <2>3. PICK i \in 1..ItemLength(s[k]) : b = <<k, i>>
    BY <2>1
  <2>4. i \in 1..(KeyLength + 3)
    BY <2>2
  <2> QED
    BY <2>2, <2>3, <2>4
<1>3. Bytes(s) \in SUBSET (Keys \X (1..(KeyLength + 3)))
  BY <1>2
<1>4. IsFiniteSet(Bytes(s))
  BY <1>1, <1>3, FS_Subset
<1> QED
  BY <1>4, FS_CardinalityType DEF Memory

LEMMA WithoutType ==
    ASSUME NEW s \in [Keys -> Item], NEW ks
    PROVE  Without(s, ks) \in [Keys -> Item]
  BY AbsentType DEF Without

LEMMA MemoryEmpty ==
    ASSUME NEW s, Present(s) = {}
    PROVE  Memory(s) = 0
<1>1. Bytes(s) = {}
  BY DEF Bytes
<1> QED
  BY <1>1, FS_EmptySet DEF Memory

\* The memory of a store is that of one key and that of the others.
LEMMA MemorySplit ==
    ASSUME NEW s \in [Keys -> Item], NEW k \in Keys
    PROVE  Memory(s) = Memory(Without(s, {k}))
                       + (IF s[k].version # 0 THEN ItemLength(s[k]) ELSE 0)
<1> DEFINE r == Without(s, {k})
           B == {k} \X (1..ItemLength(s[k]))
<1>1. r \in [Keys -> Item] /\ \A j \in Keys : r[j] = IF j = k THEN Absent ELSE s[j]
  BY WithoutType DEF Without
<1>2. CASE s[k].version # 0
  <2>1. Present(s) = Present(r) \cup {k} /\ k \notin Present(r)
    BY <1>1, <1>2 DEF Present, Absent
  <2>2. \A j \in Present(r) : r[j] = s[j]
    BY <1>1, <2>1 DEF Present
  <2>3. Bytes(s) = Bytes(r) \cup B
    BY <2>1, <2>2 DEF Bytes
  <2>4. Bytes(r) \cap B = {}
    <3> SUFFICES ASSUME NEW b \in Bytes(r), b \in B
                 PROVE  FALSE
      OBVIOUS
    <3>1. PICK j \in Present(r) : b \in {j} \X (1..ItemLength(r[j]))
      BY DEF Bytes
    <3>2. b[1] = j
      BY <3>1
    <3>3. b[1] = k
      OBVIOUS
    <3> QED
      BY <2>1, <3>2, <3>3
  <2>5. IsFiniteSet(B) /\ Cardinality(B) = ItemLength(s[k])
    <3>1. ItemLength(s[k]) \in Nat /\ ItemLength(s[k]) >= 1
      BY ItemLengthType
    <3>2. /\ IsFiniteSet(1..ItemLength(s[k]))
          /\ Cardinality(1..ItemLength(s[k])) = ItemLength(s[k])
      BY <3>1, FS_Interval
    <3>3. IsFiniteSet({k}) /\ Cardinality({k}) = 1
      BY FS_Singleton
    <3>4. IsFiniteSet(B) /\ Cardinality(B) = Cardinality({k}) * Cardinality(1..ItemLength(s[k]))
      BY <3>2, <3>3, FS_Product, Zenon
    <3> QED
      BY <3>1, <3>2, <3>3, <3>4
  <2>6. IsFiniteSet(Bytes(r))
    BY <1>1, MemoryType
  <2>7. Cardinality(Bytes(r) \cup B)
          = Cardinality(Bytes(r)) + Cardinality(B) - Cardinality(Bytes(r) \cap B)
    BY <2>5, <2>6, FS_Union
  <2>8. Cardinality(Bytes(r) \cap B) = 0
    BY <2>4, FS_EmptySet
  <2>9. Cardinality(Bytes(r)) \in Nat /\ ItemLength(s[k]) \in Nat
    BY <1>1, MemoryType, ItemLengthType DEF Memory
  <2> QED
    BY <1>2, <2>3, <2>5, <2>7, <2>8, <2>9 DEF Memory
<1>3. CASE s[k].version = 0
  <2>1. Present(s) = Present(r) /\ \A j \in Present(r) : r[j] = s[j]
    BY <1>1, <1>3 DEF Present, Absent
  <2>2. Bytes(s) = Bytes(r)
    BY <2>1 DEF Bytes
  <2>3. Memory(r) \in Nat
    BY <1>1, MemoryType
  <2> QED
    BY <1>3, <2>2, <2>3 DEF Memory
<1> QED
  BY <1>2, <1>3

\* What changing one key does to the memory of a store.
LEMMA MemoryUpdate ==
    ASSUME NEW s \in [Keys -> Item], NEW k \in Keys, NEW new \in Item, new.version # 0
    PROVE  Memory([s EXCEPT ![k] = new])
             = Memory(s) + ItemLength(new) - (IF s[k].version # 0 THEN ItemLength(s[k]) ELSE 0)
<1> DEFINE r == [s EXCEPT ![k] = new]
<1>1. r \in [Keys -> Item] /\ r[k] = new
  OBVIOUS
<1>2. Without(r, {k}) = Without(s, {k})
  BY DEF Without
<1>3. Memory(r) = Memory(Without(r, {k})) + ItemLength(new)
  <2> HIDE DEF r
  <2> QED
    BY <1>1, MemorySplit
<1>4. Memory(s) = Memory(Without(s, {k}))
                       + (IF s[k].version # 0 THEN ItemLength(s[k]) ELSE 0)
  BY MemorySplit
<1>5. Memory(Without(s, {k})) \in Nat /\ ItemLength(new) \in Nat /\ ItemLength(s[k]) \in Nat
  BY MemoryType, WithoutType, ItemLengthType
<1> QED
  BY <1>2, <1>3, <1>4, <1>5

-----------------------------------------------------------------------------
(* Type correctness.                                                       *)

LEMMA TypeInit == Init => TypeOK
<1> SUFFICES ASSUME Init PROVE TypeOK
  OBVIOUS
<1>1. use \in Scenarios /\ now \in 1..use.maxTime
  BY CacheAssumption DEF Init
<1>2. store \in [Caches -> [Keys -> Item]]
  BY AbsentType DEF Init
<1>3. seen \in [Threads -> [Keys -> Seen]]
  BY DEF Init, Seen, Histories
<1>4. task \in [Threads -> Task] /\ cas \in Histories
  BY DEF Init, Task, Histories
<1>5. limits \in [Caches -> [keys : Nat, memory : Nat]]
  BY UnlimitedType DEF Init
<1>6. pruner \in [Caches -> Pruner]
  BY RestingType DEF Init
<1> QED
  BY <1>1, <1>2, <1>3, <1>4, <1>5, <1>6 DEF Init, TypeOK

LEMMA TypeStep == TypeOK /\ [Next]_vars => TypeOK'
<1> SUFFICES ASSUME TypeOK, [Next]_vars PROVE TypeOK'
  OBVIOUS
<1> USE DEF objects, content, ghosts
<1>0. /\ use \in Scenarios /\ now \in Nat
      /\ \A c \in Caches : /\ store[c] \in [Keys -> Item] /\ usedMem[c] \in Int
                           /\ \A k \in Keys : store[c][k] \in Item
      /\ \A t \in Threads, k \in Keys : seen[t][k] \in Seen /\ task[t] \in Task
  BY CacheAssumption DEF TypeOK
<1>1. ASSUME NEW t \in Threads, NEW w \in BOOLEAN, localConstructor(t, w)
      PROVE  TypeOK'
  <2>1. PICK new : /\ new = IF w /\ shared # NoCache THEN [op |-> "link"]
                            ELSE [op |-> "create", wantShared |-> w]
                   /\ task' = [task EXCEPT ![t] = new]
    BY <1>1 DEF localConstructor
  <2>2. new \in Task
    BY <2>1 DEF Task
  <2>3. task' \in [Threads -> Task]
    BY <2>1, <2>2 DEF TypeOK
  <2> QED
    BY <1>1, <2>3 DEF TypeOK, localConstructor
<1>2. ASSUME NEW t \in Threads, LinkShared(t)
       PROVE  TypeOK'
  <2>1. CASE Connect(t, shared, FALSE)
    <3>1. shared \in Caches \cup {NoCache}
      BY DEF TypeOK
    <3> QED
      BY <1>2, <2>1, <3>1, ConnectType DEF TypeOK, LinkShared
  <2>2. CASE /\ task' = [task EXCEPT ![t] = [op |-> "broken"]]
             /\ UNCHANGED <<handle, owns, late, seen>>
    <3>1. task' \in [Threads -> Task]
      BY <2>2 DEF TypeOK, Task
    <3> QED
      BY <1>2, <2>2, <3>1 DEF TypeOK, LinkShared
  <2> QED
    BY <1>2, <2>1, <2>2 DEF LinkShared
<1>3. ASSUME NEW t \in Threads, NEW c \in Caches, NEW lims \in [keys : Nat, memory : Nat],
             CreateCache(t, c, lims)
      PROVE  TypeOK'
  <2>1. Allocate(t, c, lims, 0)
    BY <1>3 DEF CreateCache
  <2>2. shared' \in Caches \cup {NoCache}
    BY <1>3 DEF CreateCache, TypeOK
  <2> QED
    BY <1>3, <2>1, <2>2, AllocateType DEF CreateCache, TypeOK
<1>4. ASSUME NEW t \in Threads, IncReturns(t)
      PROVE  TypeOK'
  <2>1. task' \in [Threads -> Task]
    BY <1>4 DEF IncReturns, TypeOK, Task
  <2> QED
    BY <1>4, <2>1 DEF IncReturns, TypeOK
<1>5. ASSUME NEW t \in Threads, ClampLimit(t)
      PROVE  TypeOK'
  <2>1. task' \in [Threads -> Task]
    BY <1>5 DEF ClampLimit, TypeOK, Task
  <2>2. task[t].field \in {"keys", "memory"}
    BY <1>5, LimitTaskType DEF ClampLimit, TypeOK
  <2>3. limits' \in [Caches -> [keys : Nat, memory : Nat]]
    <3> DEFINE limit == IF limits[handle[t]][task[t].field] = 0
                        THEN Unlimited ELSE limits[handle[t]][task[t].field]
    <3>1. limits \in [Caches -> [keys : Nat, memory : Nat]]
      BY DEF TypeOK
    <3>2. limits' = [limits EXCEPT ![handle[t]][task[t].field] = limit]
      BY <1>5 DEF ClampLimit
    <3>3. handle[t] \in Caches => limit \in Nat
      BY <2>2, <3>1, UnlimitedType
    <3> HIDE DEF limit
    <3>4. CASE task[t].field = "keys"
      BY <3>1, <3>2, <3>3, <3>4
    <3>5. CASE task[t].field = "memory"
      BY <3>1, <3>2, <3>3, <3>5
    <3> QED
      BY <2>2, <3>4, <3>5
  <2> QED
    BY <1>5, <2>1, <2>3 DEF ClampLimit, TypeOK
<1>6. ASSUME NEW t \in Threads, NEW c \in Caches, sl_destroy(t, c)
      PROVE  TypeOK'
  BY <1>6 DEF sl_destroy, TypeOK
<1>7. ASSUME NEW t \in Threads, Drop(t)
      PROVE  TypeOK'
  BY <1>7, ConnectType DEF Drop, TypeOK
<1>8. ASSUME NEW t \in Threads, NEW c \in Caches, RemoveAll(t, c)
      PROVE  TypeOK'
  BY <1>8, DiscardType DEF RemoveAll, TypeOK
<1>9. ASSUME NEW t \in Threads, NEW c \in Caches, NEW d \in Caches, cloneLocalCache(t, c, d)
      PROVE  TypeOK'
  <2>1. CASE Connect(t, c, FALSE) /\ UNCHANGED <<life, limits, usedMem>>
    BY <1>9, <2>1, ConnectType DEF cloneLocalCache, TypeOK
  <2>2. CASE Allocate(t, d, limits[c], usedMem[c])
    <3>1. limits[c] \in [keys : Nat, memory : Nat] /\ usedMem[c] \in Int
      BY DEF TypeOK
    <3> QED
      BY <1>9, <2>2, <3>1, AllocateType DEF cloneLocalCache, TypeOK
  <2> QED
    BY <1>9, <2>1, <2>2 DEF cloneLocalCache
<1>10. ASSUME NEW t \in Threads, NEW c \in Caches, NEW field \in {"keys", "memory"},
             NEW limit \in Nat, setLocalLimits(t, c, field, limit)
      PROVE  TypeOK'
  <2>1. task' \in [Threads -> Task]
    BY <1>10 DEF setLocalLimits, TypeOK, Task
  <2>2. limits' \in [Caches -> [keys : Nat, memory : Nat]]
    BY <1>10 DEF setLocalLimits, TypeOK
  <2> QED
    BY <1>10, <2>1, <2>2 DEF setLocalLimits, TypeOK
<1>11. ASSUME NEW t \in Threads, NEW c \in Caches, NEW k \in Keys, sl_inc(t, c, k)
       PROVE  TypeOK'
  <2> DEFINE old   == store[c][k]
             value == IncValue(old)
             new   == [old EXCEPT !.data = value, !.expires = now + old.lifespan, !.version = @ + 1]
             mine  == [op |-> "inc", key |-> k, attached |-> k \in Stored(c),
                       computed |-> value, result |-> value]
  <2>1. old \in Item /\ value \in Nat /\ new \in Item
    <3>1. old \in Item
      BY <1>0
    <3>2. value \in Nat /\ now + old.lifespan \in Nat /\ old.version + 1 \in Nat
      BY <1>0, <3>1 DEF IncValue, Item
    <3> QED
      BY <3>1, <3>2, IncrementedType
  <2>2. mine \in Task
    BY <2>1 DEF Task
  <2>3. Digits(old.data) \in Int /\ Digits(value) \in Int
    BY <2>1, DigitsRange DEF Item
  <2>4. CASE /\ Update(c, k, new)
             /\ usedMem' = [usedMem EXCEPT ![c] = @ - Digits(old.data) + Digits(value)]
             /\ task' = [TasksAfterUpdate(c, k, new) EXCEPT ![t] = mine]
    <3>1. usedMem' \in [Caches -> Int]
      BY <2>3, <2>4 DEF TypeOK
    <3>2. TasksAfterUpdate(c, k, new) \in [Threads -> Task]
      BY <2>1, TasksAfterUpdateType
    <3>3. task' \in [Threads -> Task]
      BY <2>2, <2>4, <3>2
    <3>4. store' \in [Caches -> [Keys -> Item]] /\ seen' \in [Threads -> [Keys -> Seen]]
      BY <2>1, <2>4, UpdateType
    <3> QED
      BY <1>11, <3>1, <3>3, <3>4 DEF sl_inc, TypeOK
  <2>5. CASE /\ usedMem' = [usedMem EXCEPT ![c] = @ + Digits(value)]
             /\ task' = [task EXCEPT ![t] = mine]
             /\ UNCHANGED <<store, seen>>
    <3>1. usedMem' \in [Caches -> Int]
      BY <2>3, <2>5 DEF TypeOK
    <3>2. task' \in [Threads -> Task]
      BY <2>2, <2>5 DEF TypeOK
    <3> QED
      BY <1>11, <2>5, <3>1, <3>2 DEF sl_inc, TypeOK
  <2> QED
    BY <1>11, <2>4, <2>5 DEF sl_inc
<1>12. ASSUME NEW t \in Threads, NEW c \in Caches, NEW k \in Keys, sl_read(t, c, k)
       PROVE  TypeOK'
  <2>1. [version |-> store[c][k].version, history |-> "fresh"] \in Seen
    BY <1>0 DEF Item, Seen, Histories
  <2>2. seen' \in [Threads -> [Keys -> Seen]]
    BY <1>12, <2>1 DEF sl_read, TypeOK
  <2> QED
    BY <1>12, <2>2 DEF sl_read, TypeOK
<1>13. ASSUME NEW c \in Caches, NEW k \in Keys, removeItem(c, k)
       PROVE  /\ store' \in [Caches -> [Keys -> Item]]
              /\ seen' \in [Threads -> [Keys -> Seen]]
              /\ task' \in [Threads -> Task]
              /\ usedMem' \in [Caches -> Int]
  <2>1. ItemLength(store[c][k]) \in Int
    BY <1>0, ItemLengthType
  <2>2. usedMem' \in [Caches -> Int]
    BY <1>13, <2>1 DEF removeItem, TypeOK
  <2> QED
    BY <1>13, <2>2, DiscardType DEF removeItem
<1>14. ASSUME NEW t \in Threads, NEW c \in Caches, NEW k \in Keys, sl_remove(t, c, k)
       PROVE  TypeOK'
  BY <1>14, <1>13 DEF sl_remove, TypeOK
<1>15. ASSUME NEW t \in Threads, NEW c \in Caches, NEW k \in Keys, NEW date \in Nat,
              sl_expire(t, c, k, date)
       PROVE  TypeOK'
  <2>1. CASE removeItem(c, k)
    BY <1>15, <2>1, <1>13 DEF sl_expire, TypeOK
  <2>2. CASE /\ store' = [store EXCEPT ![c][k] = [@ EXCEPT !.lifespan = 0, !.expires = date]]
             /\ UNCHANGED <<usedMem, task, seen>>
    <3>1. [store[c][k] EXCEPT !.lifespan = 0, !.expires = date] \in Item
      BY <1>0 DEF Item
    <3>2. store' \in [Caches -> [Keys -> Item]]
      BY <2>2, <3>1 DEF TypeOK
    <3> QED
      BY <1>15, <2>2, <3>2 DEF sl_expire, TypeOK
  <2> QED
    BY <1>15, <2>1, <2>2 DEF sl_expire
<1>16. ASSUME NEW t \in Threads, NEW c \in Caches, NEW k \in Keys, NEW value \in Nat, NEW mode,
              NEW ttl \in Nat, NEW date \in Nat, NEW check \in BOOLEAN,
              sl_write(t, c, k, value, mode, ttl, date, check)
       PROVE  TypeOK'
  <2> DEFINE old    == store[c][k]
             exists == k \in Stored(c)
             result == IF ~exists \/ mode = "set" THEN value
                       ELSE IF mode = "append" THEN JoinString(old.data, value)
                       ELSE JoinString(value, old.data)
             new    == Written(old, result, ttl, date)
  <2>1. CASE /\ lock' = [lock EXCEPT ![c] = t]
             /\ UNCHANGED <<content, task, timer, life, ghosts>>
    BY <1>16, <2>1 DEF sl_write, TypeOK
  <2>2. CASE /\ Update(c, k, new)
             /\ task' = TasksAfterUpdate(c, k, new)
             /\ usedMem' = [usedMem EXCEPT ![c] =
                  @ + ItemLength(new) - IF exists THEN ItemLength(old) ELSE 0]
             /\ timer' = [timer EXCEPT ![c] = TRUE]
             /\ life' = [life EXCEPT ![c] = IF @ = "stopped" THEN "live" ELSE @]
             /\ cas' = IF check THEN seen[t][k].history ELSE "fresh"
             /\ UNCHANGED lock
    <3>1. old \in Item /\ old.data \in Nat
      BY <1>0 DEF Item
    <3>2. result \in Nat
      BY <3>1, JoinStringType
    <3>3. new \in Item
      <4> HIDE DEF result
      <4> QED
        BY <1>0, <3>1, <3>2, WrittenType
    <3> HIDE DEF new, old
    <3>4. ItemLength(new) \in Int /\ ItemLength(old) \in Int
      BY <3>1, <3>3, ItemLengthType
    <3>5. usedMem' \in [Caches -> Int]
      BY <2>2, <3>4 DEF TypeOK
    <3>6. task' \in [Threads -> Task]
      BY <2>2, <3>3, TasksAfterUpdateType
    <3>7. store' \in [Caches -> [Keys -> Item]] /\ seen' \in [Threads -> [Keys -> Seen]]
      BY <2>2, <3>3, UpdateType
    <3>8. cas' \in Histories
      BY <1>0, <2>2 DEF Seen, Histories
    <3> QED
      BY <1>16, <2>2, <3>5, <3>6, <3>7, <3>8 DEF sl_write, TypeOK
  <2> QED
    BY <1>16, <2>1, <2>2 DEF sl_write
<1>17. ASSUME NEW c \in Caches, NEW gone, RemoveItems(c, gone)
       PROVE  /\ store' \in [Caches -> [Keys -> Item]]
              /\ seen' \in [Threads -> [Keys -> Seen]]
              /\ task' \in [Threads -> Task]
              /\ usedMem' \in [Caches -> Int]
  <2>1. /\ Discard(c, gone)
        /\ usedMem' = [usedMem EXCEPT ![c] =
             @ - (Memory(store[c]) - Memory(Without(store[c], gone)))]
    BY <1>17 DEF RemoveItems
  <2>2. Memory(store[c]) \in Int /\ Memory(Without(store[c], gone)) \in Int
    BY <1>0, MemoryType, WithoutType
  <2>3. usedMem' \in [Caches -> Int]
    BY <2>1, <2>2 DEF TypeOK
  <2> QED
    BY <2>1, <2>3, DiscardType
<1>18. ASSUME NEW c \in Caches
       PROVE  /\ pruner[c] \in Pruner /\ pruner[c].when \in Nat /\ pruner[c].factor \in Nat
              /\ pruner[c].excess \in Int /\ pruner[c].maxKeys \in Nat /\ limits[c].keys \in Nat
  BY DEF TypeOK, Pruner
<1>19. ASSUME NEW c \in Caches, localPruner(c)
       PROVE  TypeOK'
  <2>1. PICK new \in Pruner : pruner' = [pruner EXCEPT ![c] = new]
    BY <1>0, <1>18, <1>19, PrunerStarts DEF localPruner
  <2>2. pruner' \in [Caches -> Pruner]
    BY <2>1 DEF TypeOK
  <2> QED
    BY <1>17, <1>19, <2>2 DEF localPruner, TypeOK
<1>20. ASSUME NEW c \in Caches, CountExcess(c)
       PROVE  TypeOK'
  <2>1. PICK where \in {"round", "end"} :
           where = IF limits[c].keys < Unlimited \/ limits[c].memory < Unlimited
                   THEN "round" ELSE "end"
    OBVIOUS
  <2>2. PICK new :
           /\ new = [at |-> where, when |-> pruner[c].when, factor |-> 1,
                     excess |-> Cardinality(Stored(c)) - limits[c].keys,
                     maxKeys |-> limits[c].keys]
           /\ pruner' = [pruner EXCEPT ![c] = new]
    BY <1>20, <2>1 DEF CountExcess
  <2>3. Stored(c) \in SUBSET Keys
    BY DEF Stored
  <2>4. Cardinality(Stored(c)) - limits[c].keys \in Int
    BY <1>18, <2>3, KeysFinite
  <2>5. new \in Pruner
    BY <1>18, <2>2, <2>4 DEF Pruner
  <2>6. pruner' \in [Caches -> Pruner]
    BY <2>2, <2>5 DEF TypeOK
  <2> QED
    BY <1>20, <2>6 DEF CountExcess, TypeOK
<1>21. ASSUME NEW c \in Caches, PruneRound(c)
       PROVE  TypeOK'
  <2>1. PICK gone : /\ gone = Expiring(store[c], pruner[c].when)
                    /\ RemoveItems(c, gone)
    BY <1>21 DEF PruneRound
  <2>2. PICK new :
           /\ new = [at |-> "round", when |-> pruner[c].when + pruner[c].factor,
                     factor |-> 4 * pruner[c].factor,
                     excess |-> pruner[c].excess - Cardinality(gone),
                     maxKeys |-> pruner[c].maxKeys]
           /\ pruner' = [pruner EXCEPT ![c] = new]
    BY <1>21, <2>1 DEF PruneRound
  <2>3. gone \in SUBSET Keys
    BY <2>1 DEF Expiring, Present
  <2>4. Cardinality(gone) \in Nat
    BY <2>3, KeysFinite
  <2>5. /\ pruner[c].when + pruner[c].factor \in Nat /\ 4 * pruner[c].factor \in Nat
        /\ pruner[c].excess - Cardinality(gone) \in Int
    BY <1>18, <2>4
  <2>6. new \in Pruner
    BY <1>18, <2>2, <2>5 DEF Pruner
  <2>7. pruner' \in [Caches -> Pruner]
    BY <2>2, <2>6 DEF TypeOK
  <2> QED
    BY <1>17, <1>21, <2>1, <2>7 DEF PruneRound, TypeOK
<1>22. ASSUME NEW c \in Caches, RoundsEnd(c)
       PROVE  TypeOK'
  <2>1. [pruner[c] EXCEPT !.at = "end"] \in Pruner
    BY <1>18 DEF Pruner
  <2>2. pruner' \in [Caches -> Pruner]
    BY <1>22, <2>1 DEF RoundsEnd, TypeOK
  <2> QED
    BY <1>22, <2>2 DEF RoundsEnd, TypeOK
<1>23. ASSUME NEW c \in Caches, PruneEnds(c)
       PROVE  TypeOK'
  <2>1. PICK on \in BOOLEAN : on = (timer[c] /\ Stored(c) # {})
    OBVIOUS
  <2>2. timer' \in [Caches -> BOOLEAN]
    BY <1>23, <2>1 DEF PruneEnds, TypeOK
  <2>3. pruner' \in [Caches -> Pruner]
    BY <1>23, RestingType DEF PruneEnds, TypeOK
  <2> QED
    BY <1>23, <2>2, <2>3 DEF PruneEnds, TypeOK
<1>24. ASSUME NEW c \in Caches, MarkCaches(c)
       PROVE  TypeOK'
  BY <1>24 DEF MarkCaches, TypeOK
<1>25. ASSUME NEW c \in Caches, manageLocalCache(c)
       PROVE  TypeOK'
  BY <1>25 DEF manageLocalCache, TypeOK
<1>26. ASSUME Tick
       PROVE  TypeOK'
  BY <1>0, <1>26, CacheAssumption DEF Tick, TypeOK
<1>27. ASSUME UNCHANGED vars
       PROVE  TypeOK'
  BY <1>27 DEF vars, TypeOK
<1> QED
  BY <1>0, <1>1, <1>3, <1>4, <1>5, <1>6, <1>7, <1>8, <1>9, <1>10, <1>11, <1>12, <1>14, <1>15,
     <1>16, <1>25, <1>26, <1>27, <1>2, <1>19, <1>20, <1>21, <1>22, <1>23, <1>24, NextCases

\* In every state each variable of the cache module holds a value of its type.
THEOREM Typing == Spec => []TypeOK
  BY TypeInit, TypeStep, PTL DEF Spec

-----------------------------------------------------------------------------
(* What the store is after an update and after a removal.                  *)

LEMMA UpdateStore ==
    ASSUME TypeOK, NEW c \in Caches, NEW k \in Keys, NEW new \in Item, Update(c, k, new)
    PROVE  /\ store'[c][k] = new
           /\ \A j \in Keys : j # k => store'[c][j] = store[c][j]
           /\ \A d \in Caches : d # c => store'[d] = store[d]
  BY DEF Update, TypeOK

LEMMA UpdateSeen ==
    ASSUME TypeOK, NEW c \in Caches, NEW k \in Keys, NEW new, Update(c, k, new),
           NEW u \in Threads, NEW j \in Keys
    PROVE  /\ seen'[u][j].version = seen[u][j].version
           /\ seen'[u][j].history = IF handle[u] = c /\ j = k /\ seen[u][j].history = "fresh"
                                    THEN "updated" ELSE seen[u][j].history
<1>1. seen'[u][j] = IF handle[u] = c /\ j \in {k} /\ seen[u][j].history \in {"fresh"}
                    THEN [seen[u][j] EXCEPT !.history = "updated"] ELSE seen[u][j]
  BY DEF Update, Age
<1>2. seen[u][j] \in Seen
  BY DEF TypeOK
<1> QED
  BY <1>1, <1>2 DEF Seen

LEMMA DiscardStore ==
    ASSUME TypeOK, NEW c \in Caches, NEW ks, Discard(c, ks)
    PROVE  /\ store'[c] = Without(store[c], ks)
           /\ \A j \in Keys : store'[c][j] = IF j \in ks THEN Absent ELSE store[c][j]
           /\ \A d \in Caches : d # c => store'[d] = store[d]
  BY DEF Discard, TypeOK, Without

LEMMA DiscardSeen ==
    ASSUME TypeOK, NEW c \in Caches, NEW ks, Discard(c, ks), NEW u \in Threads, NEW j \in Keys
    PROVE  /\ seen'[u][j].version = seen[u][j].version
           /\ seen'[u][j].history =
                IF handle[u] = c /\ j \in ks THEN "removed" ELSE seen[u][j].history
<1>1. seen'[u][j] = IF handle[u] = c /\ j \in ks /\ seen[u][j].history \in Histories
                    THEN [seen[u][j] EXCEPT !.history = "removed"] ELSE seen[u][j]
  BY DEF Discard, Age
<1>2. seen[u][j] \in Seen
  BY DEF TypeOK
<1> QED
  BY <1>1, <1>2 DEF Seen

LEMMA IncUpdate ==
    ASSUME TypeOK, NEW t \in Threads, NEW c \in Caches, NEW k \in Keys, sl_inc(t, c, k),
           k \in Stored(c)
    PROVE  \E new \in Item :
              /\ Update(c, k, new)
              /\ new.version = store[c][k].version + 1
              /\ usedMem' = [usedMem EXCEPT ![c] =
                   @ + ItemLength(new) - ItemLength(store[c][k])]
<1> DEFINE old   == store[c][k]
           value == IncValue(old)
           new   == [old EXCEPT !.data = value, !.expires = now + old.lifespan, !.version = @ + 1]
<1>1. old \in Item /\ now \in Nat
  BY CacheAssumption DEF TypeOK
<1>2. value \in Nat /\ now + old.lifespan \in Nat /\ old.version + 1 \in Nat /\ old.data \in Nat
  BY <1>1 DEF IncValue, Item
<1>3. new \in Item /\ new.data = value /\ new.version = old.version + 1
  <2> HIDE DEF old, value
  <2>1. new \in Item
    BY <1>1, <1>2, IncrementedType
  <2>2. new.data = value
    BY <1>1 DEF Item
  <2>3. new.version = old.version + 1
    BY <1>1 DEF Item
  <2> QED
    BY <2>1, <2>2, <2>3
<1>4. /\ Update(c, k, new)
      /\ usedMem' = [usedMem EXCEPT ![c] = @ - Digits(old.data) + Digits(value)]
  BY DEF sl_inc
<1>5. usedMem[c] - Digits(old.data) + Digits(value)
        = usedMem[c] + ItemLength(new) - ItemLength(old)
  <2> HIDE DEF old, value, new
  <2>1. usedMem[c] \in Int /\ KeyLength \in Nat
    BY CacheAssumption DEF TypeOK
  <2>2. Digits(old.data) \in {1, 2, 3} /\ Digits(value) \in {1, 2, 3}
    BY <1>2, DigitsRange
  <2> QED
    BY <1>3, <2>1, <2>2 DEF ItemLength
<1>6. usedMem' = [usedMem EXCEPT ![c] = @ + ItemLength(new) - ItemLength(old)]
  BY <1>4, <1>5
<1> HIDE DEF new
<1> QED
  BY <1>3, <1>4, <1>6

\* An inc() of a key that is not there leaves the store alone.
LEMMA IncMissing ==
    ASSUME TypeOK, NEW t \in Threads, NEW c \in Caches, NEW k \in Keys, sl_inc(t, c, k),
           k \notin Stored(c)
    PROVE  /\ UNCHANGED <<store, seen>>
           /\ \E more \in Nat : usedMem' = [usedMem EXCEPT ![c] = @ + more]
<1> DEFINE value == IncValue(store[c][k])
<1>1. value \in Nat
  BY DEF IncValue, Item, TypeOK
<1>2. Digits(value) \in Nat
  BY <1>1, DigitsRange
<1>3. usedMem' = [usedMem EXCEPT ![c] = @ + Digits(value)] /\ UNCHANGED <<store, seen>>
  BY DEF sl_inc
<1> QED
  BY <1>2, <1>3

\* Thread t has written the item new as key k of cache c.
Wrote(t, c, k, check, new) ==
    /\ Update(c, k, new)
    /\ new.version = store[c][k].version + 1
    /\ usedMem' = [usedMem EXCEPT ![c] =
         @ + ItemLength(new) - IF k \in Stored(c) THEN ItemLength(store[c][k]) ELSE 0]
    /\ timer' = [timer EXCEPT ![c] = TRUE]
    /\ life' = [life EXCEPT ![c] = IF @ = "stopped" THEN "live" ELSE @]
    /\ cas' = IF check THEN seen[t][k].history ELSE "fresh"

\* A write, or it finds the key it should add.
LEMMA WriteUpdate ==
    ASSUME TypeOK, NEW t \in Threads, NEW c \in Caches, NEW k \in Keys, NEW value \in Nat,
           NEW mode, NEW ttl \in Nat, NEW date \in Nat, NEW check \in BOOLEAN,
           sl_write(t, c, k, value, mode, ttl, date, check)
    PROVE  \/ UNCHANGED <<store, usedMem, seen, cas, timer, life>>
           \/ \E new \in Item : Wrote(t, c, k, check, new)
<1> DEFINE old    == store[c][k]
           exists == k \in Stored(c)
           result == IF ~exists \/ mode = "set" THEN value
                     ELSE IF mode = "append" THEN JoinString(old.data, value)
                     ELSE JoinString(value, old.data)
           new    == Written(old, result, ttl, date)
<1>1. CASE exists /\ mode = "add"
  BY <1>1 DEF sl_write, content, ghosts
<1>2. CASE ~(exists /\ mode = "add")
  <2>1. old \in Item /\ now \in Nat
    BY CacheAssumption DEF TypeOK
  <2>2. result \in Nat
    BY <2>1, JoinStringType DEF Item
  <2>3. new \in Item /\ new.version = old.version + 1
    <3> HIDE DEF result, old
    <3>1. new \in Item
      BY <2>1, <2>2, WrittenType
    <3>2. new.version = old.version + 1
      BY <2>1, <2>2, WrittenType
    <3> QED
      BY <3>1, <3>2
  <2>4. /\ Update(c, k, new)
        /\ usedMem' = [usedMem EXCEPT ![c] =
             @ + ItemLength(new) - IF exists THEN ItemLength(old) ELSE 0]
        /\ timer' = [timer EXCEPT ![c] = TRUE]
        /\ life' = [life EXCEPT ![c] = IF @ = "stopped" THEN "live" ELSE @]
        /\ cas' = IF check THEN seen[t][k].history ELSE "fresh"
    BY <1>2 DEF sl_write
  <2>5. Wrote(t, c, k, check, new)
    BY <2>3, <2>4 DEF Wrote
  <2> HIDE DEF new
  <2> QED
    BY <2>3, <2>5
<1> QED
  BY <1>1, <1>2

-----------------------------------------------------------------------------
(* Cache objects: what is not created yet and what is freed is out of      *)
(* reach.                                                                  *)

\* What a step can do to the objects: link a thread to a cache or to none, create a cache,
\* forget the shared one, start or stop the pruner of a cache, condemn a cache, free it.
Links(t, c) ==
    /\ c \in {shared, handle[t], NoCache} /\ (c # NoCache => life[c] # "freed")
    /\ handle' = [handle EXCEPT ![t] = c]
    /\ owns' = [owns EXCEPT ![t] = FALSE]
    /\ late' = [late EXCEPT ![t] = c # NoCache /\ life[c] = "condemned"]
    /\ UNCHANGED <<shared, life>>

Creates(t, c) ==
    /\ life[c] = "none"
    /\ handle' = [handle EXCEPT ![t] = c]
    /\ owns' = [owns EXCEPT ![t] = TRUE]
    /\ late' = [late EXCEPT ![t] = FALSE]
    /\ life' = [life EXCEPT ![c] = "live"]
    /\ shared' \in {c, shared}

Forgets == shared' = NoCache /\ UNCHANGED <<handle, owns, late, life>>

Starts(t, c) ==
    /\ handle[t] = c
    /\ life' = [life EXCEPT ![c] = IF @ = "stopped" THEN "live" ELSE @]
    /\ UNCHANGED <<shared, handle, owns, late>>

Stops(t, c) ==
    /\ handle[t] = c /\ owns[t]
    /\ life' = [life EXCEPT ![c] = "stopped"]
    /\ UNCHANGED <<shared, handle, owns, late>>

Condemns(c) ==
    /\ \A t \in Threads : handle[t] # c
    /\ life[c] \in {"live", "stopped"}
    /\ life' = [life EXCEPT ![c] = "condemned"]
    /\ UNCHANGED <<shared, handle, owns, late>>

Frees(c) ==
    /\ life[c] = "condemned"
    /\ life' = [life EXCEPT ![c] = "freed"]
    /\ shared' = IF c = shared THEN NoCache ELSE shared
    /\ UNCHANGED <<handle, owns, late>>

LEMMA ObjectSteps ==
    ASSUME TypeOK, CondemnedIsLinked, [Next]_vars
    PROVE  \/ UNCHANGED objects
           \/ \E t \in Threads, c \in Caches \cup {NoCache} : Links(t, c)
           \/ \E t \in Threads, c \in Caches : Creates(t, c) \/ Starts(t, c) \/ Stops(t, c)
           \/ Forgets
           \/ \E c \in Caches : Condemns(c) \/ Frees(c)
<1> USE DEF objects, content, ghosts
<1>0. use \in Scenarios /\ now \in Nat
  BY CacheAssumption DEF TypeOK
<1>1. ASSUME NEW t \in Threads, LinkShared(t)
      PROVE  UNCHANGED objects \/ Links(t, shared)
  <2>1. shared # NoCache => life[shared] # "freed"
    BY DEF CondemnedIsLinked, TypeOK
  <2> QED
    BY <1>1, <2>1 DEF LinkShared, Connect, Links
<1>2. ASSUME NEW t \in Threads, NEW c \in Caches, NEW lims, CreateCache(t, c, lims)
      PROVE  Creates(t, c)
  <2>1. life[c] = "none"
    BY <1>2 DEF CreateCache, Allocate
  <2> QED
    BY <1>2, <2>1 DEF CreateCache, Allocate, Connect, Creates
<1>3. ASSUME NEW t \in Threads, NEW c \in Caches, sl_destroy(t, c)
      PROVE  Forgets \/ Stops(t, c)
  BY <1>3 DEF sl_destroy, Calls, Forgets, Stops
<1>4. ASSUME NEW t \in Threads, Drop(t)
      PROVE  Links(t, NoCache)
  BY <1>4 DEF Drop, Connect, Links
<1>5. ASSUME NEW t \in Threads, NEW c \in Caches, NEW d \in Caches, cloneLocalCache(t, c, d)
      PROVE  Links(t, c) \/ Creates(t, d)
  <2>1. handle[t] = c /\ life[c] # "freed" /\ UNCHANGED shared
    BY <1>5 DEF cloneLocalCache, Calls
  <2>2. CASE Connect(t, c, FALSE) /\ UNCHANGED <<life, limits, usedMem>>
    BY <2>1, <2>2 DEF Connect, Links
  <2>3. CASE Allocate(t, d, limits[c], usedMem[c])
    <3>1. life[d] = "none"
      BY <2>3 DEF Allocate
    <3> QED
      BY <2>1, <2>3, <3>1 DEF Allocate, Connect, Creates
  <2> QED
    BY <1>5, <2>2, <2>3 DEF cloneLocalCache
<1>6. ASSUME NEW t \in Threads, NEW c \in Caches, NEW k \in Keys, NEW value \in Nat, NEW mode,
             NEW ttl \in Nat, NEW date \in Nat, NEW check \in BOOLEAN,
             sl_write(t, c, k, value, mode, ttl, date, check)
      PROVE  UNCHANGED objects \/ Starts(t, c)
  <2>1. handle[t] = c /\ UNCHANGED <<shared, handle, owns, late>>
    BY <1>6 DEF sl_write, Locks, Calls
  <2>2. UNCHANGED life \/ \E new \in Item : Wrote(t, c, k, check, new)
    BY <1>6, WriteUpdate
  <2> QED
    BY <2>1, <2>2 DEF Wrote, Starts
<1>7. ASSUME NEW c \in Caches, MarkCaches(c) \/ manageLocalCache(c)
      PROVE  Condemns(c) \/ Frees(c)
  BY <1>7 DEF MarkCaches, manageLocalCache, Condemns, Frees
<1>8. ASSUME NEW t \in Threads,
             \/ \E w \in BOOLEAN : localConstructor(t, w)
             \/ IncReturns(t) \/ ClampLimit(t)
             \/ \E c \in Caches : RemoveAll(t, c)
             \/ \E c \in Caches, field \in {"keys", "memory"}, limit \in Nat :
                 setLocalLimits(t, c, field, limit)
      PROVE  UNCHANGED objects
  BY <1>8 DEF localConstructor, IncReturns, ClampLimit, setLocalLimits, RemoveAll
<1>9. ASSUME NEW t \in Threads, NEW c \in Caches, NEW k \in Keys,
             \/ sl_inc(t, c, k) \/ sl_read(t, c, k) \/ sl_remove(t, c, k)
             \/ \E date \in Nat : sl_expire(t, c, k, date)
      PROVE  UNCHANGED objects
  BY <1>9 DEF sl_inc, sl_read, sl_remove, sl_expire
<1>10. ASSUME \/ \E c \in Caches : localPruner(c) \/ CountExcess(c) \/ PruneRound(c)
                                    \/ RoundsEnd(c) \/ PruneEnds(c)
              \/ Tick
              \/ UNCHANGED vars
       PROVE  UNCHANGED objects
  BY <1>10 DEF localPruner, CountExcess, PruneRound, RoundsEnd, PruneEnds, Tick, vars
<1>11. shared \in Caches \cup {NoCache} /\ NoCache \in Caches \cup {NoCache}
  BY DEF TypeOK
<1> HIDE DEF objects
<1> QED
  BY <1>0, <1>1, <1>2, <1>3, <1>4, <1>5, <1>6, <1>7, <1>8, <1>9, <1>10, <1>11, NextCases

\* Keys enter the store of a cache, and its pruner starts, only by a write to it.
LEMMA StoreSteps ==
    ASSUME TypeOK, [Next]_vars, NEW d \in Caches
    PROVE  \/ /\ Stored(d)' \subseteq Stored(d)
              /\ timer'[d] = timer[d] \/ Stored(d)' = {} \/ life'[d] = "stopped"
              /\ life'[d] = "live" => life[d] \in {"live", "none"}
           \/ (\E t \in Threads : handle[t] = d) /\ timer'[d]
<1> USE DEF objects, content, ghosts
<1>0. use \in Scenarios /\ now \in Nat
  BY CacheAssumption DEF TypeOK
<1>a. ASSUME NEW c \in Caches, NEW ks, Discard(c, ks)
      PROVE  Stored(d)' \subseteq Stored(d) /\ Stored(c)' = Stored(c) \ ks
  <2>1. \A j \in Keys : store'[c][j] = IF j \in ks THEN Absent ELSE store[c][j]
    BY <1>a, DiscardStore
  <2>2. d # c => store'[d] = store[d]
    BY <1>a, DiscardStore
  <2> QED
    BY <2>1, <2>2 DEF Stored, Absent
<1>b. ASSUME NEW c \in Caches, NEW k \in Stored(c), NEW new \in Item, Update(c, k, new)
      PROVE  Stored(d)' \subseteq Stored(d)
  <2>1. k \in Keys /\ k \in Stored(c)
    BY DEF Stored
  <2>2. \A j \in Keys : j # k \/ d # c => store'[d][j] = store[d][j]
    BY <1>b, <2>1, UpdateStore
  <2> QED
    BY <2>1, <2>2 DEF Stored
<1>c. ASSUME UNCHANGED <<store, timer>>
      PROVE  Stored(d)' = Stored(d) /\ timer'[d] = timer[d]
  BY <1>c DEF Stored
<1> DEFINE Kept  == life'[d] = "live" => life[d] \in {"live", "none"}
           Still == /\ Stored(d)' \subseteq Stored(d)
                    /\ timer'[d] = timer[d] \/ Stored(d)' = {} \/ life'[d] = "stopped"
                    /\ Kept
           Quiet ==
             \/ \E t \in Threads, w \in BOOLEAN : localConstructor(t, w)
             \/ \E t \in Threads, c \in Caches, lims \in [keys : Nat, memory : Nat] :
                 CreateCache(t, c, lims)
             \/ \E t \in Threads : LinkShared(t) \/ Drop(t) \/ IncReturns(t) \/ ClampLimit(t)
             \/ \E t \in Threads, c \in Caches, e \in Caches : cloneLocalCache(t, c, e)
             \/ \E t \in Threads, c \in Caches, field \in {"keys", "memory"}, limit \in Nat :
                 setLocalLimits(t, c, field, limit)
             \/ \E t \in Threads, c \in Caches, k \in Keys : sl_read(t, c, k)
             \/ \E c \in Caches : CountExcess(c) \/ RoundsEnd(c)
             \/ \E c \in Caches : MarkCaches(c) \/ manageLocalCache(c)
             \/ Tick
             \/ UNCHANGED vars
<1>1. ASSUME Quiet
      PROVE  UNCHANGED <<store, timer>> /\ Kept
  <2>1. UNCHANGED <<store, timer>>
    BY <1>1 DEF localConstructor, LinkShared, CreateCache, IncReturns, ClampLimit, Drop,
                cloneLocalCache, setLocalLimits, sl_read, CountExcess, RoundsEnd, MarkCaches,
                manageLocalCache, Tick, vars
  <2>2. \/ UNCHANGED life
        \/ \E c \in Caches, state \in {"live", "condemned", "freed"} :
              life' = [life EXCEPT ![c] = state] /\ (state = "live" => life[c] = "none")
    BY <1>1 DEF localConstructor, LinkShared, CreateCache, IncReturns, ClampLimit, Drop,
                cloneLocalCache, setLocalLimits, sl_read, CountExcess, RoundsEnd, MarkCaches,
                manageLocalCache, Tick, vars, Allocate
  <2>3. Kept
    BY <2>2 DEF TypeOK
  <2> QED
    BY <2>1, <2>3
<1>2. ASSUME NEW t \in Threads, NEW c \in Caches, sl_destroy(t, c)
      PROVE  Stored(d)' = Stored(d) /\ (timer'[d] = timer[d] \/ life'[d] = "stopped") /\ Kept
  BY <1>2 DEF sl_destroy, Stored, TypeOK
<1>3. ASSUME NEW t \in Threads, NEW c \in Caches, RemoveAll(t, c)
      PROVE  Stored(d)' \subseteq Stored(d) /\ timer'[d] = timer[d] /\ Kept
  BY <1>3, <1>a DEF RemoveAll, TypeOK
<1>4. ASSUME NEW t \in Threads, NEW c \in Caches, NEW k \in Keys, sl_inc(t, c, k)
      PROVE  Stored(d)' \subseteq Stored(d) /\ timer'[d] = timer[d] /\ Kept
  <2>1. timer'[d] = timer[d] /\ Kept
    BY <1>4 DEF sl_inc, TypeOK
  <2>2. CASE k \in Stored(c)
    BY <1>4, <1>b, <2>1, <2>2, IncUpdate
  <2>3. CASE k \notin Stored(c)
    BY <1>4, <2>1, <2>3, IncMissing DEF Stored
  <2> QED
    BY <2>2, <2>3
<1>5. ASSUME NEW t \in Threads, NEW c \in Caches, NEW k \in Keys, sl_remove(t, c, k)
      PROVE  Stored(d)' \subseteq Stored(d) /\ timer'[d] = timer[d] /\ Kept
  BY <1>5, <1>a DEF sl_remove, removeItem, TypeOK
<1>6. ASSUME NEW t \in Threads, NEW c \in Caches, NEW k \in Keys, NEW date \in Nat,
             sl_expire(t, c, k, date)
      PROVE  Stored(d)' \subseteq Stored(d) /\ timer'[d] = timer[d] /\ Kept
  <2>1. timer'[d] = timer[d] /\ k \in Stored(c) /\ Kept
    BY <1>6 DEF sl_expire, TypeOK
  <2>2. CASE removeItem(c, k)
    BY <1>a, <2>1, <2>2 DEF removeItem
  <2>3. CASE store' = [store EXCEPT ![c][k] = [@ EXCEPT !.lifespan = 0, !.expires = date]]
    BY <2>1, <2>3 DEF Stored, TypeOK
  <2> QED
    BY <1>6, <2>2, <2>3 DEF sl_expire
<1>7. ASSUME NEW t \in Threads, NEW c \in Caches, NEW k \in Keys, NEW value \in Nat, NEW mode,
             NEW ttl \in Nat, NEW date \in Nat, NEW check \in BOOLEAN,
             sl_write(t, c, k, value, mode, ttl, date, check)
      PROVE  \/ Stored(d)' \subseteq Stored(d) /\ timer'[d] = timer[d] /\ Kept
             \/ handle[t] = d /\ timer'[d]
  <2>1. handle[t] = c
    BY <1>7 DEF sl_write, Locks, Calls
  <2>2. CASE UNCHANGED <<store, usedMem, seen, cas, timer, life>>
    BY <1>c, <2>2 DEF TypeOK
  <2>3. CASE \E new \in Item : Wrote(t, c, k, check, new)
    <3>1. PICK new \in Item : Wrote(t, c, k, check, new)
      BY <2>3
    <3>2. CASE d = c
      BY <2>1, <3>1, <3>2 DEF TypeOK, Wrote
    <3>3. CASE d # c
      <4>1. timer'[d] = timer[d] /\ Kept
        BY <3>1, <3>3 DEF TypeOK, Wrote
      <4>2. Update(c, k, new)
        BY <3>1 DEF Wrote
      <4>3. store'[d] = store[d]
        BY <3>3, <4>2, UpdateStore
      <4> QED
        BY <4>1, <4>3 DEF Stored
    <3> QED
      BY <3>2, <3>3
  <2> QED
    BY <1>7, <2>2, <2>3, WriteUpdate
<1>8. ASSUME NEW c \in Caches, localPruner(c) \/ PruneRound(c)
      PROVE  Stored(d)' \subseteq Stored(d) /\ timer'[d] = timer[d] /\ Kept
  <2>1. PICK gone : Discard(c, gone)
    BY <1>8 DEF localPruner, PruneRound, RemoveItems
  <2>2. timer'[d] = timer[d] /\ Kept
    BY <1>8 DEF localPruner, PruneRound, TypeOK
  <2> QED
    BY <1>a, <2>1, <2>2
<1>11. ASSUME NEW c \in Caches, PruneEnds(c)
       PROVE  Stored(d)' = Stored(d) /\ (timer'[d] = timer[d] \/ Stored(d)' = {}) /\ Kept
  <2>1. Stored(d)' = Stored(d) /\ Kept
    BY <1>11 DEF PruneEnds, Stored, TypeOK
  <2>2. CASE Stored(c) = {}
    <3>1. d = c \/ timer'[d] = timer[d]
      BY <1>11 DEF PruneEnds, TypeOK
    <3> QED
      BY <2>1, <2>2, <3>1
  <2>3. CASE Stored(c) # {}
    <3>1. PICK on \in BOOLEAN : on = timer[c]
      BY DEF TypeOK
    <3>2. timer' = [timer EXCEPT ![c] = on]
      BY <1>11, <2>3, <3>1 DEF PruneEnds
    <3>3. timer'[d] = timer[d]
      BY <3>1, <3>2 DEF TypeOK
    <3> QED
      BY <2>1, <3>3
  <2> QED
    BY <2>2, <2>3
<1> HIDE DEF Kept
<1>9. Quiet => Still
  BY <1>c, <1>1
<1>10. ~Quiet => Still \/ ((\E t \in Threads : handle[t] = d) /\ timer'[d])
  <2>1. ASSUME NEW t \in Threads, NEW c \in Caches, sl_destroy(t, c) \/ RemoveAll(t, c)
        PROVE  Still
    BY <1>2, <1>3, <2>1
  <2>2. ASSUME NEW t \in Threads, NEW c \in Caches, NEW k \in Keys,
               sl_inc(t, c, k) \/ sl_remove(t, c, k)
        PROVE  Still
    BY <1>4, <1>5, <2>2
  <2>3. ASSUME NEW t \in Threads, NEW c \in Caches, NEW k \in Keys, NEW date \in Nat,
               sl_expire(t, c, k, date)
        PROVE  Still
    BY <1>6, <2>3
  <2>4. ASSUME NEW c \in Caches, localPruner(c) \/ PruneRound(c) \/ PruneEnds(c)
        PROVE  Still
    BY <1>8, <1>11, <2>4
  <2>5. ASSUME NEW t \in Threads, NEW c \in Caches, NEW k \in Keys, NEW value \in Nat, NEW mode,
               NEW ttl \in Nat, NEW date \in Nat, NEW check \in BOOLEAN,
               sl_write(t, c, k, value, mode, ttl, date, check)
        PROVE  Still \/ (handle[t] = d /\ timer'[d])
    BY <1>7, <2>5
  <2> HIDE DEF Still
  <2> QED
    BY <1>0, <2>1, <2>2, <2>3, <2>4, <2>5, NextCases
<1> QED
  BY <1>9, <1>10 DEF Kept

LEMMA ObjectsStep ==
    ASSUME TypeOK, UnusedIsEmpty, CondemnedIsLinked, [Next]_vars
    PROVE  UnusedIsEmpty' /\ CondemnedIsLinked'
<1>1. \A c \in Caches : life[c] = "none" => c # shared /\ \A t \in Threads : handle[t] # c
  BY DEF UnusedIsEmpty
<1>2. NoCache \notin Caches
  BY CacheAssumption
<1>3. \A c \in Caches : life[c] = "none" => Stored(c)' = {}
  BY StoreSteps DEF UnusedIsEmpty
<1>4. ASSUME NEW c \in Caches
      PROVE  /\ life'[c] = "none" => /\ life[c] = "none" /\ c # shared'
                                     /\ \A t \in Threads : handle'[t] # c
             /\ life'[c] = "freed" => c # shared'
             /\ life'[c] \in {"condemned", "freed"} =>
                   \A t \in Threads : handle'[t] = c => late'[t] /\ ~owns'[t]
  <2> USE DEF TypeOK, CondemnedIsLinked
  <2>1. CASE UNCHANGED objects
    BY <1>1, <2>1 DEF objects
  <2>2. CASE \E t \in Threads, d \in Caches \cup {NoCache} : Links(t, d)
    <3>1. PICK t \in Threads, d \in Caches \cup {NoCache} : Links(t, d)
      BY <2>2
    <3>2. UNCHANGED <<shared, life>>
      BY <3>1 DEF Links
    <3>3. \A u \in Threads : u # t => /\ handle'[u] = handle[u] /\ owns'[u] = owns[u]
                                      /\ late'[u] = late[u]
      BY <3>1 DEF Links
    <3>4. /\ handle'[t] = d /\ ~owns'[t]
          /\ d # NoCache => life[d] # "freed" /\ (life[d] = "condemned" => late'[t])
          /\ d = shared \/ d = handle[t] \/ d = NoCache
      BY <3>1 DEF Links
    <3> QED
      BY <1>1, <1>2, <3>2, <3>3, <3>4
  <2>3. CASE \E t \in Threads, d \in Caches : Creates(t, d)
    BY <1>1, <2>3 DEF Creates
  <2>4. CASE Forgets
    BY <1>1, <1>2, <2>4 DEF Forgets
  <2>5. CASE \E t \in Threads, d \in Caches : Starts(t, d) \/ Stops(t, d)
    BY <1>1, <2>5 DEF Starts, Stops
  <2>6. CASE \E d \in Caches : Condemns(d) \/ Frees(d)
    BY <1>1, <1>2, <2>6 DEF Condemns, Frees
  <2> QED
    BY <2>1, <2>2, <2>3, <2>4, <2>5, <2>6, ObjectSteps
<1> QED
  BY <1>3, <1>4 DEF UnusedIsEmpty, CondemnedIsLinked

LEMMA TimerStep ==
    ASSUME TypeOK, UnusedIsEmpty, TimerWhileStored, [Next]_vars
    PROVE  TimerWhileStored'
<1> SUFFICES ASSUME NEW d \in Caches, Stored(d)' # {}
             PROVE  timer'[d] \/ life'[d] # "live"
  BY DEF TimerWhileStored
<1>1. CASE /\ Stored(d)' \subseteq Stored(d)
           /\ timer'[d] = timer[d] \/ Stored(d)' = {} \/ life'[d] = "stopped"
           /\ life'[d] = "live" => life[d] \in {"live", "none"}
  <2>1. Stored(d) # {}
    BY <1>1
  <2>2. life[d] # "none" /\ (timer[d] \/ life[d] # "live")
    BY <2>1 DEF UnusedIsEmpty, TimerWhileStored
  <2> QED
    BY <1>1, <2>2
<1>2. CASE timer'[d]
  BY <1>2
<1> QED
  BY <1>1, <1>2, StoreSteps

-----------------------------------------------------------------------------
(* Versions: what an interpreter has read of a key, and the key since.     *)

LEMMA VersionTypes ==
    ASSUME TypeOK, NEW u \in Threads, NEW j \in Keys
    PROVE  /\ handle[u] \in Caches \cup {NoCache}
           /\ seen[u][j].version \in Nat /\ seen[u][j].history \in Histories
           /\ \A d \in Caches : store[d][j].version \in Nat
  BY DEF TypeOK, Seen, Item

LEMMA VersionsQuiet ==
    ASSUME TypeOK, VersionsSeen, UNCHANGED <<handle, seen>>,
           \A d \in Caches, j \in Keys : store'[d][j].version = store[d][j].version
    PROVE  VersionsSeen'
<1> SUFFICES ASSUME NEW u \in Threads, NEW j \in Keys
             PROVE  SeenOf(u, j)'
  BY DEF VersionsSeen
<1>1. SeenOf(u, j) /\ handle[u] \in Caches \cup {NoCache}
  BY VersionTypes DEF VersionsSeen
<1> QED
  BY <1>1 DEF SeenOf

LEMMA VersionsConnect ==
    ASSUME TypeOK, VersionsSeen, NEW t \in Threads, NEW c, NEW isOwner, Connect(t, c, isOwner),
           UNCHANGED store
    PROVE  VersionsSeen'
<1> SUFFICES ASSUME NEW u \in Threads, NEW j \in Keys
             PROVE  SeenOf(u, j)'
  BY DEF VersionsSeen
<1>1. SeenOf(u, j)
  BY DEF VersionsSeen
<1>2. CASE u = t
  <2>1. seen'[u][j].history = "removed"
    BY <1>2 DEF Connect, TypeOK
  <2> QED
    BY <2>1 DEF SeenOf
<1>3. CASE u # t
  <2>1. handle'[u] = handle[u] /\ seen'[u][j] = seen[u][j]
    BY <1>3 DEF Connect, TypeOK
  <2> QED
    BY <1>1, <2>1 DEF SeenOf
<1> QED
  BY <1>2, <1>3

LEMMA VersionsUpdate ==
    ASSUME TypeOK, VersionsSeen, NEW c \in Caches, NEW k \in Keys, NEW new \in Item,
           Update(c, k, new), new.version = store[c][k].version + 1, UNCHANGED handle
    PROVE  VersionsSeen'
<1> SUFFICES ASSUME NEW u \in Threads, NEW j \in Keys
             PROVE  SeenOf(u, j)'
  BY DEF VersionsSeen
<1>1. SeenOf(u, j) /\ handle'[u] = handle[u]
  BY DEF VersionsSeen
<1>2. /\ handle[u] \in Caches \cup {NoCache}
      /\ seen[u][j].version \in Nat /\ seen[u][j].history \in Histories
      /\ store[c][k].version \in Nat
  BY VersionTypes
<1>3. /\ seen'[u][j].version = seen[u][j].version
      /\ seen'[u][j].history = IF handle[u] = c /\ j = k /\ seen[u][j].history = "fresh"
                               THEN "updated" ELSE seen[u][j].history
  BY UpdateSeen
<1>4. CASE handle[u] = c /\ j = k
  <2>1. store'[c][k].version = store[c][k].version + 1
    BY UpdateStore
  <2> QED
    BY <1>1, <1>2, <1>3, <1>4, <2>1 DEF SeenOf, Histories
<1>5. CASE ~(handle[u] = c /\ j = k)
  <2>1. handle[u] \in Caches => store'[handle[u]][j] = store[handle[u]][j]
    BY <1>5, UpdateStore
  <2> QED
    BY <1>1, <1>2, <1>3, <1>5, <2>1 DEF SeenOf
<1> QED
  BY <1>4, <1>5

LEMMA VersionsDiscard ==
    ASSUME TypeOK, VersionsSeen, NEW c \in Caches, NEW ks, Discard(c, ks), UNCHANGED handle
    PROVE  VersionsSeen'
<1> SUFFICES ASSUME NEW u \in Threads, NEW j \in Keys
             PROVE  SeenOf(u, j)'
  BY DEF VersionsSeen
<1>1. SeenOf(u, j) /\ handle'[u] = handle[u] /\ handle[u] \in Caches \cup {NoCache}
  BY VersionTypes DEF VersionsSeen
<1>2. /\ seen'[u][j].version = seen[u][j].version
      /\ seen'[u][j].history =
           IF handle[u] = c /\ j \in ks THEN "removed" ELSE seen[u][j].history
  BY DiscardSeen
<1>3. CASE handle[u] = c /\ j \in ks
  BY <1>2, <1>3 DEF SeenOf
<1>4. CASE ~(handle[u] = c /\ j \in ks)
  <2>1. handle[u] \in Caches => store'[handle[u]][j] = store[handle[u]][j]
    BY <1>4, DiscardStore
  <2> QED
    BY <1>1, <1>2, <1>4, <2>1 DEF SeenOf
<1> QED
  BY <1>3, <1>4

LEMMA VersionsStep ==
    ASSUME TypeOK, VersionsSeen, CasNeverStale, [Next]_vars
    PROVE  VersionsSeen' /\ CasNeverStale'
<1> USE DEF objects, content, ghosts
<1>0. use \in Scenarios /\ now \in Nat
  BY CacheAssumption DEF TypeOK
<1> DEFINE Good == VersionsSeen' /\ CasNeverStale'
<1>a. ASSUME UNCHANGED cas
      PROVE  CasNeverStale'
  BY <1>a DEF CasNeverStale
<1>b. ASSUME UNCHANGED <<handle, seen, store, cas>>
      PROVE  Good
  BY <1>a, <1>b, VersionsQuiet
<1>c. ASSUME NEW t \in Threads, NEW c, NEW isOwner, Connect(t, c, isOwner), UNCHANGED <<store, cas>>
      PROVE  Good
  BY <1>a, <1>c, VersionsConnect
<1>d. ASSUME NEW c \in Caches, NEW ks, Discard(c, ks), UNCHANGED <<handle, cas>>
      PROVE  Good
  BY <1>a, <1>d, VersionsDiscard
<1>1. ASSUME NEW t \in Threads, LinkShared(t)
      PROVE  Good
  <2>1. CASE Connect(t, shared, FALSE)
    BY <1>1, <1>c, <2>1 DEF LinkShared
  <2>2. CASE UNCHANGED <<handle, owns, late, seen>>
    BY <1>1, <1>b, <2>2 DEF LinkShared
  <2> QED
    BY <1>1, <2>1, <2>2 DEF LinkShared
<1>2. ASSUME NEW t \in Threads, NEW c \in Caches, NEW lims, CreateCache(t, c, lims)
      PROVE  Good
  BY <1>2, <1>c DEF CreateCache, Allocate
<1>3. ASSUME NEW t \in Threads, Drop(t)
      PROVE  Good
  BY <1>3, <1>c DEF Drop
<1>4. ASSUME NEW t \in Threads, NEW c \in Caches, NEW d \in Caches, cloneLocalCache(t, c, d)
      PROVE  Good
  BY <1>4, <1>c DEF cloneLocalCache, Allocate
<1>5. ASSUME NEW t \in Threads, NEW c \in Caches, RemoveAll(t, c)
      PROVE  Good
  BY <1>5, <1>d DEF RemoveAll
<1>6. ASSUME NEW t \in Threads, NEW c \in Caches, NEW k \in Keys, sl_remove(t, c, k)
      PROVE  Good
  BY <1>6, <1>d DEF sl_remove, removeItem
<1>7. ASSUME NEW t \in Threads, NEW c \in Caches, NEW k \in Keys, NEW date \in Nat,
             sl_expire(t, c, k, date)
      PROVE  Good
  <2>1. CASE removeItem(c, k)
    BY <1>7, <1>d, <2>1 DEF sl_expire, removeItem
  <2>2. CASE /\ store' = [store EXCEPT ![c][k] = [@ EXCEPT !.lifespan = 0, !.expires = date]]
             /\ UNCHANGED <<usedMem, task, seen>>
    <3>1. ASSUME NEW d \in Caches, NEW j \in Keys
          PROVE  store'[d][j].version = store[d][j].version
      <4>1. store[c][k] \in Item
        BY DEF TypeOK
      <4>2. [store[c][k] EXCEPT !.lifespan = 0, !.expires = date].version = store[c][k].version
        BY <4>1 DEF Item
      <4>3. store'[d][j] = IF d = c /\ j = k
                           THEN [store[c][k] EXCEPT !.lifespan = 0, !.expires = date]
                           ELSE store[d][j]
        BY <2>2 DEF TypeOK
      <4> QED
        BY <4>2, <4>3
    <3> QED
      BY <1>7, <1>a, <2>2, <3>1, VersionsQuiet DEF sl_expire
  <2> QED
    BY <1>7, <2>1, <2>2 DEF sl_expire
<1>8. ASSUME NEW t \in Threads, NEW c \in Caches, NEW k \in Keys, sl_inc(t, c, k)
      PROVE  Good
  <2>1. UNCHANGED <<handle, cas>>
    BY <1>8 DEF sl_inc
  <2>2. CASE k \in Stored(c)
    <3>1. PICK new \in Item : Update(c, k, new) /\ new.version = store[c][k].version + 1
      BY <1>8, <2>2, IncUpdate
    <3> QED
      BY <1>a, <2>1, <3>1, VersionsUpdate
  <2>3. CASE k \notin Stored(c)
    <3>1. UNCHANGED <<store, seen>>
      BY <1>8, <2>3, IncMissing
    <3> QED
      BY <1>b, <2>1, <3>1
  <2> QED
    BY <2>2, <2>3
<1>9. ASSUME NEW t \in Threads, NEW c \in Caches, NEW k \in Keys, sl_read(t, c, k)
      PROVE  Good
  <2>1. /\ handle[t] = c /\ store[c][k].version # 0
        /\ seen' = [seen EXCEPT ![t][k] =
                      [version |-> store[c][k].version, history |-> "fresh"]]
        /\ UNCHANGED <<handle, store, cas>>
    BY <1>9 DEF sl_read, Locks, Calls, Stored
  <2>2. ASSUME NEW u \in Threads, NEW j \in Keys
        PROVE  SeenOf(u, j)'
    <3>1. CASE u = t /\ j = k
      <4>1. seen'[u][j] = [version |-> store[c][k].version, history |-> "fresh"]
        BY <2>1, <3>1 DEF TypeOK
      <4>2. c # NoCache
        BY CacheAssumption
      <4> QED
        BY <2>1, <3>1, <4>1, <4>2 DEF SeenOf
    <3>2. CASE ~(u = t /\ j = k)
      <4>1. seen'[u][j] = seen[u][j]
        BY <2>1, <3>2 DEF TypeOK
      <4>2. SeenOf(u, j)
        BY DEF VersionsSeen
      <4> QED
        BY <2>1, <4>1, <4>2 DEF SeenOf
    <3> QED
      BY <3>1, <3>2
  <2> QED
    BY <1>a, <2>1, <2>2 DEF VersionsSeen
<1>10. ASSUME NEW t \in Threads, NEW c \in Caches, NEW k \in Keys, NEW value \in Nat, NEW mode,
              NEW ttl \in Nat, NEW date \in Nat, NEW check \in BOOLEAN,
              sl_write(t, c, k, value, mode, ttl, date, check)
       PROVE  Good
  <2>1. /\ handle[t] = c /\ UNCHANGED handle
        /\ check => seen[t][k].version # 0
        /\ k \in Stored(c) /\ check => store[c][k].version = seen[t][k].version
    BY <1>10 DEF sl_write, Locks, Calls
  <2>2. CASE UNCHANGED <<store, usedMem, seen, cas, timer, life>>
    BY <1>b, <2>1, <2>2
  <2>3. CASE \E new \in Item : Wrote(t, c, k, check, new)
    <3>1. PICK new \in Item : Wrote(t, c, k, check, new)
      BY <2>3
    <3>2. VersionsSeen'
      BY <2>1, <3>1, VersionsUpdate DEF Wrote
    <3>3. check => seen[t][k].history # "updated"
      <4>1. SeenOf(t, k) /\ seen[t][k].version \in Nat /\ store[c][k].version \in Nat
        BY VersionTypes DEF VersionsSeen
      <4> QED
        BY <2>1, <4>1 DEF SeenOf, Stored
    <3>4. CasNeverStale'
      BY <3>1, <3>3 DEF Wrote, CasNeverStale
    <3> QED
      BY <3>2, <3>4
  <2> QED
    BY <1>10, <2>2, <2>3, WriteUpdate
<1>11. ASSUME NEW c \in Caches, localPruner(c) \/ PruneRound(c)
       PROVE  Good
  BY <1>11, <1>d DEF localPruner, PruneRound, RemoveItems
<1>12. ASSUME NEW t \in Threads,
              \/ \E w \in BOOLEAN : localConstructor(t, w)
              \/ IncReturns(t) \/ ClampLimit(t)
              \/ \E c \in Caches : sl_destroy(t, c)
              \/ \E c \in Caches, field \in {"keys", "memory"}, limit \in Nat :
                    setLocalLimits(t, c, field, limit)
       PROVE  Good
  <2>1. UNCHANGED <<handle, seen, store, cas>>
    BY <1>12 DEF localConstructor, IncReturns, ClampLimit, setLocalLimits, sl_destroy
  <2> QED
    BY <1>b, <2>1
<1>13. ASSUME \/ \E c \in Caches : CountExcess(c) \/ RoundsEnd(c) \/ PruneEnds(c)
              \/ \E c \in Caches : MarkCaches(c) \/ manageLocalCache(c)
              \/ Tick \/ UNCHANGED vars
       PROVE  Good
  <2>1. UNCHANGED <<handle, seen, store, cas>>
    BY <1>13 DEF CountExcess, RoundsEnd, PruneEnds, MarkCaches, manageLocalCache, Tick, vars
  <2> QED
    BY <1>b, <2>1
<1> HIDE DEF Good
<1>14. Good
  BY <1>0, <1>1, <1>2, <1>3, <1>4, <1>5, <1>6, <1>7, <1>8, <1>9, <1>10, <1>11, <1>12, <1>13,
     NextCases
<1> QED
  BY <1>14 DEF Good

-----------------------------------------------------------------------------
(* Memory use.                                                             *)

\* The memory use of cache c becomes used, and nothing changes in the others.
LEMMA CoveredAfter ==
    ASSUME TypeOK, MemoryCovered, NEW c \in Caches, NEW used,
           usedMem' = [usedMem EXCEPT ![c] = used],
           \A d \in Caches : d # c => store'[d] = store[d],
           used >= Memory(store'[c])
    PROVE  MemoryCovered'
<1> SUFFICES ASSUME NEW d \in Caches
             PROVE  usedMem'[d] >= Memory(store'[d])
  BY DEF MemoryCovered, Memory, Bytes, Present
<1>1. CASE d = c
  BY <1>1 DEF TypeOK
<1>2. CASE d # c
  BY <1>2 DEF TypeOK, MemoryCovered
<1> QED
  BY <1>1, <1>2

LEMMA CoveredUpdate ==
    ASSUME TypeOK, MemoryCovered, NEW c \in Caches, NEW k \in Keys, NEW new \in Item,
           Update(c, k, new), new.version # 0,
           usedMem' = [usedMem EXCEPT ![c] =
             @ + ItemLength(new) - IF k \in Stored(c) THEN ItemLength(store[c][k]) ELSE 0]
    PROVE  MemoryCovered'
<1> DEFINE old == IF k \in Stored(c) THEN ItemLength(store[c][k]) ELSE 0
<1>1. store[c] \in [Keys -> Item] /\ usedMem[c] \in Int /\ usedMem[c] >= Memory(store[c])
  BY DEF TypeOK, MemoryCovered
<1>2. store'[c] = [store[c] EXCEPT ![k] = new]
  BY DEF Update, TypeOK
<1>3. Memory(store'[c]) = Memory(store[c]) + ItemLength(new) - old
  <2>1. Memory([store[c] EXCEPT ![k] = new]) = Memory(store[c]) + ItemLength(new)
          - (IF store[c][k].version # 0 THEN ItemLength(store[c][k]) ELSE 0)
    BY <1>1, MemoryUpdate
  <2>2. k \in Stored(c) <=> store[c][k].version # 0
    BY DEF Stored
  <2> QED
    BY <1>2, <2>1, <2>2
<1>4. Memory(store[c]) \in Nat /\ ItemLength(new) \in Nat /\ old \in Nat
  BY <1>1, MemoryType, ItemLengthType
<1>5. usedMem' = [usedMem EXCEPT ![c] = usedMem[c] + ItemLength(new) - old]
  OBVIOUS
<1> HIDE DEF old
<1>6. usedMem[c] + ItemLength(new) - old >= Memory(store'[c])
  BY <1>1, <1>3, <1>4
<1>7. \A d \in Caches : d # c => store'[d] = store[d]
  BY UpdateStore
<1> QED
  BY <1>5, <1>6, <1>7, CoveredAfter

LEMMA CoveredRemove ==
    ASSUME TypeOK, MemoryCovered, NEW c \in Caches, NEW k \in Stored(c), removeItem(c, k)
    PROVE  MemoryCovered'
<1>1. store[c] \in [Keys -> Item] /\ usedMem[c] \in Int /\ usedMem[c] >= Memory(store[c])
  BY DEF TypeOK, MemoryCovered
<1>2. k \in Keys /\ store[c][k].version # 0
  BY DEF Stored
<1>3. /\ store'[c] = Without(store[c], {k})
      /\ \A d \in Caches : d # c => store'[d] = store[d]
  BY DiscardStore DEF removeItem
<1>4. Memory(store[c]) = Memory(store'[c]) + ItemLength(store[c][k])
  BY <1>1, <1>2, <1>3, MemorySplit
<1>5. Memory(store'[c]) \in Nat /\ ItemLength(store[c][k]) \in Nat
  <2>1. store'[c] \in [Keys -> Item] /\ store[c][k] \in Item
    BY <1>1, <1>2, <1>3, WithoutType
  <2> QED
    BY <2>1, MemoryType, ItemLengthType
<1>6. usedMem' = [usedMem EXCEPT ![c] = usedMem[c] - ItemLength(store[c][k])]
  BY DEF removeItem
<1>7. usedMem[c] - ItemLength(store[c][k]) >= Memory(store'[c])
  BY <1>1, <1>4, <1>5
<1> QED
  BY <1>3, <1>6, <1>7, CoveredAfter

LEMMA CoveredAllocate ==
    ASSUME TypeOK, UnusedIsEmpty, MemoryCovered, NEW t, NEW c \in Caches, NEW lims,
           NEW used \in Int, used >= 0, Allocate(t, c, lims, used), UNCHANGED store
    PROVE  MemoryCovered'
<1>1. Present(store[c]) = {}
  BY DEF UnusedIsEmpty, Allocate, Stored, Present
<1>2. Memory(store'[c]) = 0
  BY <1>1, MemoryEmpty
<1>3. usedMem' = [usedMem EXCEPT ![c] = used]
  BY DEF Allocate
<1>4. used >= Memory(store'[c])
  BY <1>2
<1> QED
  BY <1>3, <1>4, CoveredAfter

LEMMA CoveredPrune ==
    ASSUME TypeOK, MemoryCovered, NEW c \in Caches, localPruner(c) \/ PruneRound(c)
    PROVE  MemoryCovered'
<1>1. PICK gone : /\ Discard(c, gone)
                  /\ usedMem' = [usedMem EXCEPT ![c] =
                       @ - (Memory(store[c]) - Memory(Without(store[c], gone)))]
  BY DEF localPruner, PruneRound, RemoveItems
<1>2. store[c] \in [Keys -> Item] /\ usedMem[c] \in Int /\ usedMem[c] >= Memory(store[c])
  BY DEF TypeOK, MemoryCovered
<1>3. /\ store'[c] = Without(store[c], gone)
      /\ \A d \in Caches : d # c => store'[d] = store[d]
  BY <1>1, DiscardStore
<1>4. Memory(store[c]) \in Nat /\ Memory(Without(store[c], gone)) \in Nat
  BY <1>2, MemoryType, WithoutType
<1>5. usedMem[c] - (Memory(store[c]) - Memory(Without(store[c], gone))) >= Memory(store'[c])
  BY <1>2, <1>3, <1>4
<1>6. usedMem' = [usedMem EXCEPT ![c] =
                    usedMem[c] - (Memory(store[c]) - Memory(Without(store[c], gone)))]
  BY <1>1
<1> QED
  BY <1>3, <1>5, <1>6, CoveredAfter

LEMMA CoveredRemoveAll ==
    ASSUME TypeOK, MemoryCovered, NEW t, NEW c \in Caches, RemoveAll(t, c)
    PROVE  MemoryCovered'
<1>1. /\ store'[c] = Without(store[c], Keys)
      /\ \A d \in Caches : d # c => store'[d] = store[d]
  BY DiscardStore DEF RemoveAll
<1>2. Present(store'[c]) = {}
  BY <1>1 DEF Present, Without, Absent
<1>3. Memory(store'[c]) = 0
  BY <1>2, MemoryEmpty
<1>4. usedMem' = [usedMem EXCEPT ![c] = 0]
  BY DEF RemoveAll
<1>5. 0 >= Memory(store'[c])
  BY <1>3
<1> QED
  BY <1>1, <1>4, <1>5, CoveredAfter

LEMMA MemoryStep ==
    ASSUME TypeOK, UnusedIsEmpty, MemoryCovered, [Next]_vars
    PROVE  MemoryCovered'
<1> USE DEF objects, content, ghosts
<1>0. use \in Scenarios /\ now \in Nat
  BY CacheAssumption DEF TypeOK
<1>a. ASSUME UNCHANGED <<store, usedMem>>
      PROVE  MemoryCovered'
  BY <1>a DEF MemoryCovered, Memory, Bytes, Present
<1>b. \A c \in Caches : usedMem[c] \in Int /\ usedMem[c] >= 0
  <2> SUFFICES ASSUME NEW c \in Caches PROVE usedMem[c] \in Int /\ usedMem[c] >= 0
    OBVIOUS
  <2>1. /\ store[c] \in [Keys -> Item] /\ usedMem[c] \in Int
        /\ usedMem[c] >= Memory(store[c])
    BY DEF TypeOK, MemoryCovered
  <2>2. Memory(store[c]) \in Nat
    BY <2>1, MemoryType
  <2> QED
    BY <2>1, <2>2
<1>1. ASSUME NEW t \in Threads, NEW c \in Caches, NEW lims, CreateCache(t, c, lims)
      PROVE  MemoryCovered'
  <2>1. Allocate(t, c, lims, 0) /\ UNCHANGED store
    BY <1>1 DEF CreateCache
  <2> QED
    BY <2>1, CoveredAllocate
<1>2. ASSUME NEW t \in Threads, NEW c \in Caches, NEW d \in Caches, cloneLocalCache(t, c, d)
      PROVE  MemoryCovered'
  <2>1. CASE UNCHANGED <<life, limits, usedMem>>
    BY <1>2, <1>a, <2>1 DEF cloneLocalCache
  <2>2. CASE Allocate(t, d, limits[c], usedMem[c])
    <3>1. UNCHANGED store
      BY <1>2 DEF cloneLocalCache
    <3> QED
      BY <1>b, <2>2, <3>1, CoveredAllocate
  <2> QED
    BY <1>2, <2>1, <2>2 DEF cloneLocalCache
<1>3. ASSUME NEW t \in Threads, NEW c \in Caches, NEW k \in Keys, sl_remove(t, c, k)
      PROVE  MemoryCovered'
  BY <1>3, CoveredRemove DEF sl_remove
<1>4. ASSUME NEW t \in Threads, NEW c \in Caches, NEW k \in Keys, NEW date \in Nat,
             sl_expire(t, c, k, date)
      PROVE  MemoryCovered'
  <2>1. CASE removeItem(c, k)
    BY <1>4, <2>1, CoveredRemove DEF sl_expire
  <2>2. CASE /\ store' = [store EXCEPT ![c][k] = [@ EXCEPT !.lifespan = 0, !.expires = date]]
             /\ UNCHANGED <<usedMem, task, seen>>
    <3> DEFINE new == [store[c][k] EXCEPT !.lifespan = 0, !.expires = date]
    <3>1. store[c] \in [Keys -> Item] /\ store[c][k] \in Item
      BY DEF TypeOK
    <3>2. new \in Item /\ new.version = store[c][k].version /\ new.data = store[c][k].data
      BY <3>1 DEF Item
    <3>3. store[c][k].version # 0
      BY <1>4 DEF sl_expire, Stored
    <3>4. /\ store'[c] = [store[c] EXCEPT ![k] = new]
          /\ \A d \in Caches : d # c => store'[d] = store[d]
      BY <2>2 DEF TypeOK
    <3> HIDE DEF new
    <3>5. ItemLength(new) = ItemLength(store[c][k]) /\ ItemLength(new) \in Nat
      BY <3>2, ItemLengthType DEF ItemLength
    <3>6. Memory(store'[c]) = Memory(store[c])
      <4>1. Memory([store[c] EXCEPT ![k] = new])
              = Memory(store[c]) + ItemLength(new) - ItemLength(store[c][k])
        BY <3>1, <3>2, <3>3, MemoryUpdate
      <4>2. Memory(store[c]) \in Nat
        BY <3>1, MemoryType
      <4> QED
        BY <3>4, <3>5, <4>1, <4>2
    <3>7. usedMem' = [usedMem EXCEPT ![c] = usedMem[c]]
      BY <2>2 DEF TypeOK
    <3>8. usedMem[c] >= Memory(store'[c])
      BY <3>6 DEF MemoryCovered
    <3> QED
      BY <3>4, <3>7, <3>8, CoveredAfter
  <2> QED
    BY <1>4, <2>1, <2>2 DEF sl_expire
<1>5. ASSUME NEW t \in Threads, NEW c \in Caches, NEW k \in Keys, sl_inc(t, c, k)
      PROVE  MemoryCovered'
  <2>1. CASE k \in Stored(c)
    <3>1. PICK new \in Item :
              /\ Update(c, k, new)
              /\ new.version = store[c][k].version + 1
              /\ usedMem' = [usedMem EXCEPT ![c] = @ + ItemLength(new) - ItemLength(store[c][k])]
      BY <1>5, <2>1, IncUpdate
    <3>2. new.version # 0
      BY <3>1 DEF TypeOK, Item
    <3> QED
      BY <2>1, <3>1, <3>2, CoveredUpdate
  <2>2. CASE k \notin Stored(c)
    <3>1. PICK more \in Nat : UNCHANGED store /\ usedMem' = [usedMem EXCEPT ![c] = usedMem[c] + more]
      BY <1>5, <2>2, IncMissing
    <3>2. usedMem[c] + more >= Memory(store'[c])
      <4>1. store[c] \in [Keys -> Item] /\ usedMem[c] \in Int /\ usedMem[c] >= Memory(store[c])
        BY DEF TypeOK, MemoryCovered
      <4>2. Memory(store[c]) \in Nat
        BY <4>1, MemoryType
      <4> QED
        BY <3>1, <4>1, <4>2
    <3> QED
      BY <3>1, <3>2, CoveredAfter
  <2> QED
    BY <2>1, <2>2
<1>6. ASSUME NEW t \in Threads, NEW c \in Caches, NEW k \in Keys, NEW value \in Nat, NEW mode,
             NEW ttl \in Nat, NEW date \in Nat, NEW check \in BOOLEAN,
             sl_write(t, c, k, value, mode, ttl, date, check)
      PROVE  MemoryCovered'
  <2>1. CASE UNCHANGED <<store, usedMem, seen, cas, timer, life>>
    BY <1>a, <2>1
  <2>2. CASE \E new \in Item : Wrote(t, c, k, check, new)
    <3>1. PICK new \in Item : Wrote(t, c, k, check, new)
      BY <2>2
    <3>2. new.version # 0
      BY <3>1 DEF TypeOK, Item, Wrote
    <3> QED
      BY <3>1, <3>2, CoveredUpdate DEF Wrote
  <2> QED
    BY <1>6, <2>1, <2>2, WriteUpdate
<1>7. ASSUME NEW t \in Threads,
             \/ LinkShared(t) \/ Drop(t) \/ IncReturns(t) \/ ClampLimit(t)
             \/ \E w \in BOOLEAN : localConstructor(t, w)
             \/ \E c \in Caches : sl_destroy(t, c)
             \/ \E c \in Caches, k \in Keys : sl_read(t, c, k)
             \/ \E c \in Caches, field \in {"keys", "memory"}, limit \in Nat :
                   setLocalLimits(t, c, field, limit)
      PROVE  MemoryCovered'
  <2>1. UNCHANGED <<store, usedMem>>
    BY <1>7 DEF LinkShared, Drop, IncReturns, ClampLimit, localConstructor, sl_destroy, sl_read,
                setLocalLimits
  <2> QED
    BY <1>a, <2>1
<1>8. ASSUME \/ \E c \in Caches : CountExcess(c) \/ RoundsEnd(c) \/ PruneEnds(c)
             \/ \E c \in Caches : MarkCaches(c) \/ manageLocalCache(c)
             \/ Tick \/ UNCHANGED vars
      PROVE  MemoryCovered'
  <2>1. UNCHANGED <<store, usedMem>>
    BY <1>8 DEF CountExcess, RoundsEnd, PruneEnds, MarkCaches, manageLocalCache, Tick, vars
  <2> QED
    BY <1>a, <2>1
<1> QED
  BY <1>0, <1>1, <1>2, <1>3, <1>4, <1>5, <1>6, <1>7, <1>8, CoveredPrune, CoveredRemoveAll, NextCases

-----------------------------------------------------------------------------
(* The pruner has the lock from its first step to its last.                *)

\* While it runs, only a round of its own changes the store.
LEMMA HeldStore ==
    ASSUME TypeOK, [Next]_vars, NEW d \in Caches, pruner[d].at # "idle"
    PROVE  store'[d] = store[d] \/ PruneRound(d)
<1> USE DEF objects, content, ghosts
<1>0. use \in Scenarios /\ now \in Nat
  BY CacheAssumption DEF TypeOK
<1>a. ASSUME NEW c \in Caches, c # d, NEW ks, Discard(c, ks)
      PROVE  store'[d] = store[d]
  BY <1>a, DiscardStore
<1>b. ASSUME NEW c \in Caches, c # d, NEW k \in Keys, NEW new, Update(c, k, new)
      PROVE  store'[d] = store[d]
  BY <1>b DEF Update, TypeOK
<1>c. \A t, c : Locks(t, c) => c # d
  BY DEF Locks
<1>1. ASSUME NEW t \in Threads, NEW c \in Caches, NEW k \in Keys,
             \/ RemoveAll(t, c) \/ sl_remove(t, c, k)
             \/ \E date \in Nat : sl_expire(t, c, k, date)
      PROVE  store'[d] = store[d]
  <2>1. c # d
    BY <1>1, <1>c DEF RemoveAll, sl_remove, sl_expire
  <2>2. \/ \E ks : Discard(c, ks)
        \/ \E new : store' = [store EXCEPT ![c][k] = new]
    BY <1>1 DEF RemoveAll, sl_remove, sl_expire, removeItem
  <2> QED
    BY <1>a, <2>1, <2>2 DEF TypeOK
<1>2. ASSUME NEW t \in Threads, NEW c \in Caches, NEW k \in Keys, sl_inc(t, c, k)
      PROVE  store'[d] = store[d]
  <2>1. c # d
    BY <1>2, <1>c DEF sl_inc
  <2>2. UNCHANGED store \/ \E new : Update(c, k, new)
    BY <1>2, IncUpdate, IncMissing
  <2> QED
    BY <1>b, <2>1, <2>2
<1>3. ASSUME NEW t \in Threads, NEW c \in Caches, NEW k \in Keys, NEW value \in Nat, NEW mode,
             NEW ttl \in Nat, NEW date \in Nat, NEW check \in BOOLEAN,
             sl_write(t, c, k, value, mode, ttl, date, check)
      PROVE  store'[d] = store[d]
  <2>1. c # d
    BY <1>3, <1>c DEF sl_write
  <2>2. UNCHANGED store \/ \E new \in Item : Wrote(t, c, k, check, new)
    BY <1>3, WriteUpdate
  <2>3. UNCHANGED store \/ \E new : Update(c, k, new)
    BY <2>2 DEF Wrote
  <2> QED
    BY <1>b, <2>1, <2>3
<1>4. ASSUME NEW c \in Caches, localPruner(c) \/ PruneRound(c)
      PROVE  store'[d] = store[d] \/ PruneRound(d)
  <2>1. CASE c = d
    BY <1>4, <2>1 DEF localPruner
  <2>2. CASE c # d
    <3>1. \E ks : Discard(c, ks)
      BY <1>4 DEF localPruner, PruneRound, RemoveItems
    <3> QED
      BY <1>a, <2>2, <3>1
  <2> QED
    BY <2>1, <2>2
<1>5. ASSUME NEW t \in Threads,
             \/ LinkShared(t) \/ Drop(t) \/ IncReturns(t) \/ ClampLimit(t)
             \/ \E w \in BOOLEAN : localConstructor(t, w)
             \/ \E c \in Caches, lims \in [keys : Nat, memory : Nat] : CreateCache(t, c, lims)
             \/ \E c, e \in Caches : cloneLocalCache(t, c, e)
             \/ \E c \in Caches : sl_destroy(t, c)
             \/ \E c \in Caches, k \in Keys : sl_read(t, c, k)
             \/ \E c \in Caches, field \in {"keys", "memory"}, limit \in Nat :
                   setLocalLimits(t, c, field, limit)
      PROVE  UNCHANGED store
  BY <1>5 DEF LinkShared, Drop, IncReturns, ClampLimit, localConstructor, CreateCache,
              cloneLocalCache, sl_destroy, sl_read, setLocalLimits
<1>6. ASSUME \/ \E c \in Caches : CountExcess(c) \/ RoundsEnd(c) \/ PruneEnds(c)
             \/ \E c \in Caches : MarkCaches(c) \/ manageLocalCache(c)
             \/ Tick \/ UNCHANGED vars
      PROVE  UNCHANGED store
  BY <1>6 DEF CountExcess, RoundsEnd, PruneEnds, MarkCaches, manageLocalCache, Tick, vars
<1>7. ASSUME NEW t \in Threads, NEW c \in Caches, RemoveAll(t, c)
      PROVE  store'[d] = store[d]
  <2>1. c # d
    BY <1>7, <1>c DEF RemoveAll
  <2> QED
    BY <1>7, <1>a, <2>1 DEF RemoveAll
<1> QED
  BY <1>0, <1>1, <1>2, <1>3, <1>4, <1>5, <1>6, <1>7, NextCases

\* Its variables are its own.
LEMMA PrunerSteps ==
    ASSUME TypeOK, [Next]_vars, NEW d \in Caches
    PROVE  \/ pruner'[d] = pruner[d]
           \/ localPruner(d) \/ CountExcess(d) \/ PruneRound(d) \/ RoundsEnd(d) \/ PruneEnds(d)
<1> USE DEF objects, content, ghosts
<1>0. use \in Scenarios /\ now \in Nat
  BY CacheAssumption DEF TypeOK
<1>1. ASSUME NEW c \in Caches,
             \/ localPruner(c) \/ CountExcess(c) \/ PruneRound(c) \/ RoundsEnd(c)
             \/ PruneEnds(c)
      PROVE  c = d \/ pruner'[d] = pruner[d]
  <2>1. \E new : pruner' = [pruner EXCEPT ![c] = new]
    BY <1>1 DEF localPruner, CountExcess, PruneRound, RoundsEnd, PruneEnds
  <2> QED
    BY <2>1 DEF TypeOK
<1>2. ASSUME NEW t \in Threads,
             \/ LinkShared(t) \/ Drop(t) \/ IncReturns(t) \/ ClampLimit(t)
             \/ \E w \in BOOLEAN : localConstructor(t, w)
             \/ \E c \in Caches, lims \in [keys : Nat, memory : Nat] : CreateCache(t, c, lims)
             \/ \E c, e \in Caches : cloneLocalCache(t, c, e)
             \/ \E c \in Caches : sl_destroy(t, c) \/ RemoveAll(t, c)
             \/ \E c \in Caches, field \in {"keys", "memory"}, limit \in Nat :
                   setLocalLimits(t, c, field, limit)
      PROVE  UNCHANGED pruner
  BY <1>2 DEF LinkShared, Drop, IncReturns, ClampLimit, localConstructor, CreateCache,
              cloneLocalCache, sl_destroy, RemoveAll, setLocalLimits
<1>3. ASSUME NEW t \in Threads, NEW c \in Caches, NEW k \in Keys,
             \/ sl_inc(t, c, k) \/ sl_read(t, c, k) \/ sl_remove(t, c, k)
             \/ \E date \in Nat : sl_expire(t, c, k, date)
      PROVE  UNCHANGED pruner
  BY <1>3 DEF sl_inc, sl_read, sl_remove, sl_expire
<1>5. ASSUME NEW t \in Threads, NEW c \in Caches, NEW k \in Keys, NEW value, NEW mode,
             NEW ttl, NEW date, NEW check, sl_write(t, c, k, value, mode, ttl, date, check)
      PROVE  UNCHANGED pruner
  BY <1>5 DEF sl_write
<1>4. ASSUME (\E c \in Caches : MarkCaches(c) \/ manageLocalCache(c)) \/ Tick \/ UNCHANGED vars
      PROVE  UNCHANGED pruner
  BY <1>4 DEF MarkCaches, manageLocalCache, Tick, vars
<1> QED
  BY <1>0, <1>1, <1>2, <1>3, <1>4, <1>5, NextCases

\* A round takes as many keys from the store as it takes from excessKeys.
LEMMA RoundCounts ==
    ASSUME TypeOK, ExcessExact, NEW c \in Caches, PruneRound(c)
    PROVE  /\ pruner'[c].at = "round"
           /\ pruner'[c].excess = Cardinality(Stored(c)') - pruner'[c].maxKeys
<1>1. PICK gone : /\ gone = Expiring(store[c], pruner[c].when)
                  /\ Discard(c, gone)
  BY DEF PruneRound, RemoveItems
<1>2. /\ pruner[c] \in Pruner /\ pruner[c].at = "round"
      /\ pruner[c].when \in Nat /\ pruner[c].factor \in Nat
      /\ pruner[c].excess \in Int /\ pruner[c].maxKeys \in Nat
  BY DEF PruneRound, TypeOK, Pruner
<1>3. gone \subseteq Stored(c) /\ Stored(c) \subseteq Keys
  BY <1>1 DEF Expiring, Present, Stored
<1>4. Stored(c)' = Stored(c) \ gone
  <2>1. \A j \in Keys : store'[c][j] = IF j \in gone THEN Absent ELSE store[c][j]
    BY <1>1, DiscardStore
  <2> QED
    BY <2>1 DEF Stored, Absent
<1>5. /\ IsFiniteSet(Stored(c)) /\ Cardinality(Stored(c)) \in Nat
      /\ Cardinality(gone) \in Nat
  <2>1. Stored(c) \in SUBSET Keys /\ gone \in SUBSET Keys
    BY <1>3
  <2> QED
    BY <2>1, KeysFinite
<1>6. Cardinality(Stored(c)') = Cardinality(Stored(c)) - Cardinality(gone)
  <2>1. Cardinality(Stored(c) \ gone) = Cardinality(Stored(c)) - Cardinality(Stored(c) \cap gone)
    BY <1>5, FS_Difference
  <2>2. Stored(c) \cap gone = gone
    BY <1>3
  <2> QED
    BY <1>4, <2>1, <2>2
<1>7. pruner'[c] = [at |-> "round", when |-> pruner[c].when + pruner[c].factor,
                    factor |-> 4 * pruner[c].factor,
                    excess |-> pruner[c].excess - Cardinality(gone),
                    maxKeys |-> pruner[c].maxKeys]
  BY <1>1 DEF PruneRound, TypeOK
<1>8. /\ pruner'[c].at = "round" /\ pruner'[c].maxKeys = pruner[c].maxKeys
      /\ pruner'[c].excess = pruner[c].excess - Cardinality(gone)
  BY <1>7
<1>9. pruner[c].excess = Cardinality(Stored(c)) - pruner[c].maxKeys
  BY <1>2 DEF ExcessExact
<1> QED
  BY <1>2, <1>5, <1>6, <1>8, <1>9

LEMMA ExcessStep ==
    ASSUME TypeOK, ExcessExact, [Next]_vars
    PROVE  ExcessExact'
<1> SUFFICES ASSUME NEW c \in Caches, pruner'[c].at = "round"
             PROVE  pruner'[c].excess = Cardinality(Stored(c)') - pruner'[c].maxKeys
  BY DEF ExcessExact
<1>1. pruner[c] \in Pruner /\ limits[c].keys \in Nat
  BY DEF TypeOK
<1>2. CASE PruneRound(c)
  BY <1>2, RoundCounts
<1>3. CASE pruner'[c] = pruner[c] /\ ~PruneRound(c)
  <2>1. store'[c] = store[c]
    BY <1>3, HeldStore
  <2>2. Stored(c)' = Stored(c)
    BY <2>1 DEF Stored
  <2> QED
    BY <1>3, <2>2 DEF ExcessExact
<1>4. CASE CountExcess(c)
  <2>1. PICK where \in {"round", "end"} :
           pruner'[c] = [at |-> where, when |-> pruner[c].when, factor |-> 1,
                         excess |-> Cardinality(Stored(c)) - limits[c].keys,
                         maxKeys |-> limits[c].keys]
    BY <1>4 DEF CountExcess, TypeOK
  <2>2. /\ pruner'[c].excess = Cardinality(Stored(c)) - limits[c].keys
        /\ pruner'[c].maxKeys = limits[c].keys
    BY <2>1
  <2>3. Stored(c)' = Stored(c)
    BY <1>4 DEF CountExcess, content, Stored
  <2> QED
    BY <2>2, <2>3
<1>5. CASE localPruner(c)
  <2>1. [pruner[c] EXCEPT !.at = "limits", !.when = now].at = "limits"
    BY <1>1 DEF Pruner
  <2>2. pruner'[c] = [pruner[c] EXCEPT !.at = "limits", !.when = now]
    BY <1>5 DEF localPruner, TypeOK
  <2> QED
    BY <2>1, <2>2
<1>6. CASE RoundsEnd(c)
  <2>1. [pruner[c] EXCEPT !.at = "end"].at = "end"
    BY <1>1 DEF Pruner
  <2>2. pruner'[c] = [pruner[c] EXCEPT !.at = "end"]
    BY <1>6 DEF RoundsEnd, TypeOK
  <2> QED
    BY <2>1, <2>2
<1>7. CASE PruneEnds(c)
  BY <1>7 DEF PruneEnds, TypeOK, Resting
<1> QED
  BY <1>2, <1>3, <1>4, <1>5, <1>6, <1>7, PrunerSteps

-----------------------------------------------------------------------------
(* The inductive invariant, and what it implies.                           *)

LEMMA CacheInit == Init => CacheInv
<1> SUFFICES ASSUME Init PROVE CacheInv
  OBVIOUS
<1>1. TypeOK
  BY TypeInit
<1>2. \A c \in Caches : Stored(c) = {} /\ Present(store[c]) = {}
  BY DEF Init, Stored, Present, Absent
<1>3. UnusedIsEmpty /\ CondemnedIsLinked /\ TimerWhileStored
  BY <1>2, CacheAssumption DEF Init, UnusedIsEmpty, CondemnedIsLinked, TimerWhileStored
<1>4. VersionsSeen /\ CasNeverStale
  BY DEF Init, VersionsSeen, SeenOf, CasNeverStale
<1>5. MemoryCovered
  <2> SUFFICES ASSUME NEW c \in Caches PROVE usedMem[c] >= Memory(store[c])
    BY DEF MemoryCovered
  <2>1. Memory(store[c]) = 0
    BY <1>2, MemoryEmpty
  <2> QED
    BY <2>1 DEF Init
<1>6. ExcessExact
  BY DEF Init, ExcessExact, Resting
<1> QED
  BY <1>1, <1>3, <1>4, <1>5, <1>6 DEF CacheInv

LEMMA CacheStep == CacheInv /\ [Next]_vars => CacheInv'
  BY TypeStep, ObjectsStep, TimerStep, VersionsStep, MemoryStep, ExcessStep DEF CacheInv

LEMMA CacheInvariant == Spec => []CacheInv
  BY CacheInit, CacheStep, PTL DEF Spec

\* The variable shared never leads to a cache that the collector has freed, and the only
\* LocalCache that can is a link made while the sweep had not reached the condemned cache,
\* however many interpreters create, clone, destroy and drop caches.
THEOREM SharedCacheIsLive == Spec => []SharedIsLive
<1>1. CacheInv => SharedIsLive
  BY DEF CacheInv, CondemnedIsLinked, SharedIsLive
<1> QED
  BY <1>1, CacheInvariant, PTL

\* A cache that holds keys and that destroy() has not stopped has a pruner,
\* although the pruner stops its own timer when it finds the store empty.
THEOREM PrunerWhileStored == Spec => []TimerWhileStored
<1>1. CacheInv => TimerWhileStored
  BY DEF CacheInv
<1> QED
  BY <1>1, CacheInvariant, PTL

\* A write that gives a version never overwrites an update its caller has not
\* read, whatever the other interpreters and the pruner did since the read.
THEOREM VersionedWrite == Spec => []CasNeverStale
<1>1. CacheInv => CasNeverStale
  BY DEF CacheInv
<1> QED
  BY <1>1, CacheInvariant, PTL

\* cache->usedMem is never less than the memory of what is stored.
THEOREM MemoryIsCovered == Spec => []MemoryCovered
<1>1. CacheInv => MemoryCovered
  BY DEF CacheInv
<1> QED
  BY <1>1, CacheInvariant, PTL

\* ... and so the pruner's assert(cache->usedMem >= 0) never fails.
THEOREM PrunerAssert == Spec => [](\A c \in Caches : usedMem[c] >= 0)
<1>1. CacheInv => \A c \in Caches : usedMem[c] >= 0
  <2> SUFFICES ASSUME CacheInv, NEW c \in Caches PROVE usedMem[c] >= 0
    OBVIOUS
  <2>1. /\ store[c] \in [Keys -> Item] /\ usedMem[c] \in Int
        /\ usedMem[c] >= Memory(store[c])
    BY DEF CacheInv, TypeOK, MemoryCovered
  <2>2. Memory(store[c]) \in Nat
    BY <2>1, MemoryType
  <2> QED
    BY <2>1, <2>2
<1> QED
  BY <1>1, CacheInvariant, PTL

-----------------------------------------------------------------------------
(* What the pruner removes.                                                *)

\* A key that has not expired goes only while there are more keys than the limit that the
\* pruner has read, or more memory is used than the limit, whatever the store, the limits
\* that others assign meanwhile, and the number of rounds.
THEOREM ExcessIsReal == Spec => PruneNeedsExcess
<1> DEFINE Over(c, k) == \/ Expired(store[c][k])
                         \/ Cardinality(Stored(c)) > pruner[c].maxKeys
                         \/ usedMem[c] > limits[c].memory
           Step == \A c \in Caches, k \in Keys :
                     /\ pruner[c].at = "round" /\ pruner'[c].at = "round"
                     /\ k \in Stored(c) /\ store'[c][k].version = 0
                     => Over(c, k)
<1>1. ASSUME CacheInv, [Next]_vars, NEW c \in Caches, NEW k \in Keys,
             pruner[c].at = "round", k \in Stored(c), store'[c][k].version = 0
      PROVE  Over(c, k)
  <2>1. TypeOK /\ ExcessExact
    BY <1>1 DEF CacheInv
  <2>2. store'[c] # store[c]
    BY <1>1 DEF Stored
  <2>3. PruneRound(c)
    BY <1>1, <2>1, <2>2, HeldStore
  <2>4. pruner[c].excess > 0 \/ usedMem[c] > limits[c].memory
    BY <2>3 DEF PruneRound, TooBig
  <2>5. pruner[c].excess = Cardinality(Stored(c)) - pruner[c].maxKeys
    BY <1>1, <2>1 DEF ExcessExact
  <2>6. Cardinality(Stored(c)) \in Nat /\ pruner[c].maxKeys \in Nat
    BY <2>1, KeysFinite DEF Stored, TypeOK, Pruner
  <2>7. pruner[c].excess > 0 => Cardinality(Stored(c)) > pruner[c].maxKeys
    BY <2>5, <2>6
  <2> QED
    BY <2>4, <2>7
<1> HIDE DEF Over
<1>2. CacheInv /\ [Next]_vars => [Step]_vars
  BY <1>1
<1>3. Spec => [][Step]_vars
  BY <1>2, CacheInvariant, PTL DEF Spec
<1> QED
  BY <1>3 DEF PruneNeedsExcess, Over
=============================================================================
