----------------------------- MODULE LocalCache -----------------------------
(***************************************************************************)
(* The in-memory key/value cache (src/core/src/ejsLocalCache.c), shared by *)
(* several interpreters, each on a thread of its own, and by the pruner,   *)
(* a timer on the MPR's own dispatcher.                                    *)
(*                                                                         *)
(* A method takes the cache's (recursive) lock for all it does to the      *)
(* store, and so is one step - except where the code works outside of the  *)
(* lock: the test for an existing shared cache in the constructor, the     *)
(* result of inc(), and the assignment and clamping of a limit.  The       *)
(* pruner has the lock from its first step to its last, and reads limits   *)
(* that others assign meanwhile.                                           *)
(*                                                                         *)
(* Each interpreter uses at most one LocalCache object at a time.  Numbers *)
(* stand for the texts that spell them.                                    *)
(***************************************************************************)
EXTENDS Integers, FiniteSetsExt

CONSTANTS
    Threads,        \* the interpreters
    Caches,         \* the cache objects that can be created
    Keys,
    Values,         \* data the application writes, as the number it spells
    Scenarios,      \* what the application uses, see below
    KeyLength,      \* key->length
    Day,            \* the factor that ends the pruner's rounds, in ticks
    NoThread, NoCache,
    MaxData         \* bound

\* The interpreters, caches and keys an application uses, the methods it calls, the write
\* modes, lifespans (in ticks, 0 is for ever) and limits (0 is unlimited) it gives, and
\* bounds of the time and of the versions of a key.
ASSUME CacheAssumption ==
    /\ NoThread \notin Threads /\ NoCache \notin Caches
    /\ IsFiniteSet(Keys)
    /\ Values \subseteq 0..MaxData
    /\ KeyLength \in Nat /\ Day \in Nat /\ MaxData \in Nat
    /\ \A s \in Scenarios :
          /\ s.threads \subseteq Threads /\ s.caches \subseteq Caches /\ s.keys \subseteq Keys
          /\ s.methods \subseteq {"expire", "inc", "read", "remove", "setLimits", "write",
                                 "destroy", "clone", "drop"}
          /\ s.modes \subseteq {"set", "add", "append", "prepend"}
          /\ s.lifespans \subseteq Nat /\ s.limits \subseteq Nat
          /\ s.maxTime \in Nat \ {0} /\ s.maxVersion \in Nat

VARIABLES
    use,            \* the scenario; never changes
    now,            \* mprGetTime(), in ticks
    shared,         \* the singleton shared cache
    handle,         \* the cache that an interpreter's LocalCache leads to
    owns,           \* the interpreter's object is that cache, not a link to it
    late,           \* history: that cache was already condemned
    task,           \* what an interpreter does outside of the lock
    store,          \* cache->store, key by key
    usedMem,        \* cache->usedMem
    limits,         \* cache->maxKeys and cache->maxMem
    timer,          \* cache->timer is set
    lock,           \* the thread that holds cache->mutex
    life,           \* of the cache object; "stopped" is by destroy()
    pruner,         \* the variables of the pruner, while it runs
    seen,           \* the version an interpreter last read, and its history
    cas             \* history of the version that the last write gave

objects == <<shared, handle, owns, late, life>>
content == <<store, usedMem>>
ghosts  == <<seen, cas>>
vars    == <<use, now, objects, task, content, limits, timer, lock, pruner, ghosts>>

-----------------------------------------------------------------------------
Unlimited == 1000000        \* MAXSSIZE

\* A CacheItem; version 0 stands for a key that is not in the store.
Item   == [data : Nat, expires : Nat, lifespan : Nat, version : Nat]
Absent == [data |-> 0, expires |-> 0, lifespan |-> 0, version |-> 0]
Stored(c) == {k \in Keys : store[c][k].version # 0}

\* Since a version was read, the key was left alone, updated, or removed.
Histories == {"fresh", "updated", "removed"}
Seen      == [version : Nat, history : Histories]

Idle == [op |-> "idle"]
Task == {Idle}
        \cup [op : {"link", "broken"}]
        \cup [op : {"create"}, wantShared : BOOLEAN]
        \cup [op : {"limit"}, field : {"keys", "memory"}]
        \cup [op : {"inc"}, key : Keys, attached : BOOLEAN, computed : Nat, result : Nat]

\* excess is excessKeys; maxKeys is the limit that it was computed from.
Pruner  == [at : {"idle", "limits", "round", "end"}, when : Nat, factor : Nat,
            excess : Int, maxKeys : Nat]
Resting == [at |-> "idle", when |-> 0, factor |-> 0, excess |-> 0, maxKeys |-> 0]

TypeOK ==
    /\ use \in Scenarios
    /\ now \in 1..use.maxTime
    /\ shared \in Caches \cup {NoCache}
    /\ handle \in [Threads -> Caches \cup {NoCache}]
    /\ owns \in [Threads -> BOOLEAN]
    /\ late \in [Threads -> BOOLEAN]
    /\ task \in [Threads -> Task]
    /\ store \in [Caches -> [Keys -> Item]]
    /\ usedMem \in [Caches -> Int]
    /\ limits \in [Caches -> [keys : Nat, memory : Nat]]
    /\ timer \in [Caches -> BOOLEAN]
    /\ lock \in [Caches -> Threads \cup {NoThread}]
    /\ life \in [Caches -> {"none", "live", "stopped", "condemned", "freed"}]
    /\ pruner \in [Caches -> Pruner]
    /\ seen \in [Threads -> [Keys -> Seen]]
    /\ cas \in Histories

Init ==
    /\ use \in Scenarios
    /\ now = 1
    /\ shared = NoCache
    /\ handle = [t \in Threads |-> NoCache]
    /\ owns = [t \in Threads |-> FALSE]
    /\ late = [t \in Threads |-> FALSE]
    /\ task = [t \in Threads |-> Idle]
    /\ store = [c \in Caches |-> [k \in Keys |-> Absent]]
    /\ usedMem = [c \in Caches |-> 0]
    /\ limits = [c \in Caches |-> [keys |-> Unlimited, memory |-> Unlimited]]
    /\ timer = [c \in Caches |-> FALSE]
    /\ lock = [c \in Caches |-> NoThread]
    /\ life = [c \in Caches |-> "none"]
    /\ pruner = [c \in Caches |-> Resting]
    /\ seen = [t \in Threads |-> [k \in Keys |-> [version |-> 0, history |-> "removed"]]]
    /\ cas = "fresh"

-----------------------------------------------------------------------------
(* Data and its bookkeeping.                                               *)

\* Length of a value: itos() of a number, or the text that spells it.
Digits(n) == IF n < 10 THEN 1 ELSE IF n < 100 THEN 2 ELSE 3

\* ejsJoinString of two such texts.
JoinString(a, b) == a * 10^Digits(b) + b

ItemLength(item) == KeyLength + Digits(item.data)

Present(s) == {k \in Keys : s[k].version # 0}

\* The bytes that a store takes, each given by its key and its place.
Bytes(s)  == UNION {{k} \X (1..ItemLength(s[k])) : k \in Present(s)}
Memory(s) == Cardinality(Bytes(s))

Expired(item) == item.expires # 0 /\ item.expires <= now

\* Thread t is about to call a method of its cache c.  (What a method does to
\* a cache that was freed is not modelled.)  The lock is recursive.
Calls(t, c) ==
    task[t].op = "idle" /\ handle[t] = c /\ c # NoCache /\ life[c] # "freed"
Locks(t, c) ==
    Calls(t, c) /\ lock[c] \in {NoThread, t} /\ pruner[c].at = "idle"

\* What an update, and a removal, does to those who have read a version.
Age(c, ks, from, to) ==
    seen' = [t \in Threads |-> [k \in Keys |->
               IF handle[t] = c /\ k \in ks /\ seen[t][k].history \in from
               THEN [seen[t][k] EXCEPT !.history = to] ELSE seen[t][k]]]

\* An inc() that has released the lock still points to its item.
Pointing(u, c, ks) ==
    task[u].op = "inc" /\ task[u].attached /\ handle[u] = c /\ task[u].key \in ks

\* The item of key k becomes new.
Update(c, k, new) ==
    /\ store' = [store EXCEPT ![c][k] = new]
    /\ Age(c, {k}, {"fresh"}, "updated")

TasksAfterUpdate(c, k, new) ==
    [u \in Threads |-> IF Pointing(u, c, {k})
                       THEN [task[u] EXCEPT !.result = new.data] ELSE task[u]]

\* The keys ks leave the store.
Discard(c, ks) ==
    /\ store' = [store EXCEPT ![c] = [k \in Keys |-> IF k \in ks THEN Absent ELSE @[k]]]
    /\ Age(c, ks, Histories, "removed")
    /\ task' = [u \in Threads |-> IF Pointing(u, c, ks)
                                  THEN [task[u] EXCEPT !.attached = FALSE] ELSE task[u]]

-----------------------------------------------------------------------------
(* Creating and destroying caches.                                         *)

Connect(t, c, isOwner) ==
    /\ handle' = [handle EXCEPT ![t] = c]
    /\ owns' = [owns EXCEPT ![t] = isOwner]
    /\ late' = [late EXCEPT ![t] = c # NoCache /\ life[c] = "condemned"]
    /\ task' = [task EXCEPT ![t] = Idle]
    /\ seen' = [seen EXCEPT ![t] = [k \in Keys |-> [version |-> 0, history |-> "removed"]]]

\* A cache object that was never used before.
Allocate(t, c, lims, used) ==
    /\ life[c] = "none"
    /\ Connect(t, c, TRUE)
    /\ life' = [life EXCEPT ![c] = "live"]
    /\ limits' = [limits EXCEPT ![c] = lims]
    /\ usedMem' = [usedMem EXCEPT ![c] = used]

\* new LocalCache(options) looks for the shared cache, without a lock.
localConstructor(t, wantShared) ==
    /\ handle[t] = NoCache /\ task[t].op = "idle"
    /\ task' = [task EXCEPT ![t] =
                  IF wantShared /\ shared # NoCache THEN [op |-> "link"]
                  ELSE [op |-> "create", wantShared |-> wantShared]]
    /\ UNCHANGED <<use, now, objects, content, limits, timer, lock, pruner, ghosts>>

\* ... and reads the variable again to connect to it: when it has been reset
\* meanwhile, the object has neither a shared cache nor a store and lock.
LinkShared(t) ==
    /\ task[t].op = "link"
    /\ \/ /\ shared # NoCache
          /\ Connect(t, shared, FALSE)
       \/ /\ shared = NoCache
          /\ task' = [task EXCEPT ![t] = [op |-> "broken"]]
          /\ UNCHANGED <<handle, owns, late, seen>>
    /\ UNCHANGED <<use, now, shared, life, content, limits, timer, lock, pruner, cas>>

\* ... or, having found none, creates a cache.
CreateCache(t, c, lims) ==
    /\ task[t].op = "create"
    /\ Allocate(t, c, lims, 0)
    /\ shared' = IF task[t].wantShared THEN c ELSE shared
    /\ UNCHANGED <<use, now, store, timer, lock, pruner, cas>>

\* The interpreter goes on with a clone of its cache: another link to the
\* shared cache, or an empty cache that has the memory use of the original.
cloneLocalCache(t, c, d) ==
    /\ Calls(t, c)
    /\ \/ /\ ~owns[t] \/ c = shared
          /\ d = c
          /\ Connect(t, c, FALSE)
          /\ UNCHANGED <<life, limits, usedMem>>
       \/ /\ owns[t] /\ c # shared
          /\ Allocate(t, d, limits[c], usedMem[c])
    /\ UNCHANGED <<use, now, shared, store, timer, lock, pruner, cas>>

\* destroy() forgets the shared cache, or stops the pruner of another.  It
\* does nothing when it is called on a link to the shared cache.
sl_destroy(t, c) ==
    /\ Calls(t, c) /\ owns[t]
    /\ \/ /\ c = shared
          /\ shared' = NoCache
          /\ UNCHANGED <<timer, life>>
       \/ /\ c # shared /\ timer[c]
          /\ timer' = [timer EXCEPT ![c] = FALSE]
          /\ life' = [life EXCEPT ![c] = "stopped"]
          /\ UNCHANGED shared
    /\ UNCHANGED <<use, now, handle, owns, late, task, content, limits, lock, pruner, ghosts>>

\* The interpreter has no use for its LocalCache any more, or ends.
Drop(t) ==
    /\ task[t].op = "broken" \/ (task[t].op = "idle" /\ handle[t] # NoCache)
    /\ Connect(t, NoCache, FALSE)
    /\ UNCHANGED <<use, now, shared, life, content, limits, timer, lock, pruner, cas>>

\* The mark phase of the garbage collector, which runs with all threads at a
\* yield point, finds no LocalCache that is this cache or leads to it.
\* Neither the variable shared nor the pruner's timer keeps it.
MarkCaches(c) ==
    /\ life[c] \in {"live", "stopped"} /\ pruner[c].at = "idle"
    /\ \A t \in Threads : handle[t] # c /\ task[t].op \in {"idle", "broken"}
    /\ life' = [life EXCEPT ![c] = "condemned"]
    /\ UNCHANGED <<use, now, shared, handle, owns, late, task, content, limits, timer, lock,
                   pruner, ghosts>>

\* Faulty variant of manageLocalCache: shared is left alone.
FreeQuietly(c) ==
    /\ life[c] = "condemned"
    /\ life' = [life EXCEPT ![c] = "freed"]
    /\ UNCHANGED <<use, now, shared, handle, owns, late, task, content, limits, timer, lock,
                   pruner, ghosts>>

\* The sweep runs in parallel with the threads: it has the manager reset
\* shared, and then frees the cache.
manageLocalCache(c) ==
    /\ life[c] = "condemned"
    /\ life' = [life EXCEPT ![c] = "freed"]
    /\ shared' = IF c = shared THEN NoCache ELSE shared
    /\ UNCHANGED <<use, now, handle, owns, late, task, content, limits, timer, lock, pruner,
                   ghosts>>

-----------------------------------------------------------------------------
(* Methods.                                                                *)

\* Faulty variant of removeItem: the memory is given back twice.
RemoveTwice(c, k) ==
    /\ Discard(c, {k})
    /\ usedMem' = [usedMem EXCEPT ![c] = @ - 2 * ItemLength(store[c][k])]

removeItem(c, k) ==
    /\ Discard(c, {k})
    /\ usedMem' = [usedMem EXCEPT ![c] = @ - ItemLength(store[c][k])]

\* expire(key, null) removes the key.
sl_expire(t, c, k, date) ==
    /\ Locks(t, c) /\ k \in Stored(c)
    /\ \/ /\ date = 0
          /\ removeItem(c, k)
       \/ /\ date # 0
          /\ store' = [store EXCEPT ![c][k] = [@ EXCEPT !.lifespan = 0, !.expires = date]]
          /\ UNCHANGED <<usedMem, task, seen>>
    /\ UNCHANGED <<use, now, objects, limits, timer, lock, pruner, cas>>

\* Faulty variant of IncValue: the amount is subtracted.
DecValue(old) == old.data - 1

\* The new value, for an amount of 1; a missing key counts as 0.
IncValue(old) == old.data + 1

\* inc() of a key that is not in the store does not put it there.
sl_inc(t, c, k) ==
    /\ Locks(t, c)
    /\ LET old    == store[c][k]
           exists == k \in Stored(c)
           value  == IncValue(old)
           new    == [old EXCEPT !.data = value, !.expires = now + old.lifespan,
                                 !.version = @ + 1]
           mine   == [op |-> "inc", key |-> k, attached |-> exists,
                      computed |-> value, result |-> value]
       IN  /\ value <= MaxData
           /\ \/ /\ exists /\ old.version < use.maxVersion
                 /\ Update(c, k, new)
                 /\ usedMem' = [usedMem EXCEPT ![c] = @ - Digits(old.data) + Digits(value)]
                 /\ task' = [TasksAfterUpdate(c, k, new) EXCEPT ![t] = mine]
              \/ /\ ~exists /\ usedMem[c] < Memory(store[c]) + use.maxVersion
                 /\ usedMem' = [usedMem EXCEPT ![c] = @ + Digits(value)]
                 /\ task' = [task EXCEPT ![t] = mine]
                 /\ UNCHANGED <<store, seen>>
    /\ UNCHANGED <<use, now, objects, limits, timer, lock, pruner, cas>>

\* It reads its result, item->data, after it has released the lock.
IncReturns(t) ==
    /\ task[t].op = "inc"
    /\ task' = [task EXCEPT ![t] = Idle]
    /\ UNCHANGED <<use, now, objects, content, limits, timer, lock, pruner, ghosts>>

\* read(key, {version: true}).  An expired key reads as null.
sl_read(t, c, k) ==
    /\ Locks(t, c) /\ k \in Stored(c) /\ ~Expired(store[c][k])
    /\ seen' = [seen EXCEPT ![t][k] = [version |-> store[c][k].version, history |-> "fresh"]]
    /\ UNCHANGED <<use, now, objects, task, content, limits, timer, lock, pruner, cas>>

sl_remove(t, c, k) ==
    /\ Locks(t, c) /\ k \in Stored(c)
    /\ removeItem(c, k)
    /\ UNCHANGED <<use, now, objects, limits, timer, lock, pruner, cas>>

\* remove(null)
RemoveAll(t, c) ==
    /\ Locks(t, c)
    /\ Discard(c, Keys)
    /\ usedMem' = [usedMem EXCEPT ![c] = 0]
    /\ UNCHANGED <<use, now, objects, limits, timer, lock, pruner, cas>>

\* setLimits() assigns a limit without the lock, and then clamps it.
setLocalLimits(t, c, field, limit) ==
    /\ Calls(t, c)
    /\ limits' = [limits EXCEPT ![c][field] = limit]
    /\ task' = [task EXCEPT ![t] = [op |-> "limit", field |-> field]]
    /\ UNCHANGED <<use, now, objects, content, timer, lock, pruner, ghosts>>

ClampLimit(t) ==
    /\ task[t].op = "limit"
    /\ limits' = [limits EXCEPT ![handle[t]][task[t].field] = IF @ = 0 THEN Unlimited ELSE @]
    /\ task' = [task EXCEPT ![t] = Idle]
    /\ UNCHANGED <<use, now, objects, content, timer, lock, pruner, ghosts>>

\* Faulty variant of Written: only a new key gets a version.
WrittenSameVersion(old, value, ttl, date) ==
    [old EXCEPT !.data = value, !.version = IF @ = 0 THEN 1 ELSE @]

\* The fields of an item that a write sets: an expiry date takes precedence
\* over a lifespan, and lifespan 0 leaves the old lifespan where it is.
Written(old, value, ttl, date) ==
    [data     |-> value,
     version  |-> old.version + 1,
     expires  |-> IF date # 0 THEN date ELSE IF ttl # 0 THEN now + ttl ELSE 0,
     lifespan |-> IF date # 0 THEN 0 ELSE IF ttl # 0 THEN ttl ELSE old.lifespan]

\* write(key, value, options).  A version is compared only with that of a key
\* that exists; when it differs, the call changes nothing.  Adding a key that
\* exists returns with the lock held.
sl_write(t, c, k, value, mode, ttl, date, check) ==
    /\ Locks(t, c)
    /\ check => seen[t][k].version # 0
    /\ LET old    == store[c][k]
           exists == k \in Stored(c)
           result == IF ~exists \/ mode = "set" THEN value
                     ELSE IF mode = "append" THEN JoinString(old.data, value)
                     ELSE JoinString(value, old.data)
           new    == Written(old, result, ttl, date)
       IN  /\ exists /\ check => old.version = seen[t][k].version
           /\ \/ /\ exists /\ mode = "add"
                 /\ lock' = [lock EXCEPT ![c] = t]
                 /\ UNCHANGED <<content, task, timer, life, ghosts>>
              \/ /\ ~(exists /\ mode = "add")
                 /\ result <= MaxData /\ old.version < use.maxVersion
                 /\ Update(c, k, new)
                 /\ task' = TasksAfterUpdate(c, k, new)
                 /\ usedMem' = [usedMem EXCEPT ![c] =
                      @ + ItemLength(new) - IF exists THEN ItemLength(old) ELSE 0]
                 /\ timer' = [timer EXCEPT ![c] = TRUE]
                 /\ life' = [life EXCEPT ![c] = IF @ = "stopped" THEN "live" ELSE @]
                 /\ cas' = IF check THEN seen[t][k].history ELSE "fresh"
                 /\ UNCHANGED lock
    /\ UNCHANGED <<use, now, shared, handle, owns, late, limits, pruner>>

-----------------------------------------------------------------------------
(* The pruner.                                                             *)

\* The keys that expire by a time.
Expiring(s, time) == {k \in Present(s) : s[k].expires # 0 /\ s[k].expires <= time}
Without(s, ks)    == [k \in Keys |-> IF k \in ks THEN Absent ELSE s[k]]

\* The pruner, which has the lock, removes keys.
RemoveItems(c, gone) ==
    /\ Discard(c, gone)
    /\ usedMem' = [usedMem EXCEPT ![c] =
         @ - (Memory(store[c]) - Memory(Without(store[c], gone)))]

\* The timer fires.  The pruner only tries to lock.  Keys that have expired
\* go first.  (What it does to a cache that was freed is not modelled.)
localPruner(c) ==
    /\ pruner[c].at = "idle"
    /\ timer[c] /\ lock[c] = NoThread /\ life[c] # "freed"
    /\ RemoveItems(c, Expiring(store[c], now))
    /\ pruner' = [pruner EXCEPT ![c] = [@ EXCEPT !.at = "limits", !.when = now]]
    /\ UNCHANGED <<use, now, objects, limits, timer, lock, cas>>

\* It looks whether there are limits, and counts the keys in excess.  A round
\* is 3600 times the factor of the model, which is what a tick stands for.
CountExcess(c) ==
    /\ pruner[c].at = "limits" /\ life[c] # "freed"
    /\ LET limited == limits[c].keys < Unlimited \/ limits[c].memory < Unlimited
       IN  pruner' = [pruner EXCEPT ![c] =
             [at |-> IF limited THEN "round" ELSE "end", when |-> pruner[c].when, factor |-> 1,
              excess |-> Cardinality(Stored(c)) - limits[c].keys, maxKeys |-> limits[c].keys]]
    /\ UNCHANGED <<use, now, objects, task, content, limits, timer, lock, ghosts>>

\* The test at the head of a round.
TooBig(c) == pruner[c].excess > 0 \/ usedMem[c] > limits[c].memory

\* Faulty variant of PruneRound: excessKeys is not counted down.
RoundUncounted(c) ==
    /\ pruner[c].at = "round" /\ life[c] # "freed"
    /\ pruner[c].factor < Day /\ TooBig(c)
    /\ RemoveItems(c, Expiring(store[c], pruner[c].when))
    /\ pruner' = [pruner EXCEPT ![c] =
         [@ EXCEPT !.when = @ + pruner[c].factor, !.factor = 4 * @]]
    /\ UNCHANGED <<use, now, objects, limits, timer, lock, cas>>

\* While the cache is too big, the keys that expire soon go too, in rounds of
\* growing reach.  A round is not cut short when it has removed enough.
PruneRound(c) ==
    /\ pruner[c].at = "round" /\ life[c] # "freed"
    /\ pruner[c].factor < Day /\ TooBig(c)
    /\ LET gone == Expiring(store[c], pruner[c].when)
       IN  /\ RemoveItems(c, gone)
           /\ pruner' = [pruner EXCEPT ![c] =
                [at |-> "round", when |-> pruner[c].when + pruner[c].factor,
                 factor |-> 4 * pruner[c].factor,
                 excess |-> pruner[c].excess - Cardinality(gone), maxKeys |-> pruner[c].maxKeys]]
    /\ UNCHANGED <<use, now, objects, limits, timer, lock, cas>>

RoundsEnd(c) ==
    /\ pruner[c].at = "round" /\ life[c] # "freed"
    /\ pruner[c].factor >= Day \/ ~TooBig(c)
    /\ pruner' = [pruner EXCEPT ![c].at = "end"]
    /\ UNCHANGED <<use, now, objects, task, content, limits, timer, lock, ghosts>>

\* Faulty variant of PruneEnds: the timer is not a repeating one.
PruneOnce(c) ==
    /\ pruner[c].at = "end" /\ life[c] # "freed"
    /\ timer' = [timer EXCEPT ![c] = FALSE]
    /\ pruner' = [pruner EXCEPT ![c] = Resting]
    /\ UNCHANGED <<use, now, objects, task, content, limits, lock, ghosts>>

\* When the store is empty the pruner stops its timer.  It unlocks.
PruneEnds(c) ==
    /\ pruner[c].at = "end" /\ life[c] # "freed"
    /\ timer' = [timer EXCEPT ![c] = @ /\ Stored(c) # {}]
    /\ pruner' = [pruner EXCEPT ![c] = Resting]
    /\ UNCHANGED <<use, now, objects, task, content, limits, lock, ghosts>>

Prune(c) ==
    localPruner(c) \/ CountExcess(c) \/ PruneRound(c) \/ RoundsEnd(c) \/ PruneEnds(c)

Tick ==
    /\ now < use.maxTime
    /\ now' = now + 1
    /\ UNCHANGED <<use, objects, task, content, limits, timer, lock, pruner, ghosts>>

-----------------------------------------------------------------------------
Dates == {now + l : l \in use.lifespans}

Method(t, c) ==
    \/ "destroy" \in use.methods /\ sl_destroy(t, c)
    \/ "clone" \in use.methods /\ \E d \in use.caches : cloneLocalCache(t, c, d)
    \/ /\ "setLimits" \in use.methods
       /\ \E field \in {"keys", "memory"}, limit \in use.limits : setLocalLimits(t, c, field, limit)
    \/ "remove" \in use.methods /\ RemoveAll(t, c)
    \/ \E k \in use.keys :
          \/ "expire" \in use.methods /\ \E date \in {0} \cup Dates : sl_expire(t, c, k, date)
          \/ "inc" \in use.methods /\ sl_inc(t, c, k)
          \/ "read" \in use.methods /\ sl_read(t, c, k)
          \/ "remove" \in use.methods /\ sl_remove(t, c, k)
          \/ \E value \in Values, mode \in use.modes, check \in BOOLEAN,
                expiry \in (use.lifespans \X {0}) \cup ({0} \X Dates) :
                /\ "write" \in use.methods
                /\ sl_write(t, c, k, value, mode, expiry[1], expiry[2], check)

Create(t) ==
    \/ \E wantShared \in BOOLEAN : localConstructor(t, wantShared)
    \/ LinkShared(t)
    \/ \E c \in use.caches, keys, memory \in (use.limits \ {0}) \cup {Unlimited} :
          CreateCache(t, c, [keys |-> keys, memory |-> memory])

Next ==
    \/ \E t \in use.threads : \/ Create(t) \/ IncReturns(t) \/ ClampLimit(t)
                              \/ "drop" \in use.methods /\ Drop(t)
                              \/ \E c \in use.caches : Method(t, c)
    \/ \E c \in use.caches : Prune(c) \/ MarkCaches(c) \/ manageLocalCache(c)
    \/ Tick

Spec == Init /\ [][Next]_vars

\* The pruner's timer fires for as long as it exists, and the pruner goes on.
FairSpec == Spec /\ \A c \in Caches : WF_vars(Prune(c))

-----------------------------------------------------------------------------
(* Properties.                                                             *)

\* cache->usedMem never falls below the memory of the keys and data stored,
\* so that the pruner's assert(cache->usedMem >= 0) holds.
MemoryCovered == \A c \in Caches : usedMem[c] >= Memory(store[c])

\* A write that gives a version never overwrites an update of that key that
\* its caller has not read.
CasNeverStale == cas # "updated"

\* A cache that holds keys has its pruner's timer running, although the
\* pruner stops the timer by itself, unless destroy() stopped it after the
\* last write.
TimerWhileStored ==
    \A c \in Caches : Stored(c) # {} => timer[c] \/ life[c] # "live"

\* A new LocalCache never connects to a cache that was freed: the variable
\* shared does not lead to one, and the only LocalCache that does is a link
\* made between the mark that condemned the cache and the reset of shared.
SharedIsLive ==
    \A c \in Caches : life[c] = "freed" =>
        /\ c # shared
        /\ \A t \in Threads : handle[t] = c => late[t] /\ ~owns[t]

\* The pruner removes a key before its time only while there really are more
\* keys than the limit it has read, or more memory is used than the limit:
\* the count that it makes once and keeps by hand stays right from round to
\* round.
PruneNeedsExcess ==
    [][\A c \in Caches, k \in Keys :
         /\ pruner[c].at = "round" /\ pruner'[c].at = "round"
         /\ k \in Stored(c) /\ store'[c][k].version = 0
         => \/ Expired(store[c][k])
            \/ Cardinality(Stored(c)) > pruner[c].maxKeys
            \/ usedMem[c] > limits[c].memory]_vars

\* An expired key is removed or renewed, unless the pruner is gone or an add
\* that found its key has left the cache locked.
ExpiredRemoved ==
    \A c \in Caches, k \in Keys :
        (k \in Stored(c) /\ Expired(store[c][k]))
            ~> \/ k \notin Stored(c) \/ ~Expired(store[c][k])
               \/ life[c] # "live" \/ lock[c] # NoThread

\* "This operation is atomic", and returns "the new key value": what inc()
\* returns is what it has computed.
IncAtomic == \A t \in Threads : task[t].op = "inc" => task[t].result = task[t].computed

\* The pruner's timer is given the cache as "permanent" data, which the
\* collector does not mark: the timer must not outlive its cache.
TimerHasCache == \A c \in Caches : timer[c] => life[c] # "freed"

\* A LocalCache has a cache to lead to: the two reads of shared in the
\* constructor see the same.
LinkIsMade == \A t \in Threads : task[t].op # "broken"

\* assert(cache == shared): the cache that a link leads to is the shared one.
LinksAreShared ==
    \A t \in Threads : handle[t] # NoCache /\ ~owns[t] => handle[t] = shared

\* keys: "Set to zero for no limit", and the same of memory: the pruner of a
\* cache for which no limit was ever asked for only removes expired keys.
UnlimitedKeeps ==
    [][\A c \in Caches, k \in Keys :
         /\ use.limits = {0} /\ pruner[c].at = "round"
         /\ k \in Stored(c) /\ store'[c][k].version = 0
         => Expired(store[c][k])]_vars

\* "Required key version for the write to succeed": the key still has the
\* version that was read, and has had it all the time.
CasSound == cas = "fresh"
=============================================================================
