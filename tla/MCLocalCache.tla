---------------------------- MODULE MCLocalCache ----------------------------
(* LocalCache for TLC.                                                     *)
EXTENDS LocalCache, TLC

CONSTANTS t1, t2, c1, c2, k1, k2

\* Two interpreters share a cache of one key.
Sharing ==
    [threads |-> {t1, t2}, caches |-> {c1}, keys |-> {k1},
     methods |-> {"expire", "inc", "read", "remove", "write"},
     modes |-> {"set", "add", "append", "prepend"},
     lifespans |-> {0, 1}, limits |-> {0}, maxTime |-> 2, maxVersion |-> 2]

\* A key is updated again and again while an inc() returns or a version is held.
Overtaking ==
    [threads |-> {t1, t2}, caches |-> {c1}, keys |-> {k1},
     methods |-> {"inc", "read", "remove", "write"}, modes |-> {"set", "append"},
     lifespans |-> {0}, limits |-> {0}, maxTime |-> 1, maxVersion |-> 4]

\* Cache objects are created, cloned, destroyed and dropped.
Objects ==
    [threads |-> {t1, t2}, caches |-> {c1, c2}, keys |-> {k1},
     methods |-> {"write", "destroy", "clone", "drop"}, modes |-> {"set"},
     lifespans |-> {1}, limits |-> {0}, maxTime |-> 2, maxVersion |-> 1]

\* Two keys are pruned by age and by the limits.
Pruning ==
    [threads |-> {t1}, caches |-> {c1}, keys |-> {k1, k2},
     methods |-> {"setLimits", "write"}, modes |-> {"set", "add"},
     lifespans |-> {1, 2}, limits |-> {0, 1}, maxTime |-> 2, maxVersion |-> 2]

\* Limits of 0, that is none, are set while the pruner runs.
NoLimits ==
    [threads |-> {t1}, caches |-> {c1}, keys |-> {k1},
     methods |-> {"setLimits", "write"}, modes |-> {"set"},
     lifespans |-> {1}, limits |-> {0}, maxTime |-> 2, maxVersion |-> 2]

SafetyScenarios == {Sharing, Overtaking, Objects}

PruneScenarios == {Pruning, NoLimits}

ObjectScenarios == {Objects}

\* The interpreters are interchangeable in SafetyScenarios.
Symmetry == Permutations(Threads)
=============================================================================
