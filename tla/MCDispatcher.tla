---------------------------- MODULE MCDispatcher ----------------------------
EXTENDS Dispatcher, TLC

CONSTANTS d1, d2, w1, w2, e1, e2

Pooled == d1 :> "pooled" @@ d2 :> "pooled"

Mixed == d1 :> "immediate" @@ d2 :> "started"

Swapped == d2 :> "immediate" @@ d1 :> "started"

Scenario(modes, calls, events, min, max) ==
    [mode : modes, calls : {calls}, events : events, minThreads : {min}, maxThreads : {max},
     cores : {max}]

\* Dispatchers that compete for one worker, or have one each; one event with all calls and
\* two with some on dispatchers of the other kinds
SafetyScenarios ==
    Scenario({Pooled}, {"destroy"}, {Events}, 0, 1)
    \cup Scenario({Pooled}, {}, {Events}, 1, 2)
    \cup Scenario({Pooled}, {"continuous", "remove"}, {{e1}, {e2}}, 0, 1)
    \cup Scenario({Mixed, Swapped},
                  {"remove", "enable", "reschedule", "destroy", "continuous"},
                  {{e1}, {e2}}, 0, 1)
    \cup Scenario({Mixed, Swapped}, {"remove"}, {Events}, 0, 1)

\* One worker, pruned and created again, or kept without a timer to prune it
LiveScenarios ==
    Scenario({Pooled}, {}, {Events}, 0, 1)
    \cup Scenario({Pooled}, {}, {Events}, 1, 1)
    \cup Scenario({Mixed}, {"continuous", "enable"}, {{e1}}, 0, 1)

Symmetry == Permutations(Workers) \cup Permutations(Events) \cup Permutations(Dispatchers)
=============================================================================
