------------------------------ MODULE MCWorker ------------------------------
(* Worker for TLC: interchangeable workers, all callbacks or none.         *)
EXTENDS Worker, TLC

AllOrNone == {{}, Slots}
Symmetry  == Permutations(Workers)
=============================================================================
