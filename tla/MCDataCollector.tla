-------------------------- MODULE MCDataCollector --------------------------
(* Instances of DataCollector for TLC: threads are model values, which are  *)
(* interchangeable, codes are strings, and the URIs the first numbers.      *)
EXTENDS DataCollector, TLC

ThreadSymmetry == Permutations(Threads)
=============================================================================
