------------------------------ MODULE MCRecords ------------------------------
(* Two threads and three requests; the clock runs past the retention.       *)
EXTENDS Records, TLC

CONSTANTS t1, t2

MCThreads == {t1, t2}
Symmetry == Permutations(MCThreads)
===============================================================================
