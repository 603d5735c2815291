---------------------------- MODULE MCRateLimiter ----------------------------
(* Three threads of one tenant; the clock runs past both windows.           *)
EXTENDS RateLimiter, TLC

CONSTANTS t1, t2, t3

MCThreads == {t1, t2, t3}
MCTwoThreads == {t1, t2}
Symmetry == Permutations(MCThreads)
===============================================================================
