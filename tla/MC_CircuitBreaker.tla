------------------------- MODULE MC_CircuitBreaker -------------------------
(* Two tabs, two hosts (the first the default), one breaker per service.   *)
EXTENDS CircuitBreaker, TLC

CONSTANTS t1, t2, h1, h2, none, blank

MCTabs == {t1, t2}
MCHosts == {h1, h2}

(* The two tabs are interchangeable. *)
TabSymmetry == Permutations(MCTabs)
=============================================================================
