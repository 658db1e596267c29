---------------------------- MODULE MCEventBus -----------------------------
(* An instance of EventBus for TLC.                                        *)
EXTENDS EventBus, TLC
CONSTANTS t1, t2, A, B
MCThreads == {t1, t2}
MCTypes == {A, B}
Symmetry == Permutations(MCThreads) \cup Permutations(MCTypes)
============================================================================
