---------------------------- MODULE MCMPMCQueue ----------------------------
(* An instance of MPMCQueue for TLC.  The code never looks at an element,  *)
(* so a producer that enqueues its own name tells elements apart as well   *)
(* as one that enqueues anything.                                          *)
EXTENDS MPMCQueue
CONSTANTS p1, p2, c1, c2
MCProducers == {p1, p2}
MCConsumers == {c1, c2}
MCValues == MCProducers

MCNext ==
    \/ \E p \in Producers : EnqueueCall(p, p) \/ EnqueueStep(p)
    \/ \E c \in Consumers : DequeueCall(c) \/ DequeueStep(c)

MCFairSpec == Init /\ [][MCNext]_vars /\ Fairness
============================================================================
