---------------------------- MODULE MCTaskAgent ----------------------------
EXTENDS TaskAgent, TLC

CONSTANTS t1, t2, t3, c1, c2, none

MCTasks1 == { t1 }
MCTasks2 == { t1, t2 }
MCTasks3 == { t1, t2, t3 }
MCContainers1 == { c1 }
MCContainers2 == { c1, c2 }
Symmetry == Permutations(Tasks) \cup Permutations(Containers)
=============================================================================
