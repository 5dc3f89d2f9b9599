-------------------------- MODULE MCContainerPool --------------------------
(* Small instances of ContainerPool. *)
EXTENDS ContainerPool, TLC

CONSTANTS l1, c1, c2, c3, c4, u1, u2

OneLang == {l1}

AllForOne == [c \in Container |-> l1]

One == [l \in Lang |-> 1]
Two == [l \in Lang |-> 2]

\* A language is idle, slow, fast, or timing out; with cooldowns elapsed.
MCLoads == [traffic : BOOLEAN, wait : {0, 1, 3}, timeouts : {0, 1},
            upElapsed : {TRUE}, downElapsed : {TRUE}]

ReconcilerOnly == {"reconciler"}
MonitorAndReconciler == {"monitor", "reconciler"}
Converging == {"reconciler", "autoscaler"}

Symmetry == Permutations(Container) \cup Permutations(User)
=============================================================================
