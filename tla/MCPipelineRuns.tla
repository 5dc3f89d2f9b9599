---------------------------- MODULE MCPipelineRuns ----------------------------
(* A small instance of PipelineRuns. *)
EXTENDS PipelineRuns, TLC

CONSTANTS s1, w1, w2

\* Two verdicts that can contradict each other; giving up stores a third.
Verdicts == {"Success", "Fail"}

\* A call of every kind fails (one of the three after which the worker puts its
\* message back), and deliveries are taken back.
Failures == {"publish", "reject", "fetch", "mongo", "usage", "redis", "crash", "connection"}

Symmetry == Permutations(Worker)
=============================================================================
