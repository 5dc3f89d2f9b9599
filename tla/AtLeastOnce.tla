----------------------------- MODULE AtLeastOnce -----------------------------
(***************************************************************************)
(* What the submission pipeline promises, without queues, workers or       *)
(* crashes: every submission that waits for a verdict has a job, only a    *)
(* job gives a verdict, and the last job of a submission does not end      *)
(* before there is one.  A job may be duplicated, never lost.              *)
(***************************************************************************)
EXTENDS Naturals

CONSTANT Sub

VARIABLES
    jobs,      \* jobs that exist for each submission
    settled    \* has the submission a verdict?

vars == <<jobs, settled>>

Init == jobs = [s \in Sub |-> 0] /\ settled = [s \in Sub |-> FALSE]

\* A submission, or a rejudge that takes the verdict back.
Accept(s) ==
    /\ jobs' = [jobs EXCEPT ![s] = @ + 1]
    /\ settled' \in {settled, [settled EXCEPT ![s] = FALSE]}

Settle(s) ==
    /\ jobs[s] > 0
    /\ settled' = [settled EXCEPT ![s] = TRUE]
    /\ UNCHANGED jobs

Duplicate(s) ==
    /\ jobs[s] > 0
    /\ jobs' = [jobs EXCEPT ![s] = @ + 1]
    /\ UNCHANGED settled

Finish(s) ==
    /\ jobs[s] > 0
    /\ settled[s] \/ jobs[s] > 1
    /\ jobs' = [jobs EXCEPT ![s] = @ - 1]
    /\ UNCHANGED settled

Next == \E s \in Sub : Accept(s) \/ Settle(s) \/ Duplicate(s) \/ Finish(s)

Spec == Init /\ [][Next]_vars
=============================================================================
