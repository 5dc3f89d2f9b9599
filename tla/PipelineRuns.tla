----------------------------- MODULE PipelineRuns -----------------------------
(***************************************************************************)
(* SubmissionPipeline with a history of its runs: how many of a submission *)
(* came to an end, and how many deliveries the broker took back.  What the *)
(* code owes a submission is counted in them, crashes and lost connections *)
(* included.                                                               *)
(***************************************************************************)
EXTENDS SubmissionPipeline

VARIABLES
    ended,        \* runs of a submission that stored a result or gave up
    redelivered   \* deliveries of it that were unanswered and are ready again

history == <<ended, redelivered>>

\* The worker tries to write its result, or its giving up, to MongoDB.
Ends(w) == <<pc[w], pc'[w]>> \in {<<"storing", "counting">>, <<"failing", "acking">>}

HInit ==
    /\ Init
    /\ ended = [s \in Sub |-> 0]
    /\ redelivered = [s \in Sub |-> 0]

HNext ==
    /\ Next
    /\ ended' = [s \in Sub |->
          ended[s] + Cardinality({w \in Worker : Ends(w) /\ Of(w) = s})]
    /\ redelivered' = [s \in Sub |->
          redelivered[s] + (IF Crash \/ ConnectionLost THEN Cardinality(Unacked(s)) ELSE 0)]

HSpec == HInit /\ [][HNext]_<<vars, history>>

-----------------------------------------------------------------------------
(* Properties *)

\* The counts are numbers (what the proofs need of them).
HistoryType == ended \in [Sub -> Nat] /\ redelivered \in [Sub -> Nat]

\* "one event per executed submission", and "a terminal failure for a submission
\* that never reached execution": a submission comes to one end, a result or
\* giving up, and its college is charged for it, once, once more for each
\* rejudge and once more for each delivery the broker took back, however two
\* workers, retries, failing calls, crashes and lost connections meet.  So no
\* result is taken away by giving up, or charged again, for another reason.
OneEndPerRun ==
    \A s \in Sub : LET runs == 1 + rejudges[s] + redelivered[s]
                  IN  ended[s] <= runs /\ metered[s] <= runs

\* Until a submission is rejudged or delivered again a verdict getSubmissionById
\* answers from the cache is not contradicted by one in MongoDB, not even
\* between the worker's writes of the two.  (MongoDB has none when that write
\* failed: the worker logs it and goes on.)
CacheAgrees ==
    \A s \in Sub : rejudges[s] = 0 /\ redelivered[s] = 0
                     => redis[s] \in {"none", mongo[s]} \/ mongo[s] = "Pending"
=============================================================================
