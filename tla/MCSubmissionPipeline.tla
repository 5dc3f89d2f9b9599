------------------------ MODULE MCSubmissionPipeline ------------------------
(* Small instances of SubmissionPipeline. *)
EXTENDS SubmissionPipeline, TLC

CONSTANTS s1, s2, w1, w2

\* For properties that do not tell the results of executions apart; giving up
\* still gives another verdict.
SuccessOnly == {"Success"}

\* The process or its connection goes away while calls fail.
Breakdowns == {"crash", "connection", "signal", "retryPublish", "fetch", "workspace"}

PublishFails == {"publish"}
Rejections == {"reject"}
Signals == {"signal"}

\* No request is turned away and no message rejected: those are lost (NoOrphan,
\* RejectedIsKept), and this run is about what is not.  The steps of Next otherwise.
Accepted ==
    \/ \E s \in Sub : \/ Submit(s) \/ Publish(s) \/ RejudgeFind(s) \/ RejudgeSave(s)
                      \/ ReadVerdict(s) \/ ReadCache(s) \/ CacheExpire(s)
    \/ \E w \in Worker : \/ Work(w) \/ FetchFail(w) \/ PublishRetryFail(w) \/ WorkspaceFail(w)
                         \/ \E m \in Msg : Deliver(w, m)
    \/ \E m \in Msg : RetryExpire(m)
    \/ Crash \/ ConnectionLost \/ Signal \/ Stop \/ Start

AcceptedSpec == Init /\ [][Accepted]_vars /\ Fairness

Symmetry == Permutations(Sub) \cup Permutations(Worker)
=============================================================================
