------------------------ MODULE MCAssessmentAttempt ------------------------
(* Small instances of AssessmentAttempt. *)
EXTENDS AssessmentAttempt, TLC

CONSTANTS p1, p2, s1, s2

\* The second problem is worth twice the first.
MCProblemOf == (s1 :> p1) @@ (s2 :> p2)
MCMaxScore == (p1 :> 1) @@ (p2 :> 2)

\* The faculty drops the second problem, moves the assessment, or deletes it.
MCEdits ==
    LET as(st, ps, s, e, d) == [status |-> st, problems |-> ps,
                                start |-> s, end |-> e, duration |-> d]
    IN  {as("Published", {p1}, 0, 1, 1), as("Published", {p1, p2}, 1, 3, 2),
         as("Deleted", {p1, p2}, 0, 1, 1)}

\* Who is at work in one behaviour: scores and verdicts; time, minutes and
\* closing; work up to the end; challenges and reopening.
MCMixes == {{"start", "get", "solve", "rejudge"},
            {"start", "get", "submit", "grace", "edit"},
            {"start", "submit", "solve", "lock"},
            {"start", "submit", "draft", "event", "fail"},
            {"start", "submit", "get", "raise", "resolve", "grace"}}
=============================================================================
