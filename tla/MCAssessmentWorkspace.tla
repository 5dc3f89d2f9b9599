------------------------ MODULE MCAssessmentWorkspace ------------------------
(* Small instances of AssessmentWorkspace and of ResultsBoard: the page of a      *)
(* student, or that of the faculty; the other one is not open.                    *)
EXTENDS AssessmentWorkspace

CONSTANTS t1, t2, s1, s2, MaxRounds, MaxActs, MaxChanges, MaxFailures, Wishes

VARIABLES truth, seen, rounds, acts, review, flags, changes, failures, wish

Board == INSTANCE ResultsBoard

board == <<truth, seen, rounds, acts, review, flags, changes, failures, wish>>

Drafting == [ops |-> {"edit", "reload", "grace", "time"}, tabs |-> {t1}]
TwoBrowsers == [ops |-> {"edit", "reload"}, tabs |-> {t1, t2}]
Finishing == [ops |-> {"finish", "security", "reload", "grace", "time", "faults"}, tabs |-> {t1}]
Judging == [ops |-> {"submit", "run", "faults", "reload"}, tabs |-> {t1}]
LateJudging == [ops |-> {"submit", "time"}, tabs |-> {t1}]

\* What is done at the board.
MCWishes == {{"lock", "rejudge"}, {"grace", "fail"}, {"appeal", "elsewhere"}, {"elsewhere"}}

Nowhere == [ops |-> {}, tabs |-> {}]

MCMixes == {Drafting, TwoBrowsers, Finishing, Judging, LateJudging, Nowhere}

\* An appeal is in hand where one is decided, and nothing is where no board is open.
PagesInit ==
    /\ Init /\ Board!InitBoard /\ (mix = Nowhere <=> Board!Opened)
    /\ IF Board!Opened
       THEN truth.appeal = "Raised" <=> "appeal" \in wish
       ELSE truth.status = "Active" /\ "lock" \in wish

PagesNext ==
    \/ Next /\ UNCHANGED board
    \/ Board!BoardNext /\ UNCHANGED vars

PagesSpec == PagesInit /\ [][PagesNext]_<<vars, board>> /\ Fairness /\ Board!BoardFairness

\* What a page waits for it shows in the end: a verdict to the student, unless a call
\* failed (checkStatus), and to the faculty what is stored (fetchData of the board).
ShownInTheEnd == VerdictShown /\ Board!BoardCatchesUp
=============================================================================
