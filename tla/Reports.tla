------------------------------ MODULE Reports ------------------------------
(***************************************************************************)
(* The figures of an assessment, each computed in more than one place from *)
(* the same documents: the score of an attempt (recalculateAttemptScore),  *)
(* the analytics of the faculty (getAssessmentAnalytics), the cards and    *)
(* the export of AssessmentResultsPage.jsx, which count the attendance     *)
(* list once more, and the breakdown a student sees                        *)
(* (AssessmentResultPage.jsx).  And two figures of the same submissions     *)
(* outside the assessment: a student's own (getMyAnalytics) and those of a  *)
(* problem (getProblemStats).                                               *)
(*                                                                         *)
(* `problems' is the list of an assessment, `section' maps each user who   *)
(* could take it to a section, `members' are the students of its college,  *)
(* `status' is the state of each user's attempt, "Not Started" without     *)
(* one, and `subs' is the set of the submissions to the assessment.  A     *)
(* student without a college is no member and may still start it.          *)
(* Names, times and counts of events are left out; rates are rounded as    *)
(* the code rounds them.                                                   *)
(***************************************************************************)
EXTENDS Integers, Sequences, FiniteSets, FiniteSetsExt, Functions

CONSTANTS
    Undefined,   \* a field the payload does not have
    PageLimit    \* submissions that the API sends unless it is asked for more: 50

Ended == {"Submitted", "TimedOut"}

Sum(f(_), S) == MapThenSumSet(f, S)

\* Math.round and toFixed of a quotient that is not negative.
Rounded(num, den) == (2 * num + den) \div (2 * den)

\* JavaScript's `n || 100'.
Or100(n) == IF n = 0 THEN 100 ELSE n

-----------------------------------------------------------------------------
(* The assessment and the scores.                                          *)

\* Defect: only a negative maximum is refused.
validatePayloadAllowsZero(payload) ==
    /\ payload # <<>>
    /\ IsInjective([i \in DOMAIN payload |-> payload[i].problemId])
    /\ \A p \in Range(payload) : p.maxScore # Undefined => p.maxScore >= 0

\* What validateAssessmentPayload wants of the list of problems.
validateAssessmentPayload(payload) ==
    /\ payload # <<>>
    /\ IsInjective([i \in DOMAIN payload |-> payload[i].problemId])
    /\ \A p \in Range(payload) : p.maxScore # Undefined => p.maxScore > 0

\* The list as the schema stores it.
Stored(payload) ==
    [i \in DOMAIN payload |->
        [payload[i] EXCEPT !.maxScore = IF @ = Undefined THEN 100 ELSE @]]

Of(subs, student, problem) ==
    {s \in subs : s.userId = student /\ s.problemId = problem.problemId}

Solved(subs, student, problem) ==
    \E s \in Of(subs, student, problem) : s.status = "Success"

recalculateAttemptScore(problems, subs, student) ==
    Sum(LAMBDA i : IF Solved(subs, student, problems[i]) THEN problems[i].maxScore ELSE 0,
        DOMAIN problems)

maxPossibleScore(problems) == Sum(LAMBDA i : Or100(problems[i].maxScore), DOMAIN problems)

Passes(score, max) == 10 * score >= 4 * max

-----------------------------------------------------------------------------
(* Two summaries of a group of students, of whom some have ended.  `avg'   *)
(* is in tenths of a point, `passRate' in percent.                         *)

Summary(group, status, score, max) ==
    LET done   == {s \in group : status[s] \in Ended}
        passed == {s \in done : Passes(score[s], max)}
        none   == done = {}
    IN  [total     |-> Cardinality(group),
         started   |-> Cardinality({s \in group : status[s] # "Not Started"}),
         submitted |-> Cardinality(done),
         avg       |-> IF none THEN 0
                       ELSE Rounded(10 * Sum(LAMBDA s : score[s], done), Cardinality(done)),
         passRate  |-> IF none THEN 0
                       ELSE Rounded(100 * Cardinality(passed), Cardinality(done))]

Attempts(status) == {s \in DOMAIN status : status[s] # "Not Started"}

Finished(status) == {s \in DOMAIN status : status[s] \in Ended}

\* Of all attempts, but for the number of students.
overallStats(problems, members, status, score) ==
    LET scores == {score[s] : s \in Finished(status)}
    IN  [stats   |-> [Summary(Attempts(status), status, score, maxPossibleScore(problems))
                        EXCEPT !.total = Cardinality(members)],
         highest |-> IF scores = {} THEN 0 ELSE Max(scores),
         lowest  |-> IF scores = {} THEN 0 ELSE Min(scores)]

\* By section: every attempt, and the members who have none.
sectionReports(problems, members, section, status, score) ==
    LET listed == Attempts(status) \cup members
    IN  [sec \in {section[s] : s \in listed} |->
            Summary({s \in listed : section[s] = sec}, status, score,
                    maxPossibleScore(problems))]

questionReports(problems, subs) ==
    [i \in DOMAIN problems |->
        LET own == {s \in subs : s.problemId = problems[i].problemId}
        IN  [maxScore     |-> Or100(problems[i].maxScore),
             attemptCount |-> Cardinality({s.userId : s \in own}),
             solvedCount  |-> Cardinality({s.userId : s \in {o \in own : o.status = "Success"}})]]

-----------------------------------------------------------------------------
(* The pages.                                                              *)

\* One row per member.
getAssessmentAttendance(members, status, score) ==
    [s \in members |-> [status |-> status[s],
                         score  |-> IF status[s] = "Not Started" THEN 0 ELSE score[s]]]

\* The cards of the faculty's page, from the attendance list.
cards(problems, attendance) ==
    Summary(DOMAIN attendance, [s \in DOMAIN attendance |-> attendance[s].status],
            [s \in DOMAIN attendance |-> attendance[s].score], maxPossibleScore(problems))

\* The percentage of the exported table.
exportToExcel(problems, attendance) ==
    [s \in DOMAIN attendance |->
        Rounded(100 * attendance[s].score, maxPossibleScore(problems))]

\* Who leads the list of top performers; ties are in the order of the list.
leads(attendance) ==
    LET done == {s \in DOMAIN attendance : attendance[s].status \in Ended}
    IN  {s \in done : \A o \in done : attendance[o].score <= attendance[s].score}

\* The newest submissions of one student.
getAttemptSubmissions(subs, student) ==
    LET own == {s \in subs : s.userId = student}
    IN  {s \in own : Cardinality({o \in own : o.createdAt > s.createdAt}) < PageLimit}

getProblemResult(problem, subs, student) ==
    CASE Solved(subs, student, problem)     -> "Accepted"
      [] Of(subs, student, problem) = {}    -> "Not Attempted"
      [] OTHER                              -> "Failed"

\* The column of scores on the student's page, which asks for no more submissions.
breakdown(problems, subs, student) ==
    [i \in DOMAIN problems |->
        IF getProblemResult(problems[i], subs, student) = "Accepted"
        THEN Or100(problems[i].maxScore) ELSE 0]

-----------------------------------------------------------------------------
(* Outside the assessment.  `about' has the tags and the difficulty of each *)
(* problem.                                                                 *)

Accepted(subs) == {s \in subs : s.status = "Success"}

successRate(subs) == Rounded(100 * Cardinality(Accepted(subs)), Cardinality(subs))

\* Of no more than 1000 submissions.  Areas are tags tried twice, by their rate; the page
\* shows three of each.  The difficulty counts submissions, not problems.
getMyAnalytics(subs, student, about) ==
    LET mine      == {s \in subs : s.userId = student}
        with(tag) == {s \in mine : tag \in about[s.problemId].tags}
        twice     == {tag \in UNION {about[s.problemId].tags : s \in mine} :
                         Cardinality(with(tag)) >= 2}
        solves(d) == Cardinality({s \in Accepted(mine) : about[s.problemId].difficulty = d})
        most(d)   == \A e \in {"Easy", "Medium", "Hard"} \ {d} : solves(d) > solves(e)
    IN  [totalAttempted    |-> Cardinality(mine),
         totalSolved       |-> Cardinality({s.problemId : s \in Accepted(mine)}),
         averageDifficulty |-> IF most("Hard") THEN "Hard"
                               ELSE IF most("Easy") THEN "Easy" ELSE "Medium",
         strongAreas       |-> {tag \in twice : successRate(with(tag)) >= 70},
         weakAreas         |-> {tag \in twice : successRate(with(tag)) < 50}]

getProblemStats(subs, problem) ==
    LET own == {s \in subs : s.problemId = problem}
    IN  [totalSubmissions    |-> Cardinality(own),
         acceptedSubmissions |-> Cardinality(Accepted(own))]
=============================================================================
