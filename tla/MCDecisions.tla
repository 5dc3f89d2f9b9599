---------------------------- MODULE MCDecisions ----------------------------
(***************************************************************************)
(* The pure decisions of the system over every small input: decideScale,   *)
(* as in MCScaleDecision, the judging of programs of a few tests, with     *)
(* every number of reports the batched runner may have read, the figures   *)
(* of an assessment that two or three students have taken, the forms an    *)
(* author may have filled in for a problem, and the questions that one     *)
(* user enters and another one comes upon.  And, step by step, the pages   *)
(* for a problem and for an assessment, and the calls of a partner.        *)
(***************************************************************************)
EXTENDS MCScaleDecision, Judging, Authored, TypeValidator

CONSTANTS Student, Outsider, a1, a2, r1, r2

VARIABLES payload, section, status, work

taken == <<payload, section, status, work>>
decisions == <<inputs, judged, taken, authored, editor, authoring, partner>>

NoLoad == [traffic |-> TRUE, wait |-> 0, timeouts |-> 0,
           upElapsed |-> FALSE, downElapsed |-> FALSE]

NoScaling ==
    /\ lo = 0 /\ hi = 0 /\ target = 0 /\ headroom = FALSE
    /\ calm = NoLoad /\ busy = NoLoad

NoJudging == program = <<"pass">> /\ due = 0 /\ read = 1 /\ samples = {}

User == Student \cup {Outsider}

NoReports ==
    /\ payload = <<>> /\ section = [u \in User |-> "A"]
    /\ status = [u \in User |-> "Not Started"]
    /\ work = [u \in User |-> <<>>]

\* A form that has nothing wrong with it.
Blank ==
    [title |-> "t", functionName |-> "f",
     parameters |-> <<[name |-> "x", type |-> <<"number">>]>>, returnType |-> <<"number">>,
     compareConfig |-> [mode |-> "EXACT", floatTolerance |-> 0],
     testCases |-> <<[inputs |-> stringify(List(<<Number>>)), expected |-> stringify(Number),
                      isSample |-> TRUE]>>,
     referenceSolution |-> "s"]

NoForm == form = Blank /\ certifies = TRUE

\* A question, its author, who may see it, and another user.
NoQuestion ==
    LET u == [id |-> "u", role |-> "faculty", collegeId |-> "c"]
    IN  asked = [entry |-> [title |-> "t", difficulty |-> "Easy", tags |-> <<>>,
                            marks |-> 1, timeLimitMs |-> 1, memoryLimitMb |-> 1],
                 author |-> u, visibility |-> "College", user |-> u]

Judging ==
    /\ NoScaling /\ NoReports /\ NoForm /\ NoQuestion
    /\ InitJudging

Scaling == Init /\ NoJudging /\ NoReports /\ NoForm /\ NoQuestion

\* What a user did with a problem of the list.
Works == {<<>>, <<"Fail">>, <<"Success", "Fail", "Success", "Success">>}

\* Lists of one or two problems, the second one possibly the first again.
Payloads ==
    LET entry(p, max) == [problemId : {p}, maxScore : max]
        first  == entry("p", {Undefined, 2})
        second == entry("q", {Undefined, 0, 2}) \cup entry("p", {2})
    IN  {<<a>> : a \in first} \cup (first \X second)

\* The outsider did the same with every problem, and is in section A: either name will do.
Reporting ==
    /\ NoScaling /\ NoJudging /\ NoForm /\ NoQuestion
    /\ payload \in Payloads
    /\ section \in [User -> {"A", "B"}] /\ section[Outsider] = "A"
    /\ status \in [User -> {"Not Started", "Active", "Submitted", "TimedOut"}]
    /\ \A u \in Student : status[u] # "TimedOut"
    /\ status[Outsider] \in {"Not Started", "TimedOut"}
    /\ work \in [User -> [DOMAIN payload -> Works]]
    /\ Cardinality(Range(work[Outsider])) = 1
    /\ \A u \in User : status[u] = "Not Started" => Range(work[u]) = {<<>>}

\* What stands in the rows of a form.
Rows ==
    LET x(type) == [name |-> "x", type |-> type]
        y == [name |-> "y", type |-> <<"array", "string">>]
        none == [name |-> "", type |-> <<>>]
    IN  {<<x(<<"number">>)>>, <<x(<<"matrix", "number">>)>>, <<x(<<"number">>), y>>,
         <<x(<<"number">>), none>>, <<none>>, <<x(<<>>)>>, <<x(<<"array">>)>>,
         <<[name |-> "", type |-> <<"number">>]>>, <<[name |-> "a b", type |-> <<"number">>]>>}

Inputs ==
    {<<"raw", "word">>, stringify(Number), stringify(List(<<Number>>)),
     stringify(List(<<List(<<List(<<Number>>)>>)>>)),
     stringify(List(<<Number, List(<<String("5"), String("word")>>)>>))}

Expecteds ==
    {<<"raw", "word">>, <<"raw", "">>, stringify(Null), stringify(Number), stringify(String("5")),
     stringify(List(<<Number, Null>>)), stringify(List(<<String("5")>>))}

Types == {<<>>, <<"number">>, <<"string">>, <<"void">>, <<"tree", "number">>,
          <<"linkedlist", "string">>, <<"number", "string">>}

Filled ==
    LET test == [inputs : Inputs, expected : Expecteds, isSample : BOOLEAN]
        more == {<<>>} \cup {<<[Blank.testCases[1] EXCEPT !.isSample = b]>> : b \in BOOLEAN}
    IN  {[Blank EXCEPT !.parameters = rows, !.returnType = type, !.testCases = <<t>> \o ts] :
            rows \in Rows, type \in Types, t \in test, ts \in more}

Flawed ==
    {[Blank EXCEPT !.title = ""], [Blank EXCEPT !.functionName = ""],
     [Blank EXCEPT !.functionName = "a b"], [Blank EXCEPT !.referenceSolution = ""],
     [Blank EXCEPT !.compareConfig.floatTolerance = -1],
     [Blank EXCEPT !.compareConfig.mode = "STRUCTURAL"]}

Ready == {Typed(PROBLEM_TEMPLATES[id] @@ Blank) : id \in DOMAIN PROBLEM_TEMPLATES}

Authoring ==
    /\ NoScaling /\ NoJudging /\ NoReports /\ NoQuestion
    /\ form \in Filled \cup Flawed \cup Ready /\ certifies \in BOOLEAN /\ InitAuthored

Asking ==
    LET users == [id : {"u", "v"}, role : {"faculty", "admin", "superadmin"},
                  collegeId : {"c", "d", "null"}]
    IN  /\ NoScaling /\ NoJudging /\ NoReports /\ NoForm
        /\ asked \in [entry : [title : {"", "t"}, difficulty : {"Easy", "Hard"},
                               tags : {<<"">>, <<"a", " a">>, <<"a", "", "b">>},
                               marks : {0, 1}, timeLimitMs : {1}, memoryLimitMb : {0, 1}],
                      author : {u \in users : u.id = "u"},
                      visibility : {"Public", "College"},
                      user : users]
        /\ asked.user.id = "u" => asked.user = asked.author
        /\ InitAuthored

Nothing == NoScaling /\ NoJudging /\ NoReports /\ NoForm /\ NoQuestion

Families == Judging \/ Scaling \/ Reporting \/ Authoring \/ Asking

DecisionInit == Families /\ InitEditor /\ InitAuthoring /\ InitPartner /\ (ahead = 0 \/ Nothing)

\* One page at a time, or the partner.
DecisionNext ==
    \/ /\ Nothing
       /\ \/ InitAuthoring /\ InitPartner /\ ahead = 0 /\ EditorNext /\ UNCHANGED <<authoring, partner>>
          \/ InitEditor /\ InitPartner /\ AuthoringNext /\ UNCHANGED <<editor, partner>>
          \/ InitEditor /\ InitAuthoring /\ ahead = 0 /\ PartnerNext /\ UNCHANGED <<editor, authoring>>
       /\ UNCHANGED <<inputs, judged, taken, authored>>
    \/ UNCHANGED decisions

DecisionSpec == DecisionInit /\ [][DecisionNext]_decisions

\* The processes of the API and the calls of a partner are alike.
Symmetry == Permutations(Api) \cup Permutations(Call)

-----------------------------------------------------------------------------

problems == Stored(payload)

subs ==
    UNION {{[userId |-> u, problemId |-> payload[i].problemId, status |-> work[u][i][n],
             createdAt |-> 10 * i + n] : n \in DOMAIN work[u][i]} :
           <<u, i>> \in User \X (DOMAIN payload)}

score == [u \in User |-> recalculateAttemptScore(problems, subs, u)]

Total(f) == MapThenSumSet(LAMBDA i : f[i], DOMAIN f)

about == "p" :> [tags |-> {"t"}, difficulty |-> "Easy"]
         @@ "q" :> [tags |-> {"t", "v"}, difficulty |-> "Hard"]

All(u) == {s \in subs : s.userId = u}

\* A student's own figures and a problem's, from the submissions of one assessment: as many
\* problems solved as the student's page says if it was sent all submissions, and no fewer
\* if not, no area strong without one of them, and as many submissions to the problems as
\* by the students.
AnalyticsAgree ==
    LET mine == [u \in User |-> getMyAnalytics(subs, u, about)]
        stats == [x \in DOMAIN about |-> getProblemStats(subs, x)]
        marked(u, sent) == {x \in Range(problems) : getProblemResult(x, sent, u) = "Accepted"}
        solved(u) == marked(u, subs)
        kinds(u) == {about[x.problemId].difficulty : x \in solved(u)}
        tags(S) == UNION {about[x.problemId].tags : x \in S}
    IN  /\ \A u \in User :
              /\ LET sent == getAttemptSubmissions(subs, u)
                     n    == Cardinality(marked(u, sent))
                 IN  n <= mine[u].totalSolved /\ (sent = All(u) => n = mine[u].totalSolved)
              /\ mine[u].strongAreas \subseteq tags(solved(u))
              /\ mine[u].strongAreas \cap mine[u].weakAreas = {}
              /\ Cardinality(kinds(u)) = 1 => mine[u].averageDifficulty \in kinds(u)
        /\ Total([u \in User |-> mine[u].totalAttempted])
              = Total([x \in DOMAIN stats |-> stats[x].totalSubmissions])
        /\ \A i \in DOMAIN problems :
              stats[problems[i].problemId].acceptedSubmissions
                  >= questionReports(problems, subs)[i].solvedCount

\* The figures of an accepted assessment, computed in five places, tell one story when
\* the stored scores are fresh.  Whoever took it: the questions' points add up to the
\* scores, the sections to the whole, with averages around the overall one, and a
\* student's breakdown to the score, or to less if there are more submissions than the
\* page was sent.  And when only members did, the page's own count
\* of the attendance list agrees with the analytics next to it.  The figures outside the
\* assessment tell that story as well (AnalyticsAgree).
FiguresAgree ==
    validateAssessmentPayload(payload) =>
        LET server     == overallStats(problems, Student, status, score)
            reports    == sectionReports(problems, Student, section, status, score)
            questions  == questionReports(problems, subs)
            attendance == getAssessmentAttendance(Student, status, score)
            sum(field(_)) == MapThenSumSet(LAMBDA sec : field(reports[sec]), DOMAIN reports)
            averages   == {reports[sec].avg : sec \in {c \in DOMAIN reports : reports[c].submitted > 0}}
        IN  /\ Total([i \in DOMAIN questions |-> questions[i].maxScore * questions[i].solvedCount])
                  = Total(score)
            /\ sum(LAMBDA r : r.started) = server.stats.started
            /\ sum(LAMBDA r : r.submitted) = server.stats.submitted
            /\ sum(LAMBDA r : r.total) = Cardinality(Student \cup Attempts(status))
            /\ averages # {} => Min(averages) <= server.stats.avg /\ server.stats.avg <= Max(averages)
            /\ \A u \in User :
                  LET sent   == getAttemptSubmissions(subs, u)
                      points == Total(breakdown(problems, sent, u))
                  IN  points <= score[u] /\ (sent = All(u) => points = score[u])
            /\ Attempts(status) \subseteq Student =>
                  /\ cards(problems, attendance) = server.stats
                  /\ \A u \in leads(attendance) : attendance[u].score = server.highest
            /\ \A u \in Student : exportToExcel(problems, attendance)[u] \in 0..100
            /\ AnalyticsAgree

=============================================================================
