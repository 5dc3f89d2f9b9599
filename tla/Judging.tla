------------------------------- MODULE Judging -------------------------------
(***************************************************************************)
(* Programs of a few tests with every number of reports the batched runner *)
(* may have read, and the calls of a partner: that the three runners, the  *)
(* pages of a student and the doors for partners tell of one submission    *)
(* alike.                                                                  *)
(***************************************************************************)
EXTENDS Partner, ResultView

CONSTANT MaxTests   \* bound: the tests of a program

ASSUME JudgingAssumption == MaxTests \in Nat

VARIABLES
    program,  \* what the program does on each test
    due,      \* the test at which the time of a batch is up, or 0
    read,     \* how many of its reports the batched runner has read
    samples   \* the tests a student may see

judged == <<program, due, read, samples>>

Programs == BoundedSeq(Behaviour, MaxTests) \ {<<>>}

InitJudging ==
    /\ program \in Programs
    /\ due \in {0} \cup {i \in DOMAIN program : \E j \in 1..i : program[j] = "slow"}
    /\ read \in 0..Len(Reports(InOneGo(program, due)))
    /\ samples \in SUBSET DOMAIN program

JudgingSpec ==
    InitJudging /\ InitPartner /\ [][PartnerNext /\ UNCHANGED judged]_<<judged, partner>>

-----------------------------------------------------------------------------

shared == InOneGo(program, due)
batched == Batched(shared, read)
Results == {PerTest(program), batched}

\* A program without a wrapper neither reports nor fails to.
Plain == Range(program) \cap {"glue", "throws", "oom"} = {}
AllResults == Results \cup (IF Plain THEN {Stdin(program)} ELSE {})

\* However much of the reports the batched runner has read when its goroutine
\* overtakes it, and wherever the process ended: every test has one detail, unless
\* the program itself spoilt a report (appendMissingBatchedResults).
EveryTestOnce ==
    ~Contains(program, "glue") =>
        \A r \in Results : [i \in DOMAIN r.details |-> r.details[i].test] = [i \in DOMAIN program |-> i]

\* No runner stores Success for a program that fails a test or leaves one out, with
\* any number of reports lost or unreadable; the batched one alone takes a late answer.
VerdictIsEarned ==
    \A r \in AllResults : StoredStatus(r) = "Success" =>
        Range(program) \subseteq {"pass", "floods", "stuck"} \cup (IF r = batched THEN {"slow"} ELSE {})

\* The same program on a faster machine.
InTime(p) == [i \in DOMAIN p |-> IF p[i] = "slow" THEN "pass" ELSE p[i]]

\* The threshold on the number of tests decides which runner is used, and must not
\* decide the status: with every report read both runners store the same one, but
\* for output limits and memory limits that stay, which only single runs notice, and for
\* late answers, which only single runs hold against a program: a batch stores for them
\* what single runs store for answers in time, or, once the time of all is up, the same
\* error as they do.  And with any amount read every test has its detail and no Success is
\* given away.
RunnersAgree ==
    /\ EveryTestOnce /\ VerdictIsEarned
    /\ read = Len(Reports(shared)) /\ Range(program) \cap {"floods", "stuck"} = {} =>
          StoredStatus(batched) = StoredStatus(PerTest(IF due = 0 THEN InTime(program) ELSE program))

\* A container in which a program was killed or did not end in time, or one whose memory
\* limit could not be reset, is not used again, whichever runner it was and whatever the
\* other tests did (shouldDiscardContainer).  In single runs an unreadable report
\* overwrites the trace of the limit, and with text on stdin it leaves none.
SpoiltIsDiscarded ==
    LET last == Stop(shared)
    IN  /\ Range(program) \cap {"hangs", "slow", "killed"} # {} =>
              /\ shouldDiscardContainer(PerTest(program))
              /\ Plain => shouldDiscardContainer(Stdin(program))
        /\ Contains(program, "stuck") /\ ~Contains(program, "glue") =>
              shouldDiscardContainer(PerTest(program))
        /\ \/ last <= Len(program) /\ shared[last] \in {"hangs", "killed"}
           \/ Contains(shared, "stuck")
           => shouldDiscardContainer(batched)

\* A partner is told the same story as the student: accepted for Success only, with
\* every case accepted, and otherwise a verdict that some case bears out; and the student
\* is told it alike on every page, with what samples may show only (ResultShown).  The
\* other doors of a partner tell of one execution alike (DoorsAgree), and behind them
\* nothing that went wrong once goes wrong for good (PartnerServed).
PartnerAgrees ==
    /\ PartnerServed
    /\ Plain => \A b \in Range(program) : DoorsAgree(b)
    /\ \A r \in AllResults :
          LET told == mapSubmissionToArventiqVerdict(r)
          IN  /\ StoredStatus(r) = "Success" <=> told.verdict = "Accepted"
              /\ told.verdict = "Accepted" <=> Range(told.cases) = {"Accepted"}
              /\ told.verdict \in Range(told.cases)
              /\ \A assessment \in BOOLEAN : ResultShown(r, samples, assessment)
    /\ NotRunShown
=============================================================================
