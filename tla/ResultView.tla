---------------------------- MODULE ResultView -----------------------------
(***************************************************************************)
(* What a student is shown of a submission: the document the worker has    *)
(* stored, what the API takes out of it (submissions.service.js), and what *)
(* the pages make of the rest (SubmissionOutput.jsx): the pages of a       *)
(* problem and of an assessment, which hand it the whole document, and     *)
(* MySubmissionsPage.jsx, which hands it the text in `output'.             *)
(*                                                                         *)
(* Of a value, a log or a message only its presence is kept.               *)
(***************************************************************************)
EXTENDS JudgeResult

-----------------------------------------------------------------------------
(* The document.                                                           *)

\* The same result stands in the text and in the field; assessmentId: is there one?
Document(status, kind, result, assessmentId) ==
    [status |-> status, output |-> [kind |-> kind, result |-> result],
     testResult |-> [there |-> kind = "JSON", result |-> result],
     assessmentId |-> assessmentId]

Open(detail) == [test |-> detail.test, passed |-> detail.passed, isHidden |-> FALSE,
                 values |-> TRUE, logs |-> TRUE]

Shown(result) == [status |-> result.status,
                  details |-> [i \in DOMAIN result.details |-> Open(result.details[i])]]

Unread == [status |-> "none", details |-> <<>>]

Judged(result, assessmentId) ==
    Document(StoredStatus(result), "JSON", Shown(result), assessmentId)

\* What a poll may find: the document, or the entry the worker has put into Redis, which
\* has no assessmentId.
Found(result, assessment) == {Judged(result, assessment), Judged(result, FALSE)}

\* finalizeExecutionFailure after a compiler's complaint: no test has run.
Uncompiled == Document("Error", "JSON", [status |-> "Compilation Error", details |-> <<>>], FALSE)

\* A text instead of a result, as of a submission that was given up.
GivenUp == Document("Error", "text", Unread, FALSE)

Pending == Document("Pending", "none", Unread, FALSE)

-----------------------------------------------------------------------------
(* What leaves the API.                                                    *)

\* Defect: a detail belongs to the test at its own place.
sanitizeByPlace(details, samples, isAssessment) ==
    [i \in DOMAIN details |->
        IF i \in samples THEN details[i]
        ELSE [details[i] EXCEPT !.isHidden = TRUE, !.values = FALSE, !.logs = ~isAssessment]]

\* By the number of the test: the batched runner may leave details in another order.
sanitizeResultDetails(details, samples, isAssessment) ==
    [i \in DOMAIN details |->
        IF details[i].test \in samples THEN details[i]
        ELSE [details[i] EXCEPT !.isHidden = TRUE, !.values = FALSE, !.logs = ~isAssessment]]

\* Text and field alike; whether it is an assessment is up to the document.
sanitizeSubmissionForStudent(doc, samples) ==
    LET less(result) == [result EXCEPT !.details =
                            sanitizeResultDetails(@, samples, doc.assessmentId)]
    IN  [doc EXCEPT !.output.result = less(@), !.testResult.result = less(@)]

-----------------------------------------------------------------------------
(* What the pages show.                                                    *)

\* The tag in a list of submissions.
tag(status) ==
    CASE status \in {"Success", "Accepted"} -> "success"
      [] status \in {"Fail", "Error", "Time Limit Exceeded", "Runtime Error", "Wrong Answer"} -> "error"
      [] OTHER -> "warning"

isError == {"Fail", "Error", "Wrong Answer", "Runtime Error", "Compilation Error",
            "Time Limit Exceeded", "Memory Limit Exceeded"}

verdictClass(status) ==
    CASE status \in {"Success", "Accepted"} -> "success"
      [] status \in isError -> "error"
      [] OTHER -> "warning"

\* A result laid open: the banner, the count, which is green when it is full, the box of
\* the compiler, and of each case its number, its values and its logs.
Panel(status, details) ==
    LET passedTests == Cardinality({i \in DOMAIN details : details[i].passed})
    IN  [box       |-> IF status = "Compilation Error" THEN "compiler" ELSE "none",
         banner    |-> status,
         colour    |-> verdictClass(status),
         green     |-> passedTests = Len(details) /\ details # <<>>,
         cases     |-> [i \in DOMAIN details |->
                          [test   |-> IF details[i].isHidden THEN 0 ELSE details[i].test,
                           colour |-> IF details[i].passed THEN "success" ELSE "error",
                           values |-> details[i].values /\ ~details[i].isHidden,
                           logs   |-> details[i].logs]]]

NoPanel == [Panel("none", <<>>) EXCEPT !.box = "blank"]

\* Of the whole document: the field lies over it, and its status with it.
ofDocument(doc) ==
    IF doc.testResult.there
    THEN Panel(doc.testResult.result.status, doc.testResult.result.details)
    ELSE Panel(doc.status, <<>>)

\* Of the text.  One that is no result is shown as it stands, in red.
ofOutput(doc) ==
    CASE doc.output.kind = "none" -> NoPanel
      [] doc.output.kind = "text" -> [NoPanel EXCEPT !.box = "raw", !.colour = "error"]
      [] OTHER -> Panel(doc.output.result.status, doc.output.result.details)

-----------------------------------------------------------------------------

\* Two pages tell of one result alike, in the colours of the stored status: green for
\* Success only, the full count with it, and no verdict in the colour of one that is
\* awaited, as a program that never ran keeps; and of a test that is no sample no page
\* shows a value, whatever the poll has found, or, if that knows the assessment, what the
\* program wrote.  The worker's entry does not: while it lives, the logs of all tests of an
\* assessment are shown.
ResultShown(result, samples, assessment) ==
    \A found \in Found(result, assessment) :
        LET doc  == sanitizeSubmissionForStudent(found, samples)
            view == ofDocument(doc)
        IN  /\ view = ofOutput(doc)
            /\ view.colour = tag(doc.status) /\ view.colour # "warning"
            /\ view.green <=> view.colour = "success"
            /\ \A i \in DOMAIN view.cases :
                  result.details[i].test \notin samples =>
                      /\ ~view.cases[i].values /\ view.cases[i].test = 0
                      /\ found.assessmentId => ~view.cases[i].logs

\* What was never run is told in red too, on both kinds of pages.
NotRunShown ==
    /\ \A doc \in {Uncompiled, GivenUp} :
          {ofDocument(doc).colour, ofOutput(doc).colour, tag(doc.status)} = {"error"}
    /\ ofDocument(Pending).colour = "warning" /\ tag(Pending.status) = "warning"
=============================================================================
