---------------------------- MODULE ProblemPage ----------------------------
(***************************************************************************)
(* The page on which a student practises a problem (ProblemPage.jsx): test *)
(* cases of one's own to run, submissions with the polling of their        *)
(* verdict, and the list of one's submissions, any of which can be shown   *)
(* again.                                                                  *)
(*                                                                         *)
(* As in AssessmentWorkspace a period is a delay of any length, and a poll *)
(* is answered before the next one is due.  What a page still awaits when  *)
(* it is left changes nothing that is seen, and is forgotten.              *)
(***************************************************************************)
EXTENDS Integers, Sequences, FiniteSets, SequencesExt

CONSTANTS
    Sub,        \* the submissions the student may make
    NoSub,      \* none of them
    Habits,     \* bound: sets of what the student does in one behaviour
    MaxCases,   \* bound on the test cases of the student's own
    MaxFaults   \* bound on calls that fail

ASSUME PracticeAssumption == NoSub \notin Sub

VARIABLES
    stored,   \* the stored status of each submission, "none" before it exists
    desk,     \* the page
    lost,     \* calls that have failed
    habit     \* the member of Habits this behaviour is of

practice == <<stored, desk, lost, habit>>

Verdicts == {"Success", "Fail", "Error"}

\* `shown' is the submission in the console and `status' what it says of it; `mine' is
\* mySubmissions, as copies of the statuses; `result' tells that there is a runResult, and
\* `loads' that another problem is on its way.  The rest is history: the last submission
\* the API has taken from this page, what was asked for or answered last, that a result
\* was called up while a submission was being sent, and that the address changed to another
\* problem.
Desk == [shown |-> NoSub, status |-> "none", result |-> FALSE, running |-> FALSE,
         ref |-> NoSub, intervals |-> {}, posts |-> {}, polls |-> {},
         cases |-> <<"array">>, active |-> 1, mine |-> [s \in Sub |-> "none"],
         loads |-> FALSE, last |-> NoSub, wish |-> "none", hasty |-> FALSE, elsewhere |-> FALSE]

InitPractice ==
    /\ stored = [s \in Sub |-> "none"] /\ desk = Desk /\ lost = 0
    /\ habit \in Habits

Now(d) == desk' = d /\ UNCHANGED <<stored, lost, habit>>

-----------------------------------------------------------------------------
(* The test cases of the console.                                          *)

handleTestCaseChange ==
    /\ "tests" \in habit
    /\ \E text \in {"array", "not JSON"} : Now([desk EXCEPT !.cases[desk.active] = text])

handleAddTestCase ==
    /\ "tests" \in habit /\ Len(desk.cases) < MaxCases
    /\ Now([desk EXCEPT !.cases = Append(@, "array"), !.active = Len(desk.cases) + 1])

\* The button removes the active one.
handleRemoveTestCase ==
    /\ Len(desk.cases) > 1
    /\ Now([desk EXCEPT !.cases = RemoveAt(@, desk.active),
                        !.active = IF @ = 1 THEN 1 ELSE @ - 1])

chooseTestCase == \E i \in DOMAIN desk.cases : Now([desk EXCEPT !.active = i])

-----------------------------------------------------------------------------
(* Running and submitting.                                                 *)

\* What both buttons test.
Enabled == ~desk.running /\ desk.status # "Submitting"

handleRun ==
    /\ Enabled /\ "run" \in habit
    /\ Now([desk EXCEPT !.shown = NoSub, !.status = "none", !.wish = "run",
                        !.running = ~Contains(desk.cases, "not JSON"),
                        !.result = Contains(desk.cases, "not JSON")])

\* The result, or that there is none.
runAnswered ==
    /\ desk.running
    /\ Now([desk EXCEPT !.running = FALSE, !.result = TRUE, !.wish = "run"])

\* Defect: a result of a run stays.
handleSubmitClickKeepsResult ==
    /\ Enabled /\ desk.ref = NoSub /\ "submit" \in habit
    /\ \E s \in Sub :
        /\ stored[s] = "none" /\ \A p \in desk.posts : p.sub # s
        /\ Now([desk EXCEPT !.shown = NoSub, !.status = "Submitting", !.wish = "submission",
                            !.posts = @ \cup {[sub |-> s, answer |-> "none"]}])

\* While a verdict is awaited the click is ignored.
handleSubmitClick ==
    /\ Enabled /\ desk.ref = NoSub /\ "submit" \in habit
    /\ \E s \in Sub :
        /\ stored[s] = "none" /\ \A p \in desk.posts : p.sub # s
        /\ Now([desk EXCEPT !.shown = NoSub, !.status = "Submitting", !.result = FALSE,
                            !.wish = "submission",
                            !.posts = @ \cup {[sub |-> s, answer |-> "none"]}])

submissionTaken(p) ==
    /\ p.answer = "none"
    /\ stored' = [stored EXCEPT ![p.sub] = "Pending"]
    /\ desk' = [desk EXCEPT !.posts = (@ \ {p}) \cup {[p EXCEPT !.answer = "Pending"]},
                            !.last = p.sub]
    /\ UNCHANGED <<lost, habit>>

submitted(p) ==
    /\ p.answer # "none"
    /\ Now(IF p.answer = "failed"
           THEN [desk EXCEPT !.posts = @ \ {p}, !.shown = NoSub, !.status = "Error"]
           ELSE [desk EXCEPT !.posts = @ \ {p}, !.shown = p.sub, !.status = p.answer,
                             !.ref = p.sub, !.intervals = @ \cup {p.sub}])

poll(s) ==
    /\ s \in desk.intervals /\ \A p \in desk.polls : p.sub # s
    /\ Now([desk EXCEPT !.polls = @ \cup {[sub |-> s, answer |-> "none"]}])

answerPoll(p) ==
    /\ p.answer = "none"
    /\ Now([desk EXCEPT !.polls = (@ \ {p}) \cup {[p EXCEPT !.answer = stored[p.sub]]}])

stopped(d) == [d EXCEPT !.intervals = @ \ {d.ref}, !.ref = NoSub]

\* An answer is shown whatever was shown meanwhile; an error ends the polling.
checkStatus(p) ==
    LET d == [desk EXCEPT !.polls = @ \ {p}]
        told == [d EXCEPT !.shown = p.sub, !.status = p.answer,
                              !.wish = IF @ = "copy" THEN "submission" ELSE @]
    IN  /\ p.answer # "none"
        /\ Now(CASE p.answer = "failed" -> stopped(d)
                 [] p.answer \in Verdicts -> stopped(told)
                 [] OTHER -> told)

judge(s) ==
    /\ stored[s] = "Pending"
    /\ \E v \in Verdicts : stored' = [stored EXCEPT ![s] = v]
    /\ UNCHANGED <<desk, lost, habit>>

-----------------------------------------------------------------------------
(* The list of submissions, and the page itself.                           *)

\* Asked for when the tab is opened and there is none: the copies are not renewed.
fetchMySubmissions ==
    /\ "look" \in habit
    /\ \A s \in Sub : desk.mine[s] = "none"
    /\ Now([desk EXCEPT !.mine = stored])

viewResult ==
    \E s \in Sub :
        /\ desk.mine[s] # "none"
        /\ Now([desk EXCEPT !.shown = s, !.status = desk.mine[s], !.result = FALSE,
                            !.wish = "copy", !.hasty = @ \/ desk.posts # {}])

\* The problem with its samples, which replace the cases.
fetchProblem ==
    /\ desk.loads
    /\ Now([desk EXCEPT !.loads = FALSE, !.cases = <<"array">>, !.active = 1])

\* The history of the browser leads from one problem to another: the page stays, and its
\* effect takes down the timer it remembers.
changeProblem ==
    /\ ~desk.elsewhere /\ "history" \in habit
    /\ Now([desk EXCEPT !.intervals = @ \ {desk.ref}, !.elsewhere = TRUE, !.loads = TRUE])

leave == "leave" \in habit /\ Now(Desk)

fails ==
    /\ "faults" \in habit /\ lost < MaxFaults /\ lost' = lost + 1
    /\ \/ \E p \in desk.posts :
             desk' = [desk EXCEPT !.posts = (@ \ {p}) \cup {[p EXCEPT !.answer = "failed"]}]
       \/ \E p \in desk.polls :
             desk' = [desk EXCEPT !.polls = (@ \ {p}) \cup {[p EXCEPT !.answer = "failed"]}]
    /\ UNCHANGED <<stored, habit>>

PracticeNext ==
    \/ handleTestCaseChange \/ handleAddTestCase \/ handleRemoveTestCase \/ chooseTestCase
    \/ handleRun \/ runAnswered \/ handleSubmitClick
    \/ \E p \in desk.posts : submissionTaken(p) \/ submitted(p)
    \/ \E s \in Sub : poll(s) \/ judge(s)
    \/ \E p \in desk.polls : answerPoll(p) \/ checkStatus(p)
    \/ fetchMySubmissions \/ viewResult
    \/ fetchProblem \/ changeProblem \/ leave \/ fails

PracticeSpec == InitPractice /\ [][PracticeNext]_practice

-----------------------------------------------------------------------------

Settled == desk.posts = {} /\ desk.polls = {} /\ desk.intervals = {} /\ ~desk.running

\* However runs, submissions, their polling and results called up again overlap: there is
\* no timer but the one the page remembers, and when nothing is under way any more the
\* console ends on the last thing that was asked for or answered: the result of a run, one
\* called up, or the verdict of the last submission as it is stored (handleSubmitClick,
\* checkStatus).
\* The exceptions: a failed call; a result called up while a submission is being sent,
\* which lets a second one be sent and leaves a timer nobody clears; and a change of the
\* address to another problem, after which the page takes no submission any more.
ConsoleSettles ==
    /\ desk.active \in DOMAIN desk.cases
    /\ lost = 0 /\ ~desk.hasty /\ ~desk.elsewhere =>
          /\ desk.intervals \subseteq {desk.ref}
          /\ Settled =>
                CASE desk.wish = "run" -> desk.result
                  [] desk.wish = "copy" -> ~desk.result
                  [] desk.wish = "submission" ->
                        ~desk.result /\ desk.shown = desk.last /\ desk.status = stored[desk.last]
                  [] OTHER -> desk.shown = NoSub
=============================================================================
