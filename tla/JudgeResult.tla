---------------------------- MODULE JudgeResult ----------------------------
(***************************************************************************)
(* From what a program does on each test to the stored status, the fate of *)
(* its container and the answer to a partner.                              *)
(*                                                                         *)
(* There are three runners: one execution per test (central_runner.go),    *)
(* one execution for all tests, whose wrapper reports each test by a line  *)
(* on stderr (the batched one), and one execution per test with text on    *)
(* stdin (stdin_runner.go).  Times and texts are left out.                 *)
(***************************************************************************)
EXTENDS Filtered, SequencesExt

\* What becomes of one test: "floods" is a right answer with too much output,
\* "glue" one whose report is stuck to what the program wrote on stderr,
\* "stuck" one after which the memory limit cannot be reset; "exit", "killed"
\* (status 137) and "hangs" end the process without a report.
Prompt == {"pass", "wrong", "throws", "oom", "floods", "glue", "stuck",
           "exit", "killed", "hangs"}

\* "slow" is a right answer that comes, but after the time limit of a test.
Behaviour == Prompt \cup {"slow"}
Ends == {"exit", "killed", "hangs"}

-----------------------------------------------------------------------------
(* Details, and the status of a result.                                    *)

Passed(test) == [test |-> test, passed |-> TRUE, type |-> ""]
markTestFailed(test, type) == [test |-> test, passed |-> FALSE, type |-> type]

\* Defect: a wrong answer counts before an error.
UpdateStatusWrongFirst(details) ==
    LET has(type) == \E i \in DOMAIN details : details[i].type = type
    IN  CASE has("wrong_answer") -> "Wrong Answer"
          [] has("timeout") -> "Time Limit Exceeded"
          [] has("memory_limit") -> "Memory Limit Exceeded"
          [] has("runtime") -> "Runtime Error"
          [] OTHER -> "Accepted"

UpdateStatus(details) ==
    LET has(type) == \E i \in DOMAIN details : details[i].type = type
    IN  CASE has("timeout") -> "Time Limit Exceeded"
          [] ~has("timeout") /\ has("memory_limit") -> "Memory Limit Exceeded"
          [] ~has("timeout") /\ ~has("memory_limit") /\ has("runtime") -> "Runtime Error"
          [] \A i \in DOMAIN details : details[i].passed -> "Accepted"
          [] OTHER -> "Wrong Answer"

Result(details, internal) ==
    [details |-> details, status |-> UpdateStatus(details), internal |-> internal]

-----------------------------------------------------------------------------
(* One execution per test.                                                 *)

Single(test, b) ==
    CASE b = "pass" -> Passed(test)
      [] b \in {"wrong", "floods"} -> markTestFailed(test, "wrong_answer")
      [] b \in {"oom", "killed"} -> markTestFailed(test, "memory_limit")
      [] b \in {"hangs", "slow"} -> markTestFailed(test, "timeout")
      [] OTHER -> markTestFailed(test, "runtime")

\* The later error overwrites the earlier one.
InternalError(program) ==
    LET blames == {i \in DOMAIN program : program[i] \in {"exit", "stuck", "glue"}}
    IN  CASE blames = {} -> ""
          [] blames # {} /\ program[Max(blames)] = "glue" -> "judge_error"
          [] OTHER -> "wrapper_error"

PerTest(program) ==
    Result([i \in DOMAIN program |-> Single(i, program[i])], InternalError(program))

\* There is no wrapper to report, or to blame.
Stdin(program) == Result([i \in DOMAIN program |-> Single(i, program[i])], "")

-----------------------------------------------------------------------------
(* One execution for all.                                                  *)

\* No test has a limit of its own there: all share (tests + 1) times the limit, so that a
\* late answer is as good as any, unless what is before the test `due' has used up their
\* time (0: they have enough).
InOneGo(program, due) ==
    [i \in DOMAIN program |->
        CASE i = due -> "hangs"
          [] i # due /\ program[i] = "slow" -> "pass"
          [] OTHER -> program[i]]

\* The test that ends the process, or one past the last.
Stop(program) == Min({i \in DOMAIN program : program[i] \in Ends} \cup {Len(program) + 1})

\* The reports the judge can make out, in the order they were written.
Reports(program) ==
    Kept([i \in DOMAIN program |-> [test |-> i, b |-> program[i]]],
         {i \in DOMAIN program : i < Stop(program) /\ program[i] # "glue"})

Batch(report) ==
    CASE report.b \in {"pass", "floods", "stuck"} -> Passed(report.test)
      [] report.b = "wrong" -> markTestFailed(report.test, "wrong_answer")
      [] report.b = "oom" -> markTestFailed(report.test, "memory_limit")
      [] report.b = "throws" -> markTestFailed(report.test, "runtime")

\* The execution ends in an error of its own.
RunError(program) ==
    LET stop == Stop(program)
    IN  CASE stop <= Len(program) /\ program[stop] = "hangs" -> "timeout"
          [] stop <= Len(program) /\ program[stop] # "hangs" -> "failed"
          [] stop > Len(program) /\ Contains(program, "stuck") -> "failed"
          [] OTHER -> "none"

\* Why the tests without a report have failed.
RemainingReason(program, processed) ==
    CASE RunError(program) = "timeout" -> [type |-> "timeout", internal |-> ""]
      [] RunError(program) # "timeout" /\ (RunError(program) = "failed" \/ processed < Len(program))
           -> [type |-> "runtime", internal |-> "wrapper_error"]
      [] OTHER -> [type |-> "none", internal |-> ""]

\* They are taken to be the last ones.
appendMissingBatchedResults(details, total, reason) ==
    details \o (IF reason.type = "none" THEN <<>>
                ELSE [k \in 1..(total - Len(details)) |->
                        markTestFailed(Len(details) + k, reason.type)])

\* The judge takes what it reads of stderr while a goroutine still fills the
\* buffer: any number of the reports.
Batched(program, read) ==
    LET got    == [i \in 1..read |-> Batch(Reports(program)[i])]
        reason == RemainingReason(program, read)
    IN  Result(appendMissingBatchedResults(got, Len(program), reason), reason.internal)

-----------------------------------------------------------------------------
(* What becomes of a result.                                               *)

StoredStatus(result) ==
    CASE result.status = "Accepted" -> "Success"
      [] result.status = "Wrong Answer" -> "Fail"
      [] OTHER -> "Error"

\* Defect: a container that ran out of memory is used again.
shouldDiscardTimeouts(result) ==
    result.status = "Time Limit Exceeded" \/ result.internal = "wrapper_error"

shouldDiscardContainer(result) ==
    \/ result.status \in {"Time Limit Exceeded", "Memory Limit Exceeded"}
    \/ result.internal = "wrapper_error"

\* A failed detail of the judge always has an error: the verdict of the whole
\* submission is never needed.
mapCaseVerdict(detail) ==
    CASE detail.type = "timeout" -> "Time Limit Exceeded"
      [] detail.type = "memory_limit" -> "Memory Limit Exceeded"
      [] detail.passed -> "Accepted"
      [] detail.type = "wrong_answer" -> "Wrong Answer"
      [] OTHER -> "Runtime Error"

mapSubmissionToArventiqVerdict(result) ==
    [verdict |-> result.status,
     cases   |-> [i \in DOMAIN result.details |-> mapCaseVerdict(result.details[i])]]
=============================================================================
