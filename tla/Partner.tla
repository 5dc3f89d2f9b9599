------------------------------ MODULE Partner ------------------------------
(***************************************************************************)
(* The doors for partners.  Arventiq (arventiq.service.js) synchronises    *)
(* its questions, submits solutions in the name of one shared account,     *)
(* polls their verdicts, and runs code without submitting it; codeAssess   *)
(* (codeAssessShim.service.js) runs a source file as Judge0 would.         *)
(*                                                                         *)
(* Every API process finds or creates the shared account once and keeps    *)
(* the promise of it.  There is one question here.                         *)
(***************************************************************************)
EXTENDS JudgeResult

CONSTANTS
    Api,       \* the processes
    Call,      \* bound: the requests at a time
    MaxHanded, \* bound: the submissions
    MaxSaves   \* bound: the versions of the question

VARIABLES
    account,   \* is the shared account in MongoDB?
    memo,      \* serviceUserIdPromise of a process: "none", "find", "create", "ready"
    question,  \* the synchronised problem, with the version its saves are checked by
    calls,     \* the requests under way
    handed,    \* the submissions
    refusal    \* history: has an answer 500 come for no reason, or a verdict been taken back?

partner == <<account, memo, question, calls, handed, refusal>>

NoCall == [op |-> "none"]
NoQuestionYet == [content |-> "none", version |-> 0]

InitPartner ==
    /\ account = FALSE /\ memo = [a \in Api |-> "none"]
    /\ question = NoQuestionYet /\ calls = [c \in Call |-> NoCall]
    /\ handed = <<>> /\ refusal = FALSE

-----------------------------------------------------------------------------
(* The shared account (getOrCreateServiceUserId).                          *)

Awaiting(a) == {c \in Call : calls[c].op # "none" /\ calls[c].api = a /\ calls[c].at = "account"}

\* A call of verifyArventiq with the right secret.
verifyArventiq ==
    /\ \E c \in Call, a \in Api, op \in {"sync", "submit", "result"} :
          /\ calls[c] = NoCall
          /\ calls' = [calls EXCEPT ![c] = [op |-> op, api |-> a, at |-> "account",
                                           found |-> NoQuestionYet, content |-> "none", excuse |-> FALSE]]
          /\ memo' = [memo EXCEPT ![a] = IF @ = "none" THEN "find" ELSE @]
    /\ UNCHANGED <<account, question, handed, refusal>>

findAccount ==
    /\ \E a \in Api :
          /\ memo[a] = "find"
          /\ memo' = [memo EXCEPT ![a] = IF account THEN "ready" ELSE "create"]
    /\ UNCHANGED <<account, question, calls, handed, refusal>>

createAccount ==
    /\ ~account
    /\ \E a \in Api : memo[a] = "create" /\ memo' = [memo EXCEPT ![a] = "ready"]
    /\ account' = TRUE
    /\ UNCHANGED <<question, calls, handed, refusal>>

\* Defect: the rejected promise is kept.
accountFailsForGood ==
    /\ \E a \in Api :
          /\ memo[a] \in {"find", "create"}
          /\ memo' = [memo EXCEPT ![a] = "failed"]
          /\ calls' = [c \in Call |-> IF c \in Awaiting(a) THEN NoCall ELSE calls[c]]
    /\ UNCHANGED <<account, question, handed, refusal>>

\* Another process was first (the address is unique), or MongoDB fails.  All who await the
\* promise are answered 500, and the next call begins anew.
accountFails ==
    /\ \E a \in Api :
          /\ memo[a] \in {"find", "create"}
          /\ memo' = [memo EXCEPT ![a] = "none"]
          /\ calls' = [c \in Call |-> IF c \in Awaiting(a) THEN NoCall ELSE calls[c]]
    /\ UNCHANGED <<account, question, handed, refusal>>

\* The promise is settled: go on, or be answered what it was rejected with.
authenticated ==
    /\ \E c \in Call :
          /\ calls[c].op # "none" /\ calls[c].at = "account"
          /\ \/ /\ memo[calls[c].api] = "ready"
                /\ \E content \in (IF calls[c].op = "sync" THEN {"v", "w", "hidden"} ELSE {"none"}) :
                      calls' = [calls EXCEPT ![c].at = "handler", ![c].content = content]
                /\ UNCHANGED refusal
             \/ /\ memo[calls[c].api] = "failed"
                /\ calls' = [calls EXCEPT ![c] = NoCall] /\ refusal' = TRUE
    /\ UNCHANGED <<account, memo, question, handed>>

-----------------------------------------------------------------------------
(* The handlers.                                                           *)

In(c, op, at) == calls[c].op = op /\ calls[c].at = at
answered(c) == calls' = [calls EXCEPT ![c] = NoCall]

\* A question without a visible test is turned away.
syncProblem ==
    /\ \E c \in Call :
          /\ In(c, "sync", "handler")
          /\ IF calls[c].content = "hidden" THEN answered(c)
             ELSE calls' = [calls EXCEPT ![c].at = "save", ![c].found = question]
    /\ UNCHANGED <<account, memo, question, handed, refusal>>

\* A save replaces the tests and is checked by the version; one that changes nothing may
\* be no write at all.  A second insert meets the unique externalId.  Both fail with 500,
\* and must have an excuse: another one was faster.
saveProblem ==
    /\ \E c \in Call :
          LET call == calls[c]
          IN  /\ In(c, "sync", "save")
              /\ \/ /\ question.version = call.found.version /\ question.version < MaxSaves
                    /\ question' = [content |-> call.content, version |-> question.version + 1]
                    /\ calls' = [d \in Call |->
                          CASE d = c -> NoCall
                            [] d # c /\ In(d, "sync", "save") -> [calls[d] EXCEPT !.excuse = TRUE]
                            [] OTHER -> calls[d]]
                    /\ UNCHANGED refusal
                 \/ /\ call.found.content = call.content
                    /\ answered(c) /\ UNCHANGED <<question, refusal>>
                 \/ /\ question.version # call.found.version
                    /\ answered(c) /\ UNCHANGED question
                    /\ refusal' = (refusal \/ ~call.excuse)
    /\ UNCHANGED <<account, memo, handed>>

\* A submission: due says that the worker has its entry of Redis still to write, early that
\* the verdict has been told meanwhile (history), told how the last answer ranks.
Submitted(ids) == [ids |-> ids, status |-> "Pending", due |-> FALSE, cache |-> "none",
                   told |-> 0, early |-> FALSE]

\* Refused while nothing is synchronised, and while the quota of a student is used up,
\* which is that of the account and so of all candidates.  The ids may be left out.
submitArventiqSolution ==
    /\ \E c \in Call :
          /\ In(c, "submit", "handler") /\ answered(c)
          /\ \/ UNCHANGED handed
             \/ /\ question # NoQuestionYet /\ Len(handed) < MaxHanded
                /\ \E ids \in BOOLEAN :
                      handed' = Append(handed, Submitted(ids))
    /\ UNCHANGED <<account, memo, question, refusal>>

\* The worker stores the result; if it has not given up, an entry of Redis is to follow.
resultStored ==
    /\ \E i \in DOMAIN handed, status \in {"Success", "Error"}, due \in BOOLEAN :
          /\ handed[i].status = "Pending"
          /\ handed' = [handed EXCEPT ![i].status = status, ![i].due = due]
    /\ UNCHANGED <<account, memo, question, calls, refusal>>

\* It puts an entry of its own there, over another one, if it can.
entryWritten ==
    /\ \E i \in DOMAIN handed : \E cache \in {handed[i].cache, "worker"} :
          /\ handed[i].due
          /\ handed' = [handed EXCEPT ![i].due = FALSE, ![i].cache = cache]
    /\ UNCHANGED <<account, memo, question, calls, refusal>>

entryExpires ==
    /\ \E i \in DOMAIN handed :
          /\ handed[i].cache # "none"
          /\ handed' = [handed EXCEPT ![i].cache = "none"]
    /\ UNCHANGED <<account, memo, question, calls, refusal>>

\* The ids are missing from what the worker writes: who reads that is answered 403.
Answer(s) ==
    CASE ~s.ids \/ s.cache = "worker" -> 403
      [] s.ids /\ s.cache # "worker" /\ s.status = "Pending" -> 202
      [] OTHER -> 200

\* 202, then 403, then 200: but who was told before the worker's entry may be refused while
\* the entry lives.
Order(answer) == CASE answer = 202 -> 1 [] answer = 403 -> 2 [] answer = 200 -> 3

\* getSubmissionById puts a result into Redis before the ids are looked at.
getArventiqSubmissionResult ==
    /\ \E c \in Call, i \in DOMAIN handed :
          LET s    == handed[i]
              rank == Order(Answer(s))
          IN  /\ In(c, "result", "handler") /\ answered(c)
              /\ handed' = [handed EXCEPT ![i] =
                    [s EXCEPT !.told = rank, !.early = @ \/ (s.due /\ Answer(s) = 200),
                              !.cache = IF @ = "none" /\ s.status = "Success" THEN "api" ELSE @]]
              /\ refusal' = (refusal \/ (rank < s.told /\ ~(s.early /\ Answer(s) = 403)))
    /\ UNCHANGED <<account, memo, question>>

PartnerNext ==
    \/ verifyArventiq \/ findAccount \/ createAccount \/ accountFails \/ authenticated
    \/ syncProblem \/ saveProblem \/ submitArventiqSolution
    \/ resultStored \/ entryWritten \/ entryExpires \/ getArventiqSubmissionResult

-----------------------------------------------------------------------------
(* One run of a program that works on text, through three doors.           *)

\* An output other than the empty one the test asks for is no error.
mapRunResult(b) ==
    LET type == Single(1, b).type
    IN  IF type \in {"timeout", "runtime", "memory_limit"} THEN type ELSE ""

\* handleRawRun: a status other than 0 is an error as well as an exit code; that the memory
\* limit could not be reset is only logged.  The time it is given is taken to be the test's.
rawRun(b) ==
    [timedOut |-> b \in {"hangs", "slow"}, oomKilled |-> b = "killed", error |-> b = "exit",
     exitCode |-> IF b = "exit" THEN 1 ELSE 0]

runRawCodeAssess(b) ==
    LET raw == rawRun(b)
    IN  CASE raw.timedOut -> "TIME_LIMIT_EXCEEDED"
          [] raw.oomKilled -> "RUNTIME_ERROR"
          [] raw.error -> "INTERNAL_ERROR"
          [] ~raw.timedOut /\ ~raw.oomKilled /\ ~raw.error /\ raw.exitCode # 0 -> "RUNTIME_ERROR"
          [] OTHER -> "ACCEPTED"

-----------------------------------------------------------------------------

\* A process that lost the race for the account, or could not reach MongoDB, serves the
\* next call; a synchronisation fails only if another one was under way; and what was told
\* of a submission is not taken back: after the result is stored no poll says pending again,
\* and a verdict that has been read stays readable, unless it was read before the worker
\* wrote its entry, which then refuses it as long as it lives (getOrCreateServiceUserId,
\* syncProblem, getArventiqSubmissionResult).
PartnerServed ==
    /\ ~refusal
    /\ \A a \in Api : memo[a] = "ready" => account
    /\ handed # <<>> => account /\ question # NoQuestionYet

\* The three doors tell of one execution alike: Run names an error if Submit does and it is
\* not a wrong answer, and codeAssess says accepted if Run names none.  Only a container
\* whose limit stays is no matter to codeAssess, and a program that fails by its own status
\* is told there as a failure of the judge (mapRunResult, mapCaseVerdict, runRawCodeAssess).
DoorsAgree(b) ==
    LET submit == mapCaseVerdict(Single(1, b))
        run    == mapRunResult(b)
        raw    == runRawCodeAssess(b)
    IN  /\ run = "" <=> submit \in {"Accepted", "Wrong Answer"}
        /\ b # "stuck" => (raw = "ACCEPTED" <=> run = "")
        /\ raw = "TIME_LIMIT_EXCEEDED" <=> submit = "Time Limit Exceeded"
        /\ raw = "RUNTIME_ERROR" <=> submit = "Memory Limit Exceeded"
=============================================================================
