------------------------- MODULE AssessmentAttempt -------------------------
(***************************************************************************)
(* One student's attempt at an assessment, as the handlers of              *)
(* assessments.service.js and validateAssessmentSubmission of              *)
(* submissions.service.js keep it in MongoDB.                              *)
(*                                                                         *)
(* A handler reads the attempt, decides on that copy, and writes with an   *)
(* unconditional update after one or more awaits.  Every await is a        *)
(* boundary between two actions, so the requests of the student, of a      *)
(* second tab and of the faculty interleave there.  The read of the        *)
(* assessment is one step with what follows it up to the next await.       *)
(* The timeline, the timestamps and the audit log are written with the     *)
(* updates below and never read by a decision: they are left out.          *)
(***************************************************************************)
EXTENDS Integers, FiniteSets, FiniteSetsExt

CONSTANTS
    Request,    \* requests that may be in flight together
    Problem,    \* problems of the assessment
    Sub,        \* submissions the student may make
    ProblemOf,  \* [Sub -> Problem]
    MaxScore,   \* [Problem -> Nat]
    Duration,   \* durationMinutes the assessment is created with
    EndTime,    \* its endTime; its startTime is 0
    Grants,     \* minutes the faculty may add at a time
    Edits,      \* [status, problems, start, end, duration] the faculty may save
    Mixes,      \* bound: the sets of operations clients call in one behaviour
    MaxTime,    \* bound on the clock
    MaxGrace,   \* bound on granted minutes
    MaxFlags,   \* bound on anti-cheating events
    MaxFaults   \* bound on database calls that fail

ASSUME AttemptAssumption ==
    /\ IsFiniteSet(Problem) /\ IsFiniteSet(Sub)
    /\ ProblemOf \in [Sub -> Problem]
    /\ MaxScore \in [Problem -> Nat]
    /\ Duration \in Nat /\ EndTime \in Nat
    /\ \A e \in Edits : {e.start, e.end, e.duration} \subseteq Nat
    /\ Grants \subseteq Nat
    /\ MaxTime \in Nat /\ MaxGrace \in Nat /\ MaxFlags \in Nat /\ MaxFaults \in Nat

VARIABLES
    now,         \* the clock
    assessment,  \* [status, locked, problems, start, end, duration]
    attempt,     \* the stored attempt
    verdict,     \* the stored status of each submission, "none" before it exists
    req,         \* where each request is, and the copies it holds
    ops,         \* the operations clients call in this behaviour
    faults       \* database calls that have failed

vars == <<now, assessment, attempt, verdict, req, ops, faults>>

Final == {"Submitted", "TimedOut"}
Places == {"idle", "create", "event", "get", "expire", "submit", "recalc", "tally",
           "score", "close", "draft", "grace", "raise", "resolve", "solve",
           "refuse", "store"}

\* `was', `grace' and `challenge' are the handler's copy of the attempt, `time'
\* what it found when it compared the clock with the end, `num' a value it has
\* computed or read, `arg' what it will do with it.
Idle == [at |-> "idle", was |-> "None", grace |-> 0, challenge |-> "None",
         time |-> "unchecked", num |-> 0, arg |-> "none"]

Init ==
    /\ now = 0
    /\ assessment = [status |-> "Published", locked |-> FALSE, problems |-> Problem,
                     start |-> 0, end |-> EndTime, duration |-> Duration]
    /\ attempt = [status |-> "None", startedAt |-> 0, grace |-> 0, score |-> 0,
                  draft |-> 0, flags |-> 0, challenge |-> "None"]
    /\ verdict = [s \in Sub |-> "none"]
    /\ req = [r \in Request |-> Idle]
    /\ ops \in Mixes
    /\ faults = 0

-----------------------------------------------------------------------------
(* Helpers.                                                                *)

\* getExpirationTime, for a copy that holds `grace' minutes and the assessment as
\* it is stored now.
getExpirationTime(grace) ==
    Min({attempt.startedAt + assessment.duration + grace, assessment.end + grace})

isAttemptExpired(grace) == now > getExpirationTime(grace)

\* getAttemptExpiration of submissions.service.js.
getAttemptExpiration(grace) ==
    Min({attempt.startedAt + assessment.duration + grace, assessment.end + grace})

Found == assessment.status # "Deleted"

\* The score the accepted submissions are worth.
Worth ==
    LET solved == {p \in assessment.problems :
                    \E s \in Sub : ProblemOf[s] = p /\ verdict[s] = "Success"}
    IN  MapThenSumSet(LAMBDA p : MaxScore[p], solved)

\* The first await of a handler: attemptsRepo.findById.
Opens(r, op) ==
    /\ req[r] = Idle /\ op \in ops /\ attempt.status # "None"
    /\ req' = [req EXCEPT ![r] = [Idle EXCEPT !.at = op, !.was = attempt.status,
                                    !.grace = attempt.grace,
                                    !.challenge = attempt.challenge]]
    /\ UNCHANGED <<now, assessment, attempt, verdict, ops, faults>>

Goes(r, to) == req' = [req EXCEPT ![r].at = to]
Ends(r) == req' = [req EXCEPT ![r] = Idle]

\* The handler ends with an update of the attempt.
Writes(r, place, a) ==
    /\ req[r].at = place /\ Ends(r)
    /\ attempt' = a
    /\ UNCHANGED <<now, assessment, verdict, ops, faults>>

-----------------------------------------------------------------------------
(* Starting, and the student's requests.                                   *)

startAssessment(r) ==
    /\ req[r] = Idle /\ "start" \in ops
    /\ assessment.status = "Published" /\ ~assessment.locked
    /\ assessment.start <= now /\ now <= assessment.end
    /\ attempt.status = "None"        \* otherwise it is returned as it is
    /\ req' = [req EXCEPT ![r] = [Idle EXCEPT !.at = "create", !.num = now]]
    /\ UNCHANGED <<now, assessment, attempt, verdict, ops, faults>>

\* Defect: the second of two concurrent starts replaces the document.
startAssessmentCreateOverwrites(r) ==
    Writes(r, "create", [attempt EXCEPT !.status = "Active", !.startedAt = req[r].num])

\* The unique index on assessment and student turns a second insertion into a read.
startAssessmentCreate(r) ==
    Writes(r, "create",
           IF attempt.status = "None"
           THEN [attempt EXCEPT !.status = "Active", !.startedAt = req[r].num]
           ELSE attempt)

logAntiCheatingEvent(r) ==
    /\ Opens(r, "event") /\ attempt.status = "Active"
    /\ attempt.flags + Cardinality({x \in Request : req[x].at = "event"}) < MaxFlags

\* One update increments the counter and extends the timeline.
logAntiCheatingEventWrite(r) ==
    Writes(r, "event", [attempt EXCEPT !.flags = @ + 1])

saveDraft(r) == Opens(r, "draft") /\ attempt.status = "Active"

\* Defect: the draft is saved with the document that was read.
saveDraftWriteWhole(r) ==
    Writes(r, "draft", [attempt EXCEPT !.draft = 1 - @, !.status = req[r].was])

saveDraftWrite(r) == Writes(r, "draft", [attempt EXCEPT !.draft = 1 - @])

-----------------------------------------------------------------------------
(* Scores.                                                                 *)

\* recalculateAttemptScore is three awaits inside its callers.
recalculateAttemptScore(r) ==
    /\ req[r].at = "recalc"
    /\ req' = [req EXCEPT ![r].at = "tally", ![r].num = attempt.score]
    /\ UNCHANGED <<now, assessment, attempt, verdict, ops, faults>>

\* What the caller does next: return, or close the attempt.
Returns(r) == IF req[r].arg = "none" THEN Idle ELSE [req[r] EXCEPT !.at = "close", !.num = 0]

\* Defect: a score is only ever raised.
recalculateTallyOnlyRaises(r) ==
    /\ req[r].at = "tally"
    /\ req' = [req EXCEPT ![r] = IF ~Found \/ Worth <= @.num THEN Returns(r)
                                 ELSE [@ EXCEPT !.at = "score", !.num = Worth]]
    /\ UNCHANGED <<now, assessment, attempt, verdict, ops, faults>>

recalculateTally(r) ==
    /\ req[r].at = "tally"
    /\ req' = [req EXCEPT ![r] = IF ~Found \/ Worth = @.num THEN Returns(r)
                                 ELSE [@ EXCEPT !.at = "score", !.num = Worth]]
    /\ UNCHANGED <<now, assessment, attempt, verdict, ops, faults>>

recalculateWrite(r) ==
    /\ req[r].at = "score"
    /\ attempt' = [attempt EXCEPT !.score = req[r].num]
    /\ req' = [req EXCEPT ![r] = Returns(r)]
    /\ UNCHANGED <<now, assessment, verdict, ops, faults>>

-----------------------------------------------------------------------------
(* Reading and closing.                                                    *)

getAssessmentAttemptById(r) == Opens(r, "get")

getCheck(r) ==
    /\ req[r].at = "get"
    /\ IF ~Found THEN Ends(r)
       ELSE req' = [req EXCEPT ![r] =
                IF @.was = "Active" /\ isAttemptExpired(@.grace)
                THEN [@ EXCEPT !.at = "expire", !.time = "over"]
                ELSE [@ EXCEPT !.at = "recalc"]]
    /\ UNCHANGED <<now, assessment, attempt, verdict, ops, faults>>

getExpire(r) ==
    /\ req[r].at = "expire" /\ Goes(r, "recalc")
    /\ attempt' = [attempt EXCEPT !.status = "TimedOut"]
    /\ UNCHANGED <<now, assessment, verdict, ops, faults>>

submitAssessment(r) == Opens(r, "submit") /\ attempt.status = "Active"

submitCheck(r) ==
    /\ req[r].at = "submit"
    /\ IF ~Found THEN Ends(r)
       ELSE req' = [req EXCEPT ![r] =
                IF isAttemptExpired(@.grace)
                THEN [@ EXCEPT !.at = "recalc", !.time = "over", !.arg = "TimedOut"]
                ELSE [@ EXCEPT !.at = "recalc", !.time = "open", !.arg = "Submitted"]]
    /\ UNCHANGED <<now, assessment, attempt, verdict, ops, faults>>

submitWrite(r) == Writes(r, "close", [attempt EXCEPT !.status = req[r].arg])

-----------------------------------------------------------------------------
(* Submitting a solution.                                                  *)

Free(p) == {s \in Sub : ProblemOf[s] = p /\ verdict[s] = "none"}

validateAssessmentSubmission(r) == Opens(r, "solve") /\ attempt.status = "Active"

validateCheck(r) ==
    /\ req[r].at = "solve"
    /\ \/ /\ ~Found \/ assessment.locked
          /\ Ends(r)
       \/ /\ Found /\ ~assessment.locked
          /\ now >= getAttemptExpiration(req[r].grace)
          /\ req' = [req EXCEPT ![r].at = "refuse", ![r].time = "over"]
       \/ /\ Found /\ ~assessment.locked
          /\ now < getAttemptExpiration(req[r].grace)
          /\ \/ \E p \in assessment.problems :
                  req' = [req EXCEPT ![r].at = "store", ![r].time = "open", ![r].arg = p]
             \/ Ends(r)   \* another problem, a language that is not allowed, a quota
    /\ UNCHANGED <<now, assessment, attempt, verdict, ops, faults>>

validateExpire(r) == Writes(r, "refuse", [attempt EXCEPT !.status = "TimedOut"])

\* The quotas, the plan and the problem are read before the submission is stored;
\* the bound on submissions turns further ones into nothing.
submitSolutionCreate(r) ==
    /\ req[r].at = "store" /\ Ends(r)
    /\ IF Free(req[r].arg) = {} THEN UNCHANGED verdict
       ELSE verdict' = [verdict EXCEPT ![CHOOSE s \in Free(req[r].arg) : TRUE] = "Pending"]
    /\ UNCHANGED <<now, assessment, attempt, ops, faults>>

\* The judge, and a rejudge of the assessment's submissions.
Judge(s) ==
    /\ verdict[s] = "Pending"
    /\ \E v \in {"Success", "Fail"} : verdict' = [verdict EXCEPT ![s] = v]
    /\ UNCHANGED <<now, assessment, attempt, req, ops, faults>>

rejudgeAssessmentSubmissions(s) ==
    /\ "rejudge" \in ops /\ verdict[s] \in {"Success", "Fail"}
    /\ verdict' = [verdict EXCEPT ![s] = "Pending"]
    /\ UNCHANGED <<now, assessment, attempt, req, ops, faults>>

-----------------------------------------------------------------------------
(* The faculty's requests.                                                 *)

setLocked(b) ==
    /\ "lock" \in ops /\ Found
    /\ assessment' = [assessment EXCEPT !.locked = b]
    /\ UNCHANGED <<now, attempt, verdict, req, ops, faults>>

\* The whole payload is stored, the times included, whoever is at work (and
\* deleteAssessment, a saved status "Deleted").
updateAssessment ==
    /\ "edit" \in ops /\ Found
    /\ \E e \in Edits :
          assessment' = [f \in DOMAIN assessment |->
                            IF f \in DOMAIN e THEN e[f] ELSE assessment[f]]
    /\ UNCHANGED <<now, attempt, verdict, req, ops, faults>>

addGraceTime(r) ==
    /\ Opens(r, "grace")
    /\ \E g \in Grants : attempt.grace + g <= MaxGrace

addGraceTimeWrite(r) ==
    \E g \in {m \in Grants : req[r].grace + m <= MaxGrace} :
        Writes(r, "grace",
               [attempt EXCEPT !.grace = req[r].grace + g,
                               !.status = IF req[r].was = "TimedOut" THEN "Active" ELSE @])

raiseChallenge(r) ==
    /\ Opens(r, "raise")
    /\ attempt.status # "Active" /\ attempt.challenge = "None"

raiseChallengeWrite(r) == Writes(r, "raise", [attempt EXCEPT !.challenge = "Raised"])

resolveChallenge(r) == Opens(r, "resolve") /\ attempt.challenge = "Raised"

resolveChallengeWrite(r) ==
    \E c \in {"Accepted", "Rejected"} :
        Writes(r, "resolve", [attempt EXCEPT !.challenge = c])

-----------------------------------------------------------------------------

Tick == /\ now < MaxTime /\ now' = now + 1
        /\ UNCHANGED <<assessment, attempt, verdict, req, ops, faults>>

\* A call to the database fails: the handler answers with an error where it is.
Fails(r) ==
    /\ "fail" \in ops /\ req[r] # Idle /\ faults < MaxFaults
    /\ faults' = faults + 1 /\ Ends(r)
    /\ UNCHANGED <<now, assessment, attempt, verdict, ops>>

Arrives(r) ==
    \/ startAssessment(r) \/ logAntiCheatingEvent(r) \/ saveDraft(r)
    \/ getAssessmentAttemptById(r) \/ submitAssessment(r)
    \/ validateAssessmentSubmission(r) \/ addGraceTime(r)
    \/ raiseChallenge(r) \/ resolveChallenge(r)

Serves(r) ==
    \/ startAssessmentCreate(r) \/ logAntiCheatingEventWrite(r) \/ saveDraftWrite(r)
    \/ recalculateAttemptScore(r) \/ recalculateTally(r) \/ recalculateWrite(r)
    \/ getCheck(r) \/ getExpire(r) \/ submitCheck(r) \/ submitWrite(r)
    \/ validateCheck(r) \/ validateExpire(r) \/ submitSolutionCreate(r)
    \/ addGraceTimeWrite(r) \/ raiseChallengeWrite(r) \/ resolveChallengeWrite(r)

Next ==
    \/ \E r \in Request : Arrives(r) \/ Serves(r) \/ Fails(r)
    \/ \E s \in Sub : Judge(s) \/ rejudgeAssessmentSubmissions(s)
    \/ \E b \in BOOLEAN : setLocked(b)
    \/ updateAssessment \/ Tick

Spec == Init /\ [][Next]_vars

\* The event loop resumes every handler whose call has come back.
FairSpec == Spec /\ \A r \in Request : WF_vars(Serves(r))

-----------------------------------------------------------------------------
(* Properties.                                                             *)

Stored == {s \in Sub : verdict[s] # "none"}

Promise == INSTANCE AttemptPromise WITH stored <- Stored

\* Whatever else is in flight, and however the faculty moves the end meanwhile,
\* each request does to the attempt what AttemptPromise allows on the copy it
\* read: a stale copy may close twice, write a late draft or lose minutes, but
\* only as the handler decided on an attempt it did read, and it writes no
\* other field of the attempt than its own (the unconditional updates of
\* assessments.service.js).
Promised ==
    [][\A r \in Request : req'[r] # req[r] =>
          /\ Promise!Reads(req[r], req'[r])
          /\ [Promise!Step(req[r])]_<<attempt, Stored>>]_vars

\* However many starts race, the clock of an attempt starts once (the unique
\* index behind startAssessment).
StartedOnce ==
    [][attempt.status # "None" =>
        attempt'.startedAt = attempt.startedAt /\ attempt'.status # "None"]_vars

FullScore == MapThenSumSet(LAMBDA p : MaxScore[p], Problem)

\* Once the verdicts and the problems rest at a score of v and the attempt goes
\* on being read, recalculateAttemptScore ends up storing v, although a slow
\* recalculation may store an older sum over a newer one first.
ScoreConverges ==
    \A v \in 0..FullScore :
        /\ <>[](Worth = v /\ Found /\ \A s \in Sub : verdict[s] # "Pending")
        /\ []<>(\E r \in Request : req[r].at = "tally")
        => <>[](attempt.score = v)
=============================================================================
