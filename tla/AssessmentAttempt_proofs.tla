---------------------- MODULE AssessmentAttempt_proofs ----------------------
(***************************************************************************)
(* Theorems about a student's attempt, for any number of requests in       *)
(* flight, any problems, durations and edits of the faculty.               *)
(*                                                                         *)
(* Every handler works on a copy it has read before an await.  What makes  *)
(* the copy good enough is stated per request (Knows): which places of the *)
(* code are reached with which copy, and with which answer of the clock.   *)
(***************************************************************************)
EXTENDS AssessmentAttempt, TLAPS

Fields == {"status", "startedAt", "grace", "score", "draft", "flags", "challenge"}

CopyFields == {"at", "was", "grace", "challenge", "time", "num", "arg"}

AssessmentFields == {"status", "locked", "problems", "start", "end", "duration"}

\* The attempt's fields, but for the score, which is a sum over the problems.
AttemptType ==
    /\ now \in Nat
    /\ DOMAIN assessment = AssessmentFields
    /\ assessment.end \in Nat /\ assessment.duration \in Nat
    /\ DOMAIN attempt = Fields
    /\ attempt.status \in {"None", "Active"} \cup Final
    /\ attempt.startedAt \in Nat /\ attempt.grace \in Nat
    /\ DOMAIN req = Request
    /\ \A r \in Request : DOMAIN req[r] = CopyFields /\ req[r].grace \in Nat
    /\ DOMAIN verdict = Sub

\* Inside recalculateAttemptScore, called by a read or by a closing handler.
Recalculating == {"recalc", "tally", "score"}

\* The handler will close the attempt as timed out.
Closing(q) ==
    \/ q.at \in {"expire", "refuse"}
    \/ q.at \in Recalculating \cup {"close"} /\ q.arg = "TimedOut"

\* The handler decided on an attempt that was active.
DecidedOnActive(q) ==
    \/ q.at \in {"event", "draft", "expire", "submit", "solve", "refuse", "store", "close"}
    \/ q.at \in Recalculating /\ q.arg # "none"

\* What the place a request has reached says of its copy and of the attempt.
Knows(q) ==
    /\ q.at = "create" => q.was = "None" /\ q.num \in Nat
    /\ q.at \notin {"idle", "create"} => attempt.status # "None"
    /\ q.at \in {"get", "submit", "expire"} => q.arg = "none"
    /\ q.at \in Recalculating => q.arg \in {"none"} \cup Final
    /\ q.at = "close" => q.arg \in Final
    /\ DecidedOnActive(q) => q.was = "Active"
    /\ q.at = "raise" => q.was # "Active" /\ q.challenge = "None"
    /\ q.at = "resolve" => q.challenge = "Raised"
    /\ q.at \in {"event", "draft", "get", "submit", "solve"} => q.time = "unchecked"
    /\ Closing(q) => q.time = "over"
    /\ \/ q.at = "store"
       \/ q.at \in Recalculating \cup {"close"} /\ q.arg = "Submitted"
       => q.time = "open"

Copies == \A r \in Request : Knows(req[r])

IInv == AttemptType /\ Copies

-----------------------------------------------------------------------------
(* What the steps have in common. *)

LEMMA MinOfTwo ==
    ASSUME NEW m \in Int, NEW n \in Int
    PROVE  Min({m, n}) = IF m < n THEN m ELSE n
<1>1. \E x \in {m, n} : \A y \in {m, n} : x =< y
  BY SMT
<1>2. \A x \in {m, n} : (\A y \in {m, n} : x =< y) => x = IF m < n THEN m ELSE n
  BY SMT
<1>. QED
  BY <1>1, <1>2 DEF Min

\* Both services compute the end AttemptPromise speaks of.
LEMMA ExpirationTime ==
    ASSUME AttemptType, NEW g \in Nat
    PROVE  /\ Promise!Due(g) \in Int
           /\ getExpirationTime(g) = Promise!Due(g)
           /\ getAttemptExpiration(g) = Promise!Due(g)
<1>1. /\ attempt.startedAt + assessment.duration + g \in Int
      /\ assessment.end + g \in Int
  BY DEF AttemptType
<1>2. Min({attempt.startedAt + assessment.duration + g, assessment.end + g}) = Promise!Due(g)
  BY <1>1, MinOfTwo DEF Promise!Due, AttemptType
<1>. QED
  BY <1>2 DEF getExpirationTime, getAttemptExpiration, Promise!Due, AttemptType

\* A started attempt stays started, since when it was.
Kept ==
    attempt.status # "None" =>
        attempt'.startedAt = attempt.startedAt /\ attempt'.status # "None"

\* What a request knows outlasts the steps of the others.
LEMMA KnowsFrame ==
    ASSUME AttemptType, AttemptType', Kept, NEW r \in Request, Knows(req[r]), req'[r] = req[r]
    PROVE  Knows(req[r])'
<1>1. Closing(req[r])' <=> Closing(req[r])
  BY DEF Closing
<1>2. DecidedOnActive(req[r])' <=> DecidedOnActive(req[r])
  BY DEF DecidedOnActive
<1>. QED
  BY <1>1, <1>2 DEF Knows, Kept

-----------------------------------------------------------------------------
(* The copies, step by step. *)

\* A step of r keeps the types, the start and the clock, moves r only, and
\* leaves r with a copy that is good enough for where it is.
Sound(r) ==
    /\ AttemptType' /\ Kept
    /\ \A x \in Request \ {r} : req'[x] = req[x]
    /\ Knows(req[r])'

\* The first await of a handler copies the attempt.
LEMMA OpensSound ==
    ASSUME IInv, NEW r \in Request,
           NEW op \in {"event", "get", "submit", "draft", "grace", "raise", "resolve", "solve"},
           Opens(r, op),
           op \in {"event", "submit", "draft", "solve"} => attempt.status = "Active",
           op = "raise" => attempt.status # "Active" /\ attempt.challenge = "None",
           op = "resolve" => attempt.challenge = "Raised"
    PROVE  Sound(r)
<1> DEFINE q == req'[r]
<1>1. /\ DOMAIN q = CopyFields
      /\ q.at = op /\ q.was = attempt.status /\ q.grace = attempt.grace
      /\ q.challenge = attempt.challenge /\ q.num = 0 /\ q.arg = "none"
      /\ q.time = "unchecked"
      /\ attempt.status # "None"
  BY DEF Opens, Idle, IInv, AttemptType, CopyFields
<1>2. /\ UNCHANGED <<now, assessment, attempt, verdict>> /\ DOMAIN req' = Request
      /\ \A x \in Request \ {r} : req'[x] = req[x]
  BY DEF Opens, IInv, AttemptType
<1>3. AttemptType'
  BY <1>1, <1>2 DEF IInv, AttemptType
<1>4. Kept
  BY <1>2 DEF Kept, IInv, AttemptType
<1>5. Knows(req[r])'
  BY <1>1, <1>2 DEF Knows, Closing, DecidedOnActive, Recalculating
<1>. QED
  BY <1>2, <1>3, <1>4, <1>5 DEF Sound

LEMMA ArrivesSound ==
    ASSUME IInv, NEW r \in Request, Arrives(r)
    PROVE  Sound(r)
<1>1. CASE startAssessment(r)
  <2> DEFINE q == req'[r]
  <2>1. /\ DOMAIN q = CopyFields
        /\ q.at = "create" /\ q.was = "None" /\ q.grace = 0
        /\ q.challenge = "None" /\ q.num = now /\ q.arg = "none"
    BY <1>1 DEF startAssessment, Idle, IInv, AttemptType, CopyFields
  <2>2. /\ UNCHANGED <<now, assessment, attempt, verdict>> /\ DOMAIN req' = Request
        /\ \A x \in Request \ {r} : req'[x] = req[x]
    BY <1>1 DEF startAssessment, IInv, AttemptType
  <2>3. AttemptType' /\ Kept
    BY <2>1, <2>2 DEF Kept, IInv, AttemptType
  <2>4. Knows(req[r])'
    BY <2>1, <2>2 DEF Knows, Closing, DecidedOnActive, Recalculating, IInv, AttemptType
  <2>. QED
    BY <2>2, <2>3, <2>4 DEF Sound
<1>2. CASE ~startAssessment(r)
  BY <1>2, OpensSound
  DEF Arrives, logAntiCheatingEvent, saveDraft, getAssessmentAttemptById, submitAssessment,
      validateAssessmentSubmission, addGraceTime, raiseChallenge, resolveChallenge
<1>. QED
  BY <1>1, <1>2

\* A handler that ends with an update of the attempt, or with an error.
LEMMA EndsSound ==
    ASSUME IInv, NEW r \in Request, Ends(r), AttemptType', Kept
    PROVE  Sound(r)
<1>1. req'[r] = Idle /\ \A x \in Request \ {r} : req'[x] = req[x]
  BY DEF Ends, IInv, AttemptType
<1>2. Knows(req[r])'
  BY <1>1 DEF Knows, Idle, Closing, DecidedOnActive, Recalculating
<1>. QED
  BY <1>1, <1>2 DEF Sound

\* Scores: the copy is not touched, and it is kept for the closing handler.
LEMMA ScoresSound ==
    ASSUME IInv, NEW r \in Request,
           recalculateAttemptScore(r) \/ recalculateTally(r) \/ recalculateWrite(r)
    PROVE  Sound(r)
<1> DEFINE q == req'[r]
<1>0. /\ DOMAIN req[r] = CopyFields /\ req[r].at \in Recalculating /\ Knows(req[r])
      /\ req[r].arg \in {"none"} \cup Final /\ req[r].grace \in Nat
      /\ DOMAIN req = Request /\ DOMAIN attempt = Fields
  BY DEF IInv, AttemptType, Copies, Knows, recalculateAttemptScore, recalculateTally,
         recalculateWrite, Recalculating
<1>1. /\ UNCHANGED <<now, assessment, verdict>> /\ DOMAIN attempt' = Fields
      /\ \A f \in Fields \ {"score"} : attempt'[f] = attempt[f]
  BY <1>0 DEF recalculateAttemptScore, recalculateTally, recalculateWrite, IInv
<1>2. /\ \A x \in Request \ {r} : req'[x] = req[x]
      /\ DOMAIN req' = Request
  BY <1>0 DEF recalculateAttemptScore, recalculateTally, recalculateWrite
<1>3. \/ q = Idle
      \/ /\ DOMAIN q = CopyFields
         /\ q.was = req[r].was /\ q.grace = req[r].grace /\ q.arg = req[r].arg
         /\ q.time = req[r].time
         /\ q.at \in Recalculating \/ (q.at = "close" /\ q.arg # "none")
  <2>1. CASE recalculateAttemptScore(r)
    <3>1. q = [req[r] EXCEPT !.at = "tally", !.num = attempt.score]
      BY <1>0, <2>1 DEF recalculateAttemptScore
    <3>. QED
      BY <1>0, <3>1 DEF CopyFields, Recalculating
  <2>2. CASE recalculateTally(r)
    <3>1. q = Returns(r) \/ q = [req[r] EXCEPT !.at = "score", !.num = Worth]
      BY <1>0, <2>2 DEF recalculateTally
    <3>. QED
      BY <1>0, <3>1 DEF CopyFields, Recalculating, Returns
  <2>3. CASE recalculateWrite(r)
    <3>1. q = Returns(r)
      BY <1>0, <2>3 DEF recalculateWrite
    <3>. QED
      BY <1>0, <3>1 DEF CopyFields, Recalculating, Returns
  <2>. QED
    BY <2>1, <2>2, <2>3
<1>4. DOMAIN q = CopyFields /\ q.grace \in Nat
  BY <1>0, <1>3 DEF CopyFields, Idle
<1>5. /\ attempt'.status = attempt.status /\ attempt'.startedAt = attempt.startedAt
      /\ attempt'.grace = attempt.grace
  BY <1>1 DEF Fields
<1>6. AttemptType' /\ Kept
  BY <1>1, <1>2, <1>4, <1>5 DEF IInv, AttemptType, Kept
<1>7. Knows(req[r])'
  <2>1. CASE q = Idle
    BY <2>1 DEF Knows, Idle, Closing, DecidedOnActive, Recalculating
  <2>2. CASE q # Idle
    <3>1. /\ q.arg = "TimedOut" => q.time = "over"
          /\ q.arg = "Submitted" => q.time = "open"
      BY <1>0, <1>3, <2>2 DEF Knows, Closing
    <3>2. q.arg # "none" => q.was = "Active"
      BY <1>0, <1>3, <2>2 DEF DecidedOnActive, Knows
    <3>3. attempt'.status # "None"
      BY <1>0, <1>5 DEF Knows, Recalculating
    <3>. QED
      BY <1>0, <1>3, <2>2, <3>1, <3>2, <3>3
      DEF Knows, Recalculating, Closing, DecidedOnActive
  <2>. QED
    BY <2>1, <2>2
<1>. QED
  BY <1>2, <1>6, <1>7 DEF Sound

\* What a check of the clock leaves in the request: the copy, where it goes on,
\* and what the clock said of the end.
Checked(r) ==
    \/ req'[r] = Idle
    \/ /\ DOMAIN req'[r] = CopyFields
       /\ req'[r].was = req[r].was /\ req'[r].grace = req[r].grace
       /\ req'[r].challenge = req[r].challenge
       /\ \/ /\ req'[r].at = "recalc" /\ req'[r].arg = "none"
             /\ req'[r].time = req[r].time
          \/ /\ req[r].was = "Active" /\ req'[r].time = "over"
             /\ now >= Promise!Due(req[r].grace)
             /\ \/ req'[r].at \in {"expire", "refuse"} /\ req'[r].arg = "none"
                \/ req'[r].at = "recalc" /\ req'[r].arg = "TimedOut"
          \/ /\ req[r].was = "Active" /\ req'[r].time = "open"
             /\ now =< Promise!Due(req[r].grace)
             /\ \/ req'[r].at = "store"
                \/ req'[r].at = "recalc" /\ req'[r].arg = "Submitted"

LEMMA CheckedClock ==
    ASSUME IInv, NEW r \in Request, getCheck(r) \/ submitCheck(r) \/ validateCheck(r)
    PROVE  Checked(r) /\ req[r].time = "unchecked"
<1>0. /\ DOMAIN req[r] = CopyFields /\ req[r].at \in {"get", "submit", "solve"}
      /\ Knows(req[r]) /\ req[r].grace \in Nat
      /\ DOMAIN req = Request /\ now \in Nat
  BY DEF IInv, AttemptType, Copies, getCheck, submitCheck, validateCheck
<1>1. /\ getExpirationTime(req[r].grace) = Promise!Due(req[r].grace)
      /\ getAttemptExpiration(req[r].grace) = Promise!Due(req[r].grace)
      /\ Promise!Due(req[r].grace) \in Int
  BY <1>0, ExpirationTime DEF IInv
<1>2. CASE getCheck(r)
  <2>1. \/ req'[r] = Idle
        \/ /\ req[r].was = "Active" /\ now > Promise!Due(req[r].grace)
           /\ req'[r] = [req[r] EXCEPT !.at = "expire", !.time = "over"]
        \/ req'[r] = [req[r] EXCEPT !.at = "recalc"]
    BY <1>0, <1>1, <1>2 DEF getCheck, Ends, isAttemptExpired
  <2>2. req[r].time = "unchecked" /\ req[r].arg = "none"
    BY <1>0, <1>2 DEF getCheck, Knows
  <2>3. now > Promise!Due(req[r].grace) => now >= Promise!Due(req[r].grace)
    BY <1>0, <1>1
  <2>. QED
    BY <1>0, <2>1, <2>2, <2>3 DEF CopyFields, Checked
<1>3. CASE submitCheck(r)
  <2>1. \/ req'[r] = Idle
        \/ /\ now > Promise!Due(req[r].grace)
           /\ req'[r] = [req[r] EXCEPT !.at = "recalc", !.time = "over", !.arg = "TimedOut"]
        \/ /\ ~(now > Promise!Due(req[r].grace))
           /\ req'[r] = [req[r] EXCEPT !.at = "recalc", !.time = "open", !.arg = "Submitted"]
    BY <1>0, <1>1, <1>3 DEF submitCheck, Ends, isAttemptExpired
  <2>2. req[r].was = "Active" /\ req[r].time = "unchecked"
    BY <1>0, <1>3 DEF submitCheck, Knows, DecidedOnActive
  <2>3. IF now > Promise!Due(req[r].grace) THEN now >= Promise!Due(req[r].grace)
                                           ELSE now =< Promise!Due(req[r].grace)
    BY <1>0, <1>1
  <2>. QED
    BY <1>0, <2>1, <2>2, <2>3 DEF CopyFields, Checked
<1>4. CASE validateCheck(r)
  BY <1>0, <1>1, <1>4 DEF validateCheck, Ends, Knows, CopyFields, DecidedOnActive, Checked
<1>. QED
  BY <1>0, <1>2, <1>3, <1>4 DEF Knows

\* The copies stay good through such a check.
LEMMA ChecksSound ==
    ASSUME IInv, NEW r \in Request, getCheck(r) \/ submitCheck(r) \/ validateCheck(r)
    PROVE  Sound(r)
<1> DEFINE q == req'[r]
<1>0. /\ DOMAIN req[r] = CopyFields /\ req[r].at \in {"get", "submit", "solve"}
      /\ Knows(req[r]) /\ req[r].grace \in Nat
      /\ DOMAIN req = Request /\ now \in Nat /\ attempt.status # "None"
  BY DEF IInv, AttemptType, Copies, Knows, getCheck, submitCheck, validateCheck
<1>1. UNCHANGED <<now, assessment, attempt, verdict>>
  BY DEF getCheck, submitCheck, validateCheck
<1>2. /\ \A x \in Request \ {r} : req'[x] = req[x]
      /\ DOMAIN req' = Request
  BY <1>0 DEF getCheck, submitCheck, validateCheck, Ends
<1>4. Checked(r)
  BY CheckedClock
<1>5. DOMAIN q = CopyFields /\ q.grace \in Nat
  BY <1>0, <1>4 DEF CopyFields, Idle, Checked
<1>6. AttemptType' /\ Kept
  BY <1>1, <1>2, <1>5 DEF IInv, AttemptType, Kept
<1>8. Knows(req[r])'
  BY <1>0, <1>1, <1>4
  DEF Knows, Idle, Closing, DecidedOnActive, Recalculating, Final, Checked
<1>. QED
  BY <1>2, <1>6, <1>8 DEF Sound

\* A write of a field no copy depends on, or one that keeps a started attempt
\* started.
LEMMA WritesSound ==
    ASSUME IInv, NEW r \in Request,
           \/ startAssessmentCreate(r) \/ logAntiCheatingEventWrite(r) \/ saveDraftWrite(r)
           \/ submitWrite(r) \/ validateExpire(r) \/ addGraceTimeWrite(r)
           \/ raiseChallengeWrite(r) \/ resolveChallengeWrite(r)
    PROVE  Sound(r)
<1>0. /\ Knows(req[r]) /\ req[r].grace \in Nat /\ now \in Nat
      /\ DOMAIN attempt = Fields /\ attempt.status \in {"None", "Active"} \cup Final
      /\ attempt.startedAt \in Nat /\ attempt.grace \in Nat
  BY DEF IInv, AttemptType, Copies
<1>1. ASSUME NEW place, NEW a, Writes(r, place, a), DOMAIN a = Fields,
             a.status \in {"None", "Active"} \cup Final, a.startedAt \in Nat, a.grace \in Nat,
             attempt.status # "None" => a.status # "None" /\ a.startedAt = attempt.startedAt
      PROVE  Sound(r)
  <2>1. /\ UNCHANGED <<now, assessment, verdict>> /\ attempt' = a /\ Ends(r)
        /\ DOMAIN req' = Request
        /\ \A x \in Request : req'[x] = IF x = r THEN Idle ELSE req[x]
    BY <1>1 DEF Writes, Ends, IInv, AttemptType
  <2>2. DOMAIN Idle = CopyFields /\ Idle.grace \in Nat
    BY DEF Idle, CopyFields
  <2>3. AttemptType'
    BY <1>1, <2>1, <2>2 DEF IInv, AttemptType
  <2>4. Kept
    BY <1>0, <1>1, <2>1 DEF Kept
  <2>. QED
    BY <2>1, <2>3, <2>4, EndsSound
<1>2. CASE startAssessmentCreate(r)
  <2>1. req[r].at = "create" /\ req[r].num \in Nat
    BY <1>0, <1>2 DEF startAssessmentCreate, Writes, Knows
  <2>2. CASE attempt.status = "None"
    <3> DEFINE a == [attempt EXCEPT !.status = "Active", !.startedAt = req[r].num]
    <3>1. Writes(r, "create", a)
      BY <1>2, <2>2 DEF startAssessmentCreate
    <3>2. /\ DOMAIN a = Fields /\ a.status = "Active" /\ a.startedAt \in Nat
          /\ a.grace = attempt.grace
      BY <1>0, <2>1 DEF Fields
    <3> HIDE DEF a
    <3>. QED
      BY <1>0, <1>1, <2>2, <3>1, <3>2
  <2>3. CASE attempt.status # "None"
    <3>1. Writes(r, "create", attempt)
      BY <1>2, <2>3 DEF startAssessmentCreate
    <3>. QED
      BY <1>0, <1>1, <3>1
  <2>. QED
    BY <2>2, <2>3
<1>3. ASSUME NEW place, NEW a, Writes(r, place, a), place \notin {"idle", "create"},
             DOMAIN a = Fields, a.startedAt = attempt.startedAt,
             a.status \in {"Active"} \cup Final \/ a.status = attempt.status,
             a.grace \in Nat
      PROVE  Sound(r)
  <2>1. attempt.status # "None"
    BY <1>0, <1>3 DEF Writes, Knows
  <2>2. a.status \in {"Active"} \cup Final /\ "None" \notin {"Active"} \cup Final
    BY <1>0, <1>3, <2>1 DEF Final
  <2>. QED
    BY <1>0, <1>1, <1>3, <2>1, <2>2
<1>4. CASE logAntiCheatingEventWrite(r)
  BY <1>0, <1>3, <1>4 DEF logAntiCheatingEventWrite, Fields
<1>5. CASE saveDraftWrite(r)
  BY <1>0, <1>3, <1>5 DEF saveDraftWrite, Fields
<1>6. CASE submitWrite(r)
  <2>1. req[r].arg \in Final
    BY <1>0, <1>6 DEF submitWrite, Writes, Knows
  <2>. QED
    BY <1>0, <1>3, <1>6, <2>1 DEF submitWrite, Fields
<1>7. CASE validateExpire(r)
  BY <1>0, <1>3, <1>7 DEF validateExpire, Fields, Final
<1>8. CASE addGraceTimeWrite(r)
  <2>1. PICK g \in Grants :
          Writes(r, "grace", [attempt EXCEPT !.grace = req[r].grace + g,
                                !.status = IF req[r].was = "TimedOut" THEN "Active" ELSE @])
    BY <1>8 DEF addGraceTimeWrite
  <2>2. req[r].grace + g \in Nat
    BY <1>0, AttemptAssumption
  <2>. QED
    BY <1>0, <1>3, <2>1, <2>2 DEF Fields
<1>9. CASE raiseChallengeWrite(r)
  BY <1>0, <1>3, <1>9 DEF raiseChallengeWrite, Fields
<1>10. CASE resolveChallengeWrite(r)
  BY <1>0, <1>3, <1>10 DEF resolveChallengeWrite, Fields
<1>. QED
  BY <1>2, <1>4, <1>5, <1>6, <1>7, <1>8, <1>9, <1>10

\* The remaining steps of a handler.
LEMMA OthersSound ==
    ASSUME IInv, NEW r \in Request, getExpire(r) \/ submitSolutionCreate(r) \/ Fails(r)
    PROVE  Sound(r)
<1>0. /\ Knows(req[r]) /\ req[r].grace \in Nat /\ now \in Nat
      /\ DOMAIN req[r] = CopyFields /\ DOMAIN req = Request
      /\ DOMAIN attempt = Fields /\ attempt.startedAt \in Nat /\ attempt.grace \in Nat
  BY DEF IInv, AttemptType, Copies
<1>1. CASE getExpire(r)
  <2>1. /\ UNCHANGED <<now, assessment, verdict>>
        /\ req[r].at = "expire" /\ req[r].was = "Active" /\ attempt.status # "None"
        /\ req[r].arg = "none"
    BY <1>0, <1>1 DEF getExpire, Knows, DecidedOnActive
  <2>2. /\ DOMAIN attempt' = Fields /\ attempt'.status = "TimedOut"
        /\ attempt'.startedAt = attempt.startedAt /\ attempt'.grace = attempt.grace
    BY <1>0, <1>1 DEF getExpire, Fields
  <2>3. /\ DOMAIN req' = Request /\ \A x \in Request \ {r} : req'[x] = req[x]
        /\ DOMAIN req'[r] = CopyFields /\ req'[r].at = "recalc" /\ req'[r].grace = req[r].grace
        /\ req'[r].arg = "none"
    BY <1>0, <1>1, <2>1 DEF getExpire, Goes, CopyFields
  <2>4. AttemptType' /\ Kept
    BY <1>0, <2>1, <2>2, <2>3 DEF IInv, AttemptType, Kept, Final
  <2>5. Knows(req[r])'
    BY <2>2, <2>3 DEF Knows, Closing, DecidedOnActive, Recalculating
  <2>. QED
    BY <2>3, <2>4, <2>5 DEF Sound
<1>2. CASE submitSolutionCreate(r) \/ Fails(r)
  <2>1. Ends(r) /\ UNCHANGED <<now, assessment, attempt>> /\ DOMAIN verdict' = Sub
    BY <1>2 DEF submitSolutionCreate, Fails, IInv, AttemptType
  <2>2. /\ DOMAIN req' = Request
        /\ \A x \in Request : req'[x] = IF x = r THEN Idle ELSE req[x]
    BY <1>0, <2>1 DEF Ends
  <2>3. DOMAIN Idle = CopyFields /\ Idle.grace \in Nat
    BY DEF Idle, CopyFields
  <2>4. AttemptType' /\ Kept
    BY <1>0, <2>1, <2>2, <2>3 DEF IInv, AttemptType, Kept
  <2>. QED
    BY <2>1, <2>4, EndsSound
<1>. QED
  BY <1>1, <1>2

\* The judge, the faculty and the clock leave the copies alone.
LEMMA EnvironmentKeeps ==
    ASSUME IInv,
           \/ \E s \in Sub : Judge(s) \/ rejudgeAssessmentSubmissions(s)
           \/ \E b \in BOOLEAN : setLocked(b)
           \/ updateAssessment \/ Tick
    PROVE  AttemptType' /\ Kept /\ UNCHANGED <<req, attempt>>
<1>1. UNCHANGED <<req, attempt>> /\ DOMAIN verdict' = Sub /\ (now' = now \/ now' = now + 1)
  BY DEF Judge, rejudgeAssessmentSubmissions, setLocked, updateAssessment, Tick,
         IInv, AttemptType
<1>2. /\ DOMAIN assessment' = AssessmentFields
      /\ assessment'.end \in Nat /\ assessment'.duration \in Nat
  <2>1. CASE updateAssessment
    <3>1. PICK e \in Edits :
            assessment' = [f \in DOMAIN assessment |->
                              IF f \in DOMAIN e THEN e[f] ELSE assessment[f]]
      BY <2>1 DEF updateAssessment
    <3>2. e.end \in Nat /\ e.duration \in Nat
      BY AttemptAssumption
    <3>. QED
      BY <3>1, <3>2 DEF IInv, AttemptType, AssessmentFields
  <2>2. CASE \E b \in BOOLEAN : setLocked(b)
    BY <2>2 DEF setLocked, IInv, AttemptType, AssessmentFields
  <2>3. CASE (\E s \in Sub : Judge(s) \/ rejudgeAssessmentSubmissions(s)) \/ Tick
    BY <2>3 DEF Judge, rejudgeAssessmentSubmissions, Tick, IInv, AttemptType
  <2>. QED
    BY <2>1, <2>2, <2>3
<1>. QED
  BY <1>1, <1>2 DEF IInv, AttemptType, Kept

\* A step of a request is sound for it ...
LEMMA RequestSound ==
    ASSUME IInv, NEW r \in Request, Arrives(r) \/ Serves(r) \/ Fails(r)
    PROVE  Sound(r)
  BY ArrivesSound, ScoresSound, ChecksSound, WritesSound, OthersSound DEF Serves

\* ... and any step keeps what all of them know.
LEMMA StepKeeps ==
    ASSUME IInv, [Next]_vars
    PROVE  IInv' /\ Kept
<1>1. ASSUME NEW r \in Request, Sound(r) PROVE IInv' /\ Kept
  BY <1>1, KnowsFrame DEF Sound, IInv, Copies
<1>2. ASSUME AttemptType', Kept, UNCHANGED req PROVE IInv'
  BY <1>2, KnowsFrame DEF IInv, Copies
<1>3. CASE UNCHANGED vars
  BY <1>2, <1>3 DEF vars, IInv, AttemptType, Kept
<1>4. CASE Next
  BY <1>1, <1>2, <1>4, RequestSound, EnvironmentKeeps DEF Next
<1>. QED
  BY <1>3, <1>4

\* The types of the attempt and of the copies, and what each copy is good for.
THEOREM CopiesAreGood == Spec => []IInv
<1>1. Init => IInv
  BY AttemptAssumption
  DEF Init, Idle, IInv, AttemptType, Copies, Knows, Closing, DecidedOnActive,
      Recalculating, Fields, CopyFields, AssessmentFields
<1>. QED
  BY <1>1, StepKeeps, PTL DEF Spec

\* However many starts race, the attempt's clock starts once: the unique index
\* turns the second insertion into a read, and no update afterwards takes the
\* attempt back to before its start (startAssessment).
THEOREM ClockStartsOnce == Spec => StartedOnce
<1>1. IInv /\ [Next]_vars =>
        [attempt.status # "None" =>
            attempt'.startedAt = attempt.startedAt /\ attempt'.status # "None"]_vars
  BY StepKeeps DEF Kept
<1>. QED
  BY <1>1, CopiesAreGood, PTL DEF Spec, StartedOnce

-----------------------------------------------------------------------------
(***************************************************************************)
(* The promise.  What a request does follows from its copy: the copy tells  *)
(* it what the attempt was, and Knows what it has decided about it.         *)
(***************************************************************************)

\* The copy is taken when the request begins, stays as it is, and the clock is
\* compared once.
LEMMA RequestReads ==
    ASSUME IInv, NEW r \in Request, Arrives(r) \/ Serves(r) \/ Fails(r)
    PROVE  Promise!Reads(req[r], req'[r])
<1>0. /\ Knows(req[r]) /\ DOMAIN req[r] = CopyFields /\ DOMAIN req = Request
  BY DEF IInv, AttemptType, Copies
<1>1. ASSUME NEW op, Opens(r, op) PROVE Promise!Reads(req[r], req'[r])
  BY <1>0, <1>1 DEF Opens, Idle, Promise!Reads
<1>2. CASE Arrives(r)
  <2>1. CASE startAssessment(r)
    BY <1>0, <2>1 DEF startAssessment, Idle, Promise!Reads
  <2>2. CASE ~startAssessment(r)
    BY <1>1, <1>2, <2>2
    DEF Arrives, logAntiCheatingEvent, saveDraft, getAssessmentAttemptById, submitAssessment,
        validateAssessmentSubmission, addGraceTime, raiseChallenge, resolveChallenge
  <2>. QED
    BY <2>1, <2>2
<1>3. CASE getCheck(r) \/ submitCheck(r) \/ validateCheck(r)
  <2>1. Checked(r) /\ req[r].time = "unchecked" /\ req[r].at # "idle"
    BY <1>3, CheckedClock DEF getCheck, submitCheck, validateCheck
  <2>. QED
    BY <2>1 DEF Checked, Promise!Reads, Idle
<1>4. ASSUME req'[r] = Idle PROVE Promise!Reads(req[r], req'[r])
  BY <1>4 DEF Idle, Promise!Reads
<1>5. ASSUME req[r].at # "idle", req'[r].was = req[r].was, req'[r].grace = req[r].grace,
             req'[r].challenge = req[r].challenge, req'[r].time = req[r].time
      PROVE  Promise!Reads(req[r], req'[r])
  BY <1>5 DEF Promise!Reads
<1>6. CASE recalculateAttemptScore(r) \/ getExpire(r)
  BY <1>0, <1>5, <1>6 DEF recalculateAttemptScore, getExpire, Goes, CopyFields
<1>7. CASE recalculateTally(r) \/ recalculateWrite(r)
  <2>1. \/ req'[r] = Returns(r)
        \/ req'[r] = [req[r] EXCEPT !.at = "score", !.num = Worth]
    BY <1>0, <1>7 DEF recalculateTally, recalculateWrite
  <2>2. req[r].at # "idle"
    BY <1>7 DEF recalculateTally, recalculateWrite
  <2>. QED
    BY <1>0, <1>4, <1>5, <2>1, <2>2 DEF Returns, CopyFields
<1>8. CASE \/ startAssessmentCreate(r) \/ logAntiCheatingEventWrite(r) \/ saveDraftWrite(r)
           \/ submitWrite(r) \/ validateExpire(r) \/ submitSolutionCreate(r)
           \/ addGraceTimeWrite(r) \/ raiseChallengeWrite(r) \/ resolveChallengeWrite(r)
           \/ Fails(r)
  BY <1>0, <1>4, <1>8
  DEF startAssessmentCreate, logAntiCheatingEventWrite, saveDraftWrite, submitWrite,
      validateExpire, submitSolutionCreate, addGraceTimeWrite, raiseChallengeWrite,
      resolveChallengeWrite, Fails, Writes, Ends
<1>. QED
  BY <1>2, <1>3, <1>6, <1>7, <1>8 DEF Serves

LEMMA RequestPromised ==
    ASSUME IInv, NEW r \in Request, Arrives(r) \/ Serves(r) \/ Fails(r)
    PROVE  [Promise!Step(req[r])]_<<attempt, Stored>>
<1>0. /\ Knows(req[r]) /\ DOMAIN attempt = Fields /\ DOMAIN verdict = Sub
      /\ req[r].grace \in Nat
  BY DEF IInv, AttemptType, Copies
<1>1. UNCHANGED verdict => UNCHANGED Stored
  BY DEF Stored
<1>3. CASE Arrives(r) \/ Fails(r) \/ recalculateAttemptScore(r) \/ recalculateTally(r)
           \/ getCheck(r) \/ submitCheck(r) \/ validateCheck(r)
  <2>1. UNCHANGED <<attempt, verdict>>
    BY <1>3
    DEF Arrives, startAssessment, logAntiCheatingEvent, saveDraft, getAssessmentAttemptById,
        submitAssessment, validateAssessmentSubmission, addGraceTime, raiseChallenge,
        resolveChallenge, Opens, Fails, recalculateAttemptScore, recalculateTally, getCheck,
        submitCheck, validateCheck
  <2>. QED
    BY <1>1, <2>1
<1>4. CASE startAssessmentCreate(r)
  <2>1. CASE attempt.status # "None"
    BY <1>1, <1>4, <2>1 DEF startAssessmentCreate, Writes
  <2>2. CASE attempt.status = "None"
    <3>1. attempt' = [attempt EXCEPT !.status = "Active", !.startedAt = req[r].num]
          /\ UNCHANGED Stored
      BY <1>1, <1>4, <2>2 DEF startAssessmentCreate, Writes
    <3>2. Promise!Start
      BY <1>0, <2>2, <3>1 DEF Promise!Start, Promise!Changes, Fields
    <3>. QED
      BY <3>2 DEF Promise!Step
  <2>. QED
    BY <2>1, <2>2
<1>5. CASE logAntiCheatingEventWrite(r) \/ saveDraftWrite(r)
  <2>1. req[r].was = "Active"
    BY <1>0, <1>5 DEF logAntiCheatingEventWrite, saveDraftWrite, Writes, Knows, DecidedOnActive
  <2>2. UNCHANGED Stored /\ \A f \in Fields \ {"draft", "flags"} : attempt'[f] = attempt[f]
    BY <1>0, <1>1, <1>5 DEF logAntiCheatingEventWrite, saveDraftWrite, Writes
  <2>3. Promise!Work(req[r])
    BY <1>0, <2>1, <2>2 DEF Promise!Work, Promise!Changes
  <2>. QED
    BY <2>3 DEF Promise!Step
<1>6. CASE recalculateWrite(r)
  <2>1. UNCHANGED Stored /\ \A f \in Fields \ {"score"} : attempt'[f] = attempt[f]
    BY <1>0, <1>1, <1>6 DEF recalculateWrite
  <2>2. Promise!Rescore
    BY <1>0, <2>1 DEF Promise!Rescore, Promise!Changes
  <2>. QED
    BY <2>2 DEF Promise!Step
<1>7. ASSUME req[r].was = "Active", NEW v \in Final,
             attempt' = [attempt EXCEPT !.status = v], UNCHANGED verdict,
             req[r].time = IF v = "TimedOut" THEN "over" ELSE "open"
      PROVE  Promise!Step(req[r])
  <2>1. UNCHANGED Stored /\ \A f \in Fields \ {"status"} : attempt'[f] = attempt[f]
    BY <1>0, <1>1, <1>7
  <2>2. attempt'.status = v
    BY <1>0, <1>7 DEF Fields
  <2>3. CASE v = "Submitted"
    BY <1>0, <1>7, <2>1, <2>2, <2>3 DEF Promise!Submit, Promise!Changes, Promise!Step
  <2>4. CASE v = "TimedOut"
    BY <1>0, <1>7, <2>1, <2>2, <2>4 DEF Promise!TimeOut, Promise!Changes, Promise!Step
  <2>. QED
    BY <2>3, <2>4 DEF Final
<1>8. CASE submitWrite(r)
  BY <1>0, <1>7, <1>8 DEF submitWrite, Writes, Knows, DecidedOnActive, Closing, Final
<1>9. CASE getExpire(r)
  BY <1>0, <1>7, <1>9 DEF getExpire, Knows, DecidedOnActive, Closing, Final
<1>10. CASE validateExpire(r)
  BY <1>0, <1>7, <1>10 DEF validateExpire, Writes, Knows, DecidedOnActive, Closing, Final
<1>11. CASE submitSolutionCreate(r)
  <2>1. req[r].was = "Active" /\ req[r].time = "open" /\ UNCHANGED attempt
    BY <1>0, <1>11 DEF submitSolutionCreate, Knows, DecidedOnActive
  <2>2. \A s \in Sub : verdict[s] # "none" => verdict'[s] # "none"
    BY <1>0, <1>11 DEF submitSolutionCreate
  <2>3. Promise!Solve(req[r])
    BY <2>1, <2>2 DEF Promise!Solve, Promise!Changes, Stored
  <2>. QED
    BY <2>3 DEF Promise!Step
<1>12. CASE addGraceTimeWrite(r)
  <2>1. PICK g \in Grants :
          Writes(r, "grace", [attempt EXCEPT !.grace = req[r].grace + g,
                                !.status = IF req[r].was = "TimedOut" THEN "Active" ELSE @])
    BY <1>12 DEF addGraceTimeWrite
  <2>2. /\ UNCHANGED Stored /\ \A f \in Fields \ {"status", "grace"} : attempt'[f] = attempt[f]
        /\ attempt'.grace = req[r].grace + g
        /\ attempt'.status = IF req[r].was = "TimedOut" THEN "Active" ELSE attempt.status
    BY <1>0, <1>1, <2>1 DEF Writes, Fields
  <2>3. attempt'.grace - req[r].grace = g
    BY <1>0, <2>2, AttemptAssumption
  <2>4. Promise!Grant(req[r])
    BY <1>0, <2>2, <2>3 DEF Promise!Grant, Promise!Changes
  <2>. QED
    BY <2>4 DEF Promise!Step
<1>13. CASE raiseChallengeWrite(r)
  <2>1. /\ req[r].was # "Active" /\ req[r].challenge = "None"
        /\ attempt' = [attempt EXCEPT !.challenge = "Raised"] /\ UNCHANGED Stored
    BY <1>0, <1>1, <1>13 DEF raiseChallengeWrite, Writes, Knows
  <2>2. Promise!Challenge(req[r])
    BY <1>0, <2>1 DEF Promise!Challenge, Promise!Changes, Fields
  <2>. QED
    BY <2>2 DEF Promise!Step
<1>14. CASE resolveChallengeWrite(r)
  <2>1. PICK c \in {"Accepted", "Rejected"} :
          Writes(r, "resolve", [attempt EXCEPT !.challenge = c])
    BY <1>14 DEF resolveChallengeWrite
  <2>2. /\ req[r].challenge = "Raised" /\ UNCHANGED Stored
        /\ attempt' = [attempt EXCEPT !.challenge = c]
    BY <1>0, <1>1, <2>1 DEF Writes, Knows
  <2>3. Promise!Answer(req[r])
    BY <1>0, <2>2 DEF Promise!Answer, Promise!Changes, Fields
  <2>. QED
    BY <2>3 DEF Promise!Step
<1>. QED
  BY <1>3, <1>4, <1>5, <1>6, <1>8, <1>9, <1>10, <1>11, <1>12, <1>13, <1>14 DEF Serves

\* Whatever else is in flight, and however the faculty moves the end meanwhile,
\* each request does what AttemptPromise allows on the copy it read: it closes
\* what it saw active, as timed out only when it found the end of the copy over,
\* adds minutes to those it saw, and writes only its own fields
\* (assessments.service.js, validateAssessmentSubmission).
THEOREM RequestsKeepThePromise == Spec => Promised
<1>1. IInv /\ [Next]_vars =>
        [\A r \in Request : req'[r] # req[r] =>
            /\ Promise!Reads(req[r], req'[r])
            /\ [Promise!Step(req[r])]_<<attempt, Stored>>]_vars
  <2> SUFFICES ASSUME IInv, Next, NEW r \in Request, req'[r] # req[r]
               PROVE  /\ Promise!Reads(req[r], req'[r])
                      /\ [Promise!Step(req[r])]_<<attempt, Stored>>
    OBVIOUS
  <2>1. Arrives(r) \/ Serves(r) \/ Fails(r)
    <3>1. CASE \E x \in Request : Arrives(x) \/ Serves(x) \/ Fails(x)
      BY <3>1, RequestSound DEF Sound
    <3>2. CASE ~\E x \in Request : Arrives(x) \/ Serves(x) \/ Fails(x)
      BY <3>2, EnvironmentKeeps DEF Next
    <3>. QED
      BY <3>1, <3>2
  <2>. QED
    BY <2>1, RequestReads, RequestPromised
<1>. QED
  BY <1>1, CopiesAreGood, PTL DEF Spec, Promised
=============================================================================
