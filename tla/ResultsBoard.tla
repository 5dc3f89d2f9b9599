---------------------------- MODULE ResultsBoard ----------------------------
(***************************************************************************)
(* The board on which the faculty follow an assessment while it runs       *)
(* (AssessmentResultsPage.jsx), before the documents it shows.  It asks    *)
(* for everything every 30 seconds, when Refresh is pressed, and after     *)
(* each action that went well; each time by three calls, which the API     *)
(* answers one by one, and shows the three answers together.  Nothing      *)
(* orders two rounds of calls, and the page does not wait for the round    *)
(* that follows an action.                                                 *)
(*                                                                         *)
(* There is one attempt, with one submission to judge anew.                *)
(***************************************************************************)
EXTENDS Naturals, FiniteSets

CONSTANTS
    MaxRounds,   \* bound on rounds under way
    MaxActs,     \* bound on actions under way
    MaxChanges,  \* bound on what is changed by anyone
    MaxFailures, \* bound on calls that fail
    Wishes       \* bound: what may be done in one behaviour, of "lock", "rejudge", "grace",
                 \* "appeal", "elsewhere" and "fail"

VARIABLES
    truth,    \* what is stored
    seen,     \* what the board shows of it
    rounds,   \* the rounds under way, by a number
    acts,     \* the actions under way, at most one of a kind
    review,   \* the appeal in the dialog: the status it was opened with
    flags,    \* which of "refreshing", "resolving" and "error" hold
    changes,  \* how many changes there have been
    failures, \* how many calls have failed
    wish      \* the member of Wishes this behaviour is of

board == <<truth, seen, rounds, acts, review, flags, changes, failures, wish>>

\* What each of the calls reads.
Reads == [get |-> {"lock"}, getAttendance |-> {"status", "appeal"}, getAnalytics |-> {"verdict"}]

Field == UNION {Reads[call] : call \in DOMAIN Reads}
Unknown == [x \in Field |-> "unknown"]

\* An appeal is raised when the attempt has ended; grace may reopen it.
Truths ==
    {t \in [lock : {"unlocked"}, status : {"Active", "TimedOut"},
            appeal : {"None", "Raised"}, verdict : {"judged"}] :
        t.status = "Active" => t.appeal = "None"}

Idle == [on |-> FALSE, got |-> Unknown]

\* The page has just been opened, or never is.
InitBoard ==
    /\ truth \in Truths
    /\ seen = Unknown /\ review = "none" /\ acts = {} /\ flags = {"refreshing"}
    /\ rounds \in {<<>>, [n \in 1..MaxRounds |-> [Idle EXCEPT !.on = (n = 1)]]}
    /\ changes = 0 /\ failures = 0 /\ wish \in Wishes

\* No round can begin on a page that is not open or shows an error.
Opened == rounds # <<>>

Loaded == seen # Unknown

Changed == changes < MaxChanges /\ changes' = changes + 1
Failing == "fail" \in wish /\ failures < MaxFailures /\ failures' = failures + 1

-----------------------------------------------------------------------------
(* A round.                                                                *)

\* The numbers are those of no round under way.
Begin(n) ==
    /\ ~rounds[n].on
    /\ rounds' = [rounds EXCEPT ![n] = [Idle EXCEPT !.on = TRUE]]

\* The interval, or Refresh, which is disabled meanwhile.
fetchData ==
    /\ \E n \in DOMAIN rounds : Begin(n)
    /\ flags' = flags \cup {"refreshing"}
    /\ UNCHANGED <<truth, seen, acts, review, changes, failures, wish>>

\* The API answers one of the three calls.
answerPart(n, call) ==
    /\ rounds[n].on
    /\ \E x \in Reads[call] : rounds[n].got[x] = "unknown"
    /\ rounds' = [rounds EXCEPT ![n].got =
                     [x \in Field |-> IF x \in Reads[call] THEN truth[x] ELSE @[x]]]
    /\ UNCHANGED <<truth, seen, acts, review, flags, changes, failures, wish>>

Complete(n) == rounds[n].on /\ \A x \in Field : rounds[n].got[x] # "unknown"

\* Whichever round it is.
fetched(n) ==
    /\ Complete(n)
    /\ seen' = rounds[n].got
    /\ rounds' = [rounds EXCEPT ![n] = Idle]
    /\ flags' = flags \ {"refreshing"}
    /\ UNCHANGED <<truth, acts, review, changes, failures, wish>>

\* One call of the three is enough.  Nothing takes the error away, and what goes on
\* behind it is left out.
fetchFails(n) ==
    /\ Failing
    /\ rounds[n].on /\ rounds' = <<>>
    /\ flags' = {"error"} /\ seen' = Unknown /\ review' = "none" /\ acts' = {}
    /\ UNCHANGED <<truth, changes, wish>>

-----------------------------------------------------------------------------
(* The actions.  Each follows what the board shows.                        *)

Act(kind) == [kind |-> kind, at |-> "sent"]
Free(kinds) == Cardinality(acts) < MaxActs /\ \A a \in acts : a.kind \notin kinds

Send(kind, flag) ==
    /\ acts' = acts \cup {Act(kind)}
    /\ flags' = flags \cup {flag}
    /\ UNCHANGED <<truth, seen, rounds, review, changes, failures, wish>>

handleToggleLock ==
    /\ "lock" \in wish /\ Loaded /\ "refreshing" \notin flags /\ Free({"lock", "unlock"})
    /\ Send(IF seen.lock = "locked" THEN "unlock" ELSE "lock", "refreshing")

\* "Rejudge All" is disabled with Refresh, the button of a problem never.
handleRejudge ==
    /\ "rejudge" \in wish /\ Loaded /\ Free({"rejudge"})
    /\ Send("rejudge", "refreshing")

handleAddGrace ==
    /\ "grace" \in wish /\ Loaded /\ seen.status \in {"Active", "TimedOut"} /\ Free({"grace"})
    /\ Send("grace", "refreshing")

handleOpenReviewChallenge ==
    /\ "appeal" \in wish /\ Loaded /\ seen.appeal # "None" /\ review' = seen.appeal
    /\ UNCHANGED <<truth, seen, rounds, acts, flags, changes, failures, wish>>

closeReview ==
    /\ review # "none" /\ review' = "none"
    /\ UNCHANGED <<truth, seen, rounds, acts, flags, changes, failures, wish>>

handleResolveChallenge(decision) ==
    /\ Loaded /\ review = "Raised" /\ "resolving" \notin flags
    /\ Free({"Accepted", "Rejected"})
    /\ Send(decision, "resolving")

\* What the API makes of an action.  Only resolveChallenge looks first.
Performed(kind) ==
    CASE kind = "lock" -> [truth EXCEPT !.lock = "locked"]
      [] kind = "unlock" -> [truth EXCEPT !.lock = "unlocked"]
      [] kind = "rejudge" -> [truth EXCEPT !.verdict = "pending"]
      [] kind = "grace" -> [truth EXCEPT !.status = "Active"]
      [] OTHER -> [truth EXCEPT !.appeal = kind]

Moves(act, at) == acts' = (acts \ {act}) \cup {[act EXCEPT !.at = at]}

resolveChallenge(act) ==
    /\ act \in acts /\ act.kind \in {"Accepted", "Rejected"} /\ act.at = "sent"
    /\ Moves(act, IF truth.appeal = "Raised" THEN "found" ELSE "refused")
    /\ UNCHANGED <<truth, seen, rounds, review, flags, changes, failures, wish>>

performs(act) ==
    /\ Changed
    /\ act \in acts
    /\ act.at = IF act.kind \in {"Accepted", "Rejected"} THEN "found" ELSE "sent"
    /\ truth' = Performed(act.kind) /\ Moves(act, "done")
    /\ UNCHANGED <<seen, rounds, review, flags, failures, wish>>

actFails(act) ==
    /\ Failing
    /\ act \in acts /\ act.at \in {"sent", "found"} /\ Moves(act, "refused")
    /\ UNCHANGED <<truth, seen, rounds, review, flags, changes, wish>>

\* A new round begins, if there is a number for it, and the buttons are free before it
\* ends; but for an appeal, which leaves them to the round.
acted(act) ==
    /\ act \in acts /\ act.at = "done" /\ acts' = acts \ {act}
    /\ \E n \in DOMAIN rounds : Begin(n)
    /\ IF act.kind \in {"Accepted", "Rejected"}
       THEN review' = "none" /\ flags' = (flags \ {"resolving"}) \cup {"refreshing"}
       ELSE UNCHANGED review /\ flags' = flags \ {"refreshing"}
    /\ UNCHANGED <<truth, seen, changes, failures, wish>>

\* The user is told; what the board shows stays.
refused(act) ==
    /\ act \in acts /\ act.at = "refused" /\ acts' = acts \ {act}
    /\ flags' = flags \ (IF act.kind \in {"Accepted", "Rejected"} THEN {"resolving"} ELSE {"refreshing"})
    /\ UNCHANGED <<truth, seen, rounds, review, changes, failures, wish>>

-----------------------------------------------------------------------------

\* Students, the judge, and the faculty before other boards.
elsewhere ==
    /\ "elsewhere" \in wish /\ Opened /\ Changed
    /\ \/ \E kind \in {"lock", "unlock"} : truth' = Performed(kind)
       \/ truth.status = "Active" /\ truth' = [truth EXCEPT !.status = "TimedOut"]
       \/ truth.status = "TimedOut" /\ truth.appeal = "None" /\ truth' = Performed("Raised")
       \/ truth.appeal = "Raised" /\ truth' = Performed("Rejected")
    /\ UNCHANGED <<seen, rounds, acts, review, flags, failures, wish>>

judged ==
    /\ truth.verdict = "pending" /\ truth' = [truth EXCEPT !.verdict = "judged"]
    /\ UNCHANGED <<seen, rounds, acts, review, flags, changes, failures, wish>>

Answers(n) == fetched(n) \/ \E call \in DOMAIN Reads : answerPart(n, call)

Ends == \E act \in acts : resolveChallenge(act) \/ acted(act) \/ refused(act)

BoardNext ==
    \/ fetchData \/ Ends \/ judged \/ elsewhere
    \/ handleToggleLock \/ handleRejudge \/ handleAddGrace
    \/ handleOpenReviewChallenge \/ closeReview
    \/ \E decision \in {"Accepted", "Rejected"} : handleResolveChallenge(decision)
    \/ \E n \in DOMAIN rounds : Answers(n) \/ fetchFails(n)
    \/ \E act \in acts : performs(act) \/ actFails(act)

\* The interval, and calls that are answered.
BoardFairness ==
    /\ WF_board(fetchData) /\ WF_board(judged)
    /\ \A n \in 1..MaxRounds : WF_board(n \in DOMAIN rounds /\ Answers(n))

\* However rounds overtake each other and changes fall between their calls: once nobody
\* changes anything the board shows what is stored, lock, appeal and figures, and goes on
\* showing it, unless a call failed, which leaves the error in its place (fetchData).
BoardCatchesUp == <>[](Opened => seen = truth)
=============================================================================
