------------------------ MODULE AssessmentWorkspace ------------------------
(***************************************************************************)
(* The page a student solves an assessment in (AssessmentWorkspace.jsx),   *)
(* in one or more browsers, against one attempt on the server.             *)
(*                                                                         *)
(* Between two awaits or timer callbacks a page runs alone; everything     *)
(* else interleaves there: the other browser, the faculty, the judge, the  *)
(* answers.  A timer may fire late, never early, so a period (2 s for      *)
(* drafts and polls, 10 s for the resync, 20 s for the security warning)   *)
(* is a delay of any length.  A handler of the server is one step here;    *)
(* module AssessmentAttempt has its awaits.  `problem' is one problem:     *)
(* the maps the page keeps per problem do not interact.                    *)
(***************************************************************************)
EXTENDS Integers, FiniteSets

CONSTANTS
    Tab,          \* browsers, each with a localStorage of its own
    Sub,          \* submissions the student may make
    Mixes,        \* bound: [ops, tabs], what happens in one behaviour and where
    Deadline,     \* when the attempt expires, before any grace
    WarningLimit, \* 10 in the code
    MaxTime,      \* bound on the clock
    MaxCode,      \* bound on the versions of the code the student writes
    MaxGrace,     \* bound on granted time
    MaxFaults,    \* bound on calls that fail
    Overlap,      \* may a call take longer than the timer that repeats it?
    None

ASSUME WorkspaceAssumption ==
    /\ Deadline \in Nat /\ MaxTime \in Nat /\ MaxGrace \in Nat /\ MaxFaults \in Nat
    /\ MaxCode \in Nat \ {0} /\ WarningLimit \in Nat \ {0}
    /\ Overlap \in BOOLEAN /\ None \notin Sub
    /\ \A m \in Mixes : m.tabs \subseteq Tab

VARIABLES
    now,      \* the clock
    typed,    \* the last version of the code written anywhere
    attempt,  \* [status, deadline, draft] on the server, and of its history
              \*   refused: browsers whose last save came when it was over,
              \*   revived: browsers told that it was over before it was re-activated
    subs,     \* the stored status of each submission, "none" before it exists
    local,    \* the draft in each localStorage, 0 if there is none
    page,     \* the page in each browser
    console,  \* its submissions: what it shows, its timers and calls in flight
    saves,    \* requests to save a draft in flight
    faults,   \* calls that have failed
    mix       \* the member of Mixes this behaviour is of

server == <<attempt, subs>>
vars == <<now, typed, attempt, subs, local, page, console, saves, faults, mix>>

NoCopy == [draft |-> 0, deadline |-> 0]

\* `active' is attemptActive: the countdown and the listeners are installed.
\* `heard' is a resync's answer that has not been applied, `finish' the one
\* call of finishAttempt that finishStartedRef allows.
Closed == [at |-> "closed", code |-> 0, copy |-> NoCopy, known |-> 0,
           active |-> FALSE, unsynced |-> FALSE, heard |-> None,
           finish |-> "no", warnings |-> 0, countdown |-> FALSE, error |-> FALSE]

\* `intervals' are the timers that run, `ref' the one intervalRefs remembers.
Quiet == [sub |-> None, status |-> "none", intervals |-> {}, ref |-> None,
          posts |-> {}, polls |-> {}, running |-> FALSE]

Init ==
    /\ now = 0 /\ typed = 1       \* version 1 is the template
    /\ attempt = [status |-> "Active", deadline |-> Deadline, draft |-> 0,
                  refused |-> {}, revived |-> {}]
    /\ subs = [s \in Sub |-> "none"]
    /\ local = [t \in Tab |-> 0]
    /\ page = [t \in Tab |-> Closed]
    /\ console = [t \in Tab |-> Quiet]
    /\ saves = {} /\ faults = 0
    /\ mix \in Mixes

Does(op) == op \in mix.ops
Open(t) == page[t].at = "open"
Usable(t) == Open(t) /\ ~page[t].error   \* an error replaces the whole page
Final == {"Success", "Fail", "Error"}

\* Steps of a page that leave the rest alone.
Page(t, p) ==
    /\ page' = [page EXCEPT ![t] = p]
    /\ UNCHANGED <<now, typed, server, local, console, saves, faults, mix>>
Console(t, c) ==
    /\ console' = [console EXCEPT ![t] = c]
    /\ UNCHANGED <<now, typed, server, local, page, saves, faults, mix>>

-----------------------------------------------------------------------------
(* Loading, and the draft.                                                 *)

\* getAssessmentAttemptById times an attempt out when somebody looks at it.
getAttempt ==
    IF attempt.status = "Active" /\ now > attempt.deadline
    THEN [attempt EXCEPT !.status = "TimedOut"]
    ELSE attempt

\* fetchData up to its first answer; the page leaves for the result at once
\* when the attempt is over.
fetchData(t) ==
    /\ page[t].at = "closed" /\ t \in mix.tabs
    /\ attempt' = getAttempt
    /\ page' = [page EXCEPT ![t] =
        IF getAttempt.status # "Active" THEN [Closed EXCEPT !.at = "left"]
        ELSE [Closed EXCEPT !.at = "loading",
                !.copy = [draft |-> attempt.draft, deadline |-> attempt.deadline]]]
    /\ UNCHANGED <<now, typed, subs, local, console, saves, faults, mix>>

\* The rest of fetchData, and the effect that saves the draft it has merged.
\* The local draft wins.
showWorkspace(t) ==
    LET copy == page[t].copy
        code == IF local[t] # 0 THEN local[t]
                ELSE IF copy.draft # 0 THEN copy.draft ELSE 1
    IN  /\ page[t].at = "loading"
        /\ page' = [page EXCEPT ![t] =
            [Closed EXCEPT !.at = "open", !.code = code, !.known = copy.deadline,
               !.active = copy.deadline > now, !.unsynced = TRUE]]
        /\ local' = [local EXCEPT ![t] = code]
        /\ UNCHANGED <<now, typed, server, console, saves, faults, mix>>

\* Defect: an edit while a save is in flight does not schedule another one.
handleCodeChangeOnce(t) ==
    /\ Usable(t) /\ Does("edit") /\ typed < MaxCode
    /\ typed' = typed + 1
    /\ page' = [page EXCEPT ![t].code = typed', ![t].unsynced = saves = {}]
    /\ local' = [local EXCEPT ![t] = typed']
    /\ UNCHANGED <<now, server, console, saves, faults, mix>>

\* An edit, or the template of another language: stored here at once, and on
\* the server after a pause.
handleCodeChange(t) ==
    /\ Usable(t) /\ Does("edit") /\ typed < MaxCode
    /\ typed' = typed + 1
    /\ page' = [page EXCEPT ![t].code = typed', ![t].unsynced = TRUE]
    /\ local' = [local EXCEPT ![t] = typed']
    /\ UNCHANGED <<now, server, console, saves, faults, mix>>

syncDraft(t) ==
    /\ Open(t) /\ page[t].unsynced
    /\ Overlap \/ \A m \in saves : m.tab # t
    /\ page' = [page EXCEPT ![t].unsynced = FALSE]
    /\ saves' = saves \cup {[tab |-> t, code |-> page[t].code]}
    /\ UNCHANGED <<now, typed, server, local, console, faults, mix>>

saveDraft(m) ==
    /\ attempt' = IF attempt.status = "Active"
                  THEN [attempt EXCEPT !.draft = m.code, !.refused = @ \ {m.tab}]
                  ELSE [attempt EXCEPT !.refused = @ \cup {m.tab}]
    /\ saves' = saves \ {m}
    /\ UNCHANGED <<now, typed, subs, local, page, console, faults, mix>>

\* The browser reloads or closes the page, or the one the student went on to:
\* what it awaited is forgotten.
Close(t) ==
    /\ Does("reload") /\ page[t].at # "closed"
    /\ page' = [page EXCEPT ![t] = Closed]
    /\ console' = [console EXCEPT ![t] = Quiet]
    /\ UNCHANGED <<now, typed, server, local, saves, faults, mix>>

\* The timers stop with the component; calls in flight still come back to it.
unmount(c) == [c EXCEPT !.intervals = {}]

\* Back in the browser's history: the application stays, the page goes; a
\* finish that it has asked for will still be answered to it.
Leave(t) ==
    /\ Does("reload") /\ Open(t)
    /\ page' = [page EXCEPT ![t] = [Closed EXCEPT !.at = "left", !.finish = page[t].finish]]
    /\ console' = [console EXCEPT ![t] = unmount(@)]
    /\ UNCHANGED <<now, typed, server, local, saves, faults, mix>>

-----------------------------------------------------------------------------
(* Finishing: the button, the countdown, the security warnings.            *)

\* finishAttempt, as a change of the page that calls it.
finishAttempt(p) == IF p.finish = "no" THEN [p EXCEPT !.finish = "sent"] ELSE p

finishAssessment(t) ==
    /\ Usable(t) /\ Does("finish")
    /\ Page(t, finishAttempt(page[t]))

countdownEnds(t) ==
    /\ Open(t) /\ page[t].active /\ now >= page[t].known
    /\ Page(t, finishAttempt([page[t] EXCEPT !.active = FALSE, !.countdown = FALSE]))

\* recordSecurityViolation, with the effect that counts, and for a hidden tab
\* startSecurityCountdown.
recordSecurityViolation(t, hidden) ==
    LET p == [page[t] EXCEPT !.warnings = @ + 1, !.countdown = @ \/ hidden]
    IN  /\ Open(t) /\ page[t].active /\ Does("security")
        /\ page[t].warnings < WarningLimit + 1
        /\ Page(t, IF p.warnings >= WarningLimit THEN finishAttempt(p) ELSE p)

handleFullscreenChange(t) ==
    /\ Open(t) /\ page[t].active /\ Does("security")
    /\ \E exited \in BOOLEAN : Page(t, [page[t] EXCEPT !.countdown = exited])

securityCountdownEnds(t) ==
    /\ Open(t) /\ page[t].countdown
    /\ Page(t, finishAttempt([page[t] EXCEPT !.countdown = FALSE]))

\* submitAssessment: an attempt that is over already is returned as it is.
submitAssessment(t) ==
    /\ page[t].finish = "sent"
    /\ attempt' = [getAttempt EXCEPT !.status = IF @ = "Active" THEN "Submitted" ELSE @,
                                     !.revived = @ \ {t}]
    /\ page' = [page EXCEPT ![t].finish = "ended"]
    /\ UNCHANGED <<now, typed, subs, local, console, saves, faults, mix>>

\* Defect: the local draft is removed whatever the answer is.
finishedForgets(t) ==
    /\ page[t].finish \in {"ended", "failed"}
    /\ local' = [local EXCEPT ![t] = 0]
    /\ page' = [page EXCEPT ![t] =
                  IF page[t].finish = "ended" THEN [Closed EXCEPT !.at = "left"]
                  ELSE [@ EXCEPT !.finish = "no", !.error = TRUE]]
    /\ console' = [console EXCEPT ![t] = IF page[t].finish = "ended" THEN unmount(@) ELSE @]
    /\ UNCHANGED <<now, typed, server, saves, faults, mix>>

\* finishAttempt has its answer, whether or not the page is still shown.
finished(t) ==
    \/ /\ page[t].finish = "ended"
       /\ local' = [local EXCEPT ![t] = 0]
       /\ page' = [page EXCEPT ![t] = [Closed EXCEPT !.at = "left"]]
       /\ console' = [console EXCEPT ![t] = unmount(@)]
       /\ UNCHANGED <<now, typed, server, saves, faults, mix>>
    \/ /\ page[t].finish = "failed"
       /\ Page(t, [page[t] EXCEPT !.finish = "no", !.error = TRUE])

-----------------------------------------------------------------------------
(* The resync every ten seconds, and grace.                                *)

\* Defect: no resync once the countdown has stopped.
fetchAnnouncementsWhileActive(t) ==
    /\ Open(t) /\ page[t].heard = None /\ page[t].active
    /\ attempt' = getAttempt
    /\ page' = [page EXCEPT ![t].heard = attempt.deadline]
    /\ UNCHANGED <<now, typed, subs, local, console, saves, faults, mix>>

fetchAnnouncements(t) ==
    /\ Open(t) /\ page[t].heard = None
    /\ attempt' = getAttempt
    /\ page' = [page EXCEPT ![t].heard = attempt.deadline]
    /\ UNCHANGED <<now, typed, subs, local, console, saves, faults, mix>>

\* Only the time left is taken over.  At 0 the countdown is taken down: it
\* will not finish the attempt any more.
resynced(t) ==
    LET p == page[t]
    IN  /\ Open(t) /\ p.heard # None
        /\ Page(t, [p EXCEPT !.known = p.heard, !.heard = None,
                      !.active = p.heard > now,
                      !.countdown = @ /\ p.heard > now])

\* An attempt that had timed out is active again, whoever was told that it was over.
addGraceTime ==
    /\ Does("grace") /\ attempt.deadline < Deadline + MaxGrace
    /\ attempt' = IF attempt.status = "TimedOut"
                  THEN [attempt EXCEPT !.deadline = @ + 1, !.status = "Active",
                          !.revived = @ \cup {t \in Tab : page[t].finish = "ended"}]
                  ELSE [attempt EXCEPT !.deadline = @ + 1]
    /\ UNCHANGED <<now, typed, subs, local, page, console, saves, faults, mix>>

-----------------------------------------------------------------------------
(* Running and submitting.                                                 *)

isJudging(c) == c.status \in {"Submitting", "Pending"}

\* Both buttons are disabled while a run or a submission is under way.
Enabled(t) == Usable(t) /\ ~console[t].running /\ ~isJudging(console[t])

\* Defect: the button stays enabled until the answer has come.
handleSubmitAnytime(t) ==
    /\ Usable(t) /\ Does("submit") /\ console[t].ref = None
    /\ \E s \in Sub :
        /\ subs[s] = "none" /\ \A u \in Tab : \A p \in console[u].posts : p.sub # s
        /\ Console(t, [console[t] EXCEPT !.sub = None, !.status = "Submitting",
                         !.posts = @ \cup {[sub |-> s, answer |-> "none"]}])

handleSubmit(t) ==
    /\ Enabled(t) /\ Does("submit") /\ console[t].ref = None
    /\ \E s \in Sub :
        /\ subs[s] = "none" /\ \A u \in Tab : \A p \in console[u].posts : p.sub # s
        /\ Console(t, [console[t] EXCEPT !.sub = None, !.status = "Submitting",
                         !.posts = @ \cup {[sub |-> s, answer |-> "none"]}])

\* validateAssessmentSubmission and submitSolution.  A submission is late from
\* the deadline on, a look at the attempt only after it.
submitSolution(t, p) ==
    LET late == attempt.status = "Active" /\ now >= attempt.deadline
        taken == attempt.status = "Active" /\ ~late
    IN  /\ p.answer = "none"
        /\ attempt' = IF late THEN [attempt EXCEPT !.status = "TimedOut"] ELSE attempt
        /\ subs' = [subs EXCEPT ![p.sub] = IF taken THEN "Pending" ELSE @]
        /\ console' = [console EXCEPT ![t].posts =
             (@ \ {p}) \cup {[p EXCEPT !.answer = IF taken THEN "Pending" ELSE "failed"]}]
        /\ UNCHANGED <<now, typed, local, page, saves, faults, mix>>

\* handleSubmit has its answer: the polling starts.
submitted(t, p) ==
    /\ p.answer # "none"
    /\ Console(t,
         IF p.answer = "failed"
         THEN [console[t] EXCEPT !.posts = @ \ {p}, !.sub = None, !.status = "Error"]
         ELSE [console[t] EXCEPT !.posts = @ \ {p}, !.sub = p.sub, !.status = p.answer,
                 !.ref = p.sub, !.intervals = @ \cup {p.sub}])

poll(t, s) ==
    /\ s \in console[t].intervals
    /\ Overlap \/ \A p \in console[t].polls : p.sub # s
    /\ Console(t, [console[t] EXCEPT !.polls = @ \cup {[sub |-> s, answer |-> "none"]}])

answerPoll(t, p) ==
    /\ p.answer = "none"
    /\ Console(t, [console[t] EXCEPT !.polls =
                     (@ \ {p}) \cup {[p EXCEPT !.answer = subs[p.sub]]}])

stopPolling(c) == [c EXCEPT !.intervals = @ \ {c.ref}, !.ref = None]

\* Defect: any answer ends the polling.
checkStatusOnce(t, p) ==
    LET c == [console[t] EXCEPT !.polls = @ \ {p}]
    IN  /\ p.answer # "none"
        /\ Console(t, IF p.answer = "failed" THEN stopPolling(c)
                      ELSE stopPolling([c EXCEPT !.sub = p.sub, !.status = p.answer]))

\* checkStatus has its answer; an error ends the polling, and says nothing.
checkStatus(t, p) ==
    LET c == [console[t] EXCEPT !.polls = @ \ {p}]
        shown == [c EXCEPT !.sub = p.sub, !.status = p.answer]
    IN  /\ p.answer # "none"
        /\ Console(t, CASE p.answer = "failed" -> stopPolling(c)
                        [] p.answer \in Final -> stopPolling(shown)
                        [] OTHER -> shown)

handleRun(t) ==
    /\ Enabled(t) /\ Does("run")
    /\ Console(t, [console[t] EXCEPT !.running = TRUE, !.sub = None, !.status = "none"])

runEnds(t) ==
    /\ console[t].running
    /\ Console(t, [console[t] EXCEPT !.running = FALSE])

Judge(s) ==
    /\ subs[s] = "Pending"
    /\ \E v \in Final : subs' = [subs EXCEPT ![s] = v]
    /\ UNCHANGED <<now, typed, attempt, local, page, console, saves, faults, mix>>

-----------------------------------------------------------------------------
(* The environment.                                                        *)

Tick ==
    /\ Does("time") /\ now < MaxTime /\ now' = now + 1
    /\ UNCHANGED <<typed, server, local, page, console, saves, faults, mix>>

\* A call fails: on its way, or its answer does.
Fails(t) ==
    /\ Does("faults") /\ faults < MaxFaults /\ faults' = faults + 1
    /\ \/ /\ page[t].finish \in {"sent", "ended"}
          /\ page' = [page EXCEPT ![t].finish = "failed"]
          /\ UNCHANGED <<console, saves>>
       \/ /\ page[t].at = "loading"   \* with or without the assessment
          /\ \E at \in {"closed", "open"} :
                page' = [page EXCEPT ![t] = [Closed EXCEPT !.at = at, !.error = at = "open"]]
          /\ UNCHANGED <<console, saves>>
       \/ \E m \in saves :
          /\ m.tab = t /\ saves' = saves \ {m}
          /\ UNCHANGED <<page, console>>
       \/ \E p \in console[t].posts :
          /\ console' = [console EXCEPT ![t].posts =
                           (@ \ {p}) \cup {[p EXCEPT !.answer = "failed"]}]
          /\ UNCHANGED <<page, saves>>
       \/ \E p \in console[t].polls :
          /\ console' = [console EXCEPT ![t].polls =
                           (@ \ {p}) \cup {[p EXCEPT !.answer = "failed"]}]
          /\ UNCHANGED <<page, saves>>
    /\ UNCHANGED <<now, typed, server, local, mix>>

\* What a page does by itself, and what is done for it.
Runs(t) ==
    \/ showWorkspace(t) \/ syncDraft(t)
    \/ countdownEnds(t) \/ securityCountdownEnds(t)
    \/ submitAssessment(t) \/ finished(t) \/ runEnds(t)
    \/ \E p \in console[t].posts : submitSolution(t, p) \/ submitted(t, p)

Next ==
    \/ \E t \in Tab :
        \/ Runs(t) \/ fetchData(t) \/ Close(t) \/ Leave(t) \/ Fails(t)
        \/ fetchAnnouncements(t) \/ resynced(t)
        \/ handleCodeChange(t) \/ finishAssessment(t)
        \/ handleFullscreenChange(t)
        \/ \E hidden \in BOOLEAN : recordSecurityViolation(t, hidden)
        \/ handleSubmit(t) \/ handleRun(t)
        \/ \E s \in Sub : poll(t, s)
        \/ \E p \in console[t].polls : answerPoll(t, p) \/ checkStatus(t, p)
    \/ \E m \in saves : saveDraft(m)
    \/ \E s \in Sub : Judge(s)
    \/ addGraceTime \/ Tick

Spec == Init /\ [][Next]_vars

\* Timers fire, calls are answered, the judge judges.  What the student and
\* the faculty do is nobody's promise.
Fairness ==
    /\ WF_vars(Tick) /\ WF_vars(\E m \in saves : saveDraft(m))
    /\ \A s \in Sub : WF_vars(Judge(s))
    /\ \A t \in Tab :
        /\ WF_vars(Runs(t)) /\ WF_vars(fetchAnnouncements(t)) /\ WF_vars(resynced(t))
        /\ WF_vars(\E s \in Sub : poll(t, s))
        /\ WF_vars(\E p \in console[t].polls : answerPoll(t, p))
        /\ WF_vars(\E p \in console[t].polls : checkStatus(t, p))

FairSpec == Spec /\ Fairness

-----------------------------------------------------------------------------
(* Properties.                                                             *)

\* The copy of the work in the browser is given up only when the server has
\* ended the attempt, or had when it answered and was granted more time before
\* the answer was there: a finish that failed leaves something to reload.
DraftKeptUntilEnded ==
    [][\A t \in Tab : local[t] # 0 /\ local'[t] = 0
                        => attempt.status # "Active" \/ t \in attempt.revived]_vars

\* Once every page has made its pause after the last edit and the saves have
\* arrived, the server has what one of the pages shows: an edit made while a save
\* is on its way is saved too, and a re-activated attempt has the last work, unless
\* a call failed or a save was refused for coming when the attempt was over.
SyncedWhenQuiet ==
    (/\ mix.tabs # {} /\ \A t \in mix.tabs : Open(t) /\ ~page[t].unsynced
     /\ saves = {} /\ faults = 0 /\ attempt.refused = {})
    => \E t \in mix.tabs : attempt.draft = page[t].code

\* An attempt whose time is over does not stay active under an open page, even
\* when the page's own call failed or a resync took its countdown down: the
\* next resync makes the server look at it.
AttemptEnds ==
    \A t \in Tab :
        Open(t) /\ attempt.status = "Active" /\ now > attempt.deadline
        ~> ~Open(t) \/ attempt.status # "Active"

\* A page has one submission under way at most, and no timer but the one it
\* remembers: a second click, a failed call or an old answer starts no other.
OneUnderWay ==
    \A t \in Tab :
        /\ Cardinality(console[t].intervals \cup {p.sub : p \in console[t].posts}) <= 1
        /\ console[t].intervals \subseteq {console[t].ref}

\* What is polled is shown when it is judged, unless a call failed.
VerdictShown ==
    \A t \in Tab, s \in Sub :
        console[t].ref = s
        ~> \/ console[t].sub = s /\ console[t].status \in Final
           \/ ~Open(t) \/ faults > 0
=============================================================================
