------------------------- MODULE AssessmentDetails -------------------------
(***************************************************************************)
(* The way into an assessment: the list (AssessmentListPage.jsx), the page *)
(* that offers to start it (AssessmentDetailsPage.jsx) and the two dialogs *)
(* between the button and the workspace, which take the student's consent  *)
(* and the whole screen.                                                   *)
(*                                                                         *)
(* The clocks of browser and server agree; a page looks at its clock when  *)
(* it is drawn, and at the assessment as it was when the page was opened,  *)
(* so that what it offers may be out of date.                              *)
(***************************************************************************)
EXTENDS Integers, FiniteSets

CONSTANTS
    Times,    \* that an assessment may be given: [start, end]
    MaxTime,  \* bound on the clock
    Handle    \* identities of listeners, and so of calls: the bound on both

\* The API refuses any other assessment.
ASSUME EntryAssumption ==
    /\ Times \subseteq [start : Nat, end : Nat] /\ \A w \in Times : w.start <= w.end
    /\ MaxTime \in Nat

VARIABLES
    clock,
    offered,    \* the assessment: [status, times, locked]
    attempt,    \* the status of the student's attempt, or "none"
    role,       \* of the user
    screen,    \* [full, able]: fullscreen, and whether there is an API for it
    view,      \* the page
    listeners,  \* onFsChange listeners on the document: they outlive their page
    starts,     \* calls of startAttempt under way, with their answers
    past        \* history: consent given, attempt made, answer lost, where it led

entry == <<clock, offered, attempt, role, screen, view, listeners, starts, past>>

\* What a page is told of an assessment, and looks at.
Copy == [status |-> offered.status, times |-> offered.times]
NoCopy == [status |-> "none", times |-> [start |-> 0, end |-> 0]]

Away == [at |-> "list", seen |-> 0, copy |-> NoCopy, known |-> "none", dialog |-> "none",
         agreed |-> FALSE, pending |-> "none", starting |-> FALSE]

InitEntry ==
    /\ clock = 0
    /\ offered \in [status : {"Draft", "Published", "Completed"}, times : Times,
                     locked : BOOLEAN]
    /\ attempt \in {"none", "Active", "Submitted"}
    /\ role \in {"student", "faculty"} /\ (role = "faculty" => attempt = "none")
    /\ screen \in [full : BOOLEAN, able : BOOLEAN] /\ (screen.full => screen.able)
    /\ view = Away /\ listeners = {} /\ starts = {}
    /\ past = [agreed |-> FALSE, made |-> FALSE, trouble |-> FALSE, led |-> FALSE]

Draw(v) == view' = [v EXCEPT !.seen = clock]

-----------------------------------------------------------------------------
(* What is offered.                                                        *)

Within(a, t) == a.times.start <= t /\ t <= a.times.end

\* The sections of the list, of the assessments the list is told of.
section(a, t) ==
    IF role = "student" /\ a.status = "Draft" THEN "none"
    ELSE CASE a.status # "Published" \/ t > a.times.end -> "past"
           [] a.status = "Published" /\ Within(a, t) -> "active"
           [] OTHER -> "upcoming"

isAvailable == Within(view.copy, view.seen) /\ view.copy.status = "Published"

\* The action box.
box ==
    CASE view.known = "Submitted" -> "See Results"
      [] view.known = "Active" -> "Continue"
      [] view.known = "none" /\ isAvailable /\ role = "student" -> "Live Now"
      [] view.known = "none" /\ isAvailable /\ role # "student" -> "Cannot Start"
      [] view.known = "none" /\ ~isAvailable /\ view.seen < view.copy.times.start -> "Upcoming"
      [] OTHER -> "Ended"

\* startAssessment up to its search for an attempt.
accepts == offered.status = "Published" /\ ~offered.locked /\ Within(offered, clock)

-----------------------------------------------------------------------------
(* From the list to the dialogs.                                           *)

\* An attempt that cannot be read counts as none.
fetchAssessment ==
    /\ view.at = "list" /\ section(Copy, clock) # "none"
    /\ \E known \in {attempt, "none"} :
        /\ Draw([Away EXCEPT !.at = "details", !.copy = Copy, !.known = known])
        /\ past' = [past EXCEPT !.trouble = @ \/ known # attempt]
    /\ UNCHANGED <<clock, offered, attempt, role, screen, listeners, starts>>

handleStart ==
    /\ view.at = "details" /\ box = "Live Now" /\ view.dialog = "none" /\ ~view.starting
    /\ Draw([view EXCEPT !.agreed = FALSE, !.dialog = "instructions"])
    /\ UNCHANGED <<clock, offered, attempt, role, screen, listeners, starts, past>>

setAgreed ==
    /\ view.dialog = "instructions"
    /\ Draw([view EXCEPT !.agreed = ~@])
    /\ UNCHANGED <<clock, offered, attempt, role, screen, listeners, starts, past>>

\* Defect: the button does not wait for the consent.
handleBeginAnyway ==
    /\ view.dialog = "instructions"
    /\ Draw([view EXCEPT !.dialog = "prompt"])
    /\ past' = [past EXCEPT !.agreed = @ \/ view.agreed]
    /\ UNCHANGED <<clock, offered, attempt, role, screen, listeners, starts>>

handleBeginAfterInstructions ==
    /\ view.dialog = "instructions" /\ view.agreed
    /\ Draw([view EXCEPT !.dialog = "prompt"])
    /\ past' = [past EXCEPT !.agreed = TRUE]
    /\ UNCHANGED <<clock, offered, attempt, role, screen, listeners, starts>>

cancelDialog ==
    /\ view.dialog # "none"
    /\ Draw([view EXCEPT !.dialog = "none"])
    /\ UNCHANGED <<clock, offered, attempt, role, screen, listeners, starts, past>>

\* The listener is there before the screen is asked for.  A document on the whole screen
\* already grants it without an event, and the listener stays.
enterFullscreenAndStart ==
    /\ view.dialog = "prompt" /\ view.pending = "none"
    /\ IF screen.able
       THEN \E h \in Handle \ ({l.handle : l \in listeners} \cup {s.handle : s \in starts}) :
              /\ listeners' = listeners \cup {[handle |-> h, own |-> TRUE]}
              /\ Draw([view EXCEPT !.pending = IF screen.full THEN "none" ELSE h])
       ELSE Draw(view) /\ UNCHANGED listeners
    /\ UNCHANGED <<clock, offered, attempt, role, screen, starts, past>>

\* The whole screen, granted to this page or taken by another one (the workspace has a
\* button for it): every listener takes itself off and starts the assessment.  State is
\* set on the page a listener is of.
fullscreenchange ==
    LET here == \E l \in listeners : l.own
    IN  /\ screen.able /\ ~screen.full
        /\ view.pending # "none" \/ view.at \notin {"list", "details"}
        /\ screen' = [screen EXCEPT !.full = TRUE]
        /\ listeners' = {}
        /\ starts' = starts \cup {[handle |-> l.handle, own |-> l.own, answer |-> "none"] :
                                    l \in listeners}
        /\ Draw([view EXCEPT !.pending = "none", !.starting = @ \/ here,
                              !.dialog = IF here /\ @ = "prompt" THEN "none" ELSE @])
        /\ UNCHANGED <<clock, offered, attempt, role, past>>

\* Only the listener of this request is taken off.
fullscreenRefused ==
    /\ view.pending # "none"
    /\ listeners' = {l \in listeners : l.handle # view.pending}
    /\ Draw([view EXCEPT !.pending = "none"])
    /\ UNCHANGED <<clock, offered, attempt, role, screen, starts, past>>

exitFullscreen ==
    /\ screen.full /\ screen' = [screen EXCEPT !.full = FALSE]
    /\ UNCHANGED <<clock, offered, attempt, role, view, listeners, starts, past>>

-----------------------------------------------------------------------------
(* The start itself.                                                       *)

\* startAssessment on the server.
startAssessment ==
    \E s \in starts :
        /\ s.answer = "none"
        /\ attempt' = IF accepts /\ attempt = "none" THEN "Active" ELSE attempt
        /\ starts' = (starts \ {s}) \cup
                     {[s EXCEPT !.answer = IF accepts THEN attempt' ELSE "refused"]}
        /\ past' = [past EXCEPT !.made = @ \/ attempt' # attempt]
        /\ UNCHANGED <<clock, offered, role, screen, view, listeners>>

startLost ==
    /\ ~past.trouble
    /\ \E s \in starts :
        starts' = (starts \ {s}) \cup {[s EXCEPT !.answer = "refused"]}
    /\ past' = [past EXCEPT !.trouble = TRUE]
    /\ UNCHANGED <<clock, offered, attempt, role, screen, view, listeners>>

\* Only a listener's own page is going elsewhere now.
Gone == {[l EXCEPT !.own = FALSE] : l \in listeners}

\* startAttempt has its answer.  A refusal says so and stays; an answer leads away from
\* whatever page there is.
startAttempt ==
    \E s \in starts :
        /\ s.answer # "none"
        /\ IF s.answer = "refused"
           THEN /\ starts' = starts \ {s}
                /\ Draw([view EXCEPT !.starting = @ /\ ~s.own])
                /\ UNCHANGED <<listeners, past>>
           ELSE /\ starts' = {[r EXCEPT !.own = FALSE] : r \in starts \ {s}}
                /\ view' = [Away EXCEPT !.at = IF s.answer = "Active" THEN "workspace"
                                                                       ELSE "result"]
                /\ listeners' = Gone
                /\ past' = [past EXCEPT !.led = TRUE]
        /\ UNCHANGED <<clock, offered, attempt, role, screen>>

\* To another page: by the buttons for an attempt there is, or back.
Depart(page) ==
    /\ view' = [Away EXCEPT !.at = page]
    /\ listeners' = Gone
    /\ starts' = {[s EXCEPT !.own = FALSE] : s \in starts}
    /\ UNCHANGED <<clock, offered, role, screen, past>>

navigate ==
    /\ view.at = "details" /\ view.dialog = "none"
    /\ \/ box = "Continue" /\ Depart("workspace")
       \/ box = "See Results" /\ Depart("result")
    /\ UNCHANGED attempt

goBack == view.at # "list" /\ Depart("list") /\ UNCHANGED attempt

\* Elsewhere: the student hands in, and the faculty locks, unlocks, or stores the form of
\* the assessment again, with its status and its times.
submits == view.at = "workspace" /\ attempt = "Active" /\ attempt' = "Submitted" /\ Depart("result")

edited ==
    /\ \/ offered' = [offered EXCEPT !.locked = ~@]
       \/ \E status \in {"Draft", "Published", "Completed"}, times \in Times :
             offered' = [offered EXCEPT !.status = status, !.times = times]
    /\ UNCHANGED <<clock, attempt, role, screen, view, listeners, starts, past>>

tick ==
    /\ clock < MaxTime /\ clock' = clock + 1
    /\ UNCHANGED <<offered, attempt, role, screen, view, listeners, starts, past>>

EntryNext ==
    \/ fetchAssessment \/ handleStart \/ setAgreed \/ handleBeginAfterInstructions
    \/ cancelDialog \/ enterFullscreenAndStart \/ fullscreenchange \/ fullscreenRefused
    \/ exitFullscreen \/ startAssessment \/ startLost \/ startAttempt
    \/ navigate \/ goBack \/ submits \/ edited \/ tick

EntrySpec == InitEntry /\ [][EntryNext]_entry

-----------------------------------------------------------------------------

\* What list and page say of an assessment nobody has begun, at the same time.
Saying == {<<"active", "Live Now">>, <<"active", "Cannot Start">>,
           <<"upcoming", "Upcoming">>, <<"past", "Ended">>}

\* A page just drawn agrees with a list drawn then from the same published assessment, and
\* offers a start only if the server accepts it, unless the assessment is locked, which
\* pages do not look at, or has been edited since the page was opened; no attempt begins,
\* by no listener left behind by an earlier dialog either, before the student has given
\* the consent; and an attempt that has begun has led its student away from the page once
\* the calls are answered, unless an answer was lost: the time of the attempt does not run
\* behind a page that still offers its start (isAvailable, startAssessment,
\* enterFullscreenAndStart, startAttempt).
StartAgrees ==
    /\ view.at = "details" /\ view.seen = clock /\ view.known = attempt =>
          /\ box = "Live Now" => accepts \/ offered.locked \/ view.copy # Copy
          /\ view.copy.status = "Published" /\ attempt = "none" =>
                <<section(view.copy, clock), box>> \in Saying
    /\ past.made => past.agreed
    /\ past.made /\ starts = {} /\ ~past.trouble => past.led
=============================================================================
