--------------------------- MODULE AttemptPromise ---------------------------
(***************************************************************************)
(* What a request to the assessment service may do to one student's        *)
(* attempt, given the copy it read, `seen'.  An attempt is started once;   *)
(* drafts, events and submissions belong to an attempt seen active; it is  *)
(* closed when it was seen active, as timed out only by a handler that     *)
(* found the end of the copy's minutes over; granted minutes are added to  *)
(* those seen and reopen an attempt seen timed out; a result seen          *)
(* unchallenged may be challenged, and a challenge seen may be answered.   *)
(* When the copy is still what is stored, this is what a student is        *)
(* promised of requests that do not overlap.                               *)
(***************************************************************************)
EXTENDS Integers

CONSTANT Grants

VARIABLES now, assessment, attempt, stored

vars == <<now, assessment, attempt, stored>>

\* The attempt changes in these fields only.
Changes(fields) ==
    \A f \in DOMAIN attempt \ fields : attempt'[f] = attempt[f]

Due(grace) ==
    LET late == attempt.startedAt + assessment.duration
    IN  (IF late < assessment.end THEN late ELSE assessment.end) + grace

\* The copy is the stored attempt when the request begins and stays what it was;
\* the clock is compared once, with the end as the assessment puts it then.
Reads(seen, next) ==
    \/ next.at \in {"idle", "create"}
    \/ /\ seen.at = "idle" /\ next.time = "unchecked"
       /\ next.was = attempt.status /\ next.grace = attempt.grace
       /\ next.challenge = attempt.challenge
    \/ /\ seen.at # "idle"
       /\ next.was = seen.was /\ next.grace = seen.grace
       /\ next.challenge = seen.challenge
       /\ \/ next.time = seen.time
          \/ seen.time = "unchecked" /\ next.time = "over" /\ now >= Due(seen.grace)
          \/ seen.time = "unchecked" /\ next.time = "open" /\ now =< Due(seen.grace)

Start == /\ attempt.status = "None" /\ attempt'.status = "Active"
         /\ Changes({"status", "startedAt"}) /\ UNCHANGED stored

Work(seen) == /\ seen.was = "Active" /\ Changes({"draft", "flags"})
              /\ UNCHANGED stored

Solve(seen) == /\ seen.was = "Active" /\ seen.time = "open"
               /\ Changes({}) /\ stored \subseteq stored'

Submit(seen) == /\ seen.was = "Active" /\ seen.time = "open"
                /\ attempt'.status = "Submitted"
                /\ Changes({"status"}) /\ UNCHANGED stored

TimeOut(seen) == /\ seen.was = "Active" /\ seen.time = "over"
                 /\ attempt'.status = "TimedOut"
                 /\ Changes({"status"}) /\ UNCHANGED stored

Grant(seen) == /\ attempt'.grace - seen.grace \in Grants
               /\ \/ /\ seen.was = "TimedOut" /\ attempt'.status = "Active"
                     /\ Changes({"status", "grace"})
                  \/ seen.was # "TimedOut" /\ Changes({"grace"})
               /\ UNCHANGED stored

Challenge(seen) == /\ seen.was # "Active"
                   /\ seen.challenge = "None" /\ attempt'.challenge = "Raised"
                   /\ Changes({"challenge"}) /\ UNCHANGED stored

Answer(seen) == /\ seen.challenge = "Raised"
                /\ attempt'.challenge \in {"Accepted", "Rejected"}
                /\ Changes({"challenge"}) /\ UNCHANGED stored

Rescore == Changes({"score"}) /\ UNCHANGED stored

Step(seen) ==
    \/ Start \/ Work(seen) \/ Solve(seen) \/ Submit(seen) \/ TimeOut(seen)
    \/ Grant(seen) \/ Challenge(seen) \/ Answer(seen) \/ Rescore
=============================================================================
