--------------------- MODULE AssessmentWorkspace_proofs ---------------------
(***************************************************************************)
(* Theorems about the page a student solves an assessment in, for any      *)
(* number of browsers and submissions and any bounds.                      *)
(***************************************************************************)
EXTENDS AssessmentWorkspace, FiniteSetTheorems, TLAPS

PageType ==
    [at : {"closed", "loading", "open", "left"}, code : Nat,
     copy : [draft : Nat, deadline : Nat], known : Nat, active : BOOLEAN,
     unsynced : BOOLEAN, heard : Nat \cup {None},
     finish : {"no", "sent", "ended", "failed"}, warnings : Nat,
     countdown : BOOLEAN, error : BOOLEAN]

Call == [sub : Sub, answer : {"none", "Pending", "failed"} \cup Final]

ConsoleType ==
    [sub : Sub \cup {None}, status : {"none", "Submitting", "Pending"} \cup Final,
     intervals : SUBSET Sub, ref : Sub \cup {None}, posts : SUBSET Call,
     polls : SUBSET Call, running : BOOLEAN]

AttemptType ==
    [status : {"Active", "TimedOut", "Submitted"}, deadline : Nat, draft : Nat,
     refused : SUBSET Tab, revived : SUBSET Tab]

ServerType ==
    /\ attempt \in AttemptType
    /\ subs \in [Sub -> {"none", "Pending"} \cup Final]

BrowserType ==
    /\ local \in [Tab -> Nat]
    /\ page \in [Tab -> PageType]
    /\ console \in [Tab -> ConsoleType]

TypeOK ==
    /\ now \in Nat /\ typed \in Nat /\ faults \in Nat /\ mix \in Mixes
    /\ ServerType /\ BrowserType
    /\ saves \subseteq [tab : Tab, code : Nat]

-----------------------------------------------------------------------------
(* Types. *)

LEMMA ClosedType ==
    /\ Closed \in PageType
    /\ Closed.at = "closed" /\ Closed.finish = "no" /\ ~Closed.unsynced
    /\ Quiet \in ConsoleType
    /\ Quiet.posts = {} /\ Quiet.polls = {} /\ Quiet.intervals = {} /\ Quiet.ref = None
  BY DEF Closed, NoCopy, PageType, Quiet, ConsoleType

\* What a look at an attempt leaves: all of it but that it may time it out.
Reads(a) ==
    /\ a.draft = attempt.draft /\ a.refused = attempt.refused /\ a.revived = attempt.revived
    /\ a.status = "Active" => attempt.status = "Active"

LEMMA AttemptRead ==
    ASSUME ServerType
    PROVE  getAttempt \in AttemptType /\ Reads(getAttempt)
  BY DEF ServerType, AttemptType, getAttempt, Reads

\* The ways in which handlers change the record of their page.
LEMMA PageWith ==
    ASSUME NEW p \in PageType, NEW n \in Nat, NEW m \in Nat, NEW b \in BOOLEAN, NEW d \in BOOLEAN
    PROVE  /\ [p EXCEPT !.code = n, !.unsynced = b] \in PageType
           /\ [p EXCEPT !.unsynced = b] \in PageType
           /\ [p EXCEPT !.countdown = b] \in PageType
           /\ [p EXCEPT !.active = b, !.countdown = d] \in PageType
           /\ [p EXCEPT !.warnings = n, !.countdown = b] \in PageType
           /\ [p EXCEPT !.known = n, !.heard = None, !.active = b, !.countdown = d] \in PageType
           /\ [p EXCEPT !.heard = n] \in PageType
           /\ [p EXCEPT !.finish = "no", !.error = b] \in PageType
           /\ \A f \in {"no", "sent", "ended", "failed"} : [p EXCEPT !.finish = f] \in PageType
           /\ [Closed EXCEPT !.at = "open", !.code = n, !.known = m, !.active = b,
                 !.unsynced = TRUE] \in PageType
           /\ \A f \in {"no", "sent", "ended", "failed"} :
                 [Closed EXCEPT !.at = "left", !.finish = f] \in PageType
           /\ [Closed EXCEPT !.at = "left"] \in PageType
           /\ [Closed EXCEPT !.at = "loading", !.copy = [draft |-> n, deadline |-> m]] \in PageType
           /\ \A at \in {"closed", "open"} : [Closed EXCEPT !.at = at, !.error = b] \in PageType
<1>1. /\ [p EXCEPT !.code = n, !.unsynced = b] \in PageType
      /\ [p EXCEPT !.unsynced = b] \in PageType
      /\ [p EXCEPT !.countdown = b] \in PageType
  BY DEF PageType
<1>2. /\ [p EXCEPT !.active = b, !.countdown = d] \in PageType
      /\ [p EXCEPT !.warnings = n, !.countdown = b] \in PageType
  BY DEF PageType
<1>3. [p EXCEPT !.known = n, !.heard = None, !.active = b, !.countdown = d] \in PageType
  BY DEF PageType
<1>4. /\ [p EXCEPT !.heard = n] \in PageType
      /\ [p EXCEPT !.finish = "no", !.error = b] \in PageType
      /\ \A f \in {"no", "sent", "ended", "failed"} : [p EXCEPT !.finish = f] \in PageType
  BY DEF PageType
<1>5. [Closed EXCEPT !.at = "open", !.code = n, !.known = m, !.active = b,
         !.unsynced = TRUE] \in PageType
  BY DEF Closed, NoCopy, PageType
<1>6. /\ \A f \in {"no", "sent", "ended", "failed"} :
            [Closed EXCEPT !.at = "left", !.finish = f] \in PageType
      /\ [Closed EXCEPT !.at = "left"] \in PageType
      /\ \A at \in {"closed", "open"} : [Closed EXCEPT !.at = at, !.error = b] \in PageType
  BY DEF Closed, NoCopy, PageType
<1>7. [Closed EXCEPT !.at = "loading", !.copy = [draft |-> n, deadline |-> m]] \in PageType
  BY DEF Closed, NoCopy, PageType
<1>. QED
  BY <1>1, <1>2, <1>3, <1>4, <1>5, <1>6, <1>7

LEMMA TypeInit == Init => TypeOK
  BY ClosedType, WorkspaceAssumption
  DEF Init, TypeOK, ServerType, AttemptType, BrowserType, Final

\* What one page, its console and its draft become is of its type, so all are.
LEMMA BrowserMoves ==
    ASSUME BrowserType, NEW t \in Tab, NEW p \in PageType, NEW c \in ConsoleType, NEW n \in Nat,
           page' = [page EXCEPT ![t] = p] \/ page' = page,
           console' = [console EXCEPT ![t] = c] \/ console' = console,
           local' = [local EXCEPT ![t] = n] \/ local' = local
    PROVE  BrowserType'
  BY DEF BrowserType

LEMMA OnePage ==
    ASSUME BrowserType, NEW t \in Tab, NEW p, page' = [page EXCEPT ![t] = p]
    PROVE  page'[t] = p /\ \A u \in Tab : u # t => page'[u] = page[u]
  BY DEF BrowserType

LEMMA Types ==
    ASSUME TypeOK, NEW t \in Tab
    PROVE  /\ BrowserType /\ page[t] \in PageType /\ console[t] \in ConsoleType /\ local[t] \in Nat
           /\ page[t].copy \in [draft : Nat, deadline : Nat]
           /\ page[t].code \in Nat /\ page[t].warnings \in Nat
           /\ page[t].countdown \in BOOLEAN
           /\ page[t].finish \in {"no", "sent", "ended", "failed"}
           /\ now \in Nat /\ typed \in Nat /\ attempt.deadline \in Nat /\ attempt.draft \in Nat
           /\ attempt \in AttemptType /\ attempt.refused \subseteq Tab
           /\ Closed \in PageType /\ Quiet \in ConsoleType
           /\ Closed.at = "closed"
  BY ClosedType DEF TypeOK, BrowserType, ServerType, AttemptType, PageType

\* What handlers do to the page they run in, the rest being the same.
LEMMA TypeLoad ==
    ASSUME TypeOK, NEW t \in Tab,
           fetchData(t) \/ showWorkspace(t) \/ Close(t) \/ Leave(t) \/ finished(t)
    PROVE  TypeOK'
<1> USE Types
<1>1. CASE fetchData(t)
  <2> DEFINE p == [Closed EXCEPT !.at = "left"]
             q == [Closed EXCEPT !.at = "loading",
                     !.copy = [draft |-> attempt.draft, deadline |-> attempt.deadline]]
             r == IF getAttempt.status # "Active" THEN p ELSE q
  <2>1. p \in PageType /\ q \in PageType
    BY PageWith
  <2>2. page' = [page EXCEPT ![t] = r] /\ UNCHANGED <<console, local>>
    BY <1>1 DEF fetchData
  <2> HIDE DEF p, q
  <2>3. r \in PageType
    BY <2>1
  <2> HIDE DEF r
  <2>4. BrowserType'
    BY <2>2, <2>3, BrowserMoves
  <2>. QED
    BY <1>1, <2>4, AttemptRead DEF fetchData, TypeOK, ServerType
<1>2. CASE showWorkspace(t)
  <2> DEFINE copy == page[t].copy
             code == IF local[t] # 0 THEN local[t]
                     ELSE IF copy.draft # 0 THEN copy.draft ELSE 1
             due == copy.deadline > now
             p == [Closed EXCEPT !.at = "open", !.code = code, !.known = copy.deadline,
                     !.active = due, !.unsynced = TRUE]
  <2>1. copy.draft \in Nat /\ copy.deadline \in Nat /\ due \in BOOLEAN
    OBVIOUS
  <2>2. code \in Nat
    BY <2>1
  <2>3. page' = [page EXCEPT ![t] = p] /\ local' = [local EXCEPT ![t] = code]
        /\ UNCHANGED console
    BY <1>2 DEF showWorkspace
  <2> HIDE DEF copy, code, due
  <2>4. p \in PageType
    BY <2>1, <2>2, PageWith
  <2> HIDE DEF p
  <2>5. BrowserType'
    BY <2>2, <2>3, <2>4, BrowserMoves
  <2>. QED
    BY <1>2, <2>5 DEF showWorkspace, server, TypeOK, ServerType
<1>3. CASE Close(t)
  <2>1. BrowserType'
    BY <1>3, BrowserMoves DEF Close
  <2>. QED
    BY <1>3, <2>1 DEF Close, server, TypeOK, ServerType
<1>4. [Closed EXCEPT !.at = "left"] \in PageType /\ unmount(console[t]) \in ConsoleType
  <2>1. \A c \in ConsoleType : unmount(c) \in ConsoleType
    BY DEF unmount, ConsoleType
  <2>. QED
    BY <2>1, PageWith
<1>5. CASE Leave(t)
  <2>1. [Closed EXCEPT !.at = "left", !.finish = page[t].finish] \in PageType
    BY PageWith
  <2>2. BrowserType'
    BY <1>4, <1>5, <2>1, BrowserMoves DEF Leave
  <2>. QED
    BY <1>5, <2>2 DEF Leave, server, TypeOK, ServerType
<1>6. CASE finished(t)
  <2>1. BrowserType'
    <3>1. CASE page[t].finish = "ended"
      BY <1>4, <1>6, <3>1, BrowserMoves DEF finished
    <3>2. CASE page[t].finish = "failed"
      <4>1. [page[t] EXCEPT !.finish = "no", !.error = TRUE] \in PageType
        BY PageWith
      <4>. QED
        BY <1>6, <3>2, <4>1, BrowserMoves DEF finished, Page
    <3>. QED
      BY <1>6, <3>1, <3>2 DEF finished
  <2>. QED
    BY <1>6, <2>1 DEF finished, Page, server, TypeOK, ServerType
<1>. QED
  BY <1>1, <1>2, <1>3, <1>5, <1>6

LEMMA TypeDraft ==
    ASSUME TypeOK, NEW t \in Tab, handleCodeChange(t) \/ syncDraft(t)
    PROVE  /\ TypeOK'
           /\ \A u \in Tab : u # t => page'[u] = page[u]
           /\ page'[t].at = page[t].at /\ page'[t].finish = page[t].finish
           /\ handleCodeChange(t) => page'[t].unsynced
           /\ syncDraft(t) => page'[t].code = page[t].code
<1> USE Types
<1>1. CASE handleCodeChange(t)
  <2> DEFINE p == [page[t] EXCEPT !.code = typed', !.unsynced = TRUE]
  <2>1. typed' \in Nat
    BY <1>1 DEF handleCodeChange
  <2>2. page' = [page EXCEPT ![t] = p] /\ local' = [local EXCEPT ![t] = typed']
        /\ UNCHANGED console
    BY <1>1 DEF handleCodeChange
  <2>3. p \in PageType
    BY <2>1, PageWith
  <2>4. p.at = page[t].at /\ p.finish = page[t].finish /\ p.unsynced
    BY DEF PageType
  <2> HIDE DEF p
  <2>5. BrowserType'
    BY <2>1, <2>2, <2>3, BrowserMoves
  <2>6. page'[t] = p /\ \A u \in Tab : u # t => page'[u] = page[u]
    BY <2>2, OnePage
  <2>7. TypeOK'
    BY <1>1, <2>1, <2>5 DEF handleCodeChange, server, TypeOK, ServerType
  <2>8. ~syncDraft(t)
    BY <1>1 DEF handleCodeChange, syncDraft
  <2>. QED
    BY <2>4, <2>6, <2>7, <2>8
<1>2. CASE syncDraft(t)
  <2> DEFINE p == [page[t] EXCEPT !.unsynced = FALSE]
             m == [tab |-> t, code |-> page[t].code]
  <2>1. page' = [page EXCEPT ![t] = p] /\ saves' = saves \cup {m}
        /\ UNCHANGED <<local, console>>
    BY <1>2 DEF syncDraft
  <2>2. p \in PageType
    BY PageWith
  <2>3. p.at = page[t].at /\ p.finish = page[t].finish /\ p.code = page[t].code
    BY DEF PageType
  <2>4. m \in [tab : Tab, code : Nat]
    OBVIOUS
  <2> HIDE DEF p, m
  <2>5. BrowserType'
    BY <2>1, <2>2, BrowserMoves
  <2>6. page'[t] = p /\ \A u \in Tab : u # t => page'[u] = page[u]
    BY <2>1, OnePage
  <2>7. TypeOK'
    BY <1>2, <2>1, <2>4, <2>5 DEF syncDraft, server, TypeOK, ServerType
  <2>8. ~handleCodeChange(t)
    BY <1>2 DEF handleCodeChange, syncDraft
  <2>. QED
    BY <2>3, <2>6, <2>7, <2>8
<1>. QED
  BY <1>1, <1>2

\* The buttons, timers and answers that concern the end of the attempt.
PageOnly(t) ==
    \/ finishAssessment(t) \/ countdownEnds(t) \/ securityCountdownEnds(t)
    \/ handleFullscreenChange(t) \/ resynced(t)
    \/ \E hidden \in BOOLEAN : recordSecurityViolation(t, hidden)

\* What they leave alone: what the page shows and whether it was saved.
SamePage(p, q) == /\ p.at = q.at /\ p.code = q.code /\ p.unsynced = q.unsynced
                  /\ p.finish \in {q.finish, "sent"}

LEMMA Finishing ==
    ASSUME NEW p \in PageType
    PROVE  finishAttempt(p) \in PageType /\ SamePage(finishAttempt(p), p)
<1>1. [p EXCEPT !.finish = "sent"] \in PageType
  BY PageWith
<1>2. SamePage([p EXCEPT !.finish = "sent"], p)
  BY DEF PageType, SamePage
<1>. QED
  BY <1>1, <1>2 DEF finishAttempt, SamePage

\* They change what the page knows and whether it finishes, not what it shows.
LEMMA PageOnlySteps ==
    ASSUME TypeOK, NEW t \in Tab, PageOnly(t)
    PROVE  \E p \in PageType : Page(t, p) /\ Open(t) /\ SamePage(p, page[t])
<1> USE Types
<1>1. CASE finishAssessment(t)
  BY <1>1, Finishing DEF finishAssessment, Usable
<1>2. CASE countdownEnds(t)
  <2> DEFINE p == [page[t] EXCEPT !.active = FALSE, !.countdown = FALSE]
  <2>1. p \in PageType
    BY PageWith
  <2>2. SamePage(p, page[t])
    BY DEF PageType, SamePage
  <2>3. Page(t, finishAttempt(p)) /\ Open(t)
    BY <1>2 DEF countdownEnds
  <2> HIDE DEF p
  <2>. QED
    BY <2>1, <2>2, <2>3, Finishing DEF SamePage
<1>3. \A b \in BOOLEAN : /\ [page[t] EXCEPT !.countdown = b] \in PageType
                         /\ SamePage([page[t] EXCEPT !.countdown = b], page[t])
  <2> TAKE b \in BOOLEAN
  <2>1. [page[t] EXCEPT !.countdown = b] \in PageType
    BY PageWith
  <2>2. SamePage([page[t] EXCEPT !.countdown = b], page[t])
    BY DEF PageType, SamePage
  <2>. QED
    BY <2>1, <2>2
<1>4. CASE securityCountdownEnds(t)
  <2> DEFINE p == [page[t] EXCEPT !.countdown = FALSE]
  <2>1. p \in PageType /\ SamePage(p, page[t])
    BY <1>3
  <2>2. Page(t, finishAttempt(p)) /\ Open(t)
    BY <1>4 DEF securityCountdownEnds
  <2> HIDE DEF p
  <2>. QED
    BY <2>1, <2>2, Finishing DEF SamePage
<1>5. CASE handleFullscreenChange(t)
  BY <1>3, <1>5 DEF handleFullscreenChange
<1>6. CASE resynced(t)
  <2> DEFINE q == page[t]
             due == q.heard > now
             counting == q.countdown /\ due
             p == [q EXCEPT !.known = q.heard, !.heard = None, !.active = due,
                            !.countdown = counting]
  <2>1. q.heard \in Nat
    BY <1>6 DEF resynced, PageType
  <2>2. due \in BOOLEAN /\ counting \in BOOLEAN
    OBVIOUS
  <2>3. Page(t, p) /\ Open(t)
    BY <1>6 DEF resynced
  <2> HIDE DEF due, counting
  <2>4. p \in PageType
    BY <2>1, <2>2, PageWith
  <2>5. SamePage(p, q)
    BY DEF PageType, SamePage
  <2>. QED
    BY <2>3, <2>4, <2>5
<1>7. CASE \E hidden \in BOOLEAN : recordSecurityViolation(t, hidden)
  <2>1. PICK hidden \in BOOLEAN : recordSecurityViolation(t, hidden)
    BY <1>7
  <2> DEFINE q == page[t]
             counting == q.countdown \/ hidden
             p == [q EXCEPT !.warnings = @ + 1, !.countdown = counting]
  <2>2. q.warnings + 1 \in Nat /\ counting \in BOOLEAN
    OBVIOUS
  <2>3. /\ Page(t, IF p.warnings >= WarningLimit THEN finishAttempt(p) ELSE p)
        /\ Open(t)
    BY <2>1 DEF recordSecurityViolation
  <2> HIDE DEF counting
  <2>4. p = [q EXCEPT !.warnings = q.warnings + 1, !.countdown = counting]
    BY DEF PageType
  <2>5. p \in PageType
    BY <2>2, <2>4, PageWith
  <2>6. SamePage(p, q)
    BY DEF PageType, SamePage
  <2> HIDE DEF p
  <2>. QED
    BY <2>3, <2>5, <2>6, Finishing DEF SamePage
<1>. QED
  BY <1>1, <1>2, <1>4, <1>5, <1>6, <1>7 DEF PageOnly

LEMMA TypePage ==
    ASSUME TypeOK, NEW t \in Tab, PageOnly(t) \/ fetchAnnouncements(t) \/ submitAssessment(t)
    PROVE  TypeOK'
<1> USE Types
<1>1. CASE PageOnly(t)
  <2>1. PICK p \in PageType : Page(t, p)
    BY <1>1, PageOnlySteps
  <2>2. BrowserType'
    BY <2>1, BrowserMoves DEF Page
  <2>. QED
    BY <2>1, <2>2 DEF Page, server, TypeOK, ServerType
<1>2. CASE fetchAnnouncements(t)
  <2>1. [page[t] EXCEPT !.heard = attempt.deadline] \in PageType
    BY PageWith
  <2>2. page' = [page EXCEPT ![t] = [page[t] EXCEPT !.heard = attempt.deadline]]
        /\ UNCHANGED <<console, local>>
    BY <1>2 DEF fetchAnnouncements
  <2>3. BrowserType'
    BY <2>1, <2>2, BrowserMoves
  <2>. QED
    BY <1>2, <2>3, AttemptRead DEF fetchAnnouncements, TypeOK, ServerType
<1>3. CASE submitAssessment(t)
  <2>1. [page[t] EXCEPT !.finish = "ended"] \in PageType
    BY PageWith
  <2>2. page' = [page EXCEPT ![t] = [page[t] EXCEPT !.finish = "ended"]]
        /\ UNCHANGED <<console, local>>
    BY <1>3 DEF submitAssessment
  <2>3. BrowserType'
    BY <2>1, <2>2, BrowserMoves
  <2>4. attempt' \in AttemptType
    BY <1>3, AttemptRead DEF submitAssessment, TypeOK, AttemptType
  <2>. QED
    BY <1>3, <2>3, <2>4 DEF submitAssessment, TypeOK, ServerType
<1>. QED
  BY <1>1, <1>2, <1>3

-----------------------------------------------------------------------------
(* Submissions and their timers. *)

\* A console has one thing to wait for at most: the answer to a submission, while
\* the button is disabled, or the verdict of the submission it remembers.
Waits(c) ==
    /\ c.intervals \subseteq {c.ref}
    /\ c.posts = {} \/ /\ \E p \in Call : c.posts = {p}
                       /\ c.ref = None /\ c.polls = {} /\ c.status = "Submitting"
    /\ c.polls = {} \/ \E p \in Call : c.polls = {p} /\ p.sub = c.ref

\* The buttons, timers and answers that concern submissions and runs.
ConsoleOnly(t) ==
    \/ handleSubmit(t) \/ handleRun(t) \/ runEnds(t)
    \/ \E p \in console[t].posts : submitted(t, p)
    \/ \E s \in Sub : poll(t, s)
    \/ \E p \in console[t].polls : answerPoll(t, p) \/ checkStatus(t, p)

LEMMA QuietWaits == Waits(Quiet)
  BY ClosedType DEF Waits

LEMMA UnmountWaits ==
    ASSUME NEW c \in ConsoleType
    PROVE  unmount(c) \in ConsoleType /\ (Waits(c) => Waits(unmount(c)))
<1>1. unmount(c) \in ConsoleType
  BY DEF unmount, ConsoleType
<1>2. /\ unmount(c).intervals = {} /\ unmount(c).ref = c.ref /\ unmount(c).posts = c.posts
      /\ unmount(c).polls = c.polls /\ unmount(c).status = c.status
  BY DEF unmount, ConsoleType
<1>. QED
  BY <1>1, <1>2 DEF Waits

\* An answer or a failure changes the call it is about.
LEMMA CallAnswered ==
    ASSUME NEW p \in Call, NEW a \in {"none", "Pending", "failed"} \cup Final
    PROVE  [p EXCEPT !.answer = a] \in Call /\ [p EXCEPT !.answer = a].sub = p.sub
  BY DEF Call

LEMMA PostAnswered ==
    ASSUME NEW c \in ConsoleType, NEW p \in c.posts, NEW q \in Call
    PROVE  LET d == [c EXCEPT !.posts = (@ \ {p}) \cup {q}]
           IN  d \in ConsoleType /\ (Waits(c) => Waits(d))
<1> DEFINE d == [c EXCEPT !.posts = (@ \ {p}) \cup {q}]
<1>1. /\ d \in ConsoleType
      /\ d.posts = (c.posts \ {p}) \cup {q} /\ d.intervals = c.intervals /\ d.ref = c.ref
      /\ d.polls = c.polls /\ d.status = c.status
  BY DEF ConsoleType
<1> HIDE DEF d
<1>2. ASSUME Waits(c) PROVE Waits(d)
  <2>1. PICK o \in Call : c.posts = {o}
    BY <1>2 DEF Waits
  <2>2. d.posts = {q}
    BY <1>1, <2>1
  <2>. QED
    BY <1>1, <1>2, <2>2 DEF Waits
<1>. QED
  BY <1>1, <1>2 DEF d

LEMMA PollAnswered ==
    ASSUME NEW c \in ConsoleType, NEW p \in c.polls, NEW q \in Call, q.sub = p.sub
    PROVE  LET d == [c EXCEPT !.polls = (@ \ {p}) \cup {q}]
           IN  d \in ConsoleType /\ (Waits(c) => Waits(d))
<1> DEFINE d == [c EXCEPT !.polls = (@ \ {p}) \cup {q}]
<1>1. /\ d \in ConsoleType
      /\ d.polls = (c.polls \ {p}) \cup {q} /\ d.intervals = c.intervals /\ d.ref = c.ref
      /\ d.posts = c.posts /\ d.status = c.status
  BY DEF ConsoleType
<1> HIDE DEF d
<1>2. ASSUME Waits(c) PROVE Waits(d)
  <2>1. PICK o \in Call : c.polls = {o} /\ o.sub = c.ref
    BY <1>2 DEF Waits
  <2>2. d.polls = {q} /\ q.sub = c.ref
    BY <1>1, <2>1
  <2>. QED
    BY <1>1, <1>2, <2>1, <2>2 DEF Waits
<1>. QED
  BY <1>1, <1>2 DEF d

LEMMA ConsoleSteps ==
    ASSUME TypeOK, NEW t \in Tab, ConsoleOnly(t)
    PROVE  \E c \in ConsoleType :
              Console(t, c) /\ (~Overlap /\ Waits(console[t]) => Waits(c))
<1> DEFINE b == console[t]
<1>0. b \in ConsoleType
  BY Types
<1> HIDE DEF b
<1>1. CASE handleSubmit(t)
  <2>1. PICK s \in Sub : Console(t, [b EXCEPT !.sub = None, !.status = "Submitting",
                                       !.posts = @ \cup {[sub |-> s, answer |-> "none"]}])
    BY <1>1 DEF handleSubmit, b
  <2> DEFINE p == [sub |-> s, answer |-> "none"]
             c == [b EXCEPT !.sub = None, !.status = "Submitting", !.posts = @ \cup {p}]
  <2>2. p \in Call
    BY DEF Call
  <2> HIDE DEF p
  <2>3. /\ c \in ConsoleType
        /\ c.posts = b.posts \cup {p} /\ c.status = "Submitting" /\ c.ref = b.ref
        /\ c.intervals = b.intervals /\ c.polls = b.polls
    BY <1>0, <2>2 DEF ConsoleType
  <2>4. b.ref = None /\ b.status # "Submitting"
    BY <1>1 DEF handleSubmit, Enabled, isJudging, b
  <2>5. Console(t, c)
    BY <2>1 DEF p
  <2> HIDE DEF c
  <2>6. ASSUME Waits(b) PROVE Waits(c)
    <3>1. b.posts = {} /\ b.polls = {}
      BY <2>4, <2>6, WorkspaceAssumption DEF Waits, Call
    <3>2. c.posts = {p} /\ c.polls = {}
      BY <2>3, <3>1
    <3>. QED
      BY <2>2, <2>3, <2>4, <2>6, <3>2 DEF Waits
  <2>. QED
    BY <2>3, <2>5, <2>6 DEF b
<1>2. CASE handleRun(t)
  <2> DEFINE c == [b EXCEPT !.running = TRUE, !.sub = None, !.status = "none"]
  <2>1. /\ c \in ConsoleType
        /\ c.posts = b.posts /\ c.ref = b.ref /\ c.intervals = b.intervals /\ c.polls = b.polls
    BY <1>0 DEF ConsoleType
  <2>2. Console(t, c) /\ b.status # "Submitting"
    BY <1>2 DEF handleRun, Enabled, isJudging, b
  <2> HIDE DEF c
  <2>3. Waits(b) => Waits(c)
    BY <2>1, <2>2 DEF Waits
  <2>. QED
    BY <2>1, <2>2, <2>3 DEF b
<1>3. CASE runEnds(t)
  <2> DEFINE c == [b EXCEPT !.running = FALSE]
  <2>1. /\ c \in ConsoleType /\ c.status = b.status
        /\ c.posts = b.posts /\ c.ref = b.ref /\ c.intervals = b.intervals /\ c.polls = b.polls
    BY <1>0 DEF ConsoleType
  <2>2. Console(t, c)
    BY <1>3 DEF runEnds, b
  <2> HIDE DEF c
  <2>3. Waits(b) => Waits(c)
    BY <2>1 DEF Waits
  <2>. QED
    BY <2>1, <2>2, <2>3 DEF b
<1>4. CASE \E p \in console[t].posts : submitted(t, p)
  <2>1. PICK p \in b.posts : submitted(t, p)
    BY <1>4 DEF b
  <2>2. p \in Call /\ p.sub \in Sub /\ p.answer \in {"Pending", "failed"} \cup Final
    BY <1>0, <2>1 DEF ConsoleType, Call, submitted
  <2>3. ASSUME Waits(b) PROVE b.posts = {p} /\ b.polls = {} /\ b.ref = None
    BY <2>3 DEF Waits
  <2>4. CASE p.answer = "failed"
    <3> DEFINE c == [b EXCEPT !.posts = @ \ {p}, !.sub = None, !.status = "Error"]
    <3>1. /\ c \in ConsoleType
          /\ c.posts = b.posts \ {p} /\ c.ref = b.ref /\ c.intervals = b.intervals
          /\ c.polls = b.polls
      BY <1>0 DEF ConsoleType, Final
    <3>2. Console(t, c)
      BY <2>1, <2>4 DEF submitted, b
    <3> HIDE DEF c
    <3>3. ASSUME Waits(b) PROVE Waits(c)
      <4>1. c.posts = {} /\ c.polls = {}
        BY <2>3, <3>1, <3>3
      <4>. QED
        BY <3>1, <3>3, <4>1 DEF Waits
    <3>. QED
      BY <3>1, <3>2, <3>3 DEF b
  <2>5. CASE p.answer # "failed"
    <3> DEFINE c == [b EXCEPT !.posts = @ \ {p}, !.sub = p.sub, !.status = p.answer,
                        !.ref = p.sub, !.intervals = @ \cup {p.sub}]
    <3>1. /\ c \in ConsoleType
          /\ c.posts = b.posts \ {p} /\ c.ref = p.sub /\ c.intervals = b.intervals \cup {p.sub}
          /\ c.polls = b.polls
      BY <1>0, <2>2, <2>5 DEF ConsoleType
    <3>2. Console(t, c)
      BY <2>1, <2>5 DEF submitted, b
    <3> HIDE DEF c
    <3>3. ASSUME Waits(b) PROVE Waits(c)
      <4>1. c.posts = {} /\ c.polls = {}
        BY <2>3, <3>1, <3>3
      <4>2. b.intervals = {}
        BY <1>0, <2>3, <3>3, WorkspaceAssumption DEF Waits, ConsoleType
      <4>. QED
        BY <3>1, <4>1, <4>2 DEF Waits
    <3>. QED
      BY <3>1, <3>2, <3>3 DEF b
  <2>. QED
    BY <2>4, <2>5
<1>5. CASE \E s \in Sub : poll(t, s)
  <2>1. PICK s \in Sub : poll(t, s)
    BY <1>5
  <2> DEFINE p == [sub |-> s, answer |-> "none"]
             c == [b EXCEPT !.polls = @ \cup {p}]
  <2>2. p \in Call /\ p.sub = s
    BY DEF Call
  <2> HIDE DEF p
  <2>3. /\ c \in ConsoleType /\ c.status = b.status
        /\ c.posts = b.posts /\ c.ref = b.ref /\ c.intervals = b.intervals
        /\ c.polls = b.polls \cup {p}
    BY <1>0, <2>2 DEF ConsoleType
  <2>4. /\ Console(t, c) /\ s \in b.intervals
        /\ ~Overlap => \A q \in b.polls : q.sub # s
    BY <2>1 DEF poll, b, p
  <2> HIDE DEF c
  <2>5. ASSUME ~Overlap, Waits(b) PROVE Waits(c)
    <3>1. b.ref = s
      BY <2>4, <2>5 DEF Waits
    <3>2. b.polls = {}
      BY <2>4, <2>5, <3>1 DEF Waits
    <3>3. c.polls = {p}
      BY <2>3, <3>2
    <3>4. b.posts = {}
      BY <2>5, <3>1, WorkspaceAssumption DEF Waits
    <3>. QED
      BY <2>2, <2>3, <2>5, <3>1, <3>3, <3>4 DEF Waits
  <2>. QED
    BY <2>3, <2>4, <2>5 DEF b
<1>6. CASE \E p \in console[t].polls : answerPoll(t, p)
  <2>1. PICK p \in b.polls : answerPoll(t, p)
    BY <1>6 DEF b
  <2>2. p \in Call /\ subs[p.sub] \in {"none", "Pending", "failed"} \cup Final
    BY <1>0, <2>1 DEF ConsoleType, Call, TypeOK, ServerType
  <2> DEFINE q == [p EXCEPT !.answer = subs[p.sub]]
  <2>3. q \in Call /\ q.sub = p.sub
    BY <2>2, CallAnswered
  <2> HIDE DEF q
  <2>4. Console(t, [b EXCEPT !.polls = (@ \ {p}) \cup {q}])
    BY <2>1 DEF answerPoll, b, q
  <2>. QED
    BY <1>0, <2>3, <2>4, PollAnswered DEF b
<1>7. CASE \E p \in console[t].polls : checkStatus(t, p)
  <2>1. PICK p \in b.polls : checkStatus(t, p)
    BY <1>7 DEF b
  <2>2. p \in Call /\ p.sub \in Sub /\ p.answer \in {"Pending", "failed"} \cup Final
    BY <1>0, <2>1 DEF ConsoleType, Call, checkStatus
  <2> DEFINE c == [b EXCEPT !.polls = @ \ {p}]
             shown == [c EXCEPT !.sub = p.sub, !.status = p.answer]
             d == CASE p.answer = "failed" -> stopPolling(c)
                    [] p.answer \in Final -> stopPolling(shown)
                    [] OTHER -> shown
  <2>3. c \in ConsoleType /\ c.polls = b.polls \ {p} /\ c.posts = b.posts
        /\ c.intervals = b.intervals /\ c.ref = b.ref
    BY <1>0 DEF ConsoleType
  <2>4. Console(t, d)
    BY <2>1 DEF checkStatus, b
  <2> HIDE DEF c
  <2>5. p.answer # "failed" => 
           shown \in ConsoleType /\ shown.polls = c.polls /\ shown.posts = c.posts
           /\ shown.intervals = c.intervals /\ shown.ref = c.ref
    BY <2>2, <2>3 DEF ConsoleType
  <2> HIDE DEF shown
  <2>6. \A e \in ConsoleType :
           /\ stopPolling(e) \in ConsoleType /\ stopPolling(e).ref = None
           /\ stopPolling(e).intervals = e.intervals \ {e.ref}
           /\ stopPolling(e).polls = e.polls /\ stopPolling(e).posts = e.posts
    BY DEF stopPolling, ConsoleType
  <2>7. /\ d \in ConsoleType /\ d.polls = b.polls \ {p} /\ d.posts = b.posts
        /\ \/ d.ref = b.ref /\ d.intervals = b.intervals
           \/ d.ref = None /\ d.intervals = b.intervals \ {b.ref}
    <3>1. CASE p.answer = "failed"
      <4>1. d = stopPolling(c)
        BY <3>1 DEF Final
      <4>. QED
        BY <2>3, <2>6, <4>1
    <3>2. CASE p.answer \in Final
      <4>1. d = stopPolling(shown) /\ p.answer # "failed"
        BY <3>2 DEF Final
      <4>. QED
        BY <2>3, <2>5, <2>6, <4>1
    <3>3. CASE p.answer = "Pending"
      <4>1. d = shown
        BY <3>3 DEF Final
      <4>. QED
        BY <2>3, <2>5, <3>3, <4>1
    <3>. QED
      BY <2>2, <3>1, <3>2, <3>3
  <2> HIDE DEF d
  <2>8. ASSUME Waits(b) PROVE Waits(d)
    <3>1. b.polls = {p} /\ b.posts = {}
      BY <2>1, <2>8 DEF Waits
    <3>2. d.polls = {} /\ d.posts = {}
      BY <2>7, <3>1
    <3>. QED
      BY <2>7, <2>8, <3>2 DEF Waits
  <2>. QED
    BY <2>4, <2>7, <2>8 DEF b
<1>. QED
  BY <1>1, <1>2, <1>3, <1>4, <1>5, <1>6, <1>7 DEF ConsoleOnly

LEMMA SubmissionSteps ==
    ASSUME TypeOK, NEW t \in Tab, NEW p \in console[t].posts, submitSolution(t, p)
    PROVE  \E c \in ConsoleType :
              /\ console' = [console EXCEPT ![t] = c] /\ UNCHANGED <<page, local>>
              /\ Waits(console[t]) => Waits(c)
<1> DEFINE late == attempt.status = "Active" /\ now >= attempt.deadline
           taken == attempt.status = "Active" /\ ~late
           q == [p EXCEPT !.answer = IF taken THEN "Pending" ELSE "failed"]
           c == [console[t] EXCEPT !.posts = (@ \ {p}) \cup {q}]
<1>1. q \in Call /\ console[t] \in ConsoleType
  BY CallAnswered, Types DEF ConsoleType
<1>2. console' = [console EXCEPT ![t] = c] /\ UNCHANGED <<page, local>>
  BY DEF submitSolution
<1> HIDE DEF q
<1>. QED
  BY <1>1, <1>2, PostAnswered

\* The page is there, with or without its assessment.
Shown == {"loading", "open"}

\* A call that fails changes one page or one console, in one of five ways.
LEMMA FailureSteps ==
    ASSUME TypeOK, NEW t \in Tab, Fails(t)
    PROVE  /\ faults' = faults + 1 /\ UNCHANGED <<now, typed, attempt, subs, local, mix>>
           /\ saves' \subseteq saves
           /\ \/ /\ UNCHANGED console
                 /\ \E p \in PageType :
                       /\ page' = [page EXCEPT ![t] = p]
                       /\ p.finish # "ended"
                       /\ p.at \in Shown => page[t].at \in Shown
              \/ UNCHANGED <<page, console>>
              \/ /\ UNCHANGED page
                 /\ \E c \in ConsoleType : /\ console' = [console EXCEPT ![t] = c]
                                           /\ Waits(console[t]) => Waits(c)
<1> USE Types
<1>0. /\ faults' = faults + 1 /\ UNCHANGED <<now, typed, attempt, subs, local, mix>>
  BY DEF Fails, server
<1>1. CASE /\ page[t].finish \in {"sent", "ended"}
           /\ page' = [page EXCEPT ![t].finish = "failed"]
           /\ UNCHANGED <<console, saves>>
  <2> DEFINE p == [page[t] EXCEPT !.finish = "failed"]
  <2>1. p \in PageType
    BY PageWith
  <2>2. p.finish = "failed" /\ p.at = page[t].at
    BY DEF PageType
  <2>3. page' = [page EXCEPT ![t] = p]
    BY <1>1
  <2> HIDE DEF p
  <2>. QED
    BY <1>0, <1>1, <2>1, <2>2, <2>3 DEF Shown
<1>2. CASE /\ page[t].at = "loading"
           /\ \E at \in {"closed", "open"} :
                 page' = [page EXCEPT ![t] = [Closed EXCEPT !.at = at, !.error = at = "open"]]
           /\ UNCHANGED <<console, saves>>
  <2>1. PICK at \in {"closed", "open"} :
           page' = [page EXCEPT ![t] = [Closed EXCEPT !.at = at, !.error = at = "open"]]
    BY <1>2
  <2> DEFINE bad == at = "open"
             p == [Closed EXCEPT !.at = at, !.error = bad]
  <2>2. bad \in BOOLEAN
    OBVIOUS
  <2>3. page' = [page EXCEPT ![t] = p]
    BY <2>1
  <2> HIDE DEF bad
  <2>4. p \in PageType
    BY <2>2, PageWith
  <2>5. p.finish = "no" /\ p.at = at
    BY DEF Closed
  <2> HIDE DEF p
  <2>. QED
    BY <1>0, <1>2, <2>3, <2>4, <2>5 DEF Shown
<1>3. CASE /\ \E m \in saves : m.tab = t /\ saves' = saves \ {m}
           /\ UNCHANGED <<page, console>>
  BY <1>0, <1>3
<1>4. CASE /\ \E p \in console[t].posts :
                 console' = [console EXCEPT ![t].posts =
                               (@ \ {p}) \cup {[p EXCEPT !.answer = "failed"]}]
           /\ UNCHANGED <<page, saves>>
  <2>1. PICK p \in console[t].posts :
           console' = [console EXCEPT ![t].posts =
                         (@ \ {p}) \cup {[p EXCEPT !.answer = "failed"]}]
    BY <1>4
  <2> DEFINE q == [p EXCEPT !.answer = "failed"]
             c == [console[t] EXCEPT !.posts = (@ \ {p}) \cup {q}]
  <2>2. p \in Call /\ q \in Call
    BY CallAnswered DEF ConsoleType
  <2>3. console' = [console EXCEPT ![t] = c]
    BY <2>1
  <2> HIDE DEF q
  <2>4. c \in ConsoleType /\ (Waits(console[t]) => Waits(c))
    BY <2>2, PostAnswered
  <2> HIDE DEF c
  <2>. QED
    BY <1>0, <1>4, <2>3, <2>4
<1>5. CASE /\ \E p \in console[t].polls :
                 console' = [console EXCEPT ![t].polls =
                               (@ \ {p}) \cup {[p EXCEPT !.answer = "failed"]}]
           /\ UNCHANGED <<page, saves>>
  <2>1. PICK p \in console[t].polls :
           console' = [console EXCEPT ![t].polls =
                         (@ \ {p}) \cup {[p EXCEPT !.answer = "failed"]}]
    BY <1>5
  <2> DEFINE q == [p EXCEPT !.answer = "failed"]
             c == [console[t] EXCEPT !.polls = (@ \ {p}) \cup {q}]
  <2>2. p \in Call
    BY DEF ConsoleType
  <2>3. q \in Call /\ q.sub = p.sub
    BY <2>2, CallAnswered
  <2>4. console' = [console EXCEPT ![t] = c]
    BY <2>1
  <2> HIDE DEF q
  <2>5. c \in ConsoleType /\ (Waits(console[t]) => Waits(c))
    BY <2>3, PollAnswered
  <2> HIDE DEF c
  <2>. QED
    BY <1>0, <1>5, <2>4, <2>5
<1>. QED
  BY <1>1, <1>2, <1>3, <1>4, <1>5 DEF Fails

LEMMA TypeRest ==
    ASSUME TypeOK,
           \/ \E t \in Tab : ConsoleOnly(t) \/ Fails(t)
           \/ \E t \in Tab : \E p \in console[t].posts : submitSolution(t, p)
           \/ \E m \in saves : saveDraft(m)
           \/ \E s \in Sub : Judge(s)
           \/ addGraceTime \/ Tick
    PROVE  TypeOK'
<1>1. ASSUME NEW t \in Tab, ConsoleOnly(t) PROVE TypeOK'
  <2>1. PICK c \in ConsoleType : Console(t, c)
    BY <1>1, ConsoleSteps
  <2>2. BrowserType'
    BY <2>1, Types, BrowserMoves DEF Console
  <2>. QED
    BY <2>1, <2>2 DEF Console, server, TypeOK, ServerType
<1>2. ASSUME NEW t \in Tab, Fails(t) PROVE TypeOK'
  <2>1. BrowserType'
    BY <1>2, FailureSteps, Types, BrowserMoves
  <2>. QED
    BY <1>2, <2>1, FailureSteps DEF TypeOK, ServerType
<1>3. ASSUME NEW t \in Tab, NEW p \in console[t].posts, submitSolution(t, p) PROVE TypeOK'
  <2>1. BrowserType'
    BY <1>3, SubmissionSteps, Types, BrowserMoves
  <2>2. p.sub \in Sub
    BY <1>3, Types DEF ConsoleType, Call
  <2>. QED
    BY <1>3, <2>1, <2>2 DEF submitSolution, TypeOK, ServerType, AttemptType
<1>4. ASSUME NEW m \in saves, saveDraft(m) PROVE TypeOK'
  <2>1. m.code \in Nat /\ m.tab \in Tab
    BY DEF TypeOK
  <2>. QED
    BY <1>4, <2>1 DEF saveDraft, TypeOK, ServerType, AttemptType, BrowserType
<1>5. ASSUME addGraceTime PROVE TypeOK'
  <2> DEFINE told == {t \in Tab : page[t].finish = "ended"}
  <2>1. told \subseteq Tab
    OBVIOUS
  <2>2. attempt' = IF attempt.status = "TimedOut"
                   THEN [attempt EXCEPT !.deadline = @ + 1, !.status = "Active",
                           !.revived = @ \cup told]
                   ELSE [attempt EXCEPT !.deadline = @ + 1]
    BY <1>5 DEF addGraceTime
  <2> HIDE DEF told
  <2>3. /\ attempt \in AttemptType /\ attempt.deadline + 1 \in Nat
        /\ attempt.revived \cup told \subseteq Tab
    BY <2>1 DEF TypeOK, ServerType, AttemptType
  <2>4. /\ [attempt EXCEPT !.deadline = attempt.deadline + 1] \in AttemptType
        /\ \A who \in SUBSET Tab :
              [attempt EXCEPT !.deadline = attempt.deadline + 1, !.status = "Active",
                 !.revived = who] \in AttemptType
    BY <2>3 DEF AttemptType
  <2>5. attempt' \in AttemptType
    BY <2>2, <2>3, <2>4
  <2>. QED
    BY <1>5, <2>5 DEF addGraceTime, TypeOK, ServerType, BrowserType
<1>6. ASSUME (\E s \in Sub : Judge(s)) \/ Tick PROVE TypeOK'
  BY <1>6 DEF Judge, Tick, server, TypeOK, ServerType, BrowserType
<1>. QED
  BY <1>1, <1>2, <1>3, <1>4, <1>5, <1>6

\* The steps of the specification, in the groups the lemmas are about.
LEMMA Groups ==
    ASSUME Next
    PROVE  \/ \E t \in Tab :
                 \/ fetchData(t) \/ showWorkspace(t) \/ Close(t) \/ Leave(t) \/ finished(t)
                 \/ handleCodeChange(t) \/ syncDraft(t)
                 \/ PageOnly(t) \/ fetchAnnouncements(t) \/ submitAssessment(t)
                 \/ ConsoleOnly(t) \/ Fails(t)
                 \/ \E p \in console[t].posts : submitSolution(t, p)
           \/ \E m \in saves : saveDraft(m)
           \/ \E s \in Sub : Judge(s)
           \/ addGraceTime \/ Tick
  BY DEF Next, Runs, PageOnly, ConsoleOnly

LEMMA TypeNext == TypeOK /\ [Next]_vars => TypeOK'
<1> SUFFICES ASSUME TypeOK, [Next]_vars PROVE TypeOK'
  OBVIOUS
<1>1. CASE UNCHANGED vars
  BY <1>1 DEF vars, server, TypeOK, ServerType, BrowserType
<1>2. CASE Next
  BY <1>2, Groups, TypeLoad, TypeDraft, TypePage, TypeRest
<1>. QED
  BY <1>1, <1>2

\* Every page, console and stored document is of its type; in particular a
\* timer and an answer are always about a submission (AssessmentWorkspace.jsx).
THEOREM WorkspaceTypes == Spec => []TypeOK
  BY TypeInit, TypeNext, PTL DEF Spec

\* A second click, an answer that comes late, a failed call or a page that was
\* left start no second timer and no second submission, as long as a call is
\* answered before the timer that repeats it fires again (Overlap).
THEOREM NothingIsSubmittedTwice == ASSUME ~Overlap PROVE Spec => []OneUnderWay
<1> DEFINE Calm == \A t \in Tab : Waits(console[t])
<1>1. Init => Calm
  BY QuietWaits DEF Init
<1>2. TypeOK /\ Calm /\ [Next]_vars => Calm'
  <2> SUFFICES ASSUME TypeOK, Calm, [Next]_vars, NEW t \in Tab PROVE Waits(console'[t])
    OBVIOUS
  <2>1. CASE UNCHANGED console
    BY <2>1
  <2>2. ASSUME NEW u \in Tab, NEW c \in ConsoleType, console' = [console EXCEPT ![u] = c], Waits(c)
        PROVE  Waits(console'[t])
    BY <2>2 DEF TypeOK, BrowserType
  <2>3. ASSUME NEW u \in Tab, Close(u) PROVE Waits(console'[t])
    BY <2>2, <2>3, QuietWaits, ClosedType DEF Close
  <2>4. ASSUME NEW u \in Tab, Leave(u) \/ finished(u) PROVE Waits(console'[t])
    <3>1. unmount(console[u]) \in ConsoleType /\ Waits(unmount(console[u]))
      BY UnmountWaits, Types
    <3>2. console' = [console EXCEPT ![u] = unmount(console[u])] \/ UNCHANGED console
      BY <2>4 DEF Leave, finished, Page
    <3>. QED
      BY <2>1, <2>2, <3>1, <3>2
  <2>5. ASSUME NEW u \in Tab, ConsoleOnly(u) PROVE Waits(console'[t])
    <3>1. PICK c \in ConsoleType : Console(u, c) /\ (~Overlap /\ Waits(console[u]) => Waits(c))
      BY <2>5, ConsoleSteps
    <3>. QED
      BY <2>2, <3>1 DEF Console
  <2>6. ASSUME NEW u \in Tab, Fails(u) PROVE Waits(console'[t])
    BY <2>1, <2>2, <2>6, FailureSteps
  <2>7. ASSUME NEW u \in Tab, NEW p \in console[u].posts, submitSolution(u, p)
        PROVE  Waits(console'[t])
    BY <2>2, <2>7, SubmissionSteps
  <2>8. ASSUME \/ \E u \in Tab : \/ fetchData(u) \/ showWorkspace(u)
                                 \/ handleCodeChange(u) \/ syncDraft(u)
                                 \/ fetchAnnouncements(u) \/ submitAssessment(u)
               \/ \E m \in saves : saveDraft(m)
               \/ \E s \in Sub : Judge(s)
               \/ addGraceTime \/ Tick \/ UNCHANGED vars
        PROVE  Waits(console'[t])
    BY <2>1, <2>8 DEF fetchData, showWorkspace, handleCodeChange, syncDraft, fetchAnnouncements,
       submitAssessment, saveDraft, Judge, addGraceTime, Tick, vars
  <2>9. ASSUME NEW u \in Tab, PageOnly(u) PROVE Waits(console'[t])
    BY <2>1, <2>9, PageOnlySteps DEF Page
  <2>. QED
    BY <2>3, <2>4, <2>5, <2>6, <2>7, <2>8, <2>9, Groups
<1>3. TypeOK /\ Calm => OneUnderWay
  <2> SUFFICES ASSUME TypeOK, Calm, NEW t \in Tab
               PROVE  /\ Cardinality(console[t].intervals \cup {p.sub : p \in console[t].posts}) <= 1
                      /\ console[t].intervals \subseteq {console[t].ref}
    BY DEF OneUnderWay
  <2> DEFINE c == console[t]
             S == c.intervals \cup {p.sub : p \in c.posts}
  <2>1. c \in ConsoleType /\ Waits(c)
    BY Types
  <2> HIDE DEF c
  <2>2. S = {} \/ \E x : S = {x}
    <3>1. CASE c.posts = {}
      <4>1. c.intervals = {} \/ c.intervals = {c.ref}
        BY <2>1 DEF Waits
      <4>2. S = c.intervals
        BY <3>1
      <4>. QED
        BY <4>1, <4>2
    <3>2. CASE c.posts # {}
      <4>1. PICK p \in Call : c.posts = {p} /\ c.ref = None
        BY <2>1, <3>2 DEF Waits
      <4>2. c.intervals = {}
        BY <2>1, <4>1, WorkspaceAssumption DEF Waits, ConsoleType
      <4>. QED
        BY <4>1, <4>2
    <3>. QED
      BY <3>1, <3>2
  <2> HIDE DEF S
  <2>3. Cardinality(S) <= 1
    <3>1. CASE S = {}
      BY <3>1, FS_EmptySet
    <3>2. CASE \E x : S = {x}
      BY <3>2, FS_Singleton
    <3>. QED
      BY <2>2, <3>1, <3>2
  <2>. QED
    BY <2>1, <2>3 DEF Waits, c, S
<1>. QED
  BY <1>1, <1>2, <1>3, WorkspaceTypes, PTL DEF Spec

-----------------------------------------------------------------------------
(* The draft. *)

\* A page that has its answer has ended the attempt, which stays ended unless
\* it is granted more time.
Told(t) == attempt.status # "Active" \/ t \in attempt.revived
Ended == \A t \in Tab : page[t].finish = "ended" => Told(t)

\* An attempt that is over is taken up again by grace alone, which knows who was
\* told; the server's draft is what was saved last, and a save that it refuses is
\* remembered.
LEMMA ServerSteps ==
    ASSUME TypeOK, [Next]_vars
    PROVE  /\ \A t \in Tab : Told(t) => \/ Told(t)' \/ submitAssessment(t)
                                        \/ addGraceTime /\ page[t].finish # "ended"
           /\ \/ attempt'.draft = attempt.draft /\ attempt'.refused = attempt.refused
              \/ \E m \in saves : saveDraft(m)
<1> USE Types
<1>1. CASE UNCHANGED attempt
  BY <1>1 DEF Told
<1>2. CASE attempt' = getAttempt
  BY <1>2, AttemptRead DEF TypeOK, Reads, Told
<1>3. ASSUME NEW t \in Tab, submitAssessment(t)
      PROVE  /\ attempt'.status # "Active"
             /\ attempt'.draft = attempt.draft /\ attempt'.refused = attempt.refused
  BY <1>3, AttemptRead DEF submitAssessment, TypeOK, AttemptType, Reads
<1>4. ASSUME NEW m \in saves, saveDraft(m)
      PROVE  attempt'.status = attempt.status /\ attempt'.revived = attempt.revived
  BY <1>4 DEF saveDraft, AttemptType
<1>5. ASSUME addGraceTime
      PROVE  /\ attempt'.draft = attempt.draft /\ attempt'.refused = attempt.refused
             /\ \A t \in Tab : Told(t) /\ page[t].finish = "ended" => Told(t)'
  BY <1>5 DEF addGraceTime, AttemptType, Told
<1>6. ASSUME NEW t \in Tab, fetchData(t) \/ fetchAnnouncements(t)
      PROVE  attempt' = getAttempt
  BY <1>6 DEF fetchData, fetchAnnouncements
<1>7. ASSUME NEW t \in Tab, NEW p \in console[t].posts, submitSolution(t, p)
      PROVE  /\ attempt'.status = "Active" => attempt.status = "Active"
             /\ attempt'.draft = attempt.draft /\ attempt'.refused = attempt.refused
             /\ attempt'.revived = attempt.revived
  BY <1>7 DEF submitSolution, AttemptType
<1>8. ASSUME NEW t \in Tab,
             \/ showWorkspace(t) \/ Close(t) \/ Leave(t) \/ finished(t)
             \/ handleCodeChange(t) \/ syncDraft(t)
      PROVE  UNCHANGED attempt
  BY <1>8 DEF showWorkspace, Close, Leave, finished, handleCodeChange, syncDraft, Page, server
<1>9. ASSUME NEW t \in Tab, PageOnly(t) \/ ConsoleOnly(t) \/ Fails(t)
      PROVE  UNCHANGED attempt
  BY <1>9, PageOnlySteps, ConsoleSteps, FailureSteps DEF Page, Console, server
<1>10. ASSUME (\E s \in Sub : Judge(s)) \/ Tick \/ UNCHANGED vars PROVE UNCHANGED attempt
  BY <1>10 DEF Judge, Tick, server, vars
<1>11. \A t \in Tab : Told(t)' <=> attempt'.status # "Active" \/ t \in attempt'.revived
  BY DEF Told
<1>. QED
  BY <1>1, <1>2, <1>3, <1>4, <1>5, <1>6, <1>7, <1>8, <1>9, <1>10, <1>11, Groups DEF Told

\* What one page may become, by its own steps.
PageStep(t) ==
    \/ UNCHANGED page
    \/ fetchData(t) /\ page'[t].at \in {"loading", "left"} /\ page'[t].finish = "no"
    \/ showWorkspace(t) /\ page'[t].unsynced /\ page'[t].finish = "no"
    \/ (Close(t) \/ finished(t)) /\ page'[t].at \in {"closed", "left"}
          /\ page'[t].finish = "no"
    \/ Leave(t) /\ page'[t].at = "left" /\ page'[t].finish = page[t].finish
    \/ finished(t) /\ page'[t].finish = "no"
          /\ page'[t].at = page[t].at /\ page'[t].code = page[t].code
          /\ page'[t].unsynced = page[t].unsynced
    \/ handleCodeChange(t) /\ page'[t].unsynced /\ page'[t].at = page[t].at
          /\ page'[t].finish = page[t].finish
    \/ syncDraft(t) /\ page'[t].at = page[t].at /\ page'[t].code = page[t].code
          /\ page'[t].finish = page[t].finish
    \/ SamePage(page'[t], page[t])
    \/ submitAssessment(t) /\ page'[t].at = page[t].at /\ page'[t].code = page[t].code
          /\ page'[t].unsynced = page[t].unsynced
    \/ Fails(t) /\ page'[t].finish # "ended"
          /\ (page'[t].at \in Shown => page[t].at \in Shown)

LEMMA PageSteps ==
    ASSUME TypeOK, [Next]_vars
    PROVE  \/ UNCHANGED page
           \/ \E t \in Tab : PageStep(t) /\ \A u \in Tab : u # t => page'[u] = page[u]
<1> USE Types, OnePage
<1>1. ASSUME NEW t \in Tab, fetchData(t)
      PROVE  PageStep(t) /\ \A u \in Tab : u # t => page'[u] = page[u]
  <2> DEFINE p == IF getAttempt.status # "Active" THEN [Closed EXCEPT !.at = "left"]
                  ELSE [Closed EXCEPT !.at = "loading",
                          !.copy = [draft |-> attempt.draft, deadline |-> attempt.deadline]]
  <2>1. page' = [page EXCEPT ![t] = p]
    BY <1>1 DEF fetchData
  <2>2. p.at \in {"loading", "left"} /\ p.finish = "no"
    BY DEF Closed
  <2> HIDE DEF p
  <2>. QED
    BY <1>1, <2>1, <2>2 DEF PageStep
<1>2. ASSUME NEW t \in Tab, showWorkspace(t)
      PROVE  PageStep(t) /\ \A u \in Tab : u # t => page'[u] = page[u]
  <2> DEFINE copy == page[t].copy
             code == IF local[t] # 0 THEN local[t]
                     ELSE IF copy.draft # 0 THEN copy.draft ELSE 1
             p == [Closed EXCEPT !.at = "open", !.code = code, !.known = copy.deadline,
                     !.active = copy.deadline > now, !.unsynced = TRUE]
  <2>1. page' = [page EXCEPT ![t] = p]
    BY <1>2 DEF showWorkspace
  <2>2. p.unsynced /\ p.finish = "no"
    BY DEF Closed
  <2> HIDE DEF p
  <2>3. page'[t] = p /\ \A u \in Tab : u # t => page'[u] = page[u]
    BY <2>1
  <2>. QED
    BY <1>2, <2>2, <2>3 DEF PageStep
<1>3. ASSUME NEW t \in Tab, Close(t) \/ finished(t)
      PROVE  PageStep(t) /\ \A u \in Tab : u # t => page'[u] = page[u]
  <2> DEFINE p == [Closed EXCEPT !.at = "left"]
             q == [page[t] EXCEPT !.finish = "no", !.error = TRUE]
  <2>1. /\ Closed.at = "closed" /\ Closed.finish = "no" /\ p.at = "left" /\ p.finish = "no"
        /\ q.at = page[t].at /\ q.code = page[t].code /\ q.unsynced = page[t].unsynced
        /\ q.finish = "no"
    BY DEF Closed, PageType
  <2>2. \/ page' = [page EXCEPT ![t] = Closed] \/ page' = [page EXCEPT ![t] = p]
        \/ finished(t) /\ page' = [page EXCEPT ![t] = q]
    BY <1>3 DEF Close, finished, Page
  <2> HIDE DEF p, q
  <2>. QED
    BY <1>3, <2>1, <2>2 DEF PageStep
<1>10. ASSUME NEW t \in Tab, Leave(t)
       PROVE  PageStep(t) /\ \A u \in Tab : u # t => page'[u] = page[u]
  <2> DEFINE p == [Closed EXCEPT !.at = "left", !.finish = page[t].finish]
  <2>1. page' = [page EXCEPT ![t] = p]
    BY <1>10 DEF Leave
  <2>2. p.at = "left" /\ p.finish = page[t].finish
    BY DEF Closed
  <2> HIDE DEF p
  <2>. QED
    BY <1>10, <2>1, <2>2 DEF PageStep
<1>4. ASSUME NEW t \in Tab, handleCodeChange(t) \/ syncDraft(t)
      PROVE  PageStep(t) /\ \A u \in Tab : u # t => page'[u] = page[u]
  BY <1>4, TypeDraft DEF PageStep
<1>5. ASSUME NEW t \in Tab, PageOnly(t)
      PROVE  PageStep(t) /\ \A u \in Tab : u # t => page'[u] = page[u]
  <2>1. PICK p \in PageType : Page(t, p) /\ SamePage(p, page[t])
    BY <1>5, PageOnlySteps
  <2>2. page' = [page EXCEPT ![t] = p]
    BY <2>1 DEF Page
  <2>. QED
    BY <2>1, <2>2 DEF PageStep
<1>6. ASSUME NEW t \in Tab, fetchAnnouncements(t)
      PROVE  PageStep(t) /\ \A u \in Tab : u # t => page'[u] = page[u]
  <2> DEFINE p == [page[t] EXCEPT !.heard = attempt.deadline]
  <2>1. page' = [page EXCEPT ![t] = p]
    BY <1>6 DEF fetchAnnouncements
  <2>2. SamePage(p, page[t])
    BY DEF PageType, SamePage
  <2> HIDE DEF p
  <2>. QED
    BY <2>1, <2>2 DEF PageStep
<1>7. ASSUME NEW t \in Tab, submitAssessment(t)
      PROVE  PageStep(t) /\ \A u \in Tab : u # t => page'[u] = page[u]
  <2> DEFINE p == [page[t] EXCEPT !.finish = "ended"]
  <2>1. page' = [page EXCEPT ![t] = p]
    BY <1>7 DEF submitAssessment
  <2>2. p.at = page[t].at /\ p.code = page[t].code /\ p.unsynced = page[t].unsynced
    BY DEF PageType
  <2> HIDE DEF p
  <2>. QED
    BY <1>7, <2>1, <2>2 DEF PageStep
<1>8. ASSUME NEW t \in Tab, Fails(t)
      PROVE  PageStep(t) /\ \A u \in Tab : u # t => page'[u] = page[u]
  <2>1. CASE UNCHANGED page
    BY <2>1 DEF PageStep
  <2>2. CASE ~UNCHANGED page
    <3>1. PICK p \in PageType : /\ page' = [page EXCEPT ![t] = p]
                                /\ p.finish # "ended"
                                /\ p.at \in Shown => page[t].at \in Shown
      BY <1>8, <2>2, FailureSteps
    <3>. QED
      BY <1>8, <3>1 DEF PageStep
  <2>. QED
    BY <2>1, <2>2
<1>9. ASSUME \/ \E t \in Tab : ConsoleOnly(t)
             \/ \E t \in Tab : \E p \in console[t].posts : submitSolution(t, p)
             \/ \E m \in saves : saveDraft(m)
             \/ \E s \in Sub : Judge(s)
             \/ addGraceTime \/ Tick \/ UNCHANGED vars
      PROVE  UNCHANGED page
  BY <1>9, ConsoleSteps DEF Console, submitSolution, saveDraft, Judge, addGraceTime, Tick, vars
<1>. QED
  BY <1>1, <1>2, <1>3, <1>4, <1>5, <1>6, <1>7, <1>8, <1>9, <1>10, Groups

\* The answer that ends an attempt in the page comes from the server that has
\* ended it.
LEMMA EndedNext == TypeOK /\ Ended /\ [Next]_vars => Ended'
<1> SUFFICES ASSUME TypeOK, Ended, [Next]_vars, NEW t \in Tab, page'[t].finish = "ended"
             PROVE  Told(t)'
  BY DEF Ended
<1>1. CASE submitAssessment(t)
  <2>1. attempt'.status # "Active"
    BY <1>1, AttemptRead DEF submitAssessment, TypeOK, AttemptType, Reads
  <2>. QED
    BY <2>1 DEF Told
<1>2. CASE ~submitAssessment(t)
  <2>1. page[t].finish = "ended"
    <3>1. CASE UNCHANGED page
      BY <3>1
    <3>2. CASE ~UNCHANGED page
      <4>1. PICK u \in Tab : PageStep(u) /\ \A x \in Tab : x # u => page'[x] = page[x]
        BY <3>2, PageSteps
      <4>2. CASE u = t
        BY <1>2, <3>2, <4>1, <4>2 DEF PageStep, SamePage
      <4>3. CASE u # t
        BY <4>1, <4>3
      <4>. QED
        BY <4>2, <4>3
    <3>. QED
      BY <3>1, <3>2
  <2>. QED
    BY <1>2, <2>1, ServerSteps DEF Ended
<1>. QED
  BY <1>1, <1>2

\* The draft in the browser is removed only when the server has ended the
\* attempt, or had when it answered this browser and was granted more time since:
\* whatever calls fail, whichever other browser ends it and whether or not the
\* page is still there when the answer comes (finishAttempt, addGraceTime).
THEOREM DraftIsKept == Spec => DraftKeptUntilEnded
<1>1. Init => Ended
  BY ClosedType DEF Init, Ended
<1>2. TypeOK /\ Ended /\ [Next]_vars =>
        [\A t \in Tab : local[t] # 0 /\ local'[t] = 0
                         => attempt.status # "Active" \/ t \in attempt.revived]_vars
  <2> SUFFICES ASSUME TypeOK, Ended, Next, NEW t \in Tab, local[t] # 0, local'[t] = 0
               PROVE  page[t].finish = "ended"
    BY DEF Ended, Told
  <2> USE Types
  <2>1. ASSUME NEW u \in Tab, showWorkspace(u) PROVE FALSE
    BY <2>1 DEF showWorkspace, TypeOK, BrowserType
  <2>2. ASSUME NEW u \in Tab, handleCodeChange(u) PROVE FALSE
    BY <2>2 DEF handleCodeChange, TypeOK, BrowserType
  <2>3. ASSUME NEW u \in Tab, finished(u) PROVE page[t].finish = "ended"
    BY <2>3 DEF finished, Page, TypeOK, BrowserType
  <2>4. local' # local
    OBVIOUS
  <2>5. ASSUME NEW u \in Tab, \/ fetchData(u) \/ Close(u) \/ Leave(u) \/ syncDraft(u)
                              \/ fetchAnnouncements(u) \/ submitAssessment(u)
        PROVE  FALSE
    BY <2>4, <2>5 DEF fetchData, Close, Leave, syncDraft, fetchAnnouncements, submitAssessment
  <2>6. ASSUME NEW u \in Tab, PageOnly(u) \/ ConsoleOnly(u) \/ Fails(u) PROVE FALSE
    BY <2>4, <2>6, PageOnlySteps, ConsoleSteps, FailureSteps DEF Page, Console
  <2>7. ASSUME NEW u \in Tab, NEW p \in console[u].posts, submitSolution(u, p) PROVE FALSE
    BY <2>4, <2>7 DEF submitSolution
  <2>8. ASSUME \/ \E m \in saves : saveDraft(m)
               \/ \E s \in Sub : Judge(s)
               \/ addGraceTime \/ Tick
        PROVE  FALSE
    BY <2>4, <2>8 DEF saveDraft, Judge, addGraceTime, Tick
  <2>. QED
    BY <2>1, <2>2, <2>3, <2>5, <2>6, <2>7, <2>8, Groups
<1>. QED
  BY <1>1, <1>2, EndedNext, WorkspaceTypes, PTL DEF Spec, DraftKeptUntilEnded

\* Without failures a save on its way has what its page shows, unless the page was
\* edited or loaded since and will save again.
Saving ==
    /\ \A t \in Tab : page[t].at \in Shown => t \in mix.tabs
    /\ \A m \in saves :
          /\ m.tab \in mix.tabs
          /\ faults = 0 /\ Open(m.tab) /\ ~page[m.tab].unsynced => m.code = page[m.tab].code

LEMMA SaveSteps ==
    ASSUME TypeOK, [Next]_vars
    PROVE  /\ mix' = mix
           /\ \/ faults' = faults /\ ~\E t \in Tab : Fails(t)
              \/ faults' = faults + 1
           /\ \/ saves' = saves
              \/ \E t \in Tab : /\ syncDraft(t)
                                /\ saves' = saves \cup {[tab |-> t, code |-> page[t].code]}
              \/ \E m \in saves : saveDraft(m) /\ saves' = saves \ {m}
              \/ \E t \in Tab : Fails(t) /\ saves' \subseteq saves
<1>1. ASSUME NEW t \in Tab, syncDraft(t)
      PROVE  /\ mix' = mix /\ faults' = faults
             /\ saves' = saves \cup {[tab |-> t, code |-> page[t].code]}
  BY <1>1 DEF syncDraft
<1>2. ASSUME NEW m \in saves, saveDraft(m)
      PROVE  mix' = mix /\ faults' = faults /\ saves' = saves \ {m}
  BY <1>2 DEF saveDraft
<1>3. ASSUME NEW t \in Tab, Fails(t)
      PROVE  mix' = mix /\ faults' = faults + 1 /\ saves' \subseteq saves
  BY <1>3, FailureSteps
<1>4. ASSUME NEW t \in Tab, \/ fetchData(t) \/ showWorkspace(t) \/ Close(t) \/ Leave(t)
                            \/ finished(t) \/ handleCodeChange(t) \/ fetchAnnouncements(t)
                            \/ submitAssessment(t)
      PROVE  UNCHANGED <<mix, faults, saves>>
  BY <1>4 DEF fetchData, showWorkspace, Close, Leave, finished, handleCodeChange,
     fetchAnnouncements, submitAssessment, Page
<1>5. ASSUME NEW t \in Tab, PageOnly(t) \/ ConsoleOnly(t)
      PROVE  UNCHANGED <<mix, faults, saves>>
  BY <1>5, PageOnlySteps, ConsoleSteps DEF Page, Console
<1>6. ASSUME \/ \E t \in Tab : \E p \in console[t].posts : submitSolution(t, p)
             \/ \E s \in Sub : Judge(s)
             \/ addGraceTime \/ Tick \/ UNCHANGED vars
      PROVE  UNCHANGED <<mix, faults, saves>>
  BY <1>6 DEF submitSolution, Judge, addGraceTime, Tick, vars
<1>7. faults \in Nat
  BY DEF TypeOK
<1>. QED
  BY <1>1, <1>2, <1>3, <1>4, <1>5, <1>6, <1>7, Groups

\* A page that shows something saved showed it before, or has just sent it.
LEMMA ShownSteps ==
    ASSUME TypeOK, [Next]_vars, faults' = 0, NEW t \in Tab,
           page'[t].at = "open", ~page'[t].unsynced
    PROVE  /\ page[t].at = "open" /\ page'[t].code = page[t].code
           /\ page[t].unsynced => syncDraft(t)
<1>1. ~\E u \in Tab : Fails(u)
  BY SaveSteps DEF TypeOK
<1>2. CASE page'[t] = page[t]
  <2>1. ~page[t].unsynced
    BY <1>2
  <2>. QED
    BY <1>2, <2>1
<1>3. CASE page'[t] # page[t]
  <2>1. PageStep(t) /\ ~UNCHANGED page
    BY <1>3, PageSteps
  <2>2. \/ syncDraft(t) /\ page'[t].at = page[t].at /\ page'[t].code = page[t].code
        \/ page'[t].at = page[t].at /\ page'[t].code = page[t].code
              /\ page'[t].unsynced = page[t].unsynced
    BY <1>1, <2>1 DEF PageStep, SamePage
  <2>3. CASE /\ page'[t].at = page[t].at /\ page'[t].code = page[t].code
             /\ page'[t].unsynced = page[t].unsynced
    <3>1. ~page[t].unsynced
      BY <2>3
    <3>. QED
      BY <2>3, <3>1
  <2>. QED
    BY <2>2, <2>3
<1>. QED
  BY <1>2, <1>3

LEMMA SavingNext ==
    ASSUME ~Overlap, TypeOK, Saving, [Next]_vars
    PROVE  Saving'
<1>1. mix' = mix
  BY SaveSteps
<1>2. ASSUME NEW t \in Tab, page'[t].at \in Shown PROVE t \in mix.tabs
  <2>1. showWorkspace(t) => page[t].at = "loading"
    BY DEF showWorkspace
  <2>2. page[t].at \in Shown \/ fetchData(t)
    BY <1>2, <2>1, PageSteps DEF PageStep, SamePage, Shown
  <2>. QED
    BY <2>2 DEF Saving, fetchData
<1>3. ASSUME NEW m \in saves' PROVE m.tab \in Tab
  <2>1. TypeOK'
    BY TypeNext
  <2>. QED
    BY <2>1 DEF TypeOK
<1>4. ASSUME NEW m \in saves'
      PROVE  m \in saves \/ (syncDraft(m.tab) /\ m.code = page[m.tab].code)
  BY SaveSteps
<1>5. ASSUME NEW m \in saves' PROVE m.tab \in mix.tabs
  <2>1. syncDraft(m.tab) => page[m.tab].at \in Shown
    BY DEF syncDraft, Open, Shown
  <2>. QED
    BY <1>3, <1>4, <1>5, <2>1 DEF Saving
<1>6. ASSUME NEW m \in saves', faults' = 0, page'[m.tab].at = "open", ~page'[m.tab].unsynced
      PROVE  m.code = page'[m.tab].code
  <2>1. faults = 0
    BY <1>6, SaveSteps DEF TypeOK
  <2>2. /\ page[m.tab].at = "open" /\ page'[m.tab].code = page[m.tab].code
        /\ page[m.tab].unsynced => syncDraft(m.tab)
    BY <1>3, <1>6, ShownSteps
  <2>3. CASE syncDraft(m.tab)
    <3>1. m \notin saves
      BY <2>3 DEF syncDraft
    <3>. QED
      BY <1>4, <1>6, <2>2, <3>1
  <2>4. CASE ~syncDraft(m.tab)
    BY <1>4, <1>6, <2>1, <2>2, <2>4 DEF Saving, Open
  <2>. QED
    BY <2>3, <2>4
<1>. QED
  BY <1>1, <1>2, <1>5, <1>6 DEF Saving, Open

LEMMA SyncedNext ==
    ASSUME TypeOK, Saving, SyncedWhenQuiet, [Next]_vars
    PROVE  SyncedWhenQuiet'
<1> SUFFICES ASSUME mix'.tabs # {}, \A t \in mix'.tabs : page'[t].at = "open" /\ ~page'[t].unsynced,
                    saves' = {}, faults' = 0, attempt'.refused = {}
             PROVE  \E t \in mix'.tabs : attempt'.draft = page'[t].code
  BY DEF SyncedWhenQuiet, Open
<1>0. mix' = mix /\ mix.tabs \subseteq Tab
  BY SaveSteps, WorkspaceAssumption DEF TypeOK
<1>1. faults = 0 /\ ~\E u \in Tab : Fails(u)
  BY SaveSteps DEF TypeOK
<1>2. \A t \in Tab : ~syncDraft(t)
  <2> SUFFICES ASSUME NEW t \in Tab, syncDraft(t) PROVE FALSE
    OBVIOUS
  <2>. QED
    BY DEF syncDraft
<1>3. \A t \in mix.tabs : /\ page[t].at = "open" /\ ~page[t].unsynced
                          /\ page'[t].code = page[t].code
  BY <1>0, <1>2, ShownSteps
<1>4. CASE saves = {}
  <2>1. attempt'.draft = attempt.draft /\ attempt.refused = {}
    BY <1>4, ServerSteps
  <2>. QED
    BY <1>0, <1>1, <1>3, <1>4, <2>1 DEF SyncedWhenQuiet, Open
<1>5. CASE saves # {}
  <2>1. PICK m \in saves : saveDraft(m)
    BY <1>1, <1>5, SaveSteps
  <2>2. attempt'.draft = m.code
    <3>1. m.tab \notin attempt'.refused
      OBVIOUS
    <3>. QED
      BY <2>1, <3>1, Types DEF saveDraft, AttemptType
  <2>3. m.tab \in mix.tabs /\ m.code = page[m.tab].code
    BY <1>1, <1>3 DEF Saving, Open
  <2>. QED
    BY <1>0, <1>3, <2>2, <2>3
<1>. QED
  BY <1>4, <1>5

\* When a save is answered before the next pause is over (Overlap), an edit made
\* while a save is on its way is saved as well, in any number of browsers and
\* whatever is reloaded in between; an attempt that is re-activated has the last
\* work, unless a call failed or a save was refused (saveDraft, addGraceTime).
THEOREM EditsReachTheServer == ASSUME ~Overlap PROVE Spec => []SyncedWhenQuiet
<1>1. Init => Saving /\ SyncedWhenQuiet
  <2> SUFFICES ASSUME Init PROVE Saving /\ SyncedWhenQuiet
    OBVIOUS
  <2>1. \A t \in Tab : page[t].at = "closed"
    BY ClosedType DEF Init
  <2>2. saves = {} /\ mix.tabs \subseteq Tab
    BY WorkspaceAssumption DEF Init
  <2>. QED
    BY <2>1, <2>2 DEF Saving, SyncedWhenQuiet, Open, Shown
<1>2. TypeOK /\ Saving /\ [Next]_vars => Saving'
  BY SavingNext
<1>3. TypeOK /\ Saving /\ SyncedWhenQuiet /\ [Next]_vars => SyncedWhenQuiet'
  BY SyncedNext
<1>. QED
  BY <1>1, <1>2, <1>3, WorkspaceTypes, PTL DEF Spec
=============================================================================
