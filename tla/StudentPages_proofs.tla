------------------------- MODULE StudentPages_proofs -------------------------
(***************************************************************************)
(* Theorems about two pages of a student: the way into an assessment, for  *)
(* any times and any number of listeners and of calls under way, and the   *)
(* page to practise a problem on, for any number of submissions and of     *)
(* test cases.                                                             *)
(***************************************************************************)
EXTENDS AssessmentDetails, ProblemPage, SequenceTheorems, TLAPS

-----------------------------------------------------------------------------
(* The way into an assessment.                                             *)

Status == {"none", "Active", "Submitted"}

Offer ==
    [status : {"Draft", "Published", "Completed"}, times : Times, locked : BOOLEAN]

CopyType ==
    [status : {"Draft", "Published", "Completed", "none"}, times : Times \cup {NoCopy.times}]

ViewType ==
    [at : {"list", "details", "workspace", "result"}, seen : Nat, copy : CopyType, known : Status,
     dialog : {"none", "instructions", "prompt"}, agreed : BOOLEAN,
     pending : Handle \cup {"none"}, starting : BOOLEAN]

Listener == [handle : Handle, own : BOOLEAN]
Start    == [handle : Handle, own : BOOLEAN, answer : Status \cup {"refused"}]
PastType == [agreed : BOOLEAN, made : BOOLEAN, trouble : BOOLEAN, led : BOOLEAN]

EntryTypeOK ==
    /\ clock \in Nat
    /\ offered \in Offer
    /\ attempt \in Status /\ role \in {"student", "faculty"}
    /\ screen \in [full : BOOLEAN, able : BOOLEAN]
    /\ view \in ViewType /\ past \in PastType
    /\ listeners \subseteq Listener /\ starts \subseteq Start

\* Whatever may start the attempt - the second dialog, a listener, a call on its
\* way - is there only after the consent.
Consented ==
    view.dialog = "prompt" \/ listeners # {} \/ starts # {} \/ past.made => past.agreed

\* The answer that tells of the attempt the student has made.
Tells(s) == s.answer \in {"Active", "Submitted"}

\* Unless an answer was lost, the student has been led to the attempt, or will be.
Leading == past.made /\ ~past.trouble => past.led \/ \E s \in starts : Tells(s)

EntryInv == EntryTypeOK /\ Consented /\ Leading

-----------------------------------------------------------------------------
(* What the steps do to the page and to its listeners and calls.           *)

LEMMA AwayType ==
    /\ Away \in ViewType /\ Away.dialog = "none"
    /\ \A at \in {"list", "details", "workspace", "result"} :
          [Away EXCEPT !.at = at] \in ViewType /\ [Away EXCEPT !.at = at].dialog = "none"
    /\ \A at \in {"list", "details", "workspace", "result"}, c \in CopyType, known \in Status :
          /\ [Away EXCEPT !.at = at, !.copy = c, !.known = known] \in ViewType
          /\ [Away EXCEPT !.at = at, !.copy = c, !.known = known].dialog = "none"
<1>1. NoCopy \in CopyType
  BY DEF NoCopy, CopyType
<1> HIDE DEF CopyType, NoCopy
<1>. QED
  BY <1>1 DEF Away, ViewType, Status

LEMMA CopyIs == offered \in Offer => Copy \in CopyType
  BY DEF Copy, CopyType, Offer

LEMMA Drawing ==
    ASSUME clock \in Nat, NEW v \in ViewType, Draw(v)
    PROVE  view' \in ViewType /\ view'.dialog = v.dialog
  BY DEF Draw, ViewType

LEMMA PastWith ==
    ASSUME NEW p \in PastType, NEW b \in BOOLEAN
    PROVE  /\ [p EXCEPT !.agreed = b] = [agreed |-> b, made |-> p.made,
                                         trouble |-> p.trouble, led |-> p.led]
           /\ [p EXCEPT !.made = b] = [agreed |-> p.agreed, made |-> b,
                                       trouble |-> p.trouble, led |-> p.led]
           /\ [p EXCEPT !.trouble = b] = [agreed |-> p.agreed, made |-> p.made,
                                          trouble |-> b, led |-> p.led]
           /\ [p EXCEPT !.led = b] = [agreed |-> p.agreed, made |-> p.made,
                                      trouble |-> p.trouble, led |-> b]
  BY DEF PastType

Askable == view.dialog = "prompt" \/ listeners # {} \/ starts # {}

\* A step that tells the history nothing, makes nothing start that could not start
\* before, and forgets no answer that leads to the attempt.
LEMMA Quietly ==
    ASSUME EntryInv, clock' \in Nat, offered' \in Offer,
           attempt' \in Status, role' = role, past' = past,
           screen' \in [full : BOOLEAN, able : BOOLEAN], view' \in ViewType,
           listeners' \subseteq Listener, starts' \subseteq Start,
           Askable' => Askable,
           (\E s \in starts : Tells(s)) => (\E s \in starts' : Tells(s))
    PROVE  EntryInv'
<1>1. EntryTypeOK'
  BY DEF EntryInv, EntryTypeOK
<1>2. Consented'
  BY DEF EntryInv, Consented, Askable
<1>3. Leading'
  BY DEF EntryInv, Leading
<1>. QED
  BY <1>1, <1>2, <1>3 DEF EntryInv

\* Steps in which the page only changes what it shows.
LEMMA LookSteps ==
    ASSUME EntryInv, \/ handleStart \/ setAgreed \/ cancelDialog \/ exitFullscreen \/ edited \/ tick
    PROVE  EntryInv'
<1> USE DEF EntryInv, EntryTypeOK
<1>1. CASE handleStart
  <2> DEFINE v == [view EXCEPT !.agreed = FALSE, !.dialog = "instructions"]
  <2>0. v \in ViewType /\ v.dialog = "instructions" /\ Draw(v)
    BY <1>1 DEF handleStart, ViewType
  <2> HIDE DEF v
  <2>1. view' \in ViewType /\ view'.dialog = "instructions"
    BY <2>0, Drawing
  <2>. QED
    BY <1>1, <2>1, Quietly DEF handleStart, Askable
<1>2. CASE setAgreed
  <2> DEFINE v == [view EXCEPT !.agreed = ~@]
             b == ~view.agreed
  <2>1. b \in BOOLEAN /\ v = [view EXCEPT !.agreed = b]
    OBVIOUS
  <2>2. Draw(v)
    BY <1>2 DEF setAgreed
  <2> HIDE DEF b
  <2>3. v \in ViewType /\ v.dialog = view.dialog
    BY <2>1 DEF ViewType
  <2> HIDE DEF v
  <2>4. view' \in ViewType /\ view'.dialog = view.dialog
    BY <2>2, <2>3, Drawing
  <2>. QED
    BY <1>2, <2>4, Quietly DEF setAgreed, Askable
<1>3. CASE cancelDialog
  <2> DEFINE v == [view EXCEPT !.dialog = "none"]
  <2>0. v \in ViewType /\ v.dialog = "none" /\ Draw(v)
    BY <1>3 DEF cancelDialog, ViewType
  <2> HIDE DEF v
  <2>1. view' \in ViewType /\ view'.dialog = "none"
    BY <2>0, Drawing
  <2>. QED
    BY <1>3, <2>1, Quietly DEF cancelDialog, Askable
<1>4. CASE exitFullscreen
  BY <1>4, Quietly DEF exitFullscreen, Askable
<1>5. CASE edited
  <2>1. CASE offered' = [offered EXCEPT !.locked = ~@]
    <3> DEFINE b == ~offered.locked
    <3>1. b \in BOOLEAN /\ offered' = [offered EXCEPT !.locked = b]
      BY <2>1
    <3> HIDE DEF b
    <3>2. offered' \in Offer
      BY <3>1 DEF Offer
    <3>. QED
      BY <1>5, <3>2, Quietly DEF edited, Askable
  <2>2. CASE \E status \in {"Draft", "Published", "Completed"}, times \in Times :
                offered' = [offered EXCEPT !.status = status, !.times = times]
    <3>1. offered' \in Offer
      BY <2>2 DEF Offer
    <3>. QED
      BY <1>5, <3>1, Quietly DEF edited, Askable
  <2>. QED
    BY <1>5, <2>1, <2>2 DEF edited
<1>6. CASE tick
  BY <1>6, Quietly DEF tick, Askable
<1>. QED
  BY <1>1, <1>2, <1>3, <1>4, <1>5, <1>6

\* The consent.
LEMMA ConsentStep ==
    ASSUME EntryInv, handleBeginAfterInstructions
    PROVE  EntryInv'
<1> USE DEF EntryInv, EntryTypeOK
<1>1. view' \in ViewType
  <2>1. [view EXCEPT !.dialog = "prompt"] \in ViewType
    BY DEF ViewType
  <2>. QED
    BY <2>1, Drawing DEF handleBeginAfterInstructions
<1>2. past' = [agreed |-> TRUE, made |-> past.made, trouble |-> past.trouble, led |-> past.led]
  BY PastWith DEF handleBeginAfterInstructions
<1>3. EntryTypeOK'
  BY <1>1, <1>2 DEF handleBeginAfterInstructions, PastType
<1>4. Consented'
  BY <1>2 DEF Consented
<1>5. Leading'
  BY <1>2 DEF handleBeginAfterInstructions, Leading
<1>. QED
  BY <1>3, <1>4, <1>5

\* A page is opened.
LEMMA OpenStep ==
    ASSUME EntryInv, fetchAssessment
    PROVE  EntryInv'
<1> USE DEF EntryInv, EntryTypeOK
<1>1. PICK known \in {attempt, "none"} :
         /\ Draw([Away EXCEPT !.at = "details", !.copy = Copy, !.known = known])
         /\ past' = [past EXCEPT !.trouble = @ \/ known # attempt]
  BY DEF fetchAssessment
<1> DEFINE b == past.trouble \/ known # attempt
<1>2. b \in BOOLEAN /\ past' = [past EXCEPT !.trouble = b] /\ (past.trouble => b)
  BY <1>1 DEF PastType
<1> HIDE DEF b
<1>3. past' = [agreed |-> past.agreed, made |-> past.made, trouble |-> b, led |-> past.led]
  BY <1>2, PastWith
<1>4. view' \in ViewType /\ view'.dialog = "none"
  <2>1. known \in Status /\ Copy \in CopyType
    BY CopyIs DEF Status
  <2>2. [Away EXCEPT !.at = "details", !.copy = Copy, !.known = known] \in ViewType
    BY <2>1, AwayType
  <2>. QED
    BY <1>1, <2>1, <2>2, AwayType, Drawing
<1>5. EntryTypeOK'
  BY <1>2, <1>3, <1>4 DEF fetchAssessment, PastType
<1>6. Consented'
  BY <1>3, <1>4 DEF fetchAssessment, Consented
<1>7. Leading'
  BY <1>2, <1>3 DEF fetchAssessment, Leading
<1>. QED
  BY <1>5, <1>6, <1>7

\* Listeners come and go, and become calls.
LEMMA ListenerSteps ==
    ASSUME EntryInv, enterFullscreenAndStart \/ fullscreenchange \/ fullscreenRefused
    PROVE  EntryInv'
<1> USE DEF EntryInv, EntryTypeOK
<1>1. CASE enterFullscreenAndStart
  <2>1. CASE screen.able
    <3>1. PICK h \in Handle :
             /\ listeners' = listeners \cup {[handle |-> h, own |-> TRUE]}
             /\ Draw([view EXCEPT !.pending = IF screen.full THEN "none" ELSE h])
      BY <1>1, <2>1 DEF enterFullscreenAndStart
    <3> DEFINE k == IF screen.full THEN "none" ELSE h
    <3>2. k \in Handle \cup {"none"} /\ Draw([view EXCEPT !.pending = k])
      BY <3>1
    <3> HIDE DEF k
    <3> DEFINE v == [view EXCEPT !.pending = k]
    <3>3. v \in ViewType /\ v.dialog = view.dialog /\ Draw(v)
      BY <3>2 DEF ViewType
    <3> HIDE DEF v
    <3>4. view' \in ViewType /\ view'.dialog = view.dialog
      BY <3>3, Drawing
    <3>5. listeners' \subseteq Listener
      <4>1. [handle |-> h, own |-> TRUE] \in Listener
        BY DEF Listener
      <4>. QED
        BY <3>1, <4>1
    <3>. QED
      BY <1>1, <3>4, <3>5, Quietly DEF enterFullscreenAndStart, Askable
  <2>2. CASE ~screen.able
    <3>1. view' \in ViewType /\ listeners' = listeners
      BY <1>1, <2>2, Drawing DEF enterFullscreenAndStart
    <3>. QED
      BY <1>1, <3>1, Quietly DEF enterFullscreenAndStart, Askable
  <2>. QED
    BY <2>1, <2>2
<1>2. CASE fullscreenchange
  <2> DEFINE here == \E l \in listeners : l.own
             d == IF here /\ view.dialog = "prompt" THEN "none" ELSE view.dialog
             b == view.starting \/ here
  <2>1. b \in BOOLEAN
    BY DEF ViewType
  <2>2. d \in {"none", "instructions", "prompt"} /\ (d = "prompt" => view.dialog = "prompt")
    BY DEF ViewType
  <2>3. Draw([view EXCEPT !.pending = "none", !.starting = b, !.dialog = d])
    BY <1>2 DEF fullscreenchange, ViewType
  <2> HIDE DEF b, d
  <2> DEFINE v == [view EXCEPT !.pending = "none", !.starting = b, !.dialog = d]
  <2>. v \in ViewType /\ v.dialog = d /\ Draw(v)
    BY <2>1, <2>2, <2>3 DEF ViewType
  <2> HIDE DEF v
  <2>4. view' \in ViewType /\ view'.dialog = d
    BY Drawing
  <2>5. /\ starts' \subseteq Start /\ starts \subseteq starts'
        /\ starts' # {} => starts # {} \/ listeners # {}
    BY <1>2 DEF fullscreenchange, Listener, Start, Status
  <2>6. screen' \in [full : BOOLEAN, able : BOOLEAN] /\ listeners' = {}
    BY <1>2 DEF fullscreenchange
  <2>. QED
    BY <1>2, <2>2, <2>4, <2>5, <2>6, Quietly DEF fullscreenchange, Askable
<1>3. CASE fullscreenRefused
  <2> DEFINE v == [view EXCEPT !.pending = "none"]
  <2>0. v \in ViewType /\ v.dialog = view.dialog /\ Draw(v)
    BY <1>3 DEF fullscreenRefused, ViewType
  <2> HIDE DEF v
  <2>1. view' \in ViewType /\ view'.dialog = view.dialog
    BY <2>0, Drawing
  <2>. QED
    BY <1>3, <2>1, Quietly DEF fullscreenRefused, Askable
<1>. QED
  BY <1>1, <1>2, <1>3

\* The calls themselves, their answers on the server, and the loss of one.
LEMMA CallSteps ==
    ASSUME EntryInv, startAssessment \/ startLost
    PROVE  EntryInv'
<1> USE DEF EntryInv, EntryTypeOK
<1>1. CASE startAssessment
  <2>1. PICK s \in starts :
           /\ s.answer = "none"
           /\ attempt' = IF accepts /\ attempt = "none" THEN "Active" ELSE attempt
           /\ starts' = (starts \ {s}) \cup
                           {[s EXCEPT !.answer = IF accepts THEN attempt' ELSE "refused"]}
           /\ past' = [past EXCEPT !.made = @ \/ attempt' # attempt]
    BY <1>1 DEF startAssessment
  <2> DEFINE a == IF accepts THEN attempt' ELSE "refused"
             t == [s EXCEPT !.answer = a]
             b == past.made \/ attempt' # attempt
  <2>2. /\ attempt' \in Status
        /\ a \in Status \cup {"refused"} /\ (attempt' # attempt => a = "Active")
    BY <2>1 DEF Status
  <2>3. b \in BOOLEAN /\ past' = [past EXCEPT !.made = b]
        /\ (b => past.made \/ attempt' # attempt)
    BY <2>1 DEF PastType
  <2> HIDE DEF a, b
  <2>4. t \in Start /\ t.answer = a
    BY <2>2 DEF Start
  <2>5. starts' = (starts \ {s}) \cup {t}
    BY <2>1 DEF a
  <2> HIDE DEF t
  <2>6. past' = [agreed |-> past.agreed, made |-> b, trouble |-> past.trouble, led |-> past.led]
    BY <2>3, PastWith
  <2>7. EntryTypeOK'
    BY <1>1, <2>2, <2>3, <2>4, <2>5, <2>6 DEF startAssessment, PastType
  <2>8. Consented'
    BY <2>1, <2>6 DEF Consented
  <2>9. Leading'
    <3>1. ASSUME past.made, ~past.trouble PROVE past.led \/ \E r \in starts' : Tells(r)
      BY <2>1, <2>5, <3>1 DEF Leading, Tells
    <3>2. ASSUME attempt' # attempt PROVE Tells(t) /\ t \in starts'
      BY <2>2, <2>4, <2>5, <3>2 DEF Tells
    <3>. QED
      BY <2>3, <2>6, <3>1, <3>2 DEF Leading
  <2>. QED
    BY <2>7, <2>8, <2>9
<1>2. CASE startLost
  <2>1. PICK s \in starts : starts' = (starts \ {s}) \cup {[s EXCEPT !.answer = "refused"]}
    BY <1>2 DEF startLost
  <2>2. [s EXCEPT !.answer = "refused"] \in Start
    BY DEF Start
  <2>3. past' = [agreed |-> past.agreed, made |-> past.made, trouble |-> TRUE, led |-> past.led]
    BY <1>2, PastWith DEF startLost
  <2>4. EntryTypeOK'
    BY <1>2, <2>1, <2>2, <2>3 DEF startLost, PastType
  <2>5. Consented'
    BY <2>1, <2>3 DEF Consented
  <2>6. Leading'
    BY <2>3 DEF Leading
  <2>. QED
    BY <2>4, <2>5, <2>6
<1>. QED
  BY <1>1, <1>2

\* A page that is left disowns its listeners and calls.
LEMMA Disowned ==
    ASSUME EntryTypeOK
    PROVE  /\ Gone \subseteq Listener /\ (Gone # {} => listeners # {})
           /\ \A S \in SUBSET starts :
                 LET T == {[r EXCEPT !.own = FALSE] : r \in S}
                 IN  /\ T \subseteq Start /\ (T # {} => S # {})
                     /\ (\E r \in S : Tells(r)) => (\E r \in T : Tells(r))
<1>1. \A l \in Listener : [l EXCEPT !.own = FALSE] \in Listener
  BY DEF Listener
<1>2. \A r \in Start : /\ [r EXCEPT !.own = FALSE] \in Start
                       /\ [r EXCEPT !.own = FALSE].answer = r.answer
  BY DEF Start
<1>3. Gone \subseteq Listener /\ (Gone # {} => listeners # {})
  BY <1>1 DEF Gone, EntryTypeOK
<1>4. ASSUME NEW S \in SUBSET starts
      PROVE  LET T == {[r EXCEPT !.own = FALSE] : r \in S}
             IN  /\ T \subseteq Start /\ (T # {} => S # {})
                 /\ (\E r \in S : Tells(r)) => (\E r \in T : Tells(r))
  <2> DEFINE T == {[r EXCEPT !.own = FALSE] : r \in S}
  <2>1. T \subseteq Start /\ (T # {} => S # {})
    BY <1>2 DEF EntryTypeOK
  <2>2. ASSUME NEW r \in S, Tells(r) PROVE \E q \in T : Tells(q)
    BY <1>2, <2>2 DEF EntryTypeOK, Tells
  <2>. QED
    BY <2>1, <2>2
<1>. QED
  BY <1>3, <1>4

\* To another page, by a button or by an answer.
LEMMA DepartSteps ==
    ASSUME EntryInv, startAttempt \/ navigate \/ goBack \/ submits
    PROVE  EntryInv'
<1> USE DEF EntryInv, EntryTypeOK
<1>1. CASE startAttempt
  <2>1. PICK s \in starts :
           /\ s.answer # "none"
           /\ IF s.answer = "refused"
              THEN /\ starts' = starts \ {s}
                   /\ Draw([view EXCEPT !.starting = @ /\ ~s.own])
                   /\ UNCHANGED <<listeners, past>>
              ELSE /\ starts' = {[r EXCEPT !.own = FALSE] : r \in starts \ {s}}
                   /\ view' = [Away EXCEPT !.at = IF s.answer = "Active" THEN "workspace"
                                                                          ELSE "result"]
                   /\ listeners' = Gone
                   /\ past' = [past EXCEPT !.led = TRUE]
    BY <1>1 DEF startAttempt
  <2>2. CASE s.answer = "refused"
    <3> DEFINE b == view.starting /\ ~s.own
               v == [view EXCEPT !.starting = b]
    <3>1. b \in BOOLEAN /\ Draw(v)
      BY <2>1, <2>2 DEF ViewType
    <3> HIDE DEF b
    <3>2. v \in ViewType /\ v.dialog = view.dialog
      BY <3>1 DEF ViewType
    <3> HIDE DEF v
    <3>3. view' \in ViewType /\ view'.dialog = view.dialog
      BY <3>1, <3>2, Drawing
    <3>4. ~Tells(s)
      BY <2>2 DEF Tells
    <3>5. starts' = starts \ {s} /\ UNCHANGED <<listeners, past>>
      BY <2>1, <2>2
    <3>6. UNCHANGED <<clock, offered, attempt, role, screen>>
      BY <1>1 DEF startAttempt
    <3>. QED
      BY <3>3, <3>4, <3>5, <3>6, Quietly DEF Askable
  <2>3. CASE s.answer # "refused"
    <3>1. view' \in ViewType /\ view'.dialog = "none"
      BY <2>1, <2>3, AwayType DEF Status
    <3>2. past' = [agreed |-> past.agreed, made |-> past.made, trouble |-> past.trouble,
                   led |-> TRUE]
      BY <2>1, <2>3, PastWith
    <3>3. starts' \subseteq Start /\ listeners' \subseteq Listener
      BY <2>1, <2>3, Disowned
    <3>4. EntryTypeOK'
      BY <1>1, <3>1, <3>2, <3>3 DEF startAttempt, PastType
    <3>5. Consented'
      BY <3>2 DEF Consented
    <3>6. Leading'
      BY <3>2 DEF Leading
    <3>. QED
      BY <3>4, <3>5, <3>6
  <2>. QED
    BY <2>2, <2>3
<1>2. ASSUME NEW at \in {"list", "workspace", "result"}, Depart(at), attempt' \in Status
      PROVE  EntryInv'
  <2>1. view' \in ViewType /\ view'.dialog = "none"
    BY <1>2, AwayType DEF Depart, Status
  <2>2. /\ listeners' \subseteq Listener /\ starts' \subseteq Start
        /\ listeners' # {} => listeners # {}
        /\ starts' # {} => starts # {}
        /\ (\E s \in starts : Tells(s)) => (\E s \in starts' : Tells(s))
    BY <1>2, Disowned DEF Depart
  <2>. QED
    BY <1>2, <2>1, <2>2, Quietly DEF Depart, Askable
<1>3. CASE navigate
  BY <1>2, <1>3 DEF navigate
<1>4. CASE goBack
  BY <1>2, <1>4 DEF goBack
<1>5. CASE submits
  BY <1>2, <1>5 DEF submits, Status
<1>. QED
  BY <1>1, <1>3, <1>4, <1>5

LEMMA EntryInit == InitEntry => EntryInv
<1> SUFFICES ASSUME InitEntry PROVE EntryInv
  OBVIOUS
<1>1. EntryTypeOK
  BY AwayType DEF InitEntry, EntryTypeOK, Offer, Status, PastType
<1>2. Consented /\ Leading
  BY AwayType DEF InitEntry, Consented, Leading
<1>. QED
  BY <1>1, <1>2 DEF EntryInv

LEMMA EntryInductive == EntryInv /\ [EntryNext]_entry => EntryInv'
<1> SUFFICES ASSUME EntryInv, [EntryNext]_entry PROVE EntryInv'
  OBVIOUS
<1>1. CASE UNCHANGED entry
  BY <1>1, Quietly DEF EntryInv, EntryTypeOK, entry, Askable
<1>. QED
  BY <1>1, LookSteps, ConsentStep, OpenStep, ListenerSteps, CallSteps, DepartSteps DEF EntryNext

-----------------------------------------------------------------------------

\* The page and the list, drawn at one time from one copy, say the same of an assessment
\* nobody has begun, because it ends no earlier than it starts.
LEMMA SaysTheSame ==
    ASSUME EntryTypeOK, view.at = "details", view.seen = clock, view.known = attempt
    PROVE  /\ box = "Live Now" => accepts \/ offered.locked \/ view.copy # Copy
           /\ view.copy.status = "Published" /\ attempt = "none" =>
                 <<section(view.copy, clock), box>> \in Saying
<1> USE DEF EntryTypeOK
<1>0. view.known \in Status /\ view.copy \in CopyType
  BY DEF ViewType
<1>1. ASSUME box = "Live Now", view.copy = Copy PROVE accepts \/ offered.locked
  <2>1. isAvailable
    BY <1>0, <1>1 DEF box, Status
  <2>2. view.copy.status = offered.status /\ view.copy.times = offered.times
    <3>1. Copy.status = offered.status /\ Copy.times = offered.times
      BY DEF Copy
    <3>. QED
      BY <1>1, <3>1
  <2>. QED
    BY <2>1, <2>2 DEF isAvailable, accepts, Within
<1>2. ASSUME view.copy.status = "Published", attempt = "none"
      PROVE  <<section(view.copy, clock), box>> \in Saying
  <2> DEFINE start == view.copy.times.start
             end   == view.copy.times.end
  <2>0. start \in Nat /\ end \in Nat /\ start <= end
    BY <1>0, EntryAssumption DEF CopyType, NoCopy
  <2>1. CASE Within(view.copy, clock)
    <3>1. section(view.copy, clock) = "active"
      BY <1>2, <2>0, <2>1 DEF section, Within
    <3>2. isAvailable
      BY <1>2, <2>1 DEF isAvailable
    <3>3. box \in {"Live Now", "Cannot Start"}
      BY <1>2, <3>2 DEF box
    <3>. QED
      BY <3>1, <3>3 DEF Saying
  <2>2. CASE clock < start
    <3>1. section(view.copy, clock) = "upcoming"
      BY <1>2, <2>0, <2>2 DEF section, Within
    <3>2. ~isAvailable
      BY <2>0, <2>2 DEF isAvailable, Within
    <3>3. box = "Upcoming"
      BY <1>2, <2>2, <3>2 DEF box
    <3>. QED
      BY <3>1, <3>3 DEF Saying
  <2>3. CASE clock > end
    <3>1. section(view.copy, clock) = "past"
      BY <1>2, <2>0, <2>3 DEF section, Within
    <3>2. ~isAvailable /\ ~(clock < start)
      BY <2>0, <2>3 DEF isAvailable, Within
    <3>3. box = "Ended"
      BY <1>2, <3>2 DEF box
    <3>. QED
      BY <3>1, <3>3 DEF Saying
  <2>. QED
    BY <2>0, <2>1, <2>2, <2>3 DEF Within
<1>. QED
  BY <1>1, <1>2

\* A page just drawn says what a list drawn from the same copy says, and offers no start
\* that the server refuses unless the assessment is locked or has been edited since; no
\* listener left behind starts an attempt without the student's consent; and an attempt
\* that has begun does not run behind a page that still offers its start.
THEOREM EntryAgrees == EntrySpec => []StartAgrees
<1>1. EntryInv => StartAgrees
  BY SaysTheSame DEF EntryInv, Consented, Leading, StartAgrees
<1>. QED
  BY <1>1, EntryInit, EntryInductive, PTL DEF EntrySpec

-----------------------------------------------------------------------------
(* The page to practise a problem on.                                      *)

USE PracticeAssumption

StoredStatus == {"none", "Pending"} \cup Verdicts
PageCall == [sub : Sub, answer : {"failed"} \cup StoredStatus]

DeskType ==
    [shown : Sub \cup {NoSub}, status : {"Submitting"} \cup StoredStatus,
     result : BOOLEAN, running : BOOLEAN, ref : Sub \cup {NoSub}, intervals : SUBSET Sub,
     posts : SUBSET PageCall, polls : SUBSET PageCall,
     cases : Seq({"array", "not JSON"}), active : Nat, mine : [Sub -> StoredStatus],
     loads : BOOLEAN, last : Sub \cup {NoSub}, wish : {"none", "run", "submission", "copy"},
     hasty : BOOLEAN, elsewhere : BOOLEAN]

PracticeTypeOK == stored \in [Sub -> StoredStatus] /\ desk \in DeskType /\ lost \in Nat

\* One of the test cases is active.
Chosen(d) == d.active \in 1..Len(d.cases)

\* What a poll has been told is still so: a verdict is final.
True(q, st) == \/ q.answer \in {"none", "Pending"}
               \/ q.answer \in Verdicts /\ q.answer = st[q.sub]

\* The page waits for one thing at most: the answer to a submission, with its button
\* disabled and no run under way, or the verdict of the one it remembers, which is the
\* last one the API has taken.
OneThing(d, st) ==
    /\ d.posts # {} => /\ d.ref = NoSub /\ d.status = "Submitting" /\ d.wish = "submission"
                       /\ ~d.running
                       /\ \E p \in PageCall : /\ d.posts = {p} /\ p.answer \in {"none", "Pending"}
                                              /\ p.answer = "Pending" => d.last = p.sub
    /\ d.ref = NoSub => d.intervals = {} /\ d.polls = {}
    /\ d.ref # NoSub => /\ d.intervals = {d.ref} /\ d.last = d.ref /\ d.wish # "none"
                        /\ \A q \in d.polls : q.sub = d.ref /\ True(q, st)
                        /\ \A q, r \in d.polls : q = r

\* What the console shows is what was wished for last, or is on its way.
Wished(d, st) ==
    /\ d.wish = "run" => d.running \/ d.result
    /\ d.wish = "copy" => ~d.result
    /\ d.wish = "submission" =>
          /\ ~d.result
          /\ d.posts = {} => /\ d.shown = d.last /\ d.last \in Sub
                             /\ d.ref = NoSub => d.status = st[d.last] /\ d.status \in Verdicts
    /\ d.wish = "none" => d.shown = NoSub

Usual == lost = 0 /\ ~desk.hasty /\ ~desk.elsewhere

PageInv ==
    /\ PracticeTypeOK /\ Chosen(desk)
    /\ Usual => OneThing(desk, stored) /\ Wished(desk, stored)

-----------------------------------------------------------------------------

LEMMA DeskOk == Desk \in DeskType /\ Chosen(Desk)
<1>1. <<"array">> \in Seq({"array", "not JSON"}) /\ Len(<<"array">>) = 1
  OBVIOUS
<1>. QED
  BY <1>1 DEF Desk, DeskType, StoredStatus, Chosen

LEMMA DeskGood == ASSUME NEW st PROVE OneThing(Desk, st) /\ Wished(Desk, st)
  BY DEF Desk, OneThing, Wished

LEMMA PracticeInit == InitPractice => PageInv
  BY DeskOk, DeskGood DEF InitPractice, PageInv, PracticeTypeOK, StoredStatus

LEMMA SeqFacts ==
    ASSUME NEW S, NEW s \in Seq(S), NEW x \in S
    PROVE  /\ Len(s) \in Nat /\ DOMAIN s = 1..Len(s)
           /\ Append(s, x) \in Seq(S) /\ Len(Append(s, x)) = Len(s) + 1
           /\ \A i \in 1..Len(s) : /\ i \in Nat /\ [s EXCEPT ![i] = x] \in Seq(S)
                                   /\ Len([s EXCEPT ![i] = x]) = Len(s)
<1>1. Len(s) \in Nat /\ DOMAIN s = 1..Len(s)
  BY LenProperties
<1>2. Append(s, x) \in Seq(S) /\ Len(Append(s, x)) = Len(s) + 1
  BY AppendProperties
<1>3. ASSUME NEW i \in 1..Len(s)
      PROVE  i \in Nat /\ [s EXCEPT ![i] = x] \in Seq(S) /\ Len([s EXCEPT ![i] = x]) = Len(s)
  BY <1>1, <1>3, ExceptSeq
<1>. QED
  BY <1>1, <1>2, <1>3

LEMMA Facts ==
    ASSUME PageInv
    PROVE  /\ desk \in DeskType /\ stored \in [Sub -> StoredStatus] /\ lost \in Nat
           /\ desk.cases \in Seq({"array", "not JSON"}) /\ Len(desk.cases) \in Nat
           /\ desk.active \in 1..Len(desk.cases)
<1>1. desk \in DeskType /\ stored \in [Sub -> StoredStatus] /\ lost \in Nat /\ Chosen(desk)
  BY DEF PageInv, PracticeTypeOK
<1>2. desk.cases \in Seq({"array", "not JSON"})
  BY <1>1 DEF DeskType
<1>3. Len(desk.cases) \in Nat
  BY <1>2, LenProperties
<1>. QED
  BY <1>1, <1>2, <1>3 DEF Chosen

\* What the console shows and waits for.
SameConsole(d, e) ==
    /\ d.posts = e.posts /\ d.polls = e.polls /\ d.ref = e.ref /\ d.intervals = e.intervals
    /\ d.last = e.last /\ d.wish = e.wish /\ d.running = e.running /\ d.result = e.result
    /\ d.shown = e.shown /\ d.status = e.status
    /\ d.hasty = e.hasty /\ d.elsewhere = e.elsewhere

LEMMA CasesOnly ==
    ASSUME PageInv, desk' \in DeskType, SameConsole(desk', desk), Chosen(desk'),
           UNCHANGED <<stored, lost>>
    PROVE  PageInv'
<1>1. PracticeTypeOK'
  BY Facts DEF PracticeTypeOK
<1>2. ASSUME Usual' PROVE OneThing(desk', stored') /\ Wished(desk', stored')
  <2>1. Usual
    BY <1>2 DEF Usual, SameConsole
  <2>2. OneThing(desk, stored) /\ Wished(desk, stored)
    BY <2>1 DEF PageInv
  <2>. QED
    BY <2>2 DEF OneThing, Wished, SameConsole
<1>. QED
  BY <1>1, <1>2 DEF PageInv

LEMMA Removed ==
    ASSUME NEW S, NEW s \in Seq(S), NEW i \in 1..Len(s), Len(s) > 1
    PROVE  RemoveAt(s, i) \in Seq(S) /\ Len(RemoveAt(s, i)) = Len(s) - 1
<1> DEFINE a == SubSeq(s, 1, i - 1)
           b == SubSeq(s, i + 1, Len(s))
<1>1. a \in Seq(S) /\ Len(a) = i - 1
  OBVIOUS
<1>2. b \in Seq(S) /\ Len(b) = Len(s) - i
  OBVIOUS
<1> HIDE DEF a, b
<1>3. (a \o b) \in Seq(S) /\ Len(a \o b) = Len(a) + Len(b)
  BY <1>1, <1>2, ConcatProperties
<1>4. RemoveAt(s, i) = a \o b
  BY DEF RemoveAt, a, b
<1>. QED
  BY <1>1, <1>2, <1>3, <1>4

\* The test cases.
LEMMA CaseSteps ==
    ASSUME PageInv, \/ handleTestCaseChange \/ handleAddTestCase \/ handleRemoveTestCase
                    \/ chooseTestCase \/ fetchProblem
    PROVE  PageInv'
<1> DEFINE Text == {"array", "not JSON"}
           cases == desk.cases
<1>0. /\ desk \in DeskType /\ desk.loads \in BOOLEAN
      /\ cases \in Seq(Text) /\ Len(cases) \in Nat /\ desk.active \in 1..Len(cases)
  BY Facts DEF DeskType
<1> HIDE DEF Text
<1>t. "array" \in Text /\ "not JSON" \in Text
  BY DEF Text
<1>1. ASSUME NEW cs \in Seq(Text), NEW n \in 1..Len(cs), NEW b \in BOOLEAN,
             desk' = [desk EXCEPT !.cases = cs, !.active = n, !.loads = b],
             UNCHANGED <<stored, lost>>
      PROVE  PageInv'
  <2>1. n \in Nat
    BY LenProperties
  <2>2. desk' \in DeskType /\ desk'.cases = cs /\ desk'.active = n
    BY <1>0, <1>1, <2>1 DEF DeskType, Text
  <2>3. SameConsole(desk', desk)
    BY <1>0, <1>1 DEF DeskType, SameConsole
  <2>. QED
    BY <1>1, <2>2, <2>3, CasesOnly DEF Chosen
<1>2. CASE handleTestCaseChange
  <2>1. PICK text \in Text : desk' = [desk EXCEPT !.cases[desk.active] = text]
    BY <1>2 DEF handleTestCaseChange, Now, Text
  <2> DEFINE cs == [cases EXCEPT ![desk.active] = text]
  <2>2. cs \in Seq(Text) /\ Len(cs) = Len(cases)
    <3> HIDE DEF cases
    <3>. QED
      BY <1>0, SeqFacts
  <2>3. desk' = [desk EXCEPT !.cases = cs, !.active = desk.active, !.loads = desk.loads]
    BY <1>0, <2>1 DEF DeskType
  <2> HIDE DEF cs
  <2>. QED
    BY <1>0, <1>1, <1>2, <2>2, <2>3 DEF handleTestCaseChange, Now
<1>3. CASE handleAddTestCase
  <2> DEFINE cs == Append(cases, "array")
             n == Len(cases) + 1
  <2>1. cs \in Seq(Text) /\ Len(cs) = n /\ n \in 1..Len(cs)
    <3> HIDE DEF cases
    <3>1. cs \in Seq(Text) /\ Len(cs) = n
      BY <1>0, <1>t, SeqFacts
    <3>2. n \in 1..n
      BY <1>0
    <3>. QED
      BY <3>1, <3>2
  <2>2. desk' = [desk EXCEPT !.cases = cs, !.active = n, !.loads = desk.loads]
    BY <1>0, <1>3 DEF handleAddTestCase, Now, DeskType
  <2> HIDE DEF cs, n
  <2>. QED
    BY <1>0, <1>1, <1>3, <2>1, <2>2 DEF handleAddTestCase, Now
<1>4. CASE handleRemoveTestCase
  <2> DEFINE cs == RemoveAt(cases, desk.active)
             n == IF desk.active = 1 THEN 1 ELSE desk.active - 1
  <2>1. Len(cases) > 1
    BY <1>4 DEF handleRemoveTestCase
  <2>2. cs \in Seq(Text) /\ Len(cs) = Len(cases) - 1
    BY <1>0, <2>1, Removed
  <2> HIDE DEF cs
  <2>3. n \in 1..Len(cs)
    <3> DEFINE i == desk.active
    <3>1. i \in Nat /\ i >= 1 /\ i <= Len(cases) /\ Len(cases) \in Nat
      BY <1>0
    <3> HIDE DEF i, cases
    <3>2. (IF i = 1 THEN 1 ELSE i - 1) \in 1..Len(cs)
      BY <2>1, <2>2, <3>1
    <3>. QED
      BY <3>2 DEF i
  <2>4. desk' = [desk EXCEPT !.cases = cs, !.active = n, !.loads = desk.loads]
    BY <1>0, <1>4 DEF handleRemoveTestCase, Now, DeskType, cs
  <2> HIDE DEF n
  <2>. QED
    BY <1>0, <1>1, <1>4, <2>2, <2>3, <2>4 DEF handleRemoveTestCase, Now
<1>5. CASE chooseTestCase
  <2>1. PICK i \in DOMAIN cases : desk' = [desk EXCEPT !.active = i]
    BY <1>5 DEF chooseTestCase, Now
  <2>2. i \in 1..Len(cases)
    <3> HIDE DEF cases
    <3>. QED
      BY <1>0, <1>t, SeqFacts
  <2>3. desk' = [desk EXCEPT !.cases = cases, !.active = i, !.loads = desk.loads]
    BY <1>0, <2>1 DEF DeskType
  <2>. QED
    BY <1>0, <1>1, <1>5, <2>2, <2>3 DEF chooseTestCase, Now
<1>6. CASE fetchProblem
  <2> DEFINE cs == <<"array">>
  <2>1. cs \in Seq(Text) /\ 1 \in 1..Len(cs)
    <3>1. cs \in Seq(Text)
      BY DEF Text
    <3>2. Len(cs) = 1
      OBVIOUS
    <3>. QED
      BY <3>1, <3>2
  <2>2. desk' = [desk EXCEPT !.cases = cs, !.active = 1, !.loads = FALSE]
    BY <1>6 DEF fetchProblem, Now
  <2> HIDE DEF cs
  <2>. QED
    BY <1>0, <1>1, <1>6, <2>1, <2>2 DEF fetchProblem, Now
<1>. QED
  BY <1>2, <1>3, <1>4, <1>5, <1>6

\* The test cases are left alone by all that follows.
LEMMA ConsoleOnly ==
    ASSUME PageInv, desk' \in DeskType, UNCHANGED <<desk.cases, desk.active>>,
           stored' \in [Sub -> StoredStatus], lost' \in Nat,
           Usual' => OneThing(desk', stored') /\ Wished(desk', stored')
    PROVE  PageInv'
  BY DEF PageInv, PracticeTypeOK, Chosen

LEMMA UsualOnes == PageInv /\ Usual => OneThing(desk, stored) /\ Wished(desk, stored)
  BY DEF PageInv

LEMMA RunSteps == ASSUME PageInv, handleRun \/ runAnswered PROVE PageInv'
<1>0. desk \in DeskType
  BY Facts
<1>1. CASE handleRun
  <2> DEFINE b == Contains(desk.cases, "not JSON")
             c == ~b
  <2>1. b \in BOOLEAN /\ c \in BOOLEAN /\ (b \/ c)
    BY DEF Contains
  <2>2. desk' = [desk EXCEPT !.shown = NoSub, !.status = "none", !.wish = "run",
                             !.running = c, !.result = b]
    BY <1>1 DEF handleRun, Now
  <2> HIDE DEF b, c
  <2>3. desk' \in DeskType
    BY <1>0, <2>1, <2>2 DEF DeskType, StoredStatus
  <2>4. /\ UNCHANGED <<desk.cases, desk.active>>
        /\ desk'.posts = desk.posts /\ desk'.polls = desk.polls /\ desk'.ref = desk.ref
        /\ desk'.intervals = desk.intervals /\ desk'.last = desk.last /\ desk'.wish = "run"
        /\ desk'.hasty = desk.hasty /\ desk'.elsewhere = desk.elsewhere
    BY <1>0, <2>2 DEF DeskType
  <2>5. desk'.running = c /\ desk'.result = b
    BY <1>0, <2>2 DEF DeskType
  <2>6. stored' = stored /\ lost' = lost /\ desk.status # "Submitting"
    BY <1>1 DEF handleRun, Now, Enabled
  <2>7. ASSUME Usual' PROVE OneThing(desk', stored') /\ Wished(desk', stored')
    <3>1. Usual
      BY <2>4, <2>6, <2>7 DEF Usual
    <3>2. OneThing(desk, stored)
      BY <3>1, UsualOnes
    <3>3. OneThing(desk', stored')
      BY <2>4, <2>6, <3>2 DEF OneThing
    <3>4. desk'.running \/ desk'.result
      BY <2>1, <2>5
    <3>. QED
      BY <2>4, <3>3, <3>4 DEF Wished
  <2>. QED
    BY <2>3, <2>4, <2>6, <2>7, Facts, ConsoleOnly
<1>2. CASE runAnswered
  <2>1. desk' = [desk EXCEPT !.running = FALSE, !.result = TRUE, !.wish = "run"]
    BY <1>2 DEF runAnswered, Now
  <2>2. desk' \in DeskType
    BY <1>0, <2>1 DEF DeskType
  <2>3. /\ UNCHANGED <<desk.cases, desk.active>>
        /\ desk'.posts = desk.posts /\ desk'.polls = desk.polls /\ desk'.ref = desk.ref
        /\ desk'.intervals = desk.intervals /\ desk'.last = desk.last /\ desk'.wish = "run"
        /\ desk'.hasty = desk.hasty /\ desk'.elsewhere = desk.elsewhere
        /\ desk'.result
    BY <1>0, <2>1 DEF DeskType
  <2>4. stored' = stored /\ lost' = lost /\ desk.running
    BY <1>2 DEF runAnswered, Now
  <2>5. ASSUME Usual' PROVE OneThing(desk', stored') /\ Wished(desk', stored')
    <3>1. OneThing(desk, stored)
      BY <2>3, <2>4, <2>5, UsualOnes DEF Usual
    <3>2. OneThing(desk', stored')
      BY <2>3, <2>4, <3>1 DEF OneThing
    <3>. QED
      BY <2>3, <3>2 DEF Wished
  <2>. QED
    BY <2>2, <2>3, <2>4, <2>5, Facts, ConsoleOnly
<1>. QED
  BY <1>1, <1>2

\* A submission, the API that takes it, and its answer.
LEMMA SubmitSteps ==
    ASSUME PageInv,
           handleSubmitClick \/ \E p \in desk.posts : submissionTaken(p) \/ submitted(p)
    PROVE  PageInv'
<1>0. desk \in DeskType /\ stored \in [Sub -> StoredStatus] /\ lost \in Nat
  BY Facts
<1>1. CASE handleSubmitClick
  <2>1. PICK s \in Sub :
           desk' = [desk EXCEPT !.shown = NoSub, !.status = "Submitting", !.result = FALSE,
                                !.wish = "submission",
                                !.posts = @ \cup {[sub |-> s, answer |-> "none"]}]
    BY <1>1 DEF handleSubmitClick, Now
  <2> DEFINE p == [sub |-> s, answer |-> "none"]
  <2>2. p \in PageCall /\ p.answer = "none"
    BY DEF PageCall, StoredStatus
  <2> HIDE DEF p
  <2>3. desk' \in DeskType
    BY <1>0, <2>1, <2>2 DEF DeskType, p
  <2>4. /\ UNCHANGED <<desk.cases, desk.active>>
        /\ desk'.posts = desk.posts \cup {p} /\ desk'.polls = desk.polls /\ desk'.ref = desk.ref
        /\ desk'.intervals = desk.intervals /\ desk'.last = desk.last
        /\ desk'.wish = "submission" /\ desk'.status = "Submitting"
        /\ desk'.hasty = desk.hasty /\ desk'.elsewhere = desk.elsewhere
        /\ desk'.running = desk.running /\ ~desk'.result
    BY <1>0, <2>1 DEF DeskType, p
  <2>5. /\ stored' = stored /\ lost' = lost /\ desk.status # "Submitting" /\ ~desk.running
        /\ desk.ref = NoSub
    BY <1>1 DEF handleSubmitClick, Now, Enabled
  <2>6. ASSUME Usual' PROVE OneThing(desk', stored') /\ Wished(desk', stored')
    <3>1. OneThing(desk, stored)
      BY <2>4, <2>5, <2>6, UsualOnes DEF Usual
    <3>2. desk.posts = {}
      BY <2>5, <3>1 DEF OneThing
    <3>3. desk'.posts = {p} /\ ~desk'.running
      BY <2>4, <2>5, <3>2
    <3>4. OneThing(desk', stored')
      BY <2>2, <2>4, <2>5, <3>1, <3>3 DEF OneThing
    <3>. QED
      BY <2>4, <3>3, <3>4 DEF Wished
  <2>. QED
    BY <1>0, <2>3, <2>4, <2>5, <2>6, ConsoleOnly
<1>2. ASSUME NEW p \in desk.posts, submissionTaken(p) PROVE PageInv'
  <2> DEFINE q == [p EXCEPT !.answer = "Pending"]
  <2>0. p \in PageCall
    BY <1>0 DEF DeskType
  <2>1. q \in PageCall /\ q.answer = "Pending" /\ q.sub = p.sub /\ p.sub \in Sub
    BY <2>0 DEF PageCall, StoredStatus
  <2>2. desk' = [desk EXCEPT !.posts = (@ \ {p}) \cup {q}, !.last = p.sub]
    BY <1>2 DEF submissionTaken
  <2> HIDE DEF q
  <2>3. desk' \in DeskType
    BY <1>0, <2>1, <2>2 DEF DeskType
  <2>4. /\ UNCHANGED <<desk.cases, desk.active>>
        /\ desk'.posts = (desk.posts \ {p}) \cup {q} /\ desk'.polls = desk.polls
        /\ desk'.intervals = desk.intervals /\ desk'.last = p.sub /\ desk'.ref = desk.ref
        /\ desk'.wish = desk.wish /\ desk'.status = desk.status
        /\ desk'.hasty = desk.hasty /\ desk'.elsewhere = desk.elsewhere
        /\ desk'.running = desk.running /\ desk'.result = desk.result
    BY <1>0, <2>2 DEF DeskType
  <2>5. lost' = lost /\ stored' = [stored EXCEPT ![p.sub] = "Pending"]
    BY <1>2 DEF submissionTaken
  <2>6. stored' \in [Sub -> StoredStatus]
    BY <1>0, <2>5 DEF StoredStatus
  <2>7. ASSUME Usual' PROVE OneThing(desk', stored') /\ Wished(desk', stored')
    <3>1. OneThing(desk, stored) /\ Wished(desk, stored)
      BY <2>4, <2>5, <2>7, UsualOnes DEF Usual
    <3>2. /\ desk.ref = NoSub /\ desk.status = "Submitting" /\ desk.wish = "submission"
          /\ ~desk.running /\ desk.posts = {p}
      BY <3>1 DEF OneThing
    <3>3. desk'.posts = {q} /\ ~desk'.running
      BY <2>4, <3>2
    <3>4. OneThing(desk', stored')
      BY <2>1, <2>4, <3>1, <3>2, <3>3 DEF OneThing
    <3>5. ~desk'.result
      BY <2>4, <3>1, <3>2 DEF Wished
    <3>. QED
      BY <2>4, <3>2, <3>3, <3>4, <3>5 DEF Wished
  <2>. QED
    BY <1>0, <2>3, <2>4, <2>5, <2>6, <2>7, ConsoleOnly
<1>3. ASSUME NEW p \in desk.posts, submitted(p) PROVE PageInv'
  <2>1. p \in PageCall /\ p.sub \in Sub /\ p.answer \in {"failed"} \cup StoredStatus
    BY <1>0 DEF DeskType, PageCall
  <2>2. p.answer # "none" /\ stored' = stored /\ lost' = lost
    BY <1>3 DEF submitted, Now
  <2>3. CASE p.answer = "failed"
    <3>1. desk' = [desk EXCEPT !.posts = @ \ {p}, !.shown = NoSub, !.status = "Error"]
      BY <1>3, <2>3 DEF submitted, Now
    <3>2. desk' \in DeskType
      BY <1>0, <3>1 DEF DeskType, StoredStatus, Verdicts
    <3>3. /\ UNCHANGED <<desk.cases, desk.active>>
          /\ desk'.hasty = desk.hasty /\ desk'.elsewhere = desk.elsewhere
      BY <1>0, <3>1 DEF DeskType
    <3>4. ~Usual'
      <4>1. ~(Usual /\ OneThing(desk, stored))
        BY <2>3 DEF OneThing
      <4>. QED
        BY <2>2, <3>3, <4>1, UsualOnes DEF Usual
    <3>. QED
      BY <1>0, <2>2, <3>2, <3>3, <3>4, ConsoleOnly
  <2>4. CASE p.answer # "failed"
    <3>1. desk' = [desk EXCEPT !.posts = @ \ {p}, !.shown = p.sub, !.status = p.answer,
                               !.ref = p.sub, !.intervals = @ \cup {p.sub}]
      BY <1>3, <2>4 DEF submitted, Now
    <3>2. desk' \in DeskType
      BY <1>0, <2>1, <2>4, <3>1 DEF DeskType
    <3>3. /\ UNCHANGED <<desk.cases, desk.active>>
          /\ desk'.hasty = desk.hasty /\ desk'.elsewhere = desk.elsewhere
          /\ desk'.posts = desk.posts \ {p} /\ desk'.polls = desk.polls /\ desk'.ref = p.sub
          /\ desk'.intervals = desk.intervals \cup {p.sub} /\ desk'.last = desk.last
          /\ desk'.wish = desk.wish /\ desk'.result = desk.result /\ desk'.shown = p.sub
      BY <1>0, <3>1 DEF DeskType
    <3>4. ASSUME Usual' PROVE OneThing(desk', stored') /\ Wished(desk', stored')
      <4>1. OneThing(desk, stored) /\ Wished(desk, stored)
        BY <2>2, <3>3, <3>4, UsualOnes DEF Usual
      <4>2. desk.ref = NoSub /\ desk.wish = "submission" /\ desk.posts = {p} /\ desk.last = p.sub
        BY <2>2, <2>4, <4>1 DEF OneThing
      <4>3. desk.intervals = {} /\ desk.polls = {} /\ p.sub # NoSub
        BY <2>1, <4>1, <4>2 DEF OneThing
      <4>4. desk'.posts = {} /\ desk'.intervals = {p.sub} /\ desk'.polls = {}
        BY <3>3, <4>2, <4>3
      <4>5. ~desk'.result
        BY <3>3, <4>1, <4>2 DEF Wished
      <4>6. OneThing(desk', stored')
        BY <3>3, <4>2, <4>3, <4>4 DEF OneThing
      <4>. QED
        BY <2>1, <3>3, <4>2, <4>3, <4>5, <4>6 DEF Wished
    <3>. QED
      BY <1>0, <2>2, <3>2, <3>3, <3>4, ConsoleOnly
  <2>. QED
    BY <2>3, <2>4
<1>. QED
  BY <1>1, <1>2, <1>3

\* The timer, the answers to its polls, and the worker.
LEMMA PollSteps ==
    ASSUME PageInv,
           \/ \E s \in Sub : poll(s) \/ judge(s)
           \/ \E p \in desk.polls : answerPoll(p)
    PROVE  PageInv'
<1>0. desk \in DeskType /\ stored \in [Sub -> StoredStatus] /\ lost \in Nat
  BY Facts
<1>1. ASSUME NEW polls \in SUBSET PageCall, desk' = [desk EXCEPT !.polls = polls],
             UNCHANGED <<stored, lost>>,
             Usual /\ OneThing(desk, stored) =>
               /\ desk.ref # NoSub
               /\ \A q \in polls : q.sub = desk.ref /\ True(q, stored)
               /\ \A q, r \in polls : q = r
      PROVE  PageInv'
  <2>1. desk' \in DeskType
    BY <1>0, <1>1 DEF DeskType
  <2>2. /\ UNCHANGED <<desk.cases, desk.active>>
        /\ desk'.posts = desk.posts /\ desk'.polls = polls /\ desk'.ref = desk.ref
        /\ desk'.intervals = desk.intervals /\ desk'.last = desk.last
        /\ desk'.wish = desk.wish /\ desk'.running = desk.running /\ desk'.result = desk.result
        /\ desk'.shown = desk.shown /\ desk'.status = desk.status
        /\ desk'.hasty = desk.hasty /\ desk'.elsewhere = desk.elsewhere
    BY <1>0, <1>1 DEF DeskType
  <2>3. ASSUME Usual' PROVE OneThing(desk', stored') /\ Wished(desk', stored')
    <3>1. Usual /\ OneThing(desk, stored) /\ Wished(desk, stored)
      BY <1>1, <2>2, <2>3, UsualOnes DEF Usual
    <3>2. OneThing(desk', stored')
      BY <1>1, <2>2, <3>1 DEF OneThing
    <3>3. Wished(desk', stored')
      BY <1>1, <2>2, <3>1 DEF Wished
    <3>. QED
      BY <3>2, <3>3
  <2>. QED
    BY <1>0, <1>1, <2>1, <2>2, <2>3, ConsoleOnly
<1>2. ASSUME NEW s \in Sub, poll(s) PROVE PageInv'
  <2> DEFINE q == [sub |-> s, answer |-> "none"]
             polls == desk.polls \cup {q}
  <2>1. q \in PageCall /\ q.sub = s /\ True(q, stored)
    BY DEF PageCall, StoredStatus, True
  <2>2. desk.polls \subseteq PageCall /\ s \in desk.intervals /\ \A p \in desk.polls : p.sub # s
    BY <1>0, <1>2 DEF DeskType, poll
  <2>3. desk' = [desk EXCEPT !.polls = polls] /\ UNCHANGED <<stored, lost>>
    BY <1>0, <1>2 DEF poll, Now, DeskType
  <2>4. ASSUME OneThing(desk, stored)
        PROVE  /\ desk.ref # NoSub
               /\ \A p \in polls : p.sub = desk.ref /\ True(p, stored)
               /\ \A p, r \in polls : p = r
    <3>1. desk.ref = s /\ desk.ref # NoSub
      BY <2>2, <2>4 DEF OneThing
    <3>2. desk.polls = {}
      BY <2>2, <2>4, <3>1 DEF OneThing
    <3> HIDE DEF q
    <3>3. polls = {q}
      BY <3>2
    <3>. QED
      BY <2>1, <3>1, <3>3
  <2> HIDE DEF q
  <2>5. polls \in SUBSET PageCall
    BY <2>1, <2>2
  <2>. QED
    BY <1>1, <2>3, <2>4, <2>5
<1>3. ASSUME NEW p \in desk.polls, answerPoll(p) PROVE PageInv'
  <2> DEFINE q == [p EXCEPT !.answer = stored[p.sub]]
             polls == (desk.polls \ {p}) \cup {q}
  <2>1. p \in PageCall /\ desk.polls \subseteq PageCall
    BY <1>0 DEF DeskType
  <2>2. p.sub \in Sub /\ stored[p.sub] \in StoredStatus
    BY <1>0, <2>1 DEF PageCall
  <2>3. q \in PageCall /\ q.sub = p.sub /\ q.answer = stored[p.sub]
    BY <2>1, <2>2 DEF PageCall
  <2>4. desk' = [desk EXCEPT !.polls = polls] /\ UNCHANGED <<stored, lost>>
    BY <1>0, <1>3 DEF answerPoll, Now, DeskType
  <2> HIDE DEF q
  <2>5. True(q, stored)
    BY <2>2, <2>3 DEF True, StoredStatus
  <2>6. ASSUME OneThing(desk, stored)
        PROVE  /\ desk.ref # NoSub
               /\ \A x \in polls : x.sub = desk.ref /\ True(x, stored)
               /\ \A x, r \in polls : x = r
    <3>1. desk.ref # NoSub /\ p.sub = desk.ref /\ \A x, r \in desk.polls : x = r
      BY <2>6 DEF OneThing
    <3>2. polls = {q}
      BY <3>1
    <3>. QED
      BY <2>3, <2>5, <3>1, <3>2
  <2>7. polls \in SUBSET PageCall
    BY <2>1, <2>3
  <2>. QED
    BY <1>1, <2>4, <2>6, <2>7
<1>4. ASSUME NEW s \in Sub, judge(s) PROVE PageInv'
  <2>1. /\ stored' \in [Sub -> StoredStatus] /\ UNCHANGED <<desk, lost>>
        /\ \A x \in Sub : stored[x] \in Verdicts => stored'[x] = stored[x]
    BY <1>0, <1>4 DEF judge, StoredStatus, Verdicts
  <2>2. ASSUME Usual' PROVE OneThing(desk', stored') /\ Wished(desk', stored')
    <3>1. OneThing(desk, stored) /\ Wished(desk, stored)
      BY <2>1, <2>2, UsualOnes DEF Usual
    <3>2. \A q \in PageCall : True(q, stored) => True(q, stored')
      BY <2>1 DEF True, PageCall
    <3>3. desk.polls \subseteq PageCall
      BY <1>0 DEF DeskType
    <3>4. OneThing(desk, stored')
      BY <3>1, <3>2, <3>3 DEF OneThing
    <3>5. Wished(desk, stored')
      BY <2>1, <3>1 DEF Wished
    <3>. QED
      BY <2>1, <3>4, <3>5
  <2>. QED
    BY <1>0, <2>1, <2>2, ConsoleOnly
<1>. QED
  BY <1>2, <1>3, <1>4

\* An answer is shown whatever was shown meanwhile.
LEMMA StatusSteps ==
    ASSUME PageInv, NEW p \in desk.polls, checkStatus(p)
    PROVE  PageInv'
<1>0. desk \in DeskType /\ stored \in [Sub -> StoredStatus] /\ lost \in Nat
  BY Facts
<1>1. p \in PageCall /\ p.sub \in Sub /\ p.answer \in {"failed"} \cup StoredStatus
  BY <1>0 DEF DeskType, PageCall
<1>2. p.answer # "none" /\ UNCHANGED <<stored, lost>>
  BY DEF checkStatus, Now
<1> DEFINE polls == desk.polls \ {p}
           wish == IF desk.wish = "copy" THEN "submission" ELSE desk.wish
           intervals == desk.intervals \ {desk.ref}
<1>3. CASE p.answer = "failed"
  <2>1. desk' = [desk EXCEPT !.polls = polls, !.intervals = intervals, !.ref = NoSub]
    BY <1>0, <1>3 DEF checkStatus, Now, stopped, Verdicts, DeskType
  <2>2. desk' \in DeskType
    BY <1>0, <2>1 DEF DeskType
  <2>3. /\ UNCHANGED <<desk.cases, desk.active>>
        /\ desk'.hasty = desk.hasty /\ desk'.elsewhere = desk.elsewhere
    BY <1>0, <2>1 DEF DeskType
  <2>4. ~Usual'
    <3>1. ~OneThing(desk, stored)
      BY <1>3 DEF OneThing, True, Verdicts
    <3>. QED
      BY <1>2, <2>3, <3>1, UsualOnes DEF Usual
  <2>. QED
    BY <1>0, <1>2, <2>2, <2>3, <2>4, ConsoleOnly
<1>4. CASE p.answer \in Verdicts
  <2>1. desk' = [desk EXCEPT !.polls = polls, !.shown = p.sub, !.status = p.answer,
                             !.wish = wish, !.intervals = intervals, !.ref = NoSub]
    BY <1>0, <1>4 DEF checkStatus, Now, stopped, Verdicts, DeskType
  <2>2. desk' \in DeskType
    BY <1>0, <1>1, <1>4, <2>1 DEF DeskType, StoredStatus
  <2>3. /\ UNCHANGED <<desk.cases, desk.active>>
        /\ desk'.hasty = desk.hasty /\ desk'.elsewhere = desk.elsewhere
        /\ desk'.posts = desk.posts /\ desk'.polls = polls /\ desk'.ref = NoSub
        /\ desk'.intervals = intervals /\ desk'.last = desk.last /\ desk'.wish = wish
        /\ desk'.running = desk.running /\ desk'.result = desk.result
        /\ desk'.shown = p.sub /\ desk'.status = p.answer
    BY <1>0, <2>1 DEF DeskType
  <2>4. ASSUME Usual' PROVE OneThing(desk', stored') /\ Wished(desk', stored')
    <3>1. OneThing(desk, stored) /\ Wished(desk, stored)
      BY <1>2, <2>3, <2>4, UsualOnes DEF Usual
    <3>2. /\ desk.ref = p.sub /\ desk.last = p.sub /\ desk.posts = {} /\ polls = {}
          /\ intervals = {} /\ desk.wish # "none" /\ p.answer = stored[p.sub]
      BY <1>1, <1>4, <3>1 DEF OneThing, True, Verdicts
    <3>3. OneThing(desk', stored')
      BY <2>3, <3>2 DEF OneThing
    <3>4. Wished(desk', stored')
      BY <1>1, <1>2, <1>4, <2>3, <3>1, <3>2 DEF Wished
    <3>. QED
      BY <3>3, <3>4
  <2>. QED
    BY <1>0, <1>2, <2>2, <2>3, <2>4, ConsoleOnly
<1>5. CASE p.answer = "Pending"
  <2>1. desk' = [desk EXCEPT !.polls = polls, !.shown = p.sub, !.status = p.answer, !.wish = wish]
    BY <1>0, <1>5 DEF checkStatus, Now, Verdicts, DeskType
  <2>2. desk' \in DeskType
    BY <1>0, <1>1, <1>5, <2>1 DEF DeskType, StoredStatus
  <2>3. /\ UNCHANGED <<desk.cases, desk.active>>
        /\ desk'.hasty = desk.hasty /\ desk'.elsewhere = desk.elsewhere
        /\ desk'.posts = desk.posts /\ desk'.polls = polls /\ desk'.ref = desk.ref
        /\ desk'.intervals = desk.intervals /\ desk'.last = desk.last /\ desk'.wish = wish
        /\ desk'.running = desk.running /\ desk'.result = desk.result
        /\ desk'.shown = p.sub
    BY <1>0, <2>1 DEF DeskType
  <2>4. ASSUME Usual' PROVE OneThing(desk', stored') /\ Wished(desk', stored')
    <3>1. OneThing(desk, stored) /\ Wished(desk, stored)
      BY <1>2, <2>3, <2>4, UsualOnes DEF Usual
    <3>2. /\ desk.ref = p.sub /\ desk.last = p.sub /\ desk.posts = {} /\ polls = {}
          /\ desk.ref # NoSub /\ desk.intervals = {desk.ref} /\ desk.wish # "none"
      BY <1>1, <3>1 DEF OneThing
    <3>3. OneThing(desk', stored')
      BY <2>3, <3>2 DEF OneThing
    <3>4. Wished(desk', stored')
      BY <1>1, <2>3, <3>1, <3>2 DEF Wished
    <3>. QED
      BY <3>3, <3>4
  <2>. QED
    BY <1>0, <1>2, <2>2, <2>3, <2>4, ConsoleOnly
<1>. QED
  BY <1>1, <1>2, <1>3, <1>4, <1>5 DEF StoredStatus

\* The list of submissions, another problem, another page, and failures.
LEMMA ViewSteps ==
    ASSUME PageInv, fetchMySubmissions \/ viewResult \/ changeProblem \/ leave \/ fails
    PROVE  PageInv'
<1>0. desk \in DeskType /\ stored \in [Sub -> StoredStatus] /\ lost \in Nat
  BY Facts
<1>1. CASE fetchMySubmissions
  <2>1. desk' = [desk EXCEPT !.mine = stored] /\ UNCHANGED <<stored, lost>>
    BY <1>1 DEF fetchMySubmissions, Now
  <2>2. desk' \in DeskType
    BY <1>0, <2>1 DEF DeskType
  <2>3. SameConsole(desk', desk) /\ UNCHANGED <<desk.cases, desk.active>>
    BY <1>0, <2>1 DEF DeskType, SameConsole
  <2>4. Chosen(desk')
    BY <2>3 DEF Chosen, PageInv
  <2>. QED
    BY <2>1, <2>2, <2>3, <2>4, CasesOnly
<1>2. CASE viewResult
  <2>1. PICK s \in Sub :
           desk' = [desk EXCEPT !.shown = s, !.status = desk.mine[s], !.result = FALSE,
                                !.wish = "copy", !.hasty = @ \/ desk.posts # {}]
    BY <1>2 DEF viewResult, Now
  <2> DEFINE status == desk.mine[s]
             b == desk.hasty \/ desk.posts # {}
  <2>2. status \in StoredStatus /\ b \in BOOLEAN
    BY <1>0 DEF DeskType
  <2>3. desk' = [desk EXCEPT !.shown = s, !.status = status, !.result = FALSE,
                             !.wish = "copy", !.hasty = b]
    BY <1>0, <2>1 DEF DeskType
  <2>4. b => desk.hasty \/ desk.posts # {}
    OBVIOUS
  <2>5. ~b => ~desk.hasty /\ desk.posts = {}
    OBVIOUS
  <2> HIDE DEF status, b
  <2>6. desk' \in DeskType
    BY <1>0, <2>2, <2>3 DEF DeskType
  <2>7. /\ UNCHANGED <<desk.cases, desk.active>>
        /\ desk'.posts = desk.posts /\ desk'.polls = desk.polls /\ desk'.ref = desk.ref
        /\ desk'.intervals = desk.intervals /\ desk'.last = desk.last /\ desk'.wish = "copy"
        /\ desk'.elsewhere = desk.elsewhere /\ desk'.hasty = b
    BY <1>0, <2>3 DEF DeskType
  <2>8. ~desk'.result
    BY <1>0, <2>3 DEF DeskType
  <2>9. UNCHANGED <<stored, lost>>
    BY <1>2 DEF viewResult, Now
  <2>10. ASSUME Usual' PROVE OneThing(desk', stored') /\ Wished(desk', stored')
    <3>1. Usual /\ desk.posts = {}
      BY <2>5, <2>7, <2>9, <2>10 DEF Usual
    <3>2. OneThing(desk, stored)
      BY <3>1, UsualOnes
    <3>3. OneThing(desk', stored')
      BY <2>7, <2>9, <3>1, <3>2 DEF OneThing
    <3>. QED
      BY <2>7, <2>8, <3>3 DEF Wished
  <2>. QED
    BY <1>0, <2>6, <2>7, <2>9, <2>10, ConsoleOnly
<1>3. CASE changeProblem
  <2>1. desk' = [desk EXCEPT !.intervals = desk.intervals \ {desk.ref}, !.elsewhere = TRUE,
                             !.loads = TRUE]
    BY <1>0, <1>3 DEF changeProblem, Now, DeskType
  <2>2. desk' \in DeskType
    BY <1>0, <2>1 DEF DeskType
  <2>3. UNCHANGED <<desk.cases, desk.active>> /\ desk'.elsewhere
    BY <1>0, <2>1 DEF DeskType
  <2>4. ~Usual'
    BY <2>3 DEF Usual
  <2>5. UNCHANGED <<stored, lost>>
    BY <1>3 DEF changeProblem, Now
  <2>. QED
    BY <1>0, <2>2, <2>3, <2>4, <2>5, ConsoleOnly
<1>4. CASE leave
  <2>1. desk' = Desk /\ UNCHANGED <<stored, lost>>
    BY <1>4 DEF leave, Now
  <2>. QED
    BY <1>0, <2>1, DeskOk, DeskGood DEF PageInv, PracticeTypeOK
<1>5. CASE fails
  <2>1. lost' = lost + 1 /\ stored' = stored
    BY <1>5 DEF fails
  <2>2. ~Usual'
    BY <1>0, <2>1 DEF Usual
  <2>3. desk.posts \subseteq PageCall /\ desk.polls \subseteq PageCall
    BY <1>0 DEF DeskType
  <2>4. \A p \in PageCall : [p EXCEPT !.answer = "failed"] \in PageCall
    BY DEF PageCall
  <2>5. \E posts \in SUBSET PageCall, polls \in SUBSET PageCall :
          desk' = [desk EXCEPT !.posts = posts] \/ desk' = [desk EXCEPT !.polls = polls]
    <3>1. CASE \E p \in desk.posts :
                 desk' = [desk EXCEPT !.posts = (@ \ {p}) \cup {[p EXCEPT !.answer = "failed"]}]
      <4>1. PICK p \in desk.posts :
              desk' = [desk EXCEPT !.posts = (@ \ {p}) \cup {[p EXCEPT !.answer = "failed"]}]
        BY <3>1
      <4> DEFINE posts == (desk.posts \ {p}) \cup {[p EXCEPT !.answer = "failed"]}
      <4>2. posts \in SUBSET PageCall
        BY <2>3, <2>4
      <4>3. desk' = [desk EXCEPT !.posts = posts]
        BY <1>0, <4>1 DEF DeskType
      <4>. QED
        BY <4>2, <4>3
    <3>2. CASE \E p \in desk.polls :
                 desk' = [desk EXCEPT !.polls = (@ \ {p}) \cup {[p EXCEPT !.answer = "failed"]}]
      <4>1. PICK p \in desk.polls :
              desk' = [desk EXCEPT !.polls = (@ \ {p}) \cup {[p EXCEPT !.answer = "failed"]}]
        BY <3>2
      <4> DEFINE polls == (desk.polls \ {p}) \cup {[p EXCEPT !.answer = "failed"]}
      <4>2. polls \in SUBSET PageCall
        BY <2>3, <2>4
      <4>3. desk' = [desk EXCEPT !.polls = polls]
        BY <1>0, <4>1 DEF DeskType
      <4>. QED
        BY <4>2, <4>3
    <3>. QED
      BY <1>5, <3>1, <3>2 DEF fails
  <2>6. desk' \in DeskType /\ UNCHANGED <<desk.cases, desk.active>>
    BY <1>0, <2>5 DEF DeskType
  <2>. QED
    BY <1>0, <2>1, <2>2, <2>6, ConsoleOnly
<1>. QED
  BY <1>1, <1>2, <1>3, <1>4, <1>5

LEMMA PracticeInductive ==
    ASSUME PageInv, [PracticeNext]_practice
    PROVE  PageInv'
<1>1. CASE UNCHANGED practice
  BY <1>1 DEF practice, PageInv, PracticeTypeOK, Usual
<1>. QED
  BY <1>1, CaseSteps, RunSteps, SubmitSteps, PollSteps, StatusSteps, ViewSteps DEF PracticeNext

\* Without failed calls, and unless a result is called up while a submission is being
\* sent or the address changes to another problem, the page has no timer but the one it
\* remembers, and its console ends on what was asked for or answered last.
THEOREM ConsoleSettlesInTheEnd == PracticeSpec => []ConsoleSettles
<1>1. PageInv => ConsoleSettles
  <2> SUFFICES ASSUME PageInv PROVE ConsoleSettles
    OBVIOUS
  <2>1. desk.active \in DOMAIN desk.cases
    BY Facts, LenProperties
  <2>2. ASSUME lost = 0, ~desk.hasty, ~desk.elsewhere
        PROVE  /\ desk.intervals \subseteq {desk.ref}
               /\ Settled => CASE desk.wish = "run" -> desk.result
                               [] desk.wish = "copy" -> ~desk.result
                               [] desk.wish = "submission" ->
                                    /\ ~desk.result /\ desk.shown = desk.last
                                    /\ desk.status = stored[desk.last]
                               [] OTHER -> desk.shown = NoSub
    <3>1. OneThing(desk, stored) /\ Wished(desk, stored)
      BY <2>2, UsualOnes DEF Usual
    <3>2. desk.intervals \subseteq {desk.ref}
      BY <3>1 DEF OneThing
    <3>3. ASSUME Settled PROVE desk.posts = {} /\ ~desk.running /\ desk.ref = NoSub
      BY <3>1, <3>3 DEF OneThing, Settled
    <3>4. desk.wish \in {"none", "run", "submission", "copy"}
      BY Facts DEF DeskType
    <3>. QED
      BY <3>1, <3>2, <3>3, <3>4 DEF Wished
  <2>. QED
    BY <2>1, <2>2 DEF ConsoleSettles
<1>. QED
  BY <1>1, PracticeInit, PracticeInductive, PTL DEF PracticeSpec
=============================================================================
