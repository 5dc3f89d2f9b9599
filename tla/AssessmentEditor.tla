-------------------------- MODULE AssessmentEditor --------------------------
(***************************************************************************)
(* The pages AddAssessmentPage.jsx and EditAssessmentPage.jsx: a form, its *)
(* checks, and what the API and the database make of it; and what the page *)
(* for editing makes of that again.                                        *)
(*                                                                         *)
(* A field holds 0 for a number or a time that is not filled in: Number of *)
(* an empty text is 0, and an instant is at least 1.  Instants count from  *)
(* the first one by the clock on the API's wall.  `ahead' is how much more *)
(* the clock on the author's wall shows: a field of type datetime-local is *)
(* text without a zone, which the browser reads by its own clock, and so   *)
(* does the API.                                                           *)
(* The status and the description go through unread.                       *)
(***************************************************************************)
EXTENDS Reports, Filtered, SequencesExt

CONSTANTS
    Listed,   \* bound: the problems of the platform
    MaxClock  \* bound: the latest instant

VARIABLES
    sheet,    \* formData, or Undefined while neither page is open
    adding,   \* is it that of AddAssessmentPage?
    kept,     \* the assessment in MongoDB, or Undefined
    deleted,  \* the problems that are gone
    ahead

authoring == <<sheet, adding, kept, deleted, ahead>>

InitAuthoring ==
    /\ sheet = Undefined /\ adding = TRUE /\ kept = Undefined
    /\ deleted = {} /\ ahead \in {0, 1}

-----------------------------------------------------------------------------
(* The form, the request and the document.                                 *)

EmptySheet ==
    [title |-> "", durationMinutes |-> 60, startTime |-> 0, endTime |-> 0,
     allowedLanguages |-> TRUE, problems |-> <<>>]

validateAssessmentForm(form) ==
    /\ form.title \notin {"", " "} /\ form.durationMinutes > 0
    /\ form.startTime # 0 /\ form.endTime # 0 /\ form.startTime < form.endTime
    /\ form.allowedLanguages
    /\ form.problems # <<>> /\ \A p \in Range(form.problems) : p.maxScore > 0

\* What validateAssessmentPayload wants of the rest; the schema wants no more.
validateRest(payload) ==
    /\ payload.title # "" /\ payload.durationMinutes > 0
    /\ payload.startTime # 0 /\ payload.endTime # 0 /\ payload.startTime < payload.endTime

storesAssessment(payload) == validateRest(payload) /\ validateAssessmentPayload(payload.problems)

\* createAssessment, and updateAssessment of what is in the form.
createAssessment(payload) == [payload EXCEPT !.problems = Stored(@)]

formatDate(instant) == instant + ahead

\* The edit page: the title of a problem that is gone is read of null, and nothing shows.
opens(doc) == \A p \in Range(doc.problems) : p.problemId \notin deleted

fetchAssessment(doc) ==
    [doc EXCEPT !.startTime = formatDate(@), !.endTime = formatDate(@)]

-----------------------------------------------------------------------------
(* The handlers.                                                           *)

\* What is added a second time is another assessment.
openAddAssessment ==
    /\ sheet = Undefined /\ kept = Undefined
    /\ sheet' = EmptySheet /\ adding' = TRUE
    /\ UNCHANGED <<kept, deleted, ahead>>

openEditAssessment ==
    /\ sheet = Undefined /\ kept # Undefined /\ opens(kept)
    /\ formatDate(kept.endTime) <= MaxClock
    /\ sheet' = fetchAssessment(kept) /\ adding' = FALSE
    /\ UNCHANGED <<kept, deleted, ahead>>

edits(form) == sheet' = form /\ UNCHANGED <<adding, kept, deleted, ahead>>

\* handleChange, and the toggles of languages, of which none or some are left.  What may be
\* blank is so when the page to add one opens.
changeField ==
    /\ sheet # Undefined
    /\ \/ \E title \in {" ", "t"} : edits([sheet EXCEPT !.title = title])
       \/ \E minutes \in {0, 60} : edits([sheet EXCEPT !.durationMinutes = minutes])
       \/ \E time \in {1, 2} : edits([sheet EXCEPT !.startTime = time])
       \/ \E time \in {0, 2} : edits([sheet EXCEPT !.endTime = time])
       \/ \E some \in BOOLEAN : edits([sheet EXCEPT !.allowedLanguages = some])

\* The page offers the problems it fetched, and a score of 0 is refused.
addProblemToAssessment ==
    /\ sheet # Undefined
    /\ \E id \in Listed \ deleted :
          /\ \A p \in Range(sheet.problems) : p.problemId # id
          /\ edits([sheet EXCEPT !.problems = Append(@, [problemId |-> id, maxScore |-> 2])])

removeProblem ==
    /\ sheet # Undefined
    /\ \E id \in Listed :
          edits([sheet EXCEPT !.problems = Kept(@, {i \in DOMAIN @ : @[i].problemId # id})])

\* Only the edit page has a field for the score of a problem that is listed.
updateProblemScore ==
    /\ sheet # Undefined /\ ~adding
    /\ \E i \in DOMAIN sheet.problems, score \in {0, 2} :
          edits([sheet EXCEPT !.problems[i].maxScore = score])

\* POST or PUT, with the answer: the page is left when the assessment is stored.
saveAssessment ==
    /\ sheet # Undefined /\ validateAssessmentForm(sheet)
    /\ IF storesAssessment(sheet)
       THEN kept' = createAssessment(sheet) /\ sheet' = Undefined
       ELSE UNCHANGED <<sheet, kept>>
    /\ UNCHANGED <<adding, deleted, ahead>>

cancelAssessment ==
    /\ sheet # Undefined
    /\ sheet' = Undefined
    /\ UNCHANGED <<adding, kept, deleted, ahead>>

\* Nobody asks which assessments a problem is in.
deleteProblem ==
    /\ \E id \in Listed \ deleted : deleted' = deleted \cup {id}
    /\ UNCHANGED <<sheet, adding, kept, ahead>>

AuthoringNext ==
    \/ openAddAssessment \/ openEditAssessment
    \/ changeField \/ addProblemToAssessment \/ removeProblem \/ updateProblemScore
    \/ saveAssessment \/ cancelAssessment \/ deleteProblem

-----------------------------------------------------------------------------

\* What a page can be filled in with and lets pass, the API stores: its own list of checks
\* is shorter, and a problem listed twice, which only it refuses, cannot be put together
\* (validateAssessmentForm beside validateAssessmentPayload).
SheetIsStored ==
    sheet # Undefined /\ validateAssessmentForm(sheet) => storesAssessment(sheet)

\* A stored assessment that is opened and saved as it is passes both lists of checks and
\* stays what it was, up to the two clocks: its times move together, and by as much as the
\* author's clock is ahead, once for every time it is saved (formatDate, updateAssessment).
SheetPreserves ==
    kept # Undefined /\ opens(kept) =>
        LET again == fetchAssessment(kept)
        IN  /\ validateAssessmentForm(again) /\ storesAssessment(again)
            /\ createAssessment(again) =
                  [kept EXCEPT !.startTime = @ + ahead, !.endTime = @ + ahead]
=============================================================================
