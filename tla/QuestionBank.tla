---------------------------- MODULE QuestionBank ----------------------------
(***************************************************************************)
(* The questions that assessments may be made of: what AddQuestionPage.jsx *)
(* and EditQuestionPage.jsx send and read back, and whom                   *)
(* questions.service.js lets list, open, save, delete and pick which ones. *)
(*                                                                         *)
(* A college is the text the service compares: "null" is that of a user    *)
(* without one, whose token says null, and "undefined" that of a question. *)
(* The tags of a form are the pieces of its text between the commas, and a *)
(* number that is not filled in is 0, as Number of an empty text is.       *)
(***************************************************************************)
EXTENDS Filtered, SequencesExt

Privileged == {"admin", "superadmin"}

trimTag(piece) == IF piece = " a" THEN "a" ELSE piece
parsed(pieces) ==
    Kept([i \in DOMAIN pieces |-> trimTag(pieces[i])], {i \in DOMAIN pieces : trimTag(pieces[i]) # ""})

-----------------------------------------------------------------------------
(* The two pages.                                                          *)

questionPayload(entry) == [entry EXCEPT !.tags = parsed(@)]

\* `q.marks || 100', and alike.
Or(number, default) == IF number = 0 THEN default ELSE number

\* The join of tags is what splitting takes apart again, unless one has a comma in it.
fetchQuestion(q) ==
    [title |-> q.title, difficulty |-> q.difficulty, tags |-> q.tags,
     marks |-> Or(q.marks, 100), timeLimitMs |-> Or(q.timeLimitMs, 2000),
     memoryLimitMb |-> Or(q.memoryLimitMb, 256)]

-----------------------------------------------------------------------------
(* The service.                                                            *)

createsQuestion(payload) == payload.title # ""

createQuestion(payload, user) ==
    LET own == [author |-> user.id, visibility |-> "College",
                collegeId |-> IF user.collegeId = "null" THEN "undefined" ELSE user.collegeId]
    IN  Spread(own, payload)

Owns(q, user) == q.author = user.id
Colleague(q, user) == user.role = "faculty" /\ q.collegeId = user.collegeId

getQuestionById(q, user) ==
    q.visibility = "Public" \/ user.role \in Privileged \/ Colleague(q, user) \/ Owns(q, user)

mayUpdate(q, user) == Owns(q, user) \/ user.role \in Privileged \/ Colleague(q, user)
mayDelete(q, user) == Owns(q, user) \/ user.role \in Privileged

updateQuestion(q, payload) == Spread(payload, q)

\* Staff list the questions of every college, by tag if they like.
listQuestions(bank, tags) ==
    IF tags = {} THEN bank ELSE {q \in bank : ToSet(q.tags) \cap tags # {}}

Scoped(bank, user) ==
    IF user.role = "faculty" /\ user.collegeId # "null"
    THEN {q \in bank : q.collegeId = user.collegeId} ELSE bank

listTags(bank, user) == UNION {ToSet(q.tags) : q \in Scoped(bank, user)}

\* Any so many of one difficulty.  A pipeline compares an id with the text of the token and
\* finds nothing, where find and distinct would have converted it.
sample(bank, difficulty, n) ==
    LET match == {q \in bank : q.difficulty = difficulty}
        size  == IF n < Cardinality(match) THEN n ELSE Cardinality(match)
    IN  {picked \in SUBSET match : Cardinality(picked) = size}

selectQuestions(bank, user, asked, tags) ==
    LET base == IF user.role = "faculty" /\ user.collegeId # "null" THEN {}
                ELSE listQuestions(bank, tags)
    IN  {easy \cup medium \cup hard :
            easy \in sample(base, "Easy", asked.easy),
            medium \in sample(base, "Medium", asked.medium),
            hard \in sample(base, "Hard", asked.hard)}

-----------------------------------------------------------------------------

\* A question that one user enters and another one comes upon.  Whoever may delete it may
\* save it, and whoever may save it may open it; who opens it and saves it as it is leaves
\* it as it was, but for a number of 0.  A tag that is offered leads to a question, and one
\* with a college picks only what can be opened (getQuestionById beside updateQuestion,
\* deleteQuestion, listTags and selectQuestions).
QuestionPreserves(entry, author, visibility, user) ==
    LET payload == questionPayload(entry)
        q       == [createQuestion(payload, author) EXCEPT !.visibility = visibility]
        again   == questionPayload(fetchQuestion(q))
    IN  createsQuestion(payload) =>
            /\ getQuestionById(q, author) /\ mayDelete(q, author)
            /\ mayDelete(q, user) => mayUpdate(q, user)
            /\ mayUpdate(q, user) => getQuestionById(q, user)
            /\ createsQuestion(again)
            /\ 0 \notin {q.marks, q.timeLimitMs, q.memoryLimitMb} => updateQuestion(q, again) = q
            /\ \A tag \in listTags({q}, user) : q \in listQuestions({q}, {tag})
            /\ user.collegeId # "null" =>
                  \A picked \in selectQuestions({q}, user, [easy |-> 1, medium |-> 1, hard |-> 0], {}) :
                      \A p \in picked : getQuestionById(p, user)
=============================================================================
