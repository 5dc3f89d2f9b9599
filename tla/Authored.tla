------------------------------ MODULE Authored ------------------------------
(***************************************************************************)
(* The forms an author may have filled in for a problem, the questions     *)
(* that one user enters and another one comes upon, and, step by step, the *)
(* pages for an assessment: that the pages and the API decide alike, and   *)
(* that what is opened and saved as it is stays what it was.               *)
(***************************************************************************)
EXTENDS AssessmentEditor, ProblemEditor, QuestionBank

VARIABLES
    form,       \* what stands in the fields of a problem's page
    certifies,  \* the judge's answer on the reference solution
    asked       \* a question, its author, who may see it, and another user

authored == <<form, certifies, asked>>

-----------------------------------------------------------------------------

\* A string among the JSON values, as far as anybody looks into it.
IsValue(v) == v[1] = "string" => v = String(v[2])

IsField(text) ==
    /\ text = <<text[1], text[2]>> /\ text[1] \in {"json", "raw"}
    /\ text[1] = "json" => IsValue(text[2])

IsForm(f) ==
    /\ DOMAIN f = {"title", "functionName", "parameters", "returnType", "compareConfig",
                   "testCases", "referenceSolution"}
    /\ f.parameters \in Seq([name : STRING, type : Seq(Generic \cup Scalar)])
    /\ f.returnType \in Seq(Generic \cup Scalar)
    /\ f.testCases \in Seq(Range(f.testCases))
    /\ \A t \in Range(f.testCases) :
          /\ {"inputs", "expected", "isSample"} \subseteq DOMAIN t /\ t.isSample \in BOOLEAN
          /\ IsField(t.inputs) /\ IsField(t.expected)

Users == [id : STRING, role : Privileged \cup {"faculty"}, collegeId : STRING]

Questions ==
    [entry : [title : STRING, difficulty : STRING, tags : Seq(STRING),
              marks : Int, timeLimitMs : Int, memoryLimitMb : Int],
     author : Users, visibility : {"Public", "College"}, user : Users]

InitAuthored == IsForm(form) /\ certifies \in BOOLEAN /\ asked \in Questions

AuthoredSpec ==
    InitAuthored /\ InitAuthoring
      /\ [][AuthoringNext /\ UNCHANGED authored]_<<authored, authoring>>

-----------------------------------------------------------------------------

\* The pages and the API decide alike, although each has its own list of checks: an
\* assessment that its page lets pass is stored (SheetIsStored), a problem the report
\* certifies is stored when it is sent, with a sample for the students, and one that
\* would be stored is certified.  Only a result of null is certified (for a void
\* function) and refused (validateProblemPayload).
CertifiedIsStored ==
    LET sent == payloadOf(form)
    IN  /\ SheetIsStored
        /\ formAccepts(form) /\ (\A t \in Range(sent.testCases) : t.expected # Null) =>
              /\ handleValidate(form, certifies) <=> accepted(sent, certifies)
              /\ accepted(sent, certifies) =>
                    sanitizeProblemForStudent(createProblem(sent)).testCases # <<>>

\* A stored problem that is opened in EditProblemPage and saved as it is, with its
\* solution typed in again, is accepted and stays what it was, unless the result of a
\* test is a string that reads as JSON: the form shows it without its quotes.  The same
\* goes for an assessment, but for its times (SheetPreserves), and for a question, when
\* no number in it is 0 (QuestionPreserves).
EditPreserves ==
    LET sent    == payloadOf(form)
        problem == createProblem(sent)
        again   == [fetchProblem(problem) EXCEPT !.referenceSolution = sent.referenceSolution]
    IN  /\ SheetPreserves
        /\ QuestionPreserves(asked.entry, asked.author, asked.visibility, asked.user)
        /\ /\ formAccepts(form) /\ accepted(sent, certifies)
           /\ \A t \in Range(problem.testCases) : t.expected # String("5")
           => /\ handleValidate(again, certifies)
              /\ createProblem(payloadOf(again)) = problem
=============================================================================
