--------------------------- MODULE ProblemEditor ---------------------------
(***************************************************************************)
(* The pages AddProblemPage.jsx and EditProblemPage.jsx in one browser: an *)
(* author edits a form, has it validated and saves it, while the answer to *)
(* a validation may be on its way.  The rows of a template are objects the *)
(* form shares with PROBLEM_TEMPLATES: a row's field `at' says which one   *)
(* it is, if it is one.  A field is edited to one of a few values.         *)
(***************************************************************************)
EXTENDS ProblemAuthoring

CONSTANTS
    None,
    MaxRows,    \* of parameters and tests together
    Offered     \* the templates an author picks from

VARIABLES
    page,          \* "closed" or "open"
    draft,         \* formData
    isValidated,
    checking,      \* the request to /preview/validate that is on its way, or None
    certified,     \* history: the report behind a TRUE isValidated, or None
    stored,        \* the problem in MongoDB, or None
    templates      \* PROBLEM_TEMPLATES

editor == <<page, draft, isValidated, checking, certified, stored, templates>>
saved == <<page, stored>>

NoRow == [name |-> "", type |-> <<>>, at |-> None]
NoTest(isSample) ==
    [inputs |-> stringify(List(<<>>)), expected |-> <<"raw", "">>, isSample |-> isSample, at |-> None]

EmptyForm ==
    [title |-> "", functionName |-> "", parameters |-> <<NoRow>>, returnType |-> <<>>,
     compareConfig |-> [mode |-> "EXACT", floatTolerance |-> 0],
     testCases |-> <<NoTest(TRUE)>>, referenceSolution |-> ""]

\* Each has one sample and a solution in JavaScript.
PROBLEM_TEMPLATES ==
    LET numbers == List(<<Number, Number>>)
        rows == List(<<numbers, numbers>>)
        template(id, types, returnType, inputs, expected) ==
            [functionName |-> "f", returnType |-> returnType, referenceSolution |-> "s",
             parameters |-> [i \in DOMAIN types |->
                [name |-> <<"x", "y">>[i], type |-> types[i], at |-> <<id, i>>]],
             testCases |-> <<[inputs |-> stringify(List(inputs)), isSample |-> TRUE,
                              expected |-> stringify(expected), at |-> <<id, 1>>]>>]
        one(kind, of) == <<<<kind, of>>>>
    IN  [empty |-> template("empty", <<<<"number">>>>, <<"number">>, <<Number>>, Number),
         array |-> template("array", <<<<"array", "number">>, <<"number">>>>,
                            <<"array", "number">>, <<numbers, Number>>, numbers),
         string |-> template("string", <<<<"string">>>>, <<"string">>,
                             <<String("word")>>, String("word")),
         matrix |-> template("matrix", one("matrix", "number"), <<"void">>, <<rows>>, rows),
         linkedlist |-> template("linkedlist", one("linkedlist", "number"),
                                 <<"linkedlist", "number">>, <<numbers>>, numbers),
         tree |-> template("tree", one("tree", "number"), <<"number">>,
                           <<List(<<Number, Null>>)>>, Number),
         graph |-> template("graph", one("graph", "number"), <<"graph", "number">>,
                            <<rows>>, rows)]

\* What buildProblemPayload makes of the form.
Typed(f) == [f EXCEPT !.parameters =
                [i \in DOMAIN @ |-> [name |-> @[i].name, type |-> @[i].type]]]
Payload == payloadOf(Typed(draft))
Accepts == formAccepts(Typed(draft))

Fresh(rows) == [i \in DOMAIN rows |-> Spread([at |-> None], rows[i])]

InitEditor ==
    /\ page = "closed" /\ draft = EmptyForm /\ isValidated = FALSE
    /\ checking = None /\ certified = None /\ stored = None
    /\ templates = [id \in Offered |-> PROBLEM_TEMPLATES[id]]

Remember == certified' = IF isValidated' THEN certified ELSE None

\* setFormData, setIsValidated(false)
edit(f) ==
    /\ page # "closed"
    /\ draft' = f /\ isValidated' = FALSE
    /\ checking' = IF checking = None THEN None ELSE [checking EXCEPT !.edited = TRUE]
    /\ Remember /\ UNCHANGED saved

\* Defect: the certificate of the form before the edit stays.
editSilently(f) ==
    /\ page # "closed"
    /\ draft' = f
    /\ checking' = IF checking = None THEN None ELSE [checking EXCEPT !.edited = TRUE]
    /\ UNCHANGED <<saved, isValidated>> /\ Remember

handleChange ==
    /\ edit([draft EXCEPT !.title = "t", !.referenceSolution = "s"])
    /\ UNCHANGED templates

handleCompareConfigChange ==
    /\ edit([draft EXCEPT !.compareConfig.mode = "STRUCTURAL"])
    /\ UNCHANGED templates

\* next[index][name] = value writes into the row itself.
Shared(field, row, new) ==
    templates' = IF row.at = None THEN templates
                 ELSE [templates EXCEPT ![row.at[1]][field][row.at[2]] = new]

handleParamChange ==
    \E i \in DOMAIN draft.parameters, type \in {<<>>, <<"number">>} :
        LET row == draft.parameters[i]
            new == [row EXCEPT !.name = "x", !.type = type]
        IN  /\ edit([draft EXCEPT !.parameters[i] = new])
            /\ Shared("parameters", row, new)

handleTestCaseChange ==
    \E i \in DOMAIN draft.testCases, expected \in {<<"raw", "">>, stringify(Number)} :
        LET row == draft.testCases[i]
            new == [row EXCEPT !.inputs = stringify(List(<<Number>>)), !.expected = expected]
        IN  /\ edit([draft EXCEPT !.testCases[i] = new])
            /\ Shared("testCases", row, new)

addParameter ==
    /\ Len(draft.parameters) + Len(draft.testCases) < MaxRows
    /\ edit([draft EXCEPT !.parameters = Append(@, NoRow)])
    /\ UNCHANGED templates

removeParameter ==
    /\ Len(draft.parameters) > 1
    /\ \E i \in DOMAIN draft.parameters :
          edit([draft EXCEPT !.parameters = RemoveAt(@, i)])
    /\ UNCHANGED templates

addTestCase ==
    /\ Len(draft.parameters) + Len(draft.testCases) < MaxRows
    /\ edit([draft EXCEPT !.testCases = Append(@, NoTest(Len(@) < 2))])
    /\ UNCHANGED templates

\* Defect: the form stays certified when a test goes.
removeTestCaseSilently ==
    /\ Len(draft.testCases) > 1
    /\ \E i \in DOMAIN draft.testCases :
          editSilently([draft EXCEPT !.testCases = RemoveAt(@, i)])
    /\ UNCHANGED templates

removeTestCase ==
    /\ Len(draft.testCases) > 1
    /\ \E i \in DOMAIN draft.testCases :
          edit([draft EXCEPT !.testCases = RemoveAt(@, i)])
    /\ UNCHANGED templates

handleTemplateSelect ==
    /\ \E id \in Offered : edit(Spread(templates[id], draft))
    /\ UNCHANGED templates

-----------------------------------------------------------------------------

\* The state of a new page, and of one that is left.
fresh == draft' = EmptyForm /\ isValidated' = FALSE /\ checking' = None /\ certified' = None

openAdd ==
    /\ page = "closed"
    /\ page' = "open" /\ fresh
    /\ UNCHANGED <<stored, templates>>

\* "Initially valid since it's already in the DB"
openEdit ==
    /\ page = "closed" /\ stored # None
    /\ page' = "open"
    /\ draft' = [fetchProblem(stored) EXCEPT !.parameters = Fresh(@), !.testCases = Fresh(@)]
    /\ isValidated' = TRUE /\ checking' = None /\ certified' = None
    /\ UNCHANGED <<stored, templates>>

leave ==
    /\ page # "closed"
    /\ page' = "closed" /\ fresh
    /\ UNCHANGED <<stored, templates>>

requestReport ==
    /\ page # "closed" /\ checking = None
    /\ isValidated' = FALSE
    /\ checking' = IF Accepts THEN [payload |-> Payload, edited |-> FALSE] ELSE None
    /\ Remember /\ UNCHANGED <<saved, draft, templates>>

\* The report comes back, whatever the form looks like by now, or the call fails.
showReport ==
    /\ page # "closed" /\ checking # None
    /\ checking' = None
    /\ \/ \E passes \in BOOLEAN :
             IF validateProblemDefinition(checking.payload, passes)
             THEN isValidated' = TRUE /\ certified' = checking
             ELSE UNCHANGED <<isValidated, certified>>
       \/ UNCHANGED <<isValidated, certified>>
    /\ UNCHANGED <<saved, draft, templates>>

\* POST or PUT, and the answer: the page is left when the problem is stored.
handleSubmit ==
    /\ page # "closed" /\ isValidated /\ checking = None /\ Accepts
    /\ \E passes \in BOOLEAN :
          IF accepted(Payload, passes)
          THEN stored' = createProblem(Payload) /\ page' = "closed" /\ fresh
          ELSE UNCHANGED <<saved, draft, isValidated, checking, certified>>
    /\ UNCHANGED templates

EditorNext ==
    \/ openAdd \/ openEdit \/ leave
    \/ handleChange \/ handleCompareConfigChange
    \/ handleParamChange \/ addParameter \/ removeParameter
    \/ handleTestCaseChange \/ addTestCase \/ removeTestCase
    \/ handleTemplateSelect
    \/ requestReport \/ showReport \/ handleSubmit

EditorSpec == InitEditor /\ [][EditorNext]_editor

-----------------------------------------------------------------------------

\* What a page sends to be stored is what the judge has just certified, although each
\* of nine handlers has to withdraw the certificate on its own and EditProblemPage
\* declares what it opens valid: only an edit made while the report was on its way is
\* certified along with it (showReport).
OnlyCertifiedIsSent ==
    [][handleSubmit => certified # None /\ (certified.edited \/ Payload = certified.payload)]_editor
=============================================================================
