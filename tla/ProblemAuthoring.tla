-------------------------- MODULE ProblemAuthoring --------------------------
(***************************************************************************)
(* How a problem gets from the author's form (AddProblemPage.jsx,          *)
(* EditProblemPage.jsx, problemForm.js) through the validators of the API  *)
(* (contracts/problem.schema.json, problems.service.js,                    *)
(* preview.service.js, typeValidator.mjs) into MongoDB and back.           *)
(*                                                                         *)
(* A type is the sequence of its kinds, outermost first: array<string> is  *)
(* <<"array", "string">>.  A value is tagged with its JSON kind; there is  *)
(* one number, which is written 5.  The text of a field is <<"json", v>>   *)
(* when JSON.parse makes v of it, else <<"raw", s>>.  `title' stands for   *)
(* the title and the description.  Difficulty and languages are picked     *)
(* from lists; tags, the premium mark and messages are left out.           *)
(***************************************************************************)
EXTENDS Filtered, SequencesExt

CONSTANT validateData(_, _)   \* does a value fit a type? (see TypeValidator)

Number == <<"number">>
Null == <<"null">>
String(s) == <<"string", s>>
List(items) == <<"array", items>>

stringify(v) == <<"json", v>>

\* What a field holds when a string is put there without quotes.
AsText(s) == IF s = "5" THEN stringify(Number) ELSE <<"raw", s>>

-----------------------------------------------------------------------------
(* Types.  The browser and the API have a copy each of isValidType.        *)

Generic == {"array", "matrix", "tree", "linkedlist", "graph"}
Scalar == {"number", "string", "boolean", "void"}

isValidType(t) ==
    t # <<>> /\ Range(Front(t)) \subseteq Generic /\ Last(t) \in Scalar

Identifier(name) == name \in {"f", "x", "y"}

-----------------------------------------------------------------------------
(* The form.                                                               *)

\* Rows without a name and a type are dropped.
normalizeParameters(rows) ==
    Kept(rows, {i \in DOMAIN rows : rows[i].name # "" \/ rows[i].type # <<>>})

normalizeExpectedValue(text) == IF text[1] = "json" THEN text[2] ELSE String(text[2])

normalizeTestCases(tests) ==
    [i \in DOMAIN tests |->
        [inputs |-> IF tests[i].inputs[1] = "json" THEN tests[i].inputs[2] ELSE Null,
         expected |-> normalizeExpectedValue(tests[i].expected),
         isSample |-> tests[i].isSample]]

payloadOf(form) ==
    [title |-> form.title, functionName |-> form.functionName,
     parameters |-> normalizeParameters(form.parameters), returnType |-> form.returnType,
     compareConfig |-> form.compareConfig, testCases |-> normalizeTestCases(form.testCases),
     referenceSolution |-> form.referenceSolution]

\* Defect: no sample is asked for.
formAcceptsNoSample(form) ==
    LET p == payloadOf(form)
    IN  /\ p.title # "" /\ Identifier(p.functionName) /\ isValidType(p.returnType)
        /\ p.referenceSolution # "" /\ p.parameters # <<>>
        /\ \A q \in Range(p.parameters) : Identifier(q.name) /\ isValidType(q.type)
        /\ p.testCases # <<>>
        /\ \A t \in Range(p.testCases) :
              t.inputs[1] = "array" /\ Len(t.inputs[2]) = Len(p.parameters)

\* buildProblemPayload finds no errors.
formAccepts(form) ==
    LET p == payloadOf(form)
    IN  /\ p.title # "" /\ Identifier(p.functionName) /\ isValidType(p.returnType)
        /\ p.referenceSolution # "" /\ p.parameters # <<>>
        /\ \A q \in Range(p.parameters) : Identifier(q.name) /\ isValidType(q.type)
        /\ p.testCases # <<>>
        /\ \A t \in Range(p.testCases) :
              t.inputs[1] = "array" /\ Len(t.inputs[2]) = Len(p.parameters)
        /\ \E t \in Range(p.testCases) : t.isSample

\* Defect: the result is shown as it prints, a list without its brackets.
fetchProblemPrinted(problem) ==
    [title |-> problem.title, functionName |-> problem.functionName,
     parameters |-> problem.parameters, returnType |-> problem.returnType,
     compareConfig |-> problem.compareConfig, referenceSolution |-> "",
     testCases |-> [i \in DOMAIN problem.testCases |->
        LET t == problem.testCases[i]
        IN  [inputs |-> stringify(t.inputs), isSample |-> t.isSample,
             expected |-> CASE t.expected[1] = "string" -> AsText(t.expected[2])
                            [] t.expected[1] = "array" -> <<"raw", "word">>
                            [] OTHER -> stringify(t.expected)]]]

\* EditProblemPage makes a form of a stored problem, which has no solution.
fetchProblem(problem) ==
    [title |-> problem.title, functionName |-> problem.functionName,
     parameters |-> problem.parameters, returnType |-> problem.returnType,
     compareConfig |-> problem.compareConfig, referenceSolution |-> "",
     testCases |-> [i \in DOMAIN problem.testCases |->
        LET t == problem.testCases[i]
        IN  [inputs |-> stringify(t.inputs), isSample |-> t.isSample,
             expected |-> IF t.expected[1] = "string" THEN AsText(t.expected[2])
                                                     ELSE stringify(t.expected)]]]

-----------------------------------------------------------------------------
(* The API.                                                                *)

\* problem.schema.json, before the service and once more inside it.
schemaValid(p) ==
    /\ p.title # "" /\ Identifier(p.functionName) /\ p.returnType # <<>>
    /\ p.parameters # <<>> /\ p.testCases # <<>>
    /\ \A q \in Range(p.parameters) : Identifier(q.name) /\ q.type # <<>>
    /\ p.compareConfig.mode \in {"EXACT", "STRUCTURAL"}
    /\ p.compareConfig.floatTolerance >= 0
    /\ \A t \in Range(p.testCases) : t.inputs[1] = "array"

normalizeProblemPayload(p) ==
    [p EXCEPT !.testCases = [i \in DOMAIN p.testCases |->
        [inputs |-> p.testCases[i].inputs, expected |-> p.testCases[i].expected,
         isSample |-> p.testCases[i].isSample, isHidden |-> ~p.testCases[i].isSample]]]

validateProblemPayload(p) ==
    /\ p.title # "" /\ Identifier(p.functionName) /\ p.returnType # <<>>
    /\ p.parameters # <<>> /\ p.testCases # <<>>
    /\ \A q \in Range(p.parameters) : Identifier(q.name) /\ q.type # <<>>
    /\ p.compareConfig.mode \in {"EXACT", "STRUCTURAL"}
    /\ p.compareConfig.floatTolerance >= 0
    /\ \A t \in Range(p.testCases) :
          /\ t.inputs[1] = "array" /\ Len(t.inputs[2]) = Len(p.parameters)
          /\ t.expected # Null
    /\ \E t \in Range(p.testCases) : t.isSample

\* Wrapper generation fails for no language it is asked for.
typeValidation(p) ==
    /\ isValidType(p.returnType)
    /\ \A q \in Range(p.parameters) : isValidType(q.type)
    /\ \A t \in Range(p.testCases) :
          /\ Len(t.inputs[2]) = Len(p.parameters)
          /\ \A j \in DOMAIN p.parameters : validateData(t.inputs[2][j], p.parameters[j].type)
          /\ validateData(t.expected, p.returnType)

\* `passes' is the judge's answer on the reference solution.
validateProblemDefinition(p, passes) ==
    schemaValid(p) /\ typeValidation(p) /\ p.referenceSolution # "" /\ passes

\* The middleware and the service, for creating and for updating.
accepted(payload, passes) ==
    LET p == normalizeProblemPayload(payload)
    IN  schemaValid(payload) /\ validateProblemPayload(p) /\ validateProblemDefinition(p, passes)

\* The Mongoose schema has no field for the reference solution.
createProblem(payload) ==
    LET p == normalizeProblemPayload(payload)
    IN  [f \in DOMAIN p \ {"referenceSolution"} |-> p[f]]

\* The page's Validate button: the form's own errors, then the report.
handleValidate(form, passes) ==
    formAccepts(form) /\ validateProblemDefinition(payloadOf(form), passes)

\* What a student gets of a stored problem.
sanitizeProblemForStudent(problem) ==
    [problem EXCEPT !.testCases = Kept(@, {i \in DOMAIN @ : @[i].isSample})]
=============================================================================
