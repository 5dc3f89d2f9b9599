# A TLA+ model of the assessment microservice

The repository is a platform for programming assessments. A Node.js API
(`src/assessment-api`) keeps users, assessments, attempts and submissions in
MongoDB; a Go service (`src/judge-service-go`) takes submissions from RabbitMQ,
runs them in pre-warmed Docker containers and writes the verdicts back; a React
frontend (`src/frontend`) is the user's side of both. This directory holds a
model of the parts whose behaviour depends on the order in which independent
processes act, what TLC checks of them, and what TLAPS proves of them.

## The system's parts

| Part | Source | State it keeps | Operations | Talks to |
|---|---|---|---|---|
| Container pool | `judge-service-go/pkg/pool/pool.go` | a buffered channel of idle containers per language (`availChans`), `inUse`, `targets`, `limits`, `globalCap` | `WarmUp`, `Acquire`, `Release`, `Discard`, `Shutdown`, and the loops of `StartMonitor`, `StartReconciler`, `StartAutoscaler` | the Docker daemon; workers and HTTP handlers |
| Scale decision | `pkg/pool/scaledecision.go` | none (pure) | `decideScale` | the autoscaler |
| Orphan GC | `main.go` `StartPeriodicOrphanGC` | none | removes stopped containers of the judge | Docker, beside the pool |
| Submission worker | `main.go` `processSubmission`, `processAndStoreResults` | the delivery in hand | fetch, acquire, retry, execute, store, acknowledge | RabbitMQ, MongoDB, Redis, the pool |
| Broker topology | `main.go` 1590-1640 | `submission_queue`, retry queue with a TTL, dead-letter exchange and queue | declare, deliver, acknowledge, reject | the API and the workers |
| Submission API | `services/submissions.service.js`, `evaluation.service.js`, `cache.service.js` | `submissions` documents, Redis entries | submit, read, rejudge, publish | RabbitMQ, MongoDB, Redis |
| Runners and verdict | `central_runner.go`, `stdin_runner.go`, `pkg/models/result.go` | a result under construction | run the batch, match results to tests, derive the verdict | executor, comparator |
| Executor | `pkg/executor/executor.go` | the memory limit and the processes of a container | run, limit, clean up | Docker exec |
| Workspaces | `pkg/workspace` | directories on the host | create, remove, sweep by age | the worker |
| Assessment attempts | `services/assessments.service.js` | `AssessmentAttempt` documents | start, submit, time out, grace time, draft, challenge, score, analytics | the submission API |
| Workspace page | `frontend/src/pages/AssessmentWorkspace.jsx` | React state, refs and timers, `localStorage` | edit, save, count down, resync, finish, submit, poll | the attempts, the submission API |
| Result pages | `AssessmentResultsPage.jsx`, `AssessmentResultPage.jsx` | the rounds of calls under way, what is shown, an appeal in hand | refresh, lock, rejudge, grant minutes, decide an appeal; cards, leaders, export, breakdown | the attempts |
| Quota, billing, seats, colleges | `quota.service.js`, `billing.service.js`, `auth.service.js`, `college.service.js` | counters, plans, Stripe customers, usage events, users | check and count, upgrade, register, sign up | Redis, Stripe, MongoDB |
| Problems and their pages | `problems.service.js`, `preview.service.js`, `AddProblemPage.jsx`, `EditProblemPage.jsx`, `problemForm.js` | `problems` documents; the form, its certificate, the templates | edit, have a report made, save, open again | the judge (reference solution), MongoDB |
| Partner integration | `arventiq.service.js` | none | translate problems, requests and verdicts | the submission API |
| Partner's requests | `middleware/arventiq.mjs`, `codeAssessShim.service.js` | one account, a promise of it per process | synchronise a question, submit, read a verdict, run | the submission API, the judge |
| Restore and settings | `system.service.js`, `SystemDashboardPage.jsx` | whole collections | download, restore | MongoDB |
| Signing in | `App.jsx`, `api.js`, the routes | the cookie, `localStorage`, the state of each tab | sign in and out, be refused, reload | every call of the API |
| Upload of students | `UserManagementPage.jsx`, `bulkRegister` | rows on the page | read a sheet, check, send, save the credentials | accounts and seats |
| Assessment form | `AddAssessmentPage.jsx`, `EditAssessmentPage.jsx` | the form | edit, save, open again | the attempts' assessment |
| Way into an assessment | `AssessmentListPage.jsx`, `AssessmentDetailsPage.jsx` | the page, listeners on the document | offer, ask for consent and fullscreen, start | the attempts |
| Practice page | `ProblemPage.jsx`, `SubmissionOutput.jsx` | the console, one timer, past submissions | run, submit, poll, show again | the submission API |
| Questions and lists | `questions.service.js`, `QuestionBankPage.jsx`, `ProblemListPage.jsx` | `questions` documents; a query and its answer | create, edit, choose; search, filter, page | MongoDB |
| The rest | comparator, language adapters, wrapper generator, controllers and repositories, the other pages, scripts | - | pure functions of data, wiring | - |

`PROJECT.json` lists every component with its status.

### What is hard in it

* The pool's goroutines do not hold the mutex while they talk to Docker, and
  channel operations happen outside it. A container that one of them has taken
  out of a channel is in no place the code counts.
* A submission exists in MongoDB, in the broker, in a worker's memory and in
  Redis; nothing makes two writes atomic. A crash or a lost connection between
  two of them is repaired only by redelivery.
* Rejudges, reads and workers act on one submission at a time.
* The handlers of the API read, `await` and write without a transaction, so
  two requests for one attempt, one college or one customer record interleave.
* The workspace page runs five timers and as many kinds of calls over one React
  state; a callback may hold a copy of what has changed since.
* One outcome is told in several places - runner, stored status, container,
  partner, student; score, analytics, cards, export - by code written separately.
* Who is signed in is kept in three places, which calls are offered in two.
* A page sends calls that nothing orders - lists, boards, consoles - and shows
  the answers as they come.
* A problem passes four lists of checks, in the browser and in the API, and two
  conversions between values and text, before it is what the author meant.

The full list, each hazard at its line, is under `hazards` in `PROJECT.json`.

### What makes each part correct

* Pool: one owner per container; no container lost; none removed under a
  running submission; targets within the limits; a language that lost its
  containers gets one again; a container that stopped while idle is found.
* Scale decision: a busier language never gets a smaller target; one step at a
  time; nothing without traffic.
* Pipeline: a submission is Pending only while something will still judge it;
  every one is judged; it comes to one end, a result or giving up, and is charged
  once for each run it is owed; the cache does not contradict the database; a
  shutdown stops consuming.
* Attempts: what a request does to an attempt is right for the attempt it read
  (no draft after the end, closed once, grace time adds up); the clock starts
  once; the score ends where the verdicts are.
* Workspace page: the server ends up with the student's work; a copy is not
  thrown away early; the end of the time ends the attempt; one submission at a
  time, and its verdict shows.
* Quota, billing, seats: overselling is bounded; a failing request harms no
  other one; who paid is served; no student takes another's share.
* Verdicts and figures: every place tells the same story.
* Problems: what was certified is stored, what is stored survives being edited,
  and nothing else than what was certified is sent.
* Pages: once the calls are answered a page shows what is stored or was asked
  for last; nobody acts in another's name; no clock runs behind a page that
  still offers the start.
* Restore: what is brought back is what was saved, however restores cross, and
  one that fails can be repeated.

## Modules

| Module | Role |
|---|---|
| `ScaleDecision` | `decideScale` as an operator |
| `ContainerPool` | the pool, its users, its background goroutines, the GC and Docker |
| `ContainerLease` | what the pool promises its users; `ContainerPool` implements it |
| `SubmissionPipeline` | API, broker, workers and stores |
| `PipelineRuns` | the pipeline with a history of the runs of each submission |
| `AtLeastOnce` | what the pipeline promises; `SubmissionPipeline` implements it |
| `AssessmentAttempt` | the handlers of one attempt, split at their awaits |
| `AttemptPromise` | what each of them may do, given the attempt it read |
| `AssessmentWorkspace` | the page of an attempt in the student's browsers |
| `Tenancy` | colleges: accounts and seats, plans and Stripe, quotas |
| `JudgeResult` | runners, status, discard decision, partner's verdict and what a student sees, as operators |
| `Reports` | scores, analytics, cards, export and breakdown, as operators |
| `ProblemAuthoring` | the checks and conversions between a form and a stored problem, as operators |
| `ProblemEditor` | an author's page: edits, reports, templates, saving |
| `Access` | the roles of every route, and the calls of every page, as operators |
| `Session` | who is signed in, in one browser with several tabs |
| `UserImport` | an upload of students, on the page and in the API, as operators |
| `AssessmentEditor` | the form of an assessment and what is stored of it |
| `QuestionBank` | questions: the form, who may do what, the choice, as operators |
| `Listing` | a list with a search, filters and pages |
| `AssessmentDetails` | a student's way from the list to the start of an attempt |
| `ProblemPage` | the console of the practice page |
| `ResultView` | what a student is shown of a result, as operators |
| `ResultsBoard` | the faculty's view of a running assessment |
| `Partner` | the requests of the partners |
| `Backup` | download and restore |
| `Filtered` | what a filter keeps of a sequence, told by places and not by recursion |
| `TypeValidator` | `validateData`, by recursion over types, for TLC only |
| `Judging` | the inputs of `JudgeResult`, `ResultView` and `Partner` as states, with the properties of the runners and of the doors for partners |
| `Authored` | forms and questions as states next to the page for an assessment, with the properties of what is certified, stored and opened again |
| `MCScaleDecision` | the inputs of `decideScale` as states |
| `MCDecisions` | a small instance of the decisions: `MCScaleDecision`, `Judging`, `Authored`, the inputs of `Reports` with their property, the editors and the partner |
| `MCContainerPool`, `MCSubmissionPipeline`, `MCPipelineRuns`, `MCAssessmentAttempt`, `MCAssessmentWorkspace`, `MCTenancy` | small instances |
| `ContainerPool_proofs`, `SubmissionPipeline_proofs`, `AssessmentAttempt_proofs`, `Tenancy_proofs`, `AssessmentWorkspace_proofs`, `StudentPages_proofs`, `AdminPages_proofs`, `Decisions_proofs` | theorems |

A definition whose comment starts with *Defect* is a wrong version of the one
that follows it, written to see that a property notices; no specification uses
it.

### `ScaleDecision`

`decideScale` takes the limits, the target and the load since the last tick.
A load is whether there was any traffic, the average wait, the number of
time-outs and which of the two cooldowns have elapsed. The host's CPU, memory
and the global cap come in as one Boolean, `headroom`, as they do in the code.
Waits are natural numbers; the code compares floating-point milliseconds and
uses only their order.

### `ContainerPool`

| Variable | Code |
|---|---|
| `avail[l]` | `availChans[l]`, a channel of capacity `MaxSize[l]` |
| `inUse`, `targets` | the maps of the same name |
| `docker[c]` | what the Docker daemon knows of an id: none, running or exited |
| `warming[l]` | containers `WarmUp` still has to create |
| `pc`, `lang`, `held`, `todo`, `langs` | program point and local variables of each goroutine |
| `decided` | the target the autoscaler has computed and not yet stored |

An action is what a goroutine does between two points where another one can
run. `Acquire` is `AcquireStart` (reads the channel under the mutex),
`AcquireReceive` (the receive), `AcquireRegister` (the second critical section)
and `AcquireTimeout`. `Release` is one action, since it holds the mutex
throughout and its send is non-blocking. `Discard` is four. `checkHealth`
draws as many containers as the channel held when it started, each drawn,
inspected, removed or put back in steps of their own. `convergeLang` counts in
one critical section and then creates and pushes, or takes and removes, in a
counted loop; the reconciler and the autoscaler share it. Every Docker call
that can fail has a branch in which it fails. `Exit` is a container that stops
by itself. `OrphanGC` removes a stopped container the pool may still refer to;
that the GC never removes a live one is its filter on the container status.

An id that Docker has removed and no goroutine refers to stands for a new one
when the next container is created, so `Container` bounds how many exist at a
time and not how many are ever created. `LangOf` fixes which language an id
will serve.

Left out: `Shutdown`, `GetStats`, `ExecutionCount`, metrics, the staging
directory of a container, and the pause between a failed create and the next
tick. An autoscaler that cannot read the host's load does nothing, which is a
tick that does not happen.

### `ContainerLease`

Users, a set of offered containers and a lease per user. `ContainerPool` maps a
container to offered while it is idle or in the hands of a goroutine that is not
about to remove it, and to a user's lease while that user is between `Acquire`
and `Release` or `Discard`.

### `SubmissionPipeline`

| Variable | Code |
|---|---|
| `mongo[s]` | `status` of the submission, with the failed verdicts as `Fail` and `Error` |
| `redis[s]` | the entry `submission:<id>` |
| `counted[s]`, `metered[s]` | increments of the problem's counter, documents in `usageevents` |
| `publishing`, `rejudging`, `reading` | local state of API requests between two `await`s |
| `queue`, `retryQueue`, `deadLetters` | the queues, as bags: several consumers, so their order promises nothing |
| `connected`, `stage` | the judge's AMQP connection and process |
| `pc`, `msg`, `owns`, `verdict` | the workers: program point, delivery, whether the broker still counts it as theirs, result |
| `faults` | how many more faults may happen: a bound, not code |

`Submit`, `Publish` and `PublishFail` are `submitSolution`; `RejudgeFind` and
`RejudgeSave` are a rejudge on either side of its `await` (Mongoose writes only
the paths that changed, so a rejudge of a Pending submission writes nothing and
still publishes); `ReadVerdict` and `ReadCache` are `getSubmissionById`.
`Deliver` to `Ack` are the worker, one action per call to a store or the broker.
`Crash` loses the workers' memory and returns what they had not acknowledged;
`ConnectionLost` returns it as well but lets the workers finish, which is how
two workers come to judge one submission. `Signal`, `Stop` and `Start` are the
shutdown and the next start.

The execution is one step, `Execute`, with any outcome of `Outcomes`. The
container is not tracked: `AcquireFail` may always happen, which covers a pool
of any size. The dead-letter route is modelled by the routing key a message
keeps and the key the queue is bound with, as the code declares them.

`PipelineRuns` adds two counters to each step: `ended`, the runs of a submission
that came to an end (the write of a result, or of giving up, was made or tried),
and `redelivered`, the deliveries the broker took back from a crash or a lost
connection. They are history; no action looks at them.

### `AtLeastOnce`

A number of jobs and a Boolean, settled, per submission. A job may be
duplicated; the last one ends only when the submission is settled. The pipeline
maps jobs to `Outstanding`: requests about to publish, messages in both queues
and deliveries that are not acknowledged.

### `AssessmentAttempt` and `AttemptPromise`

| Variable | Code |
|---|---|
| `now` | the clock the handlers read |
| `assessment` | its status, lock, list of problems, start, end and duration |
| `attempt` | the stored document: status, start, grace minutes, score, draft, event count, challenge |
| `verdict[s]` | the stored status of each submission, "none" before it exists |
| `req[r]` | a suspended handler: where it is, its copy of the attempt, the value it has computed |
| `ops` | what clients call in this behaviour: a bound, not code |
| `faults` | database calls that have failed |

A handler reads the attempt (`Opens`), decides on its copy and writes with an
unconditional update. Each `await` ends an action, so `submitAssessment` is
`submitAssessment`, `submitCheck`, the three steps of `recalculateAttemptScore`
and `submitWrite`; between them any other request may run. `Fails` ends a
handler where it is. The draft is one bit that each save flips, enough to see
that a save happened.

`updateAssessment` stores the whole payload, so an edit may move the end, the
start and the duration under attempts that are running; the expiry is computed
anew, from what the assessment says then, by each handler that asks.

`AttemptPromise` says what a request may do to an attempt, given the copy it
read: start it if there was none, work on it if it was active, close it if it was
active and, for the time-out, the minutes of the copy were over, add minutes to
those it saw, challenge a result it saw unchallenged. When nothing came between
the read and the update that is what a student is promised of requests one after
the other. The code does not keep that outright: two requests that read the same
attempt both write. It keeps it relative to what was read (`Promised`), stale or
not: a handler decides on an attempt it did read, its clock is compared once, and
it writes no other field than its own. So every lost minute, second closing or
late draft is the work of a handler whose copy went stale between its read and
its update, and nothing else is needed to explain one.

### `AssessmentWorkspace`

| Variable | Code |
|---|---|
| `typed` | the last version of the code written in any browser |
| `attempt`, `subs` | the server's attempt and its submissions; in the first also history: browsers whose last save was refused, or who were told of an end that grace took back |
| `local[t]` | the draft in `localStorage` |
| `page[t]` | the component: the code shown, the copy loaded, the deadline known, whether the countdown runs, the security countdown, `finishStartedRef` and its call, an error |
| `console[t]` | what the output pane shows, the intervals that run, `intervalRefs`, calls in flight |
| `saves` | drafts on their way to the server |
| `faults`, `mix` | bounds |

Callbacks run alone; timers fire late or on time, so a period is a delay of any
length. A call and its answer are two steps, and `Fails` loses either. The
server's handlers are one step each here and split at their awaits in
`AssessmentAttempt`. Every browser has its own `localStorage`; closing keeps it.
Grace moves the deadline and re-activates an attempt that timed out, so the end of
an attempt is not final here; that of a submitted one is. Not in the model: a page
that is left within the application and opened again while calls of its first
visit are in flight, whose callbacks then still run, and a finish request that the
server handles after the page was reloaded.

### `Tenancy`

| Variable | Code |
|---|---|
| `plan`, `customer` | of each college; "none" before it exists |
| `user[e]` | the college of a registered address |
| `account`, `subscription`, `events` | Stripe, external: customers, the checkouts and subscriptions of each, deliveries that are due |
| `standing` | history: whether a subscription was heard of, gave its college the plan, or had it taken |
| `hits` | the Redis counters, one for each student and one for the college |
| `share`, `ration` | history: what each student took of the college's window, and what their own windows let them take of it |
| `admitted`, `metered` | submissions stored, usage events written |
| `req[r]`, `ops` | suspended handlers and what they hold; the operations of this behaviour |

`register`, `bulkRegister` and `signup` share their steps: look the address up,
count the seats, create. The unique index on addresses refuses the second
creation, `bulkRegister` then removes what it has made and `signup` its
college. `createCheckoutSession` reads the college, creates a customer and
saves it in separate calls, so two of them may create two; a customer that is
known is used again, after a cancellation too. Stripe delivers in
any order and, with "redeliver", more than once. The quota counters are
`INCR`, then compare. Each check fails open by itself, its increment counted or
not, and each counter has a window of its own, which starts anew by itself
(`studentWindowPasses`, `collegeWindowPasses`).

### `JudgeResult`

A program is a sequence of behaviours, one per test. `PerTest`, `Batched` and
`Stdin` are the three runners; `Batched` takes how many reports have been read
when the goroutine on stderr is overtaken. A test may be slow: it finishes, but
after its limit. Single runs stop it there; a batch has one budget for all tests
and takes the late answer, unless the budget is used up (`InOneGo`, which turns
the slow test at which that happens, any of them, into one that does not end).
A raw run is given the limit of one test. `UpdateStatus`, `StoredStatus` and
`shouldDiscardContainer` are what the worker does with the result,
`mapSubmissionToArventiqVerdict` and `sanitizeResultDetails` what the API makes
of it. `Judging` adds the states: a program, how many of its reports have been
read, and which tests are samples, next to the steps of `Partner`. Nothing in it
is bounded but the number of tests, `MaxTests`.

### `Reports`

The same documents go through `recalculateAttemptScore`,
`getAssessmentAnalytics` (`overallStats`, `sectionReports`, `questionReports`),
`getAssessmentAttendance` with the cards, leaders and export computed from it
in the browser, and the breakdown of one student, which is made of the newest
submissions `getAttemptSubmissions` sends (`PageLimit`, 50 in the code).
Percentages are rounded as `Math.round` does.

### `ProblemAuthoring` and `ProblemEditor`

`ProblemAuthoring` follows a problem from the form (`payloadOf`, `formAccepts`)
through the schema, `validateProblemPayload` and `validateProblemDefinition`
into MongoDB (`createProblem`), to the student (`sanitizeProblemForStudent`) and
back into a form (`fetchProblem`). A type is the sequence of its kinds, a value
carries its JSON kind, and the text of a field is either the JSON of a value or
text that does not parse; one string, `5`, reads as a number when its quotes are
lost. Whether the reference solution passes is an input. Whether a value fits a
type is a parameter of the module, `validateData`: a configuration gives it
`fits` of `TypeValidator`, and the proofs take any.

| Variable of `ProblemEditor` | Code |
|---|---|
| `page` | a page is open or not |
| `draft`, `isValidated` | `formData` and the certificate, with the row object a template shares |
| `checking` | the request for a report that is on its way |
| `certified` | history: what the last good report was about |
| `stored` | the problem in MongoDB |
| `templates` | `PROBLEM_TEMPLATES`, which rows of a form may still be part of |

Every handler of the two pages is an action; the two pages have a copy each of
the same text. `requestReport` and `showReport` are the halves of
`handleValidate`; saving is one step, since the button stays where it is until
the answer. Loading a problem is part of opening the page.

### `AssessmentEditor` and `QuestionBank`

`AssessmentEditor` has the form of an assessment (`sheet`), the stored document
(`kept`) and how far the author's clock is ahead of the API's (`ahead`), for a
field of type `datetime-local` is text without a zone. `QuestionBank` takes one
question from the form to the service and back, with every pair of an author
and another user. `Authored` has the states the two share with
`ProblemAuthoring`: any form of a problem (`IsForm`), the judge's answer on its
solution, and a question with its author and another user.

### `Access` and `Session`

`routes` are the pairs of a role and a call it may make, as `authorizeRoles` and
`verifyToken` decide; `calls` gives what each page sends or offers, by user. `Session` has the
cookie, the entry `user` of `localStorage` and, for each tab, the user it shows,
the page, the request for its profile under way and whether a storage event is
due. A refused call signs the browser out, as the interceptor of `api.js` does,
also when it is a sign-in that is refused.

### `Listing`, `UserImport`, `Backup`

`Listing` is one page at a time of three: the question bank, the list of users
and the list of problems, which differ in when they ask, what resets the page
number and what an answer sets. Answers come in any order and are shown as they
come. The users have a second tab with the import; `errand` is a deletion or an
import that is under way, one at a time, with the query of the click, under
which it loads the list again when it is done. `UserImport` has the two lists of
checks of an upload, the sheet that the page reads and the one it saves; its
state is one `upload`, the lines that are pasted and the accounts there are.
Those accounts differ in their addresses and USNs, as the unique indexes have
it, and no pasted address is one a spreadsheet would evaluate, since it comes
back from a saved sheet as another. In `Backup` a restore is one step per
document inserted and one per collection emptied; `alone` and `before` are
history, for the property.

### `AssessmentDetails`, `ProblemPage`, `ResultView`, `ResultsBoard`

`AssessmentDetails` has the clock, the assessment, the attempt, the screen, the
page with its two dialogs, and the listeners for a change of the screen that
outlive a dialog. The page keeps the status and the times it was told when it
was opened (`copy`) and draws from them, while edits change the assessment.
`ProblemPage` has one record for the state of the page (`desk`) and the stored
statuses; `intervals` are timers that run and `ref` the one the page remembers.
`ResultView` goes from the document the worker stores, or from the entry it
writes to the cache, which lacks `assessmentId` (`Found`), through
`sanitizeSubmissionForStudent` to the colours and rows of the pages.
`ResultsBoard` keeps what is stored and what is shown, of everything that the
three calls of a round read one value each, and the rounds under way.

### `Partner`

Each API process remembers a promise of the one shared account (`memo`). A
submission is stored, judged in two writes (the result to MongoDB, later the
entry to the cache), cached by reader or worker - the worker's entry
lacks the partner's ids - and read. That either write may fail is in
`SubmissionPipeline` and not here. `runRawCodeAssess` and `mapRunResult` are
what the two doors for raw runs make of one execution.

`MCDecisions` enumerates the inputs of `MCScaleDecision`, `Judging`, `Reports`
and `Authored`, one family at a time, and runs `ProblemEditor`,
`AssessmentEditor` or `Partner` where nothing else has been chosen. `MCTenancy`
is one of seven parts at a time, `Tenancy` and six that are about accounts and
single users; `MCAssessmentWorkspace` is the student's page or the faculty's.

## Checked by TLC

| Run | Instance | What it shows |
|---|---|---|
| `decisions` | limits to 3, waits 0-3 around thresholds 1 and 2; every program of up to 3 tests, slow ones included, with every amount of reports read; assessments of one or two problems taken by two members and one outsider; some 13 000 forms of one or two parameters and tests and those of the seven templates; questions with every pair of users; an author with at most three rows and one template; an assessment with two problems; two API processes with one submission of a partner | `BusierNeverSmaller`, `RunnersAgree` (with `EveryTestOnce` and `VerdictIsEarned`), `SpoiltIsDiscarded`, `PartnerAgrees` (with `PartnerServed`, `DoorsAgree` and `ResultShown`), `FiguresAgree` (with `AnalyticsAgree`), `CertifiedIsStored`, `EditPreserves`, `OnlyCertifiedIsSent` |
| `pool_ownership` | one language 1..2, two users, monitor and reconciler, 4 ids, removals succeed | `TypeOK`, `ExclusiveOwnership`, `NoLeak`, `InUseNeverReaped` |
| `pool_autoscale` | one language 1..2, two users, reconciler and autoscaler, 3 ids, removals may fail | `TargetWithinLimits`; the pool implements `ContainerLease` (`LeaseSpec`) |
| `pool_repair` | one language 1..2, one user, monitor and reconciler, fair | `BrokenIsFound`, `Replenished` |
| `pipeline_runs` | one submission, one rejudge, two workers, one retry, two failures of eight kinds (publication, rejection, a failing fetch or write to MongoDB, usage or Redis, a crash, a lost connection) | `OneEndPerRun`, `CacheAgrees` |
| `pipeline_breakdowns` | one submission, one rejudge, two workers, two faults (crash, connection, signal, failing fetch, workspace or retry), fair | `Judged`, `CacheHeals`; the pipeline implements `AtLeastOnce` (`JobsSpec`) |
| `attempt` | one attempt, two requests, two problems worth 1 and 2, three edits of the assessment (one problem less, other times and duration, deletion), five mixes of operations, fair | `Promised` (each step of a handler is one `AttemptPromise` allows for the copy it read), `StartedOnce`, `ScoreConverges` |
| `tenancy` | two requests, two colleges, three addresses, two customers, two subscriptions, one seat, quotas 1 and 2, five mixes; one tab with every role and page or two with four pages; uploads of up to three lines; lists of two records, one on a page, two calls at a time and a deletion or an import; one start with two listeners; two submissions at a problem; two collections of two documents with two restores | `SeatsBounded`, `PaidIsServed`, `FairShare`, `FailuresSpareOthers`; `IdentityAgrees` (with `PagesServe`), `ImportAgrees`, `ListMatches`, `StartAgrees`, `ConsoleSettles`, `RestoreHeals` |
| `workspace` | one or two browsers, two submissions, five mixes; or a board with two rounds, one action, one change and one failure, four sets of actions; fair | `SyncedWhenQuiet`, `OneUnderWay`, `DraftKeptUntilEnded`, `AttemptEnds`, `ShownInTheEnd` (`VerdictShown` of the student's page, `BoardCatchesUp` of the faculty's) |
| `pipeline_publish_fails` | one failed publication | **violated**: a Pending submission with nothing to judge it |
| `pipeline_rejected` | one rejected message | **violated**: the message is in no queue, the dead-letter queue included |
| `pipeline_shutdown` | two submissions, one signal | **violated**: workers take submissions after the consumer was "cancelled" |

### What the violated runs show

* **`pipeline_publish_fails`.** `submitSolution` stores the document before
  `publishSubmissionMessage` tests the depth of the queue and answers 503.
* **`pipeline_rejected`.** `submission_queue` names a dead-letter exchange but
  no routing key, so a rejected message keeps `submission_queue` as its key; the
  exchange is direct and the queue is bound with the empty key.
* **`pipeline_shutdown`.** `Consume` is called with an empty tag, for which the
  library generates one; `Cancel("")` therefore cancels nothing.

### Where the properties stop, and why

These are behaviours of the code that no document of the repository excludes.
The properties are stated so that they hold beside them.

* *Pool.* `Discard` takes its container out of `inUse` and creates the
  replacement later; in between `convergeLang` counts one too few and creates
  one as well, so `Release` may meet a full channel. It removes the container
  then, and `NoLeak` holds.
* *Runs.* A message that is delivered again is judged again: the usage event is
  inserted before the delivery is acknowledged and carries no key, so a crash
  between the two charges twice, and a redelivery that runs out of retries marks
  a submission as failed that has a result, although the comment on
  `markSubmissionExecutionFailed` says it never reached execution. A rejudge does
  the same to the result before it. `OneEndPerRun` counts both and says that
  nothing else charges twice or takes a result. Which of two runs stores last is
  not a property. A failing MongoDB write of the result is logged
  and the message acknowledged: the submission stays Pending, so `NoOrphan` and
  `Judged` are checked without it.
* *Cache.* A rejudge leaves the entry in place, and a reader that was suspended
  may put the old one back after the new result: for up to an hour readers see
  the old verdict. `CacheAgrees` holds until a submission is rejudged or
  delivered again; after that, that the old verdict goes away is `CacheHeals`.
  When the write to MongoDB fails the worker still writes the cache: a verdict
  may then be in the cache alone, which `CacheAgrees` allows.
* *Seats and allowance.* The count comes before the creation, so overlapping
  requests may each take the last seat; `SeatsBounded` says by how much at most.
  A submission is metered when it is judged, so the allowance of a plan can be
  passed by what is still in the queue.
* *Billing.* When two checkouts raced for the customer record, the deletion of
  the subscription whose customer was overwritten finds no college, which stays
  on its plan. The deletion of one subscription takes the plan of a college that
  runs another, also when its event comes after the payment of that one:
  `PaidIsServed` names that cause, and the superadmin, and allows no other.
* *Quota.* A student whose window starts anew, or whose check fails open, may
  take another ration of the college's window: `FairShare` adds one for each.
* *Attempts.* Overlapping handlers may lose a grant or a challenge's answer, and
  a draft may be stored after the end; `Promised` says which. An edit moves the
  end of attempts that run.
* *Workspace.* Two browsers overwrite each other's drafts. A finish that the
  server answered with a time-out, then grace that re-activates the attempt,
  then the arrival of the answer: the page removes its draft and leaves an
  attempt that is active (`DraftKeptUntilEnded` allows it). A save that was
  refused because the attempt had timed out is not repeated when grace
  re-activates it, so that the server keeps an older draft until the next edit
  (`SyncedWhenQuiet` allows it). A failed poll ends the polling until the page
  is loaded again. An answer slower than the 2 s period of a poll would let two
  polls, or two saves, overlap; `Overlap` is FALSE in the run.
* *Results.* A slow test that finishes is passed in a batch and a time-out in
  single runs, so the number of tests decides its verdict: `RunnersAgree`
  compares a batch with single runs that had no limit either. While the worker's
  cache entry lives, a student's poll of an assessment finds no `assessmentId`
  in it and is shown the output of hidden tests, which
  `submissions.service.js:182` means to hide there; `ResultShown` holds
  `sanitizeSubmissionForStudent` to what it is given. A report stuck to the
  program's own output on stderr is not matched to its test (`EveryTestOnce`
  excludes it). With text on stdin a memory limit that cannot be reset leaves no
  trace in the result. A submission given up without a result stays pending for
  a partner.
* *Figures.* With more than 50 submissions the breakdown of a student may show
  less than the score; `FiguresAgree` asks for equality only when all were sent,
  and for no more than the score otherwise. A student without a college is in
  the analytics and not in the attendance list, so cards and analytics of one
  page differ; `FiguresAgree` compares those two when only members took the
  assessment. The analytics use stored scores, which are refreshed when an
  attempt is read.
* *Problems.* The result `null` of a void function is certified by the report
  and refused by `validateProblemPayload`; a string result that reads as JSON is
  another value after an edit; `CertifiedIsStored` and `EditPreserves` leave
  these two out. An edit made while a report is on its way is certified along
  with the form the report is about (`OnlyCertifiedIsSent`), and the API's own
  report is what stops it. The Mongoose schema has no field for the reference
  solution, so `EditProblemPage` declares a problem valid which its own form
  refuses until the solution is typed in again. The form has no check on a
  negative tolerance and leaves it to the report. The template "Matrix / Rotate
  style" returns void and expects a list: no report certifies it as it stands.
  Rows that come from a template are the template's own objects, and editing
  them changes the template until the page is reloaded.
* *Assessment form.* When the author's clock is ahead of the API's, each save
  moves the times of the assessment by the difference (`SheetPreserves`). An
  assessment with a deleted problem cannot be opened for editing.
* *Questions.* The page shows a stored 0 for marks or limits as its default, so
  that saving stores the default. The choice of questions gives a member of the
  faculty with a college nothing: an aggregation does not convert the text of an
  id as `find` does.
* *Lists.* An answer that was overtaken may leave the list of an older query,
  and in the question bank two answers may ask for each other's page in turns,
  since each of them sets the page. After a deletion or an import the page asks
  with the query of the click, though the query may have changed since: the list
  of the old one stays. `ListMatches` leaves that out (`crossed`). The list of
  problems is the first 50. The search fields promise USNs and tags, which the
  API does not search.
* *Upload.* The numbers of rows in the API's errors are those of the rows sent,
  not of the lines of the sheet. The page withholds rows that the API would
  take, as one that repeats the address of a faulty row. The exported sheet's
  column "ID" would be read as a USN.
* *Signing in.* Two sign-ins at a time, or one cut off by a reload, leave the
  cookie and the tabs with two users (`crossed`). A sign-in that is refused
  signs out every tab. Pages offer the deletion of an assessment and the figures
  of the system to the faculty, and backup and restore to all staff, which the
  API refuses (`Withheld`).
* *Partner.* The worker's cache entry has no ids of the partner, so a judged
  submission is refused to the partner until the entry expires, also when a poll
  between the worker's two writes was answered, although
  `docs/arventiq-integration/PLAN.md:225` has the endpoint for polling just that.
  `PartnerServed` says what remains: nothing is refused for good. All candidates
  share one quota. Two synchronisations of one question at a time may fail.
  codeAssess tells of a program that ends with a status of its own as an
  internal error.
* *Practice page.* A past result called up while a submission is being sent
  lets a second one be sent and leaves a timer that nobody clears; after a change
  of the address to another problem the button does nothing. A run of a case
  that is no sample expects `null`.
* *Start of an attempt.* The page does not look at the lock of an assessment,
  and keeps what it was told when it was opened: locked or edited since, it
  offers a start that is refused (`StartAgrees` allows both). When the answer of
  a start is lost the clock runs, and a retry in fullscreen waits for an event
  that does not come.
* *Restore.* A failing insertion leaves a collection in part and the ones behind
  it untouched. Colleges and usage events are not in the copy, and a body of more
  than 100 kB is refused (`app.js:111`).
* *Results board.* One call that fails replaces the board by its error until it
  is loaded anew: nothing clears it, although the calls go on.
* *Figures outside the assessment.* The success rate of the dashboard divides
  solved problems by submissions, and the average difficulty counts submissions.

### Bounds, and why they are enough

*Pool.* Every race the code has is between two goroutines over one channel; two
users and two background goroutines give every pair. Channel capacity 2 with a
minimum of 1 has empty, partly full and full channels, scaling both ways, and,
because of discards in flight, more containers than the capacity. The ids
bound how many containers exist at a time: when all are in use a create fails,
which it may do at any time, and three or four are one and two more than the
capacity. Languages share no
channel, so one suffices for TLC; that a container never changes language is
part of `ExclusiveOwnership`, which is proved for any number. `MCLoads` has a
load on each side of each threshold.

*Pipeline.* Two workers are needed for a submission judged twice. One retry
distinguishes first, last and later tries. Two faults allow one in the course of
the recovery from another, and with a rejudge three runs that meet. Submissions
share nothing but the workers, so what goes wrong is between the copies of one,
and one suffices in `pipeline_runs` and in `pipeline_breakdowns`; the theorems
are for any number. A request turned away and a message rejected lose their
submission, as two of the findings show: they occur in `pipeline_runs`
(`PublishFail`, `Refuse`) and not in `pipeline_breakdowns`, whose next-state
relation `Accepted` is `Next` without them, for what is promised of the rest. `pipeline_runs` has two verdicts that can contradict each
other; in `pipeline_breakdowns` every execution succeeds (`SuccessOnly`); giving
up yields Error, a second verdict for the cache to be wrong about. `MaxFaults`
and `MaxRejudges` are bounds of the model and nothing in the code.

*Attempt, tenancy, workspace.* A race here is between two handlers that hold
copies of one document; two requests give every pair of handlers, and each may
be followed by others. All operations together are too many states, so a
behaviour draws its operations from one of five *mixes* (`Mixes`, listed with
their purpose in the MC modules), chosen such that handlers that read or write
the same fields are in one mix. Problems worth 1 and 2 make every set of solved
ones visible in the score. The clock runs to 3 with an end at 1, an edit that moves
it to 3, and up to two minutes granted, so there is time before, at and after every
deadline. One free
seat is the least that can be oversold; three addresses are an upload of two
beside one in another college. A student quota of 1 under a college quota of 2
tells the counters apart; a ration of up to 2 (`MaxRation`) is one new window or
one failure. Two subscriptions are the fewest that can be paid and deleted out of
order, or one after the other. `WarningLimit` is 2 (10 in the code) and `MaxCode` 3:
an edit before, during and after a save. `MaxAdmitted`, `MaxRation`, `MaxGrace`, `MaxFlags`,
`MaxFaults` and `MaxTime` are bounds of the model.

*Decisions.* Three tests have a first, a middle and a last one, so a process
can end before, at or after any of them. Four submissions on a page (`PageLimit`)
leave some out of the longest lists the run has. Two members and one outsider in up to
two sections, and two problems of unequal worth, separate every sum from its
parts. The forms have each row complete, empty, half filled and ill named, inputs and
results of every JSON kind, types that fit them and types that do not, and one
flaw at a time elsewhere. Three rows (`MaxRows`) allow the first of two to be
removed from either list; `Offered` is the template with the fewest rows, whose
rows are shared as those of the others are. Two API processes are enough to race
for the partner's account. The clock of the assessment form has three instants,
so a start, an end and one more for the zone to move them to.

*Pages.* Two answers under way are the fewest that can overtake each other
(`MaxFetches`, `MaxRounds`, `Handle`). Times of 0 and 1 with a clock to 1 are an
assessment now and one later, each the other's edit. Two records with one on a page make a
deletion empty the last page. Two tabs have every pair of pages and of users; with
all pages and roles there is one tab. Three lines of an upload are a row, one like
it, and one whose only fault is the row before it. One change at the board may
fall between any two calls of any two rounds; more than one is the same again,
for rounds are told apart only by what they have read. Two uploads and two
collections with two documents let a restore be overtaken within a collection and
between two.

Symmetry is used over containers, users, submissions and workers, never in a
run with a liveness property. Deadlock is checked in the pool's runs and in
`decisions`. The other cfgs turn the check off: with everything judged, the
attempt over, the page left or the colleges at their bounds the system rightly
waits.

### Fairness

*Pool* (`FairSpec`). Every started background goroutine keeps running: it has
its own ticker and no blocking channel operation. Docker does not refuse to
create a container for ever (strong fairness of `ConvergeCreate` with success),
which is what `Replenished` depends on. Nothing is assumed of users: they may
keep a container for good.

*Pipeline* (`AcceptedSpec`). A request that stored a submission goes on to
publish it, a worker goes on with its delivery and takes what is ready, and the TTLs of
the broker and of the cache pass. No fairness is assumed of acquiring a
container, of readers or of restarts: a judge that lost its connection does not
reconnect by itself, so `Judged` allows a submission to wait while the judge is
disconnected or stopped.

*Attempt* (`FairSpec`). The event loop resumes every handler whose call has come
back. That the attempt goes on being read is a premise of `ScoreConverges` and
not assumed: only reading and closing recalculate.

*Workspace* (`PagesSpec`). Timers fire, calls are answered, the judge judges and
time passes; that is `Fairness` of `AssessmentWorkspace`. The board's interval
fires every 30 seconds while it is open, and its calls are answered
(`BoardFairness`). Nothing is assumed of the student or the faculty.

## Proved by TLAPS

| Module | Theorem | Statement | Hypothesis |
|---|---|---|---|
| `ContainerPool_proofs` | `TypeCorrect` | `Spec => []TypeOK` | |
| | `OwnershipIsExclusive` | `Spec => []ExclusiveOwnership` | |
| | `NeverReapedInUse` | `Spec => InUseNeverReaped` | |
| | `TargetsWithinLimits` | `Spec => []TargetWithinLimits` | |
| | `NothingLeaks` | `Spec => []NoLeak` | `RemoveMayFail = FALSE` |
| | `PoolKeepsLeases` | `Spec => LeaseSpec`: the pool implements `ContainerLease` | |
| `SubmissionPipeline_proofs` | `PipelineTypes` | `Spec => []TypeOK` | |
| | `RunsEndOnce` | `HSpec => []OneEndPerRun` of `PipelineRuns` | |
| | `CacheIsTrue` | `HSpec => []CacheAgrees` | |
| | `NoJobIsLost` | `Spec => JobsSpec`: the pipeline implements `AtLeastOnce` | `WritesSucceed` |
| | `PendingHasARun` | `Spec => []NoOrphan` | `WritesSucceed` |
| `AssessmentAttempt_proofs` | `CopiesAreGood` | `Spec => []IInv` | |
| | `ClockStartsOnce` | `Spec => StartedOnce` | |
| | `RequestsKeepThePromise` | `Spec => Promised` | |
| `Tenancy_proofs` | `TenancyTypes` | `Spec => []TypeOK` | |
| | `BudgetIsShared` | `Spec => []FairShare` | |
| | `PaymentIsServed` | `Spec => []PaidIsServed` | `SignupsApart` |
| | `FailuresHarmNobody` | `Spec => FailuresSpareOthers` | `SignupsApart` |
| | `SeatsAreBounded` | `Spec => []SeatsBounded` | `SignupsApart` |
| `AssessmentWorkspace_proofs` | `WorkspaceTypes` | `Spec => []TypeOK` | |
| | `NothingIsSubmittedTwice` | `Spec => []OneUnderWay` | `~Overlap` |
| | `DraftIsKept` | `Spec => DraftKeptUntilEnded` | |
| | `EditsReachTheServer` | `Spec => []SyncedWhenQuiet` | `~Overlap` |
| `StudentPages_proofs` | `EntryAgrees` | `EntrySpec => []StartAgrees` | |
| | `ConsoleSettlesInTheEnd` | `PracticeSpec => []ConsoleSettles` | |
| `AdminPages_proofs` | `IdentityIsOne` | `SessionSpec => []IdentityAgrees` | |
| | `ListIsOfTheQuery` | `ListingSpec => []ListMatches` | |
| | `RestoreIsWhole` | `BackupSpec => []RestoreHeals` | `CalmMeetings` |
| `Decisions_proofs` | `NeverSmallerWhenBusier` | `Spec => []BusierNeverSmaller` of `MCScaleDecision` | |
| | `RunnersDoAgree` | `JudgingSpec => []RunnersAgree` | |
| | `SpoiltContainersAreDiscarded` | `JudgingSpec => []SpoiltIsDiscarded` | |
| | `PartnersAreToldTheSame` | `JudgingSpec => []PartnerAgrees` | |
| | `OnlyWhatIsCertifiedIsSent` | `EditorSpec => OnlyCertifiedIsSent` | |
| | `WhatIsCertifiedIsStored` | `AuthoredSpec => []CertifiedIsStored` | |
| | `WhatIsOpenedIsPreserved` | `AuthoredSpec => []EditPreserves` | |
| | `ImportsAgree` | `ImportSpec => []ImportAgrees` | |

They hold for all sets of languages, users, submissions, workers, requests,
colleges and addresses, for all limits, retries and numbers of faults, and for
programs, forms, sheets and uploads of any length and, as far as `IsForm`,
`Questions` and `InitImport` go, any content; the
bounds of the runs are constants of the modules, and no theorem uses that they
are small. The assumptions are those the modules name and TLC evaluates in
every run: `PoolAssumption` (ids are finite in number and belong to one
language, minimum at most maximum, users are not background goroutines),
`ThresholdAssumption` (the lower threshold is below the upper one),
`BoundAssumption`, `PipelineAssumption`, `AttemptAssumption`,
`TenancyAssumption`, `WorkspaceAssumption` (the browsers a mix uses are
browsers), `EntryAssumption` (no assessment ends before it starts),
`PracticeAssumption` (no submission is called none), `AccessAssumption` (Nobody
is no role and no status code), `SessionAssumption` (the tabs and users of a
scene are tabs and roles), `ListingAssumption` (records are finite in number, a
page has room for one), `BackupAssumption` (a collection is gone through
once, there is an upload) and `JudgingAssumption` (`MaxTests` is a number).
Nothing at all is assumed of `validateData`, of the API processes or of the
partner's calls.

The hypotheses say which failures a property survives.

* `RemoveMayFail = FALSE`: the code drops the error of `RemoveContainer`, so a
  refused removal does leave a container behind.
* `WritesSucceed`: no publication fails, no delivery is rejected and no result
  is refused by MongoDB. The two violated runs show that the first two are
  needed; the worker logs the third and acknowledges. Crashes, lost connections
  and signals are allowed.
* `SignupsApart`: no other operation works in a college while its signup is
  under way. The accounts of a college are what one signs in with, and it has
  none before `register` at the end of `signup`; the mixes of the run satisfy it.
* `CalmMeetings`: in a behaviour in which uploads meet each other nothing else
  writes and MongoDB refuses nothing. `RestoreHeals` promises something of
  meetings only then; for uploads and downloads that are alone the theorem covers
  writes and refusals as well.
* `~Overlap`: a call of the page is answered before the timer that would repeat
  it fires, a second for a poll and two for a save. The code does not ensure it;
  what happens otherwise is under *Workspace* above.

### The pool

*Types.* `TypeOK` is inductive as it stands, because it ties `held` to the
program points where the local variable is live and says that `todo` is positive
inside a counted loop. The lemmas `TypeWarmUp` to `TypeDocker` take one group of
actions each.

*Ownership.* `ExclusiveOwnership` has five parts. A container is once in one
channel of its own language (`IdleOnce`); what is in a channel is in no
goroutine's hand (`HeldNotIdle`); no two goroutines have the same (`HeldOnce`);
a goroutine works on the language of what it holds (`HeldLang`); and `inUse` is
what the users hold (`InUseExact`). They are inductive together with `TypeOK`
and none of them is alone: a receive keeps `HeldOnce` only because of
`HeldNotIdle`, a send keeps `HeldNotIdle` only because of `HeldOnce`, and
`Release` sends only what `InUseExact` says is its own. A new container keeps
all of them because `Fresh` excludes what is still referred to. Every action is
one of a few moves - drop, receive, send, start - and each move has a lemma
(`OwnedDrop`, `OwnedDequeue`, `OwnedAppend`, `OwnedStart`). Nothing depends on
removals succeeding.

*No reaping.* Only an action that holds the container removes it, and the GC
removes stopped ones only (`ReapedByItsUser`); with `HeldOnce` and
`HeldNotIdle`, what a user has registered is in no other hand.

*Targets.* The autoscaler is the only writer, so the stale target is still the
right one to compare with; the invariant adds that a decided target is in range
while it is not stored. That `decideScale` answers in range is `DecideScaleInLimits`.

*No leak.* `NoLeak` counts `inUse` as a reference, which is what `InUseExact`
makes superfluous: the invariant is `Tracked`, a live container is in a channel
or in a hand. A goroutine lets go of one in two ways only, by removing it and by
sending it into a channel or removing it when that is full (`TrackedRemove`,
`TrackedPush`).

*Leases.* The mapping offers what is idle, or in the hand of a goroutine that
has not used it yet, and leases what is registered. The moves of the pool are a
stutter (a container passes between a channel and a hand that does not change
what is offered), a grant, a return or the end of a lease; each has a lemma
(`LeaseStays`, `LeaseTakes`, `LeasePushes`, `LeaseRemoves`, `LeaseProvides`), and
ownership says that nobody else's offer is touched (`OthersOfferFrame`).

### The pipeline

*Counting.* A bag counts its messages of a submission as the cardinality of the
numbered copies (`Copies`), not as a sum, so that adding or taking a message is
one element more or less (`CountPut`, `CountTake`). `InFlight(s, P)` counts the
runs of `s` that have not got past the program points `P`: about to be
published, in a queue, or with a worker that is at one of `P`. One lemma,
`InFlightNext`, says for every step that it does not rise unless a submission,
a rejudge or a redelivery adds one, because the retry queue gets its copy only from a worker
that lets its own go; what a crash or a lost connection returns is at most the
deliveries taken back (`InFlightReturn`). Both are used for three sets `P`.

*Ends.* What has ended, is in flight before its end, or is about to be published
by a rejudge is at most one for the submission, one for each rejudge and one for
each delivery that was taken back; and the same of what is metered (`Budget`).
A crash or a lost connection moves runs from workers to the queue, and each of
them is counted in `redelivered`; a worker that lost its connection still ends its
run, which is paid for by that redelivery.

*Cache.* Until a rejudge or a redelivery there is one run per submission
(`OneRun`): at most one that has not been cached, and none that has not been
stored once there is a result. The cache is never ahead of MongoDB, since a
reader that was suspended read what is still there, and the worker that stored a
result is the one that will cache it (`Cached`).

*Refinement.* A step is mapped to one that adds a job, drops one of several,
ends the last one, settles, or leaves the counts (`JobsOfApi`, `JobsOfWorker`,
`JobsOfBroker`). The hard one is the acknowledgement: it may drop the last job
only if the submission is settled. That needs `PendingIsAlive` (a Pending
submission has a message waiting, or a worker that owns its delivery and has yet
to store), `LostIsReady` (what a lost connection took from a worker is back in
the queue), and `DownIsIdle`. A worker that lost its connection goes on with a
delivery it does not own, so that its steps neither end a job nor count as one.
`NoOrphan` follows from `PendingIsAlive`.

### The attempt

`IInv` says what a suspended handler's copy is still worth: which places imply
that the attempt exists, that it was active when the handler read it
(`DecidedOnActive`), and that a handler that is going to close the attempt as
timed out has compared the clock and found its time over (`Closing`), and one that
goes on to store or submit has found it open. These are facts about the copy, so
no step of another request, no edit and no grant disturbs them (`KnowsFrame`, with
`Kept`: an attempt that has started stays started). With them each update is one of
the steps of `AttemptPromise` for that copy; there is one case per handler, and
nothing is assumed of a copy that went stale.

### The tenancy

*Budget.* `INCR` counts before it compares, so what a student took of the
college's window, what is on its way to it (`Waiting`) and what is left of the
student's own quota (`Left`) are together at most the `ration` (`Fair`). A student's
new window and a check that fails open add to the ration what they add to the left
side; a new window of the college starts `share` from nothing and the ration from
a quota and what is on its way. The two windows move one at a time, and so does the
argument.

*Billing.* `Linked` says that a customer of Stripe belongs to one college
wherever it is known - on the college, in a suspended checkout, in a subscription -
and never changes, and that an event is of a subscription that has come as far.
`Served` follows each subscription: while it runs, its event is due, or its college
has the plan, or the plan was taken by a write of "free", which only comes of a
cancelled subscription of that college, or of the superadmin. The metadata of the
session name the college, so the argument does not need the customer record.

*Failures.* The rollback of an upload removes the addresses of `made`, and only
creations add to it (`OwnRowsOnly`). For signups: one address per signup
(`OneAddress`), a college under foundation has one founder and no account
(`NobodyYet`), and one that is founded has an account (`Administered`), so
taking it back in a failure takes nobody's. Behaviours without signups need only
`Settled`.

*Seats.* Accounts and the accounts that requests have counted and are about to
make are together at most one limit per request, and each request's batch fits
the limit (`FitsIn`). When a request passes the count, its batch and the seats
are within one limit, and the other requests have one limit each; that sum over
a set of requests is `SumBound`, an injection of pairs into `Request` times
`1..SeatLimit`, since a sum by recursion would need induction over data.

### The workspace

*One submission.* A console waits for one thing at most (`Waits`): for the
answer to its submission, and then its button is disabled and no timer runs, or
for the verdict of the submission it remembers, with one timer and at most one
poll. Only the answer starts a timer, and a poll is sent only by the timer;
what a reload leaves on its way belongs to a page that is gone.

*Draft.* The page removes its draft when it finishes, and it finishes on an
answer. `Ended` says that such an answer comes from a server that has ended the
attempt, and that the attempt is still over or was re-activated since: grace alone
does that, and it notes which pages had been told (`revived`).

*Saves.* An attempt that is over refuses saves, and the browser is in `refused`
until one of its saves is taken. `Saving`: a save that is on its way carries the
code its page shows, unless the page was edited or loaded since, and then it is
unsynced and will save again. Each step changes one page in one of a few ways
(`PageStep`); a page that shows something saved showed it before, or has just
sent it (`ShownSteps`), so that the save that makes the last page quiet is the
one that agrees with it.

### The student's pages

*Start.* `Consented`: the second dialog, a listener on the full screen and a
request to start are there only after the student has agreed. `Leading`: once
the attempt is made, and unless a request failed, the student has been led to it
or an answer that tells of it is on its way. What the page offers is computed from
its copy; if the copy is what is stored, the API compares the same times at the
same instant (`SaysTheSame`), and otherwise the assessment was edited. That list
and page say one thing of one copy uses that the sections exclude each other.

*Practice.* `OneThing` is the workspace's argument for a page with more to
press: it waits for the answer to a submission, with nothing that could send
another, or for the verdict of the submission it remembers, with that one timer
and at most one poll. `Wished`: what the console shows is what was asked for
last, or comes with what is awaited. A poll that was answered stays true because
a verdict is final, and a result called up meanwhile is overtaken only by the
submission that is still awaited.

### The pages of the staff

*Sessions.* `Placed`: every tab is on a page that the user it shows may be on.
`TabsAgree`, which the run checks too: a tab shows whom `localStorage` names, or
has a storage event due. `Orderly`: unless sign-ins crossed, at most one is under
way; once it is granted the cookie is nobody's or its user's; with none granted
the cookie is nobody's, or `localStorage` names nobody or the cookie's user. That
pages show only calls their users may make is a comparison of two tables, page by
page (`Routes`, `PageTable`, `OpenServed` and the lemmas after it), joined with
`Placed`.

*Lists.* `Follows`, where no answer was overtaken, late or lost: the request
sent last has the filter on the screen, and its page too except in the question
bank; its answer is the one for the records as they are, unless a deletion or an
import is done; with no request under way and none of these done, the list is
the answer to the query on the screen; and the query a deletion or an import
holds has the filter on the screen, for a change of it meanwhile is bad luck.
`Errands`: the list of problems has none, and one that is done has still to send
its request. `Turned`, without any bad luck: the page on the screen is there,
or, in the question bank, a request for another page is under way, whose answer
makes it ask again. A page may be turned to only while the last answer says that
there is one (`Pages`, `NextIsThere`). A page holds records by their rank; that
the ranks of what was found are 1 to its number, so that a page within that
number is not empty, needs that numbering to be a bijection between finite sets
(`Ranks`, `NotEmpty`).

*Restore.* `Filling`: what an upload has still to insert is the end of the
collection in the file, in the order of the keys. An upload that is alone has
turned the collections before it into the file's and left those behind it
(`Alone`), so that no key can be there already. For uploads that meet,
`Meeting(i)` says of each collection that it has only documents of the file;
that one which is missing is still to come from an upload; that this upload has
a lower document behind it if the collection has that one; and that whoever
inserted a document has it behind. An upload fails at a key another one
inserted: that one has it behind, and therefore has in front of it all that the
failing one leaves (`MeetClash`). So somebody is always at work or through
(`Survived`), and when nobody is at work nothing is missing. The least element
of a set of numbers, with which an insertion begins, exists because inclusion is
well-founded on finite sets (`Least`).

### The decisions

*Monotonicity.* Only languages with traffic are compared: an idle one is held,
where a lightly busy one may shrink. `decideScale` moves by at most one, a
busier load grows whenever a calmer one does (`BusierLoad`), and shrinking needs
a wait below both thresholds.

*Places instead of recursion.* What a filter or an appending loop keeps is
`Kept(s, P)`: of the places `P`, the first, the second and so on (`Nth`). Two
lemmas carry everything about it: `Places` says that a set of numbers from 1 to n
has one member of each rank, in their order, and `KeptFacts` what that means for
the sequence: as long as there are places, and nothing in it but what stands at
them. Where the code filters or collects, the proofs reason about the set of
places and never unroll the sequence.

*Runners.* `BatchedFacts` and `SinglesFacts` tell each runner's details test by
test: what was reported, what is filled in behind the end of the process, and,
after a report that cannot be read, what is left. `Rated` is the status of a
result as a statement about its details: Success when all passed, Error when one
has an error's type, and so on. A process that ends early or leaves something
unreadable gives an error to the tests behind it, and the same behaviour gives
one to a test that runs alone, so both runners store one status. Slow tests are
taken in time by a batch, up to the one at which its budget is used up, if any;
from there on the batch behaves as at a test that hangs, and the single runs have
an error for it as well. That the
container is thrown away follows from the same facts: a killed or hanging test
leaves a detail, or a reason for the whole run, that `shouldDiscardContainer`
looks for.

*Partner.* `PartnerIInv`: whoever has got past the account has one; an entry of
Redis is one of a result, the worker's comes last, and a later answer ranks no
lower than the one the partner had, but for the refusal of a verdict that was
read between the two writes of a result (`InOrder`); a request about to save
read this version of the question, or an earlier one and has an excuse
(`Served`), for saving compares versions. `Sound` is what a runner's result has
in common with every other: each door maps it alike, detail by detail.

### The author's pages

*Certificate.* `EditorIInv`: the form that is certified, or will be by the report
on its way, is the one that was looked at, or an edit came since. A page opened
on a stored problem is declared valid without a report, and then its reference
solution is empty, which its own form refuses; that is why `EditorIInv` has to
speak of the solution.

*Stored forms.* `AuthoredCertified` goes through the checks of page and API and
shows that both look at the same fields after normalising, with the conversions
in between; what an empty row, a missing name or an unreadable value means to
one, it means to the other. `validateData` is any operator: the two sides ask it
the same questions.

*Opened and saved.* A form read back from what is stored is sent again as the
same problem (`ReadBack`, `SentAgain`), field by field and test by test, because
writing a value as JSON and reading it again loses only a string that reads as a
number. For an assessment `AuthoringIInv` has `Filed`: what is stored passed
the checks, lists no problem twice and has its maxima filled in. Without it a
stored sheet could be one that the form shows with a maximum it did not have.

### The upload

A row the page has not marked differs in address and USN from every row before
it, marked or not (`UnmarkedRow`). The API therefore finds no repetition: its
answer for such a row depends on the accounts there are and on nothing else that
is sent (`AccountError`), with or without the rows the page withholds, so that
what is created would be created without the page as well. The new accounts
differ from the old ones and from one another (`UnmarkedDiffer`, `Imported`). A
table that has their addresses in a column whose header the page looks for
(`HasAddresses`, `ColumnOf`) names only addresses that are known by then, and
creates nobody (`NothingNew`). That pasted lines and a sheet are read alike is a
comparison cell by cell, the headers of the template standing in the order of
the cells (`ReadAlike`).

### Only model-checked

* Liveness, which the prover does not handle: `BrokenIsFound`, `Replenished`,
  `Judged`, `CacheHeals`, `ScoreConverges`, `AttemptEnds`, `ShownInTheEnd`.
* `FiguresAgree`. It compares sums over submissions, problems and students, which
  the community modules define by a fold; that two foldings of one set in
  another grouping give one sum would need induction over the data. What
  `fits` computes of a nested value, by recursion over types, is checked only on
  the forms of `decisions` for the same reason.

## Not modelled

* *Execution.* The executor, the workspace directories and their sweeper are
  Docker and file system calls; their outcomes are inputs of `JudgeResult` and
  of the pipeline's `Execute`. Comparison of values, language adapters, wrapper
  generation and the decoding of problems are recursion or templates over data
  without state.
* *Rest of the judge.* The raw-run endpoint uses the pool as a worker does and
  keeps no state; how it ends is an input of `Partner`. Metrics and `GetStats`
  are read by people. `Shutdown` of the pool is planned.
* *Rest of the API.* Settings, announcements and the audit log are
  single-document writes, and so is the deletion of a problem; the preview of a
  wrapper is template text. Of the HTTP layer only the roles are modelled:
  controllers and repositories pass arguments on. Hashing and tokens are library
  calls.
* *Rest of the frontend.* Forms, tables and dashboards without a module send one
  request and show its answer. Layout, the code editor, resizing and messages are
  in no module.
* *Scripts, seeds, benchmarks, end-to-end tests* are not part of the running
  system.

What the modules leave out of the lines they stand for is mostly layout, wording
and logging. The components that are `partly` modelled say in `PROJECT.json`
what is missing.

## Plan

1. *Pool, completed.* `Shutdown` next to goroutines that still use the channels
   it closes; `ExecutionCount`.
2. *`Execution`.* The memory limit, the cleanup and the discard decision of one
   pooled container over several submissions, composed with `ContainerLease`;
   the workspace sweeper.
