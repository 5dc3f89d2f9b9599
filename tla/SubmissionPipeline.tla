------------------------- MODULE SubmissionPipeline -------------------------
(***************************************************************************)
(* The way of a submission from the assessment API to its verdict:         *)
(*   - submissions.service.js of the API stores it in MongoDB as "Pending" *)
(*     and publishes a message; a rejudge takes a stored one back to       *)
(*     "Pending" and publishes again; a read caches verdicts in Redis;     *)
(*   - RabbitMQ keeps the message in submission_queue, lends it to a       *)
(*     worker until it is acknowledged, holds it in the retry queue for    *)
(*     its TTL, and dead-letters what a worker rejects;                    *)
(*   - the workers of judge-service-go/main.go run processSubmission: fetch *)
(*     the problem, acquire a container, execute, then write MongoDB, the  *)
(*     problem counters, the usage event and Redis, and acknowledge.       *)
(*                                                                         *)
(* One action is one call to a store or to the broker: between two of them *)
(* the process may crash, the connection may go, or another worker or the  *)
(* API may act on the same submission.                                     *)
(***************************************************************************)
EXTENDS Naturals, FiniteSets

CONSTANTS
    Sub,           \* submissions
    Worker,        \* judge workers; also the consumer's prefetch count
    MaxRetries,    \* MaxSubmissionRetries
    Outcomes,      \* what an execution may come to
    FaultKinds,    \* what may go wrong
    MaxFaults,     \* bound: how often, in total
    MaxRejudges,   \* bound: rejudges of each submission
    None

AllFaults == {"publish", "reject", "fetch", "workspace", "retryPublish",
              "mongo", "usage", "redis", "crash", "connection", "signal"}

Verdict == {"Success", "Fail", "Error"}

ASSUME PipelineAssumption ==
    /\ IsFiniteSet(Worker)
    /\ MaxRetries \in Nat /\ MaxFaults \in Nat /\ MaxRejudges \in Nat
    /\ FaultKinds \subseteq AllFaults
    /\ Outcomes \subseteq Verdict

\* RetryCount travels in the message body.
Msg == [sub : Sub, tries : 0..MaxRetries]

ASSUME NoneAssumption == None \notin Msg

VARIABLES
    mongo,        \* the stored status of each submission, "none" before it exists
    redis,        \* the cached status, "none" when there is no entry
    counted,      \* how often the problem's submissionCount was incremented for it
    metered,      \* usage events written for it
    publishing,   \* API requests that stored it and have yet to publish
    rejudging,    \* the status a rejudge has read and not yet saved over, or "none"
    rejudges,     \* rejudges so far
    reading,      \* the verdict a reader is about to cache, or "none"
    queue,        \* submission_queue: ready messages (a bag)
    retryQueue,   \* submission_queue_retry (a bag)
    deadLetters,  \* submission_dead_letters (a bag)
    connected,    \* is the judge's AMQP connection up?
    stage,        \* the judge process: "running", "stopping" or "down"
    pc,           \* where each worker is in processSubmission
    msg,          \* its delivery
    owns,         \* is that delivery still its own to acknowledge?
    verdict,      \* the status it is storing
    faults        \* faults left

api == <<publishing, rejudging, rejudges, reading>>
stores == <<mongo, redis, counted, metered>>
broker == <<queue, retryQueue, deadLetters, connected>>
workers == <<pc, msg, owns, verdict>>
vars == <<stores, api, broker, stage, workers, faults>>

-----------------------------------------------------------------------------
(* Helpers *)

Fault(kind) ==
    /\ kind \in FaultKinds /\ faults > 0
    /\ faults' = faults - 1

Put(bag, m) == [bag EXCEPT ![m] = @ + 1]

Take(bag, m) == [bag EXCEPT ![m] = @ - 1]

Fresh(s) == [sub |-> s, tries |-> 0]

\* The copies of messages of s in a bag, each with a number of its own.
Copies(bag, s) == UNION {{m} \X (1..bag[m]) : m \in {n \in Msg : n.sub = s}}

Count(bag, s) == Cardinality(Copies(bag, s))

Of(w) == msg[w].sub

\* Deliveries of s the broker has not got an answer to.
Unacked(s) == {w \in Worker : owns[w] /\ Of(w) = s}

\* Everything that will still lead to a run of s.
Outstanding(s) == publishing[s] + Count(queue, s) + Count(retryQueue, s)
                  + Cardinality(Unacked(s))

At(w, p) == pc[w] = p

Goto(w, p) == pc' = [pc EXCEPT ![w] = p]

\* processSubmission returns; its range loop waits for the next delivery.
Done(w) ==
    /\ Goto(w, "idle")
    /\ msg' = [msg EXCEPT ![w] = None]
    /\ owns' = [owns EXCEPT ![w] = FALSE]
    /\ verdict' = [verdict EXCEPT ![w] = "none"]

\* d.Nack(false, true): the broker puts its message back.
Requeue(w) ==
    /\ queue' = IF owns[w] THEN Put(queue, msg[w]) ELSE queue
    /\ Done(w)
    /\ UNCHANGED <<retryQueue, deadLetters, connected>>

\* sendToQueue publishes through the default exchange, so the routing key of a
\* message is the name of the queue; submission_queue has a dead-letter
\* exchange and no dead-letter routing key, so the message keeps its own; the
\* exchange is direct and the queue of dead letters is bound to it with "".
MessageKey == "submission_queue"

DeadLetterBinding == ""

\* d.Nack(false, false)
Reject(w) ==
    /\ deadLetters' = IF owns[w] /\ MessageKey = DeadLetterBinding
                        THEN Put(deadLetters, msg[w]) ELSE deadLetters
    /\ Done(w)
    /\ UNCHANGED <<queue, retryQueue, connected>>

Init ==
    /\ mongo = [s \in Sub |-> "none"]
    /\ redis = [s \in Sub |-> "none"]
    /\ counted = [s \in Sub |-> 0]
    /\ metered = [s \in Sub |-> 0]
    /\ publishing = [s \in Sub |-> 0]
    /\ rejudging = [s \in Sub |-> "none"]
    /\ rejudges = [s \in Sub |-> 0]
    /\ reading = [s \in Sub |-> "none"]
    /\ queue = [m \in Msg |-> 0]
    /\ retryQueue = [m \in Msg |-> 0]
    /\ deadLetters = [m \in Msg |-> 0]
    /\ connected = TRUE
    /\ stage = "running"
    /\ pc = [w \in Worker |-> "idle"]
    /\ msg = [w \in Worker |-> None]
    /\ owns = [w \in Worker |-> FALSE]
    /\ verdict = [w \in Worker |-> "none"]
    /\ faults = MaxFaults

-----------------------------------------------------------------------------
(* The API: submit, rejudge, publish and read *)

\* submitSolution, after its checks: the document exists before the message.
Submit(s) ==
    /\ mongo[s] = "none"
    /\ mongo' = [mongo EXCEPT ![s] = "Pending"]
    /\ publishing' = [publishing EXCEPT ![s] = @ + 1]
    /\ UNCHANGED <<redis, counted, metered, rejudging, rejudges, reading,
                   broker, stage, workers, faults>>

\* publishSubmissionMessage
Publish(s) ==
    /\ publishing[s] > 0
    /\ publishing' = [publishing EXCEPT ![s] = @ - 1]
    /\ queue' = Put(queue, Fresh(s))
    /\ UNCHANGED <<stores, rejudging, rejudges, reading, retryQueue, deadLetters,
                   connected, stage, workers, faults>>

\* The queue is at MAX_QUEUE_DEPTH, RabbitMQ is away, or the API process dies.
PublishFail(s) ==
    /\ publishing[s] > 0
    /\ Fault("publish")
    /\ publishing' = [publishing EXCEPT ![s] = @ - 1]
    /\ UNCHANGED <<stores, rejudging, rejudges, reading, broker, stage, workers>>

\* rejudgeSubmission, or one element of the list a rejudge of a problem or of
\* an assessment has loaded.
RejudgeFind(s) ==
    /\ mongo[s] # "none" /\ rejudging[s] = "none"
    /\ rejudges[s] < MaxRejudges
    /\ rejudges' = [rejudges EXCEPT ![s] = @ + 1]
    /\ rejudging' = [rejudging EXCEPT ![s] = mongo[s]]
    /\ UNCHANGED <<stores, publishing, reading, broker, stage, workers, faults>>

\* Mongoose writes the paths that differ from what was read: a submission read
\* as "Pending" is not written at all.  The cache entry stays.
RejudgeSave(s) ==
    /\ rejudging[s] # "none"
    /\ mongo' = [mongo EXCEPT ![s] = IF rejudging[s] = "Pending" THEN @ ELSE "Pending"]
    /\ rejudging' = [rejudging EXCEPT ![s] = "none"]
    /\ publishing' = [publishing EXCEPT ![s] = @ + 1]
    /\ UNCHANGED <<redis, counted, metered, rejudges, reading,
                   broker, stage, workers, faults>>

\* Defect: getSubmissionById caches whatever it has read.
ReadAnyStatus(s) ==
    /\ redis[s] = "none" /\ reading[s] = "none"
    /\ mongo[s] # "none"
    /\ reading' = [reading EXCEPT ![s] = mongo[s]]
    /\ UNCHANGED <<stores, publishing, rejudging, rejudges,
                   broker, stage, workers, faults>>

\* getSubmissionById misses the cache and reads a verdict worth caching ...
ReadVerdict(s) ==
    /\ redis[s] = "none" /\ reading[s] = "none"
    /\ mongo[s] \in {"Success", "Fail"}
    /\ reading' = [reading EXCEPT ![s] = mongo[s]]
    /\ UNCHANGED <<stores, publishing, rejudging, rejudges,
                   broker, stage, workers, faults>>

\* ... and caches it, in a second call.
ReadCache(s) ==
    /\ reading[s] # "none"
    /\ redis' = [redis EXCEPT ![s] = reading[s]]
    /\ reading' = [reading EXCEPT ![s] = "none"]
    /\ UNCHANGED <<mongo, counted, metered, publishing, rejudging, rejudges,
                   broker, stage, workers, faults>>

\* Defect: entries are set without a time to live.
CacheExpireNever(s) == FALSE

\* Cache entries live for an hour.
CacheExpire(s) ==
    /\ redis[s] # "none"
    /\ redis' = [redis EXCEPT ![s] = "none"]
    /\ UNCHANGED <<mongo, counted, metered, api, broker, stage, workers, faults>>

-----------------------------------------------------------------------------
(* The worker: processSubmission *)

\* Defect: the consumer is registered with auto-ack.
DeliverAutoAck(w, m) ==
    /\ connected /\ stage # "down" /\ At(w, "idle")
    /\ queue[m] > 0
    /\ queue' = Take(queue, m)
    /\ msg' = [msg EXCEPT ![w] = m]
    /\ Goto(w, "checking")
    /\ UNCHANGED <<stores, api, retryQueue, deadLetters, connected, stage,
                   owns, verdict, faults>>

\* The consumer has no tag of its own, so ch.Cancel("") names no consumer:
\* deliveries go on while the process is stopping.
Deliver(w, m) ==
    /\ connected /\ stage # "down" /\ At(w, "idle")
    /\ queue[m] > 0
    /\ queue' = Take(queue, m)
    /\ msg' = [msg EXCEPT ![w] = m]
    /\ owns' = [owns EXCEPT ![w] = TRUE]
    /\ Goto(w, "checking")
    /\ UNCHANGED <<stores, api, retryQueue, deadLetters, connected, stage,
                   verdict, faults>>

\* An invalid message or problem, an unknown language or strategy, or a run
\* that cannot be set up.
Refuse(w) ==
    /\ pc[w] \in {"checking", "running"}
    /\ Fault("reject")
    /\ Reject(w)
    /\ UNCHANGED <<stores, api, stage>>

\* The problem cannot be fetched.
FetchFail(w) ==
    /\ At(w, "checking")
    /\ Fault("fetch")
    /\ Requeue(w)
    /\ UNCHANGED <<stores, api, stage>>

Acquire(w) ==
    /\ At(w, "checking")
    /\ Goto(w, "running")
    /\ UNCHANGED <<stores, api, broker, stage, msg, owns, verdict, faults>>

\* No container within 30 s.
AcquireFail(w) ==
    /\ At(w, "checking")
    /\ Goto(w, IF msg[w].tries >= MaxRetries THEN "failing" ELSE "retrying")
    /\ UNCHANGED <<stores, api, broker, stage, msg, owns, verdict, faults>>

\* markSubmissionExecutionFailed; a failing write is logged.
MarkFailed(w) ==
    /\ At(w, "failing")
    /\ \/ mongo' = [mongo EXCEPT ![Of(w)] = "Error"] /\ UNCHANGED faults
       \/ Fault("mongo") /\ UNCHANGED mongo
    /\ Goto(w, "acking")
    /\ UNCHANGED <<redis, counted, metered, api, broker, stage, msg, owns, verdict>>

\* Defect: RetryCount is not incremented.
SameTry(m) == m

NextTry(m) == [m EXCEPT !.tries = @ + 1]

\* Defect: the delivery is put back although its retry has been published.
PublishRetryAndRequeue(w) ==
    /\ At(w, "retrying") /\ connected
    /\ retryQueue' = Put(retryQueue, NextTry(msg[w]))
    /\ queue' = Put(queue, msg[w])
    /\ Done(w)
    /\ UNCHANGED <<stores, api, deadLetters, connected, stage, faults>>

PublishRetry(w) ==
    /\ At(w, "retrying") /\ connected
    /\ retryQueue' = Put(retryQueue, NextTry(msg[w]))
    /\ Goto(w, "acking")
    /\ UNCHANGED <<stores, api, queue, deadLetters, connected, stage,
                   msg, owns, verdict, faults>>

\* "Fallback to basic requeue", with the retry count of the delivery.
PublishRetryFail(w) ==
    /\ At(w, "retrying")
    /\ \/ Fault("retryPublish")
       \/ ~connected /\ UNCHANGED faults
    /\ Requeue(w)
    /\ UNCHANGED <<stores, api, stage>>

Execute(w) ==
    /\ At(w, "running")
    /\ \E v \in Outcomes : verdict' = [verdict EXCEPT ![w] = v]
    /\ Goto(w, "storing")
    /\ UNCHANGED <<stores, api, broker, stage, msg, owns, faults>>

\* The legacy path cannot create the submission's workspace.
WorkspaceFail(w) ==
    /\ At(w, "running")
    /\ Fault("workspace")
    /\ Requeue(w)
    /\ UNCHANGED <<stores, api, stage>>

\* processAndStoreResults writes four stores one after the other; none of the
\* writes stops it, whether or not it succeeds.
StoreMongo(w) ==
    /\ At(w, "storing")
    /\ \/ mongo' = [mongo EXCEPT ![Of(w)] = verdict[w]] /\ UNCHANGED faults
       \/ Fault("mongo") /\ UNCHANGED mongo
    /\ Goto(w, "counting")
    /\ UNCHANGED <<redis, counted, metered, api, broker, stage, msg, owns, verdict>>

StoreCounters(w) ==
    /\ At(w, "counting")
    /\ \/ counted' = [counted EXCEPT ![Of(w)] = @ + 1] /\ UNCHANGED faults
       \/ Fault("mongo") /\ UNCHANGED counted
    /\ Goto(w, "metering")
    /\ UNCHANGED <<mongo, redis, metered, api, broker, stage, msg, owns, verdict>>

StoreUsage(w) ==
    /\ At(w, "metering")
    /\ \/ metered' = [metered EXCEPT ![Of(w)] = @ + 1] /\ UNCHANGED faults
       \/ Fault("usage") /\ UNCHANGED metered
    /\ Goto(w, "caching")
    /\ UNCHANGED <<mongo, redis, counted, api, broker, stage, msg, owns, verdict>>

StoreRedis(w) ==
    /\ At(w, "caching")
    /\ \/ redis' = [redis EXCEPT ![Of(w)] = verdict[w]] /\ UNCHANGED faults
       \/ Fault("redis") /\ UNCHANGED redis
    /\ Goto(w, "acking")
    /\ UNCHANGED <<mongo, counted, metered, api, broker, stage, msg, owns, verdict>>

\* The broker forgets the delivery; without a connection nothing happens.
Ack(w) ==
    /\ At(w, "acking")
    /\ Done(w)
    /\ UNCHANGED <<stores, api, broker, stage, faults>>

\* What a worker does when nothing fails.
Work(w) ==
    \/ Acquire(w) \/ AcquireFail(w) \/ MarkFailed(w) \/ PublishRetry(w)
    \/ Execute(w) \/ StoreMongo(w) \/ StoreCounters(w) \/ StoreUsage(w)
    \/ StoreRedis(w) \/ Ack(w)

WorkerFault(w) ==
    Refuse(w) \/ FetchFail(w) \/ PublishRetryFail(w) \/ WorkspaceFail(w)

-----------------------------------------------------------------------------
(* The broker and the judge process *)

\* The TTL of the retry queue sends a message back to submission_queue.
RetryExpire(m) ==
    /\ retryQueue[m] > 0
    /\ retryQueue' = Take(retryQueue, m)
    /\ queue' = Put(queue, m)
    /\ UNCHANGED <<stores, api, deadLetters, connected, stage, workers, faults>>

\* Every unacknowledged delivery is ready again.
ReturnUnacked ==
    queue' = [m \in Msg |-> queue[m] + Cardinality({w \in Worker : owns[w] /\ msg[w] = m})]

ResetWorkers ==
    /\ pc' = [w \in Worker |-> "idle"]
    /\ msg' = [w \in Worker |-> None]
    /\ owns' = [w \in Worker |-> FALSE]
    /\ verdict' = [w \in Worker |-> "none"]

\* The judge is killed, and started again by its restart policy.
Crash ==
    /\ stage # "down"
    /\ Fault("crash")
    /\ ReturnUnacked /\ ResetWorkers
    /\ connected' = TRUE /\ stage' = "running"
    /\ UNCHANGED <<stores, api, retryQueue, deadLetters>>

\* The connection closes under the workers.  They finish what they have; main
\* does not reconnect, it only waits for a signal.
ConnectionLost ==
    /\ connected /\ stage # "down"
    /\ Fault("connection")
    /\ connected' = FALSE
    /\ ReturnUnacked
    /\ owns' = [w \in Worker |-> FALSE]
    /\ UNCHANGED <<stores, api, retryQueue, deadLetters, stage, pc, msg, verdict>>

\* SIGTERM: main cancels the consumer "" and waits for the workers.
Signal ==
    /\ stage = "running"
    /\ Fault("signal")
    /\ stage' = "stopping"
    /\ UNCHANGED <<stores, api, broker, workers>>

\* The workers end when their deliveries are closed, and the pool is shut down.
Stop ==
    /\ stage = "stopping" /\ ~connected
    /\ \A w \in Worker : At(w, "idle")
    /\ stage' = "down"
    /\ UNCHANGED <<stores, api, broker, workers, faults>>

Start ==
    /\ stage = "down"
    /\ stage' = "running" /\ connected' = TRUE
    /\ UNCHANGED <<stores, api, queue, retryQueue, deadLetters, workers, faults>>

ApiStep(s) ==
    \/ Submit(s) \/ Publish(s) \/ PublishFail(s) \/ RejudgeFind(s) \/ RejudgeSave(s)
    \/ ReadVerdict(s) \/ ReadCache(s) \/ CacheExpire(s)

Next ==
    \/ \E s \in Sub : ApiStep(s)
    \/ \E w \in Worker : Work(w) \/ WorkerFault(w) \/ \E m \in Msg : Deliver(w, m)
    \/ \E m \in Msg : RetryExpire(m)
    \/ Crash \/ ConnectionLost \/ Signal \/ Stop \/ Start

Spec == Init /\ [][Next]_vars

\* A request that stored a submission goes on to publish it, a worker goes on
\* with what it has and takes what is ready, and the TTLs of the broker and of
\* the cache pass.
\* Whether a container is free is nobody's promise.
Fairness ==
    /\ \A s \in Sub : WF_vars(Publish(s)) /\ WF_vars(CacheExpire(s))
    /\ \A w \in Worker : WF_vars(Work(w)) /\ WF_vars(\E m \in Msg : Deliver(w, m))
    /\ \A m \in Msg : WF_vars(RetryExpire(m))

-----------------------------------------------------------------------------
(* Properties *)

Bag == [Msg -> Nat]

WorkerPC == {"idle", "checking", "retrying", "failing", "running", "storing",
             "counting", "metering", "caching", "acking"}

\* Where a worker has a result in hand.
StoringPC == {"storing", "counting", "metering", "caching"}

StoreType ==
    /\ mongo \in [Sub -> Verdict \cup {"none", "Pending"}]
    /\ redis \in [Sub -> Verdict \cup {"none"}]
    /\ counted \in [Sub -> Nat] /\ metered \in [Sub -> Nat]
    /\ publishing \in [Sub -> Nat]
    /\ rejudging \in [Sub -> Verdict \cup {"none", "Pending"}]
    /\ rejudges \in [Sub -> 0..MaxRejudges]
    /\ reading \in [Sub -> {"none", "Success", "Fail"}]

BrokerType ==
    /\ queue \in Bag /\ retryQueue \in Bag /\ deadLetters \in Bag
    /\ connected \in BOOLEAN
    /\ stage \in {"running", "stopping", "down"}
    /\ faults \in 0..MaxFaults

WorkerType ==
    /\ pc \in [Worker -> WorkerPC]
    /\ msg \in [Worker -> Msg \cup {None}]
    /\ owns \in [Worker -> BOOLEAN]
    /\ verdict \in [Worker -> Verdict \cup {"none"}]
    /\ \A w \in Worker :
          /\ msg[w] = None <=> pc[w] = "idle"
          /\ owns[w] => connected /\ pc[w] # "idle"
          /\ pc[w] \in StoringPC => verdict[w] # "none"
          /\ pc[w] = "retrying" => msg[w].tries < MaxRetries

\* Every variable has its type; a worker has a delivery exactly while it is in
\* processSubmission, it can own it only on a live connection, and it has a
\* result while it stores one and a retry left while it publishes one.
TypeOK == StoreType /\ BrokerType /\ WorkerType

\* "Checked before any submission record is created so a rejected request never
\* leaves behind an orphan "Pending" submission that nothing will process": a
\* submission is only Pending while something will still run it.
NoOrphan == \A s \in Sub : mongo[s] = "Pending" => Outstanding(s) > 0

\* A submission a worker rejects is at least found among the dead letters
\* (scripts/test_dlq.js: "Malformed message was routed to the DLQ!").
RejectedIsKept ==
    \A s \in Sub : mongo[s] = "Pending" => Outstanding(s) + Count(deadLetters, s) > 0

\* "Stop consuming": once main has cancelled its consumer no worker starts
\* another submission.
StopsConsuming ==
    [][stage = "stopping" /\ stage' = "stopping"
       => \A w \in Worker : At(w, "idle") => pc'[w] = "idle"]_vars

\* Every submission gets a verdict, whatever the pool, the crashes and the
\* retries do: it is executed, or given up after MaxRetries.  A judge that has
\* lost its connection or was stopped needs an operator first.
Judged ==
    \A s \in Sub : mongo[s] = "Pending"
        ~> mongo[s] \in Verdict \/ ~connected \/ stage # "running"

\* The cache may hold a verdict that MongoDB no longer has: a rejudge leaves the
\* entry alone, a reader that was suspended puts an old one back, and giving up
\* writes MongoDB only.  It does not stay so: once a submission is no longer
\* rejudged, whoever asks gets what MongoDB has, whatever else has failed.
CacheHeals == \A s \in Sub : <>[](redis[s] \in {"none", mongo[s]})

\* The pipeline keeps every job until its submission has a verdict.
Jobs == INSTANCE AtLeastOnce WITH
    jobs <- [s \in Sub |-> Outstanding(s)],
    settled <- [s \in Sub |-> mongo[s] \in Verdict]

JobsSpec == Jobs!Spec
=============================================================================
