------------------------ MODULE SubmissionPipeline_proofs ------------------------
(***************************************************************************)
(* Theorems about the submission pipeline, for any submissions, workers,   *)
(* retry limits, outcomes and numbers of faults.                           *)
(***************************************************************************)
EXTENDS PipelineRuns, FiniteSetTheorems, FunctionTheorems, TLAPS

-----------------------------------------------------------------------------
(* Type correctness *)

\* A bag stays a bag when a message is put in or taken out.
LEMMA PutType ==
    ASSUME NEW bag \in Bag, NEW m PROVE Put(bag, m) \in Bag
<1>1. CASE m \in Msg
  BY <1>1 DEF Bag, Put
<1>2. CASE m \notin Msg
  <2>1. Put(bag, m) = bag
    BY <1>2 DEF Bag, Put
  <2>. QED
    BY <2>1
<1>. QED
  BY <1>1, <1>2

LEMMA TakeType ==
    ASSUME NEW bag \in Bag, NEW m \in Msg, bag[m] > 0 PROVE Take(bag, m) \in Bag
<1>1. bag[m] - 1 \in Nat
  BY DEF Bag
<1>. QED
  BY <1>1 DEF Bag, Take

\* What a busy worker works on is a submission.
LEMMA OfType ==
    ASSUME WorkerType, NEW w \in Worker, pc[w] # "idle"
    PROVE  msg[w] \in Msg /\ Of(w) \in Sub
<1>1. msg[w] \in Msg
  BY DEF WorkerType
<1>. QED
  BY <1>1 DEF Msg, Of

LEMMA FaultType ==
    ASSUME BrokerType, NEW k, Fault(k) PROVE faults' \in 0..MaxFaults
  BY PipelineAssumption DEF BrokerType, Fault

LEMMA TypeInit == Init => TypeOK
<1> SUFFICES ASSUME Init PROVE TypeOK
  OBVIOUS
<1>1. StoreType
  BY PipelineAssumption DEF Init, StoreType
<1>2. BrokerType
  BY PipelineAssumption DEF Init, BrokerType, Bag
<1>3. WorkerType
  BY DEF Init, WorkerType, WorkerPC, StoringPC
<1>. QED
  BY <1>1, <1>2, <1>3 DEF TypeOK

\* The requests of the API and the readers of the cache keep the types.
LEMMA TypeApi ==
    ASSUME TypeOK, NEW s \in Sub, ApiStep(s)
    PROVE  TypeOK'
<1> USE DEF TypeOK, stores, api, broker, workers
<1>1. StoreType'
  <2>1. CASE Submit(s)
    BY <2>1 DEF Submit, StoreType
  <2>2. CASE Publish(s)
    BY <2>2 DEF Publish, StoreType
  <2>3. CASE PublishFail(s)
    BY <2>3 DEF PublishFail, StoreType
  <2>4. CASE RejudgeFind(s)
    BY <2>4, PipelineAssumption DEF RejudgeFind, StoreType
  <2>5. CASE RejudgeSave(s)
    BY <2>5 DEF RejudgeSave, StoreType
  <2>6. CASE ReadVerdict(s)
    BY <2>6 DEF ReadVerdict, StoreType
  <2>7. CASE ReadCache(s) \/ CacheExpire(s)
    BY <2>7 DEF ReadCache, CacheExpire, StoreType, Verdict
  <2>. QED
    BY <2>1, <2>2, <2>3, <2>4, <2>5, <2>6, <2>7 DEF ApiStep
<1>2. BrokerType'
  <2>1. CASE Publish(s)
    BY <2>1, PutType DEF Publish, BrokerType
  <2>2. CASE PublishFail(s)
    BY <2>2, FaultType DEF PublishFail, BrokerType
  <2>. QED
    BY <2>1, <2>2 DEF ApiStep, Submit, RejudgeFind, RejudgeSave, ReadVerdict, ReadCache,
                      CacheExpire, BrokerType
<1>3. WorkerType'
  BY DEF ApiStep, Submit, Publish, PublishFail, RejudgeFind, RejudgeSave, ReadVerdict,
         ReadCache, CacheExpire, WorkerType
<1>. QED
  BY <1>1, <1>2, <1>3

\* A worker that moves on with its delivery keeps the types of the workers ...
LEMMA WorkerGoes ==
    ASSUME WorkerType, NEW w \in Worker, NEW p \in WorkerPC \ {"idle"}, pc[w] # "idle", Goto(w, p),
           p \in StoringPC => verdict[w] # "none",
           p = "retrying" => msg[w].tries < MaxRetries, UNCHANGED <<msg, owns, verdict, connected>>
    PROVE  WorkerType'
  BY DEF WorkerType, Goto

\* ... and so does one that is done with it.
LEMMA WorkerDone ==
    ASSUME WorkerType, NEW w \in Worker, Done(w), UNCHANGED connected
    PROVE  WorkerType'
<1>1. /\ pc' \in [Worker -> WorkerPC] /\ msg' \in [Worker -> Msg \cup {None}]
      /\ owns' \in [Worker -> BOOLEAN] /\ verdict' \in [Worker -> Verdict \cup {"none"}]
  BY DEF WorkerType, Done, Goto, WorkerPC
<1>2. ASSUME NEW v \in Worker
      PROVE  /\ msg'[v] = None <=> pc'[v] = "idle"
             /\ owns'[v] => connected' /\ pc'[v] # "idle"
             /\ pc'[v] \in StoringPC => verdict'[v] # "none"
             /\ pc'[v] = "retrying" => msg'[v].tries < MaxRetries
  <2>1. CASE v = w
    BY <2>1 DEF WorkerType, Done, Goto, StoringPC
  <2>2. CASE v # w
    BY <2>2 DEF WorkerType, Done, Goto
  <2>. QED
    BY <2>1, <2>2
<1>. QED
  BY <1>1, <1>2 DEF WorkerType

\* A delivery that goes back to the queue, or is rejected, keeps them too.
LEMMA RequeueType ==
    ASSUME BrokerType, WorkerType, NEW w \in Worker, Requeue(w),
           faults' \in 0..MaxFaults, UNCHANGED stage
    PROVE  BrokerType' /\ WorkerType'
<1>1. queue' \in Bag
  BY PutType DEF Requeue, BrokerType
<1>. QED
  BY <1>1, WorkerDone DEF Requeue, BrokerType

LEMMA RejectType ==
    ASSUME BrokerType, WorkerType, NEW w \in Worker, Reject(w),
           faults' \in 0..MaxFaults, UNCHANGED stage
    PROVE  BrokerType' /\ WorkerType'
<1>1. deadLetters' \in Bag
  BY PutType DEF Reject, BrokerType
<1>. QED
  BY <1>1, WorkerDone DEF Reject, BrokerType

\* processSubmission keeps the types.
LEMMA TypeWork ==
    ASSUME TypeOK, NEW w \in Worker, Work(w)
    PROVE  TypeOK'
<1> USE DEF TypeOK, stores, api, broker, workers
<1>0. ASSUME pc[w] # "idle" PROVE Of(w) \in Sub /\ msg[w] \in Msg
  BY <1>0, OfType
<1>1. ASSUME Acquire(w) \/ AcquireFail(w) PROVE TypeOK'
  <2>1. StoreType' /\ BrokerType'
    BY <1>1 DEF Acquire, AcquireFail, StoreType, BrokerType
  <2>2. msg[w].tries \in 0..MaxRetries
    BY <1>1, <1>0 DEF Acquire, AcquireFail, At, Msg
  <2>3. msg[w].tries >= MaxRetries \/ msg[w].tries < MaxRetries
    BY <2>2, PipelineAssumption
  <2>4. WorkerType'
    BY <1>1, <2>3, WorkerGoes DEF Acquire, AcquireFail, At, WorkerPC, StoringPC
  <2>. QED
    BY <2>1, <2>4
<1>2. ASSUME MarkFailed(w) PROVE TypeOK'
  <2>1. StoreType'
    BY <1>2, <1>0 DEF MarkFailed, At, StoreType, Verdict
  <2>2. BrokerType'
    BY <1>2, FaultType DEF MarkFailed, BrokerType
  <2>3. WorkerType'
    BY <1>2, WorkerGoes DEF MarkFailed, At, WorkerPC, StoringPC
  <2>. QED
    BY <2>1, <2>2, <2>3
<1>3. ASSUME PublishRetry(w) PROVE TypeOK'
  <2>1. StoreType' /\ BrokerType'
    BY <1>3, PutType DEF PublishRetry, StoreType, BrokerType
  <2>2. WorkerType'
    BY <1>3, WorkerGoes DEF PublishRetry, At, WorkerPC, StoringPC
  <2>. QED
    BY <2>1, <2>2
<1>4. ASSUME Execute(w) PROVE TypeOK'
  <2>1. StoreType' /\ BrokerType'
    BY <1>4 DEF Execute, StoreType, BrokerType
  <2>2. PICK v \in Outcomes : verdict' = [verdict EXCEPT ![w] = v]
    BY <1>4 DEF Execute
  <2>3. v \in Verdict /\ v # "none"
    BY PipelineAssumption DEF Verdict
  <2>4. WorkerType'
    BY <1>4, <2>2, <2>3 DEF Execute, At, Goto, WorkerType, WorkerPC, StoringPC
  <2>. QED
    BY <2>1, <2>4
<1>5. ASSUME StoreMongo(w) PROVE TypeOK'
  <2>0. verdict[w] \in Verdict
    BY <1>5 DEF StoreMongo, At, WorkerType, StoringPC
  <2>1. StoreType'
    BY <1>5, <1>0, <2>0 DEF StoreMongo, At, StoreType
  <2>2. BrokerType'
    BY <1>5, FaultType DEF StoreMongo, BrokerType
  <2>3. WorkerType'
    BY <1>5, <2>0, WorkerGoes DEF StoreMongo, At, WorkerPC, StoringPC, Verdict
  <2>. QED
    BY <2>1, <2>2, <2>3
<1>6. ASSUME StoreCounters(w) \/ StoreUsage(w) PROVE TypeOK'
  <2>1. StoreType'
    BY <1>6, <1>0 DEF StoreCounters, StoreUsage, At, StoreType
  <2>2. BrokerType'
    BY <1>6, FaultType DEF StoreCounters, StoreUsage, BrokerType
  <2>3. verdict[w] # "none"
    BY <1>6 DEF StoreCounters, StoreUsage, At, WorkerType, StoringPC
  <2>4. WorkerType'
    BY <1>6, <2>3, WorkerGoes DEF StoreCounters, StoreUsage, At, WorkerPC
  <2>. QED
    BY <2>1, <2>2, <2>4
<1>7. ASSUME StoreRedis(w) PROVE TypeOK'
  <2>0. verdict[w] \in Verdict
    BY <1>7 DEF StoreRedis, At, WorkerType, StoringPC
  <2>1. StoreType'
    BY <1>7, <1>0, <2>0 DEF StoreRedis, At, StoreType
  <2>2. BrokerType'
    BY <1>7, FaultType DEF StoreRedis, BrokerType
  <2>3. WorkerType'
    BY <1>7, WorkerGoes DEF StoreRedis, At, WorkerPC, StoringPC
  <2>. QED
    BY <2>1, <2>2, <2>3
<1>8. ASSUME Ack(w) PROVE TypeOK'
  BY <1>8, WorkerDone DEF Ack, StoreType, BrokerType
<1>. QED
  BY <1>1, <1>2, <1>3, <1>4, <1>5, <1>6, <1>7, <1>8 DEF Work

\* A worker that fails, or is given a delivery, keeps them.
LEMMA TypeWorkerRest ==
    ASSUME TypeOK, NEW w \in Worker, WorkerFault(w) \/ \E m \in Msg : Deliver(w, m)
    PROVE  TypeOK'
<1> USE DEF TypeOK, stores, api, broker
<1>1. StoreType'
  BY DEF WorkerFault, Refuse, FetchFail, PublishRetryFail, WorkspaceFail, Deliver, StoreType
<1>2. CASE Refuse(w)
  BY <1>1, <1>2, RejectType, FaultType DEF Refuse
<1>3. CASE FetchFail(w) \/ PublishRetryFail(w) \/ WorkspaceFail(w)
  <2>1. faults' \in 0..MaxFaults
    BY <1>3, FaultType DEF FetchFail, PublishRetryFail, WorkspaceFail, BrokerType
  <2>. QED
    BY <1>1, <1>3, <2>1, RequeueType DEF FetchFail, PublishRetryFail, WorkspaceFail
<1>4. ASSUME NEW m \in Msg, Deliver(w, m) PROVE TypeOK'
  <2>1. BrokerType'
    BY <1>4, TakeType DEF Deliver, BrokerType
  <2>2. WorkerType'
    BY <1>4, NoneAssumption DEF Deliver, At, Goto, WorkerType, WorkerPC, StoringPC
  <2>. QED
    BY <1>1, <2>1, <2>2
<1>. QED
  BY <1>2, <1>3, <1>4 DEF WorkerFault

\* What the broker gets back from the workers.
LEMMA ReturnType ==
    ASSUME BrokerType, ReturnUnacked PROVE queue' \in Bag
<1>1. ASSUME NEW m \in Msg
      PROVE  queue[m] + Cardinality({w \in Worker : owns[w] /\ msg[w] = m}) \in Nat
  <2>1. IsFiniteSet({w \in Worker : owns[w] /\ msg[w] = m})
    BY PipelineAssumption, FS_Subset
  <2>2. Cardinality({w \in Worker : owns[w] /\ msg[w] = m}) \in Nat
    BY <2>1, FS_CardinalityType
  <2>3. queue[m] \in Nat
    BY DEF BrokerType, Bag
  <2>. QED
    BY <2>2, <2>3
<1>. QED
  BY <1>1 DEF ReturnUnacked, Bag

\* The broker and the judge process keep the types.
LEMMA TypeProcess ==
    ASSUME TypeOK,
           (\E m \in Msg : RetryExpire(m)) \/ Crash \/ ConnectionLost \/ Signal \/ Stop \/ Start
    PROVE  TypeOK'
<1> USE DEF TypeOK, stores, api, broker, workers
<1>1. StoreType'
  BY DEF RetryExpire, Crash, ConnectionLost, Signal, Stop, Start, StoreType
<1>2. ASSUME NEW m \in Msg, RetryExpire(m) PROVE TypeOK'
  <2>1. BrokerType'
    BY <1>2, PutType, TakeType DEF RetryExpire, BrokerType
  <2>2. WorkerType'
    BY <1>2 DEF RetryExpire, WorkerType
  <2>. QED
    BY <1>1, <2>1, <2>2
<1>3. CASE Crash
  <2>1. BrokerType'
    BY <1>3, ReturnType, FaultType DEF Crash, BrokerType
  <2>2. WorkerType'
    BY <1>3 DEF Crash, ResetWorkers, WorkerType, WorkerPC, StoringPC
  <2>. QED
    BY <1>1, <2>1, <2>2
<1>4. CASE ConnectionLost
  <2>1. BrokerType'
    BY <1>4, ReturnType, FaultType DEF ConnectionLost, BrokerType
  <2>2. WorkerType'
    BY <1>4 DEF ConnectionLost, WorkerType
  <2>. QED
    BY <1>1, <2>1, <2>2
<1>5. CASE Signal \/ Stop
  <2>1. BrokerType'
    BY <1>5, FaultType DEF Signal, Stop, BrokerType
  <2>2. WorkerType'
    BY <1>5 DEF Signal, Stop, WorkerType
  <2>. QED
    BY <1>1, <2>1, <2>2
<1>6. CASE Start
  BY <1>1, <1>6 DEF Start, BrokerType, WorkerType
<1>. QED
  BY <1>2, <1>3, <1>4, <1>5, <1>6

LEMMA TypeNext == TypeOK /\ [Next]_vars => TypeOK'
<1> SUFFICES ASSUME TypeOK, [Next]_vars PROVE TypeOK'
  OBVIOUS
<1>1. CASE UNCHANGED vars
  BY <1>1 DEF vars, stores, api, broker, workers, TypeOK, StoreType, BrokerType, WorkerType
<1>2. CASE Next
  BY <1>2, TypeApi, TypeWork, TypeWorkerRest, TypeProcess DEF Next
<1>. QED
  BY <1>1, <1>2

\* A worker has a delivery exactly while it is in processSubmission, it owns it
\* only on a live connection, and it has a result while it stores one.
THEOREM PipelineTypes == Spec => []TypeOK
  BY TypeInit, TypeNext, PTL DEF Spec

-----------------------------------------------------------------------------
(***************************************************************************)
(* Counting.  A bag has as many messages of a submission as Copies has     *)
(* elements; putting a message in adds one of them, taking it out removes   *)
(* the one with the highest number.                                        *)
(***************************************************************************)
MsgsOf(s) == {m \in Msg : m.sub = s}

LEMMA CopiesDef ==
    ASSUME NEW bag, NEW s, NEW p
    PROVE  p \in Copies(bag, s) <=> \E m \in MsgsOf(s) : \E i \in 1..bag[m] : p = <<m, i>>
  BY DEF Copies, MsgsOf

\* The retry count is bounded, so a submission has finitely many messages.
LEMMA MsgsFinite == ASSUME NEW s PROVE IsFiniteSet(MsgsOf(s))
<1>1. IsFiniteSet(0..MaxRetries)
  BY FS_Interval, PipelineAssumption
<1>2. IsFiniteSet({s} \X (0..MaxRetries))
  BY <1>1, FS_Singleton, FS_Product
<1> DEFINE f == [m \in MsgsOf(s) |-> <<m.sub, m.tries>>]
<1>3. f \in Injection(MsgsOf(s), {s} \X (0..MaxRetries))
  <2>1. \A m \in MsgsOf(s) : f[m] \in {s} \X (0..MaxRetries)
    BY DEF MsgsOf, Msg
  <2>2. ASSUME NEW m \in MsgsOf(s), NEW n \in MsgsOf(s), f[m] = f[n] PROVE m = n
    BY <2>2 DEF MsgsOf, Msg
  <2>. QED
    BY <2>1, <2>2 DEF Injection, IsInjective
<1>. QED
  BY <1>2, <1>3, FS_Injection

LEMMA CopiesFinite ==
    ASSUME NEW bag \in Bag, NEW s PROVE IsFiniteSet(Copies(bag, s))
<1> DEFINE layer == [m \in MsgsOf(s) |-> {m} \X (1..bag[m])]
           layers == {layer[m] : m \in MsgsOf(s)}
<1>1. IsFiniteSet(layers)
  <2>1. layer \in Surjection(MsgsOf(s), layers)
    BY DEF Surjection
  <2>. QED
    BY <2>1, MsgsFinite, FS_Surjection
<1>2. ASSUME NEW m \in MsgsOf(s) PROVE IsFiniteSet(layer[m])
  <2>1. bag[m] \in Nat
    BY DEF Bag, MsgsOf
  <2>2. IsFiniteSet(1..bag[m])
    BY <2>1, FS_Interval
  <2>3. IsFiniteSet({m})
    BY FS_Singleton
  <2>4. IsFiniteSet({m} \X (1..bag[m]))
    BY <2>2, <2>3, FS_Product
  <2>. QED
    BY <2>4
<1>3. IsFiniteSet(UNION layers)
  <2>1. \A T \in layers : IsFiniteSet(T)
    BY <1>2
  <2> HIDE DEF layers
  <2>. QED
    BY <1>1, <2>1, FS_UNION
<1>4. Copies(bag, s) = UNION layers
  BY DEF Copies, MsgsOf
<1>. QED
  BY <1>3, <1>4

LEMMA CountType ==
    ASSUME NEW bag \in Bag, NEW s PROVE Count(bag, s) \in Nat
  BY CopiesFinite, FS_CardinalityType DEF Count

\* A message that is put in counts for its own submission only.
LEMMA CountPut ==
    ASSUME NEW bag \in Bag, NEW m \in Msg, NEW s
    PROVE  Count(Put(bag, m), s) = IF m.sub = s THEN Count(bag, s) + 1 ELSE Count(bag, s)
<1>1. bag[m] \in Nat /\ \A n \in Msg : Put(bag, m)[n] = IF n = m THEN bag[n] + 1 ELSE bag[n]
  BY DEF Bag, Put
<1>2. CASE m.sub = s
  <2>1. Copies(Put(bag, m), s) = Copies(bag, s) \cup {<<m, bag[m] + 1>>}
    <3>1. ASSUME NEW n \in MsgsOf(s), NEW i
          PROVE  i \in 1..Put(bag, m)[n] <=> i \in 1..bag[n] \/ (n = m /\ i = bag[m] + 1)
      <4>1. n \in Msg /\ bag[n] \in Nat
        BY DEF MsgsOf, Bag
      <4>2. CASE n = m
        BY <1>1, <4>1, <4>2
      <4>3. CASE n # m
        BY <1>1, <4>1, <4>3
      <4>. QED
        BY <4>2, <4>3
    <3>2. m \in MsgsOf(s)
      BY <1>2 DEF MsgsOf
    <3>3. ASSUME NEW p
          PROVE  p \in Copies(Put(bag, m), s) <=> p \in Copies(bag, s) \cup {<<m, bag[m] + 1>>}
      <4>1. p \in Copies(Put(bag, m), s) <=>
              \E n \in MsgsOf(s) : \E i \in 1..Put(bag, m)[n] : p = <<n, i>>
        BY CopiesDef
      <4>2. p \in Copies(bag, s) <=> \E n \in MsgsOf(s) : \E i \in 1..bag[n] : p = <<n, i>>
        BY CopiesDef
      <4> HIDE DEF Put
      <4>. QED
        BY <3>1, <3>2, <4>1, <4>2, Zenon
    <3>. QED
      BY <3>3
  <2>2. <<m, bag[m] + 1>> \notin Copies(bag, s)
    <3>1. bag[m] + 1 \notin 1..bag[m]
      BY <1>1
    <3> DEFINE p == <<m, bag[m] + 1>>
    <3>2. ASSUME NEW n \in MsgsOf(s), NEW i \in 1..bag[n] PROVE p # <<n, i>>
      BY <3>1
    <3> HIDE DEF p
    <3>3. p \in Copies(bag, s) <=> \E n \in MsgsOf(s) : \E i \in 1..bag[n] : p = <<n, i>>
      BY CopiesDef
    <3>4. p \notin Copies(bag, s)
      BY <3>2, <3>3, Zenon
    <3>. QED
      BY <3>4 DEF p
  <2>3. IsFiniteSet(Copies(bag, s))
    BY CopiesFinite
  <2>4. Cardinality(Copies(bag, s) \cup {<<m, bag[m] + 1>>}) = Cardinality(Copies(bag, s)) + 1
    BY <2>2, <2>3, FS_AddElement
  <2>. QED
    BY <1>2, <2>1, <2>4 DEF Count
<1>3. CASE m.sub # s
  <2>1. \A n \in MsgsOf(s) : Put(bag, m)[n] = bag[n]
    BY <1>1, <1>3 DEF MsgsOf
  <2>2. Copies(Put(bag, m), s) = Copies(bag, s)
    BY <2>1 DEF Copies, MsgsOf
  <2>. QED
    BY <1>3, <2>2 DEF Count
<1>. QED
  BY <1>2, <1>3

\* Taking it out again undoes that.
LEMMA CountTake ==
    ASSUME NEW bag \in Bag, NEW m \in Msg, bag[m] > 0, NEW s
    PROVE  /\ Count(bag, s) = IF m.sub = s THEN Count(Take(bag, m), s) + 1
                                           ELSE Count(Take(bag, m), s)
           /\ Count(Take(bag, m), s) \in Nat
<1>1. Take(bag, m) \in Bag
  BY TakeType
<1>2. Put(Take(bag, m), m) = bag
  <2>1. bag \in [Msg -> Nat] /\ Put(Take(bag, m), m) \in [Msg -> Nat]
    BY <1>1, PutType DEF Bag
  <2>2. \A n \in Msg : Put(Take(bag, m), m)[n] = bag[n]
    BY <2>1 DEF Put, Take
  <2>. QED
    BY <2>1, <2>2
<1>. QED
  BY <1>1, <1>2, CountPut, CountType

\* A count is zero exactly when there is no such message.
LEMMA CountZero ==
    ASSUME NEW bag \in Bag, NEW s
    PROVE  Count(bag, s) > 0 <=> \E m \in MsgsOf(s) : bag[m] > 0
<1>1. Count(bag, s) = 0 <=> Copies(bag, s) = {}
  BY CopiesFinite, FS_EmptySet DEF Count
<1>2. Copies(bag, s) # {} <=> \E m \in MsgsOf(s) : bag[m] > 0
  <2>1. ASSUME NEW m \in MsgsOf(s), bag[m] > 0 PROVE <<m, 1>> \in Copies(bag, s)
    <3>1. 1 \in 1..bag[m]
      BY <2>1 DEF Bag, MsgsOf
    <3>. QED
      BY <3>1, CopiesDef
  <2>2. ASSUME NEW p \in Copies(bag, s) PROVE \E m \in MsgsOf(s) : bag[m] > 0
    <3>1. PICK m \in MsgsOf(s) : \E i \in 1..bag[m] : p = <<m, i>>
      BY CopiesDef
    <3>2. bag[m] > 0
      BY <3>1 DEF Bag, MsgsOf
    <3>. QED
      BY <3>2
  <2>. QED
    BY <2>1, <2>2
<1>3. Count(bag, s) \in Nat
  BY CountType
<1>. QED
  BY <1>1, <1>2, <1>3

-----------------------------------------------------------------------------
(***************************************************************************)
(* What is in flight.  InFlight(s, P) counts everything that will still    *)
(* take a worker through the points P of processSubmission for s: messages  *)
(* in the API, in the two queues, and workers at one of these points.      *)
(***************************************************************************)
UnstoredPC == {"checking", "retrying", "failing", "running", "storing"}
UnmeteredPC == UnstoredPC \cup {"counting", "metering"}
UncachedPC == UnmeteredPC \cup {"caching"}

\* The initial segments of processSubmission the theorems count over.
Segments == {UnstoredPC, UnmeteredPC, UncachedPC}

WorkersOf(s, P) == {w \in Worker : pc[w] \in P /\ Of(w) = s}

InFlight(s, P) == publishing[s] + Count(queue, s) + Count(retryQueue, s)
                  + Cardinality(WorkersOf(s, P))

\* The parts of the count are natural numbers, and so is the count.
LEMMA InFlightType ==
    ASSUME TypeOK, NEW s \in Sub, NEW P
    PROVE  /\ publishing[s] \in Nat /\ Count(queue, s) \in Nat /\ Count(retryQueue, s) \in Nat
           /\ IsFiniteSet(WorkersOf(s, P)) /\ Cardinality(WorkersOf(s, P)) \in Nat
           /\ InFlight(s, P) \in Nat
<1>1. publishing[s] \in Nat
  BY DEF TypeOK, StoreType
<1>2. Count(queue, s) \in Nat /\ Count(retryQueue, s) \in Nat
  BY CountType DEF TypeOK, BrokerType
<1>3. IsFiniteSet(WorkersOf(s, P))
  BY PipelineAssumption, FS_Subset DEF WorkersOf
<1>4. Cardinality(WorkersOf(s, P)) \in Nat
  BY <1>3, FS_CardinalityType
<1>. QED
  BY <1>1, <1>2, <1>3, <1>4 DEF InFlight

LEMMA InFlightTypeNext ==
    ASSUME TypeOK', NEW s \in Sub, NEW P
    PROVE  InFlight(s, P)' \in Nat
<1>1. publishing'[s] \in Nat
  BY DEF TypeOK, StoreType
<1>2. Count(queue', s) \in Nat /\ Count(retryQueue', s) \in Nat
  BY CountType DEF TypeOK, BrokerType
<1>3. IsFiniteSet(WorkersOf(s, P)')
  BY PipelineAssumption, FS_Subset DEF WorkersOf
<1>4. Cardinality(WorkersOf(s, P)') \in Nat
  BY <1>3, FS_CardinalityType
<1>. QED
  BY <1>1, <1>2, <1>4 DEF InFlight, Count, Copies

\* A worker at a point of P is part of the count.
LEMMA WorkerCounts ==
    ASSUME TypeOK, NEW P, NEW w \in Worker, pc[w] \in P, pc[w] # "idle"
    PROVE  Of(w) \in Sub /\ Cardinality(WorkersOf(Of(w), P)) > 0 /\ InFlight(Of(w), P) > 0
<1>1. Of(w) \in Sub
  BY OfType DEF TypeOK
<1>2. w \in WorkersOf(Of(w), P)
  BY DEF WorkersOf
<1>3. Cardinality(WorkersOf(Of(w), P)) # 0
  BY <1>1, <1>2, InFlightType, FS_EmptySet
<1>. QED
  BY <1>1, <1>3, InFlightType DEF InFlight

\* When at most one is in flight, it is the only worker on its submission.
LEMMA OnlyWorker ==
    ASSUME TypeOK, NEW s \in Sub, NEW P, InFlight(s, P) <= 1,
           NEW v \in WorkersOf(s, P), NEW w \in WorkersOf(s, P)
    PROVE  v = w
<1>1. Cardinality(WorkersOf(s, P)) <= 1
  BY InFlightType DEF InFlight
<1>2. Cardinality(WorkersOf(s, P)) # 0
  BY InFlightType, FS_EmptySet
<1>3. Cardinality(WorkersOf(s, P)) = 1
  BY <1>1, <1>2, InFlightType
<1>4. IsFiniteSet(WorkersOf(s, P))
  BY InFlightType
<1>. QED
  BY <1>3, <1>4, FS_Singleton

\* A worker that goes from one point to another, or is done, changes only its
\* own place in the count: it leaves it when it leaves P ...
LEMMA WorkersMove ==
    ASSUME TypeOK, NEW P, NEW s \in Sub, NEW w \in Worker,
           \A v \in Worker \ {w} : pc'[v] = pc[v] /\ msg'[v] = msg[v],
           pc'[w] \in P => pc[w] \in P /\ msg'[w] = msg[w]
    PROVE  Cardinality(WorkersOf(s, P)') =
             IF pc[w] \in P /\ Of(w) = s /\ pc'[w] \notin P
               THEN Cardinality(WorkersOf(s, P)) - 1 ELSE Cardinality(WorkersOf(s, P))
<1>1. \A v \in Worker : v # w => (v \in WorkersOf(s, P)' <=> v \in WorkersOf(s, P))
  BY DEF WorkersOf, Of
<1>2. CASE pc[w] \in P /\ Of(w) = s /\ pc'[w] \notin P
  <2>1. w \in WorkersOf(s, P) /\ w \notin WorkersOf(s, P)'
    BY <1>2 DEF WorkersOf
  <2>2. WorkersOf(s, P)' = WorkersOf(s, P) \ {w}
    BY <1>1, <2>1 DEF WorkersOf
  <2>3. IsFiniteSet(WorkersOf(s, P))
    BY InFlightType
  <2>4. Cardinality(WorkersOf(s, P) \ {w}) = Cardinality(WorkersOf(s, P)) - 1
    BY <2>1, <2>3, FS_RemoveElement
  <2>. QED
    BY <1>2, <2>2, <2>4
<1>3. CASE ~(pc[w] \in P /\ Of(w) = s /\ pc'[w] \notin P)
  <2>1. w \in WorkersOf(s, P)' <=> w \in WorkersOf(s, P)
    BY <1>3 DEF WorkersOf, Of
  <2>2. WorkersOf(s, P)' = WorkersOf(s, P)
    BY <1>1, <2>1 DEF WorkersOf
  <2>. QED
    BY <1>3, <2>2
<1>. QED
  BY <1>2, <1>3

\* ... and enters it with its delivery.
LEMMA WorkersEnter ==
    ASSUME TypeOK, NEW P, "idle" \notin P, "checking" \in P, NEW s \in Sub,
           NEW w \in Worker, NEW m \in Msg, Deliver(w, m)
    PROVE  Cardinality(WorkersOf(s, P)') =
             IF m.sub = s THEN Cardinality(WorkersOf(s, P)) + 1 ELSE Cardinality(WorkersOf(s, P))
<1>1. /\ pc[w] = "idle" /\ pc'[w] = "checking" /\ msg'[w] = m
      /\ \A v \in Worker \ {w} : pc'[v] = pc[v] /\ msg'[v] = msg[v]
  BY DEF Deliver, At, Goto, TypeOK, WorkerType
<1>2. \A v \in Worker : v # w => (v \in WorkersOf(s, P)' <=> v \in WorkersOf(s, P))
  BY <1>1 DEF WorkersOf, Of
<1>3. w \notin WorkersOf(s, P) /\ (w \in WorkersOf(s, P)' <=> m.sub = s)
  BY <1>1 DEF WorkersOf, Of
<1>4. IsFiniteSet(WorkersOf(s, P))
  BY InFlightType
<1>5. CASE m.sub = s
  <2>1. WorkersOf(s, P)' = WorkersOf(s, P) \cup {w}
    BY <1>2, <1>3, <1>5 DEF WorkersOf
  <2>2. Cardinality(WorkersOf(s, P) \cup {w}) = Cardinality(WorkersOf(s, P)) + 1
    BY <1>3, <1>4, FS_AddElement
  <2>. QED
    BY <1>5, <2>1, <2>2
<1>6. CASE m.sub # s
  <2>1. WorkersOf(s, P)' = WorkersOf(s, P)
    BY <1>2, <1>3, <1>6 DEF WorkersOf
  <2>. QED
    BY <1>6, <2>1
<1>. QED
  BY <1>5, <1>6

\* A message that is published, possibly with a retry count of its own, counts
\* once for its submission and not for another.
LEMMA CountPutAtMost ==
    ASSUME NEW bag \in Bag, NEW m, NEW s
    PROVE  /\ Count(Put(bag, m), s) \in Nat
           /\ Count(Put(bag, m), s) <= Count(bag, s) + (IF m.sub = s THEN 1 ELSE 0)
<1>1. Count(bag, s) \in Nat /\ Count(Put(bag, m), s) \in Nat
  BY CountType, PutType
<1>2. CASE m \in Msg
  BY <1>1, <1>2, CountPut
<1>3. CASE m \notin Msg
  <2>1. Put(bag, m) = bag
    BY <1>3 DEF Bag, Put
  <2>. QED
    BY <1>1, <2>1
<1>. QED
  BY <1>2, <1>3

\* A step that leaves the workers alone.
LEMMA WorkersSame ==
    ASSUME NEW s, NEW P, UNCHANGED <<pc, msg>>
    PROVE  WorkersOf(s, P)' = WorkersOf(s, P)
  BY DEF WorkersOf, Of

\* A worker that is done with its delivery, having put it back or not.
LEMMA InFlightDone ==
    ASSUME TypeOK, NEW P \in Segments, NEW s \in Sub, NEW w \in Worker, pc[w] # "idle", Done(w),
           UNCHANGED <<publishing, retryQueue>>,
           \/ UNCHANGED queue
           \/ pc[w] \in UnstoredPC /\ queue' = Put(queue, msg[w])
    PROVE  InFlight(s, P)' <= InFlight(s, P)
<1> DEFINE W == Cardinality(WorkersOf(s, P))
<1>1. /\ pc'[w] = "idle" /\ "idle" \notin P
      /\ \A v \in Worker \ {w} : pc'[v] = pc[v] /\ msg'[v] = msg[v]
  BY DEF Done, Goto, TypeOK, WorkerType, Segments, UnstoredPC, UnmeteredPC, UncachedPC
<1>2. W' = IF pc[w] \in P /\ Of(w) = s THEN W - 1 ELSE W
  BY <1>1, WorkersMove
<1>3. /\ publishing[s] \in Nat /\ Count(queue, s) \in Nat /\ Count(retryQueue, s) \in Nat
      /\ W \in Nat
  BY InFlightType
<1>4. CASE UNCHANGED queue
  BY <1>2, <1>3, <1>4 DEF InFlight
<1>5. CASE pc[w] \in UnstoredPC /\ queue' = Put(queue, msg[w])
  <2>1. pc[w] \in P
    BY <1>5 DEF Segments, UnmeteredPC, UncachedPC
  <2>2. /\ Count(queue, s)' \in Nat
        /\ Count(queue, s)' <= Count(queue, s) + (IF Of(w) = s THEN 1 ELSE 0)
    BY <1>5, CountPutAtMost DEF TypeOK, BrokerType, Of
  <2> HIDE DEF W
  <2>. QED
    BY <1>2, <1>3, <2>1, <2>2 DEF InFlight, W
<1>. QED
  BY <1>4, <1>5

\* A worker that goes on, within P or out of it, and publishes nothing.
LEMMA InFlightGoes ==
    ASSUME TypeOK, NEW P \in Segments, NEW s \in Sub, NEW w \in Worker, NEW p, Goto(w, p),
           p \in P => pc[w] \in P, UNCHANGED <<publishing, queue, retryQueue, msg>>
    PROVE  InFlight(s, P)' = IF pc[w] \in P /\ Of(w) = s /\ p \notin P
                               THEN InFlight(s, P) - 1 ELSE InFlight(s, P)
<1>1. pc'[w] = p /\ \A v \in Worker \ {w} : pc'[v] = pc[v] /\ msg'[v] = msg[v]
  BY DEF Goto, TypeOK, WorkerType
<1>2. Cardinality(WorkersOf(s, P)') =
        IF pc[w] \in P /\ Of(w) = s /\ p \notin P
          THEN Cardinality(WorkersOf(s, P)) - 1 ELSE Cardinality(WorkersOf(s, P))
  BY <1>1, WorkersMove
<1>3. /\ publishing[s] \in Nat /\ Count(queue, s) \in Nat /\ Count(retryQueue, s) \in Nat
      /\ Cardinality(WorkersOf(s, P)) \in Nat
  BY InFlightType
<1>. QED
  BY <1>2, <1>3 DEF InFlight

\* A delivery takes a message out of the queue, the TTL of the retry queue
\* moves one, and publishing hands one over: nothing is added.
LEMMA InFlightMoves ==
    ASSUME TypeOK, NEW P \in Segments, NEW s \in Sub,
           \/ \E r \in Sub : Publish(r)
           \/ \E m \in Msg : RetryExpire(m)
           \/ \E w \in Worker, m \in Msg : Deliver(w, m)
           \/ \E w \in Worker : PublishRetry(w)
    PROVE  InFlight(s, P)' <= InFlight(s, P)
<1> DEFINE W == Cardinality(WorkersOf(s, P))
<1> USE DEF stores, api, broker, workers
<1>0. /\ publishing[s] \in Nat /\ Count(queue, s) \in Nat /\ Count(retryQueue, s) \in Nat
      /\ W \in Nat
  BY InFlightType
<1>a. queue \in Bag /\ retryQueue \in Bag
  BY DEF TypeOK, BrokerType
<1>1. ASSUME NEW r \in Sub, Publish(r) PROVE InFlight(s, P)' <= InFlight(s, P)
  <2>1. W' = W /\ retryQueue' = retryQueue
    BY <1>1, WorkersSame DEF Publish
  <2>2. /\ Count(queue, s)' \in Nat
        /\ Count(queue, s)' <= Count(queue, s) + (IF r = s THEN 1 ELSE 0)
    BY <1>1, <1>a, CountPutAtMost DEF Publish, Fresh
  <2>3. publishing[s]' = IF r = s THEN publishing[s] - 1 ELSE publishing[s]
    BY <1>1 DEF Publish, TypeOK, StoreType
  <2> HIDE DEF W
  <2>. QED
    BY <1>0, <2>1, <2>2, <2>3 DEF InFlight, W
<1>2. ASSUME NEW m \in Msg, RetryExpire(m) PROVE InFlight(s, P)' <= InFlight(s, P)
  <2>1. W' = W /\ publishing' = publishing
    BY <1>2, WorkersSame DEF RetryExpire
  <2>2. /\ Count(queue, s)' \in Nat
        /\ Count(queue, s)' <= Count(queue, s) + (IF m.sub = s THEN 1 ELSE 0)
    BY <1>2, <1>a, CountPutAtMost DEF RetryExpire
  <2>3. /\ Count(retryQueue, s)' \in Nat
        /\ Count(retryQueue, s) = IF m.sub = s THEN Count(retryQueue, s)' + 1
                                               ELSE Count(retryQueue, s)'
    BY <1>2, <1>a, CountTake DEF RetryExpire
  <2> HIDE DEF W
  <2>. QED
    BY <1>0, <2>1, <2>2, <2>3 DEF InFlight, W
<1>3. ASSUME NEW w \in Worker, NEW m \in Msg, Deliver(w, m)
      PROVE  InFlight(s, P)' <= InFlight(s, P)
  <2>1. publishing' = publishing /\ retryQueue' = retryQueue
    BY <1>3 DEF Deliver
  <2>2. "idle" \notin P /\ "checking" \in P
    BY DEF Segments, UnstoredPC, UnmeteredPC, UncachedPC
  <2>3. W' = IF m.sub = s THEN W + 1 ELSE W
    BY <1>3, <2>2, WorkersEnter
  <2>4. /\ Count(queue, s)' \in Nat
        /\ Count(queue, s) = IF m.sub = s THEN Count(queue, s)' + 1 ELSE Count(queue, s)'
    BY <1>3, <1>a, CountTake DEF Deliver
  <2> HIDE DEF W
  <2>. QED
    BY <1>0, <2>1, <2>3, <2>4 DEF InFlight, W
<1>4. ASSUME NEW w \in Worker, PublishRetry(w) PROVE InFlight(s, P)' <= InFlight(s, P)
  <2>1. publishing' = publishing /\ queue' = queue
    BY <1>4 DEF PublishRetry
  <2>2. /\ Count(retryQueue, s)' \in Nat
        /\ Count(retryQueue, s)' <= Count(retryQueue, s) + (IF Of(w) = s THEN 1 ELSE 0)
    <3>1. msg[w] \in Msg
      BY <1>4, OfType DEF PublishRetry, At, TypeOK
    <3>2. NextTry(msg[w]).sub = Of(w)
      BY <3>1 DEF NextTry, Of, Msg
    <3>3. retryQueue' = Put(retryQueue, NextTry(msg[w]))
      BY <1>4 DEF PublishRetry
    <3>. QED
      BY <1>a, <3>2, <3>3, CountPutAtMost
  <2>3. /\ pc'[w] = "acking" /\ pc[w] = "retrying"
        /\ \A v \in Worker \ {w} : pc'[v] = pc[v] /\ msg'[v] = msg[v]
    BY <1>4 DEF PublishRetry, At, Goto, TypeOK, WorkerType
  <2>4. "acking" \notin P /\ "retrying" \in P
    BY DEF Segments, UnstoredPC, UnmeteredPC, UncachedPC
  <2>5. W' = IF Of(w) = s THEN W - 1 ELSE W
    BY <2>3, <2>4, WorkersMove
  <2> HIDE DEF W
  <2>. QED
    BY <1>0, <2>1, <2>2, <2>5 DEF InFlight, W
<1>. QED
  BY <1>1, <1>2, <1>3, <1>4

\* While the judge and its connection stay up, only a submission or a rejudge
\* puts something new in flight.
LEMMA InFlightNext ==
    ASSUME TypeOK, NEW P \in Segments, NEW s \in Sub, [Next]_vars,
           ~Crash, ~ConnectionLost, ~Submit(s), ~RejudgeSave(s)
    PROVE  InFlight(s, P)' <= InFlight(s, P)
<1> USE DEF stores, api, broker, workers
<1>0. InFlight(s, P) \in Nat
  BY InFlightType
<1>1. ASSUME UNCHANGED <<publishing[s], queue, retryQueue, pc, msg>>
      PROVE  InFlight(s, P)' <= InFlight(s, P)
  <2>1. InFlight(s, P)' = InFlight(s, P)
    BY <1>1, WorkersSame DEF InFlight
  <2>. QED
    BY <1>0, <2>1
<1>2. ASSUME NEW r \in Sub, ApiStep(r) PROVE InFlight(s, P)' <= InFlight(s, P)
  <2>1. CASE Publish(r)
    BY <2>1, InFlightMoves
  <2>2. CASE PublishFail(r)
    <3>1. publishing[s]' = publishing[s] \/ publishing[s]' = publishing[s] - 1
      BY <2>2 DEF PublishFail, TypeOK, StoreType
    <3>2. /\ UNCHANGED <<queue, retryQueue>>
          /\ WorkersOf(s, P)' = WorkersOf(s, P)
      BY <2>2, WorkersSame DEF PublishFail
    <3>. QED
      BY <3>1, <3>2, InFlightType DEF InFlight
  <2>3. CASE ~Publish(r) /\ ~PublishFail(r)
    <3>1. UNCHANGED <<publishing[s], queue, retryQueue, pc, msg>>
      BY <1>2, <2>3 DEF ApiStep, Submit, RejudgeFind, RejudgeSave, ReadVerdict, ReadCache,
                        CacheExpire, TypeOK, StoreType
    <3>. QED
      BY <1>1, <3>1
  <2>. QED
    BY <2>1, <2>2, <2>3
<1>3. ASSUME NEW w \in Worker, Work(w) PROVE InFlight(s, P)' <= InFlight(s, P)
  <2>1. CASE PublishRetry(w)
    BY <2>1, InFlightMoves
  <2>2. CASE Ack(w)
    BY <2>2, InFlightDone DEF Ack, At
  <2>3. CASE ~PublishRetry(w) /\ ~Ack(w)
    <3>1. UNCHANGED <<publishing, queue, retryQueue, msg>>
      BY <1>3, <2>3 DEF Work, Acquire, AcquireFail, MarkFailed, Execute, StoreMongo,
                        StoreCounters, StoreUsage, StoreRedis
    <3>2. PICK p : Goto(w, p) /\ (p \in P => pc[w] \in P)
      BY <1>3, <2>3 DEF Work, Acquire, AcquireFail, MarkFailed, Execute, StoreMongo,
                        StoreCounters, StoreUsage, StoreRedis, At, Segments, UnstoredPC,
                        UnmeteredPC, UncachedPC
    <3>. QED
      BY <1>0, <3>1, <3>2, InFlightGoes
  <2>. QED
    BY <2>1, <2>2, <2>3
<1>4. ASSUME NEW w \in Worker, WorkerFault(w) PROVE InFlight(s, P)' <= InFlight(s, P)
  <2>1. /\ pc[w] \in UnstoredPC /\ pc[w] # "idle"
        /\ UNCHANGED <<publishing, retryQueue>> /\ Done(w)
        /\ UNCHANGED queue \/ queue' = Put(queue, msg[w])
    BY <1>4 DEF WorkerFault, Refuse, FetchFail, PublishRetryFail, WorkspaceFail, Requeue,
                Reject, At, UnstoredPC
  <2>. QED
    BY <2>1, InFlightDone
<1>5. ASSUME \E w \in Worker, m \in Msg : Deliver(w, m)
      PROVE  InFlight(s, P)' <= InFlight(s, P)
  BY <1>5, InFlightMoves
<1>6. ASSUME \E m \in Msg : RetryExpire(m) PROVE InFlight(s, P)' <= InFlight(s, P)
  BY <1>6, InFlightMoves
<1>7. ASSUME Signal \/ Stop \/ Start \/ UNCHANGED vars PROVE InFlight(s, P)' <= InFlight(s, P)
  BY <1>1, <1>7 DEF Signal, Stop, Start, vars
<1>. QED
  BY <1>2, <1>3, <1>4, <1>5, <1>6, <1>7 DEF Next

\* A submission or a rejudge puts one in flight, and only of its own.
LEMMA InFlightNew ==
    ASSUME TypeOK, NEW P, NEW s \in Sub, Submit(s) \/ RejudgeSave(s)
    PROVE  InFlight(s, P)' = InFlight(s, P) + 1
<1> USE DEF broker, workers
<1>1. publishing[s]' = publishing[s] + 1 /\ UNCHANGED <<queue, retryQueue>>
  BY DEF Submit, RejudgeSave, TypeOK, StoreType
<1>2. WorkersOf(s, P)' = WorkersOf(s, P)
  BY WorkersSame DEF Submit, RejudgeSave
<1>. QED
  BY <1>1, <1>2, InFlightType DEF InFlight

-----------------------------------------------------------------------------
(* What the broker takes back *)

\* What ReturnUnacked puts back is one message for each delivery that the broker
\* had no answer to.
LEMMA ReturnedMessages ==
    ASSUME TypeOK, ReturnUnacked
    PROVE  /\ queue' \in Bag
           /\ \A m \in Msg : queue'[m] >= queue[m]
           /\ \A m \in Msg : (\E w \in Worker : owns[w] /\ msg[w] = m) => queue'[m] > 0
<1>1. queue' \in Bag
  BY ReturnType DEF TypeOK
<1> SUFFICES ASSUME NEW m \in Msg
             PROVE  /\ queue'[m] >= queue[m]
                    /\ (\E w \in Worker : owns[w] /\ msg[w] = m) => queue'[m] > 0
  BY <1>1
<1> DEFINE U == {w \in Worker : owns[w] /\ msg[w] = m}
<1>2. IsFiniteSet(U)
  BY PipelineAssumption, FS_Subset
<1>3. Cardinality(U) \in Nat /\ (U # {} => Cardinality(U) # 0)
  BY <1>2, FS_CardinalityType, FS_EmptySet
<1>4. queue'[m] = queue[m] + Cardinality(U) /\ queue[m] \in Nat
  BY DEF ReturnUnacked, TypeOK, BrokerType, Bag
<1>5. (\E w \in Worker : owns[w] /\ msg[w] = m) => U # {}
  OBVIOUS
<1> HIDE DEF U
<1>. QED
  BY <1>3, <1>4, <1>5

\* The deliveries of a message that are not answered yet.
Lent(m) == {w \in Worker : owns[w] /\ msg[w] = m}

\* ReturnUnacked puts back as many messages of s as there are unanswered
\* deliveries of s: the new copies of each message stand in a bijection with
\* the workers that had it.
LEMMA ReturnCount ==
    ASSUME TypeOK, ReturnUnacked, NEW s \in Sub
    PROVE  Count(queue, s)' = Count(queue, s) + Cardinality(Unacked(s))
<1> DEFINE k(m) == Cardinality(Lent(m))
           N == {p \in Copies(queue', s) : p \notin Copies(queue, s)}
<1>1. \A m \in MsgsOf(s) : m \in Msg /\ queue[m] \in Nat
  BY DEF MsgsOf, TypeOK, BrokerType, Bag
<1>2. ASSUME NEW m \in MsgsOf(s)
      PROVE  k(m) \in Nat /\ ExistsBijection(1..k(m), Lent(m))
  <2>1. IsFiniteSet(Lent(m))
    BY PipelineAssumption, FS_Subset DEF Lent
  <2>. QED
    BY <2>1, FS_CardinalityType
<1>3. \A m \in MsgsOf(s) : queue'[m] = queue[m] + k(m)
  BY <1>1 DEF ReturnUnacked, Lent
<1> HIDE DEF k
<1>4. queue' \in Bag /\ queue \in Bag
  BY ReturnedMessages DEF TypeOK, BrokerType
<1>5. Copies(queue, s) \subseteq Copies(queue', s)
  <2>1. ASSUME NEW m \in MsgsOf(s), NEW i \in 1..queue[m] PROVE i \in 1..queue'[m]
    BY <1>1, <1>2, <1>3, <2>1
  <2>2. ASSUME NEW p, p \in Copies(queue, s) PROVE p \in Copies(queue', s)
    <3>1. PICK m \in MsgsOf(s) : \E i \in 1..queue[m] : p = <<m, i>>
      BY <2>2, CopiesDef
    <3>2. \E i \in 1..queue'[m] : p = <<m, i>>
      BY <2>1, <3>1
    <3>. QED
      BY <3>2, CopiesDef
  <2>. QED
    BY <2>2
<1>6. ASSUME NEW p
      PROVE  p \in N <=> \E m \in MsgsOf(s) : \E i \in 1..k(m) : p = <<m, queue[m] + i>>
  <2>1. p \in Copies(queue, s) <=> \E m \in MsgsOf(s) : \E i \in 1..queue[m] : p = <<m, i>>
    BY CopiesDef
  <2>2. p \in Copies(queue', s) <=> \E m \in MsgsOf(s) : \E i \in 1..queue'[m] : p = <<m, i>>
    BY CopiesDef
  <2>3. ASSUME NEW m \in MsgsOf(s), NEW i
        PROVE  i \in 1..queue'[m] /\ i \notin 1..queue[m]
                 <=> \E j \in 1..k(m) : i = queue[m] + j
    <3>1. k(m) \in Nat /\ queue[m] \in Nat /\ queue'[m] = queue[m] + k(m)
      BY <1>1, <1>2, <1>3
    <3>2. ASSUME i \in 1..queue'[m], i \notin 1..queue[m]
          PROVE  i - queue[m] \in 1..k(m) /\ i = queue[m] + (i - queue[m])
      BY <3>1, <3>2
    <3>3. ASSUME NEW j \in 1..k(m), i = queue[m] + j
          PROVE  i \in 1..queue'[m] /\ i \notin 1..queue[m]
      BY <3>1, <3>3
    <3>. QED
      BY <3>2, <3>3
  <2>4. ASSUME p \in N
        PROVE  \E m \in MsgsOf(s) : \E i \in 1..k(m) : p = <<m, queue[m] + i>>
    <3>1. PICK m \in MsgsOf(s) : \E i \in 1..queue'[m] : p = <<m, i>>
      BY <2>2, <2>4
    <3>2. PICK i \in 1..queue'[m] : p = <<m, i>>
      BY <3>1
    <3>3. i \notin 1..queue[m]
      BY <2>1, <2>4, <3>2
    <3>. QED
      BY <2>3, <3>2, <3>3
  <2>5. ASSUME NEW m \in MsgsOf(s), NEW i \in 1..k(m), p = <<m, queue[m] + i>>
        PROVE  p \in N
    <3>1. queue[m] + i \in 1..queue'[m] /\ queue[m] + i \notin 1..queue[m]
      BY <2>3
    <3>2. p \in Copies(queue', s)
      BY <2>2, <2>5, <3>1
    <3>3. ASSUME NEW n \in MsgsOf(s), NEW j \in 1..queue[n] PROVE p # <<n, j>>
      BY <2>5, <3>1
    <3>4. p \notin Copies(queue, s)
      BY <2>1, <3>3
    <3>. QED
      BY <3>2, <3>4
  <2>. QED
    BY <2>4, <2>5
<1> HIDE DEF N
<1>7. Cardinality(N) = Cardinality(Unacked(s)) /\ IsFiniteSet(N)
  <2> DEFINE g == [m \in MsgsOf(s) |-> CHOOSE f : f \in Bijection(1..k(m), Lent(m))]
             h == [p \in N |-> g[p[1]][p[2] - queue[p[1]]]]
  <2>1. ASSUME NEW m \in MsgsOf(s)
        PROVE  g[m] \in Bijection(1..k(m), Lent(m))
    <3>1. \E f : f \in Bijection(1..k(m), Lent(m))
      BY <1>2 DEF ExistsBijection
    <3>. QED
      BY <3>1
  <2> HIDE DEF g
  <2>2. ASSUME NEW m \in MsgsOf(s)
        PROVE  /\ \A i \in 1..k(m) : g[m][i] \in Lent(m)
               /\ \A i, j \in 1..k(m) : g[m][i] = g[m][j] => i = j
               /\ \A w \in Lent(m) : \E i \in 1..k(m) : g[m][i] = w
    <3> DEFINE D == 1..k(m)
               T == Lent(m)
               f == g[m]
    <3>1. f \in Bijection(D, T)
      BY <2>1
    <3> HIDE DEF D, T, f
    <3>2. /\ \A i \in D : f[i] \in T
          /\ \A i, j \in D : f[i] = f[j] => i = j
          /\ \A w \in T : \E i \in D : f[i] = w
      BY <3>1, Fun_BijectionProperties
    <3>. QED
      BY <3>2 DEF D, T, f
  <2>3. ASSUME NEW m \in MsgsOf(s), NEW i \in 1..k(m)
        PROVE  <<m, queue[m] + i>> \in N /\ h[<<m, queue[m] + i>>] = g[m][i]
    <3>1. <<m, queue[m] + i>> \in N
      BY <1>6
    <3> DEFINE p == <<m, queue[m] + i>>
    <3>2. p[1] = m /\ p[2] = queue[m] + i
      OBVIOUS
    <3>3. p[2] - queue[m] = i
      BY <1>1, <3>2
    <3> HIDE DEF p
    <3>4. p \in N
      BY <3>1 DEF p
    <3>5. h[p] = g[p[1]][p[2] - queue[p[1]]]
      BY <3>4
    <3> HIDE DEF h
    <3>6. h[p] = g[m][i]
      BY <3>2, <3>3, <3>5, Zenon
    <3>7. p \in N /\ h[p] = g[m][i]
      BY <3>4, <3>6
    <3>. QED
      BY <3>7, Zenon DEF p
  <2> HIDE DEF h
  <2>4. \A p \in N : h[p] \in Unacked(s)
    <3> SUFFICES ASSUME NEW p \in N PROVE h[p] \in Unacked(s)
      OBVIOUS
    <3>1. PICK m \in MsgsOf(s) : \E i \in 1..k(m) : p = <<m, queue[m] + i>>
      BY <1>6
    <3>2. h[p] \in Lent(m)
      BY <2>2, <2>3, <3>1
    <3>. QED
      BY <3>2 DEF Lent, Unacked, Of, MsgsOf
  <2>5. \A p, q \in N : h[p] = h[q] => p = q
    <3> SUFFICES ASSUME NEW p \in N, NEW q \in N, h[p] = h[q] PROVE p = q
      OBVIOUS
    <3>m. PICK m \in MsgsOf(s) : \E i \in 1..k(m) : p = <<m, queue[m] + i>>
      BY <1>6
    <3>1. PICK i \in 1..k(m) : p = <<m, queue[m] + i>>
      BY <3>m
    <3>n. PICK n \in MsgsOf(s) : \E j \in 1..k(n) : q = <<n, queue[n] + j>>
      BY <1>6
    <3>2. PICK j \in 1..k(n) : q = <<n, queue[n] + j>>
      BY <3>n
    <3>3. h[p] = g[m][i] /\ h[q] = g[n][j] /\ h[p] \in Lent(m) /\ h[q] \in Lent(n)
      BY <2>2, <2>3, <3>1, <3>2
    <3>4. m = n
      BY <3>3 DEF Lent
    <3>5. i = j
      BY <2>2, <3>3, <3>4
    <3>. QED
      BY <3>1, <3>2, <3>4, <3>5
  <2>6. \A w \in Unacked(s) : \E p \in N : h[p] = w
    <3> SUFFICES ASSUME NEW w \in Unacked(s) PROVE \E p \in N : h[p] = w
      OBVIOUS
    <3>1. w \in Worker /\ owns[w] /\ pc[w] # "idle" /\ Of(w) = s
      BY DEF Unacked, TypeOK, WorkerType
    <3>2. msg[w] \in MsgsOf(s) /\ w \in Lent(msg[w])
      BY <3>1, OfType DEF TypeOK, MsgsOf, Of, Lent
    <3>3. PICK i \in 1..k(msg[w]) : g[msg[w]][i] = w
      BY <2>2, <3>2
    <3>. QED
      BY <2>3, <3>2, <3>3
  <2>7. h \in Bijection(N, Unacked(s))
    <3>1. h \in [N -> Unacked(s)]
      BY <2>4 DEF h
    <3>. QED
      BY <2>5, <2>6, <3>1, Fun_IsBij
  <2>8. ExistsBijection(N, Unacked(s))
    BY <2>7 DEF ExistsBijection
  <2>9. IsFiniteSet(N)
    <3>1. IsFiniteSet(Copies(queue', s))
      BY <1>4, CopiesFinite
    <3>. QED
      BY <3>1, FS_Subset DEF N
  <2>. QED
    BY <2>8, <2>9, FS_Bijection
<1>8. /\ Copies(queue', s) = Copies(queue, s) \cup N
      /\ Copies(queue, s) \cap N = {}
  BY <1>5 DEF N
<1>9. Cardinality(Copies(queue', s)) = Cardinality(Copies(queue, s)) + Cardinality(N)
  <2>1. IsFiniteSet(Copies(queue, s))
    BY <1>4, CopiesFinite
  <2>2. Cardinality(Copies(queue, s) \cup N) =
          Cardinality(Copies(queue, s)) + Cardinality(N) - Cardinality(Copies(queue, s) \cap N)
    BY <1>7, <2>1, FS_Union
  <2>3. Cardinality(Copies(queue, s) \cap N) = 0
    BY <1>8, FS_EmptySet
  <2>4. Cardinality(Copies(queue, s)) \in Nat /\ Cardinality(N) \in Nat
    BY <1>7, <2>1, FS_CardinalityType
  <2>. QED
    BY <1>8, <2>2, <2>3, <2>4
<1>. QED
  BY <1>7, <1>9 DEF Count

\* Whatever breaks, what comes back in flight are the deliveries taken back.
LEMMA InFlightReturn ==
    ASSUME TypeOK, NEW P \in Segments, NEW s \in Sub, Crash \/ ConnectionLost
    PROVE  /\ Cardinality(Unacked(s)) \in Nat
           /\ InFlight(s, P)' <= InFlight(s, P) + Cardinality(Unacked(s))
<1> DEFINE W == Cardinality(WorkersOf(s, P))
<1>1. /\ ReturnUnacked /\ UNCHANGED <<publishing, retryQueue>>
  BY DEF Crash, ConnectionLost, api
<1>2. Count(queue, s)' = Count(queue, s) + Cardinality(Unacked(s))
  BY <1>1, ReturnCount
<1>3. /\ publishing[s] \in Nat /\ Count(queue, s) \in Nat /\ Count(retryQueue, s) \in Nat
      /\ W \in Nat
  BY InFlightType
<1>4. Cardinality(Unacked(s)) \in Nat
  <2>1. IsFiniteSet(Unacked(s))
    BY PipelineAssumption, FS_Subset DEF Unacked
  <2>. QED
    BY <2>1, FS_CardinalityType
<1>5. W' \in Nat /\ W' <= W
  <2>1. CASE ConnectionLost
    <3>1. WorkersOf(s, P)' = WorkersOf(s, P)
      BY <2>1, WorkersSame DEF ConnectionLost
    <3>. QED
      BY <1>3, <3>1
  <2>2. CASE Crash
    <3>1. WorkersOf(s, P)' = {}
      BY <2>2 DEF Crash, ResetWorkers, WorkersOf, Segments, UnstoredPC, UnmeteredPC, UncachedPC
    <3>2. W' = 0
      BY <3>1, FS_EmptySet
    <3>. QED
      BY <1>3, <3>2
  <2>. QED
    BY <2>1, <2>2
<1>6. Count(retryQueue, s)' = Count(retryQueue, s)
  BY <1>1 DEF Count, Copies
<1> HIDE DEF W
<1>. QED
  BY <1>1, <1>2, <1>3, <1>4, <1>5, <1>6 DEF InFlight, W

-----------------------------------------------------------------------------
(* The history *)

HStep == [HNext]_<<vars, history>>

LEMMA HStepIsStep == HStep => [Next]_vars
  BY DEF HStep, HNext

\* Only a worker that stores or gives up ends a run.
LEMMA EndsFrame ==
    ASSUME TypeOK, [Next]_vars, NEW w \in Worker, Ends(w)
    PROVE  /\ StoreMongo(w) \/ MarkFailed(w)
           /\ \A v \in Worker : v # w => pc'[v] = pc[v]
<1> USE DEF workers
<1>1. pc[w] \in {"storing", "failing"} /\ pc'[w] \in {"counting", "acking"} /\ pc'[w] # pc[w]
  BY DEF Ends
<1>2. ASSUME NEW v \in Worker, Work(v)
      PROVE  v = w /\ (StoreMongo(w) \/ MarkFailed(w))
  <2>1. v = w
    <3>1. \A u \in Worker : u # v => pc'[u] = pc[u]
      BY <1>2 DEF Work, Acquire, AcquireFail, MarkFailed, PublishRetry, Execute, StoreMongo,
                  StoreCounters, StoreUsage, StoreRedis, Ack, Goto, Done, TypeOK, WorkerType
    <3>. QED
      BY <1>1, <3>1
  <2>. QED
    BY <1>1, <1>2, <2>1 DEF Work, Acquire, AcquireFail, MarkFailed, PublishRetry, Execute,
                StoreMongo, StoreCounters, StoreUsage, StoreRedis, Ack, At, Goto, Done
<1>3. ASSUME NEW v \in Worker, WorkerFault(v) PROVE FALSE
  <2>1. Done(v)
    BY <1>3 DEF WorkerFault, Refuse, FetchFail, PublishRetryFail, WorkspaceFail, Requeue, Reject
  <2>. QED
    BY <1>1, <2>1 DEF Done, Goto, TypeOK, WorkerType
<1>4. ASSUME NEW v \in Worker, NEW m \in Msg, Deliver(v, m) PROVE FALSE
  BY <1>1, <1>4 DEF Deliver, Goto, TypeOK, WorkerType
<1>5. ASSUME NEW s \in Sub, ApiStep(s) PROVE FALSE
  BY <1>1, <1>5 DEF ApiStep, Submit, Publish, PublishFail, RejudgeFind, RejudgeSave, ReadVerdict,
                    ReadCache, CacheExpire
<1>6. ~((\E m \in Msg : RetryExpire(m)) \/ Crash \/ ConnectionLost \/ Signal \/ Stop \/ Start
        \/ UNCHANGED vars)
  BY <1>1 DEF RetryExpire, Crash, ResetWorkers, ConnectionLost, Signal, Stop, Start, vars
<1>7. PICK v \in Worker : Work(v)
  BY <1>3, <1>4, <1>5, <1>6 DEF Next
<1>8. v = w /\ (StoreMongo(w) \/ MarkFailed(w))
  BY <1>2, <1>7
<1>. QED
  BY <1>8 DEF StoreMongo, MarkFailed, Goto, TypeOK, WorkerType

LEMMA HistoryFrame ==
    ASSUME TypeOK, HistoryType, HStep, NEW s \in Sub
    PROVE  /\ redelivered'[s] \in Nat /\ ended'[s] \in Nat
           /\ \/ redelivered'[s] = redelivered[s]
                   + (IF Crash \/ ConnectionLost THEN Cardinality(Unacked(s)) ELSE 0)
              \/ UNCHANGED vars /\ redelivered'[s] = redelivered[s]
           /\ \/ ended'[s] = ended[s]
              \/ /\ ended'[s] = ended[s] + 1
                 /\ \E w \in Worker : (StoreMongo(w) \/ MarkFailed(w)) /\ Of(w) = s
<1>0. redelivered[s] \in Nat /\ ended[s] \in Nat
  BY DEF HistoryType
<1>1. CASE UNCHANGED <<vars, history>>
  BY <1>0, <1>1 DEF history
<1>2. CASE HNext
  <2> DEFINE E == {w \in Worker : Ends(w) /\ Of(w) = s}
  <2>1. /\ ended'[s] = ended[s] + Cardinality(E)
        /\ redelivered'[s] = redelivered[s]
             + (IF Crash \/ ConnectionLost THEN Cardinality(Unacked(s)) ELSE 0)
    BY <1>2 DEF HNext
  <2>2. redelivered'[s] \in Nat
    <3>1. UnstoredPC \in Segments
      BY DEF Segments
    <3>. QED
      BY <1>0, <2>1, <3>1, InFlightReturn
  <2>3. CASE E = {}
    <3>1. Cardinality(E) = 0
      BY <2>3, FS_EmptySet
    <3>. QED
      BY <1>0, <2>1, <2>2, <3>1
  <2>4. CASE E # {}
    <3>1. PICK w \in E : TRUE
      BY <2>4
    <3>2. StoreMongo(w) \/ MarkFailed(w)
      BY <1>2, <3>1, EndsFrame DEF HNext
    <3>3. \A v \in E : v = w
      <4>1. ASSUME NEW v \in E, v # w PROVE FALSE
        <5>1. pc'[v] = pc[v]
          BY <1>2, <3>1, <4>1, EndsFrame DEF HNext
        <5>. QED
          BY <4>1, <5>1 DEF Ends
      <4>. QED
        BY <4>1
    <3>4. E = {w}
      BY <3>1, <3>3
    <3>5. Cardinality(E) = 1
      BY <3>4, FS_Singleton
    <3>. QED
      BY <1>0, <2>1, <2>2, <3>1, <3>2, <3>5
  <2>. QED
    BY <2>3, <2>4
<1>. QED
  BY <1>1, <1>2 DEF HStep

LEMMA HistoryNext == TypeOK /\ HistoryType /\ HStep => HistoryType'
<1> SUFFICES ASSUME TypeOK, HistoryType, HStep PROVE HistoryType'
  OBVIOUS
<1>1. ended' = [s \in Sub |-> ended'[s]] /\ redelivered' = [s \in Sub |-> redelivered'[s]]
  BY DEF HStep, HNext, HistoryType, history
<1>2. \A s \in Sub : ended'[s] \in Nat /\ redelivered'[s] \in Nat
  BY HistoryFrame
<1>. QED
  BY <1>1, <1>2 DEF HistoryType

\* Only a submission, a rejudge and what the broker takes back put something
\* new in flight.
LEMMA InFlightStep ==
    ASSUME TypeOK, HistoryType, HStep, NEW P \in Segments, NEW s \in Sub,
           ~Submit(s), ~RejudgeSave(s)
    PROVE  InFlight(s, P)' <= InFlight(s, P) + (redelivered'[s] - redelivered[s])
<1>0. /\ InFlight(s, P) \in Nat /\ InFlight(s, P)' \in Nat
      /\ redelivered[s] \in Nat
  BY HStepIsStep, TypeNext, InFlightType, InFlightTypeNext DEF HistoryType
<1>1. CASE UNCHANGED vars /\ redelivered'[s] = redelivered[s]
  <2>1. ~Crash /\ ~ConnectionLost
    BY <1>1 DEF vars, Crash, ConnectionLost, Fault, TypeOK, BrokerType
  <2>. QED
    BY <1>0, <1>1, <2>1, HStepIsStep, InFlightNext
<1>2. CASE redelivered'[s] = redelivered[s]
             + (IF Crash \/ ConnectionLost THEN Cardinality(Unacked(s)) ELSE 0)
  <2>1. CASE Crash \/ ConnectionLost
    BY <1>0, <1>2, <2>1, InFlightReturn
  <2>2. CASE ~Crash /\ ~ConnectionLost
    BY <1>0, <1>2, <2>2, HStepIsStep, InFlightNext
  <2>. QED
    BY <2>1, <2>2
<1>. QED
  BY <1>1, <1>2, HistoryFrame

-----------------------------------------------------------------------------
(* The budget of runs *)

Saving(s) == IF rejudging[s] = "none" THEN 0 ELSE 1
Stored(s) == IF mongo[s] = "none" THEN 0 ELSE 1

\* What has ended, or was charged, is still to come to that, or is about to be
\* published by a rejudge, is paid for by the submission, by one of its rejudges
\* or by a delivery that was taken back.
Budget ==
    \A s \in Sub :
        /\ ended[s] + InFlight(s, UnstoredPC) + Saving(s)
             <= rejudges[s] + redelivered[s] + Stored(s)
        /\ metered[s] + InFlight(s, UnmeteredPC) + Saving(s)
             <= rejudges[s] + redelivered[s] + Stored(s)

\* Nothing is in flight before the first request.
LEMMA InFlightInit ==
    ASSUME Init, NEW P \in Segments, NEW s \in Sub
    PROVE  InFlight(s, P) = 0
<1>1. TypeOK
  BY TypeInit
<1>2. publishing[s] = 0
  BY DEF Init
<1>3. Count(queue, s) = 0 /\ Count(retryQueue, s) = 0
  <2>1. \A m \in MsgsOf(s) : ~(queue[m] > 0) /\ ~(retryQueue[m] > 0)
    BY DEF Init, MsgsOf
  <2>. QED
    BY <1>1, <2>1, CountZero, InFlightType DEF TypeOK, BrokerType
<1>4. WorkersOf(s, P) = {}
  BY DEF Init, WorkersOf, Segments, UnstoredPC, UnmeteredPC, UncachedPC
<1>5. Cardinality(WorkersOf(s, P)) = 0
  BY <1>4, FS_EmptySet
<1>. QED
  BY <1>2, <1>3, <1>5 DEF InFlight

\* A stored submission stays stored.
LEMMA StoredStays ==
    ASSUME TypeOK, [Next]_vars, NEW s \in Sub, mongo[s] # "none"
    PROVE  mongo'[s] # "none"
<1> USE DEF stores, api, TypeOK
<1>1. ASSUME NEW r \in Sub, ApiStep(r) PROVE mongo'[s] # "none"
  BY <1>1 DEF ApiStep, Submit, Publish, PublishFail, RejudgeFind, RejudgeSave, ReadVerdict,
              ReadCache, CacheExpire, StoreType
<1>2. ASSUME NEW w \in Worker, Work(w) PROVE mongo'[s] # "none"
  <2>1. pc[w] = "storing" => verdict[w] # "none"
    BY DEF WorkerType, StoringPC
  <2>. QED
    BY <1>2, <2>1 DEF Work, Acquire, AcquireFail, MarkFailed, PublishRetry, Execute, StoreMongo,
                      StoreCounters, StoreUsage, StoreRedis, Ack, At, StoreType
<1>3. ASSUME NEW w \in Worker, WorkerFault(w) \/ \E m \in Msg : Deliver(w, m)
      PROVE  mongo'[s] # "none"
  BY <1>3 DEF WorkerFault, Refuse, FetchFail, PublishRetryFail, WorkspaceFail, Deliver
<1>. QED
  BY <1>1, <1>2, <1>3
  DEF Next, RetryExpire, Crash, ConnectionLost, Signal, Stop, Start, vars

\* Metering takes its own run out of the count.
LEMMA MeteringCounts ==
    ASSUME TypeOK, NEW w \in Worker, StoreUsage(w), NEW s \in Sub, Of(w) = s
    PROVE  InFlight(s, UnmeteredPC)' = InFlight(s, UnmeteredPC) - 1
<1>1. /\ pc[w] = "metering" /\ Goto(w, "caching")
      /\ UNCHANGED <<publishing, queue, retryQueue, msg>>
  BY DEF StoreUsage, At, api, broker
<1>2. pc[w] \in UnmeteredPC /\ "caching" \notin UnmeteredPC /\ UnmeteredPC \in Segments
  BY <1>1 DEF UnmeteredPC, UnstoredPC, Segments
<1>. QED
  BY <1>1, <1>2, InFlightGoes

\* A worker that stores its result, or gives up, takes its run out of the count
\* of those that have nothing stored.
LEMMA StoringCounts ==
    ASSUME TypeOK, NEW w \in Worker, StoreMongo(w) \/ MarkFailed(w), NEW s \in Sub, Of(w) = s
    PROVE  /\ InFlight(s, UnstoredPC) > 0
           /\ InFlight(s, UnstoredPC)' = InFlight(s, UnstoredPC) - 1
<1> DEFINE p == IF pc[w] = "storing" THEN "counting" ELSE "acking"
<1>1. /\ pc[w] \in {"storing", "failing"} /\ Goto(w, p)
      /\ UNCHANGED <<publishing, queue, retryQueue, msg>>
  BY DEF StoreMongo, MarkFailed, At, api, broker
<1>2. /\ pc[w] \in UnstoredPC /\ p \notin UnstoredPC /\ UnstoredPC \in Segments
      /\ pc[w] # "idle"
  BY <1>1 DEF UnstoredPC, Segments
<1> HIDE DEF p
<1>3. InFlight(s, UnstoredPC)' = InFlight(s, UnstoredPC) - 1
  BY <1>1, <1>2, InFlightGoes
<1>4. InFlight(s, UnstoredPC) > 0
  BY <1>2, WorkerCounts
<1>. QED
  BY <1>3, <1>4

\* The other steps meter nothing and count no rejudge.
LEMMA MeteredFrame ==
    ASSUME TypeOK, [Next]_vars, NEW s \in Sub
    PROVE  /\ metered'[s] = metered[s] \/ (\E w \in Worker : StoreUsage(w) /\ Of(w) = s)
           /\ rejudging'[s] = rejudging[s] \/ RejudgeFind(s) \/ RejudgeSave(s)
           /\ rejudges'[s] = rejudges[s] \/ RejudgeFind(s)
<1> USE DEF stores, api
<1>1. CASE \E r \in Sub : ApiStep(r)
  BY <1>1 DEF ApiStep, Submit, Publish, PublishFail, RejudgeFind, RejudgeSave, ReadVerdict,
              ReadCache, CacheExpire, TypeOK, StoreType
<1>2. ASSUME NEW w \in Worker, Work(w)
      PROVE  /\ metered'[s] = metered[s] \/ (StoreUsage(w) /\ Of(w) = s)
             /\ UNCHANGED <<rejudging, rejudges>>
  BY <1>2 DEF Work, Acquire, AcquireFail, MarkFailed, PublishRetry, Execute, StoreMongo,
              StoreCounters, StoreUsage, StoreRedis, Ack, TypeOK, StoreType
<1>3. CASE \E w \in Worker : WorkerFault(w) \/ \E m \in Msg : Deliver(w, m)
  BY <1>3 DEF WorkerFault, Refuse, FetchFail, PublishRetryFail, WorkspaceFail, Deliver
<1>4. CASE \/ \E m \in Msg : RetryExpire(m)
           \/ Crash \/ ConnectionLost \/ Signal \/ Stop \/ Start \/ UNCHANGED vars
  BY <1>4 DEF RetryExpire, Crash, ConnectionLost, Signal, Stop, Start, vars
<1>. QED
  BY <1>1, <1>2, <1>3, <1>4 DEF Next

\* A counter c that grows to d only as its run leaves P stays within the budget.
LEMMA BudgetStep ==
    ASSUME TypeOK, HistoryType, HStep, NEW s \in Sub, NEW P \in Segments, NEW c \in Nat,
           NEW d \in Nat,
           \/ d = c
           \/ /\ d <= c + 1 /\ InFlight(s, P)' = InFlight(s, P) - 1
              /\ ~Submit(s) /\ ~RejudgeFind(s) /\ ~RejudgeSave(s),
           c + InFlight(s, P) + Saving(s) <= rejudges[s] + redelivered[s] + Stored(s)
    PROVE  d + InFlight(s, P)' + Saving(s)' <= rejudges'[s] + redelivered'[s] + Stored(s)'
<1> DEFINE L == InFlight(s, P)
<1> USE DEF stores, api
<1>1. [Next]_vars /\ TypeOK'
  BY HStepIsStep, TypeNext
<1>2. L \in Nat /\ L' \in Nat
  BY <1>1, InFlightType, InFlightTypeNext
<1>3. /\ rejudges[s] \in Nat /\ rejudges'[s] \in Nat
      /\ redelivered[s] \in Nat /\ redelivered'[s] \in Nat
  BY <1>1, HistoryNext, PipelineAssumption DEF TypeOK, StoreType, HistoryType
<1>4. Stored(s)' >= Stored(s)
  BY <1>1, StoredStays DEF Stored
<1>5. redelivered'[s] >= redelivered[s]
  <2>1. UnstoredPC \in Segments
    BY DEF Segments
  <2>. QED
    BY <1>3, <2>1, HistoryFrame, InFlightReturn
<1>6. Saving(s) \in {0, 1} /\ Saving(s)' \in {0, 1} /\ Stored(s) \in {0, 1} /\ Stored(s)' \in {0, 1}
  BY DEF Saving, Stored
<1> HIDE DEF L
<1>7. CASE Submit(s)
  <2>1. L' = L + 1
    BY <1>7, InFlightNew DEF L
  <2>2. Stored(s) = 0 /\ Stored(s)' = 1
    BY <1>7 DEF Submit, Stored, TypeOK, StoreType
  <2>3. UNCHANGED <<rejudging, rejudges>>
    BY <1>7 DEF Submit
  <2>4. Saving(s)' = Saving(s)
    BY <2>3 DEF Saving
  <2>. QED
    BY <1>2, <1>3, <1>5, <1>6, <1>7, <2>1, <2>2, <2>3, <2>4 DEF L
<1>8. CASE RejudgeSave(s)
  <2>1. L' = L + 1
    BY <1>8, InFlightNew DEF L
  <2>2. Saving(s) = 1 /\ Saving(s)' = 0
    BY <1>8 DEF RejudgeSave, Saving, TypeOK, StoreType
  <2>3. UNCHANGED rejudges
    BY <1>8 DEF RejudgeSave
  <2>. QED
    BY <1>2, <1>3, <1>4, <1>5, <1>6, <1>8, <2>1, <2>2, <2>3 DEF L
<1>9. CASE ~Submit(s) /\ ~RejudgeSave(s)
  <2>1. L' <= L + (redelivered'[s] - redelivered[s])
    BY <1>9, InFlightStep DEF L
  <2>2. CASE RejudgeFind(s)
    <3>1. Saving(s) = 0 /\ rejudges'[s] = rejudges[s] + 1
      BY <2>2 DEF RejudgeFind, Saving, TypeOK, StoreType
    <3>. QED
      BY <1>2, <1>3, <1>4, <1>6, <2>1, <2>2, <3>1 DEF L
  <2>3. CASE ~RejudgeFind(s)
    <3>1. rejudging'[s] = rejudging[s] /\ rejudges'[s] = rejudges[s]
      BY <1>1, <1>9, <2>3, MeteredFrame
    <3>2. Saving(s)' = Saving(s)
      BY <3>1 DEF Saving
    <3>3. CASE d = c
      BY <1>2, <1>3, <1>4, <1>6, <2>1, <3>1, <3>2, <3>3 DEF L
    <3>4. CASE d <= c + 1 /\ L' = L - 1
      BY <1>2, <1>3, <1>4, <1>5, <1>6, <3>1, <3>2, <3>4 DEF L
    <3>. QED
      BY <3>3, <3>4 DEF L
  <2>. QED
    BY <2>2, <2>3
<1>. QED
  BY <1>7, <1>8, <1>9

\* A step of a worker is none of the API's.
LEMMA WorkerStepAlone ==
    ASSUME TypeOK, NEW w \in Worker, StoreMongo(w) \/ MarkFailed(w) \/ StoreUsage(w), NEW s \in Sub
    PROVE  ~Submit(s) /\ ~RejudgeFind(s) /\ ~RejudgeSave(s)
<1>1. pc'[w] # pc[w]
  BY DEF StoreMongo, MarkFailed, StoreUsage, At, Goto, TypeOK, WorkerType
<1>. QED
  BY <1>1 DEF Submit, RejudgeFind, RejudgeSave, workers

LEMMA BudgetNext ==
    ASSUME TypeOK, HistoryType, Budget, HStep
    PROVE  Budget'
<1> SUFFICES ASSUME NEW s \in Sub
             PROVE  /\ ended'[s] + InFlight(s, UnstoredPC)' + Saving(s)'
                         <= rejudges'[s] + redelivered'[s] + Stored(s)'
                    /\ metered'[s] + InFlight(s, UnmeteredPC)' + Saving(s)'
                         <= rejudges'[s] + redelivered'[s] + Stored(s)'
  BY DEF Budget
<1>1. [Next]_vars /\ TypeOK' /\ UnstoredPC \in Segments /\ UnmeteredPC \in Segments
  BY HStepIsStep, TypeNext DEF Segments
<1>2. metered[s] \in Nat /\ metered'[s] \in Nat /\ ended[s] \in Nat /\ ended'[s] \in Nat
  BY <1>1, HistoryFrame DEF TypeOK, StoreType, HistoryType
<1>3. \/ ended'[s] = ended[s]
      \/ /\ ended'[s] <= ended[s] + 1
         /\ InFlight(s, UnstoredPC)' = InFlight(s, UnstoredPC) - 1
         /\ ~Submit(s) /\ ~RejudgeFind(s) /\ ~RejudgeSave(s)
  BY <1>2, HistoryFrame, StoringCounts, WorkerStepAlone
<1>4. \/ metered'[s] = metered[s]
      \/ /\ metered'[s] <= metered[s] + 1
         /\ InFlight(s, UnmeteredPC)' = InFlight(s, UnmeteredPC) - 1
         /\ ~Submit(s) /\ ~RejudgeFind(s) /\ ~RejudgeSave(s)
  <2>1. ASSUME NEW w \in Worker, StoreUsage(w), Of(w) = s
        PROVE  /\ metered'[s] <= metered[s] + 1
               /\ InFlight(s, UnmeteredPC)' = InFlight(s, UnmeteredPC) - 1
               /\ ~Submit(s) /\ ~RejudgeFind(s) /\ ~RejudgeSave(s)
    <3>1. metered' \in {metered, [metered EXCEPT ![Of(w)] = @ + 1]}
      BY <2>1 DEF StoreUsage
    <3>2. metered'[s] <= metered[s] + 1
      BY <1>2, <2>1, <3>1 DEF TypeOK, StoreType
    <3>. QED
      BY <2>1, <3>2, MeteringCounts, WorkerStepAlone
  <2>. QED
    BY <1>1, <2>1, MeteredFrame
<1>5. ended'[s] + InFlight(s, UnstoredPC)' + Saving(s)'
        <= rejudges'[s] + redelivered'[s] + Stored(s)'
  <2>1. ended[s] + InFlight(s, UnstoredPC) + Saving(s)
          <= rejudges[s] + redelivered[s] + Stored(s)
    BY DEF Budget
  <2>. QED
    BY <1>1, <1>2, <1>3, <2>1, BudgetStep
<1>6. metered'[s] + InFlight(s, UnmeteredPC)' + Saving(s)'
        <= rejudges'[s] + redelivered'[s] + Stored(s)'
  <2>1. metered[s] + InFlight(s, UnmeteredPC) + Saving(s)
          <= rejudges[s] + redelivered[s] + Stored(s)
    BY DEF Budget
  <2>. QED
    BY <1>1, <1>2, <1>4, <2>1, BudgetStep
<1>. QED
  BY <1>5, <1>6

LEMMA HistoryInit == HInit => TypeOK /\ HistoryType
  BY TypeInit DEF HInit, HistoryType

LEMMA HistoryTypes == HSpec => [](TypeOK /\ HistoryType)
<1>1. HInit => TypeOK /\ HistoryType
  BY HistoryInit
<1>2. TypeOK /\ HistoryType /\ HStep => TypeOK' /\ HistoryType'
  BY HStepIsStep, TypeNext, HistoryNext
<1>. QED
  BY <1>1, <1>2, PTL DEF HSpec, HStep

\* However many submissions, workers, retries, failing calls, crashes and lost
\* connections there are, a submission comes to one end, and its college is
\* charged for it, once, once more for each rejudge and once more for each
\* delivery the broker took back.
THEOREM RunsEndOnce == HSpec => []OneEndPerRun
<1>1. HInit => Budget
  <2> SUFFICES ASSUME HInit, NEW s \in Sub
               PROVE  /\ ended[s] + InFlight(s, UnstoredPC) + Saving(s)
                           <= rejudges[s] + redelivered[s] + Stored(s)
                      /\ metered[s] + InFlight(s, UnmeteredPC) + Saving(s)
                           <= rejudges[s] + redelivered[s] + Stored(s)
    BY DEF Budget
  <2>1. InFlight(s, UnmeteredPC) = 0 /\ InFlight(s, UnstoredPC) = 0
    BY InFlightInit DEF Segments, HInit
  <2>. QED
    BY <2>1 DEF HInit, Init, Saving, Stored
<1>2. TypeOK /\ HistoryType /\ Budget /\ HStep => Budget'
  BY BudgetNext
<1>3. TypeOK /\ HistoryType /\ Budget => OneEndPerRun
  <2> SUFFICES ASSUME TypeOK, HistoryType, Budget, NEW s \in Sub
               PROVE  /\ ended[s] <= 1 + rejudges[s] + redelivered[s]
                      /\ metered[s] <= 1 + rejudges[s] + redelivered[s]
    BY DEF OneEndPerRun
  <2>1. InFlight(s, UnmeteredPC) \in Nat /\ InFlight(s, UnstoredPC) \in Nat
    BY InFlightType
  <2>2. /\ metered[s] \in Nat /\ rejudges[s] \in Nat
        /\ ended[s] \in Nat /\ redelivered[s] \in Nat
    BY PipelineAssumption DEF TypeOK, StoreType, HistoryType
  <2>3. Saving(s) \in {0, 1} /\ Stored(s) \in {0, 1}
    BY DEF Saving, Stored
  <2>. QED
    BY <2>1, <2>2, <2>3 DEF Budget
<1>. QED
  BY <1>1, <1>2, <1>3, HistoryTypes, PTL DEF HSpec, HStep

-----------------------------------------------------------------------------
(* The cache, for a submission that was neither rejudged nor delivered again *)

Untouched(s) == rejudges[s] = 0 /\ redelivered[s] = 0

\* A submission once touched stays so.
LEMMA UntouchedBefore ==
    ASSUME TypeOK, HistoryType, HStep, NEW s \in Sub, Untouched(s)'
    PROVE  /\ Untouched(s) /\ ~RejudgeFind(s)
           /\ redelivered'[s] - redelivered[s] = 0
<1>1. rejudges[s] \in Nat /\ redelivered[s] \in Nat
  BY PipelineAssumption DEF TypeOK, StoreType, HistoryType
<1>2. RejudgeFind(s) => rejudges'[s] = rejudges[s] + 1
  BY DEF RejudgeFind, TypeOK, StoreType
<1>3. rejudges'[s] = 0 /\ redelivered'[s] = 0
  BY DEF Untouched
<1>4. rejudges[s] = 0 /\ ~RejudgeFind(s)
  BY <1>1, <1>2, <1>3, HStepIsStep, MeteredFrame
<1>5. redelivered[s] = 0
  <2>1. UnstoredPC \in Segments
    BY DEF Segments
  <2>. QED
    BY <1>1, <1>3, <2>1, HistoryFrame, InFlightReturn
<1>. QED
  BY <1>3, <1>4, <1>5 DEF Untouched

\* MongoDB is written by the API and by a worker that stores or gives up.
LEMMA MongoFrame ==
    ASSUME TypeOK, [Next]_vars, NEW s \in Sub
    PROVE  \/ mongo'[s] = mongo[s] \/ Submit(s) \/ RejudgeSave(s)
           \/ \E w \in Worker : (StoreMongo(w) \/ MarkFailed(w)) /\ Of(w) = s
<1> USE DEF stores, api
<1>1. CASE \E r \in Sub : ApiStep(r)
  BY <1>1 DEF ApiStep, Submit, Publish, PublishFail, RejudgeFind, RejudgeSave, ReadVerdict,
              ReadCache, CacheExpire, TypeOK, StoreType
<1>2. ASSUME NEW w \in Worker, Work(w)
      PROVE  mongo'[s] = mongo[s] \/ ((StoreMongo(w) \/ MarkFailed(w)) /\ Of(w) = s)
  BY <1>2 DEF Work, Acquire, AcquireFail, MarkFailed, PublishRetry, Execute, StoreMongo,
              StoreCounters, StoreUsage, StoreRedis, Ack, TypeOK, StoreType
<1>3. CASE \E w \in Worker : WorkerFault(w) \/ \E m \in Msg : Deliver(w, m)
  BY <1>3 DEF WorkerFault, Refuse, FetchFail, PublishRetryFail, WorkspaceFail, Deliver
<1>4. CASE \/ \E m \in Msg : RetryExpire(m)
           \/ Crash \/ ConnectionLost \/ Signal \/ Stop \/ Start \/ UNCHANGED vars
  BY <1>4 DEF RetryExpire, Crash, ConnectionLost, Signal, Stop, Start, vars
<1>. QED
  BY <1>1, <1>2, <1>3, <1>4 DEF Next

\* A run that has nothing stored has nothing cached either.
LEMMA UnstoredIsUncached ==
    ASSUME TypeOK, NEW s \in Sub
    PROVE  InFlight(s, UnstoredPC) <= InFlight(s, UncachedPC)
<1>1. WorkersOf(s, UnstoredPC) \subseteq WorkersOf(s, UncachedPC)
  BY DEF WorkersOf, UncachedPC, UnmeteredPC
<1>2. Cardinality(WorkersOf(s, UnstoredPC)) <= Cardinality(WorkersOf(s, UncachedPC))
  BY <1>1, InFlightType, FS_Subset
<1>. QED
  BY <1>2, InFlightType DEF InFlight

\* A submission that nobody has rejudged has at most one run under way, and none
\* that could still change what MongoDB has once that is a result.
OneRun(s) ==
    Untouched(s) =>
        /\ rejudging[s] = "none"
        /\ InFlight(s, UncachedPC) <= 1
        /\ mongo[s] = "none" => InFlight(s, UncachedPC) = 0
        /\ mongo[s] # "Pending" => InFlight(s, UnstoredPC) = 0

LEMMA OneRunNext ==
    ASSUME TypeOK, HistoryType, HStep, NEW s \in Sub, OneRun(s)
    PROVE  OneRun(s)'
<1> SUFFICES ASSUME Untouched(s)'
             PROVE  /\ rejudging'[s] = "none"
                    /\ InFlight(s, UncachedPC)' <= 1
                    /\ mongo'[s] = "none" => InFlight(s, UncachedPC)' = 0
                    /\ mongo'[s] # "Pending" => InFlight(s, UnstoredPC)' = 0
  BY DEF OneRun
<1>1. ~RejudgeFind(s) /\ Untouched(s) /\ redelivered'[s] - redelivered[s] = 0
  BY UntouchedBefore
<1>a. [Next]_vars
  BY HStepIsStep
<1> USE <1>a
<1>2. /\ rejudging[s] = "none"
      /\ InFlight(s, UncachedPC) <= 1
      /\ mongo[s] = "none" => InFlight(s, UncachedPC) = 0
      /\ mongo[s] # "Pending" => InFlight(s, UnstoredPC) = 0
  BY <1>1 DEF OneRun
<1>3. ~RejudgeSave(s)
  BY <1>2 DEF RejudgeSave
<1>4. rejudging'[s] = "none"
  BY <1>1, <1>2, <1>3, MeteredFrame
<1>5. TypeOK'
  BY TypeNext
<1>6. /\ InFlight(s, UncachedPC) \in Nat /\ InFlight(s, UncachedPC)' \in Nat
      /\ InFlight(s, UnstoredPC) \in Nat /\ InFlight(s, UnstoredPC)' \in Nat
  BY <1>5, InFlightType, InFlightTypeNext
<1>7. CASE Submit(s)
  <2>1. mongo[s] = "none" /\ mongo'[s] = "Pending"
    BY <1>7 DEF Submit, TypeOK, StoreType
  <2>2. InFlight(s, UncachedPC)' = InFlight(s, UncachedPC) + 1
    BY <1>7, InFlightNew
  <2>. QED
    BY <1>2, <1>4, <1>6, <2>1, <2>2
<1>8. CASE ~Submit(s)
  <2>1. /\ InFlight(s, UncachedPC)' <= InFlight(s, UncachedPC)
        /\ InFlight(s, UnstoredPC)' <= InFlight(s, UnstoredPC)
    BY <1>1, <1>3, <1>6, <1>8, InFlightStep DEF Segments
  <2>2. mongo'[s] = "none" => InFlight(s, UncachedPC)' = 0
    BY <1>2, <1>6, <2>1, StoredStays
  <2>3. mongo'[s] # "Pending" => InFlight(s, UnstoredPC)' = 0
    <3>1. CASE mongo'[s] = mongo[s]
      BY <1>2, <1>6, <2>1, <3>1
    <3>2. ASSUME NEW w \in Worker, StoreMongo(w) \/ MarkFailed(w), Of(w) = s
          PROVE  InFlight(s, UnstoredPC)' = 0
      <4>1. InFlight(s, UnstoredPC)' = InFlight(s, UnstoredPC) - 1
        BY <3>2, StoringCounts
      <4>2. InFlight(s, UnstoredPC) <= 1
        BY <1>2, <1>6, UnstoredIsUncached
      <4>. QED
        BY <1>6, <4>1, <4>2
    <3>. QED
      BY <1>3, <1>8, <3>1, <3>2, MongoFrame
  <2>. QED
    BY <1>2, <1>4, <1>6, <2>1, <2>2, <2>3
<1>. QED
  BY <1>7, <1>8

LEMMA OneRunInit ==
    ASSUME Init, NEW s \in Sub PROVE OneRun(s)
<1>1. InFlight(s, UncachedPC) = 0 /\ InFlight(s, UnstoredPC) = 0
  BY InFlightInit DEF Segments
<1>. QED
  BY <1>1 DEF Init, OneRun

\* Where a worker has written, or tried to write, its result to MongoDB and has
\* yet to write the cache.
BetweenWrites == {"counting", "metering", "caching"}

\* What readers, the cache and workers between their writes have is what
\* MongoDB has; while a run has nothing stored the cache is empty.
Cached(s) ==
    Untouched(s) =>
        /\ reading[s] \in {"none", mongo[s]}
        /\ InFlight(s, UnstoredPC) > 0 => redis[s] = "none"
        /\ redis[s] \in {"none", mongo[s]} \/ mongo[s] = "Pending"
        /\ \A w \in Worker : pc[w] \in BetweenWrites /\ Of(w) = s
                               => mongo[s] \in {"Pending", verdict[w]}

\* The cache and its readers change only where the code writes them.
LEMMA CacheFrame ==
    ASSUME TypeOK, [Next]_vars, NEW s \in Sub
    PROVE  /\ redis'[s] \in {redis[s], "none"} \/ (ReadCache(s) /\ redis'[s] = reading[s])
              \/ \E w \in Worker : StoreRedis(w) /\ Of(w) = s /\ redis'[s] = verdict[w]
           /\ reading'[s] \in {reading[s], "none"} \/ (ReadVerdict(s) /\ reading'[s] = mongo[s])
<1> USE DEF stores, api
<1>1. CASE \E r \in Sub : ApiStep(r)
  BY <1>1 DEF ApiStep, Submit, Publish, PublishFail, RejudgeFind, RejudgeSave, ReadVerdict,
              ReadCache, CacheExpire, TypeOK, StoreType
<1>2. ASSUME NEW w \in Worker, Work(w)
      PROVE  /\ redis'[s] = redis[s] \/ (StoreRedis(w) /\ Of(w) = s /\ redis'[s] = verdict[w])
             /\ reading' = reading
  BY <1>2 DEF Work, Acquire, AcquireFail, MarkFailed, PublishRetry, Execute, StoreMongo,
              StoreCounters, StoreUsage, StoreRedis, Ack, TypeOK, StoreType
<1>3. CASE \E w \in Worker : WorkerFault(w) \/ \E m \in Msg : Deliver(w, m)
  BY <1>3 DEF WorkerFault, Refuse, FetchFail, PublishRetryFail, WorkspaceFail, Deliver
<1>4. CASE \/ \E m \in Msg : RetryExpire(m)
           \/ Crash \/ ConnectionLost \/ Signal \/ Stop \/ Start \/ UNCHANGED vars
  BY <1>4 DEF RetryExpire, Crash, ConnectionLost, Signal, Stop, Start, vars
<1>. QED
  BY <1>1, <1>2, <1>3, <1>4 DEF Next

\* A worker comes between its writes by storing, with the verdict it has.
LEMMA BetweenFrame ==
    ASSUME TypeOK, [Next]_vars, NEW w \in Worker, pc'[w] \in BetweenWrites
    PROVE  /\ msg'[w] = msg[w] /\ verdict'[w] = verdict[w]
           /\ \/ pc[w] \in BetweenWrites
              \/ StoreMongo(w)
<1> USE DEF workers, BetweenWrites
<1>1. ASSUME UNCHANGED <<pc[w], msg[w], verdict[w]>>
      PROVE  msg'[w] = msg[w] /\ verdict'[w] = verdict[w] /\ pc[w] \in BetweenWrites
  BY <1>1
<1>2. ASSUME NEW v \in Worker, v # w, Done(v) \/ (\E p : Goto(v, p)),
             \/ Done(v)
             \/ msg' = msg \/ \E m : msg' = [msg EXCEPT ![v] = m],
             \/ Done(v)
             \/ verdict' = verdict \/ \E x : verdict' = [verdict EXCEPT ![v] = x]
      PROVE  UNCHANGED <<pc[w], msg[w], verdict[w]>>
  BY <1>2 DEF Done, Goto, TypeOK, WorkerType
<1>3. ASSUME NEW v \in Worker, Work(v)
      PROVE  IF v = w THEN /\ msg'[w] = msg[w] /\ verdict'[w] = verdict[w]
                           /\ pc[w] \in BetweenWrites \/ StoreMongo(w)
             ELSE UNCHANGED <<pc[w], msg[w], verdict[w]>>
  <2>1. CASE v = w
    BY <1>3, <2>1 DEF Work, Acquire, AcquireFail, MarkFailed, PublishRetry, Execute, StoreMongo,
              StoreCounters, StoreUsage, StoreRedis, Ack, At, Goto, Done, TypeOK, WorkerType
  <2>2. CASE v # w
    BY <1>3, <2>2, <1>2 DEF Work, Acquire, AcquireFail, MarkFailed, PublishRetry, Execute,
              StoreMongo, StoreCounters, StoreUsage, StoreRedis, Ack
  <2>. QED
    BY <2>1, <2>2
<1>4. ASSUME NEW v \in Worker, WorkerFault(v) PROVE UNCHANGED <<pc[w], msg[w], verdict[w]>>
  <2>1. Done(v)
    BY <1>4 DEF WorkerFault, Refuse, FetchFail, PublishRetryFail, WorkspaceFail, Requeue, Reject
  <2>2. v # w
    BY <2>1 DEF Done, Goto, TypeOK, WorkerType
  <2>. QED
    BY <1>2, <2>1, <2>2
<1>5. ASSUME NEW v \in Worker, NEW m \in Msg, Deliver(v, m)
      PROVE  UNCHANGED <<pc[w], msg[w], verdict[w]>>
  BY <1>5 DEF Deliver, Goto, TypeOK, WorkerType
<1>6. CASE \E s \in Sub : ApiStep(s)
  BY <1>1, <1>6 DEF ApiStep, Submit, Publish, PublishFail, RejudgeFind, RejudgeSave, ReadVerdict,
              ReadCache, CacheExpire
<1>7. CASE (\E m \in Msg : RetryExpire(m)) \/ ConnectionLost \/ Signal \/ Stop \/ Start \/ UNCHANGED vars
  BY <1>1, <1>7 DEF RetryExpire, ConnectionLost, Signal, Stop, Start, vars
<1>8. CASE Crash
  BY <1>8 DEF Crash, ResetWorkers
<1>. QED
  BY <1>1, <1>3, <1>4, <1>5, <1>6, <1>7, <1>8 DEF Next

LEMMA CachedNext ==
    ASSUME TypeOK, HistoryType, HStep, NEW s \in Sub, OneRun(s), Cached(s)
    PROVE  Cached(s)'
<1> SUFFICES ASSUME Untouched(s)'
             PROVE  /\ reading'[s] \in {"none", mongo'[s]}
                    /\ InFlight(s, UnstoredPC)' > 0 => redis'[s] = "none"
                    /\ redis'[s] \in {"none", mongo'[s]} \/ mongo'[s] = "Pending"
                    /\ \A w \in Worker : pc'[w] \in BetweenWrites /\ Of(w)' = s
                                           => mongo'[s] \in {"Pending", verdict'[w]}
  BY DEF Cached
<1>1. Untouched(s) /\ redelivered'[s] - redelivered[s] = 0
  BY UntouchedBefore
<1>a. [Next]_vars
  BY HStepIsStep
<1> USE <1>a
<1>2. /\ rejudging[s] = "none"
      /\ InFlight(s, UncachedPC) <= 1
      /\ mongo[s] = "none" => InFlight(s, UncachedPC) = 0
      /\ mongo[s] # "Pending" => InFlight(s, UnstoredPC) = 0
  BY <1>1 DEF OneRun
<1>3. /\ reading[s] \in {"none", mongo[s]}
      /\ InFlight(s, UnstoredPC) > 0 => redis[s] = "none"
      /\ redis[s] \in {"none", mongo[s]} \/ mongo[s] = "Pending"
      /\ \A w \in Worker : pc[w] \in BetweenWrites /\ Of(w) = s
                             => mongo[s] \in {"Pending", verdict[w]}
  BY <1>1 DEF Cached
<1>4. ~RejudgeSave(s)
  BY <1>2 DEF RejudgeSave
<1>5. /\ InFlight(s, UncachedPC) \in Nat /\ InFlight(s, UncachedPC)' \in Nat
      /\ InFlight(s, UnstoredPC) \in Nat /\ InFlight(s, UnstoredPC)' \in Nat
  BY TypeNext, InFlightType, InFlightTypeNext
<1>6. reading[s] \in {"none", "Success", "Fail"}
  BY DEF TypeOK, StoreType
<1>7. OneRun(s)'
  BY OneRunNext
<1>8. UnstoredPC \in Segments /\ UncachedPC \in Segments
  BY DEF Segments
<1>9. CASE Submit(s)
  <2>1. mongo[s] = "none" /\ mongo'[s] = "Pending" /\ UNCHANGED <<redis, reading, workers>>
    BY <1>9 DEF Submit, TypeOK, StoreType
  <2>2. reading'[s] = "none" /\ redis'[s] = "none"
    BY <1>3, <2>1
  <2>. QED
    BY <2>1, <2>2
<1>10. ASSUME NEW w \in Worker, StoreMongo(w) \/ MarkFailed(w), Of(w) = s
       PROVE  /\ reading'[s] \in {"none", mongo'[s]}
              /\ InFlight(s, UnstoredPC)' > 0 => redis'[s] = "none"
              /\ redis'[s] \in {"none", mongo'[s]} \/ mongo'[s] = "Pending"
              /\ \A v \in Worker : pc'[v] \in BetweenWrites /\ Of(v)' = s
                                     => mongo'[s] \in {"Pending", verdict'[v]}
  <2>1. InFlight(s, UnstoredPC) > 0
    BY <1>10, StoringCounts
  <2>2. mongo[s] = "Pending" /\ redis[s] = "none" /\ reading[s] = "none"
    BY <1>2, <1>3, <1>6, <2>1
  <2>3. UNCHANGED <<redis, reading>>
    BY <1>10 DEF StoreMongo, MarkFailed, api
  <2>4. /\ pc[w] \in {"storing", "failing"} /\ UNCHANGED <<msg, verdict>>
        /\ \A v \in Worker : v # w => pc'[v] = pc[v]
    BY <1>10 DEF StoreMongo, MarkFailed, At, Goto, TypeOK, WorkerType
  <2>5. ASSUME NEW v \in Worker, pc'[v] \in BetweenWrites, Of(v)' = s
        PROVE  mongo'[s] \in {"Pending", verdict'[v]}
    <3>1. Of(v) = s
      BY <2>4, <2>5 DEF Of
    <3>2. v = w
      <4>1. SUFFICES ASSUME v # w PROVE FALSE
        OBVIOUS
      <4>2. v \in WorkersOf(s, UncachedPC) /\ w \in WorkersOf(s, UncachedPC)
        BY <1>10, <2>4, <2>5, <3>1, <4>1
        DEF WorkersOf, BetweenWrites, UncachedPC, UnmeteredPC, UnstoredPC
      <4>. QED
        BY <1>2, <4>1, <4>2, OnlyWorker
    <3>3. StoreMongo(w)
      BY <1>10, <2>5, <3>2 DEF MarkFailed, Goto, TypeOK, WorkerType, BetweenWrites
    <3>. QED
      BY <1>10, <2>2, <2>4, <3>2, <3>3 DEF StoreMongo, TypeOK, StoreType
  <2>. QED
    BY <2>2, <2>3, <2>5
<1>11. CASE /\ ~Submit(s)
            /\ ~\E w \in Worker : (StoreMongo(w) \/ MarkFailed(w)) /\ Of(w) = s
  <2>1. mongo'[s] = mongo[s]
    BY <1>4, <1>11, MongoFrame
  <2>2. /\ InFlight(s, UncachedPC)' <= InFlight(s, UncachedPC)
        /\ InFlight(s, UnstoredPC)' <= InFlight(s, UnstoredPC)
    BY <1>1, <1>4, <1>5, <1>8, <1>11, InFlightStep
  <2>3. reading'[s] \in {"none", mongo'[s]}
    BY <1>3, <2>1, CacheFrame
  <2>4. \A w \in Worker : pc'[w] \in BetweenWrites /\ Of(w)' = s
                            => mongo'[s] \in {"Pending", verdict'[w]}
    <3> SUFFICES ASSUME NEW w \in Worker, pc'[w] \in BetweenWrites, Of(w)' = s
                 PROVE  mongo'[s] \in {"Pending", verdict'[w]}
      OBVIOUS
    <3>1. Of(w) = s /\ verdict'[w] = verdict[w]
      BY BetweenFrame DEF Of
    <3>2. pc[w] \in BetweenWrites
      BY <1>11, <3>1, BetweenFrame
    <3>. QED
      BY <1>3, <2>1, <3>1, <3>2
  <2>5. CASE redis'[s] \in {redis[s], "none"}
    BY <1>3, <1>5, <2>1, <2>2, <2>3, <2>4, <2>5
  <2>6. CASE ReadCache(s) /\ redis'[s] = reading[s]
    <3>1. reading[s] = mongo[s] /\ mongo[s] # "Pending"
      BY <1>3, <1>6, <2>6 DEF ReadCache
    <3>2. InFlight(s, UnstoredPC)' = 0
      BY <1>2, <1>5, <2>2, <3>1
    <3>. QED
      BY <2>1, <2>3, <2>4, <2>6, <3>1, <3>2
  <2>7. ASSUME NEW w \in Worker, StoreRedis(w), Of(w) = s, redis'[s] = verdict[w]
        PROVE  /\ InFlight(s, UnstoredPC)' > 0 => redis'[s] = "none"
               /\ redis'[s] \in {"none", mongo'[s]} \/ mongo'[s] = "Pending"
    <3>1. /\ pc[w] = "caching" /\ Goto(w, "acking")
          /\ UNCHANGED <<publishing, queue, retryQueue, msg>>
      BY <2>7 DEF StoreRedis, At, api, broker
    <3>2. "caching" \in UncachedPC /\ "acking" \notin UncachedPC
      BY DEF UncachedPC, UnmeteredPC, UnstoredPC
    <3>3. InFlight(s, UncachedPC)' = InFlight(s, UncachedPC) - 1
      BY <1>8, <2>7, <3>1, <3>2, InFlightGoes
    <3>4. InFlight(s, UnstoredPC)' <= InFlight(s, UncachedPC)'
      <4>1. InFlight(s, UnstoredPC)' = InFlight(s, UnstoredPC)
        <5>1. "caching" \notin UnstoredPC /\ "acking" \notin UnstoredPC
          BY DEF UnstoredPC
        <5>. QED
          BY <1>8, <3>1, <5>1, InFlightGoes
      <4>2. WorkersOf(s, UnstoredPC) \subseteq WorkersOf(s, UncachedPC) \ {w}
        BY <3>1 DEF WorkersOf, UncachedPC, UnmeteredPC, UnstoredPC
      <4>3. /\ IsFiniteSet(WorkersOf(s, UncachedPC) \ {w})
            /\ Cardinality(WorkersOf(s, UncachedPC) \ {w})
                 = Cardinality(WorkersOf(s, UncachedPC)) - 1
        <5>1. w \in WorkersOf(s, UncachedPC)
          BY <2>7, <3>1, <3>2 DEF WorkersOf
        <5>2. IsFiniteSet(WorkersOf(s, UncachedPC))
          BY InFlightType
        <5>. QED
          BY <5>1, <5>2, FS_RemoveElement
      <4>4. Cardinality(WorkersOf(s, UnstoredPC)) <= Cardinality(WorkersOf(s, UncachedPC)) - 1
        BY <4>2, <4>3, FS_Subset
      <4>. QED
        BY <3>3, <4>1, <4>4, InFlightType DEF InFlight
    <3>5. InFlight(s, UnstoredPC)' = 0
      BY <1>2, <1>5, <3>3, <3>4
    <3>6. mongo[s] \in {"Pending", verdict[w]}
      BY <1>3, <2>7, <3>1 DEF BetweenWrites
    <3>. QED
      BY <2>1, <2>7, <3>5, <3>6
  <2>. QED
    BY <2>3, <2>4, <2>5, <2>6, <2>7, CacheFrame
<1>. QED
  BY <1>9, <1>10, <1>11

\* Until a submission is rejudged or delivered again the cache never contradicts
\* a verdict that MongoDB has, whichever calls of the workers and readers fail or
\* are late, and whatever crashes around it.
THEOREM CacheIsTrue == HSpec => []CacheAgrees
<1> DEFINE Inv == \A s \in Sub : OneRun(s) /\ Cached(s)
<1>1. HInit => Inv
  <2> SUFFICES ASSUME HInit, NEW s \in Sub PROVE OneRun(s) /\ Cached(s)
    OBVIOUS
  <2>1. InFlight(s, UnstoredPC) = 0
    BY InFlightInit DEF Segments, HInit
  <2>. QED
    BY <2>1, OneRunInit DEF HInit, Init, Cached, BetweenWrites
<1>2. TypeOK /\ HistoryType /\ Inv /\ HStep => Inv'
  BY OneRunNext, CachedNext
<1>3. Inv => CacheAgrees
  BY DEF CacheAgrees, Cached, Untouched
<1> HIDE DEF Inv
<1>. QED
  BY <1>1, <1>2, <1>3, HistoryTypes, PTL DEF HSpec, HStep

-----------------------------------------------------------------------------
(***************************************************************************)
(* No job is lost: the pipeline implements AtLeastOnce as long as a         *)
(* submission is published, no worker rejects it and MongoDB takes what is  *)
(* written.  Crashes, lost connections, signals, failing fetches, publishes *)
(* of retries and writes of the other stores are all allowed.               *)
(***************************************************************************)
WritesSucceed == FaultKinds \cap {"publish", "reject", "mongo"} = {}

\* A run of s that waits in the API, in the queue or for the end of its TTL.
Waiting(s) == \/ publishing[s] > 0
              \/ \E m \in MsgsOf(s) : queue[m] > 0 \/ retryQueue[m] > 0

\* A worker that owns a delivery of s and has yet to store a result.
Working(s) == \E w \in Worker : owns[w] /\ pc[w] \in UnstoredPC /\ Of(w) = s

\* A submission without a verdict still has a run that will give it one.
PendingIsAlive == \A s \in Sub : mongo[s] = "Pending" => Waiting(s) \/ Working(s)

\* Nothing runs for a submission that was never stored.
UnknownIsIdle ==
    \A s \in Sub : mongo[s] = "none" =>
        /\ publishing[s] = 0 /\ rejudging[s] = "none"
        /\ \A m \in MsgsOf(s) : queue[m] = 0 /\ retryQueue[m] = 0
        /\ \A w \in Worker : pc[w] # "idle" => Of(w) # s

\* A delivery that was taken from a worker is ready again, and stays so while
\* there is no connection to hand it out on.
LostIsReady ==
    \A w \in Worker : pc[w] # "idle" /\ ~owns[w] => ~connected /\ queue[msg[w]] > 0

\* The judge goes down only after its workers.
DownIsIdle == stage = "down" => \A w \in Worker : pc[w] = "idle"

JobsInv == PendingIsAlive /\ UnknownIsIdle /\ LostIsReady /\ DownIsIdle

\* A message that is put in is there; the others stay as they are.
LEMMA PutMessages ==
    ASSUME NEW bag \in Bag, NEW n \in Msg
    PROVE  /\ Put(bag, n)[n] > 0
           /\ \A m \in Msg : Put(bag, n)[m] >= bag[m]
           /\ \A m \in Msg : m # n => Put(bag, n)[m] = bag[m]
  BY DEF Bag, Put

LEMMA TakeMessages ==
    ASSUME NEW bag \in Bag, NEW n \in Msg
    PROVE  \A m \in Msg : m # n => Take(bag, n)[m] = bag[m]
  BY DEF Bag, Take

\* Which kind of step touches the workers, and which the bags.
LEMMA BusyStep ==
    ASSUME TypeOK, NEW w \in Worker, Work(w) \/ WorkerFault(w)
    PROVE  pc[w] # "idle" /\ msg[w] \in Msg /\ Of(w) \in Sub /\ msg[w] \in MsgsOf(Of(w))
<1>1. pc[w] # "idle"
  BY DEF Work, Acquire, AcquireFail, MarkFailed, PublishRetry, Execute, StoreMongo,
         StoreCounters, StoreUsage, StoreRedis, Ack, WorkerFault, Refuse, FetchFail,
         PublishRetryFail, WorkspaceFail, At
<1>. QED
  BY <1>1, OfType DEF TypeOK, MsgsOf, Of

LEMMA DownNext ==
    ASSUME TypeOK, DownIsIdle, [Next]_vars PROVE DownIsIdle'
<1> USE DEF api, stores, broker, workers
<1>1. ASSUME NEW w \in Worker, Work(w) \/ WorkerFault(w) PROVE stage' # "down"
  <2>1. stage # "down"
    BY <1>1, BusyStep DEF DownIsIdle
  <2>. QED
    BY <1>1, <2>1 DEF Work, Acquire, AcquireFail, MarkFailed, PublishRetry, Execute, StoreMongo,
         StoreCounters, StoreUsage, StoreRedis, Ack, WorkerFault, Refuse, FetchFail,
         PublishRetryFail, WorkspaceFail
<1>2. CASE \E s \in Sub : ApiStep(s)
  BY <1>2 DEF DownIsIdle, ApiStep, Submit, Publish, PublishFail, RejudgeFind, RejudgeSave,
              ReadVerdict, ReadCache, CacheExpire
<1>3. CASE \E w \in Worker, m \in Msg : Deliver(w, m)
  BY <1>3 DEF DownIsIdle, Deliver
<1>4. CASE \/ \E m \in Msg : RetryExpire(m)
           \/ Crash \/ ConnectionLost \/ Signal \/ Stop \/ Start \/ UNCHANGED vars
  BY <1>4 DEF DownIsIdle, RetryExpire, Crash, ConnectionLost, Signal, Stop, Start, At, vars
<1>. QED
  BY <1>1, <1>2, <1>3, <1>4 DEF Next, DownIsIdle

\* A worker that goes on, or is done, leaves the others their deliveries.
LEMMA LostNext ==
    ASSUME TypeOK, LostIsReady, DownIsIdle, [Next]_vars PROVE LostIsReady'
<1> USE DEF api, stores, broker, workers
<1> SUFFICES ASSUME NEW v \in Worker, pc'[v] # "idle", ~owns'[v]
             PROVE  ~connected' /\ queue'[msg'[v]] > 0
  BY DEF LostIsReady
<1>0. \A n \in Msg : queue[n] \in Nat /\ queue'[n] \in Nat
  BY TypeNext DEF TypeOK, BrokerType, Bag
<1>1. ASSUME pc[v] # "idle", ~owns[v], msg'[v] = msg[v], connected' = connected,
             \A n \in Msg : queue'[n] = queue[n] \/ queue'[n] > queue[n]
      PROVE  ~connected' /\ queue'[msg'[v]] > 0
  <2>1. msg[v] \in Msg /\ ~connected /\ queue[msg[v]] > 0
    BY <1>1, OfType DEF LostIsReady, TypeOK
  <2>. QED
    BY <1>0, <1>1, <2>1
<1>2. ASSUME NEW s \in Sub, ApiStep(s) PROVE ~connected' /\ queue'[msg'[v]] > 0
  <2>1. UNCHANGED <<pc, owns, msg, connected>>
    BY <1>2 DEF ApiStep, Submit, Publish, PublishFail, RejudgeFind, RejudgeSave,
                ReadVerdict, ReadCache, CacheExpire
  <2>2. \A n \in Msg : queue'[n] = queue[n] \/ queue'[n] > queue[n]
    <3>1. CASE Publish(s)
      BY <3>1, <1>0 DEF Publish, Put, TypeOK, BrokerType, Bag
    <3>2. CASE ~Publish(s)
      BY <1>2, <3>2 DEF ApiStep, Submit, PublishFail, RejudgeFind, RejudgeSave,
                ReadVerdict, ReadCache, CacheExpire
    <3>. QED
      BY <3>1, <3>2
  <2>. QED
    BY <1>1, <2>1, <2>2
<1>3. ASSUME NEW w \in Worker, Work(w) \/ WorkerFault(w) PROVE ~connected' /\ queue'[msg'[v]] > 0
  <2>1. pc[w] # "idle" /\ msg[w] \in Msg
    BY <1>3, BusyStep
  <2>2. Done(w) \/ (UNCHANGED <<owns, msg>> /\ \E p : Goto(w, p))
    BY <1>3 DEF Work, Acquire, AcquireFail, MarkFailed, PublishRetry, Execute, StoreMongo,
         StoreCounters, StoreUsage, StoreRedis, Ack, WorkerFault, Refuse, FetchFail,
         PublishRetryFail, WorkspaceFail, Requeue, Reject
  <2>3. pc[v] # "idle" /\ owns'[v] = owns[v] /\ msg'[v] = msg[v]
    BY <2>1, <2>2 DEF Done, Goto, TypeOK, WorkerType
  <2>4. connected' = connected
    BY <1>3 DEF Work, Acquire, AcquireFail, MarkFailed, PublishRetry, Execute, StoreMongo,
         StoreCounters, StoreUsage, StoreRedis, Ack, WorkerFault, Refuse, FetchFail,
         PublishRetryFail, WorkspaceFail, Requeue, Reject
  <2>5. queue' = queue \/ queue' = Put(queue, msg[w])
    BY <1>3 DEF Work, Acquire, AcquireFail, MarkFailed, PublishRetry, Execute, StoreMongo,
         StoreCounters, StoreUsage, StoreRedis, Ack, WorkerFault, Refuse, FetchFail,
         PublishRetryFail, WorkspaceFail, Requeue, Reject
  <2>6. \A n \in Msg : queue'[n] = queue[n] \/ queue'[n] > queue[n]
    BY <1>0, <2>1, <2>5 DEF Put, TypeOK, BrokerType, Bag
  <2>. QED
    BY <1>1, <2>3, <2>4, <2>6
<1>4. ASSUME NEW w \in Worker, NEW m \in Msg, Deliver(w, m) PROVE FALSE
  <2>1. v # w /\ pc[v] # "idle" /\ ~owns[v]
    BY <1>4 DEF Deliver, At, Goto, TypeOK, WorkerType
  <2>. QED
    BY <1>4, <2>1 DEF Deliver, LostIsReady
<1>5. ASSUME NEW m \in Msg, RetryExpire(m) PROVE ~connected' /\ queue'[msg'[v]] > 0
  <2>1. \A n \in Msg : queue'[n] = queue[n] \/ queue'[n] > queue[n]
    BY <1>0, <1>5 DEF RetryExpire, Put, TypeOK, BrokerType, Bag
  <2>. QED
    BY <1>1, <1>5, <2>1 DEF RetryExpire
<1>6. CASE Crash
  BY <1>6 DEF Crash, ResetWorkers
<1>7. CASE ConnectionLost
  <2>1. msg[v] \in Msg /\ pc[v] # "idle" /\ msg'[v] = msg[v] /\ ~connected'
    BY <1>7, OfType DEF ConnectionLost, TypeOK
  <2>2. CASE owns[v]
    BY <1>7, <2>1, <2>2, ReturnedMessages DEF ConnectionLost
  <2>3. CASE ~owns[v]
    BY <1>7, <2>1, <2>3 DEF ConnectionLost, LostIsReady
  <2>. QED
    BY <2>1, <2>2, <2>3
<1>8. CASE Signal \/ Stop \/ UNCHANGED vars
  BY <1>1, <1>8 DEF Signal, Stop, vars
<1>9. CASE Start
  BY <1>9 DEF Start, DownIsIdle
<1>. QED
  BY <1>2, <1>3, <1>4, <1>5, <1>6, <1>7, <1>8, <1>9 DEF Next

-----------------------------------------------------------------------------
(* How the count of jobs changes *)

\* The parts of the count of jobs are natural numbers.
LEMMA JobsType ==
    ASSUME TypeOK, NEW s \in Sub
    PROVE  /\ publishing[s] \in Nat /\ Count(queue, s) \in Nat /\ Count(retryQueue, s) \in Nat
           /\ IsFiniteSet(Unacked(s)) /\ Cardinality(Unacked(s)) \in Nat
<1>1. IsFiniteSet(Unacked(s))
  BY PipelineAssumption, FS_Subset DEF Unacked
<1>. QED
  BY <1>1, InFlightType, FS_CardinalityType

\* Each part that is not zero makes a job.
LEMMA JobsPositive ==
    ASSUME TypeOK, NEW s \in Sub,
           \/ \E m \in MsgsOf(s) : queue[m] > 0 \/ retryQueue[m] > 0
           \/ \E w \in Worker : owns[w] /\ Of(w) = s
           \/ publishing[s] > 0
    PROVE  Outstanding(s) > 0
<1>1. queue \in Bag /\ retryQueue \in Bag
  BY DEF TypeOK, BrokerType
<1>2. ASSUME \E w \in Worker : owns[w] /\ Of(w) = s PROVE Cardinality(Unacked(s)) > 0
  <2>1. Unacked(s) # {}
    BY <1>2 DEF Unacked
  <2>. QED
    BY <2>1, JobsType, FS_EmptySet
<1>. QED
  BY <1>1, <1>2, CountZero, JobsType DEF Outstanding

\* A worker that gives its delivery up, or keeps it.
LEMMA UnackedMove ==
    ASSUME TypeOK, NEW s \in Sub, NEW w \in Worker,
           \A v \in Worker \ {w} : owns'[v] = owns[v] /\ msg'[v] = msg[v],
           owns'[w] => owns[w] /\ msg'[w] = msg[w]
    PROVE  Cardinality(Unacked(s)') =
             IF owns[w] /\ Of(w) = s /\ ~owns'[w]
               THEN Cardinality(Unacked(s)) - 1 ELSE Cardinality(Unacked(s))
<1>1. \A v \in Worker : v # w => (v \in Unacked(s)' <=> v \in Unacked(s))
  BY DEF Unacked, Of
<1>2. CASE owns[w] /\ Of(w) = s /\ ~owns'[w]
  <2>1. w \in Unacked(s) /\ w \notin Unacked(s)'
    BY <1>2 DEF Unacked
  <2>2. Unacked(s)' = Unacked(s) \ {w}
    BY <1>1, <2>1 DEF Unacked
  <2>3. IsFiniteSet(Unacked(s))
    BY JobsType
  <2>4. Cardinality(Unacked(s) \ {w}) = Cardinality(Unacked(s)) - 1
    BY <2>1, <2>3, FS_RemoveElement
  <2>. QED
    BY <1>2, <2>2, <2>4
<1>3. CASE ~(owns[w] /\ Of(w) = s /\ ~owns'[w])
  <2>1. w \in Unacked(s)' <=> w \in Unacked(s)
    BY <1>3 DEF Unacked, Of
  <2>2. Unacked(s)' = Unacked(s)
    BY <1>1, <2>1 DEF Unacked
  <2>. QED
    BY <1>3, <2>2
<1>. QED
  BY <1>2, <1>3

\* A worker that gets one.
LEMMA UnackedEnter ==
    ASSUME TypeOK, NEW s \in Sub, NEW w \in Worker, NEW m \in Msg, Deliver(w, m)
    PROVE  Cardinality(Unacked(s)') =
             IF m.sub = s THEN Cardinality(Unacked(s)) + 1 ELSE Cardinality(Unacked(s))
<1>1. /\ ~owns[w] /\ owns'[w] /\ msg'[w] = m
      /\ \A v \in Worker \ {w} : owns'[v] = owns[v] /\ msg'[v] = msg[v]
  BY DEF Deliver, At, TypeOK, WorkerType
<1>2. \A v \in Worker : v # w => (v \in Unacked(s)' <=> v \in Unacked(s))
  BY <1>1 DEF Unacked, Of
<1>3. w \notin Unacked(s) /\ (w \in Unacked(s)' <=> m.sub = s)
  BY <1>1 DEF Unacked, Of
<1>4. IsFiniteSet(Unacked(s))
  BY JobsType
<1>5. CASE m.sub = s
  <2>1. Unacked(s)' = Unacked(s) \cup {w}
    BY <1>2, <1>3, <1>5 DEF Unacked
  <2>2. Cardinality(Unacked(s) \cup {w}) = Cardinality(Unacked(s)) + 1
    BY <1>3, <1>4, FS_AddElement
  <2>. QED
    BY <1>5, <2>1, <2>2
<1>6. CASE m.sub # s
  <2>1. Unacked(s)' = Unacked(s)
    BY <1>2, <1>3, <1>6 DEF Unacked
  <2>. QED
    BY <1>6, <2>1
<1>. QED
  BY <1>5, <1>6

\* No step of the API makes or ends a job, but for a submission, a rejudge and
\* a publish that fails.
LEMMA JobsOfApi ==
    ASSUME TypeOK, NEW r \in Sub, ApiStep(r), NEW s \in Sub, ~PublishFail(r)
    PROVE  Outstanding(s)' = IF (Submit(r) \/ RejudgeSave(r)) /\ r = s
                               THEN Outstanding(s) + 1 ELSE Outstanding(s)
<1> USE DEF stores, api, broker, workers
<1>1. Cardinality(Unacked(s)') = Cardinality(Unacked(s)) /\ retryQueue' = retryQueue
  BY DEF ApiStep, Submit, Publish, PublishFail, RejudgeFind, RejudgeSave, ReadVerdict,
         ReadCache, CacheExpire, Unacked, Of
<1>2. CASE Publish(r)
  <2>1. publishing'[s] = IF r = s THEN publishing[s] - 1 ELSE publishing[s]
    BY <1>2 DEF Publish, TypeOK, StoreType
  <2>2. Count(queue, s)' = IF r = s THEN Count(queue, s) + 1 ELSE Count(queue, s)
    <3>1. Fresh(r) \in Msg /\ Fresh(r).sub = r
      BY PipelineAssumption DEF Fresh, Msg
    <3>2. queue' = Put(queue, Fresh(r)) /\ queue \in Bag
      BY <1>2 DEF Publish, TypeOK, BrokerType
    <3>. QED
      BY <3>1, <3>2, CountPut
  <2>3. ~Submit(r) /\ ~RejudgeSave(r)
    BY <1>2 DEF Publish, Submit, RejudgeSave, TypeOK, StoreType
  <2>. QED
    BY <1>1, <2>1, <2>2, <2>3, JobsType DEF Outstanding
<1>3. CASE Submit(r) \/ RejudgeSave(r)
  <2>1. publishing'[s] = IF r = s THEN publishing[s] + 1 ELSE publishing[s]
    BY <1>3 DEF Submit, RejudgeSave, TypeOK, StoreType
  <2>2. queue' = queue
    BY <1>3 DEF Submit, RejudgeSave
  <2>. QED
    BY <1>1, <1>3, <2>1, <2>2, JobsType DEF Outstanding
<1>4. CASE ~Publish(r) /\ ~Submit(r) /\ ~RejudgeSave(r)
  <2>1. publishing' = publishing /\ queue' = queue
    BY <1>4 DEF ApiStep, RejudgeFind, ReadVerdict, ReadCache, CacheExpire
  <2>. QED
    BY <1>1, <1>4, <2>1 DEF Outstanding
<1>. QED
  BY <1>2, <1>3, <1>4

\* What a worker does to the count of jobs: giving a delivery back moves it,
\* a retry is a job more, and an acknowledgement ends the one it answers.
LEMMA JobsOfWorker ==
    ASSUME TypeOK, NEW w \in Worker, NEW s \in Sub, WritesSucceed
    PROVE  /\ WorkerFault(w) => Outstanding(s)' = Outstanding(s)
           /\ Ack(w) => Outstanding(s)' = IF owns[w] /\ Of(w) = s THEN Outstanding(s) - 1
                                                                  ELSE Outstanding(s)
           /\ PublishRetry(w) => Outstanding(s)' = IF Of(w) = s THEN Outstanding(s) + 1
                                                                ELSE Outstanding(s)
           /\ Work(w) /\ ~Ack(w) /\ ~PublishRetry(w) => Outstanding(s)' = Outstanding(s)
<1> USE DEF stores, api, broker
<1> DEFINE U == Cardinality(Unacked(s))
<1>0. /\ publishing[s] \in Nat /\ Count(queue, s) \in Nat /\ Count(retryQueue, s) \in Nat
      /\ U \in Nat
  BY JobsType
<1>1. ASSUME pc[w] # "idle", Done(w)
      PROVE  U' = IF owns[w] /\ Of(w) = s THEN U - 1 ELSE U
  <2>1. /\ ~owns'[w]
        /\ \A v \in Worker \ {w} : owns'[v] = owns[v] /\ msg'[v] = msg[v]
    BY <1>1 DEF Done, TypeOK, WorkerType
  <2>. QED
    BY <2>1, UnackedMove
<1>2. ASSUME WorkerFault(w) PROVE Outstanding(s)' = Outstanding(s)
  <2>1. pc[w] # "idle" /\ Requeue(w) /\ UNCHANGED <<publishing, retryQueue>>
    BY <1>2 DEF WorkerFault, Refuse, FetchFail, PublishRetryFail, WorkspaceFail, At, Fault,
                WritesSucceed, Requeue
  <2>2. U' = IF owns[w] /\ Of(w) = s THEN U - 1 ELSE U
    BY <1>1, <2>1 DEF Requeue
  <2>3. Count(queue, s)' = IF owns[w] /\ Of(w) = s THEN Count(queue, s) + 1 ELSE Count(queue, s)
    <3>1. msg[w] \in Msg /\ queue \in Bag
      BY <2>1, OfType DEF TypeOK, BrokerType
    <3>2. queue' = IF owns[w] THEN Put(queue, msg[w]) ELSE queue
      BY <2>1 DEF Requeue
    <3>. QED
      BY <3>1, <3>2, CountPut DEF Of
  <2> HIDE DEF U
  <2>. QED
    BY <1>0, <2>1, <2>2, <2>3 DEF Outstanding, U
<1>3. ASSUME Ack(w)
      PROVE  Outstanding(s)' = IF owns[w] /\ Of(w) = s THEN Outstanding(s) - 1
                                                       ELSE Outstanding(s)
  <2>1. pc[w] # "idle" /\ Done(w) /\ UNCHANGED <<publishing, queue, retryQueue>>
    BY <1>3 DEF Ack, At
  <2>2. U' = IF owns[w] /\ Of(w) = s THEN U - 1 ELSE U
    BY <1>1, <2>1
  <2> HIDE DEF U
  <2>. QED
    BY <1>0, <2>1, <2>2 DEF Outstanding, U
<1>4. ASSUME PublishRetry(w)
      PROVE  Outstanding(s)' = IF Of(w) = s THEN Outstanding(s) + 1 ELSE Outstanding(s)
  <2>1. /\ pc[w] = "retrying" /\ retryQueue' = Put(retryQueue, NextTry(msg[w]))
        /\ UNCHANGED <<publishing, queue, owns, msg>>
    BY <1>4 DEF PublishRetry, At
  <2>2. U' = U
    BY <2>1 DEF Unacked, Of
  <2>3. NextTry(msg[w]) \in Msg /\ NextTry(msg[w]).sub = Of(w)
    <3>1. msg[w] \in Msg /\ msg[w].tries < MaxRetries
      BY <2>1, OfType DEF TypeOK, WorkerType
    <3>. QED
      BY <3>1, PipelineAssumption DEF Msg, NextTry, Of
  <2>4. Count(retryQueue, s)' = IF Of(w) = s THEN Count(retryQueue, s) + 1
                                             ELSE Count(retryQueue, s)
    BY <2>1, <2>3, CountPut DEF TypeOK, BrokerType
  <2> HIDE DEF U
  <2>. QED
    BY <1>0, <2>1, <2>2, <2>4 DEF Outstanding, U
<1>5. ASSUME Work(w), ~Ack(w), ~PublishRetry(w) PROVE Outstanding(s)' = Outstanding(s)
  <2>1. UNCHANGED <<publishing, queue, retryQueue, owns, msg>>
    BY <1>5 DEF Work, Acquire, AcquireFail, MarkFailed, Execute, StoreMongo, StoreCounters,
                StoreUsage, StoreRedis
  <2>2. U' = U
    BY <2>1 DEF Unacked, Of
  <2>. QED
    BY <2>1, <2>2 DEF Outstanding
<1>. QED
  BY <1>2, <1>3, <1>4, <1>5

\* The broker and the judge process only move jobs.
LEMMA JobsOfBroker ==
    ASSUME TypeOK, NEW s \in Sub,
           \/ \E w \in Worker, m \in Msg : Deliver(w, m)
           \/ \E m \in Msg : RetryExpire(m)
           \/ Crash \/ ConnectionLost \/ Signal \/ Stop \/ Start \/ UNCHANGED vars
    PROVE  Outstanding(s)' = Outstanding(s)
<1> USE DEF stores, api, broker, workers
<1> DEFINE U == Cardinality(Unacked(s))
<1>0. /\ publishing[s] \in Nat /\ Count(queue, s) \in Nat /\ Count(retryQueue, s) \in Nat
      /\ U \in Nat
  BY JobsType
<1>a. queue \in Bag /\ retryQueue \in Bag
  BY DEF TypeOK, BrokerType
<1>1. ASSUME NEW w \in Worker, NEW m \in Msg, Deliver(w, m)
      PROVE  Outstanding(s)' = Outstanding(s)
  <2>1. publishing' = publishing /\ retryQueue' = retryQueue
    BY <1>1 DEF Deliver
  <2>2. U' = IF m.sub = s THEN U + 1 ELSE U
    BY <1>1, UnackedEnter
  <2>3. /\ Count(queue, s)' \in Nat
        /\ Count(queue, s) = IF m.sub = s THEN Count(queue, s)' + 1 ELSE Count(queue, s)'
    BY <1>1, <1>a, CountTake DEF Deliver
  <2> HIDE DEF U
  <2>. QED
    BY <1>0, <2>1, <2>2, <2>3 DEF Outstanding, U
<1>2. ASSUME NEW m \in Msg, RetryExpire(m) PROVE Outstanding(s)' = Outstanding(s)
  <2>1. U' = U /\ publishing' = publishing
    BY <1>2 DEF RetryExpire, Unacked, Of
  <2>2. Count(queue, s)' = IF m.sub = s THEN Count(queue, s) + 1 ELSE Count(queue, s)
    BY <1>2, <1>a, CountPut DEF RetryExpire
  <2>3. /\ Count(retryQueue, s)' \in Nat
        /\ Count(retryQueue, s) = IF m.sub = s THEN Count(retryQueue, s)' + 1
                                               ELSE Count(retryQueue, s)'
    BY <1>2, <1>a, CountTake DEF RetryExpire
  <2> HIDE DEF U
  <2>. QED
    BY <1>0, <2>1, <2>2, <2>3 DEF Outstanding, U
<1>3. ASSUME Crash \/ ConnectionLost PROVE Outstanding(s)' = Outstanding(s)
  <2>1. ReturnUnacked /\ UNCHANGED <<publishing, retryQueue>>
        /\ owns' = [w \in Worker |-> FALSE]
    BY <1>3 DEF Crash, ConnectionLost, ResetWorkers
  <2>2. Count(queue, s)' = Count(queue, s) + U
    BY <2>1, ReturnCount
  <2>3. U' = 0
    <3>1. Unacked(s)' = {}
      BY <2>1 DEF Unacked
    <3>. QED
      BY <3>1, FS_EmptySet
  <2> HIDE DEF U
  <2>. QED
    BY <1>0, <2>1, <2>2, <2>3 DEF Outstanding, U
<1>4. ASSUME Signal \/ Stop \/ Start \/ UNCHANGED vars PROVE Outstanding(s)' = Outstanding(s)
  <2>1. UNCHANGED <<publishing, queue, retryQueue, owns, msg>>
    BY <1>4 DEF Signal, Stop, Start, vars
  <2>2. U' = U
    BY <2>1 DEF Unacked, Of
  <2>. QED
    BY <2>1, <2>2 DEF Outstanding
<1>. QED
  BY <1>1, <1>2, <1>3, <1>4

-----------------------------------------------------------------------------
(* The invariant *)

LEMMA UnknownNext ==
    ASSUME TypeOK, UnknownIsIdle, [Next]_vars PROVE UnknownIsIdle'
<1> USE DEF stores, api, broker, workers
<1> SUFFICES ASSUME NEW s \in Sub, mongo'[s] = "none"
             PROVE  /\ publishing'[s] = 0 /\ rejudging'[s] = "none"
                    /\ \A m \in MsgsOf(s) : queue'[m] = 0 /\ retryQueue'[m] = 0
                    /\ \A w \in Worker : pc'[w] # "idle" => Of(w)' # s
  BY DEF UnknownIsIdle
<1>1. /\ mongo[s] = "none" /\ publishing[s] = 0 /\ rejudging[s] = "none"
      /\ \A m \in MsgsOf(s) : queue[m] = 0 /\ retryQueue[m] = 0
      /\ \A w \in Worker : pc[w] # "idle" => Of(w) # s
  BY StoredStays DEF UnknownIsIdle
<1>2. ASSUME /\ publishing'[s] = publishing[s] /\ rejudging'[s] = rejudging[s]
             /\ \A m \in MsgsOf(s) : queue'[m] = queue[m] /\ retryQueue'[m] = retryQueue[m]
             /\ \A w \in Worker : pc'[w] # "idle" => pc[w] # "idle" /\ msg'[w] = msg[w]
      PROVE  /\ publishing'[s] = 0 /\ rejudging'[s] = "none"
             /\ \A m \in MsgsOf(s) : queue'[m] = 0 /\ retryQueue'[m] = 0
             /\ \A w \in Worker : pc'[w] # "idle" => Of(w)' # s
  BY <1>1, <1>2 DEF Of
<1>3. ASSUME NEW n \in Msg, n.sub # s PROVE n \notin MsgsOf(s)
  BY <1>3 DEF MsgsOf
<1>4. \A m \in MsgsOf(s) : m \in Msg
  BY DEF MsgsOf
<1>5. ASSUME NEW r \in Sub, ApiStep(r)
      PROVE  /\ publishing'[s] = publishing[s] /\ rejudging'[s] = rejudging[s]
             /\ \A m \in MsgsOf(s) : queue'[m] = queue[m] /\ retryQueue'[m] = retryQueue[m]
             /\ \A w \in Worker : pc'[w] # "idle" => pc[w] # "idle" /\ msg'[w] = msg[w]
  <2>1. ~(Submit(s) \/ Publish(s) \/ PublishFail(s) \/ RejudgeFind(s) \/ RejudgeSave(s))
    BY <1>1 DEF Submit, Publish, PublishFail, RejudgeFind, RejudgeSave, TypeOK, StoreType
  <2>2. publishing'[s] = publishing[s] /\ rejudging'[s] = rejudging[s]
    BY <1>5, <2>1 DEF ApiStep, Submit, Publish, PublishFail, RejudgeFind, RejudgeSave,
                      ReadVerdict, ReadCache, CacheExpire, TypeOK, StoreType
  <2>3. UNCHANGED <<pc, msg, retryQueue>>
    BY <1>5 DEF ApiStep, Submit, Publish, PublishFail, RejudgeFind, RejudgeSave,
                ReadVerdict, ReadCache, CacheExpire
  <2>4. \A m \in MsgsOf(s) : queue'[m] = queue[m]
    <3>1. CASE Publish(r)
      <4>1. r # s /\ Fresh(r) \in Msg /\ Fresh(r).sub = r
        BY <2>1, <3>1, PipelineAssumption DEF Fresh, Msg
      <4>2. queue' = Put(queue, Fresh(r)) /\ queue \in Bag
        BY <3>1 DEF Publish, TypeOK, BrokerType
      <4>. QED
        BY <1>3, <1>4, <4>1, <4>2, PutMessages
    <3>2. CASE ~Publish(r)
      BY <1>5, <3>2 DEF ApiStep, Submit, PublishFail, RejudgeFind, RejudgeSave,
                        ReadVerdict, ReadCache, CacheExpire
    <3>. QED
      BY <3>1, <3>2
  <2>. QED
    BY <2>2, <2>3, <2>4
<1>6. ASSUME NEW w \in Worker, Work(w) \/ WorkerFault(w)
      PROVE  /\ publishing'[s] = publishing[s] /\ rejudging'[s] = rejudging[s]
             /\ \A m \in MsgsOf(s) : queue'[m] = queue[m] /\ retryQueue'[m] = retryQueue[m]
             /\ \A v \in Worker : pc'[v] # "idle" => pc[v] # "idle" /\ msg'[v] = msg[v]
  <2>1. pc[w] # "idle" /\ msg[w] \in Msg /\ msg[w].sub # s
    BY <1>1, <1>6, BusyStep DEF Of
  <2>2. UNCHANGED <<publishing, rejudging>>
    BY <1>6 DEF Work, Acquire, AcquireFail, MarkFailed, PublishRetry, Execute, StoreMongo,
                StoreCounters, StoreUsage, StoreRedis, Ack, WorkerFault, Refuse, FetchFail,
                PublishRetryFail, WorkspaceFail
  <2>3. \A v \in Worker : pc'[v] # "idle" => pc[v] # "idle" /\ msg'[v] = msg[v]
    <3>1. Done(w) \/ (msg' = msg /\ \E p : Goto(w, p))
      BY <1>6 DEF Work, Acquire, AcquireFail, MarkFailed, PublishRetry, Execute, StoreMongo,
                StoreCounters, StoreUsage, StoreRedis, Ack, WorkerFault, Refuse, FetchFail,
                PublishRetryFail, WorkspaceFail, Requeue, Reject
    <3>. QED
      BY <2>1, <3>1 DEF Done, Goto, TypeOK, WorkerType
  <2>4. /\ queue' = queue \/ queue' = Put(queue, msg[w])
        /\ \/ retryQueue' = retryQueue
           \/ pc[w] = "retrying" /\ retryQueue' = Put(retryQueue, NextTry(msg[w]))
    <3>1. CASE PublishRetry(w)
      BY <3>1 DEF PublishRetry, At
    <3>2. ASSUME ~PublishRetry(w), Work(w) PROVE queue' = queue /\ retryQueue' = retryQueue
      BY <3>2 DEF Work, Acquire, AcquireFail, MarkFailed, Execute, StoreMongo,
                  StoreCounters, StoreUsage, StoreRedis, Ack
    <3>3. ASSUME WorkerFault(w)
          PROVE  (queue' = queue \/ queue' = Put(queue, msg[w])) /\ retryQueue' = retryQueue
      <4>1. Requeue(w) \/ Reject(w)
        BY <3>3 DEF WorkerFault, Refuse, FetchFail, PublishRetryFail, WorkspaceFail
      <4>. QED
        BY <4>1 DEF Requeue, Reject
    <3>. QED
      BY <1>6, <3>1, <3>2, <3>3
  <2>5. pc[w] = "retrying" => NextTry(msg[w]) \in Msg /\ NextTry(msg[w]).sub # s
    <3>1. pc[w] = "retrying" => msg[w].tries < MaxRetries
      BY DEF TypeOK, WorkerType
    <3>. QED
      BY <2>1, <3>1, PipelineAssumption DEF Msg, NextTry
  <2>6. \A m \in MsgsOf(s) : queue'[m] = queue[m] /\ retryQueue'[m] = retryQueue[m]
    BY <1>3, <1>4, <2>1, <2>4, <2>5, PutMessages DEF TypeOK, BrokerType
  <2>. QED
    BY <2>2, <2>3, <2>6
<1>7. ASSUME NEW w \in Worker, NEW m \in Msg, Deliver(w, m)
      PROVE  /\ publishing'[s] = 0 /\ rejudging'[s] = "none"
             /\ \A n \in MsgsOf(s) : queue'[n] = 0 /\ retryQueue'[n] = 0
             /\ \A v \in Worker : pc'[v] # "idle" => Of(v)' # s
  <2>1. m.sub # s
    BY <1>1, <1>7 DEF Deliver, MsgsOf
  <2>2. \A n \in MsgsOf(s) : queue'[n] = queue[n]
    BY <1>3, <1>4, <1>7, <2>1, TakeMessages DEF Deliver, TypeOK, BrokerType
  <2>3. \A v \in Worker : pc'[v] # "idle" => Of(v)' # s
    BY <1>1, <1>7, <2>1 DEF Deliver, Goto, Of, TypeOK, WorkerType
  <2>. QED
    BY <1>1, <1>7, <2>2, <2>3 DEF Deliver
<1>8. ASSUME NEW m \in Msg, RetryExpire(m)
      PROVE  /\ publishing'[s] = publishing[s] /\ rejudging'[s] = rejudging[s]
             /\ \A n \in MsgsOf(s) : queue'[n] = queue[n] /\ retryQueue'[n] = retryQueue[n]
             /\ \A w \in Worker : pc'[w] # "idle" => pc[w] # "idle" /\ msg'[w] = msg[w]
  <2>1. m.sub # s
    BY <1>1, <1>8 DEF RetryExpire, MsgsOf
  <2>2. \A n \in MsgsOf(s) : queue'[n] = queue[n] /\ retryQueue'[n] = retryQueue[n]
    BY <1>3, <1>4, <1>8, <2>1, PutMessages, TakeMessages DEF RetryExpire, TypeOK, BrokerType
  <2>. QED
    BY <1>8, <2>2 DEF RetryExpire
<1>9. ASSUME Crash \/ ConnectionLost
      PROVE  /\ publishing'[s] = publishing[s] /\ rejudging'[s] = rejudging[s]
             /\ \A n \in MsgsOf(s) : queue'[n] = queue[n] /\ retryQueue'[n] = retryQueue[n]
             /\ \A w \in Worker : pc'[w] # "idle" => pc[w] # "idle" /\ msg'[w] = msg[w]
  <2>1. ReturnUnacked /\ UNCHANGED <<publishing, rejudging, retryQueue>>
    BY <1>9 DEF Crash, ConnectionLost
  <2>2. ASSUME NEW n \in MsgsOf(s) PROVE queue'[n] = queue[n]
    <3>1. n \in Msg /\ n.sub = s /\ queue[n] \in Nat
      BY DEF MsgsOf, TypeOK, BrokerType, Bag
    <3>2. {w \in Worker : owns[w] /\ msg[w] = n} = {}
      BY <1>1, <3>1 DEF Of, TypeOK, WorkerType
    <3>3. queue'[n] = queue[n] + Cardinality({w \in Worker : owns[w] /\ msg[w] = n})
      BY <2>1, <3>1 DEF ReturnUnacked
    <3>. QED
      BY <3>1, <3>2, <3>3, FS_EmptySet
  <2>3. \A w \in Worker : pc'[w] # "idle" => pc[w] # "idle" /\ msg'[w] = msg[w]
    BY <1>9 DEF Crash, ConnectionLost, ResetWorkers
  <2>. QED
    BY <2>1, <2>2, <2>3
<1>10. CASE Signal \/ Stop \/ Start \/ UNCHANGED vars
  BY <1>2, <1>10 DEF Signal, Stop, Start, vars
<1>. QED
  BY <1>2, <1>5, <1>6, <1>7, <1>8, <1>9, <1>10 DEF Next

\* Storing a result, or giving up, leaves a verdict.
LEMMA StoringSettles ==
    ASSUME TypeOK, WritesSucceed, NEW w \in Worker, StoreMongo(w) \/ MarkFailed(w)
    PROVE  /\ Of(w) \in Sub /\ \E v \in Verdict : mongo' = [mongo EXCEPT ![Of(w)] = v]
           /\ mongo'[Of(w)] \in Verdict
<1>1. pc[w] \in {"storing", "failing"} /\ Of(w) \in Sub
  BY OfType DEF StoreMongo, MarkFailed, At, TypeOK
<1>2. PICK v \in Verdict : mongo' = [mongo EXCEPT ![Of(w)] = v]
  <2>1. ~Fault("mongo")
    BY DEF Fault, WritesSucceed
  <2>2. pc[w] = "storing" => verdict[w] \in Verdict
    BY DEF TypeOK, WorkerType, StoringPC
  <2>3. "Error" \in Verdict
    BY DEF Verdict
  <2>. QED
    BY <2>1, <2>2, <2>3 DEF StoreMongo, MarkFailed, At
<1>. QED
  BY <1>1, <1>2 DEF TypeOK, StoreType

LEMMA AliveNext ==
    ASSUME WritesSucceed, TypeOK, PendingIsAlive, [Next]_vars PROVE PendingIsAlive'
<1> USE DEF stores, api, broker, workers
<1> SUFFICES ASSUME NEW s \in Sub, mongo'[s] = "Pending"
             PROVE  Waiting(s)' \/ Working(s)'
  BY DEF PendingIsAlive
<1>0. /\ \A m \in MsgsOf(s) : /\ m \in Msg /\ queue[m] \in Nat /\ retryQueue[m] \in Nat
                              /\ queue'[m] \in Nat /\ retryQueue'[m] \in Nat
      /\ publishing[s] \in Nat /\ publishing'[s] \in Nat
  BY TypeNext DEF TypeOK, StoreType, BrokerType, Bag, MsgsOf
<1>a. \A m \in MsgsOf(s) : queue'[m] > 0 \/ retryQueue'[m] > 0 => Waiting(s)'
  BY DEF Waiting
<1>b. ASSUME NEW w \in Worker, owns'[w], pc'[w] \in UnstoredPC, msg'[w].sub = s
      PROVE  Working(s)'
  BY <1>b DEF Working, Of
<1>c. queue \in Bag /\ retryQueue \in Bag
  BY DEF TypeOK, BrokerType
<1>1. CASE Submit(s) \/ RejudgeSave(s)
  <2>1. publishing'[s] = publishing[s] + 1
    BY <1>1 DEF Submit, RejudgeSave, TypeOK, StoreType
  <2>. QED
    BY <1>0, <2>1 DEF Waiting
<1>2. CASE ~Submit(s) /\ ~RejudgeSave(s)
  <2>1. /\ mongo[s] = "Pending"
        /\ \A w \in Worker : Of(w) = s => ~StoreMongo(w) /\ ~MarkFailed(w)
    BY <1>2, MongoFrame, StoringSettles DEF Verdict
  <2>2. Waiting(s) \/ Working(s)
    BY <2>1 DEF PendingIsAlive
  <2>3. ASSUME Waiting(s), publishing'[s] >= publishing[s],
               \A m \in MsgsOf(s) : queue'[m] >= queue[m] /\ retryQueue'[m] >= retryQueue[m]
        PROVE  Waiting(s)'
    BY <1>0, <2>3 DEF Waiting
  <2>4. ASSUME NEW w \in Worker, owns[w], pc[w] \in UnstoredPC, Of(w) = s,
               owns'[w] = owns[w], pc'[w] \in UnstoredPC, msg'[w] = msg[w]
        PROVE  Working(s)'
    BY <1>b, <2>4 DEF Of
  <2>5. ASSUME NEW r \in Sub, ApiStep(r) PROVE Waiting(s)' \/ Working(s)'
    <3>1. UNCHANGED <<owns, pc, msg, retryQueue>>
      BY <2>5 DEF ApiStep, Submit, Publish, PublishFail, RejudgeFind, RejudgeSave,
                  ReadVerdict, ReadCache, CacheExpire
    <3>2. CASE Publish(r)
      <4>1. Fresh(r) \in Msg /\ Fresh(r).sub = r
        BY PipelineAssumption DEF Fresh, Msg
      <4>2. /\ queue' = Put(queue, Fresh(r))
            /\ publishing' = [publishing EXCEPT ![r] = @ - 1]
        BY <3>2 DEF Publish
      <4>3. CASE r = s
        <5>1. Fresh(r) \in MsgsOf(s) /\ queue'[Fresh(r)] > 0
          BY <1>c, <4>1, <4>2, <4>3, PutMessages DEF MsgsOf
        <5>. QED
          BY <1>a, <5>1
      <4>4. CASE r # s
        <5>1. publishing'[s] = publishing[s]
          BY <4>2, <4>4 DEF TypeOK, StoreType
        <5>2. \A m \in MsgsOf(s) : queue'[m] >= queue[m] /\ retryQueue'[m] >= retryQueue[m]
          BY <1>0, <1>c, <3>1, <4>1, <4>2, PutMessages
        <5>. QED
          BY <1>0, <2>2, <2>3, <2>4, <3>1, <5>1, <5>2 DEF Working
      <4>. QED
        BY <4>3, <4>4
    <3>3. CASE ~Publish(r)
      <4>1. ~PublishFail(r)
        BY DEF PublishFail, Fault, WritesSucceed
      <4>2. publishing'[s] = publishing[s] /\ queue' = queue
        BY <1>2, <2>5, <3>3, <4>1
        DEF ApiStep, Submit, RejudgeFind, RejudgeSave, ReadVerdict, ReadCache, CacheExpire,
            TypeOK, StoreType
      <4>. QED
        BY <1>0, <2>2, <2>3, <2>4, <3>1, <4>2 DEF Working
    <3>. QED
      BY <3>2, <3>3
  <2>6. ASSUME NEW w \in Worker, Work(w) \/ WorkerFault(w) PROVE Waiting(s)' \/ Working(s)'
    <3>1. msg[w] \in Msg /\ msg[w] \in MsgsOf(Of(w)) /\ pc[w] # "idle"
      BY <2>6, BusyStep
    <3>2. CASE PublishRetry(w)
      <4>1. /\ pc[w] = "retrying" /\ retryQueue' = Put(retryQueue, NextTry(msg[w]))
            /\ UNCHANGED <<publishing, queue, owns, msg>>
            /\ \A v \in Worker : v # w => pc'[v] = pc[v]
        BY <3>2 DEF PublishRetry, At, Goto, TypeOK, WorkerType
      <4>2. NextTry(msg[w]) \in Msg /\ NextTry(msg[w]) \in MsgsOf(Of(w))
        <5>1. msg[w].tries < MaxRetries
          BY <4>1 DEF TypeOK, WorkerType
        <5>. QED
          BY <3>1, <5>1, PipelineAssumption DEF Msg, NextTry, MsgsOf
      <4>3. /\ retryQueue'[NextTry(msg[w])] > 0
            /\ \A m \in MsgsOf(s) : queue'[m] >= queue[m] /\ retryQueue'[m] >= retryQueue[m]
        BY <1>0, <1>c, <4>1, <4>2, PutMessages
      <4>4. CASE Of(w) = s
        BY <1>a, <4>2, <4>3, <4>4
      <4>5. CASE Of(w) # s
        BY <1>0, <2>2, <2>3, <2>4, <4>1, <4>3, <4>5 DEF Working
      <4>. QED
        BY <4>4, <4>5
    <3>3. CASE WorkerFault(w)
      <4>1. Requeue(w) /\ UNCHANGED <<publishing, retryQueue>>
        BY <3>3 DEF WorkerFault, Refuse, FetchFail, PublishRetryFail, WorkspaceFail, Fault,
                    WritesSucceed, Requeue
      <4>2. /\ \A m \in MsgsOf(s) : queue'[m] >= queue[m] /\ retryQueue'[m] >= retryQueue[m]
            /\ owns[w] => queue'[msg[w]] > 0
        BY <1>0, <1>c, <3>1, <4>1, PutMessages DEF Requeue
      <4>3. \A v \in Worker : v # w => pc'[v] = pc[v] /\ owns'[v] = owns[v] /\ msg'[v] = msg[v]
        BY <4>1 DEF Requeue, Done, Goto, TypeOK, WorkerType
      <4>4. CASE owns[w] /\ Of(w) = s
        BY <1>a, <3>1, <4>2, <4>4
      <4>5. CASE ~(owns[w] /\ Of(w) = s)
        BY <1>0, <2>2, <2>3, <2>4, <4>1, <4>2, <4>3, <4>5 DEF Working
      <4>. QED
        BY <4>4, <4>5
    <3>4. CASE Work(w) /\ ~PublishRetry(w)
      <4>1. UNCHANGED <<publishing, queue, retryQueue>>
        BY <3>4 DEF Work, Acquire, AcquireFail, MarkFailed, Execute, StoreMongo,
                    StoreCounters, StoreUsage, StoreRedis, Ack
      <4>2. \A v \in Worker : v # w => pc'[v] = pc[v] /\ owns'[v] = owns[v] /\ msg'[v] = msg[v]
        <5>1. Done(w) \/ (owns' = owns /\ msg' = msg /\ \E p : Goto(w, p))
          BY <3>4 DEF Work, Acquire, AcquireFail, MarkFailed, Execute, StoreMongo,
                      StoreCounters, StoreUsage, StoreRedis, Ack
        <5>. QED
          BY <5>1 DEF Done, Goto, TypeOK, WorkerType
      <4>3. Of(w) = s /\ pc[w] \in UnstoredPC =>
              owns'[w] = owns[w] /\ pc'[w] \in UnstoredPC /\ msg'[w] = msg[w]
        <5>1. Of(w) = s => ~StoreMongo(w) /\ ~MarkFailed(w)
          BY <2>1
        <5>. QED
          BY <3>4, <5>1 DEF Work, Acquire, AcquireFail, Execute, StoreCounters,
                  StoreUsage, StoreRedis, Ack, At, Goto, UnstoredPC, TypeOK, WorkerType
      <4>. QED
        BY <1>0, <2>2, <2>3, <2>4, <4>1, <4>2, <4>3 DEF Working
    <3>. QED
      BY <2>6, <3>2, <3>3, <3>4
  <2>7. ASSUME NEW w \in Worker, NEW m \in Msg, Deliver(w, m) PROVE Waiting(s)' \/ Working(s)'
    <3>1. /\ pc[w] = "idle" /\ pc'[w] = "checking" /\ owns'[w] /\ msg'[w] = m
          /\ \A v \in Worker : v # w => pc'[v] = pc[v] /\ owns'[v] = owns[v] /\ msg'[v] = msg[v]
          /\ UNCHANGED <<publishing, retryQueue>>
      BY <2>7 DEF Deliver, At, Goto, TypeOK, WorkerType
    <3>2. CASE m.sub = s
      BY <1>b, <3>1, <3>2 DEF UnstoredPC
    <3>3. CASE m.sub # s
      <4>1. \A n \in MsgsOf(s) : queue'[n] >= queue[n] /\ retryQueue'[n] >= retryQueue[n]
        BY <1>0, <1>c, <2>7, <3>1, <3>3, TakeMessages DEF Deliver, MsgsOf
      <4>2. "idle" \notin UnstoredPC
        BY DEF UnstoredPC
      <4>. QED
        BY <1>0, <2>2, <2>3, <2>4, <3>1, <4>1, <4>2 DEF Working
    <3>. QED
      BY <3>2, <3>3
  <2>8. ASSUME NEW m \in Msg, RetryExpire(m) PROVE Waiting(s)' \/ Working(s)'
    <3>1. UNCHANGED <<publishing, pc, owns, msg>>
      BY <2>8 DEF RetryExpire
    <3>2. CASE m.sub = s
      <4>1. m \in MsgsOf(s) /\ queue'[m] > 0
        BY <1>c, <2>8, <3>2, PutMessages DEF RetryExpire, MsgsOf
      <4>. QED
        BY <1>a, <4>1
    <3>3. CASE m.sub # s
      <4>1. \A n \in MsgsOf(s) : queue'[n] >= queue[n] /\ retryQueue'[n] >= retryQueue[n]
        BY <1>0, <1>c, <2>8, <3>3, PutMessages, TakeMessages DEF RetryExpire, MsgsOf
      <4>. QED
        BY <1>0, <2>2, <2>3, <2>4, <3>1, <4>1 DEF Working
    <3>. QED
      BY <3>2, <3>3
  <2>9. ASSUME Crash \/ ConnectionLost PROVE Waiting(s)' \/ Working(s)'
    <3>1. ReturnUnacked /\ UNCHANGED <<publishing, retryQueue>>
      BY <2>9 DEF Crash, ConnectionLost
    <3>2. CASE Waiting(s)
      <4>1. \A m \in MsgsOf(s) : queue'[m] >= queue[m] /\ retryQueue'[m] >= retryQueue[m]
        BY <1>0, <3>1, ReturnedMessages
      <4>. QED
        BY <1>0, <2>3, <3>1, <3>2, <4>1
    <3>3. ASSUME NEW w \in Worker, owns[w], pc[w] \in UnstoredPC, Of(w) = s
          PROVE  Waiting(s)'
      <4>1. pc[w] # "idle"
        BY <3>3 DEF UnstoredPC
      <4>2. msg[w] \in MsgsOf(s) /\ queue'[msg[w]] > 0
        BY <3>1, <3>3, <4>1, OfType, ReturnedMessages DEF TypeOK, MsgsOf, Of
      <4>. QED
        BY <1>a, <4>2
    <3>. QED
      BY <2>2, <3>2, <3>3 DEF Working
  <2>10. CASE Signal \/ Stop \/ Start \/ UNCHANGED vars
    <3>1. UNCHANGED <<publishing, queue, retryQueue, pc, owns, msg>>
      BY <2>10 DEF Signal, Stop, Start, vars
    <3>. QED
      BY <1>0, <2>2, <2>3, <2>4, <3>1 DEF Working
  <2>. QED
    BY <2>5, <2>6, <2>7, <2>8, <2>9, <2>10 DEF Next
<1>. QED
  BY <1>1, <1>2

LEMMA JobsInvInit == Init => JobsInv
<1> SUFFICES ASSUME Init PROVE JobsInv
  OBVIOUS
<1>1. PendingIsAlive /\ LostIsReady /\ DownIsIdle
  BY DEF Init, PendingIsAlive, LostIsReady, DownIsIdle
<1>2. UnknownIsIdle
  BY DEF Init, UnknownIsIdle, MsgsOf
<1>. QED
  BY <1>1, <1>2 DEF JobsInv

LEMMA JobsInvNext == WritesSucceed /\ TypeOK /\ JobsInv /\ [Next]_vars => JobsInv'
  BY AliveNext, UnknownNext, LostNext, DownNext DEF JobsInv

-----------------------------------------------------------------------------
(* The refinement *)

\* Whoever acknowledges before the verdict leaves another job behind.
LEMMA TwoJobs ==
    ASSUME TypeOK, NEW w \in Worker, NEW s \in Sub, pc[w] = "acking", owns[w], Of(w) = s,
           Waiting(s) \/ Working(s)
    PROVE  Outstanding(s) > 1
<1>1. w \in Unacked(s)
  BY DEF Unacked
<1>2. Cardinality(Unacked(s)) \in Nat /\ Cardinality(Unacked(s)) # 0
  BY <1>1, JobsType, FS_EmptySet
<1>3. CASE Waiting(s)
  <2>1. publishing[s] + Count(queue, s) + Count(retryQueue, s) > 0
    BY <1>3, CountZero, JobsType DEF Waiting, TypeOK, BrokerType
  <2>. QED
    BY <1>2, <2>1, JobsType DEF Outstanding
<1>4. ASSUME NEW v \in Worker, owns[v], pc[v] \in UnstoredPC, Of(v) = s
      PROVE  Outstanding(s) > 1
  <2>1. v # w /\ v \in Unacked(s)
    BY <1>4 DEF UnstoredPC, Unacked
  <2>2. Cardinality(Unacked(s)) # 1
    BY <1>1, <2>1, JobsType, FS_Singleton
  <2>. QED
    BY <1>2, <2>2, JobsType DEF Outstanding
<1>. QED
  BY <1>3, <1>4 DEF Working

\* Every step of the pipeline is a step of AtLeastOnce, or none.
LEMMA JobsStep ==
    ASSUME WritesSucceed, TypeOK, JobsInv, [Next]_vars
    PROVE  [Jobs!Next]_(Jobs!vars)
<1> DEFINE J == [s \in Sub |-> Outstanding(s)]
           S == [s \in Sub |-> mongo[s] \in Verdict]
<1> USE DEF stores, api, broker, workers
<1>1. \A s \in Sub : Outstanding(s) \in Nat
  BY JobsType DEF Outstanding
<1>2. ASSUME \A s \in Sub : Outstanding(s)' = Outstanding(s) PROVE J' = J
  BY <1>2
<1>3. mongo' = mongo => S' = S
  OBVIOUS
<1>4. ASSUME J' = J, S' = S PROVE UNCHANGED Jobs!vars
  BY <1>4 DEF Jobs!vars
<1>5. ASSUME NEW r \in Sub, ApiStep(r) PROVE [Jobs!Next]_(Jobs!vars)
  <2>1. ~PublishFail(r)
    BY DEF PublishFail, Fault, WritesSucceed
  <2>2. CASE Submit(r) \/ RejudgeSave(r)
    <3>1. J' = [J EXCEPT ![r] = @ + 1]
      <4>1. \A s \in Sub : Outstanding(s)' = IF s = r THEN Outstanding(s) + 1 ELSE Outstanding(s)
        BY <1>5, <2>1, <2>2, JobsOfApi
      <4>. QED
        BY <4>1
    <3>2. S' = S \/ S' = [S EXCEPT ![r] = FALSE]
      <4>1. mongo' = mongo \/ mongo' = [mongo EXCEPT ![r] = "Pending"]
        BY <2>2 DEF Submit, RejudgeSave, TypeOK, StoreType
      <4>2. "Pending" \notin Verdict
        BY DEF Verdict
      <4>3. ASSUME mongo' = [mongo EXCEPT ![r] = "Pending"]
            PROVE  S' = [S EXCEPT ![r] = FALSE]
        <5> DEFINE T == [s \in Sub |-> s # r /\ mongo[s] \in Verdict]
        <5>1. \A s \in Sub : mongo'[s] \in Verdict <=> s # r /\ mongo[s] \in Verdict
          BY <4>2, <4>3 DEF TypeOK, StoreType
        <5>2. S' = T
          BY <5>1
        <5>3. [S EXCEPT ![r] = FALSE] = T
          <6>1. S \in [Sub -> BOOLEAN] /\ T \in [Sub -> BOOLEAN]
            OBVIOUS
          <6>2. ~T[r]
            OBVIOUS
          <6>3. \A s \in Sub : s # r => (S[s] <=> T[s])
            OBVIOUS
          <6> HIDE DEF S, T
          <6>. QED
            BY <6>1, <6>2, <6>3
        <5>. QED
          BY <5>2, <5>3
      <4>. QED
        BY <1>3, <4>1, <4>3
    <3>3. Jobs!Accept(r)
      BY <3>1, <3>2 DEF Jobs!Accept
    <3>. QED
      BY <3>3 DEF Jobs!Next
  <2>3. CASE ~Submit(r) /\ ~RejudgeSave(r)
    <3>1. \A s \in Sub : Outstanding(s)' = Outstanding(s)
      BY <1>5, <2>1, <2>3, JobsOfApi
    <3>2. mongo' = mongo
      BY <1>5, <2>3 DEF ApiStep, Publish, PublishFail, RejudgeFind, ReadVerdict, ReadCache,
                        CacheExpire
    <3>. QED
      BY <1>2, <1>3, <1>4, <3>1, <3>2
  <2>. QED
    BY <2>2, <2>3
<1>6. ASSUME NEW w \in Worker, Work(w) PROVE [Jobs!Next]_(Jobs!vars)
  <2>0. pc[w] # "idle" /\ Of(w) \in Sub /\ msg[w] \in MsgsOf(Of(w))
    BY <1>6, BusyStep
  <2>1. CASE StoreMongo(w) \/ MarkFailed(w)
    <3>1. Outstanding(Of(w)) > 0
      <4>1. CASE owns[w]
        BY <2>0, <4>1, JobsPositive
      <4>2. CASE ~owns[w]
        BY <2>0, <4>2, JobsPositive DEF JobsInv, LostIsReady
      <4>. QED
        BY <4>1, <4>2
    <3>2. S' = [S EXCEPT ![Of(w)] = TRUE]
      <4>1. PICK v \in Verdict : mongo' = [mongo EXCEPT ![Of(w)] = v]
        BY <2>1, StoringSettles
      <4>. QED
        BY <2>0, <4>1 DEF TypeOK, StoreType
    <3>3. J' = J
      <4>1. ~Ack(w) /\ ~PublishRetry(w)
        BY <2>1 DEF StoreMongo, MarkFailed, Ack, PublishRetry, At
      <4>2. \A s \in Sub : Outstanding(s)' = Outstanding(s)
        BY <1>6, <4>1, JobsOfWorker
      <4>. QED
        BY <1>2, <4>2
    <3>4. PICK s \in Sub : s = Of(w)
      BY <2>0
    <3>5. Jobs!Settle(s)
      BY <3>1, <3>2, <3>3, <3>4 DEF Jobs!Settle
    <3>. QED
      BY <3>5 DEF Jobs!Next
  <2>2. CASE PublishRetry(w)
    <3>1. owns[w]
      BY <2>0, <2>2 DEF PublishRetry, JobsInv, LostIsReady
    <3>2. Outstanding(Of(w)) > 0
      BY <2>0, <3>1, JobsPositive
    <3>3. \A s \in Sub : Outstanding(s)' = IF Of(w) = s THEN Outstanding(s) + 1
                                                       ELSE Outstanding(s)
      BY <2>2, JobsOfWorker
    <3>4. J' = [J EXCEPT ![Of(w)] = @ + 1]
      BY <2>0, <3>3
    <3>5. mongo' = mongo
      BY <2>2 DEF PublishRetry
    <3>6. Jobs!Duplicate(Of(w))
      BY <1>3, <2>0, <3>2, <3>4, <3>5 DEF Jobs!Duplicate
    <3>. QED
      BY <2>0, <3>6 DEF Jobs!Next
  <2>3. CASE Ack(w)
    <3>1. mongo' = mongo /\ pc[w] = "acking"
      BY <2>3 DEF Ack, At
    <3>2. \A s \in Sub : Outstanding(s)' = IF owns[w] /\ Of(w) = s THEN Outstanding(s) - 1
                                                                  ELSE Outstanding(s)
      BY <2>3, JobsOfWorker
    <3>3. CASE owns[w]
      <4>1. Outstanding(Of(w)) > 0
        BY <2>0, <3>3, JobsPositive
      <4>2. mongo[Of(w)] # "none"
        BY <2>0 DEF JobsInv, UnknownIsIdle
      <4>3. mongo[Of(w)] \in Verdict \/ Outstanding(Of(w)) > 1
        <5>1. CASE mongo[Of(w)] = "Pending"
          BY <2>0, <3>1, <3>3, <5>1, TwoJobs DEF JobsInv, PendingIsAlive
        <5>. QED
          BY <2>0, <4>2, <5>1 DEF TypeOK, StoreType
      <4>4. J' = [J EXCEPT ![Of(w)] = @ - 1]
        BY <2>0, <3>2, <3>3
      <4>5. Jobs!Finish(Of(w))
        BY <1>3, <2>0, <3>1, <4>1, <4>3, <4>4 DEF Jobs!Finish
      <4>. QED
        BY <2>0, <4>5 DEF Jobs!Next
    <3>4. CASE ~owns[w]
      <4>1. \A s \in Sub : Outstanding(s)' = Outstanding(s)
        BY <3>2, <3>4
      <4>. QED
        BY <1>2, <1>3, <1>4, <3>1, <4>1
    <3>. QED
      BY <3>3, <3>4
  <2>4. CASE ~StoreMongo(w) /\ ~MarkFailed(w) /\ ~PublishRetry(w) /\ ~Ack(w)
    <3>1. \A s \in Sub : Outstanding(s)' = Outstanding(s)
      BY <1>6, <2>4, JobsOfWorker
    <3>2. mongo' = mongo
      BY <1>6, <2>4 DEF Work, Acquire, AcquireFail, Execute, StoreCounters, StoreUsage, StoreRedis
    <3>. QED
      BY <1>2, <1>3, <1>4, <3>1, <3>2
  <2>. QED
    BY <2>1, <2>2, <2>3, <2>4
<1>7. ASSUME NEW w \in Worker, WorkerFault(w) PROVE [Jobs!Next]_(Jobs!vars)
  <2>1. \A s \in Sub : Outstanding(s)' = Outstanding(s)
    BY <1>7, JobsOfWorker
  <2>2. mongo' = mongo
    BY <1>7 DEF WorkerFault, Refuse, FetchFail, PublishRetryFail, WorkspaceFail
  <2>. QED
    BY <1>2, <1>3, <1>4, <2>1, <2>2
<1>8. CASE \/ \E w \in Worker, m \in Msg : Deliver(w, m)
           \/ \E m \in Msg : RetryExpire(m)
           \/ Crash \/ ConnectionLost \/ Signal \/ Stop \/ Start \/ UNCHANGED vars
  <2>1. \A s \in Sub : Outstanding(s)' = Outstanding(s)
    BY <1>8, JobsOfBroker
  <2>2. mongo' = mongo
    BY <1>8 DEF Deliver, RetryExpire, Crash, ConnectionLost, Signal, Stop, Start, vars
  <2>. QED
    BY <1>2, <1>3, <1>4, <2>1, <2>2
<1>. QED
  BY <1>5, <1>6, <1>7, <1>8 DEF Next

\* The pipeline keeps every job until its submission has a verdict, through
\* crashes, lost connections, signals, retries and failing calls, as long as
\* publishes and MongoDB writes succeed and no worker rejects.
THEOREM NoJobIsLost ==
    ASSUME WritesSucceed
    PROVE  Spec => JobsSpec
<1>1. Init => Jobs!Init
  <2> SUFFICES ASSUME Init PROVE Jobs!Init
    OBVIOUS
  <2>1. TypeOK
    BY TypeInit
  <2>2. ASSUME NEW s \in Sub PROVE Outstanding(s) = 0
    <3>1. publishing[s] = 0
      BY DEF Init
    <3>2. Count(queue, s) = 0 /\ Count(retryQueue, s) = 0
      <4>1. \A m \in MsgsOf(s) : ~(queue[m] > 0) /\ ~(retryQueue[m] > 0)
        BY DEF Init, MsgsOf
      <4>. QED
        BY <2>1, <4>1, CountZero, JobsType DEF TypeOK, BrokerType
    <3>3. Unacked(s) = {}
      BY DEF Init, Unacked
    <3>4. Cardinality(Unacked(s)) = 0
      BY <3>3, FS_EmptySet
    <3>. QED
      BY <3>1, <3>2, <3>4 DEF Outstanding
  <2>3. \A s \in Sub : (mongo[s] \in Verdict) = FALSE
    BY DEF Init, Verdict
  <2>4. [s \in Sub |-> Outstanding(s)] = [s \in Sub |-> 0]
    BY <2>2
  <2>5. [s \in Sub |-> mongo[s] \in Verdict] = [s \in Sub |-> FALSE]
    BY <2>3
  <2>. QED
    BY <2>4, <2>5 DEF Jobs!Init
<1>2. Init => JobsInv
  BY JobsInvInit
<1>3. TypeOK /\ JobsInv /\ [Next]_vars => JobsInv'
  BY JobsInvNext
<1>4. TypeOK /\ JobsInv /\ [Next]_vars => [Jobs!Next]_(Jobs!vars)
  BY JobsStep
<1>. QED
  BY <1>1, <1>2, <1>3, <1>4, PipelineTypes, PTL DEF Spec, JobsSpec, Jobs!Spec

\* The doc comment of the pre-check of the queue says an orphan "Pending"
\* submission never is: none is, where publishes and MongoDB writes succeed and
\* no worker rejects.
THEOREM PendingHasARun ==
    ASSUME WritesSucceed
    PROVE  Spec => []NoOrphan
<1>1. TypeOK /\ JobsInv => NoOrphan
  <2> SUFFICES ASSUME TypeOK, JobsInv, NEW s \in Sub, mongo[s] = "Pending"
               PROVE  Outstanding(s) > 0
    BY DEF NoOrphan
  <2>1. Waiting(s) \/ Working(s)
    BY DEF JobsInv, PendingIsAlive
  <2>. QED
    BY <2>1, JobsPositive DEF Waiting, Working
<1>. QED
  BY <1>1, JobsInvInit, JobsInvNext, PipelineTypes, PTL DEF Spec
=============================================================================
