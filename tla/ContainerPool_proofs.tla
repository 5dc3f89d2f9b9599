------------------------ MODULE ContainerPool_proofs ------------------------
(***************************************************************************)
(* Theorems about the container pool, for any languages, containers, users *)
(* and limits, whichever background goroutines run.                        *)
(***************************************************************************)
EXTENDS ContainerPool, FiniteSetTheorems, TLAPS

\* decideScale answers with a target between the limits, whatever load it is
\* given: the defensive clamp and the two range checks are enough.
LEMMA DecideScaleInLimits ==
    ASSUME NEW min \in Nat, NEW max \in Nat, min <= max,
           NEW old \in Nat, NEW load \in Load, NEW room \in BOOLEAN
    PROVE  DecideScale(min, max, old, load, room) \in min..max
  BY DEF DecideScale, Clamp, Grows, Shrinks

\* What the helpers leave of the channels and of Docker.
LEMMA RemoveContainerType ==
    ASSUME PoolType, NEW c \in Container, RemoveContainer(c)
    PROVE  docker' \in [Container -> DockerState]
  BY DEF PoolType, RemoveContainer, DockerState

LEMMA EnqueueType ==
    ASSUME PoolType, NEW l \in Lang, NEW c \in Container, Enqueue(l, c)
    PROVE  avail' \in [Lang -> Seq(Container)]
<1>1. Append(avail[l], c) \in Seq(Container)
  BY DEF PoolType
<1>. QED
  BY <1>1 DEF PoolType, Enqueue

LEMMA PushOrRemoveType ==
    ASSUME PoolType, NEW l \in Lang, NEW c \in Container, PushOrRemove(l, c)
    PROVE  /\ avail' \in [Lang -> Seq(Container)]
           /\ docker' \in [Container -> DockerState]
  BY EnqueueType, RemoveContainerType DEF PushOrRemove, PoolType

LEMMA StartedType ==
    ASSUME PoolType, NEW l \in Lang, NEW c \in Container, Started(l, c)
    PROVE  docker' \in [Container -> DockerState]
  BY DEF PoolType, Started, DockerState

\* Receiving from a channel takes its first element.
LEMMA DequeueType ==
    ASSUME PoolType, NEW t \in Thread, NEW l \in Lang, Dequeue(t, l)
    PROVE  /\ avail' \in [Lang -> Seq(Container)]
           /\ Head(avail[l]) \in Container
           /\ held' = [held EXCEPT ![t] = Head(avail[l])]
<1>1. avail[l] \in Seq(Container) /\ avail[l] # <<>>
  BY DEF PoolType, Dequeue
<1>2. Head(avail[l]) \in Container /\ Tail(avail[l]) \in Seq(Container)
  BY <1>1
<1>. QED
  BY <1>2 DEF PoolType, Dequeue, Hold

\* convergeLang's two counts are natural numbers.
LEMMA LiveCountType ==
    ASSUME PoolType, NEW l \in Lang
    PROVE  LiveCount(l) \in Nat
<1>1. IsFiniteSet({c \in inUse : LangOf[c] = l})
  <2>1. {c \in inUse : LangOf[c] = l} \subseteq Container
    BY DEF PoolType
  <2>. QED
    BY <2>1, PoolAssumption, FS_Subset
<1>2. InUseCount(l) \in Nat
  BY <1>1, FS_CardinalityType DEF InUseCount
<1>3. Len(avail[l]) \in Nat
  BY DEF PoolType
<1>. QED
  BY <1>2, <1>3 DEF LiveCount

\* The state the pool starts from has its type.
LEMMA TypeInit == Init => TypeOK
<1> SUFFICES ASSUME Init PROVE TypeOK
  OBVIOUS
<1>1. PoolType
  BY PoolAssumption DEF Init, PoolType, DockerState
<1>2. PCType
  BY DEF Init, PCType, Thread, Goroutines, Converger, UserPC, MonitorPC, ConvergerPC
<1>3. LocalType
  BY PoolAssumption DEF Init, LocalType, HoldingPC, LoopPC, Thread
<1>. QED
  BY <1>1, <1>2, <1>3 DEF TypeOK

\* A goroutine is a user or one of the background goroutines, never both.
LEMMA ThreadKinds ==
    /\ User \subseteq Thread /\ Goroutines \subseteq Thread
    /\ Converger \subseteq Goroutines /\ "monitor" \in Goroutines
    /\ "monitor" \notin Converger
    /\ "reconciler" \in Converger /\ "autoscaler" \in Converger
    /\ \A u \in User : u \notin Goroutines
    /\ Goroutines = Converger \cup {"monitor"}
  BY PoolAssumption DEF Thread, Goroutines, Converger

\* WarmUp keeps the types.
LEMMA TypeWarmUp ==
    ASSUME TypeOK, NEW l \in Lang, WarmUpCreate(l) \/ WarmUpFail(l)
    PROVE  TypeOK'
<1>1. CASE WarmUpCreate(l)
  <2>1. PoolType'
    <3>1. PICK c \in Container : Started(l, c) /\ Enqueue(l, c)
      BY <1>1 DEF WarmUpCreate
    <3>2. docker' \in [Container -> DockerState] /\ avail' \in [Lang -> Seq(Container)]
      BY <3>1, StartedType, EnqueueType DEF TypeOK
    <3>3. warming' \in [Lang -> Nat]
      BY <1>1 DEF WarmUpCreate, TypeOK, PoolType
    <3>. QED
      BY <1>1, <3>2, <3>3 DEF WarmUpCreate, TypeOK, PoolType
  <2>2. PCType' /\ LocalType'
    BY <1>1 DEF WarmUpCreate, TypeOK, PCType, LocalType, loop
  <2>. QED
    BY <2>1, <2>2 DEF TypeOK
<1>2. CASE WarmUpFail(l)
  <2>1. PoolType'
    BY <1>2 DEF WarmUpFail, TypeOK, PoolType
  <2>2. PCType' /\ LocalType'
    BY <1>2 DEF WarmUpFail, TypeOK, PCType, LocalType, loop
  <2>. QED
    BY <2>1, <2>2 DEF TypeOK
<1>. QED
  BY <1>1, <1>2

\* A goroutine that goes to a point of its own code keeps the program counters
\* well typed.
LEMMA GotoUser ==
    ASSUME PCType, NEW u \in User, NEW p \in UserPC, Goto(u, p)
    PROVE  PCType'
  BY ThreadKinds DEF PCType, Goto

LEMMA GotoMonitor ==
    ASSUME PCType, NEW p \in MonitorPC, Goto("monitor", p)
    PROVE  PCType'
  BY ThreadKinds DEF PCType, Goto

LEMMA GotoConverger ==
    ASSUME PCType, NEW t \in Converger, NEW p \in ConvergerPC, Goto(t, p)
    PROVE  PCType'
  BY ThreadKinds DEF PCType, Goto

\* Moving a goroutine without touching its local variables, when both points
\* hold a container or neither does.
LEMMA GotoLocal ==
    ASSUME PCType, LocalType, NEW t \in Thread, NEW p, Goto(t, p),
           pc[t] \in HoldingPC <=> p \in HoldingPC,
           t \in Goroutines /\ p \in LoopPC => pc[t] \in LoopPC,
           UNCHANGED <<held, loop>>
    PROVE  LocalType'
  BY DEF PCType, LocalType, Goto, loop

\* Moving it to a point where it holds c, or to one where it holds nothing.
LEMMA HoldLocal ==
    ASSUME PCType, LocalType, NEW t \in Thread, NEW p, NEW c, Goto(t, p), Hold(t, c),
           \/ c \in Container /\ p \in HoldingPC
           \/ c = None /\ p \notin HoldingPC,
           t \in Goroutines /\ p \in LoopPC => pc[t] \in LoopPC,
           UNCHANGED loop
    PROVE  LocalType'
  BY PoolAssumption DEF PCType, LocalType, Goto, Hold, loop

\* One more iteration of a counted loop: either it continues or it is over.
LEMMA IterateLocal ==
    ASSUME PCType, LocalType, NEW t \in Goroutines, NEW again \in LoopPC \ HoldingPC,
           pc[t] \in LoopPC, NextIteration(t, again),
           Hold(t, None) \/ (pc[t] \notin HoldingPC /\ UNCHANGED held),
           UNCHANGED <<lang, langs, decided>>
    PROVE  LocalType'
<1>1. todo[t] \in Nat /\ todo[t] > 0 /\ t \in Thread
  BY ThreadKinds DEF LocalType
<1>2. todo' \in [Thread -> Nat]
  BY <1>1 DEF LocalType, NextIteration
<1>3. pc' = [pc EXCEPT ![t] = IF todo[t] = 1 THEN "scanning" ELSE again]
  BY DEF NextIteration, Goto
<1>4. pc'[t] \in LoopPC => todo'[t] > 0
  BY <1>1, <1>3 DEF NextIteration, LoopPC, LocalType, PCType
<1>5. \A g \in Goroutines : pc'[g] \in LoopPC => todo'[g] > 0
  BY <1>1, <1>3, <1>4, ThreadKinds DEF NextIteration, LocalType, PCType
<1>6. held' \in [Thread -> Container \cup {None}]
  BY DEF Hold, LocalType
<1>7. \A g \in Thread : held'[g] # None <=> pc'[g] \in HoldingPC
  BY <1>1, <1>3 DEF Hold, LocalType, PCType, HoldingPC
<1>. QED
  BY <1>2, <1>5, <1>6, <1>7 DEF LocalType

\* The program counter part of the same step.
LEMMA IteratePC ==
    ASSUME PCType, NEW t \in Goroutines, NEW again, NextIteration(t, again),
           \/ t = "monitor" /\ again \in MonitorPC
           \/ t \in Converger /\ again \in ConvergerPC
    PROVE  PCType'
<1>1. CASE t = "monitor" /\ again \in MonitorPC
  <2>1. (IF todo[t] = 1 THEN "scanning" ELSE again) \in MonitorPC
    BY <1>1 DEF MonitorPC
  <2>. QED
    BY <1>1, <2>1, GotoMonitor DEF NextIteration
<1>2. CASE t \in Converger /\ again \in ConvergerPC
  <2>1. (IF todo[t] = 1 THEN "scanning" ELSE again) \in ConvergerPC
    BY <1>2 DEF ConvergerPC
  <2>. QED
    BY <1>2, <2>1, GotoConverger DEF NextIteration
<1>. QED
  BY <1>1, <1>2

\* What a goroutine holds is a container.
LEMMA HeldType ==
    ASSUME LocalType, NEW t \in Thread, pc[t] \in HoldingPC
    PROVE  held[t] \in Container
  BY DEF LocalType

\* Acquire, Release and Discard keep the types.
LEMMA TypeUser ==
    ASSUME TypeOK, NEW u \in User, UserStep(u)
    PROVE  TypeOK'
<1> USE DEF TypeOK
<1>0. u \in Thread /\ u \notin Goroutines
  BY ThreadKinds
<1>1. ASSUME NEW l \in Lang, AcquireStart(u, l) PROVE TypeOK'
  <2>1. PoolType'
    BY <1>1 DEF AcquireStart, PoolType, shared
  <2>2. PCType'
    BY <1>1, GotoUser DEF AcquireStart, UserPC
  <2>3. LocalType'
    BY <1>1, <1>0 DEF AcquireStart, LocalType, PCType, Goto, HoldingPC
  <2>. QED
    BY <2>1, <2>2, <2>3
<1>2. ASSUME AcquireReceive(u) PROVE TypeOK'
  <2>0. lang[u] \in Lang
    BY <1>0 DEF LocalType
  <2>1. PoolType'
    BY <1>2, <1>0, <2>0, DequeueType DEF AcquireReceive, PoolType, shared
  <2>2. PCType'
    BY <1>2, GotoUser DEF AcquireReceive, UserPC
  <2>3. Hold(u, Head(avail[lang[u]])) /\ Head(avail[lang[u]]) \in Container
    BY <1>2, <1>0, <2>0, DequeueType DEF AcquireReceive, Dequeue
  <2>4. LocalType'
    BY <1>2, <1>0, <2>3, HoldLocal DEF AcquireReceive, HoldingPC
  <2>. QED
    BY <2>1, <2>2, <2>4
<1>3. ASSUME AcquireRegister(u) PROVE TypeOK'
  <2>0. held[u] \in Container
    BY <1>3, <1>0, HeldType DEF AcquireRegister, HoldingPC
  <2>1. PoolType'
    BY <1>3, <2>0 DEF AcquireRegister, PoolType
  <2>2. PCType'
    BY <1>3, GotoUser DEF AcquireRegister, UserPC
  <2>3. LocalType'
    BY <1>3, <1>0, GotoLocal DEF AcquireRegister, HoldingPC
  <2>. QED
    BY <2>1, <2>2, <2>3
<1>4. ASSUME AcquireTimeout(u) PROVE TypeOK'
  <2>1. PoolType'
    BY <1>4 DEF AcquireTimeout, PoolType, shared
  <2>2. PCType'
    BY <1>4, GotoUser DEF AcquireTimeout, UserPC
  <2>3. LocalType'
    BY <1>4, <1>0, GotoLocal DEF AcquireTimeout, HoldingPC
  <2>. QED
    BY <2>1, <2>2, <2>3
<1>5. ASSUME Release(u) PROVE TypeOK'
  <2>0. held[u] \in Container /\ LangOf[held[u]] \in Lang
    BY <1>5, <1>0, HeldType, PoolAssumption DEF Release, HoldingPC
  <2>1. PoolType'
    BY <1>5, <2>0, PushOrRemoveType DEF Release, PoolType
  <2>2. PCType'
    BY <1>5, GotoUser DEF Release, UserPC
  <2>3. LocalType'
    BY <1>5, <1>0, HoldLocal DEF Release, HoldingPC
  <2>. QED
    BY <2>1, <2>2, <2>3
<1>6. ASSUME DiscardBegin(u) PROVE TypeOK'
  <2>1. PoolType'
    BY <1>6 DEF DiscardBegin, PoolType
  <2>2. PCType'
    BY <1>6, GotoUser DEF DiscardBegin, UserPC
  <2>3. LocalType'
    BY <1>6, <1>0, HoldLocal, GotoLocal DEF DiscardBegin, HoldingPC
  <2>. QED
    BY <2>1, <2>2, <2>3
<1>7. ASSUME DiscardRemove(u) PROVE TypeOK'
  <2>0. held[u] \in Container
    BY <1>7, <1>0, HeldType DEF DiscardRemove, HoldingPC
  <2>1. PoolType'
    BY <1>7, <2>0, RemoveContainerType DEF DiscardRemove, PoolType, shared
  <2>2. PCType'
    BY <1>7, GotoUser DEF DiscardRemove, UserPC
  <2>3. LocalType'
    BY <1>7, <1>0, HoldLocal DEF DiscardRemove, HoldingPC
  <2>. QED
    BY <2>1, <2>2, <2>3
<1>8. ASSUME DiscardReplace(u) PROVE TypeOK'
  <2>0. lang[u] \in Lang
    BY <1>0 DEF LocalType
  <2>1. PoolType'
    BY <1>8, <2>0, StartedType DEF DiscardReplace, PoolType, shared
  <2>2. PCType'
    BY <1>8, GotoUser DEF DiscardReplace, UserPC
  <2>3. LocalType'
    BY <1>8, <1>0, HoldLocal, GotoLocal DEF DiscardReplace, HoldingPC
  <2>. QED
    BY <2>1, <2>2, <2>3
<1>9. ASSUME DiscardPush(u) PROVE TypeOK'
  <2>0. held[u] \in Container /\ lang[u] \in Lang
    BY <1>9, <1>0, HeldType DEF DiscardPush, HoldingPC, LocalType
  <2>1. PoolType'
    BY <1>9, <2>0, PushOrRemoveType DEF DiscardPush, PoolType, shared
  <2>2. PCType'
    BY <1>9, GotoUser DEF DiscardPush, UserPC
  <2>3. LocalType'
    BY <1>9, <1>0, HoldLocal DEF DiscardPush, HoldingPC
  <2>. QED
    BY <2>1, <2>2, <2>3
<1>. QED
  BY <1>1, <1>2, <1>3, <1>4, <1>5, <1>6, <1>7, <1>8, <1>9 DEF UserStep

\* The start and the end of a tick keep the types.
LEMMA TypeTick ==
    ASSUME TypeOK, NEW t \in Goroutines, Tick(t) \/ TickEnd(t)
    PROVE  TypeOK'
<1> USE DEF TypeOK
<1>0. t \in Thread /\ (t = "monitor" \/ t \in Converger)
  BY ThreadKinds
<1>1. PoolType'
  BY DEF Tick, TickEnd, PoolType, shared
<1>2. PCType'
  BY <1>0, GotoMonitor, GotoConverger DEF Tick, TickEnd, MonitorPC, ConvergerPC
<1>3. CASE Tick(t)
  BY <1>0, <1>1, <1>2, <1>3 DEF Tick, LocalType, PCType, Goto, HoldingPC, LoopPC
<1>4. CASE TickEnd(t)
  BY <1>0, <1>1, <1>2, <1>4, GotoLocal DEF TickEnd, HoldingPC, LoopPC
<1>. QED
  BY <1>3, <1>4

\* checkHealth keeps the types.
LEMMA TypeMonitor ==
    ASSUME TypeOK, MonitorStep
    PROVE  TypeOK'
<1> DEFINE m == "monitor"
<1> USE DEF TypeOK
<1>0. m \in Thread /\ m \in Goroutines
  BY ThreadKinds
<1>1. ASSUME NEW l \in Lang, MonitorVisit(l) PROVE TypeOK'
  <2>1. PoolType'
    BY <1>1 DEF MonitorVisit, PoolType, shared
  <2>2. PCType'
    BY <1>1, GotoMonitor DEF MonitorVisit, MonitorPC
  <2>3. Len(avail[l]) \in Nat /\ (avail[l] # <<>> => Len(avail[l]) > 0)
    BY DEF PoolType
  <2>4. LocalType'
    BY <1>1, <1>0, <2>3 DEF MonitorVisit, Visit, LocalType, PCType, Goto, HoldingPC, LoopPC
  <2>. QED
    BY <2>1, <2>2, <2>4
<1>2. ASSUME MonitorTake PROVE TypeOK'
  <2>0. lang[m] \in Lang
    BY <1>0 DEF LocalType
  <2>1. CASE Dequeue(m, lang[m]) /\ Goto(m, "inspecting") /\ UNCHANGED todo
    <3>1. PoolType'
      BY <1>2, <1>0, <2>0, <2>1, DequeueType DEF MonitorTake, PoolType, shared
    <3>2. PCType'
      BY <2>1, GotoMonitor DEF MonitorPC
    <3>3. Hold(m, Head(avail[lang[m]])) /\ Head(avail[lang[m]]) \in Container
      BY <1>0, <2>0, <2>1, DequeueType DEF Dequeue
    <3>4. LocalType'
      BY <1>2, <1>0, <2>1, <3>3, HoldLocal DEF MonitorTake, HoldingPC, LoopPC, loop
    <3>. QED
      BY <3>1, <3>2, <3>4
  <2>2. CASE NextIteration(m, "probing") /\ UNCHANGED <<avail, held>>
    <3>1. PoolType'
      BY <1>2, <2>2 DEF MonitorTake, PoolType, shared
    <3>2. PCType'
      BY <1>0, <2>2, IteratePC DEF MonitorPC
    <3>3. LocalType'
      BY <1>2, <1>0, <2>2, IterateLocal DEF MonitorTake, HoldingPC, LoopPC
    <3>. QED
      BY <3>1, <3>2, <3>3
  <2>. QED
    BY <1>2, <2>1, <2>2 DEF MonitorTake
<1>3. ASSUME MonitorInspect PROVE TypeOK'
  <2>1. PoolType'
    BY <1>3 DEF MonitorInspect, PoolType, shared
  <2>2. PCType'
    BY <1>3, GotoMonitor DEF MonitorInspect, MonitorPC
  <2>3. LocalType'
    BY <1>3, <1>0, GotoLocal DEF MonitorInspect, HoldingPC, LoopPC
  <2>. QED
    BY <2>1, <2>2, <2>3
<1>4. ASSUME MonitorRemove PROVE TypeOK'
  <2>0. held[m] \in Container
    BY <1>4, <1>0, HeldType DEF MonitorRemove, HoldingPC
  <2>1. PoolType'
    BY <1>4, <2>0, RemoveContainerType DEF MonitorRemove, PoolType, shared
  <2>2. PCType'
    BY <1>4, GotoMonitor DEF MonitorRemove, MonitorPC
  <2>3. LocalType'
    BY <1>4, <1>0, HoldLocal DEF MonitorRemove, HoldingPC, LoopPC
  <2>. QED
    BY <2>1, <2>2, <2>3
<1>5. ASSUME MonitorReplace PROVE TypeOK'
  <2>0. lang[m] \in Lang
    BY <1>0 DEF LocalType
  <2>1. PoolType'
    BY <1>5, <2>0, StartedType DEF MonitorReplace, PoolType, shared
  <2>2. CASE /\ \E c \in Container : Started(lang[m], c) /\ Hold(m, c)
             /\ Goto(m, "pushing") /\ UNCHANGED todo
    <3>1. PCType'
      BY <2>2, GotoMonitor DEF MonitorPC
    <3>2. LocalType'
      BY <1>5, <1>0, <2>2, HoldLocal DEF MonitorReplace, HoldingPC, LoopPC, loop
    <3>. QED
      BY <2>1, <3>1, <3>2
  <2>3. CASE NextIteration(m, "probing") /\ UNCHANGED <<docker, held>>
    <3>1. PCType'
      BY <1>0, <2>3, IteratePC DEF MonitorPC
    <3>2. LocalType'
      BY <1>5, <1>0, <2>3, IterateLocal DEF MonitorReplace, HoldingPC, LoopPC
    <3>. QED
      BY <2>1, <3>1, <3>2
  <2>. QED
    BY <1>5, <2>2, <2>3 DEF MonitorReplace
<1>6. ASSUME MonitorPush PROVE TypeOK'
  <2>0. held[m] \in Container /\ lang[m] \in Lang
    BY <1>6, <1>0, HeldType DEF MonitorPush, HoldingPC, LocalType
  <2>1. PoolType'
    BY <1>6, <2>0, PushOrRemoveType DEF MonitorPush, PoolType, shared
  <2>2. PCType'
    BY <1>6, <1>0, IteratePC DEF MonitorPush, MonitorPC
  <2>3. LocalType'
    BY <1>6, <1>0, IterateLocal DEF MonitorPush, HoldingPC, LoopPC
  <2>. QED
    BY <2>1, <2>2, <2>3
<1>. QED
  BY <1>1, <1>2, <1>3, <1>4, <1>5, <1>6 DEF MonitorStep

\* Counting before a convergence keeps the types: a loop that is entered has
\* at least one iteration.
LEMMA ConvergeCountType ==
    ASSUME TypeOK, NEW t \in Converger, NEW l \in Lang, ConvergeCount(t, l),
           pc[t] \notin HoldingPC, UNCHANGED <<held, decided>>,
           lang' \in [Thread -> Lang], langs' \in [Thread -> SUBSET Lang]
    PROVE  PCType' /\ LocalType'
<1>0. t \in Thread /\ t \in Goroutines
  BY ThreadKinds
<1>1. LiveCount(l) \in Nat /\ targets[l] \in Nat
  BY LiveCountType DEF TypeOK, PoolType
<1>2. PCType'
  BY GotoConverger DEF ConvergeCount, TypeOK, ConvergerPC
<1>3. todo' \in [Thread -> Nat]
  BY <1>0, <1>1 DEF ConvergeCount, TypeOK, LocalType
<1>4. \A g \in Goroutines : pc'[g] \in LoopPC => todo'[g] > 0
  BY <1>0, <1>1, ThreadKinds DEF ConvergeCount, Goto, TypeOK, LocalType, PCType, LoopPC
<1>5. \A g \in Thread : held'[g] # None <=> pc'[g] \in HoldingPC
  BY <1>0 DEF ConvergeCount, Goto, TypeOK, LocalType, PCType, HoldingPC
<1>. QED
  BY <1>2, <1>3, <1>4, <1>5 DEF TypeOK, LocalType

\* convergeLang keeps the types.
LEMMA TypeConverge ==
    ASSUME TypeOK, NEW t \in Converger, ConvergeStep(t)
    PROVE  TypeOK'
<1> USE DEF TypeOK
<1>0. t \in Thread /\ t \in Goroutines /\ lang[t] \in Lang
  BY ThreadKinds DEF LocalType
<1>1. ASSUME ConvergeCreate(t) PROVE TypeOK'
  <2>1. PoolType'
    BY <1>1, <1>0, StartedType DEF ConvergeCreate, PoolType, shared
  <2>2. PCType'
    BY <1>1, GotoConverger DEF ConvergeCreate, ConvergerPC
  <2>3. CASE /\ \E c \in Container : Started(lang[t], c) /\ Hold(t, c)
             /\ Goto(t, "pushing") /\ UNCHANGED todo
    BY <1>1, <1>0, <2>1, <2>2, <2>3, HoldLocal
    DEF ConvergeCreate, HoldingPC, LoopPC, loop
  <2>4. CASE /\ Goto(t, "scanning") /\ todo' = [todo EXCEPT ![t] = 0]
             /\ UNCHANGED <<docker, held>>
    <3>1. LocalType'
      BY <1>1, <1>0, <2>4 DEF ConvergeCreate, LocalType, PCType, Goto, HoldingPC, LoopPC
    <3>. QED
      BY <2>1, <2>2, <3>1
  <2>. QED
    BY <1>1, <2>3, <2>4 DEF ConvergeCreate
<1>2. ASSUME ConvergePush(t) PROVE TypeOK'
  <2>0. held[t] \in Container
    BY <1>2, <1>0, HeldType DEF ConvergePush, HoldingPC
  <2>1. PoolType'
    BY <1>2, <1>0, <2>0, PushOrRemoveType DEF ConvergePush, PoolType, shared
  <2>2. PCType'
    BY <1>2, <1>0, IteratePC DEF ConvergePush, ConvergerPC
  <2>3. LocalType'
    BY <1>2, <1>0, IterateLocal DEF ConvergePush, HoldingPC, LoopPC
  <2>. QED
    BY <2>1, <2>2, <2>3
<1>3. ASSUME ConvergeShrink(t) PROVE TypeOK'
  <2>1. CASE Dequeue(t, lang[t]) /\ Goto(t, "removing") /\ UNCHANGED todo
    <3>1. PoolType'
      BY <1>3, <1>0, <2>1, DequeueType DEF ConvergeShrink, PoolType, shared
    <3>2. PCType'
      BY <2>1, GotoConverger DEF ConvergerPC
    <3>3. Hold(t, Head(avail[lang[t]])) /\ Head(avail[lang[t]]) \in Container
      BY <1>0, <2>1, DequeueType DEF Dequeue
    <3>4. LocalType'
      BY <1>3, <1>0, <2>1, <3>3, HoldLocal DEF ConvergeShrink, HoldingPC, LoopPC, loop
    <3>. QED
      BY <3>1, <3>2, <3>4
  <2>2. CASE NextIteration(t, "shrinking") /\ UNCHANGED <<avail, held>>
    <3>1. PoolType'
      BY <1>3, <2>2 DEF ConvergeShrink, PoolType, shared
    <3>2. PCType'
      BY <1>0, <2>2, IteratePC DEF ConvergerPC
    <3>3. LocalType'
      BY <1>3, <1>0, <2>2, IterateLocal DEF ConvergeShrink, HoldingPC, LoopPC
    <3>. QED
      BY <3>1, <3>2, <3>3
  <2>. QED
    BY <1>3, <2>1, <2>2 DEF ConvergeShrink
<1>4. ASSUME ConvergeRemove(t) PROVE TypeOK'
  <2>0. held[t] \in Container
    BY <1>4, <1>0, HeldType DEF ConvergeRemove, HoldingPC
  <2>1. PoolType'
    BY <1>4, <2>0, RemoveContainerType DEF ConvergeRemove, PoolType, shared
  <2>2. PCType'
    BY <1>4, <1>0, IteratePC DEF ConvergeRemove, ConvergerPC
  <2>3. LocalType'
    BY <1>4, <1>0, IterateLocal DEF ConvergeRemove, HoldingPC, LoopPC
  <2>. QED
    BY <2>1, <2>2, <2>3
<1>. QED
  BY <1>1, <1>2, <1>3, <1>4 DEF ConvergeStep

\* A visit to a language types the two variables it sets.
LEMMA VisitType ==
    ASSUME LocalType, NEW t \in Thread, NEW l \in Lang, Visit(t, l)
    PROVE  lang' \in [Thread -> Lang] /\ langs' \in [Thread -> SUBSET Lang]
  BY DEF LocalType, Visit

\* The reconciler's count keeps the types.
LEMMA TypeReconciler ==
    ASSUME TypeOK, NEW l \in Lang, ReconcilerVisit(l)
    PROVE  TypeOK'
<1> DEFINE r == "reconciler"
<1>0. r \in Thread /\ r \in Converger
  BY ThreadKinds
<1>1. PoolType'
  BY DEF ReconcilerVisit, TypeOK, PoolType, shared
<1>2. lang' \in [Thread -> Lang] /\ langs' \in [Thread -> SUBSET Lang]
  BY <1>0, VisitType DEF ReconcilerVisit, TypeOK
<1>3. PCType' /\ LocalType'
  BY <1>0, <1>2, ConvergeCountType DEF ReconcilerVisit, Visit, HoldingPC
<1>. QED
  BY <1>1, <1>3 DEF TypeOK

\* The autoscaler's decision is within the limits of its language.
LEMMA DecisionInLimits ==
    ASSUME NEW l \in Lang, NEW load \in Loads, NEW old \in Nat, NEW room \in BOOLEAN
    PROVE  DecideScale(MinSize[l], MaxSize[l], old, load, room) \in MinSize[l]..MaxSize[l]
<1>1. MinSize[l] \in Nat /\ MaxSize[l] \in Nat /\ MinSize[l] <= MaxSize[l] /\ load \in Load
  BY PoolAssumption
<1>. QED
  BY <1>1, DecideScaleInLimits

\* StartAutoscaler keeps the types.
LEMMA TypeAutoscaler ==
    ASSUME TypeOK, AutoscalerStep
    PROVE  TypeOK'
<1> DEFINE a == "autoscaler"
<1> USE DEF TypeOK
<1>0. a \in Thread /\ a \in Goroutines /\ a \in Converger
  BY ThreadKinds
<1>1. ASSUME NEW l \in Lang, AutoscalerVisit(l) PROVE TypeOK'
  <2>1. PoolType'
    BY <1>1 DEF AutoscalerVisit, PoolType, shared
  <2>2. PCType'
    BY <1>1, <1>0, GotoConverger DEF AutoscalerVisit, ConvergerPC
  <2>3. lang' \in [Thread -> Lang] /\ langs' \in [Thread -> SUBSET Lang]
    BY <1>1, <1>0, VisitType DEF AutoscalerVisit
  <2>4. decided' \in Nat
    <3>1. targets[l] \in Nat /\ decided \in Nat /\ MinSize[l]..MaxSize[l] \subseteq Nat
      BY PoolAssumption DEF PoolType, LocalType
    <3>2. PICK load \in Loads :
            LET new == DecideScale(MinSize[l], MaxSize[l], targets[l], load,
                                   GlobalLiveTotal < GlobalCap)
            IN  decided' = new \/ decided' = decided
      BY <1>1 DEF AutoscalerVisit
    <3>3. (GlobalLiveTotal < GlobalCap) \in BOOLEAN
      OBVIOUS
    <3>. QED
      BY <3>1, <3>2, <3>3, DecisionInLimits
  <2>5. /\ \A g \in Goroutines : pc'[g] \in LoopPC => todo'[g] > 0
        /\ \A g \in Thread : held'[g] # None <=> pc'[g] \in HoldingPC
    <3>1. /\ pc[a] = "scanning" /\ UNCHANGED <<held, todo>>
          /\ Goto(a, "deciding") \/ Goto(a, "scanning")
      BY <1>1 DEF AutoscalerVisit, Visit
    <3>2. PICK p \in {"deciding", "scanning"} : pc' = [pc EXCEPT ![a] = p]
      BY <3>1 DEF Goto
    <3>3. p \notin LoopPC /\ p \notin HoldingPC /\ pc[a] \notin HoldingPC
      BY <3>1 DEF LoopPC, HoldingPC
    <3>4. \A g \in Thread : pc'[g] = IF g = a THEN p ELSE pc[g]
      BY <3>2 DEF PCType
    <3>. QED
      BY <3>1, <3>3, <3>4, ThreadKinds DEF LocalType
  <2>6. LocalType'
    BY <1>1, <2>3, <2>4, <2>5 DEF AutoscalerVisit, LocalType
  <2>. QED
    BY <2>1, <2>2, <2>6
<1>2. ASSUME AutoscalerStore PROVE TypeOK'
  <2>1. PoolType'
    BY <1>2 DEF AutoscalerStore, PoolType, LocalType
  <2>2. PCType'
    BY <1>2, <1>0, GotoConverger DEF AutoscalerStore, ConvergerPC
  <2>3. LocalType'
    BY <1>2, <1>0 DEF AutoscalerStore, LocalType, PCType, Goto, LoopPC, HoldingPC
  <2>. QED
    BY <2>1, <2>2, <2>3
<1>3. ASSUME AutoscalerConverge PROVE TypeOK'
  <2>1. PoolType'
    BY <1>3 DEF AutoscalerConverge, PoolType, shared
  <2>2. lang[a] \in Lang /\ lang' \in [Thread -> Lang] /\ langs' \in [Thread -> SUBSET Lang]
    BY <1>3, <1>0 DEF AutoscalerConverge, LocalType
  <2>3. PCType' /\ LocalType'
    BY <1>3, <1>0, <2>2, ConvergeCountType DEF AutoscalerConverge, HoldingPC
  <2>. QED
    BY <2>1, <2>3
<1>. QED
  BY <1>1, <1>2, <1>3 DEF AutoscalerStep

\* Containers that stop or are collected keep the types.
LEMMA TypeDocker ==
    ASSUME TypeOK, NEW c \in Container, Exit(c) \/ OrphanGC(c)
    PROVE  TypeOK'
<1>1. PoolType'
  BY DEF Exit, OrphanGC, TypeOK, PoolType, DockerState, shared
<1>2. PCType' /\ LocalType'
  BY DEF Exit, OrphanGC, TypeOK, PCType, LocalType, loop
<1>. QED
  BY <1>1, <1>2 DEF TypeOK

\* No step of any goroutine, and nothing Docker does, breaks a type.
LEMMA TypeNext == TypeOK /\ [Next]_vars => TypeOK'
<1> SUFFICES ASSUME TypeOK, [Next]_vars PROVE TypeOK'
  OBVIOUS
<1>1. CASE UNCHANGED vars
  BY <1>1 DEF vars, TypeOK, PoolType, PCType, LocalType
<1>2. CASE Next
  BY <1>2, TypeWarmUp, TypeUser, TypeTick, TypeMonitor, TypeReconciler, TypeConverge,
     TypeAutoscaler, TypeDocker DEF Next
<1>. QED
  BY <1>1, <1>2

\* The pool's variables keep their types, and a goroutine's local container is
\* there exactly where the code uses it.
THEOREM TypeCorrect == Spec => []TypeOK
  BY TypeInit, TypeNext, PTL DEF Spec

-----------------------------------------------------------------------------
(***************************************************************************)
(* Exclusive ownership.  The channels and the local variables are related  *)
(* by four facts (Owned); each kind of move of a container - out of a       *)
(* channel, into one, created, dropped - keeps them, and every action is    *)
(* one of these moves.  What inUse registers is a fact of its own.          *)
(***************************************************************************)
Owned == IdleOnce /\ HeldNotIdle /\ HeldOnce /\ HeldLang

\* Nothing moves; a goroutine that holds nothing may turn to another language.
LEMMA OwnedSame ==
    ASSUME LocalType, Owned, UNCHANGED <<avail, held>>,
           \A t \in Thread : held[t] # None => lang'[t] = lang[t]
    PROVE  Owned'
  BY DEF Owned, IdleOnce, HeldNotIdle, HeldOnce, HeldLang, LocalType

\* A goroutine drops the container it holds.
LEMMA OwnedDrop ==
    ASSUME PoolType, LocalType, Owned, NEW t \in Thread, Hold(t, None), UNCHANGED <<avail, lang>>
    PROVE  Owned'
<1>1. \A g \in Thread : held'[g] = IF g = t THEN None ELSE held[g]
  BY DEF Hold, LocalType
<1>2. \A l \in Lang : \A i \in 1..Len(avail[l]) : avail[l][i] \in Container
  BY DEF PoolType
<1>3. HeldNotIdle'
  BY <1>1, <1>2, PoolAssumption DEF Owned, HeldNotIdle
<1>4. IdleOnce'
  BY DEF Owned, IdleOnce
<1>5. HeldOnce' /\ HeldLang'
  BY <1>1 DEF Owned, HeldOnce, HeldLang
<1>. QED
  BY <1>3, <1>4, <1>5 DEF Owned

\* A goroutine takes the first container of a channel.
LEMMA OwnedDequeue ==
    ASSUME PoolType, LocalType, Owned, NEW t \in Thread, held[t] = None,
           Dequeue(t, lang[t]), UNCHANGED lang
    PROVE  Owned'
<1> DEFINE l == lang[t]
           s == avail[l]
<1>1. l \in Lang /\ s \in Seq(Container) /\ s # <<>>
  BY DEF Dequeue, LocalType, PoolType
<1>2. /\ Len(s) \in Nat /\ 1 \in 1..Len(s)
      /\ \A i \in 1..Len(s) : s[i] \in Container
  BY <1>1
<1>3. \A m \in Lang : m # l => avail'[m] = avail[m]
  BY DEF Dequeue, PoolType
<1>4. /\ Len(avail'[l]) = Len(s) - 1
      /\ \A i \in 1..Len(avail'[l]) : avail'[l][i] = s[i + 1] /\ i + 1 \in 2..Len(s)
  <2>1. avail'[l] = Tail(s)
    BY <1>1 DEF Dequeue, PoolType
  <2>. QED
    BY <1>1, <2>1
<1>5. \A g \in Thread : held'[g] = IF g = t THEN s[1] ELSE held[g]
  <2>1. Head(s) = s[1]
    BY <1>1
  <2>. QED
    BY <2>1 DEF Dequeue, Hold, LocalType
<1> HIDE DEF l, s
<1>6. \A m \in Lang : \A i \in 1..Len(avail'[m]) :
        \/ m # l /\ i \in 1..Len(avail[m]) /\ avail'[m][i] = avail[m][i]
        \/ m = l /\ i + 1 \in 2..Len(s) /\ avail'[m][i] = s[i + 1]
  BY <1>3, <1>4
<1>7. IdleOnce'
  <2> SUFFICES ASSUME NEW m \in Lang, NEW i \in 1..Len(avail'[m]), NEW j \in 1..Len(avail'[m])
               PROVE  /\ LangOf[avail'[m][i]] = m
                      /\ avail'[m][i] = avail'[m][j] => i = j
    BY DEF IdleOnce
  <2>1. CASE m = l
    <3>1. i + 1 \in 1..Len(s) /\ j + 1 \in 1..Len(s)
      BY <1>2, <1>6, <2>1
    <3>2. avail'[m][i] = s[i + 1] /\ avail'[m][j] = s[j + 1]
      BY <1>6, <2>1
    <3>3. LangOf[s[i + 1]] = l /\ (s[i + 1] = s[j + 1] => i + 1 = j + 1)
      BY <1>1, <3>1 DEF Owned, IdleOnce, s
    <3>4. i \in Int /\ j \in Int
      OBVIOUS
    <3>. QED
      BY <2>1, <3>2, <3>3, <3>4
  <2>2. CASE m # l
    BY <1>3, <2>2 DEF Owned, IdleOnce
  <2>. QED
    BY <2>1, <2>2
<1>8. HeldNotIdle'
  <2> SUFFICES ASSUME NEW g \in Thread, NEW m \in Lang, NEW i \in 1..Len(avail'[m])
               PROVE  avail'[m][i] # held'[g]
    BY DEF HeldNotIdle
  <2>1. CASE m = l /\ g = t
    <3>1. i + 1 \in 1..Len(s) /\ i + 1 # 1 /\ avail'[m][i] = s[i + 1]
      BY <1>2, <1>6, <2>1
    <3>2. s[i + 1] # s[1]
      BY <1>1, <1>2, <3>1 DEF Owned, IdleOnce, s
    <3>. QED
      BY <1>5, <2>1, <3>1, <3>2
  <2>2. CASE m # l /\ g = t
    <3>1. LangOf[s[1]] = l
      BY <1>1, <1>2 DEF Owned, IdleOnce, s
    <3>2. i \in 1..Len(avail[m]) /\ avail'[m][i] = avail[m][i] /\ LangOf[avail[m][i]] = m
      BY <1>6, <2>2 DEF Owned, IdleOnce
    <3>. QED
      BY <1>5, <2>2, <3>1, <3>2
  <2>3. CASE g # t
    <3>1. held'[g] = held[g]
      BY <1>5, <2>3
    <3>2. CASE m = l
      <4>1. i + 1 \in 1..Len(s) /\ avail'[m][i] = s[i + 1]
        BY <1>2, <1>6, <3>2
      <4>. QED
        BY <1>1, <3>1, <3>2, <4>1 DEF Owned, HeldNotIdle, s
    <3>3. CASE m # l
      BY <1>6, <3>1, <3>3 DEF Owned, HeldNotIdle
    <3>. QED
      BY <3>2, <3>3
  <2>. QED
    BY <2>1, <2>2, <2>3
<1>9. \A g \in Thread : held[g] # s[1]
  BY <1>1, <1>2 DEF Owned, HeldNotIdle, s
<1>10. HeldOnce'
  BY <1>5, <1>9 DEF Owned, HeldOnce
<1>11. HeldLang'
  <2>1. LangOf[s[1]] = l
    BY <1>1, <1>2 DEF Owned, IdleOnce, s
  <2>. QED
    BY <1>5, <2>1 DEF Owned, HeldLang, l
<1>. QED
  BY <1>7, <1>8, <1>10, <1>11 DEF Owned

\* A container that no channel and no other goroutine has enters the channel of
\* its language.
LEMMA OwnedAppend ==
    ASSUME PoolType, LocalType, Owned, NEW l \in Lang, NEW c \in Container,
           LangOf[c] = l,
           \A m \in Lang : \A i \in 1..Len(avail[m]) : avail[m][i] # c,
           Enqueue(l, c), held' \in [Thread -> Container \cup {None}], UNCHANGED lang,
           \A g \in Thread : held'[g] # c /\ held'[g] \in {held[g], None}
    PROVE  Owned'
<1>1. /\ Len(avail[l]) \in Nat
      /\ \A m \in Lang : \A i \in 1..Len(avail[m]) : avail[m][i] \in Container
  BY DEF PoolType
<1>2. \A m \in Lang : m # l => avail'[m] = avail[m]
  BY DEF Enqueue, PoolType
<1>3. \A i \in 1..Len(avail'[l]) :
        \/ i \in 1..Len(avail[l]) /\ avail'[l][i] = avail[l][i]
        \/ i = Len(avail[l]) + 1 /\ avail'[l][i] = c
  <2>1. avail'[l] = Append(avail[l], c) /\ avail[l] \in Seq(Container)
    BY DEF Enqueue, PoolType
  <2>. QED
    BY <2>1
<1>4. \A m \in Lang : \A i \in 1..Len(avail'[m]) :
        \/ i \in 1..Len(avail[m]) /\ avail'[m][i] = avail[m][i]
        \/ m = l /\ i = Len(avail[m]) + 1 /\ avail'[m][i] = c
  BY <1>2, <1>3
<1>5. IdleOnce'
  <2> SUFFICES ASSUME NEW m \in Lang, NEW i \in 1..Len(avail'[m]), NEW j \in 1..Len(avail'[m])
               PROVE  /\ LangOf[avail'[m][i]] = m
                      /\ avail'[m][i] = avail'[m][j] => i = j
    BY DEF IdleOnce
  <2>1. LangOf[avail'[m][i]] = m
    BY <1>4 DEF Owned, IdleOnce
  <2>2. ASSUME avail'[m][i] = avail'[m][j] PROVE i = j
    <3>1. CASE i \in 1..Len(avail[m]) /\ avail'[m][i] = avail[m][i]
      <4>1. avail'[m][i] # c
        BY <3>1
      <4>2. j \in 1..Len(avail[m]) /\ avail'[m][j] = avail[m][j]
        BY <1>4, <2>2, <4>1
      <4>3. avail[m][i] = avail[m][j] => i = j
        BY <3>1, <4>2 DEF Owned, IdleOnce
      <4>. QED
        BY <2>2, <3>1, <4>2, <4>3
    <3>2. CASE m = l /\ i = Len(avail[m]) + 1 /\ avail'[m][i] = c
      <4>1. j \notin 1..Len(avail[m]) \/ avail'[m][j] # avail[m][j]
        BY <2>2, <3>2
      <4>. QED
        BY <1>4, <3>2, <4>1
    <3>. QED
      BY <1>4, <3>1, <3>2
  <2>. QED
    BY <2>1, <2>2
<1>6. HeldNotIdle'
  <2> SUFFICES ASSUME NEW g \in Thread, NEW m \in Lang, NEW i \in 1..Len(avail'[m])
               PROVE  avail'[m][i] # held'[g]
    BY DEF HeldNotIdle
  <2>1. avail'[m][i] \in Container
    BY <1>1, <1>4
  <2>2. held'[g] # c /\ held'[g] \in {held[g], None}
    OBVIOUS
  <2>. QED
    BY <1>4, <2>1, <2>2, PoolAssumption DEF Owned, HeldNotIdle
<1>7. HeldOnce' /\ HeldLang'
  BY DEF Owned, HeldOnce, HeldLang
<1>. QED
  BY <1>5, <1>6, <1>7 DEF Owned

\* A goroutine holds the container it has just created.
LEMMA OwnedStart ==
    ASSUME PoolType, LocalType, Owned, NEW t \in Thread, NEW c \in Container,
           Started(lang[t], c), Hold(t, c), UNCHANGED <<avail, lang>>
    PROVE  Owned'
<1>1. /\ LangOf[c] = lang[t]
      /\ \A m \in Lang : \A i \in 1..Len(avail[m]) : avail[m][i] # c
      /\ \A g \in Thread : held[g] # c
  BY DEF Started, Fresh, Referenced, Idle, ToSet, PoolType
<1>2. \A g \in Thread : held'[g] = IF g = t THEN c ELSE held[g]
  BY DEF Hold, LocalType
<1>. QED
  BY <1>1, <1>2 DEF Owned, IdleOnce, HeldNotIdle, HeldOnce, HeldLang

\* A container that is put into its channel, or removed when that is full,
\* leaves the hands of the goroutine.
LEMMA OwnedPush ==
    ASSUME PoolType, LocalType, Owned, NEW t \in Thread, held[t] # None,
           PushOrRemove(lang[t], held[t]), Hold(t, None), UNCHANGED lang
    PROVE  Owned'
<1>1. CASE UNCHANGED avail
  BY <1>1, OwnedDrop
<1>2. CASE Enqueue(lang[t], held[t])
  <2>1. lang[t] \in Lang /\ held[t] \in Container /\ LangOf[held[t]] = lang[t]
    BY DEF LocalType, Owned, HeldLang
  <2>2. \A m \in Lang : \A i \in 1..Len(avail[m]) : avail[m][i] # held[t]
    BY DEF Owned, HeldNotIdle
  <2>3. \A g \in Thread : held'[g] = IF g = t THEN None ELSE held[g]
    BY DEF Hold, LocalType
  <2>4. held' \in [Thread -> Container \cup {None}]
    BY DEF Hold, LocalType
  <2>5. \A g \in Thread : held'[g] # held[t] /\ held'[g] \in {held[g], None}
    BY <2>3 DEF Owned, HeldOnce
  <2>. QED
    BY <1>2, <2>1, <2>2, <2>4, <2>5, OwnedAppend
<1>. QED
  BY <1>1, <1>2 DEF PushOrRemove

\* inUse stays exact when no user enters or leaves "using".
LEMMA InUseFrame ==
    ASSUME InUseExact, UNCHANGED inUse,
           \A u \in User : /\ pc'[u] = "using" <=> pc[u] = "using"
                           /\ pc[u] = "using" => held'[u] = held[u]
    PROVE  InUseExact'
  BY DEF InUseExact

\* In particular when a user moves between two other points ...
LEMMA InUseUser ==
    ASSUME TypeOK, InUseExact, UNCHANGED inUse, NEW u \in User, NEW p, Goto(u, p),
           pc[u] # "using", p # "using", UNCHANGED held \/ \E c : Hold(u, c)
    PROVE  InUseExact'
<1>1. \A v \in User : pc'[v] = IF v = u THEN p ELSE pc[v]
  BY ThreadKinds DEF Goto, TypeOK, PCType
<1>2. \A v \in User : v # u => held'[v] = held[v]
  BY ThreadKinds DEF Hold, TypeOK, LocalType
<1>. QED
  BY <1>1, <1>2, InUseFrame

\* ... and when a background goroutine moves.
LEMMA InUseOther ==
    ASSUME TypeOK, InUseExact, UNCHANGED inUse, NEW t \in Goroutines,
           UNCHANGED pc \/ \E p : Goto(t, p), UNCHANGED held \/ \E c : Hold(t, c)
    PROVE  InUseExact'
<1>1. \A u \in User : u # t /\ u \in Thread
  BY ThreadKinds
<1>2. \A u \in User : pc'[u] = pc[u]
  BY <1>1 DEF Goto, TypeOK, PCType
<1>3. \A u \in User : held'[u] = held[u]
  BY <1>1 DEF Hold, TypeOK, LocalType
<1>. QED
  BY <1>2, <1>3, InUseFrame

\* A user that leaves "using" takes its own container, and only that, out of
\* inUse.
LEMMA InUseLeave ==
    ASSUME TypeOK, Owned, InUseExact, NEW u \in User, pc[u] = "using",
           NEW p, Goto(u, p), p # "using", inUse' = inUse \ {held[u]},
           UNCHANGED held \/ Hold(u, None)
    PROVE  InUseExact'
<1>1. \A v \in User : pc'[v] = IF v = u THEN p ELSE pc[v]
  BY ThreadKinds DEF Goto, TypeOK, PCType
<1>2. \A v \in User : v # u => held'[v] = held[v]
  BY ThreadKinds DEF Hold, TypeOK, LocalType
<1>3. \A v \in User : pc[v] = "using" => held[v] # None
  BY ThreadKinds DEF TypeOK, LocalType, HoldingPC
<1>4. \A v \in User : v # u /\ pc[v] = "using" => held[v] # held[u]
  BY <1>3, ThreadKinds DEF Owned, HeldOnce
<1>5. \A v \in User : v # u => held'[v] = held[v] /\ (pc'[v] = "using" <=> pc[v] = "using")
  BY <1>1, <1>2
<1>6. pc'[u] # "using"
  BY <1>1
<1> SUFFICES ASSUME NEW c \in Container
             PROVE  c \in inUse' <=> \E v \in User : pc'[v] = "using" /\ held'[v] = c
  BY DEF InUseExact
<1>7. c \in inUse <=> \E v \in User : pc[v] = "using" /\ held[v] = c
  BY DEF InUseExact
<1>8. CASE c = held[u]
  BY <1>4, <1>5, <1>6, <1>8
<1>9. CASE c # held[u]
  BY <1>5, <1>6, <1>7, <1>9
<1>. QED
  BY <1>8, <1>9

\* What the steps of a user do to the containers.
LEMMA OwnedUser ==
    ASSUME TypeOK, Owned, InUseExact, NEW u \in User, UserStep(u)
    PROVE  Owned' /\ InUseExact'
<1> USE DEF TypeOK
<1>0. u \in Thread
  BY ThreadKinds
<1>a. held[u] # None <=> pc[u] \in HoldingPC
  BY <1>0 DEF LocalType
<1>1. ASSUME NEW l \in Lang, AcquireStart(u, l) PROVE Owned' /\ InUseExact'
  <2>1. \A t \in Thread : held[t] # None => lang'[t] = lang[t]
    BY <1>1, <1>a DEF AcquireStart, HoldingPC, LocalType
  <2>2. Owned'
    BY <1>1, <2>1, OwnedSame DEF AcquireStart
  <2>3. InUseExact'
    BY <1>1, InUseUser DEF AcquireStart, shared
  <2>. QED
    BY <2>2, <2>3
<1>2. ASSUME AcquireReceive(u) PROVE Owned' /\ InUseExact'
  <2>1. Owned'
    BY <1>2, <1>0, <1>a, OwnedDequeue DEF AcquireReceive, HoldingPC, loop
  <2>2. InUseExact'
    BY <1>2, InUseUser DEF AcquireReceive, Dequeue, shared
  <2>. QED
    BY <2>1, <2>2
<1>3. ASSUME AcquireRegister(u) PROVE Owned' /\ InUseExact'
  <2>1. Owned'
    BY <1>3, OwnedSame DEF AcquireRegister, loop
  <2>2. \A v \in User : pc'[v] = IF v = u THEN "using" ELSE pc[v]
    BY <1>3, ThreadKinds DEF AcquireRegister, Goto, PCType
  <2>3. pc[u] # "using" /\ inUse' = inUse \cup {held[u]} /\ held' = held
    BY <1>3 DEF AcquireRegister
  <2>4. InUseExact'
    BY <2>2, <2>3 DEF InUseExact
  <2>. QED
    BY <2>1, <2>4
<1>4. ASSUME AcquireTimeout(u) PROVE Owned' /\ InUseExact'
  BY <1>4, OwnedSame, InUseUser DEF AcquireTimeout, shared, loop
<1>5. ASSUME Release(u) PROVE Owned' /\ InUseExact'
  <2>1. held[u] # None /\ held[u] \in inUse /\ LangOf[held[u]] = lang[u]
    BY <1>5, <1>0, <1>a DEF Release, HoldingPC, InUseExact, Owned, HeldLang, LocalType
  <2>2. Owned'
    BY <1>5, <1>0, <2>1, OwnedPush DEF Release, loop
  <2>3. InUseExact'
    BY <1>5, InUseLeave DEF Release
  <2>. QED
    BY <2>2, <2>3
<1>6. ASSUME DiscardBegin(u) PROVE Owned' /\ InUseExact'
  <2>1. held[u] \in inUse
    BY <1>6, <1>0, <1>a DEF DiscardBegin, HoldingPC, InUseExact, LocalType
  <2>2. Owned'
    BY <1>6, <2>1, OwnedSame DEF DiscardBegin, loop
  <2>3. InUseExact'
    BY <1>6, <2>1, InUseLeave DEF DiscardBegin
  <2>. QED
    BY <2>2, <2>3
<1>7. ASSUME DiscardRemove(u) PROVE Owned' /\ InUseExact'
  BY <1>7, <1>0, OwnedDrop, InUseUser DEF DiscardRemove, shared, loop
<1>8. ASSUME DiscardReplace(u) PROVE Owned' /\ InUseExact'
  <2>1. Owned'
    BY <1>8, <1>0, OwnedStart, OwnedSame DEF DiscardReplace, loop
  <2>2. InUseExact'
    BY <1>8, InUseUser DEF DiscardReplace, shared
  <2>. QED
    BY <2>1, <2>2
<1>9. ASSUME DiscardPush(u) PROVE Owned' /\ InUseExact'
  <2>1. Owned'
    BY <1>9, <1>0, <1>a, OwnedPush DEF DiscardPush, HoldingPC, loop
  <2>2. InUseExact'
    BY <1>9, InUseUser DEF DiscardPush, shared
  <2>. QED
    BY <2>1, <2>2
<1>. QED
  BY <1>1, <1>2, <1>3, <1>4, <1>5, <1>6, <1>7, <1>8, <1>9 DEF UserStep

\* What the health monitor does to them.
LEMMA OwnedMonitor ==
    ASSUME TypeOK, Owned, InUseExact, MonitorStep
    PROVE  Owned' /\ InUseExact'
<1> DEFINE m == "monitor"
<1> USE DEF TypeOK
<1>0. m \in Thread /\ m \in Goroutines
  BY ThreadKinds
<1>a. held[m] # None <=> pc[m] \in HoldingPC
  BY <1>0 DEF LocalType
<1>1. ASSUME NEW l \in Lang, MonitorVisit(l) PROVE Owned' /\ InUseExact'
  <2>1. \A t \in Thread : held[t] # None => lang'[t] = lang[t]
    BY <1>1, <1>a DEF MonitorVisit, Visit, HoldingPC, LocalType
  <2>2. InUseExact'
    BY <1>0, <1>1, InUseOther DEF MonitorVisit, shared
  <2>. QED
    BY <1>1, <2>1, <2>2, OwnedSame DEF MonitorVisit
<1>2. ASSUME MonitorTake PROVE Owned' /\ InUseExact'
  <2>1. Owned'
    BY <1>2, <1>0, <1>a, OwnedDequeue, OwnedSame DEF MonitorTake, HoldingPC
  <2>2. InUseExact'
    BY <1>2, <1>0, InUseOther DEF MonitorTake, Dequeue, NextIteration, shared
  <2>. QED
    BY <2>1, <2>2
<1>3. ASSUME MonitorInspect PROVE Owned' /\ InUseExact'
  BY <1>3, <1>0, OwnedSame, InUseOther DEF MonitorInspect, shared, loop
<1>4. ASSUME MonitorRemove PROVE Owned' /\ InUseExact'
  BY <1>4, <1>0, OwnedDrop, InUseOther DEF MonitorRemove, shared, loop
<1>5. ASSUME MonitorReplace PROVE Owned' /\ InUseExact'
  <2>1. Owned'
    BY <1>5, <1>0, OwnedStart, OwnedSame DEF MonitorReplace
  <2>2. InUseExact'
    BY <1>5, <1>0, InUseOther DEF MonitorReplace, NextIteration, shared
  <2>. QED
    BY <2>1, <2>2
<1>6. ASSUME MonitorPush PROVE Owned' /\ InUseExact'
  <2>1. Owned'
    BY <1>6, <1>0, <1>a, OwnedPush DEF MonitorPush, HoldingPC
  <2>2. InUseExact'
    BY <1>6, <1>0, InUseOther DEF MonitorPush, NextIteration, shared
  <2>. QED
    BY <2>1, <2>2
<1>. QED
  BY <1>1, <1>2, <1>3, <1>4, <1>5, <1>6 DEF MonitorStep

\* What convergeLang does to them.
LEMMA OwnedConverge ==
    ASSUME TypeOK, Owned, InUseExact, NEW t \in Converger, ConvergeStep(t)
    PROVE  Owned' /\ InUseExact'
<1> USE DEF TypeOK
<1>0. t \in Thread /\ t \in Goroutines
  BY ThreadKinds
<1>a. held[t] # None <=> pc[t] \in HoldingPC
  BY <1>0 DEF LocalType
<1>1. ASSUME ConvergeCreate(t) PROVE Owned' /\ InUseExact'
  <2>1. Owned'
    BY <1>1, <1>0, OwnedStart, OwnedSame DEF ConvergeCreate
  <2>2. InUseExact'
    BY <1>1, <1>0, InUseOther DEF ConvergeCreate, shared
  <2>. QED
    BY <2>1, <2>2
<1>2. ASSUME ConvergePush(t) PROVE Owned' /\ InUseExact'
  <2>1. Owned'
    BY <1>2, <1>0, <1>a, OwnedPush DEF ConvergePush, HoldingPC
  <2>2. InUseExact'
    BY <1>2, <1>0, InUseOther DEF ConvergePush, NextIteration, shared
  <2>. QED
    BY <2>1, <2>2
<1>3. ASSUME ConvergeShrink(t) PROVE Owned' /\ InUseExact'
  <2>1. Owned'
    BY <1>3, <1>0, <1>a, OwnedDequeue, OwnedSame DEF ConvergeShrink, HoldingPC
  <2>2. InUseExact'
    BY <1>3, <1>0, InUseOther DEF ConvergeShrink, Dequeue, NextIteration, shared
  <2>. QED
    BY <2>1, <2>2
<1>4. ASSUME ConvergeRemove(t) PROVE Owned' /\ InUseExact'
  <2>1. Owned'
    BY <1>4, <1>0, OwnedDrop DEF ConvergeRemove
  <2>2. InUseExact'
    BY <1>4, <1>0, InUseOther DEF ConvergeRemove, NextIteration, shared
  <2>. QED
    BY <2>1, <2>2
<1>. QED
  BY <1>1, <1>2, <1>3, <1>4 DEF ConvergeStep

\* Warming up adds a new container to a channel; counting, ticking, scaling
\* and what Docker does by itself move none.
LEMMA OwnedRest ==
    ASSUME TypeOK, Owned, InUseExact,
           \/ \E l \in Lang : WarmUpCreate(l) \/ WarmUpFail(l)
           \/ \E t \in Goroutines : Tick(t) \/ TickEnd(t)
           \/ \E l \in Lang : ReconcilerVisit(l)
           \/ AutoscalerStep
           \/ \E c \in Container : Exit(c) \/ OrphanGC(c)
    PROVE  Owned' /\ InUseExact'
<1> USE DEF TypeOK
<1>0. "autoscaler" \in Goroutines /\ "reconciler" \in Goroutines /\ Goroutines \subseteq Thread
  BY ThreadKinds
<1>1. ASSUME NEW l \in Lang, WarmUpCreate(l) PROVE Owned' /\ InUseExact'
  <2>1. PICK c \in Container : Started(l, c) /\ Enqueue(l, c)
    BY <1>1 DEF WarmUpCreate
  <2>2. /\ LangOf[c] = l
        /\ \A m \in Lang : \A i \in 1..Len(avail[m]) : avail[m][i] # c
        /\ \A g \in Thread : held[g] # c
    BY <2>1 DEF Started, Fresh, Referenced, Idle, ToSet, PoolType
  <2>3. held' = held /\ lang' = lang /\ pc' = pc /\ inUse' = inUse
    BY <1>1 DEF WarmUpCreate, loop
  <2>4. held' \in [Thread -> Container \cup {None}]
    BY <2>3 DEF LocalType
  <2>5. Owned'
    BY <2>1, <2>2, <2>3, <2>4, OwnedAppend
  <2>. QED
    BY <2>3, <2>5, InUseFrame
<1>2. ASSUME NEW l \in Lang, WarmUpFail(l) PROVE Owned' /\ InUseExact'
  BY <1>2, OwnedSame, InUseFrame DEF WarmUpFail, loop
<1>3. ASSUME NEW t \in Goroutines, Tick(t) \/ TickEnd(t) PROVE Owned' /\ InUseExact'
  BY <1>3, OwnedSame, InUseOther DEF Tick, TickEnd, shared, loop
<1>4. ASSUME NEW t \in Goroutines, NEW l \in Lang, Visit(t, l), UNCHANGED <<avail, held, inUse>>,
             \E p : Goto(t, p)
      PROVE  Owned' /\ InUseExact'
  <2>1. held[t] = None
    BY <1>4, <1>0 DEF Visit, LocalType, HoldingPC
  <2>2. \A g \in Thread : held[g] # None => lang'[g] = lang[g]
    BY <1>4, <2>1 DEF Visit, LocalType
  <2>. QED
    BY <1>4, <2>2, OwnedSame, InUseOther
<1>5. ASSUME NEW l \in Lang, ReconcilerVisit(l) PROVE Owned' /\ InUseExact'
  BY <1>5, <1>0, <1>4 DEF ReconcilerVisit, ConvergeCount, shared
<1>6. ASSUME NEW l \in Lang, AutoscalerVisit(l) PROVE Owned' /\ InUseExact'
  <2>1. \E p : Goto("autoscaler", p)
    BY <1>6 DEF AutoscalerVisit
  <2>. QED
    BY <1>6, <1>0, <1>4, <2>1 DEF AutoscalerVisit, shared
<1>7. ASSUME AutoscalerStore \/ AutoscalerConverge PROVE Owned' /\ InUseExact'
  BY <1>7, <1>0, OwnedSame, InUseOther
  DEF AutoscalerStore, AutoscalerConverge, ConvergeCount, shared
<1>8. ASSUME NEW c \in Container, Exit(c) \/ OrphanGC(c) PROVE Owned' /\ InUseExact'
  BY <1>8, OwnedSame, InUseFrame DEF Exit, OrphanGC, shared, loop
<1>. QED
  BY <1>1, <1>2, <1>3, <1>5, <1>6, <1>7, <1>8 DEF AutoscalerStep

\* Every container has one owner, whatever the interleaving of the users, the
\* monitor, the reconciler, the autoscaler and the GC.
THEOREM OwnershipIsExclusive == Spec => []ExclusiveOwnership
<1>1. ExclusiveOwnership <=> Owned /\ InUseExact
  BY DEF ExclusiveOwnership, Owned
<1>2. Init => Owned /\ InUseExact
  BY PoolAssumption
  DEF Init, Owned, IdleOnce, HeldNotIdle, HeldOnce, HeldLang, InUseExact, Thread
<1>3. TypeOK /\ (Owned /\ InUseExact) /\ [Next]_vars => (Owned /\ InUseExact)'
  <2> SUFFICES ASSUME TypeOK, Owned, InUseExact, [Next]_vars PROVE Owned' /\ InUseExact'
    OBVIOUS
  <2>1. CASE UNCHANGED vars
    BY <2>1, OwnedSame, InUseFrame DEF vars, TypeOK
  <2>2. CASE Next
    BY <2>2, OwnedUser, OwnedMonitor, OwnedConverge, OwnedRest DEF Next
  <2>. QED
    BY <2>1, <2>2
<1>. QED
  BY <1>1, <1>2, <1>3, TypeCorrect, PTL DEF Spec

-----------------------------------------------------------------------------
(* Nobody removes a container under its user. *)

\* A step that removes no container but t's leaves a running container of
\* another goroutine in Docker.
LEMMA OthersKept ==
    ASSUME PoolType, NEW c \in Container, NEW d \in Container, d # c,
           RemoveContainer(c), docker[d] = "running"
    PROVE  docker'[d] = "running"
  BY DEF RemoveContainer, PoolType

\* A created container does not take another one's place.
LEMMA StartKeeps ==
    ASSUME PoolType, NEW l \in Lang, NEW c \in Container, NEW d \in Container,
           Started(l, c), docker[d] = "running"
    PROVE  docker'[d] = "running"
  BY DEF Started, PoolType

\* Of all steps only those of its own user can remove a container in use: the
\* monitor and the convergers remove only what they hold, the GC only what has
\* stopped.
LEMMA ReapedByItsUser ==
    ASSUME TypeOK, Owned, Next, NEW u \in User,
           pc[u] = "using", docker[held[u]] = "running", docker'[held[u]] = "none"
    PROVE  pc'[u] # "using"
<1> DEFINE c == held[u]
<1> USE DEF TypeOK
<1>0. u \in Thread /\ c \in Container
  BY ThreadKinds DEF LocalType, HoldingPC
<1>1. ASSUME NEW t \in Thread, t # u, pc[t] \in HoldingPC
      PROVE  held[t] \in Container /\ held[t] # c
  BY <1>0, <1>1 DEF LocalType, Owned, HeldOnce
<1>2. ASSUME NEW t \in Thread, t # u, pc[t] \in HoldingPC,
             RemoveContainer(held[t]) \/ \E l \in Lang : PushOrRemove(l, held[t])
      PROVE  FALSE
  BY <1>0, <1>1, <1>2, OthersKept DEF PushOrRemove
<1>3. ASSUME NEW l \in Lang, NEW d \in Container, Started(l, d) PROVE FALSE
  BY <1>0, <1>3, StartKeeps
<1>4. ASSUME UNCHANGED docker PROVE FALSE
  BY <1>4
<1>5. \A t \in Thread : lang[t] \in Lang
  BY DEF LocalType
<1>6. ASSUME NEW l \in Lang, WarmUpCreate(l) \/ WarmUpFail(l) PROVE FALSE
  BY <1>3, <1>4, <1>6 DEF WarmUpCreate, WarmUpFail
<1>7. ASSUME NEW v \in User, UserStep(v) PROVE pc'[u] # "using"
  <2>0. v \in Thread
    BY ThreadKinds
  <2>1. CASE v = u
    <3>1. Release(u) \/ DiscardBegin(u)
      BY <1>7, <2>1
      DEF UserStep, AcquireStart, AcquireReceive, AcquireRegister, AcquireTimeout,
          DiscardRemove, DiscardReplace, DiscardPush
    <3>. QED
      BY <1>0, <3>1 DEF Release, DiscardBegin, Goto, PCType
  <2>2. CASE v # u
    <3>1. CASE Release(v)
      <4>1. held[v] \in Container /\ LangOf[held[v]] \in Lang
        BY <2>0, <2>2, <3>1, <1>1, PoolAssumption DEF Release, HoldingPC
      <4>. QED
        BY <2>0, <2>2, <3>1, <4>1, <1>2, <1>4 DEF Release, HoldingPC
    <3>2. CASE DiscardRemove(v)
      BY <2>0, <2>2, <3>2, <1>2 DEF DiscardRemove, HoldingPC
    <3>3. CASE DiscardReplace(v)
      BY <2>0, <3>3, <1>3, <1>4, <1>5 DEF DiscardReplace
    <3>4. CASE DiscardPush(v)
      BY <2>0, <2>2, <3>4, <1>2, <1>5 DEF DiscardPush, HoldingPC
    <3>. QED
      BY <1>4, <1>7, <3>1, <3>2, <3>3, <3>4
      DEF UserStep, AcquireStart, AcquireReceive, AcquireRegister, AcquireTimeout, DiscardBegin
  <2>. QED
    BY <2>1, <2>2
<1>8. ASSUME NEW t \in Goroutines, Tick(t) \/ TickEnd(t) PROVE FALSE
  BY <1>4, <1>8 DEF Tick, TickEnd
<1>9. ASSUME MonitorStep PROVE FALSE
  <2>0. "monitor" \in Thread /\ "monitor" # u
    BY ThreadKinds
  <2>1. CASE MonitorRemove
    BY <2>0, <2>1, <1>2 DEF MonitorRemove, HoldingPC
  <2>2. CASE MonitorReplace
    BY <2>0, <2>2, <1>3, <1>4, <1>5 DEF MonitorReplace
  <2>3. CASE MonitorPush
    BY <2>0, <2>3, <1>2, <1>5 DEF MonitorPush, HoldingPC
  <2>. QED
    BY <1>4, <1>9, <2>1, <2>2, <2>3 DEF MonitorStep, MonitorVisit, MonitorTake, MonitorInspect
<1>10. ASSUME NEW t \in Converger, ConvergeStep(t) PROVE FALSE
  <2>0. t \in Thread /\ t # u
    BY ThreadKinds
  <2>1. CASE ConvergeRemove(t)
    BY <2>0, <2>1, <1>2 DEF ConvergeRemove, HoldingPC
  <2>2. CASE ConvergeCreate(t)
    BY <2>0, <2>2, <1>3, <1>4, <1>5 DEF ConvergeCreate
  <2>3. CASE ConvergePush(t)
    BY <2>0, <2>3, <1>2, <1>5 DEF ConvergePush, HoldingPC
  <2>. QED
    BY <1>4, <1>10, <2>1, <2>2, <2>3 DEF ConvergeStep, ConvergeShrink
<1>11. ASSUME \E l \in Lang : ReconcilerVisit(l) PROVE FALSE
  BY <1>4, <1>11 DEF ReconcilerVisit
<1>12. ASSUME AutoscalerStep PROVE FALSE
  <2>1. UNCHANGED docker
    BY <1>12 DEF AutoscalerStep, AutoscalerVisit, AutoscalerStore, AutoscalerConverge
  <2>. QED
    BY <1>4, <2>1
<1>13. ASSUME NEW d \in Container, Exit(d) \/ OrphanGC(d) PROVE FALSE
  BY <1>0, <1>13 DEF Exit, OrphanGC, PoolType
<1>. QED
  BY <1>6, <1>7, <1>8, <1>9, <1>10, <1>11, <1>12, <1>13 DEF Next

\* A live container in the hands of a user is never removed by anyone else.
THEOREM NeverReapedInUse == Spec => InUseNeverReaped
<1>1. ExclusiveOwnership => Owned
  BY DEF ExclusiveOwnership, Owned
<1>2. TypeOK /\ ExclusiveOwnership /\ [Next]_vars =>
        [\A u \in User : /\ pc[u] = "using" /\ docker[held[u]] = "running"
                         /\ docker'[held[u]] = "none"
                         => pc'[u] # "using"]_vars
  BY <1>1, ReapedByItsUser
<1>. QED
  BY <1>2, TypeCorrect, OwnershipIsExclusive, PTL DEF Spec, InUseNeverReaped

-----------------------------------------------------------------------------
(* The autoscaler's target. *)

\* The value the autoscaler has computed and not yet stored is within the limits
\* of the language it is working on.
DecidedWithinLimits ==
    pc["autoscaler"] = "deciding" =>
        decided \in MinSize[lang["autoscaler"]]..MaxSize[lang["autoscaler"]]

\* Only AutoscalerStore writes targets, and it writes what decideScale returned.
THEOREM TargetsWithinLimits == Spec => []TargetWithinLimits
<1> DEFINE Inv == TargetWithinLimits /\ DecidedWithinLimits
           a == "autoscaler"
<1>0. a \in Thread /\ a \in Goroutines
  BY ThreadKinds
<1>1. Init => Inv
  BY PoolAssumption, <1>0 DEF Init, TargetWithinLimits, DecidedWithinLimits
<1>2. TypeOK /\ Inv /\ [Next]_vars => Inv'
  <2> SUFFICES ASSUME TypeOK, Inv, [Next]_vars PROVE Inv'
    OBVIOUS
  <2> USE DEF TypeOK
  <2>1. CASE UNCHANGED <<targets, pc, lang, decided>>
    BY <2>1 DEF TargetWithinLimits, DecidedWithinLimits
  <2>2. ASSUME UNCHANGED <<targets, decided>>, pc'[a] # "deciding" PROVE Inv'
    BY <2>2 DEF TargetWithinLimits, DecidedWithinLimits
  <2>3. ASSUME UNCHANGED <<targets, decided>>, pc'[a] = pc[a], lang'[a] = lang[a] PROVE Inv'
    BY <2>3 DEF TargetWithinLimits, DecidedWithinLimits
  <2>4. ASSUME NEW u \in User, UserStep(u) PROVE Inv'
    <3>1. u # a /\ UNCHANGED <<targets, decided>>
      BY <2>4, ThreadKinds
      DEF UserStep, AcquireStart, AcquireReceive, AcquireRegister, AcquireTimeout, Release,
          DiscardBegin, DiscardRemove, DiscardReplace, DiscardPush, shared, loop
    <3>2. pc'[a] = pc[a]
      BY <2>4, <3>1, <1>0
      DEF UserStep, AcquireStart, AcquireReceive, AcquireRegister, AcquireTimeout, Release,
          DiscardBegin, DiscardRemove, DiscardReplace, DiscardPush, Goto, PCType
    <3>3. lang'[a] = lang[a]
      BY <2>4, <3>1, <1>0
      DEF UserStep, AcquireStart, AcquireReceive, AcquireRegister, AcquireTimeout, Release,
          DiscardBegin, DiscardRemove, DiscardReplace, DiscardPush, loop, LocalType
    <3>. QED
      BY <2>3, <3>1, <3>2, <3>3
  <2>5. ASSUME MonitorStep \/ \E l \in Lang : ReconcilerVisit(l) PROVE Inv'
    <3>1. /\ UNCHANGED <<targets, decided>>
          /\ pc'[a] = pc[a] /\ lang'[a] = lang[a]
      BY <2>5, <1>0
      DEF MonitorStep, MonitorVisit, MonitorTake, MonitorInspect, MonitorRemove, MonitorReplace,
          MonitorPush, ReconcilerVisit, ConvergeCount, Visit, NextIteration, Goto, shared, loop,
          PCType, LocalType
    <3>. QED
      BY <2>3, <3>1
  <2>6. ASSUME NEW t \in Goroutines, Tick(t) \/ TickEnd(t) PROVE Inv'
    <3>1. UNCHANGED <<targets, decided, lang>> /\ (pc'[a] = pc[a] \/ pc'[a] # "deciding")
      BY <2>6, <1>0 DEF Tick, TickEnd, Goto, shared, loop, PCType
    <3>. QED
      BY <2>2, <2>3, <3>1
  <2>7. ASSUME NEW t \in Converger, ConvergeStep(t) PROVE Inv'
    <3>1. UNCHANGED <<targets, decided, lang>> /\ (pc'[a] = pc[a] \/ pc'[a] # "deciding")
      BY <2>7, <1>0
      DEF ConvergeStep, ConvergeCreate, ConvergePush, ConvergeShrink, ConvergeRemove,
          NextIteration, Goto, shared, PCType
    <3>. QED
      BY <2>2, <2>3, <3>1
  <2>8. ASSUME NEW l \in Lang, AutoscalerVisit(l) PROVE Inv'
    <3>1. UNCHANGED targets /\ lang'[a] = l /\ pc'[a] \in {"deciding", "scanning"}
      BY <2>8, <1>0 DEF AutoscalerVisit, Visit, Goto, shared, PCType, LocalType
    <3>2. PICK load \in Loads :
            LET new == DecideScale(MinSize[l], MaxSize[l], targets[l], load,
                                   GlobalLiveTotal < GlobalCap)
            IN  (decided' = new /\ Goto(a, "deciding")) \/ Goto(a, "scanning")
      BY <2>8 DEF AutoscalerVisit
    <3>3. pc'[a] = "deciding" => decided' \in MinSize[l]..MaxSize[l]
      <4>1. targets[l] \in Nat /\ (GlobalLiveTotal < GlobalCap) \in BOOLEAN
        BY DEF PoolType
      <4>2. Goto(a, "scanning") => pc'[a] # "deciding"
        BY <1>0 DEF Goto, PCType
      <4>. QED
        BY <3>2, <4>1, <4>2, DecisionInLimits
    <3>. QED
      BY <3>1, <3>3 DEF TargetWithinLimits, DecidedWithinLimits
  <2>9. ASSUME AutoscalerStore PROVE Inv'
    <3>1. lang[a] \in Lang /\ decided \in MinSize[lang[a]]..MaxSize[lang[a]]
      BY <2>9, <1>0 DEF AutoscalerStore, DecidedWithinLimits, LocalType
    <3>2. pc'[a] # "deciding"
      BY <2>9, <1>0 DEF AutoscalerStore, Goto, PCType
    <3>3. targets' = [targets EXCEPT ![lang[a]] = decided]
      BY <2>9 DEF AutoscalerStore
    <3>4. TargetWithinLimits'
      BY <3>1, <3>3, PoolAssumption DEF TargetWithinLimits, PoolType
    <3>. QED
      BY <3>2, <3>4 DEF DecidedWithinLimits
  <2>10. ASSUME AutoscalerConverge PROVE Inv'
    BY <2>10, <2>2, <1>0 DEF AutoscalerConverge, ConvergeCount, Goto, shared, PCType
  <2>11. ASSUME \/ \E l \in Lang : WarmUpCreate(l) \/ WarmUpFail(l)
                \/ \E c \in Container : Exit(c) \/ OrphanGC(c)
         PROVE  Inv'
    BY <2>1, <2>11 DEF WarmUpCreate, WarmUpFail, Exit, OrphanGC, shared, loop
  <2>12. CASE UNCHANGED vars
    BY <2>1, <2>12 DEF vars
  <2>. QED
    BY <2>4, <2>5, <2>6, <2>7, <2>8, <2>9, <2>10, <2>11, <2>12 DEF Next, AutoscalerStep
<1>. QED
  BY <1>1, <1>2, TypeCorrect, PTL DEF Spec

-----------------------------------------------------------------------------
(***************************************************************************)
(* Nothing is left behind in Docker, and the leases.  Both arguments only   *)
(* need to know which containers are idle, in whatever order: Idle as a set *)
(* loses the head a channel gives away and gains what is put into one.      *)
(***************************************************************************)

\* A container is idle when it is somewhere in a channel.
LEMMA IdleMember ==
    ASSUME avail \in [Lang -> Seq(Container)], NEW c
    PROVE  c \in Idle <=> \E l \in Lang : \E i \in 1..Len(avail[l]) : avail[l][i] = c
<1>1. ASSUME NEW l \in Lang
      PROVE  c \in ToSet(avail[l]) <=> \E i \in 1..Len(avail[l]) : avail[l][i] = c
  <2>1. DOMAIN avail[l] = 1..Len(avail[l])
    OBVIOUS
  <2>. QED
    BY <2>1 DEF ToSet
<1>. QED
  BY <1>1 DEF Idle

LEMMA IdleMemberNext ==
    ASSUME avail' \in [Lang -> Seq(Container)], NEW c
    PROVE  c \in Idle' <=> \E l \in Lang : \E i \in 1..Len(avail'[l]) : avail'[l][i] = c
<1>1. ASSUME NEW l \in Lang
      PROVE  c \in ToSet(avail'[l]) <=> \E i \in 1..Len(avail'[l]) : avail'[l][i] = c
  <2>1. DOMAIN avail'[l] = 1..Len(avail'[l])
    OBVIOUS
  <2>. QED
    BY <2>1 DEF ToSet
<1>. QED
  BY <1>1 DEF Idle

LEMMA IdleEnqueue ==
    ASSUME PoolType, NEW l \in Lang, NEW c \in Container, Enqueue(l, c)
    PROVE  Idle' = Idle \cup {c}
<1>0. avail \in [Lang -> Seq(Container)] /\ avail' \in [Lang -> Seq(Container)]
  BY EnqueueType DEF PoolType
<1>1. avail[l] \in Seq(Container) /\ avail'[l] = Append(avail[l], c)
  BY <1>0 DEF Enqueue
<1>2. \A m \in Lang : m # l => avail'[m] = avail[m]
  BY <1>0 DEF Enqueue
<1>3. /\ Len(avail[l]) \in Nat /\ Len(avail'[l]) = Len(avail[l]) + 1
      /\ \A i \in 1..Len(avail[l]) : i \in 1..Len(avail'[l]) /\ avail'[l][i] = avail[l][i]
      /\ avail'[l][Len(avail[l]) + 1] = c
  BY <1>1
<1>4. \A i \in 1..Len(avail'[l]) : i \in 1..Len(avail[l]) \/ i = Len(avail[l]) + 1
  BY <1>3
<1>5. Len(avail[l]) + 1 \in 1..Len(avail'[l])
  BY <1>3
<1> SUFFICES ASSUME NEW d PROVE d \in Idle' <=> d \in Idle \cup {c}
  OBVIOUS
<1>6. ASSUME d \in Idle' PROVE d \in Idle \cup {c}
  <2>1. PICK m \in Lang : \E i \in 1..Len(avail'[m]) : avail'[m][i] = d
    BY <1>0, <1>6, IdleMemberNext
  <2>2. CASE m = l
    BY <1>0, <1>3, <1>4, <2>1, <2>2, IdleMember
  <2>3. CASE m # l
    BY <1>0, <1>2, <2>1, <2>3, IdleMember
  <2>. QED
    BY <2>2, <2>3
<1>7. ASSUME d \in Idle PROVE d \in Idle'
  <2>1. PICK m \in Lang : \E i \in 1..Len(avail[m]) : avail[m][i] = d
    BY <1>0, <1>7, IdleMember
  <2>2. CASE m = l
    BY <1>0, <1>3, <2>1, <2>2, IdleMemberNext
  <2>3. CASE m # l
    BY <1>0, <1>2, <2>1, <2>3, IdleMemberNext
  <2>. QED
    BY <2>2, <2>3
<1>8. c \in Idle'
  BY <1>0, <1>3, <1>5, IdleMemberNext
<1>. QED
  BY <1>6, <1>7, <1>8

LEMMA IdleDequeue ==
    ASSUME PoolType, IdleOnce, NEW t \in Thread, NEW l \in Lang, Dequeue(t, l)
    PROVE  /\ Head(avail[l]) \in Idle
           /\ Idle' = Idle \ {Head(avail[l])}
<1> DEFINE s == avail[l]
<1>0. avail \in [Lang -> Seq(Container)] /\ avail' \in [Lang -> Seq(Container)]
  BY DequeueType DEF PoolType
<1>1. s \in Seq(Container) /\ s # <<>> /\ avail'[l] = Tail(s)
  BY <1>0 DEF Dequeue
<1>2. \A m \in Lang : m # l => avail'[m] = avail[m]
  BY <1>0 DEF Dequeue
<1>3. /\ Len(s) \in Nat /\ 1 \in 1..Len(s) /\ Head(s) = s[1]
      /\ Len(avail'[l]) = Len(s) - 1
      /\ \A i \in 1..(Len(s) - 1) : avail'[l][i] = s[i + 1]
  BY <1>1
<1>4. \A i \in 1..Len(avail'[l]) : i + 1 \in 1..Len(s) /\ i + 1 # 1 /\ avail'[l][i] = s[i + 1]
  BY <1>3
<1>5. \A i \in 1..Len(s) : i # 1 => i - 1 \in 1..Len(avail'[l]) /\ avail'[l][i - 1] = s[i]
  BY <1>3
<1>6. \A i, j \in 1..Len(s) : s[i] = s[j] => i = j
  BY DEF IdleOnce
<1>7. \A m \in Lang : \A i \in 1..Len(avail[m]) : LangOf[avail[m][i]] = m
  BY DEF IdleOnce
<1>8. LangOf[s[1]] = l
  BY <1>3, <1>7
<1>9. s[1] \in Idle
  BY <1>0, <1>3, IdleMember
<1>10. ASSUME NEW d \in Idle' PROVE d \in Idle /\ d # s[1]
  <2>1. PICK m \in Lang : \E i \in 1..Len(avail'[m]) : avail'[m][i] = d
    BY <1>0, <1>10, IdleMemberNext
  <2>2. CASE m = l
    BY <1>0, <1>3, <1>4, <1>6, <2>1, <2>2, IdleMember
  <2>3. CASE m # l
    BY <1>0, <1>2, <1>7, <1>8, <2>1, <2>3, IdleMember
  <2>. QED
    BY <2>2, <2>3
<1>11. ASSUME NEW d \in Idle, d # s[1] PROVE d \in Idle'
  <2>1. PICK m \in Lang : \E i \in 1..Len(avail[m]) : avail[m][i] = d
    BY <1>0, <1>11, IdleMember
  <2>2. CASE m = l
    BY <1>0, <1>5, <1>11, <2>1, <2>2, IdleMemberNext
  <2>3. CASE m # l
    BY <1>0, <1>2, <2>1, <2>3, IdleMemberNext
  <2>. QED
    BY <2>2, <2>3
<1>. QED
  BY <1>3, <1>9, <1>10, <1>11

\* What Docker has is idle or in a goroutine's hands.  inUse does not count: it
\* only registers what a user holds.
Tracked ==
    \A c \in Container : docker[c] # "none" => c \in Idle \/ \E t \in Thread : held[t] = c

\* Nothing moves, and nothing is created.
LEMMA TrackedSame ==
    ASSUME Tracked, UNCHANGED <<avail, held>>,
           \A c \in Container : docker'[c] # "none" => docker[c] # "none"
    PROVE  Tracked'
  BY DEF Tracked, Idle

\* The head of a channel passes into a goroutine's hands.
LEMMA TrackedDequeue ==
    ASSUME TypeOK, Owned, Tracked, NEW t \in Thread, held[t] = None,
           NEW l \in Lang, Dequeue(t, l), UNCHANGED docker
    PROVE  Tracked'
<1>1. Idle' = Idle \ {Head(avail[l])}
  BY IdleDequeue DEF TypeOK, Owned
<1>2. \A g \in Thread : held'[g] = IF g = t THEN Head(avail[l]) ELSE held[g]
  BY DEF Dequeue, Hold, TypeOK, LocalType
<1>. QED
  BY <1>1, <1>2, PoolAssumption DEF Tracked

\* A goroutine removes the container it holds; Docker does not refuse.
LEMMA TrackedRemove ==
    ASSUME TypeOK, Tracked, ~RemoveMayFail, NEW t \in Thread, RemoveContainer(held[t]),
           Hold(t, None), UNCHANGED avail
    PROVE  Tracked'
<1>1. \A c \in Container : docker'[c] # "none" => docker[c] # "none" /\ c # held[t]
  BY DEF RemoveContainer, TypeOK, PoolType
<1>2. \A g \in Thread : g # t => held'[g] = held[g]
  BY DEF Hold, TypeOK, LocalType
<1>3. Idle' = Idle
  BY DEF Idle
<1>. QED
  BY <1>1, <1>2, <1>3 DEF Tracked

\* It gives it back, or removes it when the channel is full.
LEMMA TrackedPush ==
    ASSUME TypeOK, Tracked, ~RemoveMayFail, NEW t \in Thread, held[t] \in Container,
           NEW l \in Lang, PushOrRemove(l, held[t]), Hold(t, None)
    PROVE  Tracked'
<1>1. CASE Enqueue(l, held[t]) /\ UNCHANGED docker
  <2>1. Idle' = Idle \cup {held[t]}
    BY <1>1, IdleEnqueue DEF TypeOK
  <2>2. \A g \in Thread : g # t => held'[g] = held[g]
    BY DEF Hold, TypeOK, LocalType
  <2>. QED
    BY <1>1, <2>1, <2>2 DEF Tracked
<1>2. CASE RemoveContainer(held[t]) /\ UNCHANGED avail
  BY <1>2, TrackedRemove
<1>. QED
  BY <1>1, <1>2 DEF PushOrRemove

\* It creates one and holds it.
LEMMA TrackedStart ==
    ASSUME TypeOK, Tracked, NEW t \in Thread, held[t] = None, NEW l \in Lang,
           NEW c \in Container, Started(l, c), Hold(t, c), UNCHANGED avail
    PROVE  Tracked'
<1>1. \A d \in Container : docker'[d] # "none" => docker[d] # "none" \/ d = c
  BY DEF Started, TypeOK, PoolType
<1>2. \A g \in Thread : held'[g] = IF g = t THEN c ELSE held[g]
  BY DEF Hold, TypeOK, LocalType
<1>3. Idle' = Idle
  BY DEF Idle
<1>. QED
  BY <1>1, <1>2, <1>3, PoolAssumption DEF Tracked

\* Every step of a user keeps what Docker has within reach.
LEMMA TrackedUser ==
    ASSUME TypeOK, Owned, InUseExact, Tracked, ~RemoveMayFail, NEW u \in User, UserStep(u)
    PROVE  Tracked'
<1>0. u \in Thread /\ lang[u] \in Lang /\ (held[u] # None <=> pc[u] \in HoldingPC)
  BY ThreadKinds DEF TypeOK, LocalType
<1>a. pc[u] \in HoldingPC => held[u] \in Container
  BY <1>0, HeldType DEF TypeOK
<1>1. ASSUME AcquireReceive(u) PROVE Tracked'
  BY <1>0, <1>1, TrackedDequeue DEF AcquireReceive, HoldingPC
<1>2. ASSUME Release(u) PROVE Tracked'
  <2>1. held[u] \in Container /\ held[u] \in inUse /\ LangOf[held[u]] \in Lang
    BY <1>a, <1>2, PoolAssumption DEF Release, HoldingPC, InUseExact
  <2>. QED
    BY <1>0, <1>2, <2>1, TrackedPush DEF Release
<1>3. ASSUME DiscardBegin(u) PROVE Tracked'
  <2>1. held[u] \in inUse
    BY <1>a, <1>3 DEF DiscardBegin, HoldingPC, InUseExact
  <2>. QED
    BY <1>3, <2>1, TrackedSame DEF DiscardBegin
<1>4. ASSUME DiscardRemove(u) PROVE Tracked'
  BY <1>0, <1>4, TrackedRemove DEF DiscardRemove
<1>5. ASSUME DiscardReplace(u) PROVE Tracked'
  BY <1>0, <1>5, TrackedStart, TrackedSame DEF DiscardReplace, HoldingPC
<1>6. ASSUME DiscardPush(u) PROVE Tracked'
  BY <1>0, <1>a, <1>6, TrackedPush DEF DiscardPush, HoldingPC
<1>7. ASSUME (\E l \in Lang : AcquireStart(u, l)) \/ AcquireRegister(u) \/ AcquireTimeout(u)
      PROVE  Tracked'
  BY <1>7, TrackedSame DEF AcquireStart, AcquireRegister, AcquireTimeout
<1>. QED
  BY <1>1, <1>2, <1>3, <1>4, <1>5, <1>6, <1>7 DEF UserStep

\* So does every step of the monitor ...
LEMMA TrackedMonitor ==
    ASSUME TypeOK, Owned, Tracked, ~RemoveMayFail, MonitorStep
    PROVE  Tracked'
<1> DEFINE m == "monitor"
<1>0. m \in Thread /\ lang[m] \in Lang /\ (held[m] # None <=> pc[m] \in HoldingPC)
  BY ThreadKinds DEF TypeOK, LocalType
<1>a. pc[m] \in HoldingPC => held[m] \in Container
  BY <1>0, HeldType DEF TypeOK
<1>1. ASSUME MonitorTake PROVE Tracked'
  BY <1>0, <1>1, TrackedDequeue, TrackedSame DEF MonitorTake, HoldingPC
<1>2. ASSUME MonitorRemove PROVE Tracked'
  BY <1>0, <1>2, TrackedRemove DEF MonitorRemove
<1>3. ASSUME MonitorReplace PROVE Tracked'
  BY <1>0, <1>3, TrackedStart, TrackedSame DEF MonitorReplace, HoldingPC
<1>4. ASSUME MonitorPush PROVE Tracked'
  BY <1>0, <1>a, <1>4, TrackedPush DEF MonitorPush, HoldingPC
<1>5. ASSUME (\E l \in Lang : MonitorVisit(l)) \/ MonitorInspect PROVE Tracked'
  BY <1>5, TrackedSame DEF MonitorVisit, MonitorInspect
<1>. QED
  BY <1>1, <1>2, <1>3, <1>4, <1>5 DEF MonitorStep

\* ... and of convergeLang.
LEMMA TrackedConverge ==
    ASSUME TypeOK, Owned, Tracked, ~RemoveMayFail, NEW t \in Converger, ConvergeStep(t)
    PROVE  Tracked'
<1>0. t \in Thread /\ lang[t] \in Lang /\ (held[t] # None <=> pc[t] \in HoldingPC)
  BY ThreadKinds DEF TypeOK, LocalType
<1>a. pc[t] \in HoldingPC => held[t] \in Container
  BY <1>0, HeldType DEF TypeOK
<1>1. ASSUME ConvergeCreate(t) PROVE Tracked'
  BY <1>0, <1>1, TrackedStart, TrackedSame DEF ConvergeCreate, HoldingPC
<1>2. ASSUME ConvergePush(t) PROVE Tracked'
  BY <1>0, <1>a, <1>2, TrackedPush DEF ConvergePush, HoldingPC
<1>3. ASSUME ConvergeShrink(t) PROVE Tracked'
  BY <1>0, <1>3, TrackedDequeue, TrackedSame DEF ConvergeShrink, HoldingPC
<1>4. ASSUME ConvergeRemove(t) PROVE Tracked'
  BY <1>0, <1>4, TrackedRemove DEF ConvergeRemove
<1>. QED
  BY <1>1, <1>2, <1>3, <1>4 DEF ConvergeStep

\* Warming up puts what it creates into a channel; a container that exits was
\* there before; the GC only removes.
LEMMA TrackedRest ==
    ASSUME TypeOK, Tracked,
           \/ \E l \in Lang : WarmUpCreate(l) \/ WarmUpFail(l)
           \/ \E t \in Goroutines : Tick(t) \/ TickEnd(t)
           \/ \E l \in Lang : ReconcilerVisit(l)
           \/ AutoscalerStep
           \/ \E c \in Container : Exit(c) \/ OrphanGC(c)
    PROVE  Tracked'
<1>1. ASSUME NEW l \in Lang, WarmUpCreate(l) PROVE Tracked'
  <2>1. PICK c \in Container : Started(l, c) /\ Enqueue(l, c)
    BY <1>1 DEF WarmUpCreate
  <2>2. Idle' = Idle \cup {c}
    BY <2>1, IdleEnqueue DEF TypeOK
  <2>3. \A d \in Container : docker'[d] # "none" => docker[d] # "none" \/ d = c
    BY <2>1 DEF Started, TypeOK, PoolType
  <2>4. held' = held
    BY <1>1 DEF WarmUpCreate
  <2>. QED
    BY <2>2, <2>3, <2>4 DEF Tracked
<1>2. ASSUME NEW c \in Container, Exit(c) \/ OrphanGC(c) PROVE Tracked'
  <2>1. \A d \in Container : docker'[d] # "none" => docker[d] # "none"
    BY <1>2 DEF Exit, OrphanGC, TypeOK, PoolType
  <2>. QED
    BY <1>2, <2>1, TrackedSame DEF Exit, OrphanGC
<1>3. ASSUME \/ \E l \in Lang : WarmUpFail(l) \/ ReconcilerVisit(l)
             \/ \E t \in Goroutines : Tick(t) \/ TickEnd(t)
             \/ AutoscalerStep
      PROVE  UNCHANGED <<avail, docker, held>>
  <2>1. CASE AutoscalerStep
    BY <2>1 DEF AutoscalerStep, AutoscalerVisit, AutoscalerStore, AutoscalerConverge
  <2>. QED
    BY <1>3, <2>1 DEF WarmUpFail, ReconcilerVisit, Tick, TickEnd
<1>4. ASSUME UNCHANGED <<avail, docker, held>> PROVE Tracked'
  BY <1>4, TrackedSame
<1>. QED
  BY <1>1, <1>2, <1>3, <1>4

\* When Docker removes what it is asked to remove, no container is left behind:
\* every one that exists is idle, in use or in a goroutine's local variable -
\* after a full channel, a failed replacement, a discard, a shrink or any race
\* of the five goroutines.
THEOREM NothingLeaks ==
    ASSUME RemoveMayFail = FALSE
    PROVE  Spec => []NoLeak
<1>1. Init => Tracked
  BY DEF Init, Tracked
<1>2. ExclusiveOwnership => Owned /\ InUseExact
  BY DEF ExclusiveOwnership, Owned
<1>3. TypeOK /\ ExclusiveOwnership /\ Tracked /\ [Next]_vars => Tracked'
  <2> SUFFICES ASSUME TypeOK, Owned, InUseExact, Tracked, [Next]_vars PROVE Tracked'
    BY <1>2
  <2>1. CASE UNCHANGED vars
    BY <2>1, TrackedSame DEF vars
  <2>2. CASE Next
    BY <2>2, TrackedUser, TrackedMonitor, TrackedConverge, TrackedRest DEF Next
  <2>. QED
    BY <2>1, <2>2
<1>4. Tracked => NoLeak
  BY DEF Tracked, NoLeak, Referenced
<1>. QED
  BY <1>1, <1>3, <1>4, TypeCorrect, OwnershipIsExclusive, PTL DEF Spec

-----------------------------------------------------------------------------
(***************************************************************************)
(* The pool implements ContainerLease.  A step moves one goroutine, so what *)
(* the pool offers splits into the channels, what the other goroutines      *)
(* offer - which the step leaves alone - and what this one does.            *)
(***************************************************************************)
Standing(t) == pc[t] \in HoldingPC \ {"removing"}

OthersOffer(t) == {held[g] : g \in {s \in Thread \ {t} : Standing(s)}}

OwnOffer(t) == IF Standing(t) THEN {held[t]} ELSE {}

LEMMA OfferedSplit ==
    ASSUME NEW t \in Thread
    PROVE  /\ Offered = Idle \cup OthersOffer(t) \cup OwnOffer(t)
           /\ Offered' = Idle' \cup OthersOffer(t)' \cup OwnOffer(t)'
<1>1. /\ OthersOffer(t) = {held[g] : g \in {s \in Thread \ {t} : pc[s] \in HoldingPC \ {"removing"}}}
      /\ OthersOffer(t)' = {held'[g] : g \in {s \in Thread \ {t} : pc'[s] \in HoldingPC \ {"removing"}}}
      /\ OwnOffer(t) = IF pc[t] \in HoldingPC \ {"removing"} THEN {held[t]} ELSE {}
      /\ OwnOffer(t)' = IF pc'[t] \in HoldingPC \ {"removing"} THEN {held'[t]} ELSE {}
  BY DEF OthersOffer, OwnOffer, Standing
<1>. QED
  BY <1>1 DEF Offered

\* A goroutine that moves leaves what the others offer alone.
LEMMA OthersOfferFrame ==
    ASSUME TypeOK, NEW t \in Thread, NEW p, Goto(t, p), UNCHANGED held \/ \E c : Hold(t, c)
    PROVE  OthersOffer(t)' = OthersOffer(t)
<1>1. \A g \in Thread \ {t} : pc'[g] = pc[g] /\ held'[g] = held[g]
  BY DEF Goto, Hold, TypeOK, PCType, LocalType
<1>. QED
  BY <1>1 DEF OthersOffer, Standing

\* What a goroutine holds is neither idle nor offered by another one.
LEMMA HeldApart ==
    ASSUME TypeOK, Owned, NEW t \in Thread, held[t] # None
    PROVE  held[t] \notin Idle \cup OthersOffer(t)
<1>1. held[t] \notin Idle
  <2>1. avail \in [Lang -> Seq(Container)]
    BY DEF TypeOK, PoolType
  <2>. QED
    BY <2>1, IdleMember DEF Owned, HeldNotIdle
<1>2. \A g \in Thread \ {t} : held[g] # held[t]
  BY DEF Owned, HeldOnce
<1>. QED
  BY <1>1, <1>2 DEF OthersOffer

\* A container that is new is offered by nobody.
LEMMA StartedApart ==
    ASSUME NEW l \in Lang, NEW c \in Container, Started(l, c)
    PROVE  c \notin Offered
  BY DEF Started, Fresh, Referenced, Offered

\* The lease a user has in the state of the pool.
LeaseOf(u) == IF pc[u] = "using" THEN held[u] ELSE None

Leases == [u \in User |-> LeaseOf(u)]

\* Who is leased a container holds it, and offers it.
LEMMA LeasedStands ==
    ASSUME TypeOK, NEW u \in User, LeaseOf(u) # None
    PROVE  /\ u \in Thread /\ pc[u] = "using" /\ LeaseOf(u) = held[u] /\ held[u] \in Container
           /\ Standing(u)
<1>1. u \in Thread
  BY ThreadKinds
<1>2. pc[u] = "using"
  BY DEF LeaseOf
<1>. QED
  BY <1>1, <1>2, HeldType DEF LeaseOf, TypeOK, HoldingPC, Standing

\* The leases stay when no user enters or leaves "using".
LEMMA LeaseStays ==
    ASSUME TypeOK, NEW t \in Thread, NEW p, Goto(t, p), UNCHANGED held \/ \E c : Hold(t, c),
           t \notin User \/ (pc[t] # "using" /\ p # "using")
    PROVE  Leases' = Leases
<1>1. \A u \in User : LeaseOf(u)' = LeaseOf(u)
  <2> SUFFICES ASSUME NEW u \in User PROVE LeaseOf(u)' = LeaseOf(u)
    OBVIOUS
  <2>0. u \in Thread
    BY ThreadKinds
  <2>1. CASE u = t
    <3>1. pc'[u] # "using" /\ pc[u] # "using"
      BY <2>1 DEF Goto, TypeOK, PCType
    <3>. QED
      BY <3>1 DEF LeaseOf
  <2>2. CASE u # t
    <3>1. pc'[u] = pc[u] /\ held'[u] = held[u]
      BY <2>0, <2>2 DEF Goto, Hold, TypeOK, PCType, LocalType
    <3>. QED
      BY <3>1 DEF LeaseOf
  <2>. QED
    BY <2>1, <2>2
<1>. QED
  BY <1>1 DEF Leases

\* One user's lease starts or ends, the others keep theirs.
LEMMA LeaseMoves ==
    ASSUME TypeOK, NEW u \in User, NEW p, Goto(u, p), UNCHANGED held \/ \E c : Hold(u, c)
    PROVE  Leases' = [Leases EXCEPT ![u] = IF p = "using" THEN held'[u] ELSE None]
<1>1. u \in Thread /\ User \subseteq Thread
  BY ThreadKinds
<1>2. pc'[u] = p
  BY <1>1 DEF Goto, TypeOK, PCType
<1>3. \A v \in User : v # u => LeaseOf(v)' = LeaseOf(v)
  BY <1>1 DEF Goto, Hold, TypeOK, PCType, LocalType, LeaseOf
<1>4. LeaseOf(u)' = IF p = "using" THEN held'[u] ELSE None
  BY <1>2 DEF LeaseOf
<1>. QED
  BY <1>3, <1>4 DEF Leases

\* The actions of ContainerLease on the pool's state.
LEMMA LeaseActions ==
    ASSUME NEW c, NEW u
    PROVE  /\ Lease!Provide(c) <=> /\ c \notin Offered \cup {Leases[v] : v \in User}
                                   /\ Offered' = Offered \cup {c} /\ Leases' = Leases
           /\ Lease!Withdraw(c) <=> /\ c \in Offered \ {Leases[v] : v \in User}
                                    /\ Offered' = Offered \ {c} /\ Leases' = Leases
           /\ Lease!Grant(u, c) <=> /\ Leases[u] = None
                                    /\ c \in Offered \ {Leases[v] : v \in User}
                                    /\ Leases' = [Leases EXCEPT ![u] = c]
                                    /\ Offered' = Offered
           /\ Lease!Return(u) <=> /\ Leases[u] # None
                                  /\ Leases' = [Leases EXCEPT ![u] = None]
                                  /\ Offered' = Offered
           /\ Lease!Retire(u) <=> /\ Leases[u] # None
                                  /\ Leases' = [Leases EXCEPT ![u] = None]
                                  /\ Offered' = Offered \ {Leases[u]}
           /\ Offered' = Offered /\ Leases' = Leases => UNCHANGED Lease!vars
<1>1. /\ [v \in User |-> IF pc[v] = "using" THEN held[v] ELSE None] = Leases
      /\ [v \in User |-> IF pc'[v] = "using" THEN held'[v] ELSE None] = Leases'
  BY DEF Leases, LeaseOf
<1>. QED
  BY <1>1 DEF Lease!Provide, Lease!Withdraw, Lease!Grant, Lease!Return, Lease!Retire,
              Lease!Leased, Lease!vars

\* A goroutine that is not a user with a lease moves between two points where
\* it offers what it holds, or between two where it does not.
LEMMA LeaseIdles ==
    ASSUME TypeOK, NEW t \in Thread, NEW p, Goto(t, p), UNCHANGED <<avail, held>>,
           Standing(t) <=> p \in HoldingPC \ {"removing"},
           t \notin User \/ (pc[t] # "using" /\ p # "using")
    PROVE  [Lease!Next]_(Lease!vars)
<1>1. pc'[t] = p
  BY DEF Goto, TypeOK, PCType
<1>2. OwnOffer(t)' = OwnOffer(t)
  BY <1>1 DEF OwnOffer, Standing
<1>3. Idle' = Idle /\ OthersOffer(t)' = OthersOffer(t)
  BY OthersOfferFrame DEF Idle
<1>4. Offered' = Offered
  BY <1>2, <1>3, OfferedSplit
<1>. QED
  BY <1>4, LeaseStays, LeaseActions

\* It takes a container out of a channel: it goes on offering it, or withdraws
\* it because the converger will remove it.
LEMMA LeaseTakes ==
    ASSUME TypeOK, Owned, NEW t \in Thread, NEW l \in Lang, Dequeue(t, l),
           NEW p \in HoldingPC \ {"using"}, Goto(t, p), pc[t] \notin HoldingPC
    PROVE  [Lease!Next]_(Lease!vars)
<1> DEFINE h == Head(avail[l])
<1>1. h \in Idle /\ Idle' = Idle \ {h} /\ h \in Container /\ Hold(t, h)
  BY IdleDequeue, DequeueType DEF TypeOK, Owned, Dequeue
<1> HIDE DEF h
<1>2. pc'[t] = p /\ held'[t] = h
  BY <1>1 DEF Goto, Hold, TypeOK, PCType, LocalType
<1>3. OthersOffer(t)' = OthersOffer(t)
  BY <1>1, OthersOfferFrame
<1>4. avail \in [Lang -> Seq(Container)]
  BY DEF TypeOK, PoolType
<1>5. \A g \in Thread : held[g] # h
  BY <1>1, <1>4, IdleMember DEF Owned, HeldNotIdle
<1>6. h \notin OthersOffer(t)
  BY <1>5 DEF OthersOffer
<1>7. OwnOffer(t) = {}
  BY DEF OwnOffer, Standing
<1>8. Leases' = Leases
  BY <1>1, LeaseStays DEF HoldingPC
<1>9. CASE p # "removing"
  <2>1. OwnOffer(t)' = {h}
    BY <1>2, <1>9 DEF OwnOffer, Standing
  <2>2. Offered' = Offered
    BY <1>1, <1>3, <1>7, <2>1, OfferedSplit
  <2>. QED
    BY <1>8, <2>2, LeaseActions
<1>10. CASE p = "removing"
  <2>1. OwnOffer(t)' = {}
    BY <1>2, <1>10 DEF OwnOffer, Standing
  <2>2. Offered' = Offered \ {h} /\ h \in Offered
    BY <1>1, <1>3, <1>6, <1>7, <2>1, OfferedSplit
  <2>3. \A u \in User : Leases[u] # h
    BY <1>1, <1>5, LeasedStands, PoolAssumption DEF Leases
  <2>4. Lease!Withdraw(h)
    BY <1>8, <2>2, <2>3, LeaseActions
  <2>. QED
    BY <1>1, <2>4 DEF Lease!Next
<1>. QED
  BY <1>9, <1>10

\* It removes the container it had withdrawn.
LEMMA LeaseRemoves ==
    ASSUME TypeOK, NEW t \in Thread, pc[t] = "removing", Hold(t, None),
           NEW p, p \notin HoldingPC, Goto(t, p), UNCHANGED avail
    PROVE  [Lease!Next]_(Lease!vars)
<1>1. pc'[t] = p
  BY DEF Goto, TypeOK, PCType
<1>2. OwnOffer(t)' = {} /\ OwnOffer(t) = {}
  BY <1>1 DEF OwnOffer, Standing
<1>3. Idle' = Idle /\ OthersOffer(t)' = OthersOffer(t)
  BY OthersOfferFrame DEF Idle
<1>4. Offered' = Offered
  BY <1>2, <1>3, OfferedSplit
<1>5. Leases' = Leases
  BY LeaseStays DEF HoldingPC
<1>. QED
  BY <1>4, <1>5, LeaseActions

\* It creates one, and offers it from then on.
LEMMA LeaseProvides ==
    ASSUME TypeOK, NEW t \in Thread, pc[t] \notin HoldingPC, NEW l \in Lang,
           NEW c \in Container, Started(l, c), Hold(t, c), Goto(t, "pushing"), UNCHANGED avail
    PROVE  [Lease!Next]_(Lease!vars)
<1>1. pc'[t] = "pushing" /\ held'[t] = c
  BY DEF Goto, Hold, TypeOK, PCType, LocalType
<1>2. OwnOffer(t)' = {c} /\ OwnOffer(t) = {}
  BY <1>1 DEF OwnOffer, Standing, HoldingPC
<1>3. Idle' = Idle /\ OthersOffer(t)' = OthersOffer(t)
  BY OthersOfferFrame DEF Idle
<1>4. Offered' = Offered \cup {c} /\ c \notin Offered
  BY <1>2, <1>3, OfferedSplit, StartedApart
<1>5. Leases' = Leases
  BY LeaseStays DEF HoldingPC
<1>6. \A u \in User : Leases[u] # c
  BY PoolAssumption, LeasedStands DEF Leases, Started, Fresh, Referenced
<1>7. Lease!Provide(c)
  BY <1>4, <1>5, <1>6, LeaseActions
<1>. QED
  BY <1>7 DEF Lease!Next

\* It gives one back - to be offered in the channel, or withdrawn when that is
\* full.
LEMMA LeasePushes ==
    ASSUME TypeOK, Owned, NEW t \in Thread, pc[t] = "pushing", held[t] \in Container,
           NEW l \in Lang, PushOrRemove(l, held[t]), Hold(t, None),
           NEW p, p \notin HoldingPC, Goto(t, p)
    PROVE  [Lease!Next]_(Lease!vars)
<1> DEFINE c == held[t]
<1>1. pc'[t] = p
  BY DEF Goto, TypeOK, PCType
<1>2. OwnOffer(t)' = {} /\ OwnOffer(t) = {c}
  BY <1>1 DEF OwnOffer, Standing, HoldingPC
<1>3. OthersOffer(t)' = OthersOffer(t)
  BY OthersOfferFrame
<1>4. Leases' = Leases
  BY LeaseStays DEF HoldingPC
<1>5. CASE Enqueue(l, c)
  <2>1. Idle' = Idle \cup {c}
    BY <1>5, IdleEnqueue DEF TypeOK
  <2>2. Offered' = Offered
    BY <1>2, <1>3, <2>1, OfferedSplit
  <2>. QED
    BY <1>4, <2>2, LeaseActions
<1>6. CASE UNCHANGED avail
  <2>1. Idle' = Idle
    BY <1>6 DEF Idle
  <2>2. c \notin Idle \cup OthersOffer(t)
    BY HeldApart, PoolAssumption
  <2>3. Offered' = Offered \ {c} /\ c \in Offered
    BY <1>2, <1>3, <2>1, <2>2, OfferedSplit
  <2>4. \A u \in User : Leases[u] # c
    BY LeasedStands, PoolAssumption DEF Leases, Owned, HeldOnce
  <2>5. Lease!Withdraw(c)
    BY <1>4, <2>3, <2>4, LeaseActions
  <2>. QED
    BY <2>5 DEF Lease!Next
<1>. QED
  BY <1>5, <1>6 DEF PushOrRemove

\* Every step of a user is a step of ContainerLease: the registration grants the
\* lease, Release and Discard end it.
LEMMA LeaseUser ==
    ASSUME TypeOK, Owned, InUseExact, NEW u \in User, UserStep(u)
    PROVE  [Lease!Next]_(Lease!vars)
<1>0. u \in Thread /\ lang[u] \in Lang /\ (held[u] # None <=> pc[u] \in HoldingPC)
  BY ThreadKinds DEF TypeOK, LocalType
<1>a. pc[u] \in HoldingPC => held[u] \in Container
  BY <1>0, HeldType DEF TypeOK
<1>b. Leases[u] = IF pc[u] = "using" THEN held[u] ELSE None
  BY DEF Leases, LeaseOf
<1>1. ASSUME (\E l \in Lang : AcquireStart(u, l)) \/ AcquireTimeout(u)
      PROVE  [Lease!Next]_(Lease!vars)
  BY <1>0, <1>1, LeaseIdles DEF AcquireStart, AcquireTimeout, Standing, HoldingPC
<1>2. ASSUME AcquireReceive(u) PROVE [Lease!Next]_(Lease!vars)
  BY <1>0, <1>2, LeaseTakes DEF AcquireReceive, HoldingPC
<1>3. ASSUME AcquireRegister(u) PROVE [Lease!Next]_(Lease!vars)
  <2>1. Leases' = [Leases EXCEPT ![u] = held[u]] /\ Leases[u] = None
    BY <1>b, <1>3, LeaseMoves DEF AcquireRegister
  <2>2. pc'[u] = "using" /\ held' = held /\ held[u] \in Container
    BY <1>0, <1>a, <1>3 DEF AcquireRegister, Goto, TypeOK, PCType, HoldingPC
  <2>3. OwnOffer(u)' = {held[u]} /\ OwnOffer(u) = {held[u]}
    BY <1>3, <2>2 DEF OwnOffer, Standing, HoldingPC, AcquireRegister
  <2>4. Idle' = Idle /\ OthersOffer(u)' = OthersOffer(u)
    BY <1>0, <1>3, OthersOfferFrame DEF Idle, AcquireRegister
  <2>5. Offered' = Offered /\ held[u] \in Offered
    BY <1>0, <2>3, <2>4, OfferedSplit
  <2>6. \A v \in User : Leases[v] # held[u]
    BY <1>0, <1>b, <1>3, <2>2, LeasedStands, PoolAssumption
    DEF Leases, Owned, HeldOnce, AcquireRegister
  <2>7. PICK c \in Container : c = held[u]
    BY <2>2
  <2>8. Lease!Grant(u, c)
    <3>1. Leases[u] = None /\ Leases' = [Leases EXCEPT ![u] = c]
      BY <2>1, <2>7
    <3>2. c \in Offered \ {Leases[v] : v \in User} /\ Offered' = Offered
      BY <2>5, <2>6, <2>7
    <3>. QED
      BY <3>1, <3>2, LeaseActions
  <2>. QED
    BY <2>8 DEF Lease!Next
<1>4. ASSUME pc[u] = "using", NEW p, p \notin HoldingPC \ {"removing"}, Goto(u, p),
             UNCHANGED held \/ Hold(u, None)
      PROVE  /\ Leases' = [Leases EXCEPT ![u] = None] /\ Leases[u] = held[u] /\ held[u] # None
             /\ OthersOffer(u)' = OthersOffer(u)
             /\ OwnOffer(u) = {held[u]} /\ OwnOffer(u)' = {}
             /\ held[u] \notin Idle \cup OthersOffer(u)
  <2>1. pc'[u] = p /\ held[u] # None
    BY <1>0, <1>4 DEF Goto, TypeOK, PCType, HoldingPC
  <2>2. OwnOffer(u) = {held[u]} /\ OwnOffer(u)' = {}
    BY <1>4, <2>1 DEF OwnOffer, Standing, HoldingPC
  <2>3. Leases' = [Leases EXCEPT ![u] = None]
    BY <1>4, LeaseMoves DEF HoldingPC
  <2>. QED
    BY <1>0, <1>b, <1>4, <2>1, <2>2, <2>3, OthersOfferFrame, HeldApart
<1>5. ASSUME Release(u) PROVE [Lease!Next]_(Lease!vars)
  <2>1. /\ Leases' = [Leases EXCEPT ![u] = None] /\ Leases[u] = held[u] /\ held[u] # None
        /\ OthersOffer(u)' = OthersOffer(u)
        /\ OwnOffer(u) = {held[u]} /\ OwnOffer(u)' = {}
        /\ held[u] \notin Idle \cup OthersOffer(u)
    BY <1>4, <1>5 DEF Release, HoldingPC
  <2>2. held[u] \in Container /\ LangOf[held[u]] \in Lang /\ held[u] \in inUse
    BY <1>a, <1>5, PoolAssumption DEF Release, HoldingPC, InUseExact
  <2>3. CASE Enqueue(LangOf[held[u]], held[u])
    <3>1. Offered' = Offered
      <4>1. Idle' = Idle \cup {held[u]}
        BY <2>2, <2>3, IdleEnqueue DEF TypeOK
      <4>. QED
        BY <1>0, <2>1, <4>1, OfferedSplit
    <3>2. Lease!Return(u)
      BY <2>1, <3>1, LeaseActions
    <3>. QED
      BY <3>2 DEF Lease!Next
  <2>4. CASE UNCHANGED avail
    <3>1. Offered' = Offered \ {held[u]}
      <4>1. Idle' = Idle
        BY <2>4 DEF Idle
      <4>. QED
        BY <1>0, <2>1, <4>1, OfferedSplit
    <3>2. Lease!Retire(u)
      BY <2>1, <3>1, LeaseActions
    <3>. QED
      BY <3>2 DEF Lease!Next
  <2>. QED
    BY <1>5, <2>2, <2>3, <2>4 DEF Release, PushOrRemove
<1>6. ASSUME DiscardBegin(u) PROVE [Lease!Next]_(Lease!vars)
  <2>1. held[u] \in inUse
    BY <1>a, <1>6 DEF DiscardBegin, HoldingPC, InUseExact
  <2>2. /\ Leases' = [Leases EXCEPT ![u] = None] /\ Leases[u] = held[u] /\ held[u] # None
        /\ OthersOffer(u)' = OthersOffer(u)
        /\ OwnOffer(u) = {held[u]} /\ OwnOffer(u)' = {}
        /\ held[u] \notin Idle \cup OthersOffer(u)
    BY <1>4, <1>6, <2>1 DEF DiscardBegin, HoldingPC
  <2>3. Offered' = Offered \ {held[u]}
    <3>1. Idle' = Idle
      BY <1>6 DEF Idle, DiscardBegin
    <3>. QED
      BY <1>0, <2>2, <3>1, OfferedSplit
  <2>4. Lease!Retire(u)
    BY <2>2, <2>3, LeaseActions
  <2>. QED
    BY <2>4 DEF Lease!Next
<1>7. ASSUME DiscardRemove(u) PROVE [Lease!Next]_(Lease!vars)
  BY <1>0, <1>7, LeaseRemoves DEF DiscardRemove, HoldingPC
<1>8. ASSUME DiscardReplace(u) PROVE [Lease!Next]_(Lease!vars)
  <2>1. CASE \E c \in Container : Started(lang[u], c) /\ Hold(u, c) /\ Goto(u, "pushing")
    BY <1>0, <1>8, <2>1, LeaseProvides DEF DiscardReplace, HoldingPC
  <2>2. CASE Goto(u, "idle") /\ UNCHANGED <<docker, held>>
    BY <1>0, <1>8, <2>2, LeaseIdles DEF DiscardReplace, HoldingPC, Standing
  <2>. QED
    BY <1>8, <2>1, <2>2 DEF DiscardReplace
<1>9. ASSUME DiscardPush(u) PROVE [Lease!Next]_(Lease!vars)
  BY <1>0, <1>a, <1>9, LeasePushes DEF DiscardPush, HoldingPC
<1>. QED
  BY <1>1, <1>2, <1>3, <1>5, <1>6, <1>7, <1>8, <1>9 DEF UserStep

\* So is every step of a background goroutine: it withdraws and provides.
LEMMA LeaseMonitor ==
    ASSUME TypeOK, Owned, MonitorStep
    PROVE  [Lease!Next]_(Lease!vars)
<1> DEFINE m == "monitor"
<1>0. m \in Thread /\ lang[m] \in Lang /\ m \notin User
  BY ThreadKinds DEF TypeOK, LocalType
<1>a. pc[m] \in HoldingPC => held[m] \in Container
  BY <1>0, HeldType DEF TypeOK
<1>1. ASSUME NEW l \in Lang, MonitorVisit(l) PROVE [Lease!Next]_(Lease!vars)
  BY <1>0, <1>1, LeaseIdles DEF MonitorVisit, Visit, Standing, HoldingPC
<1>2. ASSUME MonitorTake PROVE [Lease!Next]_(Lease!vars)
  <2>1. CASE Dequeue(m, lang[m]) /\ Goto(m, "inspecting")
    BY <1>0, <1>2, <2>1, LeaseTakes DEF MonitorTake, HoldingPC
  <2>2. CASE NextIteration(m, "probing") /\ UNCHANGED <<avail, held>>
    BY <1>0, <1>2, <2>2, LeaseIdles DEF MonitorTake, NextIteration, HoldingPC, Standing
  <2>. QED
    BY <1>2, <2>1, <2>2 DEF MonitorTake
<1>3. ASSUME MonitorInspect PROVE [Lease!Next]_(Lease!vars)
  <2>1. CASE Goto(m, "pushing")
    BY <1>0, <1>3, <2>1, LeaseIdles DEF MonitorInspect, HoldingPC, Standing
  <2>2. CASE Goto(m, "removing")
    <3>1. pc'[m] = "removing" /\ held' = held /\ held[m] \in Container /\ pc[m] = "inspecting"
      BY <1>0, <1>a, <1>3, <2>2 DEF MonitorInspect, Goto, TypeOK, PCType, HoldingPC
    <3>2. OwnOffer(m) = {held[m]} /\ OwnOffer(m)' = {}
      BY <3>1 DEF OwnOffer, Standing, HoldingPC
    <3>3. Idle' = Idle /\ OthersOffer(m)' = OthersOffer(m)
      BY <1>0, <1>3, <2>2, OthersOfferFrame DEF Idle, MonitorInspect
    <3>4. held[m] \notin Idle \cup OthersOffer(m)
      BY <1>0, <3>1, HeldApart, PoolAssumption
    <3>5. Offered' = Offered \ {held[m]} /\ held[m] \in Offered
      BY <1>0, <3>2, <3>3, <3>4, OfferedSplit
    <3>6. Leases' = Leases
      BY <1>0, <2>2, <3>1, LeaseStays
    <3>7. \A u \in User : Leases[u] # held[m]
      BY <1>0, <3>1, LeasedStands, PoolAssumption DEF Leases, Owned, HeldOnce
    <3>8. Lease!Withdraw(held[m])
      BY <3>5, <3>6, <3>7, LeaseActions
    <3>. QED
      BY <3>1, <3>8 DEF Lease!Next
  <2>. QED
    BY <1>3, <2>1, <2>2 DEF MonitorInspect
<1>4. ASSUME MonitorRemove PROVE [Lease!Next]_(Lease!vars)
  BY <1>0, <1>4, LeaseRemoves DEF MonitorRemove, HoldingPC
<1>5. ASSUME MonitorReplace PROVE [Lease!Next]_(Lease!vars)
  <2>1. CASE (\E c \in Container : Started(lang[m], c) /\ Hold(m, c)) /\ Goto(m, "pushing")
    BY <1>0, <1>5, <2>1, LeaseProvides DEF MonitorReplace, HoldingPC
  <2>2. CASE NextIteration(m, "probing") /\ UNCHANGED <<docker, held>>
    BY <1>0, <1>5, <2>2, LeaseIdles DEF MonitorReplace, NextIteration, HoldingPC, Standing
  <2>. QED
    BY <1>5, <2>1, <2>2 DEF MonitorReplace
<1>6. ASSUME MonitorPush PROVE [Lease!Next]_(Lease!vars)
  BY <1>0, <1>a, <1>6, LeasePushes DEF MonitorPush, NextIteration, HoldingPC
<1>. QED
  BY <1>1, <1>2, <1>3, <1>4, <1>5, <1>6 DEF MonitorStep

LEMMA LeaseConverge ==
    ASSUME TypeOK, Owned, NEW t \in Converger, ConvergeStep(t)
    PROVE  [Lease!Next]_(Lease!vars)
<1>0. t \in Thread /\ lang[t] \in Lang /\ t \notin User
  BY ThreadKinds DEF TypeOK, LocalType
<1>a. pc[t] \in HoldingPC => held[t] \in Container
  BY <1>0, HeldType DEF TypeOK
<1>1. ASSUME ConvergeCreate(t) PROVE [Lease!Next]_(Lease!vars)
  <2>1. CASE (\E c \in Container : Started(lang[t], c) /\ Hold(t, c)) /\ Goto(t, "pushing")
    BY <1>0, <1>1, <2>1, LeaseProvides DEF ConvergeCreate, HoldingPC
  <2>2. CASE Goto(t, "scanning") /\ UNCHANGED <<docker, held>>
    BY <1>0, <1>1, <2>2, LeaseIdles DEF ConvergeCreate, HoldingPC, Standing
  <2>. QED
    BY <1>1, <2>1, <2>2 DEF ConvergeCreate
<1>2. ASSUME ConvergePush(t) PROVE [Lease!Next]_(Lease!vars)
  BY <1>0, <1>a, <1>2, LeasePushes DEF ConvergePush, NextIteration, HoldingPC
<1>3. ASSUME ConvergeShrink(t) PROVE [Lease!Next]_(Lease!vars)
  <2>1. CASE Dequeue(t, lang[t]) /\ Goto(t, "removing")
    BY <1>0, <1>3, <2>1, LeaseTakes DEF ConvergeShrink, HoldingPC
  <2>2. CASE NextIteration(t, "shrinking") /\ UNCHANGED <<avail, held>>
    BY <1>0, <1>3, <2>2, LeaseIdles DEF ConvergeShrink, NextIteration, HoldingPC, Standing
  <2>. QED
    BY <1>3, <2>1, <2>2 DEF ConvergeShrink
<1>4. ASSUME ConvergeRemove(t) PROVE [Lease!Next]_(Lease!vars)
  BY <1>0, <1>4, LeaseRemoves DEF ConvergeRemove, NextIteration, HoldingPC
<1>. QED
  BY <1>1, <1>2, <1>3, <1>4 DEF ConvergeStep

\* Warming up provides a container; nothing else here touches what is offered.
LEMMA LeaseRest ==
    ASSUME TypeOK,
           \/ \E l \in Lang : WarmUpCreate(l) \/ WarmUpFail(l)
           \/ \E t \in Goroutines : Tick(t) \/ TickEnd(t)
           \/ \E l \in Lang : ReconcilerVisit(l)
           \/ AutoscalerStep
           \/ \E c \in Container : Exit(c) \/ OrphanGC(c)
    PROVE  [Lease!Next]_(Lease!vars)
<1>0. \A t \in Goroutines : t \in Thread /\ t \notin User
  BY ThreadKinds
<1>a. "reconciler" \in Goroutines /\ "autoscaler" \in Goroutines
  BY ThreadKinds
<1>1. ASSUME NEW l \in Lang, WarmUpCreate(l) PROVE [Lease!Next]_(Lease!vars)
  <2>1. PICK c \in Container : Started(l, c) /\ Enqueue(l, c)
    BY <1>1 DEF WarmUpCreate
  <2>2. Idle' = Idle \cup {c}
    BY <2>1, IdleEnqueue DEF TypeOK
  <2>3. pc' = pc /\ held' = held
    BY <1>1 DEF WarmUpCreate
  <2>4. Offered' = Offered \cup {c} /\ c \notin Offered
    BY <2>1, <2>2, <2>3, StartedApart DEF Offered
  <2>5. Leases' = Leases
    BY <2>3 DEF Leases, LeaseOf
  <2>6. \A u \in User : Leases[u] # c
    BY <2>1, PoolAssumption, LeasedStands DEF Leases, Started, Fresh, Referenced
  <2>7. Lease!Provide(c)
    BY <2>4, <2>5, <2>6, LeaseActions
  <2>. QED
    BY <2>7 DEF Lease!Next
<1>2. ASSUME UNCHANGED <<avail, pc, held>> PROVE [Lease!Next]_(Lease!vars)
  <2>1. Offered' = Offered /\ Leases' = Leases
    BY <1>2 DEF Offered, Idle, Leases, LeaseOf
  <2>. QED
    BY <2>1, LeaseActions
<1>3. ASSUME NEW t \in Goroutines, NEW p, p \notin HoldingPC, pc[t] \notin HoldingPC,
             Goto(t, p), UNCHANGED <<avail, held>>
      PROVE  [Lease!Next]_(Lease!vars)
  BY <1>0, <1>3, LeaseIdles DEF Standing
<1>4. ASSUME NEW t \in Goroutines, Tick(t) \/ TickEnd(t) PROVE [Lease!Next]_(Lease!vars)
  BY <1>3, <1>4 DEF Tick, TickEnd, HoldingPC
<1>5. ASSUME NEW l \in Lang, ReconcilerVisit(l) PROVE [Lease!Next]_(Lease!vars)
  BY <1>a, <1>3, <1>5 DEF ReconcilerVisit, Visit, ConvergeCount, HoldingPC
<1>6. ASSUME AutoscalerStep PROVE [Lease!Next]_(Lease!vars)
  <2>1. ASSUME NEW l \in Lang, AutoscalerVisit(l) PROVE [Lease!Next]_(Lease!vars)
    <3>1. \E p \in {"deciding", "scanning"} : Goto("autoscaler", p)
      BY <2>1 DEF AutoscalerVisit
    <3>. QED
      BY <1>a, <1>3, <2>1, <3>1 DEF AutoscalerVisit, Visit, HoldingPC
  <2>2. ASSUME AutoscalerStore PROVE [Lease!Next]_(Lease!vars)
    BY <1>a, <1>3, <2>2 DEF AutoscalerStore, HoldingPC
  <2>3. ASSUME AutoscalerConverge PROVE [Lease!Next]_(Lease!vars)
    BY <1>a, <1>3, <2>3 DEF AutoscalerConverge, ConvergeCount, HoldingPC
  <2>. QED
    BY <1>6, <2>1, <2>2, <2>3 DEF AutoscalerStep
<1>7. ASSUME \/ \E l \in Lang : WarmUpFail(l)
             \/ \E c \in Container : Exit(c) \/ OrphanGC(c)
      PROVE  UNCHANGED <<avail, pc, held>>
  BY <1>7 DEF WarmUpFail, Exit, OrphanGC
<1>. QED
  BY <1>1, <1>2, <1>4, <1>5, <1>6, <1>7

\* The pool keeps the promise of ContainerLease, with any number of users,
\* languages, containers and background goroutines, and also when Docker
\* refuses to remove containers: one lease per container, granted only while it
\* is offered, and none any more after a discard until it is provided anew.
THEOREM PoolKeepsLeases == Spec => LeaseSpec
<1>1. Init => Lease!Init
  <2> SUFFICES ASSUME Init PROVE Lease!Init
    OBVIOUS
  <2>1. Idle = {}
    BY DEF Init, Idle, ToSet
  <2>2. \A t \in Thread : pc[t] = "idle"
    BY DEF Init
  <2>3. Offered = {}
    BY <2>1, <2>2 DEF Offered, HoldingPC
  <2>4. \A u \in User : pc[u] # "using"
    BY <2>2, ThreadKinds
  <2>. QED
    BY <2>3, <2>4 DEF Lease!Init
<1>2. ExclusiveOwnership => Owned /\ InUseExact
  BY DEF ExclusiveOwnership, Owned
<1>3. TypeOK /\ ExclusiveOwnership /\ [Next]_vars => [Lease!Next]_(Lease!vars)
  <2> SUFFICES ASSUME TypeOK, Owned, InUseExact, [Next]_vars
               PROVE  [Lease!Next]_(Lease!vars)
    BY <1>2
  <2>1. CASE UNCHANGED vars
    <3>1. Offered' = Offered /\ Leases' = Leases
      BY <2>1 DEF vars, Offered, Idle, Leases, LeaseOf
    <3>. QED
      BY <3>1, LeaseActions
  <2>2. CASE Next
    BY <2>2, LeaseUser, LeaseMonitor, LeaseConverge, LeaseRest DEF Next
  <2>. QED
    BY <2>1, <2>2
<1>. QED
  BY <1>1, <1>3, TypeCorrect, OwnershipIsExclusive, PTL DEF Spec, LeaseSpec, Lease!Spec
=============================================================================
