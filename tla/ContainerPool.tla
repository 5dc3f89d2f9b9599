--------------------------- MODULE ContainerPool ---------------------------
(***************************************************************************)
(* The judge's pool of pre-warmed Docker containers, pkg/pool/pool.go.     *)
(*                                                                         *)
(* Idle containers of a language wait in that language's buffered channel; *)
(* a container handed to a submission worker or an HTTP handler (a User)   *)
(* is entered in inUse.  Four background goroutines work on the same       *)
(* channels without holding the mutex for longer than a map access: the    *)
(* health monitor, the reconciler, the autoscaler and the orphan GC.       *)
(* A container that some goroutine has taken out of a channel and not yet  *)
(* put anywhere is in that goroutine's local variable, held[t]: it is in   *)
(* neither place the code counts.                                          *)
(*                                                                         *)
(* One action is what a goroutine does between two points where another    *)
(* one can run: a critical section, a channel operation or a Docker call.  *)
(***************************************************************************)
EXTENDS Naturals, Sequences, FiniteSets, SequencesExt, ScaleDecision

CONSTANTS
    Lang,           \* languages
    Container,      \* container ids Docker may assign
    LangOf,         \* the language an id will be created for
    User,           \* submission workers and /run, /raw-run handlers
    Background,     \* the background goroutines that are started
    MinSize,        \* LangLimits.Min of each language
    MaxSize,        \* LangLimits.Max of each language
    GlobalCap,      \* globalCap
    Loads,          \* load signals an autoscaler tick may observe
    RemoveMayFail,  \* may Docker refuse to remove a container?
    None            \* no container

Goroutines == {"monitor", "reconciler", "autoscaler"}

Thread == User \cup Goroutines

\* resolvePoolConfig makes 1 <= Min <= Max; main refuses to start when the
\* minimums do not fit in globalCap (not needed here: no property uses it
\* unless it says so).
ASSUME PoolAssumption ==
    /\ LangOf \in [Container -> Lang]
    /\ IsFiniteSet(Container)      \* 64 hexadecimal digits
    /\ None \notin Container
    /\ User \cap Goroutines = {}
    /\ Background \subseteq Goroutines
    /\ MinSize \in [Lang -> Nat] /\ MaxSize \in [Lang -> Nat]
    /\ \A l \in Lang : MinSize[l] <= MaxSize[l]
    /\ GlobalCap \in Nat
    /\ Loads \subseteq Load
    /\ RemoveMayFail \in BOOLEAN

VARIABLES
    avail,     \* availChans: the idle containers of each language, in order
    inUse,     \* inUse: the containers registered as handed out
    targets,   \* targets: the size each language is converging to
    docker,    \* what Docker knows of each id
    warming,   \* containers WarmUp still has to create, per language
    pc,        \* where each goroutine is
    lang,      \* the language it works on
    held,      \* the container in its local variable, if any
    todo,      \* iterations left in its inner loop
    langs,     \* languages left in its tick
    decided    \* the target the autoscaler computed and has not yet stored

vars == <<avail, inUse, targets, docker, warming,
          pc, lang, held, todo, langs, decided>>
shared == <<inUse, targets, warming>>
loop == <<lang, todo, langs, decided>>

-----------------------------------------------------------------------------
(* Helpers *)

Idle == UNION {ToSet(avail[l]) : l \in Lang}

\* Reachable from the process at all: idle, handed out or in a local variable.
Referenced == Idle \cup inUse \cup {held[t] : t \in Thread}

\* Docker never assigns an id twice; an id nothing refers to stands for a new one.
Fresh(l) == {c \in Container : /\ LangOf[c] = l
                               /\ docker[c] = "none"
                               /\ c \notin Referenced}

InUseCount(l) == Cardinality({c \in inUse : LangOf[c] = l})

LiveCount(l) == InUseCount(l) + Len(avail[l])

GlobalLiveTotal ==
    Cardinality(inUse) + FoldFunction(LAMBDA s, n : Len(s) + n, 0, avail)

Goto(t, p) == pc' = [pc EXCEPT ![t] = p]

Hold(t, c) == held' = [held EXCEPT ![t] = c]

\* ch <- c, guarded by select/default; the caller says what default does.
Enqueue(l, c) == /\ Len(avail[l]) < MaxSize[l]
                 /\ avail' = [avail EXCEPT ![l] = Append(@, c)]

\* Defect: a receive that does not take the container out of the channel.
DequeueBySharing(t, l) == avail[l] # <<>> /\ Hold(t, Head(avail[l])) /\ UNCHANGED avail

\* case c := <-ch
Dequeue(t, l) == /\ avail[l] # <<>>
                 /\ Hold(t, Head(avail[l]))
                 /\ avail' = [avail EXCEPT ![l] = Tail(@)]

\* removeContainer: the error of RemoveContainer is dropped.
RemoveContainer(c) ==
    \/ docker' = [docker EXCEPT ![c] = "none"]
    \/ RemoveMayFail /\ UNCHANGED docker

\* Defect: the default branch forgets the container.
PushOrForget(l, c) ==
    \/ Enqueue(l, c) /\ UNCHANGED docker
    \/ Len(avail[l]) = MaxSize[l] /\ UNCHANGED <<avail, docker>>

\* A container goes back into its channel, or is removed when that is full.
PushOrRemove(l, c) ==
    \/ Enqueue(l, c) /\ UNCHANGED docker
    \/ Len(avail[l]) = MaxSize[l] /\ RemoveContainer(c) /\ UNCHANGED avail

\* newPooledContainer: Docker creates and starts a container for l.
Started(l, c) == /\ c \in Fresh(l)
                 /\ docker' = [docker EXCEPT ![c] = "running"]

\* Defect: the loop runs once too often.
OneIterationMore(t, again) ==
    /\ todo' = [todo EXCEPT ![t] = @ - 1]
    /\ Goto(t, IF todo[t] = 0 THEN "scanning" ELSE again)

\* The inner loop of t has done one more iteration.
NextIteration(t, again) ==
    /\ todo' = [todo EXCEPT ![t] = @ - 1]
    /\ Goto(t, IF todo[t] = 1 THEN "scanning" ELSE again)

\* main starts everything below only after every WarmUp has returned.
WarmedUp == \A l \in Lang : warming[l] = 0

Init ==
    /\ avail = [l \in Lang |-> <<>>]
    /\ inUse = {}
    /\ targets = MinSize
    /\ docker = [c \in Container |-> "none"]
    /\ warming = MinSize
    /\ pc = [t \in Thread |-> "idle"]
    /\ lang \in [Thread -> Lang] /\ \A t, u \in Thread : lang[t] = lang[u]
    /\ held = [t \in Thread |-> None]
    /\ todo = [t \in Thread |-> 0]
    /\ langs = [t \in Thread |-> {}]
    /\ decided = 0

-----------------------------------------------------------------------------
(* WarmUp: one goroutine per language, before anything else runs. *)

WarmUpCreate(l) ==
    /\ warming[l] > 0
    /\ \E c \in Container : Started(l, c) /\ Enqueue(l, c)
    /\ warming' = [warming EXCEPT ![l] = @ - 1]
    /\ UNCHANGED <<inUse, targets, pc, held, loop>>

\* An image that cannot be pulled or a container that cannot be created ends
\* this language's WarmUp; main logs it and goes on with a short pool.
WarmUpFail(l) ==
    /\ warming[l] > 0
    /\ warming' = [warming EXCEPT ![l] = 0]
    /\ UNCHANGED <<avail, inUse, targets, docker, pc, held, loop>>

-----------------------------------------------------------------------------
(* Acquire, Release and Discard *)

\* Acquire reads the channel of its language and starts to wait on it.
AcquireStart(u, l) ==
    /\ WarmedUp /\ pc[u] = "idle"
    /\ Goto(u, "waiting")
    /\ lang' = [lang EXCEPT ![u] = l]
    /\ UNCHANGED <<avail, docker, shared, held, todo, langs, decided>>

AcquireReceive(u) ==
    /\ pc[u] = "waiting"
    /\ Dequeue(u, lang[u])
    /\ Goto(u, "taking")
    /\ UNCHANGED <<docker, shared, loop>>

\* The container is registered in a critical section of its own, after the receive.
AcquireRegister(u) ==
    /\ pc[u] = "taking"
    /\ inUse' = inUse \cup {held[u]}
    /\ Goto(u, "using")
    /\ UNCHANGED <<avail, docker, targets, warming, held, loop>>

AcquireTimeout(u) ==
    /\ pc[u] = "waiting"
    /\ Goto(u, "idle")
    /\ UNCHANGED <<avail, docker, shared, held, loop>>

\* One critical section: out of inUse and into the channel.  A container that
\* is not in inUse is left alone.
Release(u) ==
    /\ pc[u] = "using"
    /\ Hold(u, None) /\ Goto(u, "idle")
    /\ inUse' = inUse \ {held[u]}
    /\ IF held[u] \in inUse
         THEN PushOrRemove(LangOf[held[u]], held[u])
         ELSE UNCHANGED <<avail, docker>>
    /\ UNCHANGED <<targets, warming, loop>>

\* Discard first takes the container out of inUse ...
DiscardBegin(u) ==
    /\ pc[u] = "using"
    /\ inUse' = inUse \ {held[u]}
    /\ IF held[u] \in inUse
         THEN Goto(u, "removing") /\ UNCHANGED held
         ELSE Goto(u, "idle") /\ Hold(u, None)
    /\ UNCHANGED <<avail, docker, targets, warming, loop>>

\* ... then removes it, outside the mutex ...
DiscardRemove(u) ==
    /\ pc[u] = "removing"
    /\ RemoveContainer(held[u])
    /\ Hold(u, None) /\ Goto(u, "replacing")
    /\ UNCHANGED <<avail, shared, loop>>

\* ... and creates a replacement; when that fails the pool is one short.
DiscardReplace(u) ==
    /\ pc[u] = "replacing"
    /\ \/ \E c \in Container : /\ Started(lang[u], c)
                               /\ Hold(u, c) /\ Goto(u, "pushing")
       \/ Goto(u, "idle") /\ UNCHANGED <<docker, held>>
    /\ UNCHANGED <<avail, shared, loop>>

DiscardPush(u) ==
    /\ pc[u] = "pushing"
    /\ PushOrRemove(lang[u], held[u])
    /\ Hold(u, None) /\ Goto(u, "idle")
    /\ UNCHANGED <<shared, loop>>

UserStep(u) ==
    \/ \E l \in Lang : AcquireStart(u, l)
    \/ AcquireReceive(u) \/ AcquireRegister(u) \/ AcquireTimeout(u)
    \/ Release(u)
    \/ DiscardBegin(u) \/ DiscardRemove(u) \/ DiscardReplace(u) \/ DiscardPush(u)

-----------------------------------------------------------------------------
(* Ticks: every background goroutine visits all languages, in map order. *)

Tick(t) ==
    /\ WarmedUp /\ t \in Background /\ pc[t] = "idle"
    /\ Goto(t, "scanning")
    /\ langs' = [langs EXCEPT ![t] = Lang]
    /\ UNCHANGED <<avail, docker, shared, held, lang, todo, decided>>

TickEnd(t) ==
    /\ pc[t] = "scanning" /\ langs[t] = {}
    /\ Goto(t, "idle")
    /\ UNCHANGED <<avail, docker, shared, held, loop>>

Visit(t, l) ==
    /\ pc[t] = "scanning" /\ l \in langs[t]
    /\ langs' = [langs EXCEPT ![t] = @ \ {l}]
    /\ lang' = [lang EXCEPT ![t] = l]

-----------------------------------------------------------------------------
(* checkHealth *)

\* count := len(ch) bounds the loop; it is not read again.
MonitorVisit(l) ==
    /\ Visit("monitor", l)
    /\ todo' = [todo EXCEPT !["monitor"] = Len(avail[l])]
    /\ Goto("monitor", IF avail[l] = <<>> THEN "scanning" ELSE "probing")
    /\ UNCHANGED <<avail, docker, shared, held, decided>>

MonitorTake ==
    LET l == lang["monitor"]
    IN  /\ pc["monitor"] = "probing"
        /\ \/ /\ Dequeue("monitor", l) /\ Goto("monitor", "inspecting")
              /\ UNCHANGED todo
           \/ /\ avail[l] = <<>> /\ NextIteration("monitor", "probing")
              /\ UNCHANGED <<avail, held>>
        /\ UNCHANGED <<docker, shared, lang, langs, decided>>

\* Defect: whatever exists counts as healthy.
MonitorInspectNothing ==
    /\ pc["monitor"] = "inspecting"
    /\ Goto("monitor", "pushing")
    /\ UNCHANGED <<avail, docker, shared, held, loop>>

\* isContainerHealthy; an inspection that fails counts as unhealthy.
MonitorInspect ==
    /\ pc["monitor"] = "inspecting"
    /\ \/ docker[held["monitor"]] = "running" /\ Goto("monitor", "pushing")
       \/ Goto("monitor", "removing")
    /\ UNCHANGED <<avail, docker, shared, held, loop>>

MonitorRemove ==
    /\ pc["monitor"] = "removing"
    /\ RemoveContainer(held["monitor"])
    /\ Hold("monitor", None) /\ Goto("monitor", "replacing")
    /\ UNCHANGED <<avail, shared, loop>>

MonitorReplace ==
    /\ pc["monitor"] = "replacing"
    /\ \/ /\ \E c \in Container : Started(lang["monitor"], c) /\ Hold("monitor", c)
          /\ Goto("monitor", "pushing") /\ UNCHANGED todo
       \/ NextIteration("monitor", "probing") /\ UNCHANGED <<docker, held>>
    /\ UNCHANGED <<avail, shared, lang, langs, decided>>

\* The inspected container or its replacement goes (back) into the channel.
MonitorPush ==
    /\ pc["monitor"] = "pushing"
    /\ PushOrRemove(lang["monitor"], held["monitor"])
    /\ Hold("monitor", None) /\ NextIteration("monitor", "probing")
    /\ UNCHANGED <<shared, lang, langs, decided>>

MonitorStep ==
    \/ \E l \in Lang : MonitorVisit(l)
    \/ MonitorTake \/ MonitorInspect \/ MonitorRemove \/ MonitorReplace \/ MonitorPush

-----------------------------------------------------------------------------
(* convergeLang, run by the reconciler for every language and by the       *)
(* autoscaler for a language whose target it changed.                      *)

\* Defect: a language one container short is left as it is.
ConvergeCountShort(t, l) ==
    LET current == LiveCount(l)
        target  == targets[l]
    IN  \/ /\ current + 1 < target /\ Goto(t, "creating")
           /\ todo' = [todo EXCEPT ![t] = target - current]
        \/ /\ current > target /\ Goto(t, "shrinking")
           /\ todo' = [todo EXCEPT ![t] = current - target]
        \/ /\ current \in {target, target - 1} /\ Goto(t, "scanning")
           /\ UNCHANGED todo

\* The counts are read in one critical section and acted on after it.
ConvergeCount(t, l) ==
    LET current == LiveCount(l)
        target  == targets[l]
    IN  \/ /\ current < target /\ Goto(t, "creating")
           /\ todo' = [todo EXCEPT ![t] = target - current]
        \/ /\ current > target /\ Goto(t, "shrinking")
           /\ todo' = [todo EXCEPT ![t] = current - target]
        \/ /\ current = target /\ Goto(t, "scanning")
           /\ UNCHANGED todo

ReconcilerVisit(l) ==
    /\ Visit("reconciler", l)
    /\ ConvergeCount("reconciler", l)
    /\ UNCHANGED <<avail, docker, shared, held, decided>>

\* A failed create breaks out of the loop.
ConvergeCreate(t) ==
    /\ pc[t] = "creating"
    /\ \/ /\ \E c \in Container : Started(lang[t], c) /\ Hold(t, c)
          /\ Goto(t, "pushing") /\ UNCHANGED todo
       \/ /\ Goto(t, "scanning") /\ todo' = [todo EXCEPT ![t] = 0]
          /\ UNCHANGED <<docker, held>>
    /\ UNCHANGED <<avail, shared, lang, langs, decided>>

\* Under the mutex.
ConvergePush(t) ==
    /\ pc[t] = "pushing"
    /\ PushOrRemove(lang[t], held[t])
    /\ Hold(t, None) /\ NextIteration(t, "creating")
    /\ UNCHANGED <<shared, lang, langs, decided>>

\* Only idle containers are taken; an empty channel just uses up the iteration.
ConvergeShrink(t) ==
    /\ pc[t] = "shrinking"
    /\ \/ Dequeue(t, lang[t]) /\ Goto(t, "removing") /\ UNCHANGED todo
       \/ /\ avail[lang[t]] = <<>> /\ NextIteration(t, "shrinking")
          /\ UNCHANGED <<avail, held>>
    /\ UNCHANGED <<docker, shared, lang, langs, decided>>

ConvergeRemove(t) ==
    /\ pc[t] = "removing"
    /\ RemoveContainer(held[t])
    /\ Hold(t, None) /\ NextIteration(t, "shrinking")
    /\ UNCHANGED <<avail, shared, lang, langs, decided>>

ConvergeStep(t) ==
    \/ ConvergeCreate(t) \/ ConvergePush(t) \/ ConvergeShrink(t) \/ ConvergeRemove(t)

-----------------------------------------------------------------------------
(* StartAutoscaler *)

\* Limits, target and headroom are read and the new target is computed; the
\* autoscaler is the only writer of targets, but headroom may be stale by the
\* time the target is stored.
AutoscalerVisit(l) ==
    /\ Visit("autoscaler", l)
    /\ \E load \in Loads :
         LET new == DecideScale(MinSize[l], MaxSize[l], targets[l], load,
                                GlobalLiveTotal < GlobalCap)
         IN  \/ /\ new # targets[l]
                /\ decided' = new /\ Goto("autoscaler", "deciding")
             \/ /\ new = targets[l]
                /\ Goto("autoscaler", "scanning") /\ UNCHANGED decided
    /\ UNCHANGED <<avail, docker, shared, held, todo>>

AutoscalerStore ==
    /\ pc["autoscaler"] = "deciding"
    /\ targets' = [targets EXCEPT ![lang["autoscaler"]] = decided]
    /\ decided' = 0
    /\ Goto("autoscaler", "converging")
    /\ UNCHANGED <<avail, docker, inUse, warming, held, lang, todo, langs>>

AutoscalerConverge ==
    /\ pc["autoscaler"] = "converging"
    /\ ConvergeCount("autoscaler", lang["autoscaler"])
    /\ UNCHANGED <<avail, docker, shared, held, lang, langs, decided>>

AutoscalerStep ==
    \/ \E l \in Lang : AutoscalerVisit(l)
    \/ AutoscalerStore \/ AutoscalerConverge

-----------------------------------------------------------------------------
(* The environment *)

\* A container stops by itself: out of memory, killed, or Docker restarted.
Exit(c) ==
    /\ docker[c] = "running"
    /\ docker' = [docker EXCEPT ![c] = "exited"]
    /\ UNCHANGED <<avail, shared, pc, held, loop>>

\* Defect: the GC lists every container, not only the stopped ones.
OrphanGCUnfiltered(c) ==
    /\ WarmedUp /\ docker[c] # "none"
    /\ docker' = [docker EXCEPT ![c] = "none"]
    /\ UNCHANGED <<avail, shared, pc, held, loop>>

\* StartPeriodicOrphanGC removes every stopped container of the judge, whether
\* or not the pool still refers to it.
OrphanGC(c) ==
    /\ WarmedUp /\ docker[c] = "exited"
    /\ docker' = [docker EXCEPT ![c] = "none"]
    /\ UNCHANGED <<avail, shared, pc, held, loop>>

Converger == {"reconciler", "autoscaler"}

Next ==
    \/ \E l \in Lang : WarmUpCreate(l) \/ WarmUpFail(l)
    \/ \E u \in User : UserStep(u)
    \/ \E t \in Goroutines : Tick(t) \/ TickEnd(t)
    \/ MonitorStep
    \/ \E l \in Lang : ReconcilerVisit(l)
    \/ \E t \in Converger : ConvergeStep(t)
    \/ AutoscalerStep
    \/ \E c \in Container : Exit(c) \/ OrphanGC(c)

Spec == Init /\ [][Next]_vars

\* Every started goroutine keeps running; Docker does not refuse to create a
\* container for ever.  Nothing is assumed of the users.
Fairness ==
    /\ \A l \in Lang : WF_vars(WarmUpCreate(l) \/ WarmUpFail(l))
    /\ \A t \in Goroutines : WF_vars(Tick(t) \/ TickEnd(t))
    /\ WF_vars(MonitorStep)
    /\ \A l \in Lang : WF_vars(ReconcilerVisit(l))
    /\ \A t \in Converger : /\ WF_vars(ConvergeStep(t))
                            /\ SF_vars(ConvergeCreate(t) /\ held'[t] # None)
    /\ WF_vars(AutoscalerStep)

FairSpec == Spec /\ Fairness

-----------------------------------------------------------------------------
(* Properties *)

UserPC == {"idle", "waiting", "taking", "using", "removing", "replacing", "pushing"}
MonitorPC == {"idle", "scanning", "probing", "inspecting", "removing",
              "replacing", "pushing"}
ConvergerPC == {"idle", "scanning", "deciding", "converging", "creating",
                "pushing", "shrinking", "removing"}

\* Where a goroutine has a container in its local variable.
HoldingPC == {"taking", "using", "inspecting", "removing", "pushing"}

\* Inside one of the counted loops.
LoopPC == {"probing", "inspecting", "removing", "replacing", "pushing",
           "creating", "shrinking"}

DockerState == {"none", "running", "exited"}

PoolType ==
    /\ avail \in [Lang -> Seq(Container)]
    /\ inUse \subseteq Container
    /\ targets \in [Lang -> Nat]
    /\ docker \in [Container -> DockerState]
    /\ warming \in [Lang -> Nat]

PCType ==
    /\ pc \in [Thread -> UserPC \cup MonitorPC \cup ConvergerPC]
    /\ \A u \in User : pc[u] \in UserPC
    /\ pc["monitor"] \in MonitorPC
    /\ \A t \in Converger : pc[t] \in ConvergerPC

LocalType ==
    /\ lang \in [Thread -> Lang]
    /\ held \in [Thread -> Container \cup {None}]
    /\ \A t \in Thread : held[t] # None <=> pc[t] \in HoldingPC
    /\ todo \in [Thread -> Nat]
    /\ \A t \in Goroutines : pc[t] \in LoopPC => todo[t] > 0
    /\ langs \in [Thread -> SUBSET Lang]
    /\ decided \in Nat

\* Every variable has its type, a goroutine holds a container exactly at the
\* points of the code where its local variable is live, and a counted loop has
\* an iteration left while a goroutine is inside it.
TypeOK == PoolType /\ PCType /\ LocalType

\* A container waits in the channel of its own language, and only once.
IdleOnce ==
    \A l \in Lang : \A i, j \in 1..Len(avail[l]) :
        /\ LangOf[avail[l][i]] = l
        /\ avail[l][i] = avail[l][j] => i = j

\* What a goroutine has taken out of a channel is not in one any more.
HeldNotIdle ==
    \A t \in Thread, l \in Lang : \A i \in 1..Len(avail[l]) :
        avail[l][i] # held[t]

\* No two goroutines have the same container.
HeldOnce ==
    \A t, u \in Thread : held[t] # None /\ held[t] = held[u] => t = u

\* A goroutine works on the language of the container it holds.
HeldLang == \A t \in Thread : held[t] # None => LangOf[held[t]] = lang[t]

\* inUse registers exactly what the users between Acquire and Release or
\* Discard hold.
InUseExact ==
    \A c \in Container :
        c \in inUse <=> \E u \in User : pc[u] = "using" /\ held[u] = c

\* Whatever the users, the monitor, the reconciler, the autoscaler and the GC
\* do to the channels at the same time, every container has one owner: it is
\* idle in one place of one channel, or in the hands of one goroutine.
ExclusiveOwnership ==
    IdleOnce /\ HeldNotIdle /\ HeldOnce /\ HeldLang /\ InUseExact

\* No container is left behind in Docker: one that exists is still reachable
\* from the pool, also after a full channel, a failed replacement or a race.
NoLeak == \A c \in Container : docker[c] # "none" => c \in Referenced

\* The autoscaler's target stays within the limits although it is computed
\* from values read before the store.
TargetWithinLimits ==
    \A l \in Lang : MinSize[l] <= targets[l] /\ targets[l] <= MaxSize[l]

\* While a user runs code in a live container nobody removes that container:
\* not the GC, not a shrinking converger, not the monitor.
InUseNeverReaped ==
    [][\A u \in User :
          /\ pc[u] = "using" /\ docker[held[u]] = "running"
          /\ docker'[held[u]] = "none"
          => pc'[u] # "using"]_vars

\* A stopped container in a channel does not stay there: the monitor (or a
\* shrinking converger) removes it, or a user gets it.  This rests on the
\* channel being FIFO and on a scan taking as many as it found.
HeldByUser(c) == \E u \in User : held[u] = c

BrokenIsFound ==
    \A c \in Container :
        (c \in Idle /\ docker[c] # "running") ~> (HeldByUser(c) \/ c \notin Referenced)

\* The pool heals itself: a language that has lost every container - short
\* warm-up, failed replacements - gets one again.
Replenished ==
    \A l \in Lang : (WarmedUp /\ LiveCount(l) = 0) ~> (LiveCount(l) > 0)

\* What the pool promises its users, as a specification of its own.  A
\* container on its way out (held by a goroutine that will remove it) is not
\* offered any more.
Offered == Idle \cup {held[t] : t \in {s \in Thread : pc[s] \in HoldingPC \ {"removing"}}}

Lease == INSTANCE ContainerLease WITH
    offered <- Offered,
    lease <- [u \in User |-> IF pc[u] = "using" THEN held[u] ELSE None]

LeaseSpec == Lease!Spec
=============================================================================
