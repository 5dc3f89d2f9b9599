-------------------------- MODULE Decisions_proofs --------------------------
(***************************************************************************)
(* The decisions of the system for every input, not only the small ones of *)
(* the runs: decideScale, the judging of programs and what is told of it,  *)
(* the forms an author fills in, and the upload of a list of students.     *)
(* Beside them, step by step, the pages for a problem and an assessment,   *)
(* and the calls of a partner.                                             *)
(***************************************************************************)
EXTENDS MCScaleDecision, Judging, Authored, UserImport,
        FiniteSetTheorems, WellFoundedInduction, TLAPS

-----------------------------------------------------------------------------
(* The scale decision.                                                     *)

\* The heart of it, for two loads: decideScale under the same limits, target,
\* cooldowns and headroom is monotone in how busy the language was.
LEMMA BusierLoad ==
    ASSUME NEW min \in Nat, NEW max \in Nat, min <= max,
           NEW old \in Nat, NEW room \in BOOLEAN,
           NEW less \in Load, NEW more \in Load,
           less.traffic, more.traffic,
           less.upElapsed = more.upElapsed, less.downElapsed = more.downElapsed,
           less.wait <= more.wait, less.timeouts <= more.timeouts
    PROVE  DecideScale(min, max, old, less, room) <= DecideScale(min, max, old, more, room)
<1> DEFINE now == Clamp(old, min, max)
<1>1. now \in Nat
  BY DEF Clamp
<1>2. /\ less.wait \in Nat /\ less.timeouts \in Nat
      /\ more.wait \in Nat /\ more.timeouts \in Nat
  BY DEF Load
<1>3. WantsScaleUp(less) => WantsScaleUp(more)
  BY <1>2, ThresholdAssumption DEF WantsScaleUp
<1>4. Grows(min, max, now, less, room) => Grows(min, max, now, more, room)
  BY <1>3 DEF Grows
<1>5. Shrinks(min, max, now, more) => Shrinks(min, max, now, less)
  BY <1>2, <1>3, ThresholdAssumption DEF Shrinks
<1>6. ~(Grows(min, max, now, less, room) /\ Shrinks(min, max, now, more))
  BY <1>3 DEF Grows, Shrinks
<1> HIDE DEF now
<1>. QED
  BY <1>1, <1>4, <1>5, <1>6 DEF DecideScale, now

\* A busier interval never leaves a language with a smaller target than a
\* calmer one would: under load decideScale holds or grows, it never falls
\* through to the scale-down branch.
THEOREM NeverSmallerWhenBusier == Spec => []BusierNeverSmaller
<1>1. Init => BusierNeverSmaller
  <2> SUFFICES ASSUME Init PROVE BusierNeverSmaller
    OBVIOUS
  <2>1. calm \in SmallLoad /\ busy \in SmallLoad
    BY DEF Init
  <2>2. SmallLoad \subseteq Load
    <3>1. \A x \in {TRUE} : x \in BOOLEAN
      OBVIOUS
    <3>2. 0..MaxWait \subseteq Nat /\ 0..MaxTimeouts \subseteq Nat
      BY BoundAssumption
    <3>. QED
      BY <3>1, <3>2, Zenon DEF SmallLoad, Load
  <2>3. calm.traffic = TRUE /\ busy.traffic = TRUE
    BY <2>1 DEF SmallLoad
  <2>4. /\ lo \in Nat /\ hi \in Nat /\ lo <= hi /\ target \in Nat
        /\ headroom \in BOOLEAN
        /\ calm.upElapsed = busy.upElapsed /\ calm.downElapsed = busy.downElapsed
        /\ calm.wait <= busy.wait /\ calm.timeouts <= busy.timeouts
    BY BoundAssumption DEF Init
  <2>. QED
    BY <2>1, <2>2, <2>3, <2>4, BusierLoad DEF BusierNeverSmaller
<1>2. BusierNeverSmaller /\ [UNCHANGED inputs]_inputs => BusierNeverSmaller'
  BY DEF BusierNeverSmaller, inputs
<1>. QED
  BY <1>1, <1>2, PTL DEF Spec

-----------------------------------------------------------------------------
(* Filtered sequences.                                                     *)

\* A set of numbers that is not empty has a least one.
LEMMA LeastOf ==
    ASSUME NEW S \in SUBSET Nat, S # {}
    PROVE  Min(S) \in S /\ \A e \in S : Min(S) =< e
<1> DEFINE Below(m) == {x \in S : x =< m}
           T == {Below(m) : m \in S}
           R == StrictSubsetOrdering(Nat)
           F == FiniteSubsetsOf(Nat)
<1>1. T \subseteq F
  <2>1. SUFFICES ASSUME NEW m \in S PROVE IsFiniteSet(Below(m))
    BY <2>1 DEF FiniteSubsetsOf
  <2>2. Below(m) \in SUBSET Nat /\ m \in Nat /\ \A x \in Below(m) : x <= m
    OBVIOUS
  <2>. QED
    BY <2>2, FS_BoundedSetOfNaturals
<1>2. PICK m \in S : \A n \in S : <<Below(n), Below(m)>> \notin R
  <2>1. IsWellFoundedOn(R, F)
    BY FS_StrictSubsetOrderingWellFounded
  <2>2. T # {}
    OBVIOUS
  <2> HIDE DEF R, F, Below
  <2>3. \E x \in T : \A y \in T : <<y, x>> \notin R
    BY <1>1, <2>1, <2>2, WFMin
  <2>. QED
    BY <2>3
<1>3. \A n \in S : m =< n
  <2>1. SUFFICES ASSUME NEW n \in S, n < m PROVE FALSE
    BY <2>1
  <2>2. n \in Nat /\ m \in Nat /\ \A x \in S : x \in Nat
    OBVIOUS
  <2>3. Below(n) \in SUBSET Nat /\ Below(m) \in SUBSET Nat
    OBVIOUS
  <2>4. ASSUME NEW x \in Below(n) PROVE x \in Below(m)
    <3>1. x \in S /\ x =< n
      OBVIOUS
    <3>2. x =< m
      BY <2>1, <2>2, <3>1
    <3>. QED
      BY <3>1, <3>2
  <2>5. m \in Below(m) /\ m \notin Below(n)
    BY <2>1, <2>2
  <2> HIDE DEF Below
  <2>6. <<Below(n), Below(m)>> \in R
    BY <2>3, <2>4, <2>5 DEF StrictSubsetOrdering
  <2>. QED
    BY <1>2, <2>6
<1>. QED
  BY <1>3 DEF Min

\* A bounded one has a greatest one.
LEMMA GreatestOf ==
    ASSUME NEW S \in SUBSET Nat, S # {}, NEW n \in Nat, \A e \in S : e <= n
    PROVE  Max(S) \in S /\ \A e \in S : e <= Max(S)
<1> DEFINE U == {m \in Nat : \A e \in S : e <= m}
           m == Min(U)
<1>1. m \in U /\ \A u \in U : m <= u
  <2>1. U \in SUBSET Nat /\ n \in U
    OBVIOUS
  <2> HIDE DEF U
  <2>. QED
    BY <2>1, LeastOf
<1> HIDE DEF m
<1>2. m \in Nat /\ \A e \in S : e <= m
  BY <1>1
<1>3. m \in S
  <2>1. SUFFICES ASSUME m \notin S PROVE FALSE
    OBVIOUS
  <2>2. \A e \in S : e < m /\ e \in Nat
    BY <1>2, <2>1
  <2>3. PICK e \in S : e < m /\ e \in Nat
    BY <2>2
  <2>4. m - 1 \in Nat
    BY <1>2, <2>3
  <2>5. ASSUME NEW x \in S PROVE x <= m - 1
    BY <1>2, <2>2
  <2>6. m <= m - 1
    BY <1>1, <2>4, <2>5
  <2>. QED
    BY <1>2, <2>6
<1>4. \E x \in S : \A y \in S : x >= y
  BY <1>2, <1>3
<1>5. Max(S) \in S /\ \A y \in S : Max(S) >= y
  BY <1>4 DEF Max
<1>. QED
  BY <1>5

\* Places are numbered from 1 to their number, in their order.
LEMMA Places ==
    ASSUME NEW n \in Nat, NEW P \in SUBSET (1..n)
    PROVE  /\ IsFiniteSet(P) /\ Cardinality(P) \in Nat /\ Cardinality(P) <= n
           /\ Cardinality(P) = n => P = 1..n
           /\ \A k \in 1..Cardinality(P) :
                 /\ Nth(P, k) \in P
                 /\ Cardinality({j \in P : j <= Nth(P, k)}) = k
           /\ \A i \in P : \E k \in 1..Cardinality(P) : Nth(P, k) = i
           /\ \A k, l \in 1..Cardinality(P) : k < l => Nth(P, k) < Nth(P, l)
<1> DEFINE upTo(i) == {j \in P : j <= i}
           rank == [i \in P |-> Cardinality(upTo(i))]
           c == Cardinality(P)
<1>1. /\ IsFiniteSet(P) /\ c \in Nat /\ c <= n /\ \A i \in P : i \in Nat
      /\ c = n => P = 1..n
  <2>1. IsFiniteSet(1..n) /\ Cardinality(1..n) = n
    BY FS_Interval
  <2>2. IsFiniteSet(P) /\ c <= n /\ (c = n => P = 1..n)
    BY <2>1, FS_Subset
  <2>3. c \in Nat
    BY <2>2, FS_CardinalityType
  <2>. QED
    BY <2>2, <2>3
<1>2. ASSUME NEW i \in P
      PROVE  IsFiniteSet(upTo(i)) /\ Cardinality(upTo(i)) \in 1..c
  <2>1. upTo(i) \in SUBSET P /\ i \in upTo(i)
    BY <1>1
  <2> HIDE DEF upTo
  <2>2. IsFiniteSet(upTo(i)) /\ Cardinality(upTo(i)) <= c
    BY <1>1, <2>1, FS_Subset
  <2>3. Cardinality(upTo(i)) \in Nat /\ Cardinality(upTo(i)) # 0
    BY <2>1, <2>2, FS_CardinalityType, FS_EmptySet
  <2>. QED
    BY <1>1, <2>2, <2>3
<1>3. rank \in [P -> 1..c]
  BY <1>2
<1>4. ASSUME NEW i \in P, NEW j \in P, i < j PROVE rank[i] < rank[j]
  <2>1. upTo(i) \in SUBSET upTo(j)
    <3>1. ASSUME NEW x \in upTo(i) PROVE x \in upTo(j)
      <4>1. x \in P /\ x \in Nat /\ x <= i /\ i \in Nat /\ j \in Nat
        BY <1>1
      <4>. QED
        BY <1>4, <4>1
    <3>. QED
      BY <3>1
  <2>2. j \in upTo(j) /\ j \notin upTo(i)
    BY <1>1, <1>4
  <2> HIDE DEF upTo
  <2>3. Cardinality(upTo(i)) <= Cardinality(upTo(j))
    BY <1>2, <2>1, FS_Subset
  <2>4. Cardinality(upTo(i)) # Cardinality(upTo(j))
    BY <1>2, <2>1, <2>2, FS_Subset
  <2>. QED
    BY <1>2, <2>3, <2>4
<1>5. \A k \in 1..c : \E i \in P : rank[i] = k
  <2>1. IsFiniteSet(1..c) /\ Cardinality(1..c) = c
    BY <1>1, FS_Interval
  <2>2. rank \in Injection(P, 1..c)
    <3> HIDE DEF rank
    <3>1. ASSUME NEW i \in P, NEW j \in P, rank[i] = rank[j] PROVE i = j
      <4>1. rank[i] \in 1..c /\ rank[j] \in 1..c
        BY <1>3
      <4>2. ~(rank[i] < rank[j]) /\ ~(rank[j] < rank[i])
        BY <1>1, <3>1, <4>1
      <4>3. ~(i < j) /\ ~(j < i)
        BY <1>4, <4>2
      <4>. QED
        BY <1>1, <4>3
    <3>. QED
      BY <1>3, <3>1 DEF Injection, IsInjective
  <2> HIDE DEF rank
  <2>3. rank \in Surjection(P, 1..c)
    BY <2>1, <2>2, FS_Injection
  <2>. QED
    BY <2>3 DEF Surjection
<1>6. \A k \in 1..c : Nth(P, k) \in P /\ rank[Nth(P, k)] = k
  <2>1. SUFFICES ASSUME NEW k \in 1..c PROVE Nth(P, k) \in P /\ rank[Nth(P, k)] = k
    OBVIOUS
  <2>2. \E i \in P : Cardinality({j \in P : j <= i}) = k
    BY <1>5
  <2>3. Nth(P, k) \in P /\ Cardinality({j \in P : j <= Nth(P, k)}) = k
    BY <2>2 DEF Nth
  <2>. QED
    BY <2>3
<1>7. ASSUME NEW i \in P PROVE \E k \in 1..c : Nth(P, k) = i
  <2>1. rank[i] \in 1..c
    BY <1>3
  <2>2. Nth(P, rank[i]) \in P /\ rank[Nth(P, rank[i])] = rank[i]
    BY <1>6, <2>1
  <2> HIDE DEF rank
  <2>3. Nth(P, rank[i]) = i
    <3>1. i \in Nat /\ Nth(P, rank[i]) \in Nat
      BY <1>1, <2>2
    <3>2. ~(rank[i] < rank[i])
      BY <1>1, <2>1
    <3>3. ~(i < Nth(P, rank[i])) /\ ~(Nth(P, rank[i]) < i)
      BY <1>4, <2>2, <3>2
    <3>. QED
      BY <3>1, <3>3
  <2>. QED
    BY <2>1, <2>3
<1>8. ASSUME NEW k \in 1..c, NEW l \in 1..c, k < l PROVE Nth(P, k) < Nth(P, l)
  <2> HIDE DEF rank
  <2>1. /\ Nth(P, k) \in P /\ rank[Nth(P, k)] = k
        /\ Nth(P, l) \in P /\ rank[Nth(P, l)] = l
    BY <1>6
  <2>2. Nth(P, k) \in Nat /\ Nth(P, l) \in Nat /\ Nth(P, k) # Nth(P, l)
    <3>1. k # l
      BY <1>1, <1>8
    <3>. QED
      BY <1>1, <2>1, <3>1
  <2>3. ~(Nth(P, l) < Nth(P, k))
    <3>1. ~(l < k)
      BY <1>1, <1>8
    <3>. QED
      BY <1>4, <2>1, <3>1
  <2>. QED
    BY <2>2, <2>3
<1>9. \A k \in 1..c : Nth(P, k) \in P /\ Cardinality({j \in P : j <= Nth(P, k)}) = k
  BY <1>6
<1>. QED
  BY <1>1, <1>7, <1>8, <1>9

\* All places, one by one.
LEMMA AllPlaces ==
    ASSUME NEW n \in Nat
    PROVE  Cardinality(1..n) = n /\ \A k \in 1..n : Nth(1..n, k) = k
<1>1. Cardinality(1..n) = n
  BY FS_Interval
<1>2. ASSUME NEW k \in 1..n PROVE Nth(1..n, k) = k
  <2>1. /\ Nth(1..n, k) \in 1..n
        /\ Cardinality({j \in 1..n : j <= Nth(1..n, k)}) = k
    BY <1>1, Places
  <2>2. {j \in 1..n : j <= Nth(1..n, k)} = 1..Nth(1..n, k)
    BY <2>1
  <2>3. Cardinality(1..Nth(1..n, k)) = Nth(1..n, k)
    BY <2>1, FS_Interval
  <2>. QED
    BY <2>1, <2>2, <2>3
<1>. QED
  BY <1>1, <1>2

\* Kept has the elements at its places, in order, and all of them if the places are.
LEMMA KeptFacts ==
    ASSUME NEW s, NEW n \in Nat, NEW P \in SUBSET (1..n)
    PROVE  /\ DOMAIN Kept(s, P) = 1..Cardinality(P)
           /\ Len(Kept(s, P)) = Cardinality(P)
           /\ \A S : (\A i \in P : s[i] \in S) => Kept(s, P) \in Seq(S)
           /\ \A k \in 1..Cardinality(P) :
                 Nth(P, k) \in P /\ Kept(s, P)[k] = s[Nth(P, k)]
           /\ \A i \in P : \E k \in 1..Cardinality(P) :
                 Nth(P, k) = i /\ Kept(s, P)[k] = s[i]
           /\ P = 1..n => \A k \in 1..n : Kept(s, P)[k] = s[k]
<1>1. /\ Cardinality(P) \in Nat
      /\ \A k \in 1..Cardinality(P) : Nth(P, k) \in P
      /\ \A i \in P : \E k \in 1..Cardinality(P) : Nth(P, k) = i
  BY Places
<1>2. DOMAIN Kept(s, P) = 1..Cardinality(P)
  BY DEF Kept
<1>3. \A k \in 1..Cardinality(P) : Kept(s, P)[k] = s[Nth(P, k)]
  BY DEF Kept
<1>4. Kept(s, P) \in Seq({s[i] : i \in P})
  BY <1>1 DEF Kept
<1>5. Len(Kept(s, P)) = Cardinality(P)
  BY <1>1, <1>2, <1>4
<1>6. ASSUME NEW S, \A i \in P : s[i] \in S PROVE Kept(s, P) \in Seq(S)
  <2>1. \A k \in 1..Cardinality(P) : s[Nth(P, k)] \in S
    BY <1>1, <1>6
  <2>. QED
    BY <1>1, <2>1 DEF Kept
<1>7. ASSUME P = 1..n PROVE \A k \in 1..n : Kept(s, P)[k] = s[k]
  BY <1>3, <1>7, AllPlaces
<1>. QED
  BY <1>1, <1>2, <1>3, <1>5, <1>6, <1>7

\* A list all of which is kept.
LEMMA KeptWhole ==
    ASSUME NEW s, NEW n \in Nat, s = [i \in 1..n |-> s[i]]
    PROVE  Kept(s, 1..n) = s
<1>1. Cardinality(1..n) = n /\ \A k \in 1..n : Nth(1..n, k) = k
  BY AllPlaces
<1>2. Kept(s, 1..n) = [k \in 1..n |-> s[Nth(1..n, k)]]
  BY <1>1 DEF Kept
<1>. QED
  BY <1>1, <1>2

-----------------------------------------------------------------------------
(* Programs, reports and details.                                          *)

\* A program has one test or more.
LEMMA ProgramsAreSequences ==
    ASSUME NEW p \in Programs
    PROVE  p \in Seq(Behaviour) /\ p # <<>>
BY JudgingAssumption DEF Programs, BoundedSeq, SeqOf

\* In one go a program is one without late answers, of as many tests.
LEMMA InOneGoFacts ==
    ASSUME NEW p \in Seq(Behaviour), NEW i
    PROVE  LET go == InOneGo(p, i)
           IN  /\ go \in Seq(Prompt) /\ Len(go) = Len(p) /\ DOMAIN go = DOMAIN p
               /\ \A j \in DOMAIN p :
                     /\ j = i => go[j] = "hangs"
                     /\ j # i /\ p[j] = "slow" => go[j] = "pass"
                     /\ j # i /\ p[j] # "slow" => go[j] = p[j]
<1>1. Len(p) \in Nat /\ DOMAIN p = 1..Len(p)
  OBVIOUS
<1>2. ASSUME NEW j \in DOMAIN p
      PROVE  /\ InOneGo(p, i)[j] \in Prompt
             /\ j = i => InOneGo(p, i)[j] = "hangs"
             /\ j # i /\ p[j] = "slow" => InOneGo(p, i)[j] = "pass"
             /\ j # i /\ p[j] # "slow" => InOneGo(p, i)[j] = p[j]
  <2>1. p[j] \in Behaviour
    BY <1>1
  <2>. QED
    BY <2>1 DEF InOneGo, Behaviour, Prompt
<1>3. InOneGo(p, i) = [j \in 1..Len(p) |-> InOneGo(p, i)[j]]
  BY <1>1 DEF InOneGo
<1>. QED
  BY <1>1, <1>2, <1>3

\* Where a run stops, at the first test that ends it or behind the last one.
LEMMA StopFacts ==
    ASSUME NEW p \in Seq(Prompt)
    PROVE  /\ Len(p) \in Nat /\ DOMAIN p = 1..Len(p)
           /\ Stop(p) \in 1..(Len(p) + 1)
           /\ Stop(p) <= Len(p) => p[Stop(p)] \in Ends
           /\ \A i \in DOMAIN p : i < Stop(p) => p[i] \notin Ends
<1> DEFINE E == {i \in DOMAIN p : p[i] \in Ends} \cup {Len(p) + 1}
<1>1. Len(p) \in Nat /\ DOMAIN p = 1..Len(p)
  OBVIOUS
<1>2. E \in SUBSET Nat /\ E # {}
  BY <1>1
<1>3. Min(E) \in E /\ \A e \in E : Min(E) <= e
  <2> HIDE DEF E
  <2>. QED
    BY <1>2, LeastOf
<1>4. Stop(p) = Min(E)
  BY DEF Stop
<1>5. Stop(p) \in 1..(Len(p) + 1)
  BY <1>1, <1>3, <1>4
<1>6. ASSUME Stop(p) <= Len(p) PROVE p[Stop(p)] \in Ends
  BY <1>1, <1>3, <1>4, <1>6
<1>7. ASSUME NEW i \in DOMAIN p, i < Stop(p) PROVE p[i] \notin Ends
  <2>1. p[i] \in Ends => Stop(p) <= i
    BY <1>3, <1>4
  <2>. QED
    BY <1>1, <1>5, <1>7, <2>1
<1>. QED
  BY <1>1, <1>5, <1>6, <1>7

\* The tests whose report is on a line of its own, and such a report.
Told(p) == {i \in DOMAIN p : i < Stop(p) /\ p[i] # "glue"}
Report(p, i) == [test |-> i, b |-> p[i]]

\* There is a report for each of these tests, and no other.
LEMMA ReportFacts ==
    ASSUME NEW p \in Seq(Prompt)
    PROVE  LET n == Len(Reports(p))
           IN  /\ n \in Nat /\ n <= Len(p)
               /\ \A k \in 1..n : \E i \in Told(p) : Reports(p)[k] = Report(p, i)
               /\ \A i \in Told(p) : \E k \in 1..n : Reports(p)[k] = Report(p, i)
               /\ n = Len(p) => Told(p) = DOMAIN p
               /\ (\A i \in DOMAIN p : p[i] # "glue") =>
                     n = Stop(p) - 1 /\ \A k \in 1..n : Reports(p)[k] = Report(p, k)
<1> DEFINE s == [i \in DOMAIN p |-> [test |-> i, b |-> p[i]]]
           n == Len(Reports(p))
<1>1. /\ Len(p) \in Nat /\ DOMAIN p = 1..Len(p)
      /\ Told(p) \in SUBSET (1..Len(p)) /\ \A i \in Told(p) : s[i] = Report(p, i)
  BY DEF Told, Report
<1>2. Reports(p) = Kept(s, Told(p))
  BY DEF Reports, Told
<1> HIDE DEF s
<1>3. /\ n = Cardinality(Told(p))
      /\ \A k \in 1..n : Nth(Told(p), k) \in Told(p) /\ Reports(p)[k] = s[Nth(Told(p), k)]
      /\ \A i \in Told(p) : \E k \in 1..n : Reports(p)[k] = s[i]
  <2>1. /\ Len(Kept(s, Told(p))) = Cardinality(Told(p))
        /\ \A k \in 1..Cardinality(Told(p)) :
              Nth(Told(p), k) \in Told(p) /\ Kept(s, Told(p))[k] = s[Nth(Told(p), k)]
    BY <1>1, KeptFacts
  <2>2. \A i \in Told(p) : \E k \in 1..Cardinality(Told(p)) : Kept(s, Told(p))[k] = s[i]
    BY <1>1, KeptFacts
  <2>. QED
    BY <1>2, <2>1, <2>2
<1>4. n \in Nat /\ n <= Len(p) /\ (n = Len(p) => Told(p) = DOMAIN p)
  BY <1>1, <1>3, Places
<1>5. ASSUME \A i \in DOMAIN p : p[i] # "glue"
      PROVE  n = Stop(p) - 1 /\ \A k \in 1..n : Reports(p)[k] = Report(p, k)
  <2>1. Told(p) = 1..(Stop(p) - 1) /\ Stop(p) - 1 \in Nat
    BY <1>5, StopFacts DEF Told
  <2>2. n = Stop(p) - 1
    BY <1>3, <2>1, AllPlaces
  <2>3. \A k \in 1..n : Nth(Told(p), k) = k
    BY <2>1, <2>2, AllPlaces
  <2>. QED
    BY <1>1, <1>3, <2>1, <2>2, <2>3
<1>. QED
  BY <1>1, <1>3, <1>4, <1>5

\* Details a runner makes: who did not pass has a type.
ErrorTypes == {"timeout", "memory_limit", "runtime"}
Detail == [test : Nat, passed : BOOLEAN, type : ErrorTypes \cup {"", "wrong_answer"}]
Clear == {d \in Detail : d.passed <=> d.type = ""}

\* The status of a result, of details that passed or have a type.
Has(r, type) == \E i \in DOMAIN r.details : r.details[i].type = type

Rated(r) ==
    /\ r.status \in {"Time Limit Exceeded", "Memory Limit Exceeded", "Runtime Error",
                     "Accepted", "Wrong Answer"}
    /\ r.status = "Accepted" <=> \A i \in DOMAIN r.details : r.details[i].passed
    /\ r.status = "Time Limit Exceeded" <=> Has(r, "timeout")
    /\ Has(r, "memory_limit") => r.status \in {"Time Limit Exceeded", "Memory Limit Exceeded"}
    /\ r.status = "Memory Limit Exceeded" => Has(r, "memory_limit")
    /\ r.status = "Runtime Error" => Has(r, "runtime")
    /\ r.status = "Wrong Answer" => Has(r, "wrong_answer")
    /\ StoredStatus(r) \in {"Success", "Fail", "Error"}
    /\ StoredStatus(r) = "Success" <=> r.status = "Accepted"
    /\ StoredStatus(r) = "Success" <=> \A i \in DOMAIN r.details : r.details[i].passed
    /\ StoredStatus(r) = "Error" <=> \E i \in DOMAIN r.details : r.details[i].type \in ErrorTypes

\* Every result is rated by its details.
LEMMA StatusFacts ==
    ASSUME NEW details, NEW internal, \A i \in DOMAIN details : details[i] \in Clear
    PROVE  /\ Rated(Result(details, internal))
           /\ Result(details, internal).details = details
           /\ Result(details, internal).internal = internal
<1> DEFINE r == Result(details, internal)
           has(type) == \E i \in DOMAIN details : details[i].type = type
           all == \A i \in DOMAIN details : details[i].passed
<1>1. r.details = details /\ r.internal = internal /\ r.status = UpdateStatus(details)
  BY DEF Result
<1>2. UpdateStatus(details) =
         (CASE has("timeout") -> "Time Limit Exceeded"
            [] ~has("timeout") /\ has("memory_limit") -> "Memory Limit Exceeded"
            [] ~has("timeout") /\ ~has("memory_limit") /\ has("runtime") -> "Runtime Error"
            [] all -> "Accepted"
            [] OTHER -> "Wrong Answer")
  BY DEF UpdateStatus
<1>3. /\ all => ~has("timeout") /\ ~has("memory_limit") /\ ~has("runtime")
      /\ ~all /\ ~has("timeout") /\ ~has("memory_limit") /\ ~has("runtime") => has("wrong_answer")
  BY DEF Clear, Detail, ErrorTypes
<1>4. (\E i \in DOMAIN details : details[i].type \in ErrorTypes)
         <=> has("timeout") \/ has("memory_limit") \/ has("runtime")
  BY DEF ErrorTypes
<1> HIDE DEF has, all
<1>5. \/ has("timeout") /\ ~all /\ r.status = "Time Limit Exceeded"
      \/ ~has("timeout") /\ has("memory_limit") /\ ~all /\ r.status = "Memory Limit Exceeded"
      \/ /\ ~has("timeout") /\ ~has("memory_limit") /\ has("runtime") /\ ~all
         /\ r.status = "Runtime Error"
      \/ /\ ~has("timeout") /\ ~has("memory_limit") /\ ~has("runtime") /\ all
         /\ r.status = "Accepted"
      \/ /\ ~has("timeout") /\ ~has("memory_limit") /\ ~has("runtime") /\ ~all
         /\ has("wrong_answer") /\ r.status = "Wrong Answer"
  BY <1>1, <1>2, <1>3
<1>6. StoredStatus(r) = (CASE r.status = "Accepted" -> "Success"
                           [] r.status = "Wrong Answer" -> "Fail"
                           [] OTHER -> "Error")
  BY DEF StoredStatus
<1> HIDE DEF r
<1>7. /\ r.status \in {"Time Limit Exceeded", "Memory Limit Exceeded", "Runtime Error",
                       "Accepted", "Wrong Answer"}
      /\ r.status = "Accepted" <=> all
      /\ r.status = "Time Limit Exceeded" <=> has("timeout")
      /\ has("memory_limit") => r.status \in {"Time Limit Exceeded", "Memory Limit Exceeded"}
      /\ r.status = "Memory Limit Exceeded" => has("memory_limit")
      /\ r.status = "Runtime Error" => has("runtime")
      /\ r.status = "Wrong Answer" => has("wrong_answer")
      /\ StoredStatus(r) \in {"Success", "Fail", "Error"}
      /\ StoredStatus(r) = "Success" <=> r.status = "Accepted"
      /\ StoredStatus(r) = "Error" <=> has("timeout") \/ has("memory_limit") \/ has("runtime")
  BY <1>5, <1>6
<1>. QED
  BY <1>1, <1>4, <1>7 DEF r, has, all, Rated, Has

\* The detail of a test that was run alone.
LEMMA SingleIsClear ==
    ASSUME NEW i \in Nat, NEW b \in Behaviour
    PROVE  /\ Single(i, b) \in Clear /\ Single(i, b).test = i
           /\ Single(i, b).passed <=> b = "pass"
           /\ Single(i, b).type = "timeout" <=> b \in {"hangs", "slow"}
           /\ Single(i, b).type = "memory_limit" <=> b \in {"oom", "killed"}
           /\ Single(i, b).type \in ErrorTypes <=> b \notin {"pass", "wrong", "floods"}
BY DEF Single, Passed, markTestFailed, Clear, Detail, ErrorTypes, Behaviour, Prompt

\* The detail made of a report.
LEMMA BatchIsClear ==
    ASSUME NEW p \in Seq(Prompt), NEW i \in Told(p)
    PROVE  /\ p[i] \in {"pass", "floods", "stuck", "wrong", "oom", "throws"}
           /\ Batch(Report(p, i)) \in Clear /\ Batch(Report(p, i)).test = i
           /\ Batch(Report(p, i)).passed <=> p[i] \in {"pass", "floods", "stuck"}
           /\ Batch(Report(p, i)).type = "memory_limit" <=> p[i] = "oom"
           /\ Batch(Report(p, i)).type \in ErrorTypes <=> p[i] \in {"oom", "throws"}
<1>1. i \in Nat /\ p[i] \in Prompt /\ p[i] # "glue" /\ p[i] \notin Ends
  BY StopFacts DEF Told
<1>2. p[i] \in {"pass", "floods", "stuck", "wrong", "oom", "throws"}
  BY <1>1 DEF Prompt, Ends
<1>3. Report(p, i).test = i /\ Report(p, i).b = p[i]
  BY DEF Report
<1>. QED
  BY <1>1, <1>2, <1>3 DEF Batch, Passed, markTestFailed, Clear, Detail, ErrorTypes

\* Why tests are left over after r reports, and that none are unless there is a reason.
LEMMA RunErrorFacts ==
    ASSUME NEW p \in Seq(Prompt), NEW r \in Nat
    PROVE  LET why == RemainingReason(p, r)
           IN  /\ why.type \in {"timeout", "runtime", "none"}
               /\ why.type = "timeout" <=> Stop(p) <= Len(p) /\ p[Stop(p)] = "hangs"
               /\ why.type = "none" =>
                     /\ Stop(p) = Len(p) + 1 /\ Len(p) <= r
                     /\ \A i \in DOMAIN p : p[i] # "stuck"
               /\ why.internal = (IF why.type = "runtime" THEN "wrapper_error" ELSE "")
               /\ Stop(p) <= Len(p) /\ p[Stop(p)] # "hangs" => why.type = "runtime"
               /\ Stop(p) > Len(p) /\ Contains(p, "stuck") => why.type = "runtime"
               /\ Stop(p) > Len(p) /\ r < Len(p) => why.type = "runtime"
<1>1. /\ Stop(p) \in Nat /\ Len(p) \in Nat /\ DOMAIN p = 1..Len(p)
      /\ Stop(p) <= Len(p) \/ Stop(p) = Len(p) + 1
  BY StopFacts
<1>2. Contains(p, "stuck") <=> \E i \in DOMAIN p : p[i] = "stuck"
  BY <1>1 DEF Contains
<1>3. /\ RunError(p) = "timeout" <=> Stop(p) <= Len(p) /\ p[Stop(p)] = "hangs"
      /\ RunError(p) = "failed" <=> \/ Stop(p) <= Len(p) /\ p[Stop(p)] # "hangs"
                                    \/ Stop(p) > Len(p) /\ Contains(p, "stuck")
  BY <1>1 DEF RunError
<1>4. RemainingReason(p, r) =
         (CASE RunError(p) = "timeout" -> [type |-> "timeout", internal |-> ""]
            [] RunError(p) # "timeout" /\ (RunError(p) = "failed" \/ r < Len(p))
                 -> [type |-> "runtime", internal |-> "wrapper_error"]
            [] OTHER -> [type |-> "none", internal |-> ""])
  BY DEF RemainingReason
<1> DEFINE type == RemainingReason(p, r).type
           internal == RemainingReason(p, r).internal
<1>5. CASE RunError(p) = "timeout"
  <2>1. RemainingReason(p, r) = [type |-> "timeout", internal |-> ""]
    BY <1>4, <1>5
  <2>2. Stop(p) <= Len(p) /\ p[Stop(p)] = "hangs" /\ ~(Stop(p) > Len(p))
    BY <1>1, <1>3, <1>5
  <2>3. type = "timeout" /\ internal = ""
    <3>1. PICK none : none = ""
      OBVIOUS
    <3>2. RemainingReason(p, r) = [type |-> "timeout", internal |-> none]
      BY <2>1, <3>1
    <3>3. type = "timeout" /\ internal = none
      BY ONLY <3>2 DEF type, internal
    <3>. QED
      BY <3>1, <3>3
  <2> HIDE DEF type, internal
  <2>4. /\ type \in {"timeout", "runtime", "none"} /\ type # "none" /\ type # "runtime"
        /\ internal = (IF type = "runtime" THEN "wrapper_error" ELSE "")
    BY <2>3
  <2>. QED
    BY <2>2, <2>3, <2>4 DEF type, internal
<1>6. CASE RunError(p) # "timeout" /\ (RunError(p) = "failed" \/ r < Len(p))
  <2>1. RemainingReason(p, r) = [type |-> "runtime", internal |-> "wrapper_error"]
    BY <1>4, <1>6
  <2>2. ~(Stop(p) <= Len(p) /\ p[Stop(p)] = "hangs")
    BY <1>3, <1>6
  <2>. QED
    BY <2>1, <2>2
<1>7. CASE RunError(p) # "timeout" /\ ~(RunError(p) = "failed" \/ r < Len(p))
  <2>1. RemainingReason(p, r) = [type |-> "none", internal |-> ""]
    BY <1>4, <1>7
  <2>2. /\ ~(Stop(p) <= Len(p)) /\ ~Contains(p, "stuck") /\ ~(r < Len(p))
        /\ Stop(p) = Len(p) + 1
    BY <1>1, <1>3, <1>7
  <2>3. Len(p) <= r
    BY <1>1, <2>2
  <2>4. type = "none" /\ internal = ""
    <3>1. PICK none : none = ""
      OBVIOUS
    <3>2. RemainingReason(p, r) = [type |-> "none", internal |-> none]
      BY <2>1, <3>1
    <3>3. type = "none" /\ internal = none
      BY ONLY <3>2 DEF type, internal
    <3>. QED
      BY <3>1, <3>3
  <2>5. \A i \in DOMAIN p : p[i] # "stuck"
    BY <1>2, <2>2
  <2>6. ~(Stop(p) > Len(p) /\ r < Len(p)) /\ ~(Stop(p) > Len(p) /\ Contains(p, "stuck"))
    BY <2>2
  <2> HIDE DEF type, internal
  <2>7. /\ type \in {"timeout", "runtime", "none"} /\ type # "timeout"
        /\ internal = (IF type = "runtime" THEN "wrapper_error" ELSE "")
    BY <2>4
  <2>. QED
    BY <2>2, <2>3, <2>4, <2>5, <2>6, <2>7 DEF type, internal
<1>. QED
  BY <1>5, <1>6, <1>7

\* Every test has one detail, whatever has been read: the reports come first.
LEMMA BatchedFacts ==
    ASSUME NEW p \in Seq(Prompt), NEW r \in 0..Len(Reports(p))
    PROVE  LET d == Batched(p, r).details
               why == RemainingReason(p, r)
           IN  /\ r \in Nat /\ r <= Len(p)
               /\ Rated(Batched(p, r)) /\ Batched(p, r).internal = why.internal
               /\ d \in Seq(Clear) /\ Len(d) = Len(p) /\ DOMAIN d = 1..Len(p)
               /\ \A k \in 1..r : d[k] = Batch(Reports(p)[k])
               /\ \A k \in 1..Len(p) : k > r => d[k] = markTestFailed(k, why.type)
               /\ r < Len(p) => why.type # "none"
<1> DEFINE got == [i \in 1..r |-> Batch(Reports(p)[i])]
           why == RemainingReason(p, r)
           lost == [k \in 1..(Len(p) - Len(got)) |-> markTestFailed(Len(got) + k, why.type)]
           d == appendMissingBatchedResults(got, Len(p), why)
<1>1. /\ r \in Nat /\ r <= Len(p) /\ Len(p) \in Nat
      /\ \A k \in 1..r : \E i \in Told(p) : Reports(p)[k] = Report(p, i)
  BY ReportFacts
<1>2. /\ why.type \in {"timeout", "runtime", "none"}
      /\ why.type = "none" => Len(p) <= r
  BY <1>1, RunErrorFacts
<1>3. Batched(p, r) = Result(d, why.internal)
  BY DEF Batched
<1> HIDE DEF why
<1>4. got \in Seq(Clear) /\ Len(got) = r
  <2>1. \A k \in 1..r : Batch(Reports(p)[k]) \in Clear
    BY <1>1, BatchIsClear
  <2>. QED
    BY <1>1, <2>1
<1>5. CASE why.type = "none"
  <2>1. d = got \o <<>> /\ r = Len(p)
    BY <1>1, <1>2, <1>5 DEF appendMissingBatchedResults
  <2> HIDE DEF d
  <2>2. d = got
    BY <1>4, <2>1
  <2>3. d \in Seq(Clear) /\ Len(d) = Len(p) /\ DOMAIN d = 1..Len(p)
    BY <1>1, <1>4, <2>1, <2>2
  <2>4. /\ \A k \in 1..r : d[k] = Batch(Reports(p)[k])
        /\ \A k \in 1..Len(p) : ~(k > r)
    BY <1>1, <2>1, <2>2
  <2>. QED
    <3>1. \A i \in DOMAIN d : d[i] \in Clear
      BY <2>3
    <3>2. Rated(Batched(p, r)) /\ Batched(p, r).details = d /\ Batched(p, r).internal = why.internal
      BY <1>3, <3>1, StatusFacts
    <3>. QED
      BY <1>1, <2>1, <2>3, <2>4, <3>2 DEF why
<1>6. CASE why.type # "none"
  <2>1. d = got \o lost
    BY <1>6 DEF appendMissingBatchedResults
  <2>2. lost \in Seq(Clear) /\ Len(lost) = Len(p) - r
    <3>1. ASSUME NEW k \in 1..(Len(p) - r) PROVE markTestFailed(r + k, why.type) \in Clear
      <4>1. r + k \in Nat /\ why.type \in {"timeout", "runtime"}
        BY <1>1, <1>2, <1>6
      <4>. QED
        BY <4>1 DEF markTestFailed, Clear, Detail, ErrorTypes
    <3>2. Len(p) - r \in Nat
      BY <1>1
    <3> HIDE DEF got
    <3>. QED
      BY <1>4, <3>1, <3>2
  <2>3. /\ \A k \in 1..r : got[k] = Batch(Reports(p)[k])
        /\ \A k \in 1..(Len(p) - r) : lost[k] = markTestFailed(r + k, why.type)
    BY <1>4
  <2> HIDE DEF got, lost, d
  <2>4. d \in Seq(Clear) /\ Len(d) = Len(p)
    BY <1>1, <1>4, <2>1, <2>2
  <2>5. \A k \in 1..r : d[k] = got[k]
    BY <1>1, <1>4, <2>1, <2>2
  <2>6. ASSUME NEW k \in 1..Len(p), k > r PROVE d[k] = markTestFailed(k, why.type)
    <3>1. k - r \in 1..(Len(p) - r) /\ r + (k - r) = k
      BY <1>1, <2>6
    <3>2. d[k] = lost[k - r]
      BY <1>1, <1>4, <2>1, <2>2, <2>6
    <3>. QED
      BY <2>3, <3>1, <3>2
  <2>. QED
    <3>1. DOMAIN d = 1..Len(p) /\ \A i \in DOMAIN d : d[i] \in Clear
      BY <2>4
    <3>2. Rated(Batched(p, r)) /\ Batched(p, r).details = d /\ Batched(p, r).internal = why.internal
      BY <1>3, <3>1, StatusFacts
    <3>. QED
      BY <1>1, <1>6, <2>3, <2>4, <2>5, <2>6, <3>1, <3>2 DEF why
<1>. QED
  BY <1>5, <1>6

\* The details of the two other runners.
LEMMA SinglesFacts ==
    ASSUME NEW p \in Seq(Behaviour)
    PROVE  LET d == PerTest(p).details
           IN  /\ Rated(PerTest(p)) /\ PerTest(p).internal = InternalError(p)
               /\ Rated(Stdin(p)) /\ Stdin(p).details = d /\ Stdin(p).internal = ""
               /\ d = [i \in DOMAIN p |-> Single(i, p[i])]
               /\ DOMAIN d = 1..Len(p) /\ \A i \in DOMAIN d : d[i] \in Clear
<1> DEFINE d == [i \in DOMAIN p |-> Single(i, p[i])]
<1>1. DOMAIN d = 1..Len(p) /\ \A i \in DOMAIN d : d[i] \in Clear
  BY SingleIsClear
<1>2. PerTest(p) = Result(d, InternalError(p)) /\ Stdin(p) = Result(d, "")
  BY DEF PerTest, Stdin
<1> HIDE DEF d
<1>3. /\ Rated(PerTest(p)) /\ PerTest(p).details = d /\ PerTest(p).internal = InternalError(p)
      /\ Rated(Stdin(p)) /\ Stdin(p).details = d /\ Stdin(p).internal = ""
  <2>1. /\ Rated(Result(d, InternalError(p))) /\ Result(d, InternalError(p)).details = d
        /\ Result(d, InternalError(p)).internal = InternalError(p)
    BY <1>1, StatusFacts
  <2>2. Rated(Result(d, "")) /\ Result(d, "").details = d /\ Result(d, "").internal = ""
    BY <1>1, StatusFacts
  <2>. QED
    BY <1>2, <2>1, <2>2
<1>. QED
  BY <1>1, <1>3 DEF d

-----------------------------------------------------------------------------

\* Without glued reports the details stand at the places of their tests.
LEMMA OnceEach ==
    ASSUME NEW p \in Seq(Prompt), NEW r \in 0..Len(Reports(p)),
           \A i \in DOMAIN p : p[i] # "glue"
    PROVE  \A i \in 1..Len(p) : Batched(p, r).details[i].test = i
<1>1. SUFFICES ASSUME NEW i \in 1..Len(p) PROVE Batched(p, r).details[i].test = i
  OBVIOUS
<1>2. i \in Nat /\ r \in Nat
  BY BatchedFacts
<1>3. CASE i \in 1..r
  <2>1. i \in 1..Len(Reports(p)) /\ Len(Reports(p)) = Stop(p) - 1
    BY <1>2, <1>3, ReportFacts
  <2>2. i \in Told(p)
    BY <2>1, StopFacts DEF Told
  <2>3. Reports(p)[i] = Report(p, i)
    BY <2>1, ReportFacts
  <2>. QED
    BY <1>3, <2>2, <2>3, BatchedFacts, BatchIsClear
<1>4. CASE i > r
  <2>1. Batched(p, r).details[i] = markTestFailed(i, RemainingReason(p, r).type)
    BY <1>4, BatchedFacts
  <2>. QED
    BY <2>1 DEF markTestFailed
<1>. QED
  BY <1>2, <1>3, <1>4

\* A Success of the batched runner is earned, but for what a batch cannot notice.
LEMMA BatchedSuccess ==
    ASSUME NEW p \in Seq(Prompt), NEW r \in 0..Len(Reports(p)),
           StoredStatus(Batched(p, r)) = "Success"
    PROVE  \A i \in DOMAIN p : p[i] \in {"pass", "floods", "stuck"}
<1> DEFINE d == Batched(p, r).details
<1>1. \A i \in 1..Len(p) : d[i].passed
  BY BatchedFacts DEF Rated
<1>2. r = Len(p)
  <2>1. SUFFICES ASSUME r < Len(p) PROVE FALSE
    BY BatchedFacts
  <2>2. Len(p) \in 1..Len(p) /\ Len(p) > r
    BY <2>1, BatchedFacts
  <2>3. d[Len(p)] = markTestFailed(Len(p), RemainingReason(p, r).type)
    BY <2>2, BatchedFacts
  <2>. QED
    BY <1>1, <2>2, <2>3 DEF markTestFailed
<1>3. Len(Reports(p)) = Len(p) /\ Told(p) = DOMAIN p
  BY <1>2, ReportFacts
<1>4. ASSUME NEW i \in DOMAIN p PROVE p[i] \in {"pass", "floods", "stuck"}
  <2>1. PICK k \in 1..r : Reports(p)[k] = Report(p, i)
    BY <1>2, <1>3, ReportFacts
  <2>2. d[k] = Batch(Report(p, i)) /\ k \in 1..Len(p)
    BY <1>2, <2>1, BatchedFacts
  <2>. QED
    BY <1>1, <1>3, <2>2, BatchIsClear
<1>. QED
  BY <1>4

\* With every report read there is an error for an error.
LEMMA BatchedErrors ==
    ASSUME NEW p \in Seq(Prompt), \A i \in DOMAIN p : p[i] \notin {"floods", "stuck"}
    PROVE  LET d == Batched(p, Len(Reports(p))).details
           IN  /\ (\E i \in DOMAIN d : d[i].type \in ErrorTypes)
                     <=> \E i \in DOMAIN p : p[i] \notin {"pass", "wrong"}
               /\ (\A i \in DOMAIN p : p[i] \in {"pass", "wrong"}) =>
                     \A i \in DOMAIN p : d[i].passed <=> p[i] = "pass"
<1> DEFINE n == Len(Reports(p))
           d == Batched(p, n).details
<1>0. n \in 0..n /\ n \in Nat /\ n <= Len(p) /\ Len(p) \in Nat
  BY ReportFacts
<1>1. /\ DOMAIN d = 1..Len(p) /\ DOMAIN p = 1..Len(p)
      /\ \A k \in 1..n : d[k] = Batch(Reports(p)[k])
      /\ \A k \in 1..Len(p) : k > n => d[k] = markTestFailed(k, RemainingReason(p, n).type)
      /\ n < Len(p) => RemainingReason(p, n).type # "none"
  BY <1>0, BatchedFacts
<1> HIDE DEF d
<1>2. ASSUME NEW i \in DOMAIN d, d[i].type \in ErrorTypes
      PROVE  \E j \in DOMAIN p : p[j] \notin {"pass", "wrong"}
  <2>1. CASE i <= n
    <3>1. PICK j \in Told(p) : Reports(p)[i] = Report(p, j)
      BY <1>0, <1>1, <2>1, ReportFacts
    <3>2. d[i] = Batch(Report(p, j)) /\ j \in DOMAIN p
      BY <1>0, <1>1, <2>1, <3>1 DEF Told
    <3>. QED
      BY <1>2, <3>2, BatchIsClear
  <2>2. CASE i > n
    <3>1. Told(p) # DOMAIN p
      <4>1. SUFFICES ASSUME Told(p) = DOMAIN p PROVE FALSE
        OBVIOUS
      <4>2. /\ \A j \in DOMAIN p : p[j] # "glue"
            /\ \A j \in 1..Len(p) : j < Stop(p)
        BY <1>1, <4>1 DEF Told
      <4>5. Stop(p) \in 1..(Len(p) + 1)
        BY StopFacts
      <4>3. n = Stop(p) - 1 /\ Stop(p) = Len(p) + 1
        <5>1. n = Stop(p) - 1
          BY <4>2, ReportFacts
        <5>2. Stop(p) <= Len(p) => Stop(p) \in 1..Len(p)
          BY <1>0, <4>5
        <5>. QED
          BY <1>0, <4>2, <4>5, <5>1, <5>2
      <4>. QED
        BY <1>0, <1>1, <2>2, <4>3
    <3>2. PICK j \in DOMAIN p : j \notin Told(p)
      BY <3>1 DEF Told
    <3>3. CASE p[j] = "glue"
      BY <3>3
    <3>4. CASE p[j] # "glue"
      <4>1. Stop(p) <= j /\ Stop(p) \in DOMAIN p
        BY <1>0, <1>1, <3>2, <3>4, StopFacts DEF Told
      <4>2. p[Stop(p)] \in Ends
        BY <1>0, <1>1, <4>1, StopFacts
      <4>. QED
        BY <4>1, <4>2 DEF Ends
    <3>. QED
      BY <3>3, <3>4
  <2>. QED
    BY <1>0, <1>1, <2>1, <2>2
<1>3. ASSUME NEW j \in DOMAIN p, p[j] \notin {"pass", "wrong"}
      PROVE  \E i \in DOMAIN d : d[i].type \in ErrorTypes
  <2>1. CASE j \in Told(p)
    <3>1. PICK k \in 1..n : Reports(p)[k] = Report(p, j)
      BY <2>1, ReportFacts
    <3>2. k \in DOMAIN d /\ d[k] = Batch(Report(p, j))
      BY <1>0, <1>1, <3>1
    <3>3. p[j] \in {"oom", "throws"}
      BY <1>3, <2>1, BatchIsClear
    <3>. QED
      BY <2>1, <3>2, <3>3, BatchIsClear
  <2>2. CASE j \notin Told(p)
    <3>1. n < Len(p)
      BY <1>0, <1>1, <2>2, ReportFacts
    <3>2. /\ RemainingReason(p, n).type # "none"
          /\ RemainingReason(p, n).type \in {"timeout", "runtime", "none"}
      BY <1>0, <1>1, <3>1, RunErrorFacts
    <3>3. Len(p) \in DOMAIN d /\ d[Len(p)] = markTestFailed(Len(p), RemainingReason(p, n).type)
      BY <1>0, <1>1, <3>1
    <3>. QED
      BY <3>2, <3>3 DEF markTestFailed, ErrorTypes
  <2>. QED
    BY <2>1, <2>2
<1>4. ASSUME \A i \in DOMAIN p : p[i] \in {"pass", "wrong"}, NEW i \in DOMAIN p
      PROVE  d[i].passed <=> p[i] = "pass"
  <2>1. \A j \in DOMAIN p : p[j] # "glue" /\ p[j] \notin Ends
    BY <1>4 DEF Ends
  <2>2. Stop(p) = Len(p) + 1 /\ n = Len(p)
    <3>1. ~(Stop(p) <= Len(p))
      BY <1>0, <1>1, <2>1, StopFacts
    <3>2. n = Stop(p) - 1
      BY <2>1, ReportFacts
    <3>. QED
      <4>1. Stop(p) \in 1..(Len(p) + 1)
        BY StopFacts
      <4>. QED
        BY <1>0, <3>1, <3>2, <4>1
  <2>3. i \in Told(p)
    BY <1>0, <1>1, <2>1, <2>2 DEF Told
  <2>4. Reports(p)[i] = Report(p, i) /\ i \in 1..n
    BY <1>1, <2>1, <2>2, ReportFacts
  <2>5. d[i] = Batch(Report(p, i))
    BY <1>1, <2>4
  <2>. QED
    BY <1>4, <2>3, <2>5, BatchIsClear
<1>. QED
  BY <1>2, <1>3, <1>4 DEF d

\* With every report read, the runners store the same status.
LEMMA SameStatus ==
    ASSUME NEW p \in Seq(Prompt), \A i \in DOMAIN p : p[i] \notin {"floods", "stuck"}
    PROVE  StoredStatus(PerTest(p)) = StoredStatus(Batched(p, Len(Reports(p))))
<1> DEFINE n == Len(Reports(p))
           d == Batched(p, n).details
           e == PerTest(p).details
<1>0. n \in 0..n /\ DOMAIN p = 1..Len(p)
  BY ReportFacts
<1>1. Rated(Batched(p, n)) /\ DOMAIN d = DOMAIN p
  BY <1>0, BatchedFacts
<1>2. /\ Rated(PerTest(p)) /\ DOMAIN e = DOMAIN p
      /\ e = [i \in DOMAIN p |-> Single(i, p[i])]
  <2>1. p \in Seq(Behaviour)
    BY DEF Behaviour
  <2>. QED
    BY <1>0, <2>1, SinglesFacts
<1>3. /\ (\E i \in DOMAIN d : d[i].type \in ErrorTypes)
            <=> \E i \in DOMAIN p : p[i] \notin {"pass", "wrong"}
      /\ (\A i \in DOMAIN p : p[i] \in {"pass", "wrong"}) =>
            \A i \in DOMAIN p : d[i].passed <=> p[i] = "pass"
  BY BatchedErrors
<1>4. \A i \in DOMAIN p : /\ e[i].type \in ErrorTypes <=> p[i] \notin {"pass", "wrong"}
                          /\ e[i].passed <=> p[i] = "pass"
  <2>1. SUFFICES ASSUME NEW i \in DOMAIN p
                 PROVE  /\ Single(i, p[i]).type \in ErrorTypes <=> p[i] \notin {"pass", "wrong"}
                        /\ Single(i, p[i]).passed <=> p[i] = "pass"
    BY <1>2
  <2>2. i \in Nat /\ p[i] \in Behaviour /\ p[i] # "floods"
    BY <1>0 DEF Behaviour
  <2>. QED
    BY <2>2, SingleIsClear
<1>5. /\ StoredStatus(Batched(p, n)) \in {"Success", "Fail", "Error"}
      /\ StoredStatus(Batched(p, n)) = "Success" <=> \A i \in DOMAIN d : d[i].passed
      /\ StoredStatus(Batched(p, n)) = "Error" <=> \E i \in DOMAIN d : d[i].type \in ErrorTypes
      /\ StoredStatus(PerTest(p)) \in {"Success", "Fail", "Error"}
      /\ StoredStatus(PerTest(p)) = "Success" <=> \A i \in DOMAIN e : e[i].passed
      /\ StoredStatus(PerTest(p)) = "Error" <=> \E i \in DOMAIN e : e[i].type \in ErrorTypes
  BY <1>1, <1>2 DEF Rated
<1> HIDE DEF d, e
<1>6. CASE \E i \in DOMAIN p : p[i] \notin {"pass", "wrong"}
  BY <1>1, <1>2, <1>3, <1>4, <1>5, <1>6
<1>7. CASE \A i \in DOMAIN p : p[i] \in {"pass", "wrong"}
  BY <1>1, <1>2, <1>3, <1>4, <1>5, <1>7
<1>. QED
  BY <1>6, <1>7

-----------------------------------------------------------------------------
(* The doors for partners.                                                 *)

\* What a question, a request and a submission handed to a partner can be.
Version == [content : {"none", "v", "w", "hidden"}, version : Nat]
Request == [op : {"sync", "submit", "result"}, api : Api, at : {"account", "handler", "save"},
            found : Version, content : {"none", "v", "w", "hidden"}, excuse : BOOLEAN]
Handed == [ids : BOOLEAN, status : {"Pending", "Success", "Error"},
           due : BOOLEAN, cache : {"none", "worker", "api"}, told : 0..3, early : BOOLEAN]

\* An entry of Redis is one of a result, the worker's comes last, and no later answer will
\* rank below the last one, but for a refusal of what was told early.
InOrder(s) ==
    /\ s.status = "Pending" => s.cache = "none" /\ ~s.due
    /\ s.cache = "worker" => ~s.due
    /\ s.due /\ s.told = 3 => s.early
    /\ s.told <= Order(Answer(s)) \/ (s.early /\ Answer(s) = 403)

\* Who got past the account has one; who is about to save has read this version, or an
\* earlier one and an excuse.
Served(call) ==
    /\ call.at # "account" => account
    /\ call.op = "sync" /\ call.at = "save" =>
          /\ call.found.version <= question.version
          /\ call.found.version < question.version => call.excuse

\* Who goes on has an account, nothing that was told is taken back, and nothing has failed
\* without an excuse.
PartnerIInv ==
    /\ account \in BOOLEAN
    /\ memo \in [Api -> {"none", "find", "create", "ready"}]
    /\ question \in Version
    /\ calls \in [Call -> {NoCall} \cup Request]
    /\ handed \in Seq(Handed)
    /\ refusal = FALSE
    /\ \A a \in Api : memo[a] = "ready" => account
    /\ \A c \in Call : calls[c] # NoCall => Served(calls[c])
    /\ \A i \in DOMAIN handed : InOrder(handed[i])
    /\ handed # <<>> => account /\ question # NoQuestionYet

\* A request under way has an operation.
LEMMA CallFacts ==
    ASSUME NEW call \in {NoCall} \cup Request
    PROVE  /\ call.op # "none" => call # NoCall /\ call \in Request
           /\ call # NoCall => call.op # "none" /\ call \in Request
BY DEF NoCall, Request

\* How an answer ranks.
LEMMA OrderFacts ==
    ASSUME NEW s \in Handed
    PROVE  /\ Order(Answer(s)) \in 1..3
           /\ Answer(s) = 403 <=> Order(Answer(s)) = 2
           /\ Answer(s) = 200 <=> Order(Answer(s)) = 3
           /\ ~s.ids => Order(Answer(s)) = 2
           /\ s.ids /\ s.cache = "worker" => Order(Answer(s)) = 2
           /\ s.ids /\ s.cache # "worker" /\ s.status = "Pending" => Order(Answer(s)) = 1
           /\ s.ids /\ s.cache # "worker" /\ s.status # "Pending" => Order(Answer(s)) = 3
BY DEF Order, Answer, Handed

\* At first nothing has been asked.
LEMMA PartnerInit == InitPartner => PartnerIInv
<1> SUFFICES ASSUME InitPartner PROVE PartnerIInv
  OBVIOUS
<1>1. question \in Version
  BY DEF InitPartner, NoQuestionYet, Version
<1>2. calls \in [Call -> {NoCall} \cup Request] /\ \A c \in Call : calls[c] = NoCall
  BY DEF InitPartner
<1>3. memo \in [Api -> {"none", "find", "create", "ready"}] /\ \A a \in Api : memo[a] # "ready"
  BY DEF InitPartner
<1>4. account \in BOOLEAN /\ refusal = FALSE /\ handed = <<>>
  BY DEF InitPartner
<1>5. handed \in Seq(Handed) /\ DOMAIN handed = {}
  BY <1>4
<1>. QED
  BY <1>1, <1>2, <1>3, <1>4, <1>5 DEF PartnerIInv

\* A request that changes leaves the others as they are.
LEMMA OneCall ==
    ASSUME PartnerIInv, NEW c \in Call, NEW new \in {NoCall} \cup Request,
           calls' = [calls EXCEPT ![c] = new], new # NoCall => Served(new),
           UNCHANGED <<account, question>>
    PROVE  /\ calls' \in [Call -> {NoCall} \cup Request]
           /\ \A d \in Call : calls'[d] # NoCall => Served(calls[d])'
<1>1. calls' \in [Call -> {NoCall} \cup Request] /\ \A d \in Call : calls'[d] = IF d = c THEN new ELSE calls[d]
  BY DEF PartnerIInv
<1>2. ASSUME NEW d \in Call, calls'[d] # NoCall PROVE Served(calls[d])'
  BY <1>1, <1>2 DEF PartnerIInv, Served
<1>. QED
  BY <1>1, <1>2

\* Every step of an API, a partner or the worker keeps it.
LEMMA PartnerStep == PartnerIInv /\ [PartnerNext]_partner => PartnerIInv'
<1> SUFFICES ASSUME PartnerIInv, [PartnerNext]_partner PROVE PartnerIInv'
  OBVIOUS
<1> USE DEF PartnerIInv
<1>1. CASE verifyArventiq
  <2>1. PICK c \in Call, a \in Api, op \in {"sync", "submit", "result"} :
          /\ calls[c] = NoCall
          /\ calls' = [calls EXCEPT ![c] = [op |-> op, api |-> a, at |-> "account",
                                           found |-> NoQuestionYet, content |-> "none", excuse |-> FALSE]]
          /\ memo' = [memo EXCEPT ![a] = IF @ = "none" THEN "find" ELSE @]
    BY <1>1 DEF verifyArventiq
  <2>2. UNCHANGED <<account, question, handed, refusal>>
    BY <1>1 DEF verifyArventiq
  <2> DEFINE new == [op |-> op, api |-> a, at |-> "account",
                     found |-> NoQuestionYet, content |-> "none", excuse |-> FALSE]
  <2>3. new \in Request /\ Served(new)
    BY DEF Request, NoQuestionYet, Version, Served
  <2>4. /\ calls' \in [Call -> {NoCall} \cup Request]
        /\ \A d \in Call : calls'[d] # NoCall => Served(calls[d])'
    <3> HIDE DEF new, PartnerIInv
    <3>1. calls' = [calls EXCEPT ![c] = new]
      BY <2>1 DEF new
    <3>. QED
      BY <2>2, <2>3, <3>1, OneCall
  <2>5. /\ memo' \in [Api -> {"none", "find", "create", "ready"}]
        /\ \A b \in Api : memo'[b] = "ready" => memo[b] = "ready"
    BY <2>1
  <2>. QED
    BY <2>2, <2>4, <2>5 DEF InOrder
<1>2. CASE findAccount
  <2>1. /\ memo' \in [Api -> {"none", "find", "create", "ready"}]
        /\ \A b \in Api : memo'[b] = "ready" => account
        /\ UNCHANGED <<account, question, calls, handed, refusal>>
    BY <1>2 DEF findAccount
  <2>. QED
    BY <2>1 DEF Served, InOrder
<1>3. CASE createAccount
  <2>1. /\ memo' \in [Api -> {"none", "find", "create", "ready"}]
        /\ account' = TRUE /\ UNCHANGED <<question, calls, handed, refusal>>
    BY <1>3 DEF createAccount
  <2>. QED
    BY <2>1 DEF Served, InOrder
<1>4. CASE accountFails
  <2>1. PICK a \in Api :
          /\ memo' = [memo EXCEPT ![a] = "none"]
          /\ calls' = [c \in Call |-> IF c \in Awaiting(a) THEN NoCall ELSE calls[c]]
    BY <1>4 DEF accountFails
  <2>2. UNCHANGED <<account, question, handed, refusal>>
    BY <1>4 DEF accountFails
  <2>3. /\ memo' \in [Api -> {"none", "find", "create", "ready"}]
        /\ \A b \in Api : memo'[b] = "ready" => memo[b] = "ready"
    BY <2>1
  <2>4. /\ calls' \in [Call -> {NoCall} \cup Request]
        /\ \A c \in Call : calls'[c] # NoCall => calls'[c] = calls[c]
    BY <2>1
  <2>. QED
    BY <2>2, <2>3, <2>4 DEF Served, InOrder
<1>5. CASE authenticated
  <2>1. PICK c \in Call :
          /\ calls[c].op # "none" /\ calls[c].at = "account"
          /\ \/ /\ memo[calls[c].api] = "ready"
                /\ \E content \in (IF calls[c].op = "sync" THEN {"v", "w", "hidden"} ELSE {"none"}) :
                      calls' = [calls EXCEPT ![c].at = "handler", ![c].content = content]
                /\ UNCHANGED refusal
             \/ /\ memo[calls[c].api] = "failed"
                /\ calls' = [calls EXCEPT ![c] = NoCall] /\ refusal' = TRUE
    BY <1>5 DEF authenticated
  <2>2. UNCHANGED <<account, memo, question, handed>>
    BY <1>5 DEF authenticated
  <2>3. calls[c] \in Request
    BY <2>1, CallFacts
  <2>4. calls[c].api \in Api /\ memo[calls[c].api] # "failed"
    BY <2>3 DEF Request
  <2>5. PICK content \in {"v", "w", "hidden", "none"} :
          calls' = [calls EXCEPT ![c].at = "handler", ![c].content = content]
    BY <2>1, <2>4
  <2>6. memo[calls[c].api] = "ready" /\ UNCHANGED refusal /\ account
    BY <2>1, <2>4
  <2> DEFINE new == [calls[c] EXCEPT !.at = "handler", !.content = content]
  <2>7. new \in Request /\ new.at = "handler"
    BY <2>3 DEF Request
  <2>8. Served(new)
    BY <2>6, <2>7 DEF Served
  <2>9. /\ calls' \in [Call -> {NoCall} \cup Request]
        /\ \A d \in Call : calls'[d] # NoCall => Served(calls[d])'
    <3>1. calls' = [calls EXCEPT ![c] = new]
      BY <2>5
    <3> HIDE DEF new, PartnerIInv
    <3>. QED
      BY <2>2, <2>7, <2>8, <3>1, OneCall
  <2>. QED
    BY <2>2, <2>6, <2>9 DEF InOrder
<1>6. CASE syncProblem
  <2>1. PICK c \in Call :
          /\ In(c, "sync", "handler")
          /\ IF calls[c].content = "hidden" THEN answered(c)
             ELSE calls' = [calls EXCEPT ![c].at = "save", ![c].found = question]
    BY <1>6 DEF syncProblem
  <2>2. UNCHANGED <<account, memo, question, handed, refusal>>
    BY <1>6 DEF syncProblem
  <2>3. calls[c] \in Request /\ calls[c].at = "handler" /\ Served(calls[c])
    BY <2>1, CallFacts DEF In
  <2> DEFINE new == IF calls[c].content = "hidden" THEN NoCall
                    ELSE [calls[c] EXCEPT !.at = "save", !.found = question]
  <2>4. new \in {NoCall} \cup Request /\ (new # NoCall => Served(new))
    <3>1. CASE calls[c].content = "hidden"
      BY <3>1
    <3>2. CASE calls[c].content # "hidden"
      <4>1. new \in Request /\ new.found = question
        BY <2>3, <3>2 DEF Request
      <4>2. account
        BY <2>3 DEF Served
      <4>3. question.version \in Nat
        BY DEF Version
      <4>. QED
        BY <4>1, <4>2, <4>3 DEF Served
    <3>. QED
      BY <3>1, <3>2
  <2>5. /\ calls' \in [Call -> {NoCall} \cup Request]
        /\ \A d \in Call : calls'[d] # NoCall => Served(calls[d])'
    <3>1. calls' = [calls EXCEPT ![c] = new]
      BY <2>1 DEF answered
    <3> HIDE DEF new, PartnerIInv
    <3>. QED
      BY <2>2, <2>4, <3>1, OneCall
  <2>. QED
    BY <2>2, <2>5 DEF InOrder
<1>7. CASE saveProblem
  <2>1. PICK c \in Call :
          /\ In(c, "sync", "save")
          /\ \/ /\ question.version = calls[c].found.version /\ question.version < MaxSaves
                /\ question' = [content |-> calls[c].content, version |-> question.version + 1]
                /\ calls' = [d \in Call |->
                      CASE d = c -> NoCall
                        [] d # c /\ In(d, "sync", "save") -> [calls[d] EXCEPT !.excuse = TRUE]
                        [] OTHER -> calls[d]]
                /\ UNCHANGED refusal
             \/ /\ calls[c].found.content = calls[c].content
                /\ answered(c) /\ UNCHANGED <<question, refusal>>
             \/ /\ question.version # calls[c].found.version
                /\ answered(c) /\ UNCHANGED question
                /\ refusal' = (refusal \/ ~calls[c].excuse)
    BY <1>7 DEF saveProblem
  <2>2. UNCHANGED <<account, memo, handed>>
    BY <1>7 DEF saveProblem
  <2>3. /\ calls[c] \in Request /\ calls[c].op = "sync" /\ calls[c].at = "save"
        /\ Served(calls[c])
    BY <2>1, CallFacts DEF In
  <2>4. question.version \in Nat /\ calls[c].found.version \in Nat
    BY <2>3 DEF Version, Request
  <2>5. CASE /\ question' = [content |-> calls[c].content, version |-> question.version + 1]
             /\ calls' = [d \in Call |->
                      CASE d = c -> NoCall
                        [] d # c /\ In(d, "sync", "save") -> [calls[d] EXCEPT !.excuse = TRUE]
                        [] OTHER -> calls[d]]
             /\ UNCHANGED refusal
    <3>1. /\ question' \in Version /\ question'.version = question.version + 1
          /\ question' # NoQuestionYet
      BY <2>3, <2>4, <2>5 DEF Version, Request, NoQuestionYet
    <3>2. ASSUME NEW d \in Call
          PROVE  /\ calls'[d] \in {NoCall} \cup Request
                 /\ calls'[d] # NoCall => Served(calls[d])'
      <4>1. CASE d = c
        BY <2>5, <4>1
      <4>2. CASE d # c /\ In(d, "sync", "save")
        <5>1. calls[d] \in Request /\ Served(calls[d])
          BY <4>2, CallFacts DEF In
        <5>2. calls'[d] = [calls[d] EXCEPT !.excuse = TRUE]
          BY <2>5, <4>2
        <5>3. /\ calls'[d] \in Request /\ calls'[d].excuse = TRUE
              /\ calls'[d].found = calls[d].found /\ calls'[d].at = "save" /\ calls[d].at = "save"
              /\ calls[d].op = "sync" /\ calls[d].found.version \in Nat
          BY <4>2, <5>1, <5>2 DEF Request, In, Version
        <5>4. account /\ calls[d].found.version <= question.version
          BY <5>1, <5>3 DEF Served
        <5>5. calls'[d].found.version <= question'.version /\ account'
          BY <2>2, <2>4, <3>1, <5>3, <5>4
        <5>. QED
          BY <5>3, <5>5 DEF Served
      <4>3. CASE d # c /\ ~In(d, "sync", "save")
        <5>1. calls'[d] = calls[d]
          BY <2>5, <4>3
        <5>. QED
          BY <2>2, <4>3, <5>1 DEF Served, In
      <4>. QED
        BY <4>1, <4>2, <4>3
    <3>3. calls' \in [Call -> {NoCall} \cup Request]
      BY <2>5, <3>2
    <3>. QED
      BY <2>2, <2>4, <2>5, <3>1, <3>2, <3>3 DEF InOrder
  <2>6. CASE answered(c) /\ UNCHANGED question
    <3>1. UNCHANGED refusal
      <4>1. \/ UNCHANGED refusal
            \/ /\ question.version # calls[c].found.version
               /\ refusal' = (refusal \/ ~calls[c].excuse)
        BY <2>1
      <4>2. question.version # calls[c].found.version => calls[c].excuse
        BY <2>3, <2>4 DEF Served
      <4>. QED
        BY <4>1, <4>2
    <3>2. calls' = [calls EXCEPT ![c] = NoCall]
      BY <2>6 DEF answered
    <3>3. /\ calls' \in [Call -> {NoCall} \cup Request]
          /\ \A d \in Call : calls'[d] # NoCall => Served(calls[d])'
      <4> HIDE DEF PartnerIInv
      <4>. QED
        BY <2>2, <2>6, <3>2, OneCall
    <3>. QED
      BY <2>2, <2>6, <3>1, <3>3 DEF InOrder
  <2>. QED
    BY <2>1, <2>5, <2>6
<1>8. CASE submitArventiqSolution
  <2>1. PICK c \in Call :
          /\ In(c, "submit", "handler") /\ answered(c)
          /\ \/ UNCHANGED handed
             \/ /\ question # NoQuestionYet /\ Len(handed) < MaxHanded
                /\ \E ids \in BOOLEAN :
                      handed' = Append(handed, Submitted(ids))
    BY <1>8 DEF submitArventiqSolution
  <2>2. UNCHANGED <<account, memo, question, refusal>>
    BY <1>8 DEF submitArventiqSolution
  <2>3. account
    BY <2>1, CallFacts DEF In, Served
  <2>4. /\ calls' \in [Call -> {NoCall} \cup Request]
        /\ \A d \in Call : calls'[d] # NoCall => Served(calls[d])'
    <3>1. calls' = [calls EXCEPT ![c] = NoCall]
      BY <2>1 DEF answered
    <3> HIDE DEF PartnerIInv
    <3>. QED
      BY <2>2, <3>1, OneCall
  <2>5. CASE UNCHANGED handed
    BY <2>2, <2>4, <2>5 DEF InOrder
  <2>6. CASE /\ question # NoQuestionYet
             /\ \E ids \in BOOLEAN :
                      handed' = Append(handed, Submitted(ids))
    <3>1. PICK ids \in BOOLEAN :
             handed' = Append(handed, Submitted(ids))
      BY <2>6
    <3> DEFINE s == Submitted(ids)
    <3>2. s \in Handed /\ s.status = "Pending" /\ s.cache = "none" /\ s.told = 0 /\ ~s.due
      BY DEF Handed, Submitted
    <3>3. InOrder(s)
      <4> HIDE DEF s
      <4>. QED
        BY <3>2, OrderFacts DEF InOrder
    <3>4. handed' = Append(handed, s)
      BY <3>1
    <3> HIDE DEF s
    <3>5. handed' \in Seq(Handed) /\ \A i \in DOMAIN handed' : InOrder(handed'[i])
      BY <3>2, <3>3, <3>4
    <3>. QED
      BY <2>2, <2>3, <2>4, <2>6, <3>5 DEF InOrder
  <2>. QED
    BY <2>1, <2>5, <2>6
<1>9. CASE resultStored
  <2>1. PICK i \in DOMAIN handed, status \in {"Success", "Error"}, owed \in BOOLEAN :
          /\ handed[i].status = "Pending"
          /\ handed' = [handed EXCEPT ![i].status = status, ![i].due = owed]
    BY <1>9 DEF resultStored
  <2>2. UNCHANGED <<account, memo, question, calls, refusal>>
    BY <1>9 DEF resultStored
  <2> DEFINE new == [handed[i] EXCEPT !.status = status, !.due = owed]
  <2>3. handed[i] \in Handed /\ InOrder(handed[i])
    OBVIOUS
  <2>4. /\ new \in Handed /\ new.status = status /\ new.due = owed
        /\ new.cache = handed[i].cache /\ new.early = handed[i].early
        /\ new.ids = handed[i].ids /\ new.told = handed[i].told
    BY <2>3 DEF Handed
  <2>6. handed' = [handed EXCEPT ![i] = new]
    BY <2>1
  <2> HIDE DEF new
  <2>5. InOrder(new)
    <3>1. /\ handed[i].ids \in BOOLEAN /\ handed[i].cache = "none"
          /\ handed[i].status = "Pending" /\ status # "Pending" /\ handed[i].told \in 0..3
      BY <2>1, <2>3 DEF InOrder, Handed
    <3>2. /\ Order(Answer(handed[i])) = IF handed[i].ids THEN 1 ELSE 2
          /\ Order(Answer(new)) = IF handed[i].ids THEN 3 ELSE 2
          /\ Answer(handed[i]) = 403 <=> ~handed[i].ids
          /\ Answer(new) = 403 <=> ~handed[i].ids
      BY <2>3, <2>4, <3>1, OrderFacts
    <3>. QED
      BY <2>3, <2>4, <3>1, <3>2 DEF InOrder
  <2>7. /\ handed' \in Seq(Handed) /\ handed # <<>>
        /\ \A j \in DOMAIN handed' : InOrder(handed'[j])
    BY <2>4, <2>5, <2>6
  <2>. QED
    BY <2>2, <2>7 DEF Served
<1>10. CASE entryWritten
  <2>1. PICK i \in DOMAIN handed, cache \in {"none", "worker", "api"} :
          /\ handed[i].due /\ cache \in {handed[i].cache, "worker"}
          /\ handed' = [handed EXCEPT ![i].due = FALSE, ![i].cache = cache]
    <3>1. PICK i \in DOMAIN handed : \E cache \in {handed[i].cache, "worker"} :
             /\ handed[i].due
             /\ handed' = [handed EXCEPT ![i].due = FALSE, ![i].cache = cache]
      BY <1>10 DEF entryWritten
    <3>2. handed[i] \in Handed
      OBVIOUS
    <3>3. handed[i].cache \in {"none", "worker", "api"}
      BY <3>2 DEF Handed
    <3>. QED
      BY <3>1, <3>3
  <2>2. UNCHANGED <<account, memo, question, calls, refusal>>
    BY <1>10 DEF entryWritten
  <2> DEFINE new == [handed[i] EXCEPT !.due = FALSE, !.cache = cache]
  <2>3. handed[i] \in Handed /\ InOrder(handed[i])
    OBVIOUS
  <2>4. /\ new \in Handed /\ new.status = handed[i].status /\ new.due = FALSE
        /\ new.cache = cache /\ new.early = handed[i].early
        /\ new.ids = handed[i].ids /\ new.told = handed[i].told
    BY <2>3 DEF Handed
  <2>6. handed' = [handed EXCEPT ![i] = new]
    BY <2>1
  <2> HIDE DEF new
  <2>5. InOrder(new)
    <3>1. /\ handed[i].ids \in BOOLEAN /\ handed[i].told \in 0..3
          /\ handed[i].status # "Pending" /\ handed[i].cache # "worker"
          /\ handed[i].told = 3 => handed[i].early
      BY <2>1, <2>3 DEF InOrder, Handed
    <3>2. CASE cache = "worker"
      <4>1. Order(Answer(new)) = 2 /\ Answer(new) = 403
        BY <2>4, <3>1, <3>2, OrderFacts
      <4>. QED
        BY <2>4, <3>1, <4>1 DEF InOrder
    <3>3. CASE cache # "worker"
      <4>1. Answer(new) = Answer(handed[i]) /\ cache = handed[i].cache
        BY <2>1, <2>4, <3>3 DEF Answer
      <4>. QED
        BY <2>3, <2>4, <3>1, <4>1 DEF InOrder
    <3>. QED
      BY <3>2, <3>3
  <2>7. /\ handed' \in Seq(Handed) /\ handed # <<>>
        /\ \A j \in DOMAIN handed' : InOrder(handed'[j])
    BY <2>4, <2>5, <2>6
  <2>. QED
    BY <2>2, <2>7 DEF Served
<1>11. CASE entryExpires
  <2>1. PICK i \in DOMAIN handed :
          /\ handed[i].cache # "none"
          /\ handed' = [handed EXCEPT ![i].cache = "none"]
    BY <1>11 DEF entryExpires
  <2>2. UNCHANGED <<account, memo, question, calls, refusal>>
    BY <1>11 DEF entryExpires
  <2> DEFINE new == [handed[i] EXCEPT !.cache = "none"]
  <2>3. handed[i] \in Handed /\ InOrder(handed[i])
    OBVIOUS
  <2>4. /\ new \in Handed /\ new.status = handed[i].status /\ new.due = handed[i].due
        /\ new.cache = "none" /\ new.early = handed[i].early
        /\ new.ids = handed[i].ids /\ new.told = handed[i].told
    BY <2>3 DEF Handed
  <2>6. handed' = [handed EXCEPT ![i] = new]
    BY <2>1
  <2> HIDE DEF new
  <2>5. InOrder(new)
    <3>1. /\ handed[i].ids \in BOOLEAN /\ handed[i].told \in 0..3
          /\ handed[i].status # "Pending"
      BY <2>1, <2>3 DEF InOrder, Handed
    <3>2. CASE handed[i].ids
      <4>1. Order(Answer(new)) = 3
        BY <2>4, <3>1, <3>2, OrderFacts
      <4>. QED
        BY <2>3, <2>4, <3>1, <4>1 DEF InOrder
    <3>3. CASE ~handed[i].ids
      <4>1. Answer(new) = 403 /\ Answer(handed[i]) = 403
        BY <2>4, <3>3 DEF Answer
      <4>. QED
        BY <2>3, <2>4, <3>1, <4>1 DEF InOrder
    <3>. QED
      BY <3>2, <3>3
  <2>7. /\ handed' \in Seq(Handed) /\ handed # <<>>
        /\ \A j \in DOMAIN handed' : InOrder(handed'[j])
    BY <2>4, <2>5, <2>6
  <2>. QED
    BY <2>2, <2>7 DEF Served
<1>12. CASE getArventiqSubmissionResult
  <2>1. PICK c \in Call, i \in DOMAIN handed :
          /\ In(c, "result", "handler") /\ answered(c)
          /\ handed' = [handed EXCEPT ![i] =
                [handed[i] EXCEPT !.told = Order(Answer(handed[i])),
                                  !.early = @ \/ (handed[i].due /\ Answer(handed[i]) = 200),
                                  !.cache = IF @ = "none" /\ handed[i].status = "Success"
                                            THEN "api" ELSE @]]
          /\ refusal' = (refusal \/ (/\ Order(Answer(handed[i])) < handed[i].told
                                     /\ ~(handed[i].early /\ Answer(handed[i]) = 403)))
    BY <1>12 DEF getArventiqSubmissionResult
  <2>2. UNCHANGED <<account, memo, question>>
    BY <1>12 DEF getArventiqSubmissionResult
  <2>3. handed[i] \in Handed /\ InOrder(handed[i])
    OBVIOUS
  <2> DEFINE s == handed[i]
             rank == Order(Answer(s))
             early == s.early \/ (s.due /\ Answer(s) = 200)
             cache == IF s.cache = "none" /\ s.status = "Success" THEN "api" ELSE s.cache
             t == [s EXCEPT !.told = rank]
             u == [t EXCEPT !.early = early]
             new == [u EXCEPT !.cache = cache]
  <2>4. rank \in 1..3 /\ s.told \in 0..3
    BY <2>3, OrderFacts DEF Handed
  <2>5. UNCHANGED refusal
    <3>1. ~(rank < s.told /\ ~(s.early /\ Answer(s) = 403))
      BY <2>3, <2>4 DEF InOrder
    <3>. QED
      BY <2>1, <3>1
  <2>6. calls' = [calls EXCEPT ![c] = NoCall]
    BY <2>1 DEF answered
  <2>7. /\ calls' \in [Call -> {NoCall} \cup Request]
        /\ \A d \in Call : calls'[d] # NoCall => Served(calls[d])'
    <3> HIDE DEF PartnerIInv
    <3>. QED
      BY <2>2, <2>6, OneCall
  <2>8. handed' = [handed EXCEPT ![i] = new]
    BY <2>1
  <2>9. /\ new \in Handed /\ new.told = rank /\ new.early = early /\ new.cache = cache
        /\ new.ids = s.ids /\ new.status = s.status /\ new.due = s.due
    <3>1. s \in Handed /\ early \in BOOLEAN /\ cache \in {"none", "worker", "api"}
      BY <2>3 DEF Handed
    <3>2. rank \in 0..3
      BY <2>4
    <3> HIDE DEF rank, early, cache, s
    <3>3. /\ t \in Handed /\ t.told = rank
          /\ t.ids = s.ids /\ t.status = s.status /\ t.due = s.due
      BY <3>1, <3>2 DEF Handed
    <3> HIDE DEF t
    <3>4. /\ u \in Handed /\ u.early = early /\ u.told = t.told
          /\ u.ids = t.ids /\ u.status = t.status /\ u.due = t.due
      BY <3>1, <3>3 DEF Handed
    <3> HIDE DEF u
    <3>5. /\ new \in Handed /\ new.cache = cache /\ new.early = u.early /\ new.told = u.told
          /\ new.ids = u.ids /\ new.status = u.status /\ new.due = u.due
      BY <3>1, <3>4 DEF Handed
    <3>. QED
      BY <3>3, <3>4, <3>5
  <2> HIDE DEF new
  <2>10. InOrder(new)
    <3>1. /\ s.ids \in BOOLEAN /\ s.early \in BOOLEAN /\ s.due \in BOOLEAN
          /\ s.status = "Pending" => cache = "none" /\ ~s.due
          /\ cache = "worker" => s.cache = "worker" /\ ~s.due
          /\ cache # "worker" => s.cache # "worker"
      BY <2>3 DEF Handed, InOrder
    <3>2. Order(Answer(new)) = rank
      <4> HIDE DEF cache, early
      <4>. QED
        BY <2>3, <2>9, <3>1, OrderFacts DEF rank
    <3>3. s.due /\ rank = 3 => early
      BY <2>3, OrderFacts
    <3> HIDE DEF cache, early, rank
    <3>. QED
      BY <2>4, <2>9, <3>1, <3>2, <3>3 DEF InOrder
  <2>11. /\ handed' \in Seq(Handed) /\ handed # <<>>
         /\ \A j \in DOMAIN handed' : InOrder(handed'[j])
    BY <2>8, <2>9, <2>10
  <2>. QED
    BY <2>2, <2>5, <2>7, <2>11
<1>13. CASE UNCHANGED partner
  BY <1>13 DEF partner, Served, InOrder
<1>. QED
  BY <1>1, <1>2, <1>3, <1>4, <1>5, <1>6, <1>7, <1>8, <1>9, <1>10, <1>11, <1>12, <1>13 DEF PartnerNext

-----------------------------------------------------------------------------
(* What is said of one program.                                            *)

\* The elements of a sequence.
LEMMA RangeIs == ASSUME NEW s PROVE Range(s) = {s[i] : i \in DOMAIN s}
BY DEF Range

\* When the time of a batch may be up.
Late(p, i) == i \in {0} \cup {k \in DOMAIN p : \E j \in 1..k : p[j] = "slow"}

\* The runners agree on every program, however far the batched one has read.
LEMMA RunnersAgreeOn ==
    ASSUME program \in Programs, Late(program, due), read \in 0..Len(Reports(shared))
    PROVE  RunnersAgree
<1>1. program \in Seq(Behaviour) /\ DOMAIN program = 1..Len(program)
  BY ProgramsAreSequences
<1>s. /\ shared \in Seq(Prompt) /\ Len(shared) = Len(program) /\ DOMAIN shared = DOMAIN program
      /\ \A i \in DOMAIN program :
            /\ i = due => shared[i] = "hangs"
            /\ i # due /\ program[i] = "slow" => shared[i] = "pass"
            /\ i # due /\ program[i] # "slow" => shared[i] = program[i]
  BY <1>1, InOneGoFacts DEF shared
<1>2. /\ Rated(batched) /\ DOMAIN batched.details = 1..Len(program)
  BY <1>s, BatchedFacts DEF batched
<1>3. /\ DOMAIN PerTest(program).details = 1..Len(program)
      /\ \A i \in 1..Len(program) : PerTest(program).details[i] = Single(i, program[i])
      /\ Rated(PerTest(program)) /\ Rated(Stdin(program))
      /\ Stdin(program).details = PerTest(program).details
  BY <1>1, SinglesFacts
<1>4. EveryTestOnce
  <2>1. SUFFICES ASSUME ~Contains(program, "glue"), NEW r \in Results
                 PROVE  [i \in DOMAIN r.details |-> r.details[i].test]
                           = [i \in DOMAIN program |-> i]
    BY DEF EveryTestOnce
  <2>2. \A i \in DOMAIN program : program[i] # "glue"
    BY <1>1, <2>1 DEF Contains
  <2>3. DOMAIN r.details = DOMAIN program /\ \A i \in DOMAIN program : r.details[i].test = i
    <3>1. CASE r = PerTest(program)
      <4>1. \A i \in DOMAIN program : Single(i, program[i]).test = i
        BY <1>1, SingleIsClear
      <4>. QED
        BY <1>1, <1>3, <3>1, <4>1
    <3>2. CASE r = batched
      <4>1. \A i \in DOMAIN shared : shared[i] # "glue"
        BY <1>s, <2>2
      <4>. QED
        BY <1>1, <1>2, <1>s, <3>2, <4>1, OnceEach DEF batched
    <3>. QED
      BY <2>1, <3>1, <3>2 DEF Results
  <2>. QED
    BY <2>3
<1>5. VerdictIsEarned
  <2>1. SUFFICES ASSUME NEW r \in AllResults, StoredStatus(r) = "Success",
                        NEW i \in DOMAIN program
                 PROVE  \/ program[i] \in {"pass", "floods", "stuck"}
                        \/ r = batched /\ program[i] = "slow"
    BY RangeIs DEF VerdictIsEarned
  <2>2. CASE r \in {PerTest(program), Stdin(program)}
    <3>1. PerTest(program).details[i].passed
      BY <1>1, <1>3, <2>1, <2>2 DEF Rated
    <3>. QED
      BY <1>1, <1>3, <3>1, SingleIsClear
  <2>3. CASE r = batched
    <3>1. shared[i] \in {"pass", "floods", "stuck"}
      BY <1>s, <2>1, <2>3, BatchedSuccess DEF batched
    <3>2. i # due
      BY <1>s, <3>1
    <3>. QED
      BY <1>s, <2>3, <3>1, <3>2
  <2>. QED
    BY <2>1, <2>2, <2>3 DEF AllResults, Results
<1>6. ASSUME read = Len(Reports(shared)), Range(program) \cap {"floods", "stuck"} = {}
      PROVE  StoredStatus(batched) = StoredStatus(PerTest(IF due = 0 THEN InTime(program) ELSE program))
  <2>1. \A i \in DOMAIN shared : shared[i] \notin {"floods", "stuck"}
    <3>1. \A i \in DOMAIN program : program[i] \notin {"floods", "stuck"}
      BY <1>6, RangeIs
    <3>. QED
      BY <1>s, <3>1
  <2>2. StoredStatus(PerTest(shared)) = StoredStatus(batched)
    BY <1>s, <1>6, <2>1, SameStatus DEF batched
  <2>3. CASE due = 0
    <3>1. shared = InTime(program)
      BY <1>1, <2>3 DEF shared, InOneGo, InTime
    <3>. QED
      BY <2>2, <2>3, <3>1
  <2>4. CASE due # 0
    <3>1. PICK i \in DOMAIN program, j \in DOMAIN program : due = i /\ program[j] = "slow"
      BY <1>1, <2>4 DEF Late
    <3>2. StoredStatus(PerTest(shared)) = "Error"
      <4>1. /\ Rated(PerTest(shared)) /\ DOMAIN PerTest(shared).details = 1..Len(program)
            /\ PerTest(shared).details[i] = Single(i, shared[i])
        <5>1. shared \in Seq(Behaviour)
          BY <1>s DEF Behaviour
        <5>. QED
          BY <1>1, <1>s, <5>1, SinglesFacts
      <4>2. Single(i, shared[i]).type \in ErrorTypes
        BY <1>s, <3>1 DEF Single, markTestFailed, ErrorTypes
      <4>. QED
        BY <1>1, <4>1, <4>2 DEF Rated
    <3>3. StoredStatus(PerTest(program)) = "Error"
      <4>1. Single(j, program[j]).type \in ErrorTypes
        BY <3>1 DEF Single, markTestFailed, ErrorTypes
      <4>. QED
        BY <1>1, <1>3, <4>1 DEF Rated
    <3>. QED
      BY <2>2, <2>4, <3>2, <3>3
  <2>. QED
    BY <2>3, <2>4
<1>. QED
  BY <1>4, <1>5, <1>6 DEF RunnersAgree

\* A report that could not be read is blamed on the wrapper only if none was spoilt.
LEMMA StuckIsBlamed ==
    ASSUME NEW p \in Seq(Behaviour), \A i \in DOMAIN p : p[i] # "glue",
           NEW j \in DOMAIN p, p[j] = "stuck"
    PROVE  InternalError(p) = "wrapper_error"
<1> DEFINE B == {i \in DOMAIN p : p[i] \in {"exit", "stuck", "glue"}}
<1>1. j \in B /\ B \in SUBSET (1..Len(p)) /\ Len(p) \in Nat
  OBVIOUS
<1>2. Max(B) \in B
  <2>1. B \in SUBSET Nat /\ B # {} /\ \A e \in B : e <= Len(p)
    BY <1>1
  <2> HIDE DEF B
  <2>. QED
    BY <1>1, <2>1, GreatestOf
<1>3. InternalError(p) = (CASE B = {} -> ""
                            [] B # {} /\ p[Max(B)] = "glue" -> "judge_error"
                            [] OTHER -> "wrapper_error")
  BY DEF InternalError
<1>4. B # {} /\ p[Max(B)] # "glue"
  BY <1>1, <1>2
<1> HIDE DEF B
<1>. QED
  BY <1>3, <1>4

\* A container that a program has spoilt is discarded, for every program.
LEMMA SpoiltIsDiscardedOn ==
    ASSUME program \in Programs, read \in 0..Len(Reports(shared))
    PROVE  SpoiltIsDiscarded
<1>1. program \in Seq(Behaviour) /\ DOMAIN program = 1..Len(program) /\ Len(program) \in Nat
  BY ProgramsAreSequences
<1>2. shared \in Seq(Prompt) /\ Len(shared) = Len(program) /\ DOMAIN shared = DOMAIN program
  BY <1>1, InOneGoFacts DEF shared
<1>3. /\ DOMAIN PerTest(program).details = 1..Len(program)
      /\ \A i \in 1..Len(program) : PerTest(program).details[i] = Single(i, program[i])
      /\ Rated(PerTest(program)) /\ Rated(Stdin(program))
      /\ Stdin(program).details = PerTest(program).details
      /\ PerTest(program).internal = InternalError(program)
  BY <1>1, SinglesFacts
<1>4. ASSUME Range(program) \cap {"hangs", "slow", "killed"} # {}
      PROVE  shouldDiscardContainer(PerTest(program)) /\ shouldDiscardContainer(Stdin(program))
  <2>1. PICK i \in DOMAIN program : program[i] \in {"hangs", "slow", "killed"}
    BY <1>4, RangeIs
  <2>2. PerTest(program).details[i].type \in {"timeout", "memory_limit"}
    <3>1. i \in Nat /\ program[i] \in Behaviour
      BY <1>1
    <3>2. Single(i, program[i]).type \in {"timeout", "memory_limit"}
      BY <2>1, <3>1, SingleIsClear
    <3>. QED
      BY <1>1, <1>3, <3>2
  <2>3. i \in DOMAIN PerTest(program).details
    BY <1>1, <1>3
  <2>4. /\ Has(PerTest(program), "timeout") \/ Has(PerTest(program), "memory_limit")
        /\ Has(Stdin(program), "timeout") \/ Has(Stdin(program), "memory_limit")
    BY <1>3, <2>2, <2>3 DEF Has
  <2>. QED
    BY <1>3, <2>4 DEF Rated, shouldDiscardContainer
<1>5. ASSUME Contains(program, "stuck"), ~Contains(program, "glue")
      PROVE  shouldDiscardContainer(PerTest(program))
  <2>1. /\ \A i \in DOMAIN program : program[i] # "glue"
        /\ \E j \in DOMAIN program : program[j] = "stuck"
    BY <1>1, <1>5 DEF Contains
  <2>2. InternalError(program) = "wrapper_error"
    BY <1>1, <2>1, StuckIsBlamed
  <2>. QED
    BY <1>3, <2>2 DEF shouldDiscardContainer
<1>6. ASSUME \/ Stop(shared) <= Len(shared) /\ shared[Stop(shared)] \in {"hangs", "killed"}
             \/ Contains(shared, "stuck")
      PROVE  shouldDiscardContainer(batched)
  <2> DEFINE why == RemainingReason(shared, read)
  <2>1. /\ read \in Nat /\ read <= Len(shared)
        /\ Rated(batched) /\ batched.internal = why.internal
        /\ DOMAIN batched.details = 1..Len(shared)
        /\ \A k \in 1..Len(shared) : k > read =>
              batched.details[k] = markTestFailed(k, why.type)
    BY <1>1, <1>2, BatchedFacts DEF batched
  <2>2. Stop(shared) \in 1..(Len(shared) + 1)
    BY <1>1, <1>2, StopFacts
  <2>3. CASE Stop(shared) <= Len(shared) /\ shared[Stop(shared)] = "hangs"
    <3>1. Stop(shared) \in DOMAIN shared /\ Stop(shared) \notin Told(shared)
      BY <1>1, <1>2, <2>2, <2>3 DEF Told
    <3>2. Len(Reports(shared)) < Len(shared) /\ Len(Reports(shared)) \in Nat
      BY <1>1, <1>2, <3>1, ReportFacts
    <3>3. Len(shared) \in 1..Len(shared) /\ Len(shared) > read
      BY <1>1, <1>2, <2>1, <3>2
    <3>4. why.type = "timeout"
      BY <1>1, <1>2, <2>1, <2>3, RunErrorFacts
    <3>5. batched.details[Len(shared)].type = "timeout"
      <4>1. batched.details[Len(shared)] = markTestFailed(Len(shared), why.type)
        BY <2>1, <3>3
      <4>. QED
        BY <3>4, <4>1 DEF markTestFailed
    <3>6. Has(batched, "timeout")
      BY <2>1, <3>3, <3>5 DEF Has
    <3>. QED
      BY <2>1, <3>6 DEF Rated, shouldDiscardContainer
  <2>4. CASE ~(Stop(shared) <= Len(shared) /\ shared[Stop(shared)] = "hangs")
    <3>1. \/ Stop(shared) <= Len(shared) /\ shared[Stop(shared)] # "hangs"
          \/ Stop(shared) > Len(shared) /\ Contains(shared, "stuck")
      BY <1>1, <1>2, <1>6, <2>2, <2>4
    <3>2. why.type = "runtime"
      BY <1>1, <1>2, <2>1, <3>1, RunErrorFacts
    <3>3. why.internal = "wrapper_error"
      BY <1>1, <1>2, <2>1, <3>2, RunErrorFacts
    <3>. QED
      BY <2>1, <3>3 DEF shouldDiscardContainer
  <2>. QED
    BY <2>3, <2>4
<1>. QED
  BY <1>2, <1>4, <1>5, <1>6 DEF SpoiltIsDiscarded

-----------------------------------------------------------------------------
(* What is told of one result.                                             *)

\* A result as a runner leaves it.
Sound(r) ==
    /\ Rated(r) /\ r.details \in Seq(Clear) /\ r.details # <<>>

\* Whichever runner ran the program.
LEMMA ResultsAreSound ==
    ASSUME program \in Programs, read \in 0..Len(Reports(shared)), NEW r \in AllResults
    PROVE  Sound(r)
<1>1. /\ program \in Seq(Behaviour) /\ DOMAIN program = 1..Len(program)
      /\ Len(program) \in Nat /\ Len(program) > 0
  BY ProgramsAreSequences
<1>2. CASE r = batched
  <2>1. Rated(r) /\ r.details \in Seq(Clear) /\ Len(r.details) = Len(program)
    <3>1. shared \in Seq(Prompt) /\ Len(shared) = Len(program)
      BY <1>1, InOneGoFacts DEF shared
    <3>. QED
      BY <1>2, <3>1, BatchedFacts DEF batched
  <2>. QED
    BY <1>1, <2>1 DEF Sound
<1>3. CASE r \in {PerTest(program), Stdin(program)}
  <2>1. /\ Rated(r) /\ r.details = [i \in 1..Len(program) |-> Single(i, program[i])]
    BY <1>1, <1>3, SinglesFacts
  <2>2. \A i \in 1..Len(program) : Single(i, program[i]) \in Clear
    BY <1>1, SingleIsClear
  <2>3. r.details \in Seq(Clear) /\ Len(r.details) = Len(program)
    BY <1>1, <2>1, <2>2
  <2>. QED
    BY <1>1, <2>1, <2>3 DEF Sound
<1>. QED
  BY <1>2, <1>3 DEF AllResults, Results

\* The verdict a partner is told of one case.
LEMMA CaseVerdicts ==
    ASSUME NEW d \in Clear
    PROVE  /\ d.passed => mapCaseVerdict(d) = "Accepted"
           /\ ~d.passed => mapCaseVerdict(d) # "Accepted"
           /\ d.type = "timeout" => mapCaseVerdict(d) = "Time Limit Exceeded"
           /\ d.type = "memory_limit" => mapCaseVerdict(d) = "Memory Limit Exceeded"
           /\ d.type = "runtime" => mapCaseVerdict(d) = "Runtime Error"
           /\ d.type = "wrong_answer" => mapCaseVerdict(d) = "Wrong Answer"
BY DEF mapCaseVerdict, Clear, Detail, ErrorTypes

\* The verdict a partner is told of a submission is that of one of its cases.
LEMMA PartnerIsTold ==
    ASSUME NEW r, Sound(r)
    PROVE  LET told == mapSubmissionToArventiqVerdict(r)
           IN  /\ StoredStatus(r) = "Success" <=> told.verdict = "Accepted"
               /\ told.verdict = "Accepted" <=> Range(told.cases) = {"Accepted"}
               /\ told.verdict \in Range(told.cases)
<1> DEFINE cases == [i \in DOMAIN r.details |-> mapCaseVerdict(r.details[i])]
<1>1. /\ mapSubmissionToArventiqVerdict(r).verdict = r.status
      /\ mapSubmissionToArventiqVerdict(r).cases = cases
  BY DEF mapSubmissionToArventiqVerdict
<1>2. /\ \A i \in DOMAIN r.details : r.details[i] \in Clear
      /\ 1 \in DOMAIN r.details
  BY DEF Sound
<1>3. Range(cases) = {mapCaseVerdict(r.details[i]) : i \in DOMAIN r.details}
  BY RangeIs
<1> HIDE DEF cases
<1>4. r.status = "Accepted" <=> Range(cases) = {"Accepted"}
  <2>1. ASSUME r.status = "Accepted" PROVE Range(cases) = {"Accepted"}
    <3>1. \A i \in DOMAIN r.details : mapCaseVerdict(r.details[i]) = "Accepted"
      BY <1>2, <2>1, CaseVerdicts DEF Sound, Rated
    <3>. QED
      BY <1>2, <1>3, <3>1
  <2>2. ASSUME Range(cases) = {"Accepted"} PROVE r.status = "Accepted"
    <3>1. \A i \in DOMAIN r.details : mapCaseVerdict(r.details[i]) = "Accepted"
      BY <1>3, <2>2
    <3>2. \A i \in DOMAIN r.details : r.details[i].passed
      BY <1>2, <3>1, CaseVerdicts
    <3>. QED
      BY <3>2 DEF Sound, Rated
  <2>. QED
    BY <2>1, <2>2
<1>5. \E i \in DOMAIN r.details : mapCaseVerdict(r.details[i]) = r.status
  <2>1. CASE r.status = "Accepted"
    BY <1>2, <2>1, CaseVerdicts DEF Sound, Rated
  <2>2. CASE r.status = "Time Limit Exceeded"
    BY <1>2, <2>2, CaseVerdicts DEF Sound, Rated, Has
  <2>3. CASE r.status = "Memory Limit Exceeded"
    BY <1>2, <2>3, CaseVerdicts DEF Sound, Rated, Has
  <2>4. CASE r.status = "Runtime Error"
    BY <1>2, <2>4, CaseVerdicts DEF Sound, Rated, Has
  <2>5. CASE r.status = "Wrong Answer"
    BY <1>2, <2>5, CaseVerdicts DEF Sound, Rated, Has
  <2>. QED
    BY <2>1, <2>2, <2>3, <2>4, <2>5 DEF Sound, Rated
<1>6. StoredStatus(r) = "Success" <=> r.status = "Accepted"
  BY DEF Sound, Rated
<1>. QED
  BY <1>1, <1>3, <1>4, <1>5, <1>6

\* The details a student is given.
Less(r, samples_, isAssessment) ==
    sanitizeResultDetails([i \in DOMAIN r.details |-> Open(r.details[i])], samples_, isAssessment)

\* Of hidden tests neither value nor, in an assessment, log is left.
LessIs(less, r, seen, isAssessment) ==
    /\ DOMAIN less = DOMAIN r.details /\ less # <<>> /\ Len(less) = Len(r.details)
    /\ \A i \in DOMAIN less : less[i].passed = r.details[i].passed
    /\ \A i \in DOMAIN less : r.details[i].test \notin seen =>
          /\ less[i].isHidden = TRUE /\ less[i].values = FALSE
          /\ less[i].logs = ~isAssessment

\* What sanitizeResultDetails leaves.
LEMMA LessFacts ==
    ASSUME NEW r, Sound(r), NEW seen, NEW isAssessment \in BOOLEAN
    PROVE  LessIs(Less(r, seen, isAssessment), r, seen, isAssessment)
<1> DEFINE open == [i \in DOMAIN r.details |-> Open(r.details[i])]
           less == Less(r, seen, isAssessment)
<1>1. DOMAIN open = DOMAIN r.details
  OBVIOUS
<1>2. less = [i \in DOMAIN open |->
                IF open[i].test \in seen THEN open[i]
                ELSE [open[i] EXCEPT !.isHidden = TRUE, !.values = FALSE, !.logs = ~isAssessment]]
  BY DEF Less, sanitizeResultDetails
<1>3. \A i \in DOMAIN open : open[i] = Open(r.details[i])
  OBVIOUS
<1>4. ASSUME NEW i \in DOMAIN r.details
      PROVE  /\ less[i].passed = r.details[i].passed
             /\ r.details[i].test \notin seen =>
                     /\ less[i].isHidden = TRUE /\ less[i].values = FALSE
                     /\ less[i].logs = ~isAssessment
  <2> HIDE DEF open, less
  <2>1. open[i] = [test |-> r.details[i].test, passed |-> r.details[i].passed, isHidden |-> FALSE,
                   values |-> TRUE, logs |-> TRUE]
    BY <1>1, <1>3, <1>4 DEF Open
  <2>4. less[i] = IF open[i].test \in seen THEN open[i]
                  ELSE [open[i] EXCEPT !.isHidden = TRUE, !.values = FALSE, !.logs = ~isAssessment]
    BY <1>1, <1>2
  <2>5. open[i].test = r.details[i].test
    BY <2>1
  <2>2. CASE r.details[i].test \in seen
    <3>1. less[i] = open[i]
      BY <2>2, <2>4, <2>5
    <3>. QED
      BY <2>1, <2>2, <3>1
  <2>3. CASE r.details[i].test \notin seen
    <3>1. less[i] = [open[i] EXCEPT !.isHidden = TRUE, !.values = FALSE, !.logs = ~isAssessment]
      BY <2>3, <2>4, <2>5
    <3>. QED
      BY <2>1, <3>1
  <2>. QED
    BY <2>2, <2>3
<1>5. DOMAIN less = DOMAIN r.details /\ less # <<>> /\ Len(less) = Len(r.details)
  <2>1. /\ r.details \in Seq(Clear) /\ r.details # <<>> /\ DOMAIN r.details = 1..Len(r.details)
        /\ Len(r.details) \in Nat /\ Len(r.details) > 0
    BY DEF Sound
  <2>2. DOMAIN less = 1..Len(r.details)
    BY <1>1, <1>2, <2>1
  <2> HIDE DEF open, less
  <2>3. less = [i \in 1..Len(r.details) |-> less[i]]
    BY <1>1, <1>2, <2>1
  <2>. QED
    BY <2>1, <2>2, <2>3
<1> HIDE DEF less
<1>. QED
  BY <1>4, <1>5 DEF LessIs, less

\* The passed cases are counted; the count is full if all have passed.
LEMMA FullCount ==
    ASSUME NEW s, Len(s) \in Nat, DOMAIN s = 1..Len(s)
    PROVE  LET passed == {i \in DOMAIN s : s[i].passed}
           IN  Cardinality(passed) = Len(s) <=> \A i \in DOMAIN s : s[i].passed
<1> DEFINE passed == {i \in DOMAIN s : s[i].passed}
<1>1. /\ IsFiniteSet(1..Len(s)) /\ Cardinality(1..Len(s)) = Len(s)
  <2>1. 1 \in Int /\ Len(s) \in Int
    OBVIOUS
  <2>2. IsFiniteSet(1..Len(s))
    BY <2>1, FS_Interval
  <2>. QED
    BY <2>2, AllPlaces
<1>2. passed \in SUBSET (1..Len(s))
  OBVIOUS
<1>3. Cardinality(passed) = Len(s) => passed = 1..Len(s)
  <2> HIDE DEF passed
  <2>. QED
    BY <1>1, <1>2, FS_Subset
<1>. QED
  BY <1>1, <1>3

\* Text and field show the same.
LEMMA ViewIs ==
    ASSUME NEW r, NEW seen, NEW isAssessment
    PROVE  LET doc  == sanitizeSubmissionForStudent(Judged(r, isAssessment), seen)
               view == Panel(r.status, Less(r, seen, isAssessment))
           IN  /\ doc.status = StoredStatus(r)
               /\ ofDocument(doc) = view /\ ofOutput(doc) = view
<1> DEFINE doc == sanitizeSubmissionForStudent(Judged(r, isAssessment), seen)
           less == Less(r, seen, isAssessment)
           res == [status |-> r.status, details |-> less]
           open == [i \in DOMAIN r.details |-> Open(r.details[i])]
           part(x) == [x EXCEPT !.details = sanitizeResultDetails(@, seen, isAssessment)]
           was == [status |-> StoredStatus(r), output |-> [kind |-> "JSON", result |-> Shown(r)],
                   testResult |-> [there |-> TRUE, result |-> Shown(r)],
                   assessmentId |-> isAssessment]
<1>1. part(Shown(r)) = res
  <2>1. Shown(r) = [status |-> r.status, details |-> open]
    BY DEF Shown
  <2>2. less = sanitizeResultDetails(open, seen, isAssessment)
    BY DEF Less
  <2> HIDE DEF open, less
  <2>3. Shown(r).details = open
    BY <2>1
  <2>. QED
    BY <2>1, <2>2, <2>3
<1>2. doc = [status |-> StoredStatus(r), output |-> [kind |-> "JSON", result |-> res],
             testResult |-> [there |-> TRUE, result |-> res], assessmentId |-> isAssessment]
  <2>1. Judged(r, isAssessment) = was
    BY DEF Judged, Document
  <2>a. was.assessmentId = isAssessment
    OBVIOUS
  <2>2. doc = [was EXCEPT !.output.result = part(was.output.result),
                         !.testResult.result = part(was.testResult.result)]
    BY <2>1, <2>a DEF sanitizeSubmissionForStudent
  <2>3. was.output.result = Shown(r) /\ was.testResult.result = Shown(r)
    OBVIOUS
  <2> HIDE DEF doc, res, part
  <2>4. doc = [was EXCEPT !.output.result = res, !.testResult.result = res]
    BY <1>1, <2>2, <2>3
  <2>. QED
    BY <2>4
<1> HIDE DEF doc, less
<1>3. /\ doc.status = StoredStatus(r) /\ doc.output.kind = "JSON"
      /\ doc.output.result.status = r.status /\ doc.output.result.details = less
      /\ doc.testResult.there
      /\ doc.testResult.result.status = r.status /\ doc.testResult.result.details = less
  BY <1>2
<1>4. ofDocument(doc) = Panel(r.status, less)
  BY <1>3 DEF ofDocument
<1>5. ofOutput(doc) = Panel(r.status, less)
  BY <1>3 DEF ofOutput
<1>. QED
  BY <1>3, <1>4, <1>5 DEF doc, less

\* What a student is shown of one document.
LEMMA DocumentIsShown ==
    ASSUME NEW r, Sound(r), NEW seen, NEW isAssessment \in BOOLEAN
    PROVE  LET doc  == sanitizeSubmissionForStudent(Judged(r, isAssessment), seen)
               view == ofDocument(doc)
           IN  /\ view = ofOutput(doc)
               /\ view.colour = tag(doc.status) /\ view.colour # "warning"
               /\ view.green <=> view.colour = "success"
               /\ \A i \in DOMAIN view.cases :
                     r.details[i].test \notin seen =>
                         /\ ~view.cases[i].values /\ view.cases[i].test = 0
                         /\ isAssessment => ~view.cases[i].logs
<1> DEFINE doc  == sanitizeSubmissionForStudent(Judged(r, isAssessment), seen)
           less == Less(r, seen, isAssessment)
           view == Panel(r.status, less)
           passed == {i \in DOMAIN less : less[i].passed}
<1>1. doc.status = StoredStatus(r) /\ ofDocument(doc) = view /\ ofOutput(doc) = view
  BY ViewIs
<1>2. /\ DOMAIN less = DOMAIN r.details /\ less # <<>> /\ Len(less) = Len(r.details)
      /\ \A i \in DOMAIN less : less[i].passed = r.details[i].passed
      /\ \A i \in DOMAIN less : r.details[i].test \notin seen =>
            /\ less[i].isHidden = TRUE /\ less[i].values = FALSE
            /\ less[i].logs = ~isAssessment
  <2>1. LessIs(less, r, seen, isAssessment)
    BY LessFacts
  <2> HIDE DEF less
  <2>. QED
    BY <2>1 DEF LessIs
<1>3. DOMAIN r.details = 1..Len(r.details) /\ Len(r.details) \in Nat
  BY DEF Sound
<1> HIDE DEF less, doc
<1>4. /\ view.colour = verdictClass(r.status)
      /\ view.green = (Cardinality(passed) = Len(less) /\ less # <<>>)
      /\ DOMAIN view.cases = DOMAIN less
      /\ \A i \in DOMAIN less :
            /\ view.cases[i].test = (IF less[i].isHidden THEN 0 ELSE less[i].test)
            /\ view.cases[i].values = (less[i].values /\ ~less[i].isHidden)
            /\ view.cases[i].logs = less[i].logs
  BY DEF Panel
<1>5. Cardinality(passed) = Len(less) <=> \A i \in DOMAIN less : less[i].passed
  BY <1>2, <1>3, FullCount
<1> HIDE DEF view, passed
<1>6. /\ r.status \in {"Time Limit Exceeded", "Memory Limit Exceeded", "Runtime Error",
                       "Accepted", "Wrong Answer"}
      /\ r.status = "Accepted" <=> \A i \in DOMAIN r.details : r.details[i].passed
      /\ StoredStatus(r) = "Success" <=> r.status = "Accepted"
      /\ StoredStatus(r) \in {"Success", "Fail", "Error"}
  BY DEF Sound, Rated
<1>7. verdictClass(r.status) = tag(StoredStatus(r)) /\ verdictClass(r.status) # "warning"
      /\ (verdictClass(r.status) = "success" <=> r.status = "Accepted")
  <2>1. CASE r.status = "Accepted"
    <3>1. verdictClass(r.status) = "success"
      BY <2>1 DEF verdictClass, isError
    <3>2. StoredStatus(r) = "Success"
      BY <1>6, <2>1
    <3>3. tag(StoredStatus(r)) = "success"
      BY <3>2 DEF tag
    <3>. QED
      BY <2>1, <3>1, <3>3
  <2>2. CASE r.status # "Accepted"
    <3>1. verdictClass(r.status) = "error"
      BY <1>6, <2>2 DEF verdictClass, isError
    <3>2. StoredStatus(r) \in {"Fail", "Error"}
      BY <1>6, <2>2
    <3>3. tag(StoredStatus(r)) = "error"
      BY <3>2 DEF tag
    <3>. QED
      BY <2>2, <3>1, <3>3
  <2>. QED
    BY <2>1, <2>2
<1>8. view.green <=> view.colour = "success"
  <2>1. (\A i \in DOMAIN less : less[i].passed) <=> \A i \in DOMAIN r.details : r.details[i].passed
    BY <1>2
  <2>. QED
    BY <1>2, <1>4, <1>5, <1>6, <1>7, <2>1
<1>9. ASSUME NEW i \in DOMAIN view.cases, r.details[i].test \notin seen
      PROVE  /\ ~view.cases[i].values /\ view.cases[i].test = 0
             /\ isAssessment => ~view.cases[i].logs
  BY <1>2, <1>4, <1>9
<1>. QED
  BY <1>1, <1>4, <1>7, <1>8, <1>9 DEF doc

\* What a student is shown of a result, whichever document of it was found.
LEMMA ResultIsShown ==
    ASSUME NEW r, Sound(r), NEW seen, NEW assessment \in BOOLEAN
    PROVE  ResultShown(r, seen, assessment)
<1>1. SUFFICES ASSUME NEW found \in Found(r, assessment)
               PROVE  LET doc  == sanitizeSubmissionForStudent(found, seen)
                          view == ofDocument(doc)
                      IN  /\ view = ofOutput(doc)
                          /\ view.colour = tag(doc.status) /\ view.colour # "warning"
                          /\ view.green <=> view.colour = "success"
                          /\ \A i \in DOMAIN view.cases :
                                r.details[i].test \notin seen =>
                                    /\ ~view.cases[i].values /\ view.cases[i].test = 0
                                    /\ found.assessmentId => ~view.cases[i].logs
  BY DEF ResultShown
<1>2. PICK known \in BOOLEAN : found = Judged(r, known)
  BY DEF Found
<1>3. found.assessmentId = known
  BY <1>2 DEF Judged, Document
<1>. QED
  BY <1>2, <1>3, DocumentIsShown

\* What is shown when nothing was run.
LEMMA NothingRunIsShown == NotRunShown
<1>1. /\ ofDocument(Uncompiled).colour = "error" /\ ofOutput(Uncompiled).colour = "error"
      /\ tag(Uncompiled.status) = "error"
  BY DEF Uncompiled, Document, ofDocument, ofOutput, Panel, verdictClass, isError, tag
<1>2. /\ ofDocument(GivenUp).colour = "error" /\ ofOutput(GivenUp).colour = "error"
      /\ tag(GivenUp.status) = "error"
  BY DEF GivenUp, Unread, NoPanel, Document, ofDocument, ofOutput, Panel, verdictClass, isError, tag
<1>3. ofDocument(Pending).colour = "warning" /\ tag(Pending.status) = "warning"
  BY DEF Pending, Unread, Document, ofDocument, Panel, verdictClass, isError, tag
<1>. QED
  BY <1>1, <1>2, <1>3 DEF NotRunShown

\* One test, handed to the doors for partners one by one.
LEMMA DoorsDoAgree ==
    ASSUME NEW b \in Behaviour \ {"glue", "throws", "oom"}
    PROVE  DoorsAgree(b)
<1>1. b \in {"pass", "wrong", "floods", "stuck", "exit", "killed", "hangs", "slow"}
  BY DEF Behaviour, Prompt
<1>2. ASSUME b = "pass" PROVE DoorsAgree(b)
  BY <1>2 DEF DoorsAgree, mapCaseVerdict, mapRunResult, runRawCodeAssess, rawRun, Single, Passed
<1>3. ASSUME b \in {"wrong", "floods"} PROVE DoorsAgree(b)
  BY <1>3 DEF DoorsAgree, mapCaseVerdict, mapRunResult, runRawCodeAssess, rawRun, Single, markTestFailed
<1>4. ASSUME b = "stuck" PROVE DoorsAgree(b)
  BY <1>4 DEF DoorsAgree, mapCaseVerdict, mapRunResult, runRawCodeAssess, rawRun, Single, markTestFailed
<1>5. ASSUME b = "exit" PROVE DoorsAgree(b)
  BY <1>5 DEF DoorsAgree, mapCaseVerdict, mapRunResult, runRawCodeAssess, rawRun, Single, markTestFailed
<1>6. ASSUME b = "killed" PROVE DoorsAgree(b)
  BY <1>6 DEF DoorsAgree, mapCaseVerdict, mapRunResult, runRawCodeAssess, rawRun, Single, markTestFailed
<1>7. ASSUME b \in {"hangs", "slow"} PROVE DoorsAgree(b)
  BY <1>7 DEF DoorsAgree, mapCaseVerdict, mapRunResult, runRawCodeAssess, rawRun, Single, markTestFailed
<1>. QED
  BY <1>1, <1>2, <1>3, <1>4, <1>5, <1>6, <1>7

-----------------------------------------------------------------------------

\* What is judged does not change, and the partner is served.
JudgingIInv ==
    /\ program \in Programs /\ Late(program, due)
    /\ read \in 0..Len(Reports(shared))
    /\ PartnerIInv

\* The invariant holds.
LEMMA JudgingInvariant == JudgingSpec => []JudgingIInv
<1>1. InitJudging /\ InitPartner => JudgingIInv
  BY PartnerInit DEF InitJudging, JudgingIInv, Late, shared
<1>2. JudgingIInv /\ [PartnerNext /\ UNCHANGED judged]_<<judged, partner>> => JudgingIInv'
  <2>1. SUFFICES ASSUME JudgingIInv, [PartnerNext /\ UNCHANGED judged]_<<judged, partner>>
                 PROVE  JudgingIInv'
    OBVIOUS
  <2>2. UNCHANGED <<program, due, read>> /\ [PartnerNext]_partner
    BY <2>1 DEF judged
  <2>3. PartnerIInv'
    BY <2>1, <2>2, PartnerStep DEF JudgingIInv
  <2>. QED
    BY <2>1, <2>2, <2>3 DEF JudgingIInv, Late, shared, Reports
<1>. QED
  BY <1>1, <1>2, PTL DEF JudgingSpec

\* The runners agree on a program of any number of tests: one detail for each test and no Success
\* given away, whatever the batched one has read, and with all reports read the same stored
\* status (appendBatchedResults beside the run of a single test).
THEOREM RunnersDoAgree == JudgingSpec => []RunnersAgree
<1>1. JudgingIInv => RunnersAgree
  BY RunnersAgreeOn DEF JudgingIInv
<1>. QED
  BY <1>1, JudgingInvariant, PTL

\* A container in which a program was killed or did not end, or whose memory limit could not be
\* reset, is discarded, for programs of any length (shouldDiscardContainer).
THEOREM SpoiltContainersAreDiscarded == JudgingSpec => []SpoiltIsDiscarded
<1>1. JudgingIInv => SpoiltIsDiscarded
  BY SpoiltIsDiscardedOn DEF JudgingIInv
<1>. QED
  BY <1>1, JudgingInvariant, PTL

\* What a partner and a student are told of a result is what is stored, for every program, and no
\* failure behind the doors for partners lasts (mapSubmissionToArventiqVerdict beside
\* sanitizeSubmissionForStudent and SubmissionOutput).
THEOREM PartnersAreToldTheSame == JudgingSpec => []PartnerAgrees
<1>1. JudgingIInv => PartnerAgrees
  <2>1. SUFFICES ASSUME JudgingIInv PROVE PartnerAgrees
    OBVIOUS
  <2>2. PartnerServed
    BY <2>1 DEF JudgingIInv, PartnerIInv, PartnerServed
  <2>3. ASSUME Plain, NEW b \in Range(program) PROVE DoorsAgree(b)
    <3>1. b \in Behaviour
      BY <2>1, <2>3, ProgramsAreSequences, RangeIs DEF JudgingIInv
    <3>2. b \notin {"glue", "throws", "oom"}
      BY <2>3 DEF Plain
    <3>. QED
      BY <3>1, <3>2, DoorsDoAgree
  <2>4. ASSUME NEW r \in AllResults PROVE Sound(r)
    BY <2>1, ResultsAreSound DEF JudgingIInv
  <2>. QED
    BY <2>2, <2>3, <2>4, PartnerIsTold, ResultIsShown, NothingRunIsShown DEF PartnerAgrees
<1>. QED
  BY <1>1, JudgingInvariant, PTL

-----------------------------------------------------------------------------
(* The page for a problem, step by step.                                   *)

\* A form that is certified, or about to be, is the one that was looked at, or was edited since.
EditorIInv ==
    /\ checking # None =>
          /\ DOMAIN checking = {"payload", "edited"}
          /\ checking.edited = TRUE \/ Payload = checking.payload
    /\ isValidated /\ certified # None =>
          certified.edited = TRUE \/ Payload = certified.payload
    /\ isValidated /\ certified = None =>
          "referenceSolution" \in DOMAIN draft /\ draft.referenceSolution = ""

\* A page that asks for the solution refuses a form without one.
LEMMA NoSolution ==
    ASSUME "referenceSolution" \in DOMAIN draft, draft.referenceSolution = ""
    PROVE  ~Accepts
<1>1. Typed(draft).referenceSolution = ""
  BY DEF Typed
<1>2. payloadOf(Typed(draft)).referenceSolution = ""
  BY <1>1 DEF payloadOf
<1>. QED
  BY <1>2 DEF Accepts, formAccepts

\* Every edit withdraws the certificate and marks the report that is on its way.
LEMMA EditStep ==
    ASSUME EditorIInv, NEW f, edit(f)
    PROVE  EditorIInv'
<1>1. isValidated' = FALSE /\ certified' = None
  BY DEF edit, Remember
<1>2. checking' = IF checking = None THEN None ELSE [checking EXCEPT !.edited = TRUE]
  BY DEF edit
<1>3. checking' # None => DOMAIN checking' = {"payload", "edited"} /\ checking'.edited = TRUE
  <2>1. CASE checking = None
    BY <1>2, <2>1
  <2>2. CASE checking # None
    <3>1. DOMAIN checking = {"payload", "edited"}
      BY <2>2 DEF EditorIInv
    <3>. QED
      BY <1>2, <2>2, <3>1
  <2>. QED
    BY <2>1, <2>2
<1>. QED
  BY <1>1, <1>3 DEF EditorIInv

\* A page just opened.
LEMMA FreshStep == ASSUME fresh PROVE EditorIInv'
BY DEF fresh, EditorIInv

\* Every step of the page keeps it.
LEMMA EditorStep == EditorIInv /\ [EditorNext]_editor => EditorIInv'
<1> SUFFICES ASSUME EditorIInv, [EditorNext]_editor PROVE EditorIInv'
  OBVIOUS
<1>1. CASE openAdd
  BY <1>1, FreshStep DEF openAdd
<1>2. CASE openEdit
  <2>1. /\ draft' = [fetchProblem(stored) EXCEPT !.parameters = Fresh(@), !.testCases = Fresh(@)]
        /\ isValidated' = TRUE /\ checking' = None /\ certified' = None
    BY <1>2 DEF openEdit
  <2>2. /\ "referenceSolution" \in DOMAIN fetchProblem(stored)
        /\ fetchProblem(stored).referenceSolution = ""
    BY DEF fetchProblem
  <2>3. "referenceSolution" \in DOMAIN draft' /\ draft'.referenceSolution = ""
    BY <2>1, <2>2
  <2>. QED
    BY <2>1, <2>3 DEF EditorIInv
<1>3. CASE leave
  BY <1>3, FreshStep DEF leave
<1>4. CASE handleChange
  BY <1>4, EditStep DEF handleChange
<1>5. CASE handleCompareConfigChange
  BY <1>5, EditStep DEF handleCompareConfigChange
<1>6. CASE handleParamChange
  BY <1>6, EditStep DEF handleParamChange
<1>7. CASE addParameter
  BY <1>7, EditStep DEF addParameter
<1>8. CASE removeParameter
  BY <1>8, EditStep DEF removeParameter
<1>9. CASE handleTestCaseChange
  BY <1>9, EditStep DEF handleTestCaseChange
<1>10. CASE addTestCase
  BY <1>10, EditStep DEF addTestCase
<1>11. CASE removeTestCase
  BY <1>11, EditStep DEF removeTestCase
<1>12. CASE handleTemplateSelect
  BY <1>12, EditStep DEF handleTemplateSelect
<1>13. CASE requestReport
  <2>1. /\ isValidated' = FALSE
        /\ checking' = IF Accepts THEN [payload |-> Payload, edited |-> FALSE] ELSE None
        /\ UNCHANGED draft
    BY <1>13 DEF requestReport
  <2>2. Payload' = Payload
    BY <2>1 DEF Payload
  <2>. QED
    BY <2>1, <2>2 DEF EditorIInv
<1>14. CASE showReport
  <2>1. /\ checking # None /\ checking' = None /\ UNCHANGED draft
        /\ \/ isValidated' = TRUE /\ certified' = checking
           \/ UNCHANGED <<isValidated, certified>>
    BY <1>14 DEF showReport
  <2>2. Payload' = Payload
    BY <2>1 DEF Payload
  <2>3. CASE isValidated' = TRUE /\ certified' = checking
    BY <2>1, <2>2, <2>3 DEF EditorIInv
  <2>4. CASE UNCHANGED <<isValidated, certified>>
    BY <2>1, <2>2, <2>4 DEF EditorIInv
  <2>. QED
    BY <2>1, <2>3, <2>4
<1>15. CASE handleSubmit
  <2>1. fresh \/ UNCHANGED <<saved, draft, isValidated, checking, certified>>
    BY <1>15 DEF handleSubmit
  <2>2. CASE fresh
    BY <2>2, FreshStep
  <2>3. CASE UNCHANGED <<saved, draft, isValidated, checking, certified>>
    <3>1. Payload' = Payload
      BY <2>3 DEF Payload
    <3>. QED
      BY <2>3, <3>1 DEF EditorIInv
  <2>. QED
    BY <2>1, <2>2, <2>3
<1>16. CASE UNCHANGED editor
  <2>1. Payload' = Payload /\ UNCHANGED <<draft, isValidated, checking, certified>>
    BY <1>16 DEF Payload, editor
  <2>. QED
    BY <2>1 DEF EditorIInv
<1>. QED
  BY <1>1, <1>2, <1>3, <1>4, <1>5, <1>6, <1>7, <1>8, <1>9, <1>10, <1>11, <1>12,
     <1>13, <1>14, <1>15, <1>16 DEF EditorNext

\* A problem is sent only as it was certified, or edited while a report was under way, for any
\* rows, offers and saves (isValidated beside handleSubmit).
THEOREM OnlyWhatIsCertifiedIsSent == EditorSpec => OnlyCertifiedIsSent
<1> DEFINE Certified == handleSubmit => certified # None /\ (certified.edited \/ Payload = certified.payload)
<1>1. InitEditor => EditorIInv
  BY DEF InitEditor, EditorIInv
<1>2. EditorIInv /\ [EditorNext]_editor => [Certified]_editor
  <2>1. SUFFICES ASSUME EditorIInv, handleSubmit
                 PROVE  certified # None /\ (certified.edited \/ Payload = certified.payload)
    OBVIOUS
  <2>2. isValidated /\ Accepts
    BY <2>1 DEF handleSubmit
  <2>3. certified # None
    BY <2>1, <2>2, NoSolution DEF EditorIInv
  <2>. QED
    BY <2>1, <2>2, <2>3 DEF EditorIInv
<1>3. EditorIInv /\ [EditorNext]_editor => EditorIInv'
  BY EditorStep
<1>. QED
  BY <1>1, <1>2, <1>3, PTL DEF EditorSpec, OnlyCertifiedIsSent

-----------------------------------------------------------------------------
(* The pages for an assessment, step by step.                              *)

\* What a sheet, on the page or stored, can be.
Entries == [problemId : Listed, maxScore : Nat]

Problems == Seq(Entries)

Titles == {"", " ", "t"}

Sheets == [title : Titles, durationMinutes : Nat, startTime : Nat, endTime : Nat,
           allowedLanguages : BOOLEAN, problems : Problems]

\* No problem is listed twice.
Unrepeated(problems) == \A i, j \in DOMAIN problems :
                        problems[i].problemId = problems[j].problemId => i = j

\* What is stored: a sheet that passes the checks, and whose maxima are filled in.
Filed(doc) ==
    /\ doc \in Sheets /\ Unrepeated(doc.problems) /\ validateAssessmentForm(doc)
    /\ Stored(doc.problems) = doc.problems

\* No sheet lists a problem twice, and what is stored has passed the checks.
AuthoringIInv ==
    /\ ahead \in {0, 1}
    /\ sheet # Undefined => sheet \in Sheets /\ Unrepeated(sheet.problems)
    /\ kept # Undefined => Filed(kept)

\* The same, said of the function of ids.
LEMMA InjectiveIds ==
    ASSUME NEW s
    PROVE  Unrepeated(s) <=> IsInjective([i \in DOMAIN s |-> s[i].problemId])
<1> DEFINE f == [i \in DOMAIN s |-> s[i].problemId]
<1>1. IsInjective(f) <=> \A a, b \in DOMAIN s : f[a] = f[b] => a = b
  BY DEF IsInjective
<1>2. \A a \in DOMAIN s : f[a] = s[a].problemId
  OBVIOUS
<1> HIDE DEF f
<1>3. Unrepeated(s) <=> \A a, b \in DOMAIN s : f[a] = f[b] => a = b
  BY <1>2 DEF Unrepeated
<1>. QED
  BY <1>1, <1>3 DEF f

\* What is left of a list has none twice either.
LEMMA KeptSingle ==
    ASSUME NEW S, NEW s \in Seq(S), Unrepeated(s), NEW P \in SUBSET (DOMAIN s)
    PROVE  Kept(s, P) \in Seq(S) /\ Unrepeated(Kept(s, P))
<1> DEFINE C == Cardinality(P)
           t == Kept(s, P)
<1>1. Len(s) \in Nat /\ DOMAIN s = 1..Len(s) /\ P \in SUBSET (1..Len(s)) /\ \A i \in DOMAIN s : s[i] \in S
  OBVIOUS
<1>2. t \in Seq(S)
  BY <1>1, KeptFacts
<1>3. DOMAIN t = 1..C /\ \A k \in 1..C : Nth(P, k) \in P /\ t[k] = s[Nth(P, k)]
  BY <1>1, KeptFacts
<1>4. C \in Nat /\ \A k, l \in 1..C : k < l => Nth(P, k) < Nth(P, l)
  BY <1>1, Places
<1> HIDE DEF t, C
<1>5. ASSUME NEW k \in 1..C, NEW l \in 1..C, t[k].problemId = t[l].problemId PROVE k = l
  <2>1. Nth(P, k) = Nth(P, l)
    BY <1>1, <1>3, <1>5 DEF Unrepeated
  <2>2. Nth(P, k) \in Nat /\ ~(Nth(P, k) < Nth(P, k))
    BY <1>1, <1>3
  <2>3. ~(k < l) /\ ~(l < k)
    BY <1>4, <2>1, <2>2
  <2>. QED
    BY <1>4, <2>3
<1>. QED
  BY <1>2, <1>3, <1>5 DEF t, Unrepeated

\* Stored changes no id, and nothing that is positive into something that is not.
LEMMA StoredFacts ==
    ASSUME NEW s \in Seq(Entries)
    PROVE  /\ Stored(s) \in Seq(Entries) /\ DOMAIN Stored(s) = DOMAIN s
           /\ \A i \in DOMAIN s : Stored(s)[i].problemId = s[i].problemId
           /\ \A i \in DOMAIN s : s[i].maxScore > 0 => Stored(s)[i].maxScore > 0
           /\ Stored(Stored(s)) = Stored(s)
<1> DEFINE max(m) == IF m = Undefined THEN 100 ELSE m
           row(p) == [p EXCEPT !.maxScore = max(p.maxScore)]
<1>1. ASSUME NEW p \in Entries
      PROVE  /\ row(p) \in Entries /\ row(p).problemId = p.problemId
             /\ p.maxScore > 0 => row(p).maxScore > 0
             /\ row(row(p)) = row(p)
  <2>1. p.maxScore \in Nat
    BY DEF Entries
  <2>2. max(p.maxScore) \in Nat /\ max(max(p.maxScore)) = max(p.maxScore)
    BY <2>1
  <2>3. p.maxScore > 0 => max(p.maxScore) > 0
    BY <2>1
  <2> HIDE DEF max
  <2>4. row(p) \in Entries /\ row(p).problemId = p.problemId /\ row(p).maxScore = max(p.maxScore)
    BY <2>2 DEF Entries
  <2>5. row(row(p)) = [row(p) EXCEPT !.maxScore = row(p).maxScore]
    BY <2>2, <2>4
  <2>6. [row(p) EXCEPT !.maxScore = row(p).maxScore] = row(p)
    BY <2>4 DEF Entries
  <2>. QED
    BY <2>3, <2>4, <2>5, <2>6
<1>2. Len(s) \in Nat /\ DOMAIN s = 1..Len(s) /\ \A i \in DOMAIN s : s[i] \in Entries
  OBVIOUS
<1>3. Stored(s) = [i \in DOMAIN s |-> row(s[i])]
  BY DEF Stored
<1>4. Stored(Stored(s)) = [i \in DOMAIN Stored(s) |-> row(Stored(s)[i])]
  BY DEF Stored
<1> HIDE DEF row
<1>5. DOMAIN Stored(s) = 1..Len(s) /\ \A i \in DOMAIN s : Stored(s)[i] = row(s[i])
  BY <1>2, <1>3
<1>6. Stored(s) \in Seq(Entries)
  BY <1>1, <1>2, <1>3
<1>7. Stored(Stored(s)) = Stored(s)
  BY <1>1, <1>2, <1>3, <1>4, <1>5
<1>. QED
  BY <1>1, <1>2, <1>5, <1>6, <1>7

\* A page just opened.
LEMMA AuthoringInit == InitAuthoring => AuthoringIInv
BY DEF InitAuthoring, AuthoringIInv

\* What becomes of a sheet when a field changes, or its two times do.
LEMMA SheetFields ==
    ASSUME NEW s \in Sheets
    PROVE  /\ \A x \in Titles : [s EXCEPT !.title = x] \in Sheets
                              /\ [s EXCEPT !.title = x].problems = s.problems
           /\ \A x \in Nat : [s EXCEPT !.durationMinutes = x] \in Sheets
                           /\ [s EXCEPT !.durationMinutes = x].problems = s.problems
           /\ \A x \in Nat : [s EXCEPT !.startTime = x] \in Sheets
                           /\ [s EXCEPT !.startTime = x].problems = s.problems
           /\ \A x \in Nat : [s EXCEPT !.endTime = x] \in Sheets
                           /\ [s EXCEPT !.endTime = x].problems = s.problems
<1>1. ASSUME NEW x \in Titles
      PROVE  [s EXCEPT !.title = x] \in Sheets /\ [s EXCEPT !.title = x].problems = s.problems
  BY DEF Sheets
<1>2. ASSUME NEW x \in Nat
      PROVE  /\ [s EXCEPT !.durationMinutes = x] \in Sheets
             /\ [s EXCEPT !.durationMinutes = x].problems = s.problems
  BY DEF Sheets
<1>3. ASSUME NEW x \in Nat
      PROVE  [s EXCEPT !.startTime = x] \in Sheets /\ [s EXCEPT !.startTime = x].problems = s.problems
  BY DEF Sheets
<1>4. ASSUME NEW x \in Nat
      PROVE  [s EXCEPT !.endTime = x] \in Sheets /\ [s EXCEPT !.endTime = x].problems = s.problems
  BY DEF Sheets
<1>. QED
  BY <1>1, <1>2, <1>3, <1>4

\* The times as the author's clock has them.
LEMMA FetchedFields ==
    ASSUME NEW s \in Sheets, ahead \in {0, 1}
    PROVE  LET again == fetchAssessment(s)
           IN  /\ again \in Sheets /\ again.problems = s.problems /\ again.title = s.title
               /\ again.durationMinutes = s.durationMinutes
               /\ again.allowedLanguages = s.allowedLanguages
               /\ again.startTime = s.startTime + ahead /\ again.endTime = s.endTime + ahead
<1>1. s.startTime + ahead \in Nat /\ s.endTime + ahead \in Nat
  BY DEF Sheets
<1>2. fetchAssessment(s) = [s EXCEPT !.startTime = s.startTime + ahead, !.endTime = s.endTime + ahead]
  BY DEF fetchAssessment, formatDate
<1>. QED
  BY <1>1, <1>2 DEF Sheets

\* An edit of one field leaves the list as it is.
LEMMA FieldStep ==
    ASSUME AuthoringIInv, sheet # Undefined, UNCHANGED <<kept, ahead>>,
           NEW new \in Sheets, sheet' = new, Unrepeated(new.problems)
    PROVE  AuthoringIInv'
BY DEF AuthoringIInv

\* Every step of the page for an assessment keeps it.
LEMMA AuthoringStep == AuthoringIInv /\ [AuthoringNext]_authoring => AuthoringIInv'
<1> SUFFICES ASSUME AuthoringIInv, [AuthoringNext]_authoring PROVE AuthoringIInv'
  OBVIOUS
<1>1. CASE openAddAssessment
  <2>1. EmptySheet \in Sheets /\ Unrepeated(EmptySheet.problems)
    <3>1. PICK none : none = ""
      OBVIOUS
    <3>2. EmptySheet = [title |-> none, durationMinutes |-> 60, startTime |-> 0, endTime |-> 0,
                        allowedLanguages |-> TRUE, problems |-> <<>>]
      BY <3>1 DEF EmptySheet
    <3>3. <<>> \in Problems /\ none \in Titles
      <4>1. <<>> \in Seq(Entries)
        OBVIOUS
      <4>2. none \in Titles
        BY <3>1 DEF Titles
      <4>. QED
        BY <4>1, <4>2 DEF Problems
    <3>4. EmptySheet \in Sheets /\ EmptySheet.problems = <<>>
      BY <3>2, <3>3 DEF Sheets
    <3>. QED
      BY <3>4 DEF Unrepeated
  <2>. QED
    BY <1>1, <2>1 DEF AuthoringIInv, openAddAssessment
<1>2. CASE openEditAssessment
  <2>1. kept # Undefined /\ kept \in Sheets /\ Unrepeated(kept.problems) /\ ahead \in {0, 1}
    BY <1>2 DEF openEditAssessment, AuthoringIInv, Filed
  <2>2. fetchAssessment(kept) \in Sheets /\ fetchAssessment(kept).problems = kept.problems
    BY <2>1, FetchedFields
  <2>. QED
    BY <1>2, <2>1, <2>2 DEF openEditAssessment, AuthoringIInv
<1>3. CASE changeField
  <2>1. sheet # Undefined /\ sheet \in Sheets /\ Unrepeated(sheet.problems)
    BY <1>3 DEF changeField, AuthoringIInv
  <2>2. CASE \E title \in {" ", "t"} : edits([sheet EXCEPT !.title = title])
    <3>1. PICK title \in {" ", "t"} : edits([sheet EXCEPT !.title = title])
      BY <2>2
    <3>2. title \in Titles
      BY DEF Titles
    <3>3. [sheet EXCEPT !.title = title] \in Sheets /\ [sheet EXCEPT !.title = title].problems = sheet.problems
      BY <2>1, <3>2, SheetFields
    <3>. QED
      BY <2>1, <3>1, <3>3, FieldStep DEF edits
  <2>3. CASE \E minutes \in {0, 60} : edits([sheet EXCEPT !.durationMinutes = minutes])
    <3>1. PICK minutes \in {0, 60} : edits([sheet EXCEPT !.durationMinutes = minutes])
      BY <2>3
    <3>2. /\ [sheet EXCEPT !.durationMinutes = minutes] \in Sheets
          /\ [sheet EXCEPT !.durationMinutes = minutes].problems = sheet.problems
      BY <2>1, SheetFields
    <3>. QED
      BY <2>1, <3>1, <3>2, FieldStep DEF edits
  <2>4. CASE \E time \in {1, 2} : edits([sheet EXCEPT !.startTime = time])
    <3>1. PICK time \in {1, 2} : edits([sheet EXCEPT !.startTime = time])
      BY <2>4
    <3>2. /\ [sheet EXCEPT !.startTime = time] \in Sheets
          /\ [sheet EXCEPT !.startTime = time].problems = sheet.problems
      BY <2>1, SheetFields
    <3>. QED
      BY <2>1, <3>1, <3>2, FieldStep DEF edits
  <2>5. CASE \E time \in {0, 2} : edits([sheet EXCEPT !.endTime = time])
    <3>1. PICK time \in {0, 2} : edits([sheet EXCEPT !.endTime = time])
      BY <2>5
    <3>2. /\ [sheet EXCEPT !.endTime = time] \in Sheets
          /\ [sheet EXCEPT !.endTime = time].problems = sheet.problems
      BY <2>1, SheetFields
    <3>. QED
      BY <2>1, <3>1, <3>2, FieldStep DEF edits
  <2>6. CASE \E some \in BOOLEAN : edits([sheet EXCEPT !.allowedLanguages = some])
    <3>1. PICK some \in BOOLEAN : edits([sheet EXCEPT !.allowedLanguages = some])
      BY <2>6
    <3>2. /\ [sheet EXCEPT !.allowedLanguages = some] \in Sheets
          /\ [sheet EXCEPT !.allowedLanguages = some].problems = sheet.problems
      BY <2>1 DEF Sheets
    <3>. QED
      BY <2>1, <3>1, <3>2, FieldStep DEF edits
  <2>. QED
    BY <1>3, <2>2, <2>3, <2>4, <2>5, <2>6 DEF changeField
<1>4. CASE addProblemToAssessment
  <2>1. sheet # Undefined /\ sheet \in Sheets /\ Unrepeated(sheet.problems)
    BY <1>4 DEF addProblemToAssessment, AuthoringIInv
  <2>2. PICK id \in Listed \ deleted :
          /\ \A p \in Range(sheet.problems) : p.problemId # id
          /\ edits([sheet EXCEPT !.problems = Append(@, [problemId |-> id, maxScore |-> 2])])
    BY <1>4 DEF addProblemToAssessment
  <2> DEFINE old == sheet.problems
             more == Append(old, [problemId |-> id, maxScore |-> 2])
             new == [sheet EXCEPT !.problems = more]
  <2>3. old \in Seq(Entries)
    BY <2>1 DEF Sheets, Problems
  <2>4. \A i \in DOMAIN old : old[i].problemId # id
    BY <2>2, RangeIs
  <2>5. Unrepeated(old)
    BY <2>1
  <2> HIDE DEF old
  <2>6. more \in Problems
    <3>1. [problemId |-> id, maxScore |-> 2] \in Entries
      BY DEF Entries
    <3>. QED
      BY <2>3, <3>1 DEF Problems
  <2>7. Unrepeated(more)
    BY <2>3, <2>4, <2>5 DEF Unrepeated
  <2> HIDE DEF more
  <2>8. new \in Sheets /\ new.problems = more
    BY <2>1, <2>6 DEF Sheets
  <2>9. sheet' = new /\ UNCHANGED <<kept, ahead>>
    BY <2>2 DEF edits, more, old
  <2>. QED
    BY <2>1, <2>7, <2>8, <2>9, FieldStep
<1>5. CASE removeProblem
  <2>1. sheet # Undefined /\ sheet \in Sheets /\ Unrepeated(sheet.problems)
    BY <1>5 DEF removeProblem, AuthoringIInv
  <2>2. PICK id \in Listed :
          edits([sheet EXCEPT !.problems = Kept(@, {i \in DOMAIN @ : @[i].problemId # id})])
    BY <1>5 DEF removeProblem
  <2> DEFINE rest == Kept(sheet.problems, {i \in DOMAIN sheet.problems : sheet.problems[i].problemId # id})
             new == [sheet EXCEPT !.problems = rest]
  <2>3. sheet.problems \in Seq(Entries)
    BY <2>1 DEF Sheets, Problems
  <2>4. rest \in Problems /\ Unrepeated(rest)
    BY <2>1, <2>3, KeptSingle DEF Problems
  <2> HIDE DEF rest
  <2>5. new \in Sheets /\ new.problems = rest
    BY <2>1, <2>4 DEF Sheets
  <2>6. sheet' = new /\ UNCHANGED <<kept, ahead>>
    BY <2>2 DEF edits, rest
  <2>. QED
    BY <2>1, <2>4, <2>5, <2>6, FieldStep
<1>6. CASE updateProblemScore
  <2>1. sheet # Undefined /\ sheet \in Sheets /\ Unrepeated(sheet.problems)
    BY <1>6 DEF updateProblemScore, AuthoringIInv
  <2>2. PICK i \in DOMAIN sheet.problems, score \in {0, 2} :
          edits([sheet EXCEPT !.problems[i].maxScore = score])
    BY <1>6 DEF updateProblemScore
  <2> DEFINE old == sheet.problems
             rest == [old EXCEPT ![i].maxScore = score]
             new == [sheet EXCEPT !.problems = rest]
  <2>3. old \in Seq(Entries)
    BY <2>1 DEF Sheets, Problems
  <2>4. Unrepeated(old) /\ i \in DOMAIN old
    BY <2>1
  <2>5. sheet' = new /\ UNCHANGED <<kept, ahead>>
    BY <2>2 DEF edits
  <2> HIDE DEF old
  <2>6. rest \in Problems
    <3>1. [old[i] EXCEPT !.maxScore = score] \in Entries
      <4>1. old[i] \in Entries
        BY <2>3, <2>4
      <4>2. score \in Nat
        OBVIOUS
      <4>. QED
        BY <4>1, <4>2 DEF Entries
    <3>2. rest = [old EXCEPT ![i] = [old[i] EXCEPT !.maxScore = score]]
      OBVIOUS
    <3>. QED
      BY <2>3, <2>4, <3>1, <3>2 DEF Problems
  <2>7. DOMAIN rest = DOMAIN old /\ \A k \in DOMAIN old : rest[k].problemId = old[k].problemId
    BY <2>3, <2>4
  <2>8. Unrepeated(rest)
    BY <2>4, <2>7 DEF Unrepeated
  <2> HIDE DEF rest
  <2>9. new \in Sheets /\ new.problems = rest
    BY <2>1, <2>6 DEF Sheets
  <2>. QED
    BY <2>1, <2>5, <2>8, <2>9, FieldStep
<1>7. CASE saveAssessment
  <2>1. sheet # Undefined /\ sheet \in Sheets /\ Unrepeated(sheet.problems) /\ validateAssessmentForm(sheet)
    BY <1>7 DEF saveAssessment, AuthoringIInv
  <2>2. CASE kept' = createAssessment(sheet) /\ sheet' = Undefined /\ UNCHANGED ahead
    <3> DEFINE list == Stored(sheet.problems)
               new == createAssessment(sheet)
    <3>1. sheet.problems \in Seq(Entries)
      BY <2>1 DEF Sheets, Problems
    <3>2. /\ list \in Problems /\ DOMAIN list = DOMAIN sheet.problems
          /\ \A i \in DOMAIN list : list[i].problemId = sheet.problems[i].problemId
          /\ \A i \in DOMAIN list : sheet.problems[i].maxScore > 0 => list[i].maxScore > 0
          /\ Stored(list) = list
      BY <3>1, StoredFacts DEF Problems
    <3>3. Unrepeated(list)
      BY <2>1, <3>2 DEF Unrepeated
    <3>4. list # <<>> /\ \A p \in Range(list) : p.maxScore > 0
      <4>1. \A p \in Range(sheet.problems) : p.maxScore > 0
        BY <2>1 DEF validateAssessmentForm
      <4>2. \A i \in DOMAIN sheet.problems : sheet.problems[i].maxScore > 0
        BY <4>1, RangeIs
      <4>3. \A i \in DOMAIN list : list[i].maxScore > 0
        BY <3>2, <4>2
      <4>4. DOMAIN sheet.problems # {}
        <5>1. sheet.problems # <<>>
          BY <2>1 DEF validateAssessmentForm
        <5>2. Len(sheet.problems) \in Nat \ {0} /\ DOMAIN sheet.problems = 1..Len(sheet.problems)
          BY <3>1, <5>1
        <5>3. 1 \in 1..Len(sheet.problems)
          BY <5>2
        <5>. QED
          BY <5>2, <5>3
      <4> HIDE DEF list
      <4>. QED
        BY <3>2, <4>3, <4>4, RangeIs
    <3> HIDE DEF list
    <3>5. /\ new \in Sheets /\ new.problems = list /\ new.title = sheet.title
          /\ new.durationMinutes = sheet.durationMinutes /\ new.startTime = sheet.startTime
          /\ new.endTime = sheet.endTime /\ new.allowedLanguages = sheet.allowedLanguages
      <4>1. new = [sheet EXCEPT !.problems = list]
        BY DEF createAssessment, list
      <4>. QED
        BY <2>1, <3>2, <4>1 DEF Sheets
    <3> HIDE DEF new
    <3>6. validateAssessmentForm(new)
      BY <2>1, <3>4, <3>5 DEF validateAssessmentForm
    <3>7. Filed(new)
      BY <3>2, <3>3, <3>5, <3>6 DEF Filed
    <3>8. kept' = new /\ sheet' = Undefined /\ ahead' = ahead
      BY <2>2 DEF new
    <3>. QED
      BY <3>7, <3>8 DEF AuthoringIInv
  <2>3. CASE UNCHANGED <<sheet, kept, ahead>>
    BY <2>3 DEF AuthoringIInv
  <2>. QED
    BY <1>7, <2>2, <2>3 DEF saveAssessment
<1>8. CASE cancelAssessment
  BY <1>8 DEF cancelAssessment, AuthoringIInv
<1>9. CASE deleteProblem
  BY <1>9 DEF deleteProblem, AuthoringIInv
<1>10. CASE UNCHANGED authoring
  BY <1>10 DEF authoring, AuthoringIInv
<1>. QED
  BY <1>1, <1>2, <1>3, <1>4, <1>5, <1>6, <1>7, <1>8, <1>9, <1>10 DEF AuthoringNext

\* Nothing but a sheet that is complete reaches the API, and it is stored.
LEMMA WhatPassesIsStored == AuthoringIInv => SheetIsStored
<1> SUFFICES ASSUME AuthoringIInv, sheet # Undefined, validateAssessmentForm(sheet)
             PROVE  storesAssessment(sheet)
  BY DEF SheetIsStored
<1>1. sheet \in Sheets /\ Unrepeated(sheet.problems)
  BY DEF AuthoringIInv
<1>2. validateRest(sheet)
  BY DEF validateAssessmentForm, validateRest
<1>3. IsInjective([i \in DOMAIN sheet.problems |-> sheet.problems[i].problemId])
  BY <1>1, InjectiveIds
<1>4. sheet.problems # <<>> /\ \A p \in Range(sheet.problems) : p.maxScore > 0
  BY DEF validateAssessmentForm
<1>. QED
  BY <1>2, <1>3, <1>4 DEF storesAssessment, validateAssessmentPayload

\* What is stored comes back whole, but for its times.
LEMMA OpenedAndSaved == AuthoringIInv => SheetPreserves
<1> SUFFICES ASSUME AuthoringIInv, kept # Undefined, opens(kept)
             PROVE  LET again == fetchAssessment(kept)
                    IN  /\ validateAssessmentForm(again) /\ storesAssessment(again)
                        /\ createAssessment(again) =
                              [kept EXCEPT !.startTime = @ + ahead, !.endTime = @ + ahead]
  BY DEF SheetPreserves
<1> DEFINE again == fetchAssessment(kept)
<1>1. /\ kept \in Sheets /\ Unrepeated(kept.problems) /\ validateAssessmentForm(kept)
      /\ Stored(kept.problems) = kept.problems /\ ahead \in {0, 1}
  BY DEF AuthoringIInv, Filed
<1>2. /\ again \in Sheets /\ again.problems = kept.problems /\ again.title = kept.title
      /\ again.durationMinutes = kept.durationMinutes
      /\ again.allowedLanguages = kept.allowedLanguages
      /\ again.startTime = kept.startTime + ahead /\ again.endTime = kept.endTime + ahead
  BY <1>1, FetchedFields
<1>3. kept.startTime \in Nat /\ kept.endTime \in Nat
  BY <1>1 DEF Sheets
<1>4. again = [kept EXCEPT !.startTime = @ + ahead, !.endTime = @ + ahead]
  BY DEF fetchAssessment, formatDate
<1> HIDE DEF again
<1>5. again.startTime # 0 /\ again.endTime # 0 /\ again.startTime < again.endTime
  <2>1. kept.startTime # 0 /\ kept.endTime # 0 /\ kept.startTime < kept.endTime
    BY <1>1 DEF validateAssessmentForm
  <2>. QED
    BY <1>1, <1>2, <1>3, <2>1
<1>6. validateAssessmentForm(again)
  BY <1>1, <1>2, <1>5 DEF validateAssessmentForm
<1>7. validateRest(again)
  BY <1>6 DEF validateAssessmentForm, validateRest
<1>8. IsInjective([i \in DOMAIN again.problems |-> again.problems[i].problemId])
  BY <1>1, <1>2, InjectiveIds
<1>9. again.problems # <<>> /\ \A p \in Range(again.problems) : p.maxScore > 0
  BY <1>6 DEF validateAssessmentForm
<1>10. storesAssessment(again)
  BY <1>7, <1>8, <1>9 DEF storesAssessment, validateAssessmentPayload
<1>11. createAssessment(again) = again
  <2>1. createAssessment(again) = [again EXCEPT !.problems = Stored(again.problems)]
    BY DEF createAssessment
  <2>2. Stored(again.problems) = again.problems
    BY <1>1, <1>2
  <2>3. [again EXCEPT !.problems = again.problems] = again
    BY <1>2 DEF Sheets
  <2>. QED
    BY <2>1, <2>2, <2>3
<1>. QED
  BY <1>4, <1>6, <1>10, <1>11 DEF again

-----------------------------------------------------------------------------
(* A problem: the form, the request, the document, and the form again.     *)

\* What a request keeps of the form, and what is stored of it.
LEMMA SentFields ==
    ASSUME NEW f
    PROVE  LET sent == payloadOf(f)
           IN  /\ DOMAIN sent = {"title", "functionName", "parameters", "returnType",
                                 "compareConfig", "testCases", "referenceSolution"}
               /\ sent.title = f.title /\ sent.functionName = f.functionName
               /\ sent.parameters = normalizeParameters(f.parameters)
               /\ sent.returnType = f.returnType /\ sent.compareConfig = f.compareConfig
               /\ sent.testCases = normalizeTestCases(f.testCases)
               /\ sent.referenceSolution = f.referenceSolution
BY DEF payloadOf

\* What normalizeProblemPayload makes of the tests.
NormalTests(tests) ==
    [i \in DOMAIN tests |->
        [inputs |-> tests[i].inputs, expected |-> tests[i].expected,
         isSample |-> tests[i].isSample, isHidden |-> ~tests[i].isSample]]

\* The normalized payload, field by field.
LEMMA NormalFields ==
    ASSUME NEW f
    PROVE  LET sent == payloadOf(f)
               n    == normalizeProblemPayload(sent)
           IN  /\ DOMAIN n = DOMAIN sent
               /\ n.title = sent.title /\ n.functionName = sent.functionName
               /\ n.parameters = sent.parameters /\ n.returnType = sent.returnType
               /\ n.compareConfig = sent.compareConfig
               /\ n.referenceSolution = sent.referenceSolution
               /\ n.testCases = NormalTests(sent.testCases)
<1> DEFINE sent == payloadOf(f)
           tests == NormalTests(sent.testCases)
<1>1. normalizeProblemPayload(sent) = [sent EXCEPT !.testCases = tests]
  BY DEF normalizeProblemPayload, NormalTests
<1>2. DOMAIN sent = {"title", "functionName", "parameters", "returnType",
                     "compareConfig", "testCases", "referenceSolution"}
  BY SentFields
<1> HIDE DEF sent, tests
<1>3. [sent EXCEPT !.testCases = tests].testCases = tests
  BY <1>2
<1>. QED
  BY <1>1, <1>2, <1>3 DEF sent, tests

\* A normalized test, field by field.
LEMMA NormalTestFields ==
    ASSUME NEW tests
    PROVE  /\ DOMAIN NormalTests(tests) = DOMAIN tests
           /\ \A i \in DOMAIN tests :
                 /\ NormalTests(tests)[i].inputs = tests[i].inputs
                 /\ NormalTests(tests)[i].expected = tests[i].expected
                 /\ NormalTests(tests)[i].isSample = tests[i].isSample
BY DEF NormalTests

\* Neither normalization makes tests out of nothing, nor loses them all.
LEMMA NoTests ==
    ASSUME NEW tests
    PROVE  /\ normalizeTestCases(tests) = <<>> <=> DOMAIN tests = {}
           /\ NormalTests(tests) = <<>> <=> DOMAIN tests = {}
<1>1. NormalTests(tests) = <<>> <=> DOMAIN tests = {}
  <2> DEFINE t == NormalTests(tests)
  <2>1. t = [i \in DOMAIN t |-> t[i]] /\ DOMAIN t = DOMAIN tests
    BY DEF NormalTests
  <2> HIDE DEF t
  <2>2. t = <<>> <=> DOMAIN t = {}
    BY <2>1
  <2>. QED
    BY <2>1, <2>2 DEF t
<1>2. normalizeTestCases(tests) = <<>> <=> DOMAIN tests = {}
  <2> DEFINE t == normalizeTestCases(tests)
  <2>1. t = [i \in DOMAIN t |-> t[i]] /\ DOMAIN t = DOMAIN tests
    BY DEF normalizeTestCases
  <2> HIDE DEF t
  <2>2. t = <<>> <=> DOMAIN t = {}
    BY <2>1
  <2>. QED
    BY <2>1, <2>2 DEF t
<1>. QED
  BY <1>1, <1>2

\* What the two validators look at is the same before and after it is normalized.
LEMMA NormalizedAlike ==
    ASSUME NEW f
    PROVE  LET sent == payloadOf(f)
               n    == normalizeProblemPayload(sent)
           IN  /\ schemaValid(sent) <=> schemaValid(n)
               /\ typeValidation(sent) <=> typeValidation(n)
               /\ \A c : validateProblemDefinition(sent, c) <=> validateProblemDefinition(n, c)
<1> DEFINE sent == payloadOf(f)
           n == normalizeProblemPayload(sent)
<1>1. /\ n.title = sent.title /\ n.functionName = sent.functionName
      /\ n.parameters = sent.parameters /\ n.returnType = sent.returnType
      /\ n.compareConfig = sent.compareConfig
      /\ n.referenceSolution = sent.referenceSolution
      /\ n.testCases = NormalTests(sent.testCases)
  BY NormalFields
<1>2. /\ DOMAIN n.testCases = DOMAIN sent.testCases
      /\ \A i \in DOMAIN sent.testCases :
            /\ n.testCases[i].inputs = sent.testCases[i].inputs
            /\ n.testCases[i].expected = sent.testCases[i].expected
  BY <1>1, NormalTestFields
<1>3. n.testCases # <<>> <=> sent.testCases # <<>>
  <2>1. sent.testCases = normalizeTestCases(f.testCases)
    BY SentFields
  <2>2. sent.testCases = <<>> <=> DOMAIN f.testCases = {}
    BY <2>1, NoTests
  <2>3. DOMAIN sent.testCases = DOMAIN f.testCases
    BY <2>1 DEF normalizeTestCases
  <2>4. n.testCases = <<>> <=> DOMAIN sent.testCases = {}
    BY <1>1, NoTests
  <2>. QED
    BY <2>2, <2>3, <2>4
<1> HIDE DEF n, sent
<1>4. (\A t \in Range(sent.testCases) : t.inputs[1] = "array") <=> (\A t \in Range(n.testCases) : t.inputs[1] = "array")
  BY <1>2, RangeIs
<1>5. schemaValid(sent) <=> schemaValid(n)
  BY <1>1, <1>3, <1>4 DEF schemaValid
<1>6. typeValidation(sent) <=> typeValidation(n)
  <2> DEFINE fine(t) ==
          /\ Len(t.inputs[2]) = Len(sent.parameters)
          /\ \A j \in DOMAIN sent.parameters : validateData(t.inputs[2][j], sent.parameters[j].type)
          /\ validateData(t.expected, sent.returnType)
  <2>1. \A i \in DOMAIN sent.testCases : fine(sent.testCases[i]) <=> fine(n.testCases[i])
    BY <1>2
  <2>2. typeValidation(sent) <=> /\ isValidType(sent.returnType)
                                 /\ \A q \in Range(sent.parameters) : isValidType(q.type)
                                 /\ \A t \in Range(sent.testCases) : fine(t)
    BY DEF typeValidation
  <2>3. typeValidation(n) <=> /\ isValidType(n.returnType)
                              /\ \A q \in Range(n.parameters) : isValidType(q.type)
                              /\ \A t \in Range(n.testCases) : fine(t)
    BY <1>1 DEF typeValidation
  <2> HIDE DEF fine
  <2>4. (\A t \in Range(sent.testCases) : fine(t)) <=> (\A t \in Range(n.testCases) : fine(t))
    BY <1>2, <2>1, RangeIs
  <2>. QED
    BY <1>1, <2>2, <2>3, <2>4
<1>7. ASSUME NEW c
      PROVE  validateProblemDefinition(sent, c) <=> validateProblemDefinition(n, c)
  BY <1>1, <1>5, <1>6 DEF validateProblemDefinition
<1>. QED
  BY <1>5, <1>6, <1>7 DEF n, sent

\* The form's own checks look only at what it sends.
FormChecks(p) ==
    /\ p.title # "" /\ Identifier(p.functionName) /\ isValidType(p.returnType)
    /\ p.referenceSolution # "" /\ p.parameters # <<>>
    /\ \A q \in Range(p.parameters) : Identifier(q.name) /\ isValidType(q.type)
    /\ p.testCases # <<>>
    /\ \A t \in Range(p.testCases) :
          t.inputs[1] = "array" /\ Len(t.inputs[2]) = Len(p.parameters)
    /\ \E t \in Range(p.testCases) : t.isSample

\* So they do.
LEMMA FormChecked == ASSUME NEW f PROVE formAccepts(f) <=> FormChecks(payloadOf(f))
BY DEF formAccepts, FormChecks

\* The tests a form sends are a sequence, each with what its row says.
LEMMA SentTests ==
    ASSUME NEW f, IsForm(f)
    PROVE  LET tests == payloadOf(f).testCases
           IN  /\ Len(f.testCases) \in Nat /\ DOMAIN tests = 1..Len(f.testCases)
               /\ \A i \in DOMAIN tests :
                     /\ tests[i] = [inputs |-> tests[i].inputs, expected |-> tests[i].expected,
                                    isSample |-> tests[i].isSample]
                     /\ tests[i].isSample \in BOOLEAN
                     /\ tests[i].expected = normalizeExpectedValue(f.testCases[i].expected)
                     /\ IsField(f.testCases[i].expected)
<1> DEFINE tests == payloadOf(f).testCases
           rows == f.testCases
<1>1. tests = normalizeTestCases(rows)
  BY SentFields
<1>2. rows \in Seq(Range(rows))
  BY DEF IsForm
<1>3. \A i \in DOMAIN rows : rows[i].isSample \in BOOLEAN /\ IsField(rows[i].expected)
  BY RangeIs DEF IsForm
<1> HIDE DEF rows
<1>4. Len(rows) \in Nat /\ DOMAIN rows = 1..Len(rows)
  BY <1>2
<1>5. DOMAIN tests = DOMAIN rows
  BY <1>1 DEF normalizeTestCases
<1>6. \A i \in DOMAIN rows :
         tests[i] = [inputs |-> IF rows[i].inputs[1] = "json" THEN rows[i].inputs[2] ELSE Null,
                     expected |-> normalizeExpectedValue(rows[i].expected),
                     isSample |-> rows[i].isSample]
  BY <1>1 DEF normalizeTestCases
<1>7. ASSUME NEW i \in DOMAIN tests
      PROVE  /\ tests[i] = [inputs |-> tests[i].inputs, expected |-> tests[i].expected,
                            isSample |-> tests[i].isSample]
             /\ tests[i].isSample = rows[i].isSample
             /\ tests[i].expected = normalizeExpectedValue(rows[i].expected)
  <2> DEFINE in == IF rows[i].inputs[1] = "json" THEN rows[i].inputs[2] ELSE Null
             out == normalizeExpectedValue(rows[i].expected)
  <2>1. tests[i] = [inputs |-> in, expected |-> out, isSample |-> rows[i].isSample]
    BY <1>5, <1>6
  <2> HIDE DEF in, out
  <2>2. tests[i].inputs = in /\ tests[i].expected = out /\ tests[i].isSample = rows[i].isSample
    BY <2>1
  <2>. QED
    BY <2>1, <2>2 DEF out
<1>. QED
  BY <1>3, <1>4, <1>5, <1>7 DEF rows

\* A student gets one test or more of what is sent with a sample.
LEMMA SampleIsShown ==
    ASSUME NEW f, IsForm(f), \E t \in Range(payloadOf(f).testCases) : t.isSample
    PROVE  sanitizeProblemForStudent(createProblem(payloadOf(f))).testCases # <<>>
<1> DEFINE sent == payloadOf(f)
           n == normalizeProblemPayload(sent)
           tests == n.testCases
           doc == createProblem(sent)
           P == {i \in DOMAIN tests : tests[i].isSample}
           shown == Kept(tests, P)
<1>1. /\ DOMAIN n = {"title", "functionName", "parameters", "returnType",
                     "compareConfig", "testCases", "referenceSolution"}
      /\ tests = NormalTests(sent.testCases)
  BY NormalFields, SentFields
<1>2. /\ DOMAIN tests = 1..Len(f.testCases) /\ Len(f.testCases) \in Nat
      /\ \A i \in DOMAIN tests : tests[i].isSample = sent.testCases[i].isSample
  BY <1>1, SentTests, NormalTestFields
<1>3. PICK i \in DOMAIN tests : tests[i].isSample
  <2>1. DOMAIN tests = DOMAIN sent.testCases
    BY <1>1, NormalTestFields
  <2>. QED
    BY <1>2, <2>1, RangeIs
<1>4. DOMAIN doc = DOMAIN n \ {"referenceSolution"} /\ doc.testCases = tests
  BY <1>1 DEF createProblem
<1>5. sanitizeProblemForStudent(doc) =
         [doc EXCEPT !.testCases = Kept(doc.testCases, {j \in DOMAIN doc.testCases : doc.testCases[j].isSample})]
  BY DEF sanitizeProblemForStudent
<1> HIDE DEF n, tests, doc
<1>6. sanitizeProblemForStudent(doc).testCases = shown
  <2>1. sanitizeProblemForStudent(doc) = [doc EXCEPT !.testCases = shown]
    BY <1>4, <1>5
  <2>2. "testCases" \in DOMAIN doc
    BY <1>1, <1>4
  <2> HIDE DEF shown
  <2>. QED
    BY <2>1, <2>2
<1>7. shown # <<>>
  <2> DEFINE len == Len(f.testCases)
  <2>1. P \in SUBSET (1..len) /\ i \in P /\ len \in Nat
    BY <1>2, <1>3
  <2> HIDE DEF P, len
  <2>2. PICK k \in 1..Cardinality(P) : Nth(P, k) = i
    BY <2>1, Places
  <2>3. DOMAIN shown = 1..Cardinality(P)
    BY DEF Kept
  <2> HIDE DEF shown
  <2>4. DOMAIN shown # {}
    BY <2>2, <2>3
  <2>. QED
    BY <2>4
<1>. QED
  BY <1>6, <1>7 DEF doc

\* What the form accepts and the judge certifies is stored, and shown with a sample.
LEMMA AuthoredCertified ==
    ASSUME InitAuthored, SheetIsStored
    PROVE  CertifiedIsStored
<1> DEFINE sent == payloadOf(form)
           n == normalizeProblemPayload(sent)
<1>1. SUFFICES ASSUME formAccepts(form), \A t \in Range(sent.testCases) : t.expected # Null
               PROVE  /\ handleValidate(form, certifies) <=> accepted(sent, certifies)
                      /\ accepted(sent, certifies) =>
                            sanitizeProblemForStudent(createProblem(sent)).testCases # <<>>
  BY DEF CertifiedIsStored
<1>2. IsForm(form)
  BY DEF InitAuthored
<1>3. FormChecks(sent)
  BY <1>1, FormChecked
<1>4. /\ schemaValid(sent) <=> schemaValid(n)
      /\ validateProblemDefinition(sent, certifies) <=> validateProblemDefinition(n, certifies)
  BY NormalizedAlike
<1>5. /\ n.title = sent.title /\ n.functionName = sent.functionName
      /\ n.parameters = sent.parameters /\ n.returnType = sent.returnType
      /\ n.compareConfig = sent.compareConfig
      /\ n.testCases = NormalTests(sent.testCases)
  BY NormalFields
<1>6. /\ DOMAIN n.testCases = DOMAIN sent.testCases
      /\ \A i \in DOMAIN sent.testCases :
            /\ n.testCases[i].inputs = sent.testCases[i].inputs
            /\ n.testCases[i].expected = sent.testCases[i].expected
            /\ n.testCases[i].isSample = sent.testCases[i].isSample
  BY <1>5, NormalTestFields
<1> HIDE DEF n, sent
<1>7. ASSUME schemaValid(n) PROVE validateProblemPayload(n)
  <2>1. \A t \in Range(n.testCases) :
           /\ t.inputs[1] = "array" /\ Len(t.inputs[2]) = Len(n.parameters)
           /\ t.expected # Null
    <3>1. ASSUME NEW i \in DOMAIN n.testCases
          PROVE  /\ n.testCases[i].inputs[1] = "array" /\ n.testCases[i].expected # Null
                 /\ Len(n.testCases[i].inputs[2]) = Len(n.parameters)
      <4>1. sent.testCases[i] \in Range(sent.testCases)
        BY <1>6, RangeIs
      <4>. QED
        BY <1>1, <1>3, <1>5, <1>6, <4>1 DEF FormChecks
    <3>. QED
      BY <3>1, RangeIs
  <2>2. \E t \in Range(n.testCases) : t.isSample
    <3>1. PICK i \in DOMAIN sent.testCases : sent.testCases[i].isSample
      BY <1>3, RangeIs DEF FormChecks
    <3>. QED
      BY <1>6, <3>1, RangeIs
  <2>. QED
    BY <1>7, <2>1, <2>2 DEF schemaValid, validateProblemPayload
<1>8. handleValidate(form, certifies) <=> validateProblemDefinition(n, certifies)
  BY <1>1, <1>4 DEF handleValidate, sent
<1>9. accepted(sent, certifies) <=>
         schemaValid(sent) /\ validateProblemPayload(n) /\ validateProblemDefinition(n, certifies)
  BY DEF accepted, n
<1>10. validateProblemDefinition(n, certifies) => schemaValid(n)
  BY DEF validateProblemDefinition
<1>11. \E t \in Range(sent.testCases) : t.isSample
  BY <1>3 DEF FormChecks
<1>12. sanitizeProblemForStudent(createProblem(sent)).testCases # <<>>
  BY <1>2, <1>11, SampleIsShown DEF sent
<1>. QED
  BY <1>4, <1>7, <1>8, <1>9, <1>10, <1>12

\* The result of a test, read back from the field that shows it.
FieldOf(v) == IF v[1] = "string" THEN AsText(v[2]) ELSE stringify(v)

\* A value that is shown is read back as it was.
LEMMA ReadBack ==
    ASSUME NEW v, IsValue(v), v # String("5")
    PROVE  normalizeExpectedValue(FieldOf(v)) = v
<1>1. CASE v[1] = "string"
  <2>1. v = String(v[2]) /\ v[2] # "5"
    BY <1>1 DEF IsValue
  <2>2. FieldOf(v) = <<"raw", v[2]>>
    BY <1>1, <2>1 DEF FieldOf, AsText
  <2>3. normalizeExpectedValue(<<"raw", v[2]>>) = String(v[2])
    BY DEF normalizeExpectedValue
  <2>. QED
    BY <2>1, <2>2, <2>3
<1>2. CASE v[1] # "string"
  <2>1. FieldOf(v) = <<"json", v>>
    BY <1>2 DEF FieldOf, stringify
  <2>. QED
    BY <2>1 DEF normalizeExpectedValue
<1>. QED
  BY <1>1, <1>2

\* A field's text stands for a value in which a string is marked as one.
LEMMA FieldValue ==
    ASSUME NEW text, IsField(text)
    PROVE  IsValue(normalizeExpectedValue(text))
<1>1. CASE text[1] = "json"
  BY <1>1 DEF IsField, normalizeExpectedValue
<1>2. CASE text[1] # "json"
  <2>1. normalizeExpectedValue(text) = String(text[2])
    BY <1>2 DEF normalizeExpectedValue
  <2>2. \A x : IsValue(String(x))
    BY DEF IsValue, String
  <2>. QED
    BY <2>1, <2>2
<1>. QED
  BY <1>1, <1>2

\* The form that EditProblemPage makes of what is stored.
Again(f) ==
    [fetchProblem(createProblem(payloadOf(f))) EXCEPT !.referenceSolution = payloadOf(f).referenceSolution]

\* The stored document, field by field.
LEMMA DocFields ==
    ASSUME NEW f
    PROVE  LET sent == payloadOf(f)
               doc  == createProblem(sent)
           IN  /\ doc.title = sent.title /\ doc.functionName = sent.functionName
               /\ doc.parameters = sent.parameters /\ doc.returnType = sent.returnType
               /\ doc.compareConfig = sent.compareConfig
               /\ doc.testCases = NormalTests(sent.testCases)
<1> DEFINE sent == payloadOf(f)
           n == normalizeProblemPayload(sent)
<1>1. /\ DOMAIN n = {"title", "functionName", "parameters", "returnType",
                     "compareConfig", "testCases", "referenceSolution"}
  BY NormalFields, SentFields
<1>2. /\ n.title = sent.title /\ n.functionName = sent.functionName
      /\ n.parameters = sent.parameters /\ n.returnType = sent.returnType
      /\ n.compareConfig = sent.compareConfig
      /\ n.testCases = NormalTests(sent.testCases)
  BY NormalFields
<1>3. createProblem(sent) = [x \in DOMAIN n \ {"referenceSolution"} |-> n[x]]
  BY DEF createProblem
<1> HIDE DEF n, sent
<1>. QED
  BY <1>1, <1>2, <1>3 DEF sent

\* The form it is opened in, field by field.
LEMMA AgainFields ==
    ASSUME NEW f
    PROVE  LET sent == payloadOf(f)
               doc  == createProblem(sent)
               g    == Again(f)
           IN  /\ g.title = doc.title /\ g.functionName = doc.functionName
               /\ g.parameters = doc.parameters /\ g.returnType = doc.returnType
               /\ g.compareConfig = doc.compareConfig
               /\ g.referenceSolution = sent.referenceSolution
               /\ DOMAIN g.testCases = DOMAIN doc.testCases
               /\ \A i \in DOMAIN doc.testCases :
                     /\ g.testCases[i].inputs = stringify(doc.testCases[i].inputs)
                     /\ g.testCases[i].isSample = doc.testCases[i].isSample
                     /\ g.testCases[i].expected = FieldOf(doc.testCases[i].expected)
<1> DEFINE sent == payloadOf(f)
           doc == createProblem(sent)
           rows == [i \in DOMAIN doc.testCases |->
                       [inputs |-> stringify(doc.testCases[i].inputs),
                        isSample |-> doc.testCases[i].isSample,
                        expected |-> FieldOf(doc.testCases[i].expected)]]
<1>1. PICK none : none = ""
  OBVIOUS
<1>2. fetchProblem(doc) =
         [title |-> doc.title, functionName |-> doc.functionName,
          parameters |-> doc.parameters, returnType |-> doc.returnType,
          compareConfig |-> doc.compareConfig, referenceSolution |-> none, testCases |-> rows]
  BY <1>1 DEF fetchProblem, FieldOf
<1>3. Again(f) = [fetchProblem(doc) EXCEPT !.referenceSolution = sent.referenceSolution]
  BY DEF Again
<1>4. /\ DOMAIN rows = DOMAIN doc.testCases
      /\ \A i \in DOMAIN doc.testCases :
            /\ rows[i].inputs = stringify(doc.testCases[i].inputs)
            /\ rows[i].isSample = doc.testCases[i].isSample
            /\ rows[i].expected = FieldOf(doc.testCases[i].expected)
  OBVIOUS
<1> HIDE DEF sent, doc, rows
<1>5. Again(f) =
         [title |-> doc.title, functionName |-> doc.functionName,
          parameters |-> doc.parameters, returnType |-> doc.returnType,
          compareConfig |-> doc.compareConfig, referenceSolution |-> sent.referenceSolution,
          testCases |-> rows]
  BY ONLY <1>2, <1>3
<1>. QED
  BY ONLY <1>4, <1>5 DEF sent, doc

\* What is opened and sent again is what was sent.
LEMMA SentAgain ==
    ASSUME NEW f, IsForm(f), formAccepts(f),
           \A t \in Range(createProblem(payloadOf(f)).testCases) : t.expected # String("5")
    PROVE  payloadOf(Again(f)) = payloadOf(f)
<1> DEFINE sent == payloadOf(f)
           doc == createProblem(sent)
           g == Again(f)
           new == payloadOf(g)
<1>1. /\ doc.title = sent.title /\ doc.functionName = sent.functionName
      /\ doc.parameters = sent.parameters /\ doc.returnType = sent.returnType
      /\ doc.compareConfig = sent.compareConfig
      /\ doc.testCases = NormalTests(sent.testCases)
  BY DocFields
<1>2. /\ g.title = doc.title /\ g.functionName = doc.functionName
      /\ g.parameters = doc.parameters /\ g.returnType = doc.returnType
      /\ g.compareConfig = doc.compareConfig
      /\ g.referenceSolution = sent.referenceSolution
      /\ DOMAIN g.testCases = DOMAIN doc.testCases
      /\ \A i \in DOMAIN doc.testCases :
            /\ g.testCases[i].inputs = stringify(doc.testCases[i].inputs)
            /\ g.testCases[i].isSample = doc.testCases[i].isSample
            /\ g.testCases[i].expected = FieldOf(doc.testCases[i].expected)
  BY AgainFields
<1>3. FormChecks(sent)
  BY FormChecked
<1>4. normalizeParameters(sent.parameters) = sent.parameters
  <2> DEFINE rows == f.parameters
             P == {i \in DOMAIN rows : rows[i].name # "" \/ rows[i].type # <<>>}
             s == sent.parameters
             n == Cardinality(P)
             all == {i \in DOMAIN s : s[i].name # "" \/ s[i].type # <<>>}
  <2>1. s = Kept(rows, P)
    BY SentFields DEF normalizeParameters
  <2>2. n \in Nat
    <3> DEFINE Rows == [name : STRING, type : Seq(Generic \cup Scalar)]
    <3>1. rows \in Seq(Rows)
      BY DEF IsForm
    <3>2. P \in SUBSET (DOMAIN rows)
      OBVIOUS
    <3> HIDE DEF Rows, rows, P
    <3>3. Len(rows) \in Nat /\ DOMAIN rows = 1..Len(rows)
      BY <3>1
    <3>. QED
      BY <3>2, <3>3, Places
  <2>3. s = [i \in 1..n |-> s[i]]
    BY <2>1 DEF Kept
  <2> HIDE DEF rows, P, n
  <2>4. DOMAIN s = 1..n
    BY <2>3
  <2>5. \A q \in Range(s) : Identifier(q.name)
    BY <1>3 DEF FormChecks
  <2>6. \A i \in DOMAIN s : s[i].name # ""
    <3>1. \A i \in DOMAIN s : Identifier(s[i].name)
      BY <2>5, RangeIs
    <3>. QED
      BY <3>1 DEF Identifier
  <2>7. normalizeParameters(s) = Kept(s, all)
    BY DEF normalizeParameters
  <2> HIDE DEF s
  <2>8. all = 1..n
    BY <2>4, <2>6
  <2> HIDE DEF all
  <2>. QED
    BY <2>2, <2>3, <2>7, <2>8, KeptWhole DEF s
<1>5. normalizeTestCases(g.testCases) = sent.testCases
  <2> DEFINE tests == sent.testCases
             rows == g.testCases
  <2>1. /\ DOMAIN tests = 1..Len(f.testCases)
        /\ \A i \in DOMAIN tests :
              /\ tests[i] = [inputs |-> tests[i].inputs, expected |-> tests[i].expected,
                             isSample |-> tests[i].isSample]
              /\ tests[i].expected = normalizeExpectedValue(f.testCases[i].expected)
              /\ IsField(f.testCases[i].expected)
    BY SentTests
  <2>2. /\ DOMAIN NormalTests(tests) = DOMAIN tests
        /\ \A i \in DOMAIN tests :
              /\ NormalTests(tests)[i].inputs = tests[i].inputs
              /\ NormalTests(tests)[i].expected = tests[i].expected
              /\ NormalTests(tests)[i].isSample = tests[i].isSample
    BY NormalTestFields
  <2>3. tests = [i \in DOMAIN tests |-> tests[i]]
    <3>1. tests = normalizeTestCases(f.testCases)
      BY SentFields
    <3>. QED
      BY <3>1 DEF normalizeTestCases
  <2>4. ASSUME NEW i \in DOMAIN tests
        PROVE  tests[i].expected # String("5") /\ IsValue(tests[i].expected)
    <3>1. IsValue(tests[i].expected)
      BY <2>1, FieldValue
    <3>2. NormalTests(tests)[i] \in Range(doc.testCases)
      BY <1>1, <2>2, RangeIs
    <3>3. NormalTests(tests)[i].expected # String("5")
      BY <3>2
    <3>. QED
      BY <2>2, <3>1, <3>3
  <2>5. DOMAIN rows = DOMAIN tests /\
        \A i \in DOMAIN tests :
            /\ rows[i].inputs = stringify(tests[i].inputs)
            /\ rows[i].isSample = tests[i].isSample
            /\ rows[i].expected = FieldOf(tests[i].expected)
    BY <1>1, <1>2, <2>2
  <2> HIDE DEF tests, rows
  <2>6. ASSUME NEW i \in DOMAIN tests
        PROVE  [inputs |-> IF rows[i].inputs[1] = "json" THEN rows[i].inputs[2] ELSE Null,
                expected |-> normalizeExpectedValue(rows[i].expected),
                isSample |-> rows[i].isSample] = tests[i]
    <3>1. (IF rows[i].inputs[1] = "json" THEN rows[i].inputs[2] ELSE Null) = tests[i].inputs
      BY <2>5 DEF stringify
    <3>2. normalizeExpectedValue(rows[i].expected) = tests[i].expected
      BY <2>4, <2>5, ReadBack
    <3>. QED
      BY <2>1, <2>5, <3>1, <3>2
  <2>7. normalizeTestCases(rows) = [i \in DOMAIN rows |-> tests[i]]
    BY <2>5, <2>6 DEF normalizeTestCases
  <2>. QED
    BY <2>3, <2>5, <2>7 DEF tests, rows
<1>6. /\ new.title = g.title /\ new.functionName = g.functionName
      /\ new.parameters = normalizeParameters(g.parameters)
      /\ new.returnType = g.returnType /\ new.compareConfig = g.compareConfig
      /\ new.testCases = normalizeTestCases(g.testCases)
      /\ new.referenceSolution = g.referenceSolution
  BY SentFields
<1>7. /\ new = [title |-> new.title, functionName |-> new.functionName,
                parameters |-> new.parameters, returnType |-> new.returnType,
                compareConfig |-> new.compareConfig, testCases |-> new.testCases,
                referenceSolution |-> new.referenceSolution]
      /\ sent = [title |-> sent.title, functionName |-> sent.functionName,
                 parameters |-> sent.parameters, returnType |-> sent.returnType,
                 compareConfig |-> sent.compareConfig, testCases |-> sent.testCases,
                 referenceSolution |-> sent.referenceSolution]
  <2>1. \A h : payloadOf(h) = [title |-> payloadOf(h).title, functionName |-> payloadOf(h).functionName,
                parameters |-> payloadOf(h).parameters, returnType |-> payloadOf(h).returnType,
                compareConfig |-> payloadOf(h).compareConfig, testCases |-> payloadOf(h).testCases,
                referenceSolution |-> payloadOf(h).referenceSolution]
    BY DEF payloadOf
  <2>. QED
    BY <2>1
<1> HIDE DEF sent, doc, g, new
<1>. QED
  <2>1. /\ new.title = sent.title /\ new.functionName = sent.functionName
        /\ new.parameters = sent.parameters /\ new.returnType = sent.returnType
        /\ new.compareConfig = sent.compareConfig /\ new.testCases = sent.testCases
        /\ new.referenceSolution = sent.referenceSolution
    BY <1>1, <1>2, <1>4, <1>5, <1>6
  <2>2. new = sent
    BY ONLY <1>7, <2>1
  <2>. QED
    BY <2>2 DEF new, sent, g

\* A stored problem, opened and saved as it is.
LEMMA ProblemPreserves ==
    ASSUME NEW f, IsForm(f), NEW c, formAccepts(f), accepted(payloadOf(f), c),
           \A t \in Range(createProblem(payloadOf(f)).testCases) : t.expected # String("5")
    PROVE  /\ handleValidate(Again(f), c)
           /\ createProblem(payloadOf(Again(f))) = createProblem(payloadOf(f))
<1>1. payloadOf(Again(f)) = payloadOf(f)
  BY SentAgain
<1>2. formAccepts(Again(f))
  BY <1>1, FormChecked
<1>3. validateProblemDefinition(payloadOf(f), c)
  BY NormalizedAlike DEF accepted
<1>. QED
  BY <1>1, <1>2, <1>3 DEF handleValidate

-----------------------------------------------------------------------------
(* A question.                                                             *)

\* Tags that were parsed are parsed into themselves.
LEMMA TagsOnce ==
    ASSUME NEW S, NEW pieces \in Seq(S)
    PROVE  parsed(parsed(pieces)) = parsed(pieces)
<1> DEFINE cut(s) == [i \in DOMAIN s |-> trimTag(s[i])]
           P(s) == {i \in DOMAIN s : trimTag(s[i]) # ""}
           tags == parsed(pieces)
           n == Cardinality(P(pieces))
<1>1. \A s : parsed(s) = Kept(cut(s), P(s))
  BY DEF parsed
<1>2. \A x : trimTag(trimTag(x)) = trimTag(x)
  BY DEF trimTag
<1>3. P(pieces) \in SUBSET (1..Len(pieces)) /\ Len(pieces) \in Nat
  <2>1. DOMAIN pieces = 1..Len(pieces) /\ Len(pieces) \in Nat
    OBVIOUS
  <2>2. P(pieces) \in SUBSET (DOMAIN pieces)
    OBVIOUS
  <2>. QED
    BY <2>1, <2>2
<1>4. \A i \in P(pieces) : cut(pieces)[i] = trimTag(pieces[i]) /\ trimTag(pieces[i]) # ""
  OBVIOUS
<1>5. tags = [k \in 1..n |-> cut(pieces)[Nth(P(pieces), k)]]
  BY <1>1 DEF Kept
<1> HIDE DEF tags
<1>6. n \in Nat /\ \A k \in 1..n : Nth(P(pieces), k) \in P(pieces)
  <2> DEFINE len == Len(pieces)
             Q == P(pieces)
  <2>1. Q \in SUBSET (1..len) /\ len \in Nat
    BY <1>3
  <2> HIDE DEF len, Q, P
  <2>2. Cardinality(Q) \in Nat /\ \A k \in 1..Cardinality(Q) : Nth(Q, k) \in Q
    BY <2>1, Places
  <2>. QED
    BY <2>2 DEF Q
<1> HIDE DEF P, n
<1>7. DOMAIN tags = 1..n /\ \A k \in 1..n : trimTag(tags[k]) = tags[k] /\ tags[k] # ""
  <2>1. \A k \in 1..n : tags[k] = cut(pieces)[Nth(P(pieces), k)]
    BY <1>5
  <2>2. ASSUME NEW k \in 1..n PROVE trimTag(tags[k]) = tags[k] /\ tags[k] # ""
    <3>1. PICK i \in P(pieces) : tags[k] = cut(pieces)[i]
      BY <1>6, <2>1
    <3> HIDE DEF cut
    <3>. QED
      BY <1>2, <1>4, <3>1
  <2>. QED
    BY <1>5, <2>2
<1>8. tags = [k \in 1..n |-> tags[k]]
  BY <1>5
<1>9. P(tags) = 1..n /\ cut(tags) = tags
  <2>1. cut(tags) = [i \in 1..n |-> trimTag(tags[i])]
    BY <1>7
  <2>2. cut(tags) = [i \in 1..n |-> tags[i]]
    BY <1>7, <2>1
  <2>3. P(tags) = 1..n
    BY <1>7 DEF P
  <2>. QED
    BY <1>8, <2>2, <2>3
<1> HIDE DEF cut
<1>. QED
  BY <1>1, <1>6, <1>8, <1>9, KeptWhole DEF tags

\* What is picked is from the bank, and nothing is for a teacher of a college.
LEMMA PickedFrom ==
    ASSUME NEW bank, NEW user, NEW few, NEW tags, NEW base,
           base = IF user.role = "faculty" /\ user.collegeId # "null" THEN {}
                  ELSE listQuestions(bank, tags),
           NEW picked \in selectQuestions(bank, user, few, tags)
    PROVE  picked \subseteq base
<1>1. PICK S, T, U : /\ S = sample(base, "Easy", few.easy)
                     /\ T = sample(base, "Medium", few.medium)
                     /\ U = sample(base, "Hard", few.hard)
  OBVIOUS
<1>2. \E easy \in S, medium \in T, hard \in U : picked = easy \cup medium \cup hard
  BY <1>1 DEF selectQuestions
<1>3. /\ \A some \in S : some \subseteq base
      /\ \A some \in T : some \subseteq base
      /\ \A some \in U : some \subseteq base
  BY <1>1 DEF sample
<1>. QED
  BY <1>2, <1>3

\* A question is stored, listed and found as it was entered.
LEMMA QuestionKept ==
    ASSUME NEW asks \in Questions
    PROVE  QuestionPreserves(asks.entry, asks.author, asks.visibility, asks.user)
<1> DEFINE entry == asks.entry
           author == asks.author
           visibility == asks.visibility
           user == asks.user
           tags == parsed(entry.tags)
           college == IF author.collegeId = "null" THEN "undefined" ELSE author.collegeId
           payload == questionPayload(entry)
           own == [author |-> author.id, visibility |-> "College", collegeId |-> college]
           q == [createQuestion(payload, author) EXCEPT !.visibility = visibility]
           again == questionPayload(fetchQuestion(q))
           Six == {"title", "difficulty", "tags", "marks", "timeLimitMs", "memoryLimitMb"}
           Three == {"author", "visibility", "collegeId"}
<1>1. /\ entry \in [title : STRING, difficulty : STRING, tags : Seq(STRING),
                    marks : Int, timeLimitMs : Int, memoryLimitMb : Int]
      /\ user \in Users
  BY DEF Questions
<1>2. user.role \in Privileged \/ user.role = "faculty"
  BY <1>1 DEF Users
<1>3. parsed(tags) = tags
  <2>1. entry.tags \in Seq(STRING)
    BY <1>1
  <2>. QED
    BY <2>1, TagsOnce
<1>4. /\ DOMAIN payload = Six /\ payload.tags = tags /\ payload.title = entry.title
      /\ payload.difficulty = entry.difficulty /\ payload.marks = entry.marks
      /\ payload.timeLimitMs = entry.timeLimitMs /\ payload.memoryLimitMb = entry.memoryLimitMb
  <2>1. payload = [entry EXCEPT !.tags = tags]
    BY DEF questionPayload
  <2> HIDE DEF tags, payload
  <2>. QED
    BY <1>1, <2>1
<1>5. createQuestion(payload, author) =
         [x \in Three \cup Six |-> IF x \in Three THEN own[x] ELSE payload[x]]
  <2>1. createQuestion(payload, author) = Spread(own, payload)
    BY DEF createQuestion
  <2>2. DOMAIN own = Three
    OBVIOUS
  <2> HIDE DEF own, payload, Three, Six
  <2>. QED
    BY <1>4, <2>1, <2>2 DEF Spread
<1>6. own.author = author.id
  OBVIOUS
<1> HIDE DEF own, payload, tags, entry, author, visibility, user
<1>7. /\ q = [x \in Three \cup Six |-> q[x]]
      /\ q.author = author.id /\ q.title = entry.title /\ q.tags = tags
      /\ q.difficulty = entry.difficulty /\ q.marks = entry.marks
      /\ q.timeLimitMs = entry.timeLimitMs /\ q.memoryLimitMb = entry.memoryLimitMb
  BY <1>4, <1>5, <1>6
<1> HIDE DEF q
<1>8. again = [title |-> q.title, difficulty |-> q.difficulty, tags |-> q.tags,
               marks |-> Or(q.marks, 100), timeLimitMs |-> Or(q.timeLimitMs, 2000),
               memoryLimitMb |-> Or(q.memoryLimitMb, 256)]
  BY <1>3, <1>7 DEF questionPayload, fetchQuestion
<1>9. createsQuestion(payload) => createsQuestion(again)
  <2>1. again.title = payload.title
    BY <1>4, <1>7, <1>8
  <2> HIDE DEF again
  <2>. QED
    BY <2>1 DEF createsQuestion
<1>10. ASSUME 0 \notin {q.marks, q.timeLimitMs, q.memoryLimitMb}
       PROVE  updateQuestion(q, again) = q
  <2>1. /\ DOMAIN again = Six
        /\ \A x \in Six : again[x] = q[x]
    <3>1. /\ Or(q.marks, 100) = q.marks /\ Or(q.timeLimitMs, 2000) = q.timeLimitMs
          /\ Or(q.memoryLimitMb, 256) = q.memoryLimitMb
      BY <1>10 DEF Or
    <3>. QED
      BY <1>8, <3>1
  <2>2. DOMAIN q = Three \cup Six
    BY <1>7
  <2> HIDE DEF again, Three, Six
  <2>3. updateQuestion(q, again) =
           [x \in Six \cup (Three \cup Six) |-> IF x \in Six THEN again[x] ELSE q[x]]
    BY <2>1, <2>2 DEF updateQuestion, Spread
  <2>4. updateQuestion(q, again) = [x \in Three \cup Six |-> q[x]]
    BY <2>1, <2>3
  <2>. QED
    BY <1>7, <2>4
<1> HIDE DEF again
<1>11. /\ getQuestionById(q, author) /\ mayDelete(q, author)
       /\ mayDelete(q, user) => mayUpdate(q, user)
       /\ mayUpdate(q, user) => getQuestionById(q, user)
  BY <1>7 DEF getQuestionById, mayDelete, mayUpdate, Owns, Colleague
<1>12. ASSUME NEW mark \in listTags({q}, user) PROVE q \in listQuestions({q}, {mark})
  <2>1. PICK p \in Scoped({q}, user) : mark \in ToSet(p.tags)
    BY <1>12 DEF listTags
  <2>2. p = q
    BY <2>1 DEF Scoped
  <2>3. {mark} # {} /\ mark \in ToSet(q.tags) \cap {mark}
    BY <2>1, <2>2
  <2>. QED
    BY <2>3 DEF listQuestions
<1>13. ASSUME user.collegeId # "null",
              NEW picked \in selectQuestions({q}, user, [easy |-> 1, medium |-> 1, hard |-> 0], {}),
              NEW p \in picked
       PROVE  getQuestionById(p, user)
  <2> DEFINE base == IF user.role = "faculty" /\ user.collegeId # "null" THEN {}
                     ELSE listQuestions({q}, {})
  <2>3. p \in base
    BY <1>13, PickedFrom
  <2>4. user.role # "faculty"
    BY <1>13, <2>3 DEF base
  <2>. QED
    BY <1>2, <2>4 DEF getQuestionById
<1>14. QuestionPreserves(entry, author, visibility, user)
  BY <1>9, <1>10, <1>11, <1>12, <1>13 DEF QuestionPreserves, q, payload, again
<1>. QED
  BY <1>14 DEF entry, author, visibility, user

\* What is authored does not change, and the page for an assessment is in order.
AuthoredIInv == InitAuthored /\ AuthoringIInv

\* The invariant holds.
LEMMA AuthoredAlways == AuthoredSpec => []AuthoredIInv
<1>1. InitAuthored /\ InitAuthoring => AuthoredIInv
  BY AuthoringInit DEF AuthoredIInv
<1>2. AuthoredIInv /\ [AuthoringNext /\ UNCHANGED authored]_<<authored, authoring>> => AuthoredIInv'
  <2>1. SUFFICES ASSUME AuthoredIInv, [AuthoringNext /\ UNCHANGED authored]_<<authored, authoring>>
                 PROVE  AuthoredIInv'
    OBVIOUS
  <2>2. UNCHANGED <<form, certifies, asked>> /\ [AuthoringNext]_authoring
    BY <2>1 DEF authored
  <2>3. InitAuthored'
    BY <2>1, <2>2 DEF AuthoredIInv, InitAuthored
  <2>4. AuthoringIInv'
    BY <2>1, <2>2, AuthoringStep DEF AuthoredIInv
  <2>. QED
    BY <2>3, <2>4 DEF AuthoredIInv
<1>. QED
  BY <1>1, <1>2, PTL DEF AuthoredSpec

\* What the pages let through, the API accepts: a certified problem, a complete sheet, for any
\* form, any sheet and any validation of values (handleValidate beside createProblem).
THEOREM WhatIsCertifiedIsStored == AuthoredSpec => []CertifiedIsStored
<1>1. AuthoredIInv => CertifiedIsStored
  BY WhatPassesIsStored, AuthoredCertified DEF AuthoredIInv
<1>. QED
  BY <1>1, AuthoredAlways, PTL

\* What is opened and saved as it is stays what it was: problem, sheet and question
\* (fetchProblem beside payloadOf).
THEOREM WhatIsOpenedIsPreserved == AuthoredSpec => []EditPreserves
<1>1. AuthoredIInv => EditPreserves
  <2>1. SUFFICES ASSUME AuthoredIInv PROVE EditPreserves
    OBVIOUS
  <2>2. SheetPreserves
    BY <2>1, OpenedAndSaved DEF AuthoredIInv
  <2>3. QuestionPreserves(asked.entry, asked.author, asked.visibility, asked.user)
    BY <2>1, QuestionKept DEF AuthoredIInv, InitAuthored
  <2>4. ASSUME formAccepts(form), accepted(payloadOf(form), certifies),
               \A t \in Range(createProblem(payloadOf(form)).testCases) : t.expected # String("5")
        PROVE  /\ handleValidate(Again(form), certifies)
               /\ createProblem(payloadOf(Again(form))) = createProblem(payloadOf(form))
    BY <2>1, <2>4, ProblemPreserves DEF AuthoredIInv, InitAuthored
  <2>. QED
    BY <2>2, <2>3, <2>4 DEF EditPreserves, Again
<1>. QED
  BY <1>1, AuthoredAlways, PTL

-----------------------------------------------------------------------------
(* An upload of students.                                                  *)

\* Cleaned once is cleaned for good.
LEMMA CleanTwice ==
    /\ \A c : trim(trim(c)) = trim(c)
    /\ \A c : toLowerCase(toLowerCase(c)) = toLowerCase(c)
    /\ \A c : trim(toLowerCase(c)) = toLowerCase(c)
    /\ \A c : toLowerCase(trim(c)) = "=n" => c = "=n"
    /\ toLowerCase("") # "=n"
BY DEF trim, toLowerCase

\* A cleaned row, field by field.
LEMMA CleanFields ==
    ASSUME NEW u
    PROVE  /\ clean(u).usn = trim(u.usn) /\ clean(u).name = trim(u.name)
           /\ clean(u).email = toLowerCase(u.email) /\ clean(u).section = trim(u.section)
BY DEF clean

\* A cleaned row is clean.
LEMMA CleanAgain == \A u : clean(clean(u)) = clean(u)
<1>1. ASSUME NEW u PROVE clean(clean(u)) = clean(u)
  BY CleanFields, CleanTwice DEF clean
<1>. QED
  BY <1>1

\* What the API holds against a row that has nothing wrong with it.
AccountError(u, accounts) ==
    IF \E a \in accounts : a.email = u.email THEN "Email already registered in system"
    ELSE IF u.usn # "" /\ \E a \in accounts : a.usn = u.usn
         THEN "USN already registered in system" ELSE ""

\* The API refuses a row the page has not marked for nothing but an account there is.
LEMMA UnmarkedRow ==
    ASSUME NEW users, NEW accounts, NEW i, isValid(users, i)
    PROVE  rowError(users, accounts, i) = AccountError(clean(users[i]), accounts)
<1> DEFINE email(j) == toLowerCase(users[j].email)
           usn(j) == trim(users[j].usn)
           formed(j) == trim(users[j].name) # "" /\ email(j) # "" /\ ~Malformed(email(j))
           repeats(j) == \E k \in 1..(j - 1) : formed(k) /\ email(k) = email(j)
           counted(j) == formed(j) /\ ~repeats(j)
           dup == usn(i) # "" /\ (\E j \in 1..(i - 1) : counted(j) /\ usn(j) = usn(i))
           other == IF \E a \in accounts : a.email = email(i) THEN "Email already registered in system"
                    ELSE IF usn(i) # "" /\ \E a \in accounts : a.usn = usn(i)
                         THEN "USN already registered in system" ELSE ""
<1>1. rowError(users, accounts, i) =
         CASE ~formed(i) -> "incomplete"
           [] formed(i) /\ repeats(i) -> "Duplicate email in upload batch"
           [] counted(i) /\ dup -> "Duplicate USN in upload batch"
           [] OTHER -> other
  BY DEF rowError
<1>2. other = AccountError(clean(users[i]), accounts)
  BY CleanFields DEF AccountError
<1>3. formed(i) /\ ~repeats(i) /\ ~dup
  <2>1. \A j : clean(users[j]).email = email(j) /\ clean(users[j]).usn = usn(j)
               /\ clean(users[j]).name = trim(users[j].name)
    BY CleanFields
  <2>2. /\ clean(users[i]).name # "" /\ clean(users[i]).email # ""
        /\ ~Malformed(clean(users[i]).email)
        /\ \A j \in 1..(i - 1) :
              /\ clean(users[j]).email # clean(users[i]).email
              /\ clean(users[i]).usn # "" => clean(users[j]).usn # clean(users[i]).usn
    BY DEF isValid
  <2>3. formed(i)
    BY <2>1, <2>2
  <2> HIDE DEF formed, email, usn
  <2>4. ~repeats(i)
    BY <2>1, <2>2
  <2>5. ~dup
    BY <2>1, <2>2
  <2>. QED
    BY <2>3, <2>4, <2>5
<1> HIDE DEF formed, repeats, counted, dup, other
<1>. QED
  BY <1>1, <1>2, <1>3

-----------------------------------------------------------------------------

\* The rows the page sends: those it has not marked, cleaned, in their order.
Unmarked(rows, n) == {i \in 1..n : isValid(rows, i)}
Sent(rows) == handleBulkImport(processAndValidateUsers(rows))

\* They are still unmarked where they arrive.
LEMMA SentRows ==
    ASSUME NEW rows, NEW n \in Nat, DOMAIN rows = 1..n
    PROVE  LET P    == Unmarked(rows, n)
               sent == Sent(rows)
           IN  /\ Cardinality(P) \in Nat
               /\ sent \in Seq({clean(rows[i]) : i \in 1..n}) /\ DOMAIN sent = 1..Cardinality(P)
               /\ \A k \in 1..Cardinality(P) :
                     /\ Nth(P, k) \in P
                     /\ sent[k] = clean(rows[Nth(P, k)])
                     /\ isValid(sent, k)
<1> DEFINE P == {i \in 1..n : isValid(rows, i)}
           preview == processAndValidateUsers(rows)
           valid == Valid(preview)
           sent == handleBulkImport(preview)
           c == Cardinality(P)
<1>1. P \in SUBSET (1..n)
  OBVIOUS
<1>2. ASSUME NEW i \in 1..n
      PROVE  /\ preview[i].usn = clean(rows[i]).usn /\ preview[i].name = clean(rows[i]).name
             /\ preview[i].email = clean(rows[i]).email
             /\ preview[i].section = clean(rows[i]).section
             /\ preview[i].isValid = isValid(rows, i)
  <2>1. preview[i] = [usn |-> clean(rows[i]).usn, name |-> clean(rows[i]).name,
                      email |-> clean(rows[i]).email, section |-> clean(rows[i]).section,
                      isValid |-> isValid(rows, i)]
    BY DEF processAndValidateUsers
  <2> HIDE DEF preview
  <2>. QED
    BY <2>1
<1>3. DOMAIN preview = 1..n
  BY DEF processAndValidateUsers
<1>4. {i \in DOMAIN preview : preview[i].isValid} = P
  BY <1>2, <1>3
<1>5. valid = [k \in 1..c |-> preview[Nth(P, k)]]
  BY <1>4 DEF Valid, Kept
<1>6. c \in Nat /\ \A k \in 1..c : Nth(P, k) \in P
  BY <1>1, Places
<1>7. \A k, l \in 1..c : k < l => Nth(P, k) < Nth(P, l)
  BY <1>1, Places
<1>8. \A u : clean(u) = [usn |-> clean(u).usn, name |-> clean(u).name,
                         email |-> clean(u).email, section |-> clean(u).section]
  BY DEF clean
<1>9. sent = [k \in DOMAIN valid |-> [usn |-> valid[k].usn, name |-> valid[k].name,
                                      email |-> valid[k].email, section |-> valid[k].section]]
  BY DEF handleBulkImport
<1> HIDE DEF preview, valid, sent, c
<1>10. DOMAIN sent = 1..c /\ \A k \in 1..c : sent[k] = clean(rows[Nth(P, k)])
  <2>1. DOMAIN valid = 1..c /\ \A k \in 1..c : valid[k] = preview[Nth(P, k)]
    BY <1>5
  <2>2. DOMAIN sent = 1..c
    BY <1>9, <2>1
  <2>3. ASSUME NEW k \in 1..c PROVE sent[k] = clean(rows[Nth(P, k)])
    <3>1. PICK i \in 1..n : i = Nth(P, k)
      BY <1>6
    <3>2. sent[k] = [usn |-> preview[i].usn, name |-> preview[i].name,
                     email |-> preview[i].email, section |-> preview[i].section]
      BY <1>9, <2>1, <3>1
    <3>. QED
      BY <1>2, <1>8, <3>1, <3>2
  <2>. QED
    BY <2>2, <2>3
<1>11. ASSUME NEW k \in 1..c PROVE isValid(sent, k)
  <2> DEFINE u == rows[Nth(P, k)]
  <2>1. clean(sent[k]) = clean(u) /\ Nth(P, k) \in P
    BY <1>6, <1>10, CleanAgain
  <2>2. isValid(rows, Nth(P, k))
    BY <2>1
  <2>3. ASSUME NEW j \in 1..(k - 1)
        PROVE  /\ clean(sent[j]).email # clean(u).email
               /\ clean(u).usn # "" => clean(sent[j]).usn # clean(u).usn
    <3>1. j \in 1..c /\ j < k
      BY <1>6
    <3>2. clean(sent[j]) = clean(rows[Nth(P, j)])
      BY <1>10, <3>1, CleanAgain
    <3>3. Nth(P, j) \in 1..(Nth(P, k) - 1)
      <4>1. Nth(P, j) \in 1..n /\ Nth(P, k) \in 1..n /\ Nth(P, j) < Nth(P, k)
        BY <1>1, <1>6, <1>7, <3>1
      <4>. QED
        BY <4>1
    <3>. QED
      BY <2>2, <3>2, <3>3 DEF isValid
  <2> HIDE DEF u
  <2>4. clean(u).name # "" /\ clean(u).email # "" /\ ~Malformed(clean(u).email)
    BY <2>2 DEF isValid, u
  <2>. QED
    BY <2>1, <2>3, <2>4 DEF isValid
<1>12. sent \in Seq({clean(rows[i]) : i \in 1..n})
  <2> DEFINE S == {clean(rows[i]) : i \in 1..n}
  <2>1. \A k \in 1..c : sent[k] \in S
    BY <1>1, <1>6, <1>10
  <2>2. sent = [k \in 1..c |-> sent[k]]
    BY <1>9, <1>10
  <2> HIDE DEF S
  <2>3. sent \in Seq(S)
    BY <1>6, <2>1, <2>2
  <2>. QED
    BY <2>3 DEF S
<1>. QED
  BY <1>6, <1>10, <1>11, <1>12 DEF c, sent, preview, Unmarked, Sent

\* The rows the API has nothing against, the accounts it makes of them, and the other rows.
Free(users, accounts, n) == {i \in 1..n : rowError(users, accounts, i) = ""}
Created(users, accounts) == bulkImportStudents(users, accounts).created
Refusals(users, accounts) == bulkImportStudents(users, accounts).errors

\* What the API answers to n rows.
LEMMA ImportResult ==
    ASSUME NEW users, NEW n \in Nat, DOMAIN users = 1..n, NEW accounts
    PROVE  LET G    == Free(users, accounts, n)
               made == Created(users, accounts)
               errs == Refusals(users, accounts)
           IN  /\ Cardinality(G) \in Nat /\ G \subseteq 1..n
               /\ DOMAIN made = 1..Cardinality(G) /\ Len(made) = Cardinality(G)
               /\ \A k \in 1..Cardinality(G) : Nth(G, k) \in G /\ made[k] = clean(users[Nth(G, k)])
               /\ \A i \in G : clean(users[i]) \in ToSet(made)
               /\ \A k, l \in 1..Cardinality(G) : k < l => Nth(G, k) < Nth(G, l)
               /\ Len(errs) \in Nat /\ n = Len(made) + Len(errs)
               /\ \A e \in ToSet(errs) :
                     \E i \in 1..n : e.error = rowError(users, accounts, i) /\ e.error # ""
<1> DEFINE G == {i \in 1..n : rowError(users, accounts, i) = ""}
           B == {i \in 1..n : rowError(users, accounts, i) # ""}
           error == [i \in DOMAIN users |-> rowError(users, accounts, i)]
           cleaned == [i \in DOMAIN users |-> clean(users[i])]
           refused == [i \in DOMAIN users |-> [row |-> i, error |-> error[i]]]
           result == bulkImportStudents(users, accounts)
<1>1. {i \in DOMAIN users : error[i] = ""} = G /\ {i \in DOMAIN users : error[i] # ""} = B
  OBVIOUS
<1>2. result.created = Kept(cleaned, G) /\ result.errors = Kept(refused, B)
  <2>1. result = [created |-> Kept(cleaned, {i \in DOMAIN users : error[i] = ""}),
                  errors |-> Kept(refused, {i \in DOMAIN users : error[i] # ""})]
    BY DEF bulkImportStudents
  <2>2. result = [created |-> Kept(cleaned, G), errors |-> Kept(refused, B)]
    BY <1>1, <2>1
  <2> HIDE DEF result, cleaned, refused, G, B
  <2>. QED
    BY <2>2
<1>3. \A i \in 1..n : cleaned[i] = clean(users[i])
  OBVIOUS
<1>4. \A i \in B : refused[i].error = rowError(users, accounts, i) /\ refused[i].error # ""
  OBVIOUS
<1>5. G \in SUBSET (1..n) /\ B \in SUBSET (1..n) /\ B = (1..n) \ G
  OBVIOUS
<1> HIDE DEF G, B, result, cleaned, refused
<1>6. Cardinality(G) \in Nat /\ Cardinality(B) \in Nat /\ n = Cardinality(G) + Cardinality(B)
  <2>1. IsFiniteSet(1..n) /\ Cardinality(1..n) = n
    BY FS_Interval
  <2>2. IsFiniteSet(G) /\ Cardinality(G) \in Nat /\ Cardinality(B) \in Nat
    BY <1>5, Places
  <2>3. (1..n) \cap G = G
    BY <1>5
  <2>4. Cardinality((1..n) \ G) = Cardinality(1..n) - Cardinality((1..n) \cap G)
    BY <2>1, FS_Difference
  <2>5. Cardinality(B) = n - Cardinality(G)
    BY <1>5, <2>1, <2>3, <2>4
  <2>. QED
    BY <2>2, <2>5
<1>7. /\ DOMAIN result.created = 1..Cardinality(G) /\ Len(result.created) = Cardinality(G)
      /\ \A k \in 1..Cardinality(G) : Nth(G, k) \in G /\ result.created[k] = cleaned[Nth(G, k)]
      /\ \A i \in G : \E k \in 1..Cardinality(G) :
            Nth(G, k) = i /\ result.created[k] = cleaned[i]
  <2>1. G \in SUBSET (1..n)
    BY <1>5
  <2>2. /\ DOMAIN Kept(cleaned, G) = 1..Cardinality(G) /\ Len(Kept(cleaned, G)) = Cardinality(G)
        /\ \A k \in 1..Cardinality(G) : Nth(G, k) \in G /\ Kept(cleaned, G)[k] = cleaned[Nth(G, k)]
        /\ \A i \in G : \E k \in 1..Cardinality(G) :
              Nth(G, k) = i /\ Kept(cleaned, G)[k] = cleaned[i]
    BY ONLY n \in Nat, <2>1, KeptFacts
  <2>. QED
    BY <1>2, <2>2
<1>8. \A k, l \in 1..Cardinality(G) : k < l => Nth(G, k) < Nth(G, l)
  BY <1>5, Places
<1>9. /\ DOMAIN result.errors = 1..Cardinality(B) /\ Len(result.errors) = Cardinality(B)
      /\ \A k \in 1..Cardinality(B) : Nth(B, k) \in B /\ result.errors[k] = refused[Nth(B, k)]
  <2>1. B \in SUBSET (1..n)
    BY <1>5
  <2>2. /\ DOMAIN Kept(refused, B) = 1..Cardinality(B) /\ Len(Kept(refused, B)) = Cardinality(B)
        /\ \A k \in 1..Cardinality(B) : Nth(B, k) \in B /\ Kept(refused, B)[k] = refused[Nth(B, k)]
    BY ONLY n \in Nat, <2>1, KeptFacts
  <2>. QED
    BY <1>2, <2>2
<1>10. ASSUME NEW e \in ToSet(result.errors)
       PROVE  \E i \in 1..n : e.error = rowError(users, accounts, i) /\ e.error # ""
  <2>1. PICK k \in 1..Cardinality(B) : e = result.errors[k]
    BY <1>9 DEF ToSet
  <2>. QED
    BY <1>4, <1>5, <1>9, <2>1
<1>11. \A k \in 1..Cardinality(G) : result.created[k] = clean(users[Nth(G, k)])
  BY <1>3, <1>5, <1>7
<1>12. \A i \in G : clean(users[i]) \in ToSet(result.created)
  BY <1>3, <1>5, <1>7 DEF ToSet
<1>. QED
  BY <1>5, <1>6, <1>7, <1>8, <1>9, <1>10, <1>11, <1>12 DEF G, result, Free, Created, Refusals

\* Every refusal names its error.
LEMMA ImportErrors ==
    ASSUME NEW users, NEW n \in Nat, DOMAIN users = 1..n, NEW accounts,
           NEW e \in ToSet(Refusals(users, accounts))
    PROVE  \E i \in 1..n : e.error = rowError(users, accounts, i) /\ e.error # ""
<1>1. \A x \in ToSet(Refusals(users, accounts)) :
         \E i \in 1..n : x.error = rowError(users, accounts, i) /\ x.error # ""
  BY ImportResult, Zenon
<1>. QED
  BY <1>1

\* Every row without one has an account now.
LEMMA ImportCreates ==
    ASSUME NEW users, NEW n \in Nat, DOMAIN users = 1..n, NEW accounts,
           NEW i \in Free(users, accounts, n)
    PROVE  clean(users[i]) \in ToSet(Created(users, accounts))
<1>1. \A j \in Free(users, accounts, n) : clean(users[j]) \in ToSet(Created(users, accounts))
  BY ImportResult, Zenon
<1>. QED
  BY <1>1

\* Accounts that are in order.
Distinct(accounts) ==
    \A a, b \in accounts : a # b => a.email # b.email /\ (a.usn = "" \/ a.usn # b.usn)

\* Two rows that are both unmarked differ in address and in USN.
LEMMA UnmarkedDiffer ==
    ASSUME NEW users, NEW i \in Nat, NEW j \in Nat, 1 <= j, j < i, isValid(users, i)
    PROVE  /\ clean(users[j]).email # clean(users[i]).email
           /\ clean(users[i]).usn # "" => clean(users[j]).usn # clean(users[i]).usn
<1>1. j \in 1..(i - 1)
  OBVIOUS
<1>2. \A k \in 1..(i - 1) :
         /\ clean(users[k]).email # clean(users[i]).email
         /\ clean(users[i]).usn # "" => clean(users[k]).usn # clean(users[i]).usn
  BY DEF isValid
<1>. QED
  BY <1>1, <1>2

\* What an upload of n rows beside these accounts comes to.
WellImported(rows, n, accounts) ==
    LET made  == Created(Sent(rows), accounts)
        errs  == Refusals(Sent(rows), accounts)
        after == accounts \cup ToSet(made)
    IN  /\ \A e \in ToSet(errs) :
              e.error \in {"Email already registered in system", "USN already registered in system"}
        /\ Len(Sent(rows)) = Len(made) + Len(errs)
        /\ ToSet(made) \subseteq ToSet(Created(rows, accounts))
        /\ Cardinality(after) = Cardinality(accounts) + Len(made)
        /\ Distinct(after) /\ IsFiniteSet(after)
        /\ Len(made) \in Nat /\ DOMAIN made = 1..Len(made)
        /\ \A k \in DOMAIN made : \E i \in 1..n : made[k] = clean(rows[i])

\* So it does.
LEMMA Imported ==
    ASSUME NEW rows, NEW n \in Nat, DOMAIN rows = 1..n,
           NEW accounts, IsFiniteSet(accounts), Distinct(accounts)
    PROVE  WellImported(rows, n, accounts)
<1> DEFINE P == Unmarked(rows, n)
           m == Cardinality(P)
           sent == Sent(rows)
           G == Free(sent, accounts, m)
           c == Cardinality(G)
           made == Created(sent, accounts)
           errs == Refusals(sent, accounts)
           after == accounts \cup ToSet(made)
<1>1. m \in Nat /\ DOMAIN sent = 1..m /\ sent \in Seq({clean(rows[i]) : i \in 1..n})
  BY SentRows
<1>2. \A k \in 1..m : Nth(P, k) \in P /\ sent[k] = clean(rows[Nth(P, k)]) /\ isValid(sent, k)
  BY SentRows
<1>3. P \in SUBSET (1..n)
  BY DEF Unmarked
<1> HIDE DEF m, sent
<1>4. /\ c \in Nat /\ DOMAIN made = 1..c /\ Len(made) = c
      /\ Len(errs) \in Nat /\ m = Len(made) + Len(errs)
  BY <1>1, ImportResult
<1>5. /\ \A k \in 1..c : Nth(G, k) \in G /\ made[k] = clean(sent[Nth(G, k)])
      /\ \A k, l \in 1..c : k < l => Nth(G, k) < Nth(G, l)
  BY <1>1, ImportResult
<1>6. \A e \in ToSet(errs) :
         \E i \in 1..m : e.error = rowError(sent, accounts, i) /\ e.error # ""
  BY <1>1, ImportErrors
<1>7. G \in SUBSET (1..m)
  BY DEF Free
<1>8. \A i \in 1..m : rowError(sent, accounts, i) = AccountError(sent[i], accounts)
  <2>1. \A i \in 1..m : clean(sent[i]) = sent[i]
    BY <1>2, CleanAgain
  <2>. QED
    BY <1>2, <2>1, UnmarkedRow
<1>9. \A i \in G : AccountError(sent[i], accounts) = ""
  BY <1>8 DEF Free
<1> HIDE DEF G, c, made, errs
<1>10. ASSUME NEW k \in 1..c
       PROVE  \E g \in G : g = Nth(G, k) /\ g \in 1..m /\ made[k] = sent[g]
  <2>1. Nth(G, k) \in G /\ made[k] = clean(sent[Nth(G, k)])
    BY <1>5
  <2>2. \A i \in 1..m : clean(sent[i]) = sent[i]
    BY <1>2, CleanAgain
  <2>. QED
    BY <1>7, <2>1, <2>2
<1>11. ASSUME NEW e \in ToSet(errs)
       PROVE  e.error \in {"Email already registered in system", "USN already registered in system"}
  <2>1. PICK i \in 1..m : e.error = rowError(sent, accounts, i) /\ e.error # ""
    BY <1>6
  <2>2. e.error = AccountError(sent[i], accounts)
    BY <1>8, <2>1
  <2>. QED
    BY <2>1, <2>2 DEF AccountError
<1>12. Len(sent) = m
  BY <1>1
<1>13. ASSUME NEW k \in 1..c PROVE \E i \in P : made[k] = clean(rows[i]) /\ rowError(rows, accounts, i) = ""
  <2>1. PICK g \in G : g \in 1..m /\ made[k] = sent[g]
    BY <1>10
  <2>2. PICK i \in P : sent[g] = clean(rows[i])
    BY <1>2, <2>1
  <2>3. isValid(rows, i)
    BY DEF Unmarked
  <2>4. rowError(rows, accounts, i) = AccountError(clean(rows[i]), accounts)
    BY <2>3, UnmarkedRow
  <2>. QED
    BY <1>9, <2>1, <2>2, <2>4
<1>14. ToSet(made) \subseteq ToSet(Created(rows, accounts))
  <2>1. ASSUME NEW x \in ToSet(made) PROVE x \in ToSet(Created(rows, accounts))
    <3>1. PICK k \in 1..c : x = made[k]
      BY <1>4 DEF ToSet
    <3>2. PICK i \in P : x = clean(rows[i]) /\ rowError(rows, accounts, i) = ""
      BY <1>13, <3>1
    <3>3. i \in Free(rows, accounts, n)
      BY <1>3, <3>2 DEF Free
    <3>. QED
      BY <3>2, <3>3, ImportCreates
  <2>. QED
    BY <2>1
<1>15. ASSUME NEW k \in 1..c, NEW l \in 1..c, k < l
       PROVE  made[k].email # made[l].email /\ (made[l].usn # "" => made[k].usn # made[l].usn)
  <2>1. PICK g \in G : g = Nth(G, k) /\ g \in 1..m /\ made[k] = sent[g]
    BY <1>10
  <2>2. PICK h \in G : h = Nth(G, l) /\ h \in 1..m /\ made[l] = sent[h]
    BY <1>10
  <2>3. g < h
    BY <1>5, <1>15, <2>1, <2>2
  <2>4. clean(sent[g]) = sent[g] /\ clean(sent[h]) = sent[h] /\ isValid(sent, h)
    BY <1>2, <2>1, <2>2, CleanAgain
  <2>5. g \in Nat /\ h \in Nat /\ 1 <= g
    BY <1>1, <2>1, <2>2
  <2>. QED
    BY <2>1, <2>2, <2>3, <2>4, <2>5, UnmarkedDiffer
<1>16. ASSUME NEW k \in 1..c, NEW a \in accounts
       PROVE  a.email # made[k].email /\ (made[k].usn = "" \/ a.usn # made[k].usn)
  <2>1. PICK g \in G : made[k] = sent[g]
    BY <1>10
  <2>2. AccountError(made[k], accounts) = ""
    BY <1>9, <2>1
  <2>. QED
    BY <2>2 DEF AccountError
<1>17. ToSet(made) = {made[k] : k \in 1..c}
  BY <1>4 DEF ToSet
<1>18. Distinct(after)
  <2>1. SUFFICES ASSUME NEW a \in after, NEW b \in after, a # b
                 PROVE  a.email # b.email /\ (a.usn = "" \/ a.usn # b.usn)
    BY DEF Distinct
  <2>2. CASE a \in accounts /\ b \in accounts
    BY <2>1, <2>2 DEF Distinct
  <2>3. CASE a \in accounts /\ b \notin accounts
    <3>1. PICK k \in 1..c : b = made[k]
      BY <1>17, <2>3
    <3>. QED
      BY <1>16, <2>3, <3>1
  <2>4. CASE a \notin accounts /\ b \in accounts
    <3>1. PICK k \in 1..c : a = made[k]
      BY <1>17, <2>4
    <3>. QED
      BY <1>16, <2>4, <3>1
  <2>5. CASE a \notin accounts /\ b \notin accounts
    <3>1. PICK k \in 1..c : a = made[k]
      BY <1>17, <2>5
    <3>2. PICK l \in 1..c : b = made[l]
      BY <1>17, <2>5
    <3>3. k # l
      BY <2>1, <3>1, <3>2
    <3>4. k < l \/ l < k
      BY <1>4, <3>3
    <3>. QED
      BY <1>15, <3>1, <3>2, <3>4
  <2>. QED
    BY <2>2, <2>3, <2>4, <2>5
<1>19. Cardinality(after) = Cardinality(accounts) + c /\ IsFiniteSet(after)
  <2>1. IsFiniteSet(1..c) /\ Cardinality(1..c) = c
    BY <1>4, FS_Interval
  <2> DEFINE f == [k \in 1..c |-> made[k]]
             S == ToSet(made)
  <2>2. f \in Bijection(1..c, S)
    <3>1. f \in [1..c -> S] /\ \A s \in S : \E k \in 1..c : f[k] = s
      BY <1>17
    <3>2. ASSUME NEW k \in 1..c, NEW l \in 1..c, f[k] = f[l] PROVE k = l
      <4>1. made[k] = made[l]
        BY <3>2
      <4>2. ~(k < l) /\ ~(l < k)
        BY <1>15, <4>1
      <4>. QED
        BY <1>4, <4>2
    <3> HIDE DEF f, S
    <3>. QED
      BY <3>1, <3>2 DEF Bijection, Injection, Surjection, IsInjective
  <2> HIDE DEF f, S
  <2>3. IsFiniteSet(S) /\ Cardinality(S) = c
    BY <2>1, <2>2, FS_Bijection DEF ExistsBijection
  <2>4. accounts \cap S = {}
    BY <1>16, <1>17 DEF S
  <2>5. Cardinality(accounts \cup S) = Cardinality(accounts) + Cardinality(S) - Cardinality(accounts \cap S)
    BY <2>3, FS_Union
  <2>6. Cardinality(accounts) \in Nat /\ Cardinality(accounts \cap S) = 0
    BY <2>4, FS_EmptySet, FS_CardinalityType
  <2>8. IsFiniteSet(accounts \cup S)
    BY <2>3, FS_Union
  <2>7. Cardinality(accounts \cup S) = Cardinality(accounts) + c
    BY <1>4, <2>3, <2>5, <2>6
  <2>. QED
    BY <2>7, <2>8 DEF S
<1>20. \A k \in DOMAIN made : \E i \in 1..n : made[k] = clean(rows[i])
  BY <1>3, <1>4, <1>13
<1>. QED
  BY <1>4, <1>11, <1>12, <1>14, <1>18, <1>19, <1>20 DEF sent, made, errs, WellImported

\* Rows whose addresses are all known create nobody.
LEMMA NothingNew ==
    ASSUME NEW rows, NEW n \in Nat, DOMAIN rows = 1..n, NEW accounts,
           \A i \in 1..n : \E a \in accounts : a.email = clean(rows[i]).email
    PROVE  Created(Sent(rows), accounts) = <<>>
<1> DEFINE P == Unmarked(rows, n)
           m == Cardinality(P)
           sent == Sent(rows)
           error == [i \in DOMAIN sent |-> rowError(sent, accounts, i)]
           G == {i \in DOMAIN sent : error[i] = ""}
<1>1. DOMAIN sent = 1..m
  BY SentRows
<1>2. \A k \in 1..m : Nth(P, k) \in P /\ sent[k] = clean(rows[Nth(P, k)]) /\ isValid(sent, k)
  BY SentRows
<1>3. P \in SUBSET (1..n)
  BY DEF Unmarked
<1> HIDE DEF sent, m, P
<1>4. ASSUME NEW k \in 1..m PROVE rowError(sent, accounts, k) # ""
  <2>1. rowError(sent, accounts, k) = AccountError(clean(sent[k]), accounts)
    BY <1>2, UnmarkedRow
  <2>2. PICK i \in 1..n : sent[k] = clean(rows[i])
    BY <1>2, <1>3
  <2>3. clean(sent[k]).email = clean(rows[i]).email
    BY <2>2, CleanAgain
  <2>4. \E a \in accounts : a.email = clean(sent[k]).email
    BY <2>3
  <2>. QED
    BY <2>1, <2>4 DEF AccountError
<1>5. G = {}
  BY <1>1, <1>4
<1>6. Created(sent, accounts) = Kept([i \in DOMAIN sent |-> clean(sent[i])], G)
  BY DEF Created, bulkImportStudents
<1> HIDE DEF G
<1>7. Cardinality(G) = 0
  BY <1>5, FS_EmptySet
<1>8. Created(sent, accounts) = <<>>
  BY <1>6, <1>7 DEF Kept
<1>. QED
  BY <1>8 DEF sent

-----------------------------------------------------------------------------
(* Sheets.                                                                 *)

\* The columns of a table that have one of these headers.
Columns(headers, names) == {i \in DOMAIN headers : headers[i] \in names}

\* A value is that of the only column it may stand in.
LEMMA ColumnOf ==
    ASSUME NEW table, NEW k, NEW names, NEW c \in Nat, Columns(table.headers, names) = {c}
    PROVE  getVal(table, k, names) = trim(table.rows[k][c])
<1> DEFINE columns == Columns(table.headers, names)
<1>1. columns # {} /\ (CHOOSE i \in columns : \A j \in columns : i <= j) = c
  <2>1. \A i \in columns : i = c
    OBVIOUS
  <2>2. c \in columns /\ \A j \in columns : c <= j
    OBVIOUS
  <2> HIDE DEF columns
  <2>. QED
    BY <2>1, <2>2
<1>2. getVal(table, k, names) =
         IF columns = {} THEN "" ELSE trim(table.rows[k][CHOOSE i \in columns : \A j \in columns : i <= j])
  BY DEF getVal, Columns
<1> HIDE DEF columns
<1>. QED
  BY <1>1, <1>2

\* The only column there is with one of these headers.
LEMMA OnlyColumn ==
    ASSUME NEW headers, NEW names, NEW D, DOMAIN headers = D, NEW c \in D, headers[c] \in names,
           \A i \in D : i # c => headers[i] \notin names
    PROVE  Columns(headers, names) = {c}
BY DEF Columns

\* What is in a list is listed.
LEMMA InList ==
    ASSUME NEW s, NEW D, DOMAIN s = D, NEW k \in D, NEW A, ToSet(s) \subseteq A
    PROVE  s[k] \in A
<1>1. s[k] \in ToSet(s)
  BY DEF ToSet
<1>. QED
  BY <1>1

\* The headers that are looked for, and a row.
Usns == {"USN", "Roll Number", "USN/Roll", "ID", "RollNo", "Student USN"}
Names == {"Name", "Student Name", "Full Name", "StudentName"}
Emails == {"Email", "Email ID", "EmailAddress", "Email Address"}
Sections == {"Section", "Sec", "Class"}

Row(usn, name, email, section) == [usn |-> usn, name |-> name, email |-> email, section |-> section]

\* The rows of a sheet.
LEMMA Uploaded ==
    ASSUME NEW table
    PROVE  handleFileUpload(table) =
              [k \in DOMAIN table.rows |-> Row(getVal(table, k, Usns), getVal(table, k, Names),
                                               getVal(table, k, Emails), getVal(table, k, Sections))]
BY DEF handleFileUpload, Row, Usns, Names, Emails, Sections

\* The address of a row of a table is that of its column.
LEMMA UploadedEmail ==
    ASSUME NEW table, NEW k \in DOMAIN table.rows, NEW c \in Nat, Columns(table.headers, Emails) = {c}
    PROVE  handleFileUpload(table)[k].email = trim(table.rows[k][c])
<1>1. handleFileUpload(table)[k].email = getVal(table, k, Emails)
  BY Uploaded DEF Row
<1>. QED
  BY <1>1, ColumnOf

\* Accounts that were made of n rows, and a table that has their addresses in its column c.
Made(made, n, accounts) ==
    /\ n \in Nat /\ DOMAIN made = 1..n /\ ToSet(made) \subseteq accounts
    /\ \A k \in 1..n : \E u : made[k] = clean(u)

HasAddresses(table, made, n, c) ==
    /\ DOMAIN table.rows = 1..n /\ c \in Nat /\ Columns(table.headers, Emails) = {c}
    /\ \A k \in 1..n : table.rows[k][c] = made[k].email

\* A table that has the new accounts' addresses in one column creates nobody.
LEMMA SheetCreatesNobody ==
    ASSUME NEW made, NEW n, NEW accounts, Made(made, n, accounts),
           NEW table, NEW c, HasAddresses(table, made, n, c)
    PROVE  Created(Sent(handleFileUpload(table)), accounts) = <<>>
<1> DEFINE rows == handleFileUpload(table)
<1>1. n \in Nat /\ DOMAIN rows = 1..n
  BY DEF handleFileUpload, Made, HasAddresses
<1>2. ASSUME NEW k \in 1..n PROVE \E a \in accounts : a.email = clean(rows[k]).email
  <2>1. rows[k].email = trim(made[k].email)
    <3>1. k \in DOMAIN table.rows /\ c \in Nat /\ Columns(table.headers, Emails) = {c}
      BY DEF HasAddresses
    <3>2. table.rows[k][c] = made[k].email
      BY DEF HasAddresses
    <3>. QED
      BY <3>1, <3>2, UploadedEmail
  <2>2. PICK u : made[k] = clean(u)
    BY DEF Made
  <2>3. made[k].email = toLowerCase(u.email)
    BY <2>2, CleanFields
  <2>4. rows[k].email = made[k].email
    BY <2>1, <2>3, CleanTwice
  <2>5. clean(rows[k]).email = toLowerCase(rows[k].email)
    BY CleanFields
  <2>6. clean(rows[k]).email = made[k].email
    BY <2>3, <2>4, <2>5, CleanTwice
  <2>7. made[k] \in accounts
    BY InList DEF Made
  <2>. QED
    BY <2>6, <2>7
<1> HIDE DEF rows
<1>. QED
  BY <1>1, <1>2, NothingNew DEF rows

\* What a table has in a cell.
LEMMA SavedSheet ==
    ASSUME NEW headers, NEW rows
    PROVE  LET table == downloadRowsAsExcel(headers, rows)
           IN  /\ table.headers = headers /\ DOMAIN table.rows = DOMAIN rows
               /\ \A k \in DOMAIN rows : \A i \in DOMAIN headers :
                     table.rows[k][i] = sanitizeCellValue(rows[k][i])
BY DEF downloadRowsAsExcel

\* The table of the new accounts creates nobody.
LEMMA CredentialsCreateNobody ==
    ASSUME NEW made, NEW n, NEW accounts, Made(made, n, accounts),
           \A k \in 1..n : made[k].email # "=n"
    PROVE  Created(Sent(handleFileUpload(downloadCredentials(made))), accounts) = <<>>
<1> DEFINE headers == <<"USN", "Name", "Email", "Section", "Password">>
           rows == [k \in DOMAIN made |-> <<made[k].usn, made[k].name, made[k].email,
                                            made[k].section, "password">>]
           table == downloadCredentials(made)
<1>1. table = downloadRowsAsExcel(headers, rows)
  BY DEF downloadCredentials
<1>2. 3 \in DOMAIN headers /\ Columns(headers, Emails) = {3}
  <2>1. DOMAIN headers = 1..5 /\ 3 \in 1..5
    OBVIOUS
  <2>2. /\ headers[1] = "USN" /\ headers[2] = "Name" /\ headers[3] = "Email"
        /\ headers[4] = "Section" /\ headers[5] = "Password"
    OBVIOUS
  <2> HIDE DEF headers
  <2>3. headers[3] \in Emails
    BY <2>2 DEF Emails
  <2>4. ASSUME NEW i \in 1..5, i # 3 PROVE headers[i] \notin Emails
    <3>1. i = 1 \/ i = 2 \/ i = 4 \/ i = 5
      BY <2>4
    <3>. QED
      BY <2>2, <3>1 DEF Emails
  <2>. QED
    BY <2>1, <2>3, <2>4, OnlyColumn
<1>3. DOMAIN rows = 1..n
  BY DEF Made
<1>4. ASSUME NEW k \in 1..n PROVE rows[k][3] = made[k].email
  <2>1. k \in DOMAIN made
    BY DEF Made
  <2>. QED
    BY <2>1
<1> HIDE DEF headers, rows, table
<1>5. table.headers = headers /\ DOMAIN table.rows = 1..n
  BY <1>1, <1>3, SavedSheet
<1>6. ASSUME NEW k \in 1..n PROVE table.rows[k][3] = made[k].email
  <2>1. table.rows[k][3] = sanitizeCellValue(rows[k][3])
    <3>1. k \in DOMAIN rows
      BY <1>3
    <3>. QED
      BY ONLY <1>1, <1>2, <3>1, SavedSheet
  <2>2. made[k].email # "=n"
    OBVIOUS
  <2>. QED
    BY <1>4, <2>1, <2>2 DEF sanitizeCellValue
<1>7. Columns(table.headers, Emails) = {3} /\ 3 \in Nat
  BY <1>2, <1>5
<1>8. \A k \in 1..n : table.rows[k][3] = made[k].email
  BY <1>6
<1>9. Created(Sent(handleFileUpload(table)), accounts) = <<>>
  <2>1. HasAddresses(table, made, n, 3)
    BY <1>5, <1>7, <1>8 DEF HasAddresses
  <2>. QED
    BY <2>1, SheetCreatesNobody
<1>. QED
  BY <1>9 DEF table

\* Nor does the table of all there are.
LEMMA ExportCreatesNobody ==
    ASSUME NEW made, NEW n, NEW accounts, Made(made, n, accounts),
           \A k \in 1..n : made[k].email # "=n"
    PROVE  Created(Sent(handleFileUpload(exportAllUsers(made))), accounts) = <<>>
<1> DEFINE headers == <<"ID", "Name", "USN", "Email", "Section", "Role">>
           rows == [k \in DOMAIN made |-> <<made[k].email, made[k].name, made[k].usn, made[k].email,
                                            made[k].section, "student">>]
           table == exportAllUsers(made)
<1>1. table = downloadRowsAsExcel(headers, rows)
  BY DEF exportAllUsers
<1>2. 4 \in DOMAIN headers /\ Columns(headers, Emails) = {4}
  <2>1. DOMAIN headers = 1..6 /\ 4 \in 1..6
    OBVIOUS
  <2>2. /\ headers[1] = "ID" /\ headers[2] = "Name" /\ headers[3] = "USN"
        /\ headers[4] = "Email" /\ headers[5] = "Section" /\ headers[6] = "Role"
    OBVIOUS
  <2> HIDE DEF headers
  <2>3. headers[4] \in Emails
    BY <2>2 DEF Emails
  <2>4. ASSUME NEW i \in 1..6, i # 4 PROVE headers[i] \notin Emails
    <3>1. i = 1 \/ i = 2 \/ i = 3 \/ i = 5 \/ i = 6
      BY <2>4
    <3>. QED
      BY <2>2, <3>1 DEF Emails
  <2>. QED
    BY <2>1, <2>3, <2>4, OnlyColumn
<1>3. DOMAIN rows = 1..n
  BY DEF Made
<1>4. ASSUME NEW k \in 1..n PROVE rows[k][4] = made[k].email
  <2>1. k \in DOMAIN made
    BY DEF Made
  <2>. QED
    BY <2>1
<1> HIDE DEF headers, rows, table
<1>5. table.headers = headers /\ DOMAIN table.rows = 1..n
  BY <1>1, <1>3, SavedSheet
<1>6. ASSUME NEW k \in 1..n PROVE table.rows[k][4] = made[k].email
  <2>1. table.rows[k][4] = sanitizeCellValue(rows[k][4])
    <3>1. k \in DOMAIN rows
      BY <1>3
    <3>. QED
      BY ONLY <1>1, <1>2, <3>1, SavedSheet
  <2>2. made[k].email # "=n"
    OBVIOUS
  <2>. QED
    BY <1>4, <2>1, <2>2 DEF sanitizeCellValue
<1>7. Columns(table.headers, Emails) = {4} /\ 4 \in Nat
  BY <1>2, <1>5
<1>8. \A k \in 1..n : table.rows[k][4] = made[k].email
  BY <1>6
<1>9. Created(Sent(handleFileUpload(table)), accounts) = <<>>
  <2>1. HasAddresses(table, made, n, 4)
    BY <1>5, <1>7, <1>8 DEF HasAddresses
  <2>. QED
    BY <2>1, SheetCreatesNobody
<1>. QED
  BY <1>9 DEF table

-----------------------------------------------------------------------------
(* Lines.                                                                  *)

\* A cell of a line, and the lines that have cells enough.
Part(line, i) == IF i <= Len(line) THEN trim(line[i]) ELSE ""

Complete(lines) == {k \in DOMAIN lines : Len(lines[k]) >= 2}

\* The rows of pasted lines.
LEMMA PastedRows ==
    ASSUME NEW lines, NEW n \in Nat, DOMAIN lines = 1..n
    PROVE  LET P == Complete(lines)
               R == Kept(lines, P)
           IN  /\ Cardinality(P) \in Nat
               /\ DOMAIN R = 1..Cardinality(P)
               /\ \A k \in 1..Cardinality(P) : R[k] \in ToSet(lines)
               /\ pastedLines(lines) =
                     [k \in DOMAIN R |-> Row(Part(R[k], 1), Part(R[k], 2), Part(R[k], 3), Part(R[k], 4))]
<1> DEFINE P == Complete(lines)
           R == Kept(lines, P)
<1>1. P \in SUBSET (1..n)
  BY DEF Complete
<1>2. pastedLines(lines) =
         [k \in DOMAIN R |-> Row(Part(R[k], 1), Part(R[k], 2), Part(R[k], 3), Part(R[k], 4))]
  BY DEF pastedLines, Part, Row, Complete
<1> HIDE DEF P
<1>3. Cardinality(P) \in Nat /\ \A k \in 1..Cardinality(P) : Nth(P, k) \in P
  BY <1>1, Places
<1>4. R = [k \in 1..Cardinality(P) |-> lines[Nth(P, k)]]
  BY DEF Kept
<1> HIDE DEF R
<1>5. DOMAIN R = 1..Cardinality(P)
  BY <1>4
<1>6. ASSUME NEW k \in 1..Cardinality(P) PROVE R[k] \in ToSet(lines)
  <2>1. Nth(P, k) \in 1..n /\ R[k] = lines[Nth(P, k)]
    BY <1>1, <1>3, <1>4
  <2>. QED
    BY <2>1, InList
<1>. QED
  BY <1>2, <1>3, <1>5, <1>6 DEF R, P

\* Lines that are complete are read as a table with the template's headers is.
LEMMA ReadAlike ==
    ASSUME NEW lines, NEW n \in Nat, lines = [k \in 1..n |-> lines[k]],
           \A line \in ToSet(lines) : Len(line) = Len(sampleHeaders)
    PROVE  handleFileUpload([headers |-> sampleHeaders, rows |-> lines]) = pastedLines(lines)
<1> DEFINE P == Complete(lines)
           H == sampleHeaders
           table == [headers |-> H, rows |-> lines]
<1>1. DOMAIN lines = 1..n
  OBVIOUS
<1>2. Len(H) = 4
  BY DEF sampleHeaders
<1>3. ASSUME NEW k \in 1..n PROVE Len(lines[k]) = 4
  <2>1. lines[k] \in ToSet(lines)
    BY <1>1, InList
  <2>. QED
    BY <1>2, <2>1
<1>4. P = 1..n
  <2>1. ASSUME NEW k \in 1..n PROVE Len(lines[k]) >= 2
    BY ONLY <1>3, k \in 1..n
  <2>. QED
    BY ONLY <1>1, <2>1 DEF Complete
<1>5. Kept(lines, P) = lines
  BY <1>4, KeptWhole
<1>6. pastedLines(lines) =
         [k \in 1..n |-> Row(Part(lines[k], 1), Part(lines[k], 2), Part(lines[k], 3), Part(lines[k], 4))]
  <2> DEFINE R == Kept(lines, P)
  <2>1. pastedLines(lines) =
           [k \in DOMAIN R |-> Row(Part(R[k], 1), Part(R[k], 2), Part(R[k], 3), Part(R[k], 4))]
    BY <1>1, PastedRows
  <2> HIDE DEF R
  <2>2. R = lines
    BY <1>5 DEF R
  <2>. QED
    BY ONLY <1>1, <2>1, <2>2
<1>7. table.headers = H /\ table.rows = lines
  OBVIOUS
<1>8. /\ Columns(H, Usns) = {1} /\ Columns(H, Names) = {2}
      /\ Columns(H, Emails) = {3} /\ Columns(H, Sections) = {4}
  <2>1. DOMAIN H = 1..4
    BY DEF sampleHeaders
  <2>2. H[1] = "USN" /\ H[2] = "Name" /\ H[3] = "Email" /\ H[4] = "Section"
    BY DEF sampleHeaders
  <2> HIDE DEF H
  <2>3. \A i \in 1..4 : i = 1 \/ i = 2 \/ i = 3 \/ i = 4
    OBVIOUS
  <2>4. Columns(H, Usns) = {1}
    <3>1. H[1] \in Usns /\ \A i \in 1..4 : i # 1 => H[i] \notin Usns
      BY ONLY <2>2, <2>3 DEF Usns
    <3>. QED
      BY ONLY <2>1, <3>1, 1 \in 1..4, OnlyColumn
  <2>5. Columns(H, Names) = {2}
    <3>1. H[2] \in Names /\ \A i \in 1..4 : i # 2 => H[i] \notin Names
      BY ONLY <2>2, <2>3 DEF Names
    <3>. QED
      BY ONLY <2>1, <3>1, 2 \in 1..4, OnlyColumn
  <2>6. Columns(H, Emails) = {3}
    <3>1. H[3] \in Emails /\ \A i \in 1..4 : i # 3 => H[i] \notin Emails
      BY ONLY <2>2, <2>3 DEF Emails
    <3>. QED
      BY ONLY <2>1, <3>1, 3 \in 1..4, OnlyColumn
  <2>7. Columns(H, Sections) = {4}
    <3>1. H[4] \in Sections /\ \A i \in 1..4 : i # 4 => H[i] \notin Sections
      BY ONLY <2>2, <2>3 DEF Sections
    <3>. QED
      BY ONLY <2>1, <3>1, 4 \in 1..4, OnlyColumn
  <2>. QED
    BY <2>4, <2>5, <2>6, <2>7
<1>9. handleFileUpload(table) =
         [k \in DOMAIN lines |-> Row(getVal(table, k, Usns), getVal(table, k, Names),
                                     getVal(table, k, Emails), getVal(table, k, Sections))]
  BY <1>7, Uploaded
<1> HIDE DEF H, table, P
<1>10. ASSUME NEW k \in 1..n
       PROVE  /\ getVal(table, k, Usns) = Part(lines[k], 1)
              /\ getVal(table, k, Names) = Part(lines[k], 2)
              /\ getVal(table, k, Emails) = Part(lines[k], 3)
              /\ getVal(table, k, Sections) = Part(lines[k], 4)
  <2>1. \A i \in 1..4 : Part(lines[k], i) = trim(lines[k][i])
    <3>1. Len(lines[k]) = 4
      BY <1>3
    <3>2. ASSUME NEW i \in 1..4 PROVE i <= Len(lines[k])
      BY ONLY <3>1, <3>2
    <3>. QED
      BY ONLY <3>2 DEF Part
  <2>2. Columns(table.headers, Usns) = {1} /\ 1 \in Nat
    BY <1>7, <1>8
  <2>3. getVal(table, k, Usns) = trim(lines[k][1])
    BY ONLY <1>7, <2>2, ColumnOf
  <2>4. Columns(table.headers, Names) = {2} /\ 2 \in Nat
    BY <1>7, <1>8
  <2>5. getVal(table, k, Names) = trim(lines[k][2])
    BY ONLY <1>7, <2>4, ColumnOf
  <2>6. Columns(table.headers, Emails) = {3} /\ 3 \in Nat
    BY <1>7, <1>8
  <2>7. getVal(table, k, Emails) = trim(lines[k][3])
    BY ONLY <1>7, <2>6, ColumnOf
  <2>8. Columns(table.headers, Sections) = {4} /\ 4 \in Nat
    BY <1>7, <1>8
  <2>9. getVal(table, k, Sections) = trim(lines[k][4])
    BY ONLY <1>7, <2>8, ColumnOf
  <2>10. 1 \in 1..4 /\ 2 \in 1..4 /\ 3 \in 1..4 /\ 4 \in 1..4
    OBVIOUS
  <2>. QED
    BY <2>1, <2>3, <2>5, <2>7, <2>9, <2>10
<1>11. handleFileUpload(table) = pastedLines(lines)
  BY <1>1, <1>6, <1>9, <1>10
<1>. QED
  BY <1>11 DEF table, H

\* Lines are sequences.
LEMMA LinesAre ==
    ASSUME NEW S, NEW lines \in Seq(Seq(S))
    PROVE  /\ Len(lines) \in Nat /\ DOMAIN lines = 1..Len(lines)
           /\ lines = [k \in 1..Len(lines) |-> lines[k]]
           /\ \A line \in ToSet(lines) : Len(line) \in Nat /\ DOMAIN line = 1..Len(line)
<1>1. Len(lines) \in Nat /\ DOMAIN lines = 1..Len(lines) /\ lines = [k \in 1..Len(lines) |-> lines[k]]
  OBVIOUS
<1>2. ASSUME NEW line \in ToSet(lines) PROVE line \in Seq(S)
  BY <1>1 DEF ToSet
<1>3. \A line \in ToSet(lines) : Len(line) \in Nat /\ DOMAIN line = 1..Len(line)
  BY <1>2
<1>. QED
  BY <1>1, <1>3

\* No pasted address is one a spreadsheet would evaluate.
LEMMA PastedAddresses ==
    ASSUME NEW S, NEW lines \in Seq(Seq(S)),
           \A line \in ToSet(lines) : \A i \in DOMAIN line : i = 3 => line[i] # "=n"
    PROVE  /\ \E n \in Nat : DOMAIN pastedLines(lines) = 1..n
           /\ \A k \in DOMAIN pastedLines(lines) : clean(pastedLines(lines)[k]).email # "=n"
<1> DEFINE R == Kept(lines, Complete(lines))
           rows == pastedLines(lines)
           m == Cardinality(Complete(lines))
<1>1. /\ m \in Nat /\ DOMAIN R = 1..m /\ \A k \in 1..m : R[k] \in ToSet(lines)
      /\ rows = [k \in DOMAIN R |-> Row(Part(R[k], 1), Part(R[k], 2), Part(R[k], 3), Part(R[k], 4))]
  <2>1. Len(lines) \in Nat /\ DOMAIN lines = 1..Len(lines)
    BY LinesAre
  <2>. QED
    BY ONLY <2>1, PastedRows, Zenon
<1> HIDE DEF R, rows, m
<1>2. DOMAIN rows = 1..m
  BY <1>1
<1>3. ASSUME NEW k \in 1..m PROVE clean(rows[k]).email # "=n"
  <2>1. rows[k] = Row(Part(R[k], 1), Part(R[k], 2), Part(R[k], 3), Part(R[k], 4))
    BY <1>1
  <2>2. rows[k].email = Part(R[k], 3)
    BY <2>1 DEF Row
  <2>3. R[k] \in ToSet(lines) /\ Len(R[k]) \in Nat /\ DOMAIN R[k] = 1..Len(R[k])
    BY <1>1, LinesAre
  <2>6. clean(rows[k]).email = toLowerCase(rows[k].email)
    BY CleanFields
  <2>4. CASE 3 <= Len(R[k])
    <3>1. R[k][3] # "=n"
      BY <2>3, <2>4
    <3>2. Part(R[k], 3) = trim(R[k][3])
      BY <2>4 DEF Part
    <3>. QED
      BY <2>2, <2>6, <3>1, <3>2, CleanTwice
  <2>5. CASE ~(3 <= Len(R[k]))
    <3>1. Part(R[k], 3) = ""
      BY <2>5 DEF Part
    <3>. QED
      BY <2>2, <2>6, <3>1, CleanTwice
  <2>. QED
    BY <2>4, <2>5
<1>. QED
  BY <1>1, <1>2, <1>3 DEF rows

\* What the page and the API do with one upload.
LEMMA Agreed == ASSUME InitImport PROVE ImportAgrees
<1> DEFINE lines == upload.lines
           accounts == upload.accounts
           rows == pastedLines(lines)
           made == Created(Sent(rows), accounts)
           errs == Refusals(Sent(rows), accounts)
           after == accounts \cup ToSet(made)
           c == Len(made)
<1>1. /\ IsFiniteSet(accounts) /\ Distinct(accounts)
      /\ \A line \in ToSet(lines) : \A i \in DOMAIN line : i = 3 => line[i] # "=n"
  BY DEF InitImport, Distinct
<1>2. lines \in Seq(Seq(STRING))
  BY DEF InitImport
<1> HIDE DEF lines, accounts
<1>3. PICK n \in Nat : DOMAIN rows = 1..n
  BY <1>1, <1>2, PastedAddresses
<1>4. \A k \in 1..n : clean(rows[k]).email # "=n"
  BY <1>1, <1>2, <1>3, PastedAddresses
<1> HIDE DEF rows, made, errs, after
<1>5. /\ \A e \in ToSet(errs) :
            e.error \in {"Email already registered in system", "USN already registered in system"}
      /\ Len(Sent(rows)) = Len(made) + Len(errs)
      /\ ToSet(made) \subseteq ToSet(Created(rows, accounts))
      /\ Cardinality(after) = Cardinality(accounts) + Len(made)
      /\ Distinct(after)
      /\ Len(made) \in Nat /\ DOMAIN made = 1..Len(made)
      /\ \A k \in DOMAIN made : \E i \in 1..n : made[k] = clean(rows[i])
  <2>1. WellImported(rows, n, accounts)
    BY <1>1, <1>3, Imported
  <2>. QED
    BY ONLY <2>1 DEF WellImported, made, errs, after
<1>6. Made(made, c, after) /\ \A k \in 1..c : made[k].email # "=n"
  <2>1. ToSet(made) \subseteq after
    BY DEF after
  <2>. QED
    BY <1>4, <1>5, <2>1 DEF Made
<1>7. /\ Created(Sent(handleFileUpload(downloadCredentials(made))), after) = <<>>
      /\ Created(Sent(handleFileUpload(exportAllUsers(made))), after) = <<>>
  BY <1>6, CredentialsCreateNobody, ExportCreatesNobody
<1>8. (\A line \in ToSet(lines) : Len(line) = Len(sampleHeaders)) =>
         handleFileUpload([headers |-> sampleHeaders, rows |-> lines]) = rows
  BY <1>2, LinesAre, ReadAlike DEF rows
<1>. QED
  BY <1>5, <1>7, <1>8 DEF ImportAgrees, lines, accounts, rows, made, errs, after, Created, Refusals, Sent, Distinct

\* What the page sends and what the API makes of it agree for any upload beside any accounts.
THEOREM ImportsAgree == ImportSpec => []ImportAgrees
<1>1. InitImport => ImportAgrees
  BY Agreed
<1>2. ImportAgrees /\ [UNCHANGED upload]_upload => ImportAgrees'
  BY DEF ImportAgrees
<1>. QED
  BY <1>1, <1>2, PTL DEF ImportSpec
=============================================================================
