--------------------------- MODULE ScaleDecision ---------------------------
(***************************************************************************)
(* The pure core of the container-pool autoscaler: decideScale of          *)
(* pkg/pool/scaledecision.go.  A tick gives it one language's limits and   *)
(* current target, the load seen since the last tick and whether the host  *)
(* has room for one more container; it answers with the next target.       *)
(***************************************************************************)
EXTENDS Naturals

CONSTANTS
    UpThreshold,    \* average wait above which a language grows
    DownThreshold   \* average wait below which it shrinks

\* "Requires upThresholdMs > downThresholdMs (asymmetric by design ...)".
ASSUME ThresholdAssumption ==
    /\ UpThreshold \in Nat /\ DownThreshold \in Nat
    /\ DownThreshold < UpThreshold

\* What one tick observes: Acquire calls seen at all, their average wait, how
\* many timed out, and which of the two cooldowns have elapsed.
Load == [traffic : BOOLEAN, wait : Nat, timeouts : Nat,
         upElapsed : BOOLEAN, downElapsed : BOOLEAN]

\* The defensive clamp of an out-of-range target.
Clamp(target, lo, hi) ==
    LET raised == IF target < lo THEN lo ELSE target
    IN  IF raised > hi THEN hi ELSE raised

WantsScaleUp(load) == load.timeouts > 0 \/ load.wait > UpThreshold

\* Defect: growing without the check of max.
GrowsPastMax(lo, hi, target, load, headroom) ==
    load.traffic /\ WantsScaleUp(load) /\ load.upElapsed /\ headroom

Grows(lo, hi, target, load, headroom) ==
    /\ load.traffic /\ WantsScaleUp(load)
    /\ target < hi /\ load.upElapsed /\ headroom

\* Defect: the comparison with the lower threshold is the wrong way round.
ShrinksAbove(lo, hi, target, load) ==
    /\ load.traffic /\ ~WantsScaleUp(load) /\ load.wait > DownThreshold
    /\ target > lo /\ load.downElapsed

Shrinks(lo, hi, target, load) ==
    /\ load.traffic /\ ~WantsScaleUp(load) /\ load.wait < DownThreshold
    /\ target > lo /\ load.downElapsed

DecideScale(lo, hi, target, load, headroom) ==
    LET now == Clamp(target, lo, hi)
    IN  IF Grows(lo, hi, now, load, headroom) THEN now + 1
        ELSE IF Shrinks(lo, hi, now, load) THEN now - 1
        ELSE now
=============================================================================
