-------------------------- MODULE MCScaleDecision --------------------------
(***************************************************************************)
(* decideScale over every small input: two loads that differ in how busy   *)
(* the language was, with the same limits, target, cooldowns and headroom. *)
(***************************************************************************)
EXTENDS ScaleDecision

CONSTANTS MaxLimit, MaxWait, MaxTimeouts

ASSUME BoundAssumption ==
    MaxLimit \in Nat /\ MaxWait \in Nat /\ MaxTimeouts \in Nat

VARIABLES lo, hi, target, calm, busy, headroom

inputs == <<lo, hi, target, calm, busy, headroom>>

SmallLoad == [traffic : {TRUE}, wait : 0..MaxWait, timeouts : 0..MaxTimeouts,
              upElapsed : BOOLEAN, downElapsed : BOOLEAN]

\* A target is in range or, defensively, just outside it.
Init ==
    /\ lo \in 0..MaxLimit /\ hi \in lo..MaxLimit /\ target \in 0..(MaxLimit + 1)
    /\ calm \in SmallLoad
    /\ busy \in {load \in SmallLoad :
                    /\ load.upElapsed = calm.upElapsed
                    /\ load.downElapsed = calm.downElapsed
                    /\ calm.wait <= load.wait /\ calm.timeouts <= load.timeouts}
    /\ headroom \in BOOLEAN

Spec == Init /\ [][UNCHANGED inputs]_inputs

\* "a language under load should never shrink just because it also can't grow
\* this tick", and more generally: at the same limits, cooldowns and headroom a
\* busier interval never gives a smaller target than a calmer one.
BusierNeverSmaller ==
    DecideScale(lo, hi, target, calm, headroom) <= DecideScale(lo, hi, target, busy, headroom)
=============================================================================
