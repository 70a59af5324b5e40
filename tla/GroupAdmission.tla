-------------------------- MODULE GroupAdmission --------------------------
(***************************************************************************)
(* What the hardware of a G group promises to whoever commands it: it runs *)
(* one whole batch after the other, counted by generations without a gap   *)
(* up to kMaxGeneration, the first one released, and after a fault has     *)
(* latched it only released ones.  A batch that it has admitted may still  *)
(* be lost on the way to the send thread; that latches.                    *)
(*                                                                         *)
(* PairStream, whose write() and send thread take many steps, implements   *)
(* it; so do the hardware that NAxisTrajectory commands in one step and    *)
(* the test hardware of BxiPairAdapter.                                    *)
(***************************************************************************)
EXTENDS Naturals

CONSTANT MaxGeneration

VARIABLES
    generation,   \* the last admitted generation that is settled
    kind,         \* the batch that runs: "none", "released" or "active"
    latched       \* only released batches are admitted from now on

groupVars == <<generation, kind, latched>>

Init == generation = 0 /\ kind = "none" /\ latched = FALSE

Advance == generation < MaxGeneration /\ generation' = generation + 1

\* The next batch runs; telling the send thread of it may fail and latch.
Run(k) ==
    /\ Advance
    /\ k = "active" => generation # 0 /\ ~latched
    /\ kind' = k
    /\ latched' \in BOOLEAN /\ (latched => latched')

\* The next batch is admitted and not published.
Lose ==
    /\ Advance
    /\ latched' = TRUE
    /\ UNCHANGED kind

Latch == latched' = TRUE /\ UNCHANGED <<generation, kind>>

Next == (\E k \in {"released", "active"} : Run(k)) \/ Lose \/ Latch

Spec == Init /\ [][Next]_groupVars
===========================================================================
