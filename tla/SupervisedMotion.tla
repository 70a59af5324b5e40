------------------------- MODULE SupervisedMotion -------------------------
(***************************************************************************)
(* What a trajectory controller promises to whoever stands next to the     *)
(* robot: it applies gains only in a run that somebody has asked for and   *)
(* while that run's supervisor is alive, each request is good for one run, *)
(* and a run that has ended, for whatever reason, moves again only after   *)
(* another request.  A gain that was applied may outlast its run, when the *)
(* hardware refuses the release.                                           *)
(*                                                                         *)
(* HilTrajectory and NAxisTrajectory implement it, each with its own       *)
(* threads between a request, a keepalive and an output.                   *)
(***************************************************************************)

VARIABLES
    waiting,   \* a request has been accepted and not been taken yet
    phase,     \* "rest", "armed" or "moving"
    gains,     \* the command interfaces hold a gain
    alive      \* the last keepalive of the last request is within its lease

motionVars == <<waiting, phase, gains>>

Init == waiting = FALSE /\ phase = "rest" /\ gains = FALSE

Accept ==
    /\ phase = "rest" /\ ~waiting
    /\ waiting' = TRUE
    /\ UNCHANGED <<phase, gains>>

\* A request that is stopped before it starts.
Withdraw == waiting' = FALSE /\ UNCHANGED <<phase, gains>>

\* The run starts, and moves at once if its supervisor is alive already.
Start ==
    /\ phase = "rest" /\ waiting
    /\ waiting' = FALSE
    /\ phase' = "armed" \/ (alive /\ phase' = "moving")
    /\ UNCHANGED gains

Move ==
    /\ phase = "armed" /\ alive
    /\ phase' = "moving"
    /\ UNCHANGED <<waiting, gains>>

MayDrive == phase = "moving" /\ alive

Drive == MayDrive /\ gains' = TRUE /\ UNCHANGED <<waiting, phase>>

\* The end of a run; the output that ends it may be a refused one.
End ==
    /\ phase # "rest" /\ phase' = "rest"
    /\ gains' \in BOOLEAN /\ (gains' => gains \/ MayDrive)
    /\ UNCHANGED waiting

\* A failure that releases the outputs may also end a request before its run.
Release ==
    /\ gains' = FALSE /\ waiting' \in {waiting, FALSE}
    /\ UNCHANGED phase

Next == Accept \/ Withdraw \/ Start \/ Move \/ Drive \/ End \/ Release

Spec == Init /\ [][Next]_motionVars
===========================================================================
