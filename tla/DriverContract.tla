-------------------------- MODULE DriverContract --------------------------
(***************************************************************************)
(* What the driver of one motor promises the rest of the hardware          *)
(* interface within one activation (include/bxi_hardware/actuator/         *)
(* bxi_actuator.hpp), whichever thread calls it: a motor that nobody has   *)
(* enabled gets no control frame, one that has been told to disable gets   *)
(* no enable or control frame any more, the driver takes the motor for     *)
(* disabled only after a disable, and safe-stop, which sends one, is never *)
(* left.                                                                   *)
(*                                                                         *)
(* BxiActuator implements it request by request; SystemStop, which has a   *)
(* driver call as one step, implements it for each of its motors.          *)
(***************************************************************************)

VARIABLES
    state,   \* state_, "none" before the driver exists
    last     \* the last frame tried: "none", "drive" (enable or control)
             \* or "disable"

contractVars == <<state, last>>

Init == state \in {"none", "kDisabled"} /\ last = "none"

\* enable(), answered at once or not.
Enable ==
    /\ state \in {"none", "kDisabled"} /\ last # "disable"
    /\ state' \in {"kDisabled", "kEnabled"} /\ last' = "drive"

\* The answer to an earlier enable().
Enabled ==
    /\ state = "kDisabled" /\ last = "drive"
    /\ state' = "kEnabled" /\ UNCHANGED last

\* A control frame.
Control ==
    /\ state = "kEnabled" /\ last # "disable"
    /\ last' = "drive" /\ UNCHANGED state

\* disable(), answered at once or not.
Disable ==
    /\ state # "none"
    /\ state' \in IF state = "kSafeStopped" THEN {state} ELSE {state, "kDisabled"}
    /\ last' = "disable"

\* latchSafeStop()
Latch == state' = "kSafeStopped" /\ last' = "disable"

Next == Enable \/ Enabled \/ Control \/ Disable \/ Latch

Spec == Init /\ [][Next]_contractVars
===========================================================================
