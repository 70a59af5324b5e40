---------------------------- MODULE PairCommit ----------------------------
(***************************************************************************)
(* PairCommit (include/bxi_hardware/pair_commit.hpp): the hardware side's  *)
(* admission check of a group command.  The controller writes the values   *)
(* of all axes and then a generation number; a batch is admitted only when *)
(* the generation is the successor of the last admitted one and the values *)
(* are acceptable.  Misuse latches: from then on only released batches     *)
(* (gains, velocity and effort zero) are admitted.                         *)
(*                                                                         *)
(* A batch is known by its class, a time by whether the startup deadline   *)
(* has passed, and BadGeneration stands for every double that is not an    *)
(* integer of 0 .. kMaxGeneration (NaN, infinity, negative, fractional).   *)
(***************************************************************************)
EXTENDS Naturals

CONSTANT MaxGeneration   \* kMaxGeneration, 2^53 - 1 in the code

ASSUME MaxGenerationAssumption == MaxGeneration \in Nat \ {0}

VARIABLES
    last,      \* last_: the last admitted generation, 0 before the first
    latched,   \* latched_
    expired    \* expired_: the first batch missed the startup deadline

commitVars == <<last, latched, expired>>

Generations == 0 .. MaxGeneration
BadGeneration == MaxGeneration + 1

\* released: in bounds, and zero but for the positions; active: in bounds,
\* something else is nonzero; invalid: a value not finite or out of bounds.
Batches == {"released", "active", "invalid"}

Reasons ==
    {"BootWait", "Unchanged", "Accepted", "InvalidGeneration", "Rollback",
     "Gap", "InvalidBatch", "LatchedNonzero", "StartupExpired", "UpperLimit",
     "PublishFailed", "NotClaimed", "FeedbackPending"}

CommitInit ==
    /\ last = 0
    /\ latched = FALSE
    /\ expired = FALSE

\* expired_ after the first test of inspect().
ExpiresNow(late) == expired \/ (last = 0 /\ late)

\* Mutant: any newer generation will do.
GapTolerated(g) == FALSE

\* g is newer than the last generation but not its successor.
IsGap(g) == g # last + 1

\* A value is not finite or outside the configured min/max.
OutOfBounds(batch) == batch = "invalid"

\* "The first committed batch and every batch after a fault must be released."
MustBeReleased == latched \/ last = 0

\* inspect(): the tests in the order of the code.
Inspect(g, batch, late) ==
    IF ExpiresNow(late) THEN "StartupExpired"
    ELSE IF g = BadGeneration
    THEN IF last = MaxGeneration THEN "UpperLimit" ELSE "InvalidGeneration"
    ELSE IF g = 0 /\ last = 0 THEN "BootWait"
    ELSE IF g = last THEN "Unchanged"
    ELSE IF g < last THEN "Rollback"
    ELSE IF last = MaxGeneration THEN "UpperLimit"
    ELSE IF IsGap(g) THEN "Gap"
    ELSE IF OutOfBounds(batch) THEN "InvalidBatch"
    ELSE IF MustBeReleased /\ batch # "released" THEN "LatchedNonzero"
    ELSE "Accepted"

\* What inspect() leaves behind: every rejection of a wrong batch latches; an
\* unusable generation latches even where it is reported as UpperLimit.
InspectLatches(g, batch, late) ==
    \/ Inspect(g, batch, late) \in
         {"StartupExpired", "InvalidGeneration", "Rollback", "Gap",
          "InvalidBatch", "LatchedNonzero"}
    \/ g = BadGeneration

InspectEffect(g, batch, late) ==
    /\ expired' = ExpiresNow(late)
    /\ latched' = (latched \/ InspectLatches(g, batch, late))
===========================================================================
