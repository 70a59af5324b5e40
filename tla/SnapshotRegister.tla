------------------------- MODULE SnapshotRegister -------------------------
(***************************************************************************)
(* What AtomicSnapshot promises its users: a register that one writer      *)
(* replaces as a whole and that several readers copy as a whole into a     *)
(* cache of their own.  A reader may also get nothing (its two attempts    *)
(* were disturbed); its cache then stays what it was.                      *)
(*                                                                         *)
(* A batch is identified by its publication number; 0 is "nothing yet".    *)
(***************************************************************************)
EXTENDS Naturals

CONSTANT Readers

VARIABLES
    current,   \* the last batch published as a whole
    cache      \* the batch each reader holds

regVars == <<current, cache>>

Init ==
    /\ current = 0
    /\ cache = [r \in Readers |-> 0]

Publish ==
    /\ current' = current + 1
    /\ UNCHANGED cache

\* A successful read takes the batch that is current at that instant.
Read(r) ==
    /\ current # 0
    /\ cache' = [cache EXCEPT ![r] = current]
    /\ UNCHANGED current

Next == Publish \/ \E r \in Readers : Read(r)

Spec == Init /\ [][Next]_regVars
===========================================================================
