-------------------------- MODULE AtomicSnapshot --------------------------
(***************************************************************************)
(* AtomicSnapshot<T> (include/bxi_hardware/atomic_snapshot.hpp): one       *)
(* writer, several readers, a version counter and an array of words, every *)
(* access a sequentially consistent atomic.  It carries the command batch  *)
(* from the control thread to the send thread and each axis's feedback     *)
(* from the receive thread to the send and control threads.                *)
(*                                                                         *)
(* One step is one atomic load or store.  A stored word is represented by  *)
(* the number of the publication that wrote it (0: the constructor), so    *)
(* that any mixture of two batches shows.                                  *)
(***************************************************************************)
EXTENDS Naturals

CONSTANTS
    NWords,           \* words of the payload: count * words
    Readers,          \* the threads that call tryRead
    MaxPublications   \* bound on publish() calls

ASSUME NWordsAssumption == NWords \in Nat \ {0}
ASSUME MaxPublicationsAssumption == MaxPublications \in Nat

Words == 1 .. NWords
MaxAttempts == 2

VARIABLES
    version,    \* version_
    data,       \* data_[w]: the publication each word comes from
    wNext,      \* the word publish() stores next; 0 outside publish()
    rpc,        \* where each reader is in tryRead
    attempt,    \* the loop counter of tryRead
    before,     \* the version loaded at the start of the attempt
    rNext,      \* the word tryRead loads next
    scratch,    \* the reader's scratch buffer
    cache,      \* what the reader's owner keeps after a successful read
    outcome     \* what the reader's last tryRead returned

writerVars == <<version, data, wNext>>
readerVars == <<rpc, attempt, before, rNext, scratch, cache, outcome>>
vars == <<version, data, wNext, rpc, attempt, before, rNext, scratch, cache,
          outcome>>

Init ==
    /\ version = 0
    /\ data = [w \in Words |-> 0]
    /\ wNext = 0
    /\ rpc = [r \in Readers |-> "idle"]
    /\ attempt = [r \in Readers |-> 0]
    /\ before = [r \in Readers |-> 0]
    /\ rNext = [r \in Readers |-> 1]
    /\ scratch = [r \in Readers |-> [w \in Words |-> 0]]
    /\ cache = [r \in Readers |-> [w \in Words |-> 0]]
    /\ outcome = [r \in Readers |-> "none"]

---------------------------------------------------------------------------
(* publish() *)

\* The publication number of the batch in progress, or of the last one.
Publication == (version + 1) \div 2

\* version_.store(v + 1)
PublishBegin ==
    /\ wNext = 0
    /\ version < 2 * MaxPublications
    /\ version' = version + 1
    /\ wNext' = 1
    /\ UNCHANGED <<data, readerVars>>

\* One payload word.
PublishWord ==
    /\ wNext \in Words
    /\ data' = [data EXCEPT ![wNext] = Publication]
    /\ wNext' = wNext + 1
    /\ UNCHANGED <<version, readerVars>>

\* version_.store(v + 2)
PublishEnd ==
    /\ wNext = NWords + 1
    /\ version' = version + 1
    /\ wNext' = 0
    /\ UNCHANGED <<data, readerVars>>

---------------------------------------------------------------------------
(* tryRead() *)

\* The reader's owner calls tryRead; the first attempt begins.
ReadEnter(r) ==
    /\ rpc[r] = "idle"
    /\ rpc' = [rpc EXCEPT ![r] = "before"]
    /\ attempt' = [attempt EXCEPT ![r] = 1]
    /\ outcome' = [outcome EXCEPT ![r] = "none"]
    /\ UNCHANGED <<writerVars, before, rNext, scratch, cache>>

\* Mutant: the attempt counter is never advanced.
NextAttemptUncounted(r) ==
    /\ rpc' = [rpc EXCEPT ![r] = "before"]
    /\ UNCHANGED <<attempt, outcome>>

\* An attempt that got nowhere: try once more, or return false.
NextAttempt(r) ==
    /\ IF attempt[r] < MaxAttempts
       THEN /\ rpc' = [rpc EXCEPT ![r] = "before"]
            /\ attempt' = [attempt EXCEPT ![r] = @ + 1]
            /\ UNCHANGED outcome
       ELSE /\ rpc' = [rpc EXCEPT ![r] = "idle"]
            /\ outcome' = [outcome EXCEPT ![r] = "false"]
            /\ UNCHANGED attempt

\* Nothing published yet, or a publication in progress: not readable.
Unreadable(v) == v = 0 \/ v % 2 = 1

\* before = version_.load(); an unreadable version uses up the attempt.
ReadBefore(r) ==
    /\ rpc[r] = "before"
    /\ before' = [before EXCEPT ![r] = version]
    /\ rNext' = [rNext EXCEPT ![r] = 1]
    /\ IF Unreadable(version)
       THEN NextAttempt(r)
       ELSE /\ rpc' = [rpc EXCEPT ![r] = "words"]
            /\ UNCHANGED <<attempt, outcome>>
    /\ UNCHANGED <<writerVars, scratch, cache>>

\* One payload word into the scratch buffer.
ReadWord(r) ==
    /\ rpc[r] = "words"
    /\ scratch' = [scratch EXCEPT ![r] = [@ EXCEPT ![rNext[r]] = data[rNext[r]]]]
    /\ rNext' = [rNext EXCEPT ![r] = @ + 1]
    /\ rpc' = [rpc EXCEPT ![r] = IF rNext[r] = NWords THEN "check" ELSE "words"]
    /\ UNCHANGED <<writerVars, attempt, before, cache, outcome>>

\* Mutant: the second load of the version is forgotten.
ReadCheckSkipped(r) ==
    /\ rpc[r] = "check"
    /\ cache' = [cache EXCEPT ![r] = scratch[r]]
    /\ rpc' = [rpc EXCEPT ![r] = "idle"]
    /\ UNCHANGED <<writerVars, before, rNext, scratch, attempt, outcome>>

\* The second load of the version decides.  On success the owner takes the
\* scratch buffer over as its cache (tx_cache.swap, control.feedback = ...).
ReadCheck(r) ==
    /\ rpc[r] = "check"
    /\ IF version = before[r]
       THEN /\ cache' = [cache EXCEPT ![r] = scratch[r]]
            /\ rpc' = [rpc EXCEPT ![r] = "idle"]
            /\ outcome' = [outcome EXCEPT ![r] = "true"]
            /\ UNCHANGED attempt
       ELSE /\ NextAttempt(r)
            /\ UNCHANGED cache
    /\ UNCHANGED <<writerVars, before, rNext, scratch>>

ReadStep(r) == ReadBefore(r) \/ ReadWord(r) \/ ReadCheck(r)

Publish == PublishBegin \/ PublishWord \/ PublishEnd

Next ==
    \/ Publish
    \/ \E r \in Readers : ReadEnter(r) \/ ReadStep(r)

Spec == Init /\ [][Next]_vars

\* A reader that has entered tryRead keeps running (it is a plain loop with
\* no blocking call).  Nothing is assumed of the writer.
FairSpec == Spec /\ \A r \in Readers : WF_vars(ReadStep(r))

---------------------------------------------------------------------------
(* Properties *)

TypeOK ==
    /\ version \in Nat
    /\ data \in [Words -> Nat]
    /\ wNext \in 0 .. NWords + 1
    /\ rpc \in [Readers -> {"idle", "before", "words", "check"}]
    /\ attempt \in [Readers -> 0 .. MaxAttempts]
    /\ before \in [Readers -> Nat]
    /\ rNext \in [Readers -> 1 .. NWords + 1]
    /\ scratch \in [Readers -> [Words -> Nat]]
    /\ cache \in [Readers -> [Words -> Nat]]
    /\ outcome \in [Readers -> {"none", "true", "false"}]

(* The class comment: "An unchanged even version means no writer's payload
   stores occurred between the reader's two version loads."  What a reader
   keeps is therefore one published batch, never a mixture of two. *)
NoTornRead ==
    \A r \in Readers, u, w \in Words : cache[r][u] = cache[r][w]

(* tryRead is wait-free: whatever the writer does, every call returns. *)
ReadReturns ==
    \A r \in Readers : rpc[r] # "idle" ~> rpc[r] = "idle"

(* The protocol implements a register replaced and copied as a whole: a
   successful read takes the batch that is current at its second version
   load, so a reader's cache never goes back to an older batch and is never
   older than what was complete when the call began. *)
Register == INSTANCE SnapshotRegister WITH
    current <- version \div 2,
    cache <- [r \in Readers |-> cache[r][1]]
ImplementsRegister == Register!Spec
===========================================================================
