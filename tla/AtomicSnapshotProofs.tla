----------------------- MODULE AtomicSnapshotProofs -----------------------
(***************************************************************************)
(* Proofs about AtomicSnapshot for any payload size, any set of readers    *)
(* and any number of publications.                                         *)
(***************************************************************************)
EXTENDS AtomicSnapshot, TLAPS

---------------------------------------------------------------------------
(* The inductive invariant *)

\* Outside publish() the version is even and every word comes from the last
\* publication; inside it is odd and the words already stored are new.
WriterInv ==
    /\ wNext = 0 => /\ version % 2 = 0
                    /\ \A w \in Words : data[w] = version \div 2
    /\ wNext # 0 => /\ version % 2 = 1
                    /\ \A w \in Words :
                          w < wNext => data[w] = (version + 1) \div 2

\* While the version is still the one loaded first, the words copied so far
\* belong to the publication that version names.
ReaderInv(r) ==
    /\ rpc[r] = "words" => rNext[r] \in Words
    /\ rpc[r] = "check" => rNext[r] = NWords + 1
    /\ rpc[r] \in {"words", "check"} =>
         /\ before[r] # 0
         /\ before[r] % 2 = 0
         /\ before[r] <= version
         /\ before[r] = version =>
              \A w \in Words : w < rNext[r] => scratch[r][w] = version \div 2

CacheInv(r) == \A w \in Words : cache[r][w] = cache[r][1]

Inv ==
    /\ TypeOK
    /\ WriterInv
    /\ \A r \in Readers : ReaderInv(r)
    /\ \A r \in Readers : CacheInv(r)

\* The version is odd exactly while a publication is in progress.
LEMMA Parity ==
    ASSUME NEW n \in Nat
    PROVE  /\ n % 2 = 0 => (n + 1) % 2 = 1 /\ (n + 1) \div 2 = n \div 2
           /\ n % 2 = 1 => (n + 1) % 2 = 0 /\ (n + 1) \div 2 = n \div 2 + 1
  OBVIOUS

\* A word that is not the last has a successor.
LEMMA NextWord ==
    ASSUME NEW n \in Words, n # NWords
    PROVE  n + 1 \in Words
  BY NWordsAssumption DEF Words

\* The tail of an attempt that got nowhere touches these three only.
LEMMA NextAttemptType ==
    ASSUME TypeOK, NEW r \in Readers, NextAttempt(r)
    PROVE  /\ rpc' \in [Readers -> {"idle", "before", "words", "check"}]
           /\ attempt' \in [Readers -> 0 .. MaxAttempts]
           /\ outcome' \in [Readers -> {"none", "true", "false"}]
           /\ rpc'[r] \in {"idle", "before"}
           /\ \A q \in Readers \ {r} : rpc'[q] = rpc[q]
  <1> USE DEF TypeOK, MaxAttempts
  <1>1. CASE attempt[r] < MaxAttempts
    <2>1. attempt[r] \in 0 .. 1
      BY <1>1
    <2>2. attempt[r] + 1 \in 0 .. MaxAttempts
      BY <2>1
    <2>3. attempt' = [attempt EXCEPT ![r] = attempt[r] + 1]
      BY <1>1 DEF NextAttempt
    <2>4. attempt' \in [Readers -> 0 .. MaxAttempts]
      BY <2>2, <2>3
    <2> QED
      BY <1>1, <2>4 DEF NextAttempt
  <1>2. CASE ~(attempt[r] < MaxAttempts)
    BY <1>2 DEF NextAttempt
  <1> QED
    BY <1>1, <1>2

\* The invariant holds initially.
LEMMA InitInv == Init => Inv
  <1> SUFFICES ASSUME Init PROVE Inv
    OBVIOUS
  <1> USE NWordsAssumption DEF Init
  <1>1. TypeOK
    BY DEF TypeOK, Words, MaxAttempts
  <1>2. WriterInv
    BY DEF WriterInv
  <1>3. \A r \in Readers : ReaderInv(r) /\ CacheInv(r)
    BY DEF ReaderInv, CacheInv, Words
  <1> QED
    BY <1>1, <1>2, <1>3 DEF Inv

\* Every step preserves the types.
LEMMA TypeStep == TypeOK /\ (\A r \in Readers : ReaderInv(r)) /\ [Next]_vars => TypeOK'
  <1> SUFFICES ASSUME TypeOK, \A r \in Readers : ReaderInv(r), [Next]_vars
               PROVE TypeOK'
    OBVIOUS
  <1> USE NWordsAssumption, MaxPublicationsAssumption DEF TypeOK, MaxAttempts
  <1>1. CASE PublishBegin
    BY <1>1 DEF PublishBegin, readerVars
  <1>2. CASE PublishWord
    <2>1. Publication \in Nat
      BY DEF Publication
    <2>2. data' \in [Words -> Nat]
      BY <1>2, <2>1 DEF PublishWord
    <2>3. wNext' \in 0 .. NWords + 1
      BY <1>2 DEF PublishWord, Words
    <2> QED
      BY <1>2, <2>2, <2>3 DEF PublishWord, readerVars
  <1>3. CASE PublishEnd
    BY <1>3 DEF PublishEnd, readerVars
  <1>4. ASSUME NEW r \in Readers, ReadEnter(r) PROVE TypeOK'
    BY <1>4 DEF ReadEnter, writerVars
  <1>5. ASSUME NEW r \in Readers, ReadBefore(r) PROVE TypeOK'
    <2>1. CASE Unreadable(version)
      <3>1. NextAttempt(r)
        BY <1>5, <2>1 DEF ReadBefore
      <3> QED
        BY <1>5, <3>1, NextAttemptType DEF ReadBefore, writerVars
    <2>2. CASE ~Unreadable(version)
      BY <1>5, <2>2 DEF ReadBefore, writerVars
    <2> QED
      BY <2>1, <2>2
  <1>6. ASSUME NEW r \in Readers, ReadWord(r) PROVE TypeOK'
    <2>1. rNext[r] \in Words
      BY <1>6 DEF ReadWord, ReaderInv
    <2>2. scratch' \in [Readers -> [Words -> Nat]]
      BY <1>6, <2>1 DEF ReadWord
    <2>3. rNext' \in [Readers -> 1 .. NWords + 1]
      BY <1>6, <2>1 DEF ReadWord, Words
    <2> QED
      BY <1>6, <2>2, <2>3 DEF ReadWord, writerVars
  <1>7. ASSUME NEW r \in Readers, ReadCheck(r) PROVE TypeOK'
    <2>1. CASE version = before[r]
      BY <1>7, <2>1 DEF ReadCheck, writerVars
    <2>2. CASE version # before[r]
      <3>1. NextAttempt(r)
        BY <1>7, <2>2 DEF ReadCheck
      <3> QED
        BY <1>7, <2>2, <3>1, NextAttemptType DEF ReadCheck, writerVars
    <2> QED
      BY <2>1, <2>2
  <1>8. CASE UNCHANGED vars
    BY <1>8 DEF vars
  <1> QED
    BY <1>1, <1>2, <1>3, <1>4, <1>5, <1>6, <1>7, <1>8
    DEF Next, Publish, ReadStep

\* Every step preserves the writer's part.
LEMMA WriterStep == TypeOK /\ WriterInv /\ [Next]_vars => WriterInv'
  <1> SUFFICES ASSUME TypeOK, WriterInv, [Next]_vars
               PROVE WriterInv'
    OBVIOUS
  <1> USE NWordsAssumption DEF TypeOK, WriterInv, Words
  <1>1. CASE PublishBegin
    <2>1. version' = version + 1 /\ wNext' = 1
      BY <1>1 DEF PublishBegin
    <2>2. version' % 2 = 1
      BY <1>1, <2>1, Parity DEF PublishBegin
    <2> QED
      BY <2>1, <2>2
  <1>2. CASE PublishWord
    <2>1. version' % 2 = 1 /\ wNext' = wNext + 1 /\ wNext' # 0
      BY <1>2 DEF PublishWord
    <2>2. ASSUME NEW w \in Words, w < wNext'
          PROVE data'[w] = (version' + 1) \div 2
      <3>1. CASE w = wNext
        BY <1>2, <3>1 DEF PublishWord, Publication
      <3>2. CASE w < wNext
        BY <1>2, <3>2 DEF PublishWord
      <3> QED
        BY <2>1, <2>2, <3>1, <3>2
    <2> QED
      BY <2>1, <2>2
  <1>3. CASE PublishEnd
    <2>1. version' = version + 1 /\ wNext' = 0 /\ data' = data
      BY <1>3 DEF PublishEnd
    <2>2. version' % 2 = 0 /\ version' \div 2 = (version + 1) \div 2
      BY <1>3, <2>1, Parity DEF PublishEnd
    <2>3. \A w \in Words : data[w] = (version + 1) \div 2
      BY <1>3 DEF PublishEnd
    <2> QED
      BY <2>1, <2>2, <2>3
  <1>4. CASE UNCHANGED writerVars
    BY <1>4 DEF writerVars
  <1>5. ASSUME NEW r \in Readers, ReadEnter(r) \/ ReadStep(r)
        PROVE UNCHANGED writerVars
    BY <1>5 DEF ReadEnter, ReadStep, ReadBefore, ReadWord, ReadCheck, writerVars
  <1>6. CASE UNCHANGED vars
    BY <1>6, <1>4 DEF vars, writerVars
  <1> QED
    BY <1>1, <1>2, <1>3, <1>4, <1>5, <1>6 DEF Next, Publish

\* A step of the writer leaves every reader's promise intact: the version
\* never returns to a value a reader may hold in before.
LEMMA ReaderSurvivesWriter ==
    ASSUME TypeOK, WriterInv, Publish, NEW r \in Readers, ReaderInv(r)
    PROVE  ReaderInv(r)'
  <1> USE DEF TypeOK, ReaderInv
  <1>1. UNCHANGED readerVars
    BY DEF Publish, PublishBegin, PublishWord, PublishEnd
  <1>2. CASE PublishWord
    <2>1. version' = version
      BY <1>2 DEF PublishWord
    <2> QED
      BY <1>1, <2>1 DEF readerVars
  <1>3. CASE PublishBegin \/ PublishEnd
    <2>1. version' = version + 1
      BY <1>3 DEF PublishBegin, PublishEnd
    <2> QED
      BY <1>1, <2>1 DEF readerVars
  <1> QED
    BY <1>2, <1>3 DEF Publish

\* A step of reader q.
LEMMA ReaderOwnStep ==
    ASSUME TypeOK, WriterInv, NEW q \in Readers, ReadEnter(q) \/ ReadStep(q),
           NEW r \in Readers, ReaderInv(r), CacheInv(r)
    PROVE  ReaderInv(r)' /\ CacheInv(r)'
  <1> USE NWordsAssumption DEF TypeOK, ReaderInv, CacheInv
  <1>1. CASE ReadEnter(q)
    BY <1>1 DEF ReadEnter, writerVars
  <1>2. CASE ReadBefore(q)
    <2>1. CASE r = q
      BY <1>2, <2>1 DEF ReadBefore, NextAttempt, Unreadable, writerVars, Words, MaxAttempts
    <2>2. CASE r # q
      BY <1>2, <2>2 DEF ReadBefore, NextAttempt, writerVars
    <2> QED
      BY <2>1, <2>2
  <1>3. CASE ReadWord(q)
    <2>1. CASE r # q
      BY <1>3, <2>1 DEF ReadWord, writerVars
    <2>2. CASE r = q
      <3>1. rNext[r] \in Words /\ rNext' [r] = rNext[r] + 1
        BY <1>3, <2>2 DEF ReadWord
      <3>2. before[r] = version => version % 2 = 0 /\ wNext = 0
        BY <1>3, <2>2 DEF ReadWord, WriterInv
      <3>3. before[r] = version => data[rNext[r]] = version \div 2
        BY <3>1, <3>2 DEF WriterInv
      <3>4. \A w \in Words : scratch'[r][w] = IF w = rNext[r] THEN data[w] ELSE scratch[r][w]
        BY <1>3, <2>2, <3>1 DEF ReadWord
      <3>5. UNCHANGED <<version, before, cache>>
        BY <1>3 DEF ReadWord, writerVars
      <3>6. before[r] = version =>
              \A w \in Words : w < rNext'[r] => scratch'[r][w] = version \div 2
        <4>1. ASSUME before[r] = version, NEW w \in Words, w < rNext'[r]
              PROVE scratch'[r][w] = version \div 2
          <5>1. CASE w = rNext[r]
            BY <3>3, <3>4, <4>1, <5>1
          <5>2. CASE w < rNext[r]
            BY <1>3, <2>2, <3>4, <4>1, <5>2 DEF ReadWord
          <5> QED
            BY <3>1, <4>1, <5>1, <5>2 DEF Words
        <4> QED
          BY <4>1
      <3>7. rpc'[r] = IF rNext[r] = NWords THEN "check" ELSE "words"
        BY <1>3, <2>2 DEF ReadWord
      <3>8. rpc[r] = "words"
        BY <1>3, <2>2 DEF ReadWord
      <3>9. rpc'[r] = "words" => rNext[r] # NWords
        BY ONLY <3>7
      <3>10. rpc'[r] = "check" => rNext[r] = NWords
        BY ONLY <3>7
      <3>11. rpc'[r] = "words" => rNext'[r] \in Words
        BY ONLY <3>1, <3>9, NextWord
      <3>12. rpc'[r] = "check" => rNext'[r] = NWords + 1
        BY ONLY <3>1, <3>10
      <3> QED
        BY <3>5, <3>6, <3>8, <3>11, <3>12
    <2> QED
      BY <2>1, <2>2
  <1>4. CASE ReadCheck(q)
    <2>1. CASE r # q
      BY <1>4, <2>1 DEF ReadCheck, NextAttempt, writerVars
    <2>2. CASE r = q
      <3>1. CASE version = before[r]
        <4>1. \A w \in Words : scratch[r][w] = version \div 2
          BY <1>4, <2>2, <3>1 DEF ReadCheck, Words
        <4>2. cache'[r] = scratch[r] /\ rpc'[r] = "idle"
          BY <1>4, <2>2, <3>1 DEF ReadCheck
        <4> QED
          BY <4>1, <4>2 DEF Words
      <3>2. CASE version # before[r]
        <4>1. NextAttempt(r) /\ cache' = cache
          BY <1>4, <2>2, <3>2 DEF ReadCheck
        <4>2. rpc'[r] \in {"idle", "before"}
          BY <4>1, NextAttemptType
        <4> QED
          BY <4>1, <4>2
      <3> QED
        BY <3>1, <3>2
    <2> QED
      BY <2>1, <2>2
  <1> QED
    BY <1>1, <1>2, <1>3, <1>4 DEF ReadStep

\* Every step preserves the invariant.
LEMMA NextInv == Inv /\ [Next]_vars => Inv'
  <1> SUFFICES ASSUME Inv, [Next]_vars PROVE Inv'
    OBVIOUS
  <1>1. TypeOK' /\ WriterInv'
    BY TypeStep, WriterStep DEF Inv
  <1>2. ASSUME NEW r \in Readers PROVE ReaderInv(r)' /\ CacheInv(r)'
    <2>1. ReaderInv(r) /\ CacheInv(r)
      BY DEF Inv
    <2>2. CASE Publish
      <3>1. ReaderInv(r)'
        BY <2>1, <2>2, ReaderSurvivesWriter DEF Inv
      <3>2. cache' = cache
        BY <2>2 DEF Publish, PublishBegin, PublishWord, PublishEnd, readerVars
      <3> QED
        BY <2>1, <3>1, <3>2 DEF CacheInv
    <2>3. CASE \E q \in Readers : ReadEnter(q) \/ ReadStep(q)
      BY <2>1, <2>3, ReaderOwnStep DEF Inv
    <2>4. CASE UNCHANGED vars
      BY <2>1, <2>4 DEF vars, ReaderInv, CacheInv
    <2> QED
      BY <2>2, <2>3, <2>4 DEF Next
  <1> QED
    BY <1>1, <1>2 DEF Inv

\* The inductive invariant holds in every reachable state.
THEOREM Invariance == Spec => []Inv
  BY InitInv, NextInv, PTL DEF Spec

---------------------------------------------------------------------------
(* The theorems *)

(* Type correctness of the protocol's variables. *)
THEOREM TypeCorrect == Spec => []TypeOK
  <1>1. Inv => TypeOK
    BY DEF Inv
  <1> QED
    BY <1>1, Invariance, PTL

(* tryRead never returns a mixture of two publish() calls, whatever the
   number of words, readers and publications. *)
THEOREM NeverTorn == Spec => []NoTornRead
  <1>1. Inv => NoTornRead
    BY DEF Inv, CacheInv, NoTornRead
  <1> QED
    BY <1>1, Invariance, PTL

\* Initial states of the protocol are initial states of the register.
LEMMA RegisterInit == Init => Register!Init
  BY NWordsAssumption DEF Init, Register!Init, Words

\* Every step of the protocol is a step of the register or leaves it alone.
LEMMA RegisterStep == Inv /\ [Next]_vars => [Register!Next]_(Register!regVars)
  <1> SUFFICES ASSUME Inv, [Next]_vars
               PROVE [Register!Next]_(Register!regVars)
    OBVIOUS
  <1> USE NWordsAssumption DEF Register!regVars
  <1>1. CASE PublishBegin
    <2>1. version' \div 2 = version \div 2
      BY <1>1 DEF PublishBegin, Inv, TypeOK, WriterInv
    <2> QED
      BY <1>1, <2>1 DEF PublishBegin, readerVars
  <1>2. CASE PublishWord
    BY <1>2 DEF PublishWord, readerVars
  <1>3. CASE PublishEnd
    <2>1. version' \div 2 = version \div 2 + 1
      BY <1>3 DEF PublishEnd, Inv, TypeOK, WriterInv
    <2> QED
      BY <1>3, <2>1 DEF PublishEnd, readerVars, Register!Next, Register!Publish
  <1>4. ASSUME NEW r \in Readers, ReadEnter(r) \/ ReadBefore(r) \/ ReadWord(r)
        PROVE UNCHANGED <<version, cache>>
    BY <1>4 DEF ReadEnter, ReadBefore, ReadWord, writerVars
  <1>5. ASSUME NEW r \in Readers, ReadCheck(r), version = before[r]
        PROVE Register!Read(r)
    <2>1. version # 0 /\ version % 2 = 0 /\ scratch[r][1] = version \div 2
      BY <1>5 DEF ReadCheck, Inv, ReaderInv, Words, TypeOK
    <2>2. version' = version /\ cache' = [cache EXCEPT ![r] = scratch[r]]
      BY <1>5 DEF ReadCheck, writerVars
    <2>3. version \div 2 # 0
      BY <2>1 DEF Inv, TypeOK
    <2>4. [q \in Readers |-> cache[q][1]]' =
            [[q \in Readers |-> cache[q][1]] EXCEPT ![r] = version \div 2]
      BY <2>1, <2>2 DEF Inv, TypeOK
    <2> QED
      BY <2>2, <2>3, <2>4 DEF Register!Read
  <1>6. ASSUME NEW r \in Readers, ReadCheck(r), version # before[r]
        PROVE UNCHANGED <<version, cache>>
    BY <1>6 DEF ReadCheck, writerVars
  <1>7. CASE UNCHANGED <<version, cache>>
    BY <1>7
  <1>8. CASE UNCHANGED vars
    BY <1>8 DEF vars
  <1> QED
    BY <1>1, <1>2, <1>3, <1>4, <1>5, <1>6, <1>7, <1>8
    DEF Next, Publish, ReadStep, Register!Next

(* AtomicSnapshot implements a register that is replaced and copied as a
   whole: every successful tryRead returns the batch that is current at its
   second version load. *)
THEOREM Refinement == Spec => ImplementsRegister
  <1>1. Spec => Register!Spec
    BY RegisterInit, RegisterStep, Invariance, PTL DEF Spec, Register!Spec
  <1> QED
    BY <1>1 DEF ImplementsRegister
===========================================================================
