------------------------ MODULE IndexedDbHistoryProofs ------------------------
(***************************************************************************)
(* Theorems about IndexedDbHistory for every capacity, identity and bound, *)
(* and, at the end, about JournalOwnership, which panel may use and erase  *)
(* which of its databases, for any panels, names and session ids.          *)
(***************************************************************************)
EXTENDS IndexedDbHistory, JournalOwnership, HistoryEntriesProofs

-----------------------------------------------------------------------------
(* Types *)

\* The flags and stages keep to their values.
LEMMA LifecycleStep == LifecycleTypeOK /\ [Next]_vars => LifecycleTypeOK'
<1> SUFFICES ASSUME LifecycleTypeOK, [Next]_vars PROVE LifecycleTypeOK' OBVIOUS
<1> USE DEF LifecycleTypeOK, closeVars, queueVars, captureVars, durableVars, retainedVars,
            journalVars, sequenceVars, gapVars, clearVars, historyVars
<1>1. ASSUME NEW id \in EventIds, NEW b \in Sizes, offer(id, b) PROVE LifecycleTypeOK'
  <2>1. scheduled' \in BOOLEAN BY <1>1, ZenonT(60) DEF offer, schedule
  <2> QED BY <1>1, <2>1, ZenonT(60) DEF offer, TakesOrdinal
<1>2. ASSUME NEW b \in Sizes, NEW dim \in Dimensions, refuseUnretainable(b, dim)
      PROVE  LifecycleTypeOK'
  <2>1. scheduled' \in BOOLEAN BY <1>2, ZenonT(60) DEF refuseUnretainable, schedule
  <2> QED BY <1>2, <2>1, ZenonT(60) DEF refuseUnretainable, TakesOrdinal
<1>3. CASE startProcessing BY <1>3, ZenonT(60) DEF startProcessing
<1>4. CASE settleLeadingGapBarrier BY <1>4 DEF settleLeadingGapBarrier
<1>5. ASSUME NEW n \in 0..MaxCaptured, takeBatch(n) PROVE LifecycleTypeOK' BY <1>5 DEF takeBatch
<1>6. CASE journalCommitSucceeds BY <1>6 DEF journalCommitSucceeds, UnchangedByBatch
<1>7. CASE journalCommitFails BY <1>7 DEF journalCommitFails, UnchangedByBatch
<1>a. ASSUME UNCHANGED <<phase, closing, closeStage, clearVars, idleWaiters, scheduled>>,
             persistenceMode' \in {persistenceMode, "MEMORY"},
             processing' \in {"loop", "trimSnapshot"}, attempt' \in {attempt, 0}
      PROVE  LifecycleTypeOK'
  BY <1>a
<1>8. CASE journalTrimSucceeds \/ journalTrimFails
  BY <1>a, <1>8 DEF journalTrimSucceeds, journalTrimFails, UnchangedByBatch
<1>9. CASE memoryAccepts BY <1>a, <1>9 DEF memoryAccepts, BatchDone, UnchangedByBatch
<1>10. ASSUME NEW read \in BOOLEAN, fallBackAfterCommit(read) \/ fallBackAfterTrim(read)
       PROVE  LifecycleTypeOK'
  BY <1>a, <1>10 DEF fallBackAfterCommit, fallBackAfterTrim, BatchDone, UnchangedByBatch
<1>11. CASE finishProcessing BY <1>11 DEF finishProcessing, resolveIdleWaiters
<1>b. ASSUME NEW w \in {"clear", "close"}, waitForIdle(w) PROVE idleWaiters' \subseteq {"clear", "close"}
  BY <1>b DEF waitForIdle
<1>12. CASE clear BY <1>12, <1>b DEF clear
<1>19. CASE clearBegins BY <1>19 DEF clearBegins
<1>16. CASE clearSucceeds BY <1>16 DEF clearSucceeds
<1>17. CASE clearFails BY <1>17 DEF clearFails, rejoinPostClearQueue
<1>13. CASE clearCleanup BY <1>13 DEF clearCleanup, schedule
<1>14. CASE close BY <1>14, <1>b DEF close, UnchangedByClose
<1>20. CASE closeAfterClear BY <1>20, <1>b DEF closeAfterClear, UnchangedByClose
<1>18. CASE closeBegins BY <1>18 DEF closeBegins, UnchangedByClose
<1>21. CASE closeEnds BY <1>21 DEF UnchangedByClose, closeEnds
<1>15. CASE UNCHANGED vars BY <1>15 DEF vars
<1> QED
  BY <1>1, <1>2, <1>3, <1>4, <1>5, <1>6, <1>7, <1>8, <1>9, <1>10, <1>11, <1>12, <1>13, <1>14,
     <1>15, <1>16, <1>17, <1>18, <1>19, <1>20, <1>21 DEF Next

\* No entries have no bytes.
LEMMA NoBytes == BytesOf(<<>>) = 0
<1>1. Total(<<>>) = 0
  <2>1. <<>> \in Seq(Nat) /\ Len(<<>>) = 0 OBVIOUS
  <2>2. Sums(<<>>)[0] = 0 /\ Total(<<>>) = Sums(<<>>)[Len(<<>>)] BY <2>1, SumsFacts
  <2> QED BY <2>1, <2>2
<1>2. [i \in DOMAIN <<>> |-> <<>>[i].bytes] = <<>> OBVIOUS
<1> QED BY <1>1, <1>2 DEF BytesOf

\* The stages exclude one another: there is a batch exactly between its being
\* taken and settled, a run is scheduled only for a waiting entry, and what
\* waits for the queue to drain goes on only once it has.
StagesAgree ==
  /\ batch = <<>> <=> processing \in {"no", "loop"}
  /\ persistenceMode = "MEMORY" => processing \in {"no", "loop", "commit"}
  /\ clearing \in {"waiting", "journal"} => clearInProgress
  /\ clearing = "no" => ~clearInProgress
  /\ scheduled => processing = "no" /\ pending # <<>>
  /\ clearing = "journal" \/ (clearing = "waiting" /\ "clear" \notin idleWaiters) => isIdle
  /\ closing <=> closeStage # "none"
  /\ phase = "CLOSED" <=> closeStage = "done"
  /\ closeStage \in {"waiting", "journal", "done"} => clearing = "no"
  /\ (closeStage = "waiting" /\ "close" \notin idleWaiters) \/ closeStage \in {"journal", "done"}
       => isIdle

\* s is the newest part of what interval iv has up to the boundary.
IsTail(s, boundary, iv) ==
  /\ Len(s) <= boundary
  /\ \A i \in DOMAIN s : s[i].sequence = (boundary - Len(s)) + i /\ s[i].interval = iv

\* The coordinator's records of the durable part measure it, and it ends at
\* the boundary, behind which the next sequence is.
DurableExact ==
  /\ durableRetainedCount = Len(durableRetentionEntries)
  /\ durableBytes = BytesOf(durableRetentionEntries)
  /\ durableRetainedRange = RangeOf(durableRetentionEntries)
  /\ IsTail(durableRetentionEntries, committedEvidenceBoundary, interval)
  /\ nextSequence = committedEvidenceBoundary + 1

JournalInv == TypeOK /\ StagesAgree /\ DurableExact /\ JournalHoldsEvidence

-----------------------------------------------------------------------------
(* What the larger actions do to the queues. *)

\* A batch is taken from the front of the queue; a repeated identity behind
\* it leaves a barrier in its place.
LEMMA TakenBatch ==
  ASSUME QueuesTypeOK, NEW n \in 0..MaxCaptured, takeBatch(n)
  PROVE  /\ batch' \in Seq(CandidateType) /\ Len(batch') = n
         /\ pending' \in Seq(EntryType)
<1>1. n \in Nat /\ n <= Len(pending) /\ pending \in Seq(EntryType)
  BY BoundsAssumption DEF QueuesTypeOK, takeBatch
<1>2. ASSUME NEW i \in 1..n PROVE pending[i] \in CandidateType
  <2>1. IsCandidate(pending[i])
    <3>1. Reaches(i) BY DEF takeBatch, IsBatchLength
    <3>2. i \in 1..i OBVIOUS
    <3> QED BY <3>1, <3>2 DEF Reaches
  <2>2. pending[i] \in EntryType BY <1>1
  <2> QED BY <2>1, <2>2 DEF IsCandidate, BarrierType, EntryType
<1>3. batch' = SubSeq(pending, 1, n) BY DEF takeBatch
<1>4. batch' \in Seq(CandidateType) /\ Len(batch') = n BY <1>1, <1>2, <1>3
<1>5. CASE Reaches(n + 1)
  <2> DEFINE d == pending[n + 1]
             g == GapBarrier(d.ordinal, d.ordinal, 1, "EVENT_IDENTITY")
             rest == SubSeq(pending, n + 2, Len(pending))
  <2>1. d \in CandidateType
    <3>1. n + 1 <= Len(pending) /\ IsCandidate(d) BY <1>5, <1>1 DEF Reaches
    <3>2. d \in EntryType BY <1>1, <3>1
    <3> QED BY <3>1, <3>2 DEF IsCandidate, BarrierType, EntryType
  <2>2. g \in EntryType
    BY <2>1 DEF CandidateType, GapBarrier, BarrierType, Dimensions, EntryType
  <2>3. pending' = <<g>> \o rest BY <1>5 DEF takeBatch, convertDuplicateIdentityToGap
  <2>4. rest \in Seq(EntryType) BY <1>1, <1>5 DEF Reaches
  <2> HIDE DEF g, rest
  <2> QED BY <1>4, <2>2, <2>3, <2>4
<1>6. CASE ~Reaches(n + 1)
  <2>1. pending' = SubSeq(pending, n + 1, Len(pending)) BY <1>6 DEF takeBatch
  <2> QED BY <1>1, <1>4, <2>1
<1> QED BY <1>5, <1>6

\* What the Evidence made from a batch is.
LEMMA EvidenceOfBatch ==
  ASSUME QueuesTypeOK, CountersTypeOK
  PROVE  /\ EvidenceOf(batch) \in Seq(EvidenceType)
         /\ Len(EvidenceOf(batch)) = Len(batch)
         /\ \A i \in 1..Len(batch) : /\ EvidenceOf(batch)[i].sequence = nextSequence + (i - 1)
                                     /\ EvidenceOf(batch)[i].interval = interval
<1> DEFINE n == Len(batch)
<1>1. n \in Nat /\ \A i \in 1..n : batch[i] \in CandidateType BY DEF QueuesTypeOK
<1>2. \A i \in 1..n : EvidenceOf(batch)[i] \in EvidenceType
  BY <1>1 DEF CountersTypeOK, EvidenceOf, EvidenceType, CandidateType
<1>3. EvidenceOf(batch) \in Seq(EvidenceType) /\ Len(EvidenceOf(batch)) = n
  BY <1>1, <1>2 DEF EvidenceOf
<1>4. \A i \in 1..n : /\ EvidenceOf(batch)[i].sequence = nextSequence + (i - 1)
                      /\ EvidenceOf(batch)[i].interval = interval
  BY <1>1 DEF EvidenceOf
<1> QED BY <1>3, <1>4

\* The identities of Evidence are identities, its bytes are numbers.
LEMMA EvidenceFacts ==
  /\ \A s \in Seq(EvidenceType) : IdsOf(s) \subseteq EventIds
  /\ \A e \in EvidenceType : e.bytes \in Nat /\ e.sequence \in Nat
<1>1. ASSUME NEW s \in Seq(EvidenceType), NEW i \in DOMAIN s PROVE s[i].eventId \in EventIds
  <2>1. s[i] \in EvidenceType OBVIOUS
  <2> QED BY <2>1 DEF EvidenceType
<1> QED BY <1>1, LimitsAssumption DEF IdsOf, EvidenceType

\* Deleting a range of keys leaves a part of the records.
LEMMA AfterIsPart ==
  ASSUME NEW s \in Seq(EvidenceType), NEW cutoff PROVE After(s, cutoff) \in Seq(EvidenceType)
<1> DEFINE T == {i \in DOMAIN s : s[i].sequence <= cutoff}
           n == Cardinality(T)
<1>1. IsFiniteSet(1 .. Len(s)) /\ Cardinality(1 .. Len(s)) = Len(s) /\ T \subseteq 1 .. Len(s)
  <2>1. Len(s) \in Nat /\ 1 \in Int /\ DOMAIN s = 1 .. Len(s) OBVIOUS
  <2>2. /\ IsFiniteSet(1 .. Len(s))
        /\ Cardinality(1 .. Len(s)) = IF 1 > Len(s) THEN 0 ELSE Len(s) - 1 + 1
    BY <2>1, FS_Interval
  <2> QED BY <2>1, <2>2, SMTT(60)
<1>2. n \in 0 .. Len(s)
  <2> HIDE DEF T
  <2>1. IsFiniteSet(T) /\ n <= Len(s) BY <1>1, FS_Subset
  <2> QED BY <2>1, FS_CardinalityType
<1>3. After(s, cutoff) = SubSeq(s, n + 1, Len(s)) BY DEF After
<1> HIDE DEF n
<1> QED BY <1>2, <1>3, Parts

\* What memory keeps is a part of the entries.
LEMMA KeptInMemory ==
  ASSUME NEW entries \in Seq(EvidenceType), NEW count, NEW bytes, NEW ids, ids \subseteq EventIds,
         committedEvidenceBoundary' \in Nat, KeepInMemory(entries, count, bytes, ids)
  PROVE  /\ volatileEvidence' \in Seq(EvidenceType) /\ retainedEventIds' \subseteq EventIds
         /\ retainedRange' \in Nat \X Nat
<1>1. PICK k \in 0..Len(entries) :
        /\ volatileEvidence' = SubSeq(entries, k + 1, Len(entries))
        /\ retainedEventIds' = ids \ IdsOf(SubSeq(entries, 1, k))
        /\ retainedRange' = IF volatileEvidence' = <<>> THEN NoRange
                            ELSE <<Head(volatileEvidence').sequence, committedEvidenceBoundary'>>
  BY DEF KeepInMemory
<1>2. volatileEvidence' \in Seq(EvidenceType) BY <1>1, Parts
<1>3. retainedRange' \in Nat \X Nat
  <2>1. CASE volatileEvidence' = <<>> BY <1>1, <2>1 DEF NoRange
  <2>2. CASE volatileEvidence' # <<>>
    <3>1. Head(volatileEvidence') \in EvidenceType BY <1>2, <2>2
    <3>2. Head(volatileEvidence').sequence \in Nat BY <3>1, EvidenceFacts
    <3> QED BY <1>1, <2>2, <3>2
  <2> QED BY <2>1, <2>2
<1> QED BY <1>1, <1>2, <1>3

\* An offered entry replaces or extends the queue on its side of a pending
\* Clear, and is not nothing.
LEMMA OfferedTypes ==
  ASSUME QueuesTypeOK, CountersTypeOK,
         \/ \E id \in EventIds, b \in Sizes : offer(id, b)
         \/ \E b \in Sizes, dim \in Dimensions : refuseUnretainable(b, dim)
  PROVE  /\ \/ ~clearInProgress /\ pending' # <<>> /\ postClearPending' = postClearPending
            \/ clearInProgress /\ pending' = pending
         /\ pending' \in Seq(EntryType) /\ postClearPending' \in Seq(EntryType)
         /\ scheduled' => scheduled \/ (processing = "no" /\ pending' # <<>>)
         /\ MayOffer /\ TakesOrdinal
<1> DEFINE queue == clearQueueForEntry
           o == captured + 1
<1>1. queue \in Seq(EntryType) /\ o \in Nat
  BY DEF QueuesTypeOK, CountersTypeOK, clearQueueForEntry
<1>2. ASSUME NEW q \in Seq(EntryType), q # <<>>, Queue(q)
      PROVE  /\ \/ ~clearInProgress /\ pending' # <<>> /\ postClearPending' = postClearPending
                \/ clearInProgress /\ pending' = pending
             /\ pending' \in Seq(EntryType) /\ postClearPending' \in Seq(EntryType)
  BY <1>2 DEF Queue, QueuesTypeOK
<1>3. ASSUME NEW id \in EventIds, NEW b \in Sizes, offer(id, b)
      PROVE  \E q \in Seq(EntryType) : q # <<>> /\ Queue(q)
  <2>1. Candidate(o, id, b) \in EntryType BY <1>1 DEF Candidate, CandidateType, EntryType
  <2>2. Queue(Append(queue, Candidate(o, id, b))) BY <1>3 DEF offer
  <2> HIDE DEF queue, o
  <2>3. Append(queue, Candidate(o, id, b)) \in Seq(EntryType) /\ Append(queue, Candidate(o, id, b)) # <<>>
    BY <1>1, <2>1
  <2> QED BY <2>2, <2>3
<1>4. ASSUME NEW b \in Sizes, NEW dim \in Dimensions, refuseUnretainable(b, dim)
      PROVE  \E q \in Seq(EntryType) : q # <<>> /\ Queue(q)
  <2> DEFINE merges == queue # <<>> /\ IsBarrier(Last(queue)) /\ Last(queue).dimension = dim
             q == IF merges THEN [queue EXCEPT ![Len(queue)] = Extended(@, o)]
                            ELSE Append(queue, GapBarrier(o, o, 1, dim))
  <2>1. Queue(q) BY <1>4 DEF refuseUnretainable
  <2>2. GapBarrier(o, o, 1, dim) \in EntryType BY <1>1 DEF GapBarrier, BarrierType, EntryType
  <2> HIDE DEF queue, o
  <2>3. q \in Seq(EntryType) /\ q # <<>>
    <3>1. CASE merges
      <4>1. q \in Seq(EntryType) /\ Len(q) = Len(queue) BY <1>1, <3>1, ExtendedTail DEF Last
      <4>2. Len(queue) # 0 BY <1>1, <3>1
      <4> QED BY <4>1, <4>2
    <3>2. CASE ~merges BY <1>1, <2>2, <3>2
    <3> QED BY <3>1, <3>2
  <2> HIDE DEF q
  <2> QED BY <2>1, <2>3
<1>5. scheduled' => scheduled \/ (processing = "no" /\ pending' # <<>>)
  BY DEF offer, refuseUnretainable, schedule
<1>6. MayOffer /\ TakesOrdinal BY DEF offer, refuseUnretainable
<1> QED BY <1>2, <1>3, <1>4, <1>5, <1>6

\* What memory holds after a batch that it accepts, and after a fallback.
LEMMA MemoryHolds ==
  ASSUME QueuesTypeOK, CountersTypeOK,
         memoryAccepts \/ \E read \in BOOLEAN : fallBackAfterCommit(read) \/ fallBackAfterTrim(read)
  PROVE  /\ volatileEvidence' \in Seq(EvidenceType) /\ retainedEventIds' \subseteq EventIds
         /\ retainedRange' \in Nat \X Nat
         /\ nextSequence' \in Nat \ {0} /\ committedEvidenceBoundary' \in Nat
         /\ BatchDone
         /\ \/ persistenceMode' = persistenceMode /\ UNCHANGED durableVars
            \/ /\ durableRetentionEntries' = <<>> /\ durableRetainedCount' = 0
               /\ durableBytes' = 0 /\ durableRetainedRange' = NoRange
               /\ persistenceMode' = "MEMORY"
<1> DEFINE evidence == EvidenceOf(batch)
           Goal == /\ volatileEvidence' \in Seq(EvidenceType) /\ retainedEventIds' \subseteq EventIds
                   /\ retainedRange' \in Nat \X Nat
                   /\ nextSequence' \in Nat \ {0} /\ committedEvidenceBoundary' \in Nat
<1>1. evidence \in Seq(EvidenceType) /\ Len(evidence) \in Nat BY EvidenceOfBatch
<1>2. /\ durableRetentionEntries \in Seq(EvidenceType) /\ volatileEvidence \in Seq(EvidenceType)
      /\ retainedEventIds \subseteq EventIds
  BY DEF QueuesTypeOK
<1>3. ASSUME Accept(evidence) PROVE nextSequence' \in Nat \ {0} /\ committedEvidenceBoundary' \in Nat
  <2> HIDE DEF evidence
  <2>1. /\ nextSequence' = nextSequence + Len(evidence)
        /\ committedEvidenceBoundary' = nextSequence + Len(evidence) - 1
    BY <1>3 DEF Accept
  <2> QED BY <1>1, <2>1 DEF CountersTypeOK
<1>4. ASSUME NEW read \in BOOLEAN, NEW taken \in Seq(EvidenceType), detachDurablePrefix(read, taken),
             nextSequence' \in Nat \ {0}, committedEvidenceBoundary' \in Nat
      PROVE  Goal
  <2> DEFINE entries == ((IF read THEN durableRetentionEntries ELSE <<>>) \o volatileEvidence) \o taken
             ids == (retainedEventIds \cup IdsOf(taken))
                      \ (IF read THEN {} ELSE IdsOf(durableRetentionEntries))
             count == retainedCount + Len(taken) - (IF read THEN 0 ELSE durableRetainedCount)
             bytes == Reduced(retainedBytes + BytesOf(taken), IF read THEN 0 ELSE durableBytes)
  <2>1. KeepInMemory(entries, count, bytes, ids) BY <1>4 DEF detachDurablePrefix
  <2>2. entries \in Seq(EvidenceType) BY <1>2, <1>4
  <2>3. ids \subseteq EventIds BY <1>2, <1>4, EvidenceFacts
  <2> HIDE DEF entries, ids, count, bytes
  <2> QED BY <1>4, <2>1, <2>2, <2>3, KeptInMemory
<1>5. CASE memoryAccepts
  <2> DEFINE entries == volatileEvidence \o evidence
             ids == retainedEventIds \cup IdsOf(evidence)
             count == retainedCount + Len(evidence)
             bytes == retainedBytes + BytesOf(evidence)
  <2>1. /\ Accept(evidence) /\ KeepInMemory(entries, count, bytes, ids)
        /\ persistenceMode' = persistenceMode /\ UNCHANGED durableVars /\ BatchDone
    BY <1>5 DEF memoryAccepts
  <2>2. entries \in Seq(EvidenceType) /\ ids \subseteq EventIds
    <3> HIDE DEF evidence
    <3> QED BY <1>1, <1>2, EvidenceFacts
  <2>3. nextSequence' \in Nat \ {0} /\ committedEvidenceBoundary' \in Nat BY <1>3, <2>1
  <2> HIDE DEF entries, ids, count, bytes
  <2> QED BY <2>1, <2>2, <2>3, KeptInMemory
<1>6. ASSUME NEW read \in BOOLEAN, fallBackAfterCommit(read)
      PROVE  /\ Goal /\ BatchDone /\ persistenceMode' = "MEMORY"
             /\ durableRetentionEntries' = <<>> /\ durableRetainedCount' = 0
             /\ durableBytes' = 0 /\ durableRetainedRange' = NoRange
  <2>1. /\ Accept(evidence) /\ detachDurablePrefix(read, evidence) /\ BatchDone
        /\ persistenceMode' = "MEMORY"
    BY <1>6 DEF fallBackAfterCommit
  <2>2. /\ durableRetentionEntries' = <<>> /\ durableRetainedCount' = 0
        /\ durableBytes' = 0 /\ durableRetainedRange' = NoRange
    BY <2>1 DEF detachDurablePrefix
  <2> HIDE DEF Goal, evidence
  <2> QED BY <1>1, <1>3, <1>4, <2>1, <2>2
<1>7. ASSUME NEW read \in BOOLEAN, fallBackAfterTrim(read)
      PROVE  /\ Goal /\ BatchDone /\ persistenceMode' = "MEMORY"
             /\ durableRetentionEntries' = <<>> /\ durableRetainedCount' = 0
             /\ durableBytes' = 0 /\ durableRetainedRange' = NoRange
  <2>1. /\ UNCHANGED sequenceVars /\ detachDurablePrefix(read, <<>>) /\ BatchDone
        /\ persistenceMode' = "MEMORY"
    BY <1>7 DEF fallBackAfterTrim
  <2>2. /\ durableRetentionEntries' = <<>> /\ durableRetainedCount' = 0
        /\ durableBytes' = 0 /\ durableRetainedRange' = NoRange
    BY <2>1 DEF detachDurablePrefix
  <2>3. nextSequence' \in Nat \ {0} /\ committedEvidenceBoundary' \in Nat /\ <<>> \in Seq(EvidenceType)
    BY <2>1 DEF sequenceVars, CountersTypeOK
  <2> HIDE DEF Goal
  <2> QED BY <1>4, <2>1, <2>2, <2>3
<1> QED BY <1>5, <1>6, <1>7

\* No step puts anything but entries into a queue, candidates into a batch or
\* Evidence into what is retained.
LEMMA QueuesStep ==
  QueuesTypeOK /\ CountersTypeOK /\ [Next]_vars => QueuesTypeOK'
<1> SUFFICES ASSUME QueuesTypeOK, CountersTypeOK, [Next]_vars PROVE QueuesTypeOK' OBVIOUS
<1> USE DEF closeVars, queueVars, captureVars, durableVars, retainedVars,
            journalVars, sequenceVars, gapVars, clearVars, historyVars
<1> DEFINE Es == Seq(EntryType)  Cs == Seq(CandidateType)  Vs == Seq(EvidenceType)
<1>t. /\ pending \in Es /\ postClearPending \in Es /\ batch \in Cs
      /\ durableRetentionEntries \in Vs /\ volatileEvidence \in Vs /\ journal.evidence \in Vs
      /\ retainedEventIds \subseteq EventIds
  BY DEF QueuesTypeOK
<1>e. <<>> \in Es /\ <<>> \in Cs /\ <<>> \in Vs OBVIOUS
<1>g. ASSUME pending' \in Es, postClearPending' \in Es, batch' \in Cs, durableRetentionEntries' \in Vs,
             volatileEvidence' \in Vs, journal'.evidence \in Vs, retainedEventIds' \subseteq EventIds
      PROVE  QueuesTypeOK'
  BY <1>g DEF QueuesTypeOK
<1>1. CASE \/ \E id \in EventIds, b \in Sizes : offer(id, b)
           \/ \E b \in Sizes, dim \in Dimensions : refuseUnretainable(b, dim)
  <2>1. pending' \in Seq(EntryType) /\ postClearPending' \in Seq(EntryType) /\ TakesOrdinal
    BY <1>1, OfferedTypes
  <2>2. UNCHANGED <<batch, durableRetentionEntries, volatileEvidence, journal, retainedEventIds>>
    BY <2>1 DEF TakesOrdinal
  <2> QED BY <2>1, <2>2 DEF QueuesTypeOK
<1>2. CASE settleLeadingGapBarrier BY <1>2 DEF QueuesTypeOK, settleLeadingGapBarrier
<1>3. ASSUME NEW n \in 0..MaxCaptured, takeBatch(n) PROVE QueuesTypeOK'
  BY <1>3, TakenBatch DEF QueuesTypeOK, takeBatch
<1>4. CASE journalCommitSucceeds
  <2> DEFINE evidence == EvidenceOf(batch)
  <2>1. evidence \in Seq(EvidenceType) /\ IdsOf(evidence) \subseteq EventIds
    BY EvidenceOfBatch, EvidenceFacts
  <2>2. /\ journal'.evidence = journal.evidence \o evidence
        /\ durableRetentionEntries' = durableRetentionEntries \o evidence
        /\ retainedEventIds' = retainedEventIds \cup IdsOf(evidence)
        /\ batch' = batch \/ batch' = <<>>
        /\ UNCHANGED <<pending, postClearPending, volatileEvidence>>
    BY <1>4 DEF journalCommitSucceeds, commitBatch, createControl, UnchangedByBatch
  <2> HIDE DEF evidence
  <2>3. /\ journal'.evidence \in Seq(EvidenceType)
        /\ durableRetentionEntries' \in Seq(EvidenceType)
    BY <2>1, <2>2, Concat DEF QueuesTypeOK
  <2>4. retainedEventIds' \subseteq EventIds /\ batch' \in Cs
    <3> HIDE DEF Cs
    <3> QED BY <1>t, <1>e, <2>1, <2>2
  <2> HIDE DEF Es, Cs
  <2> QED BY <1>t, <1>g, <2>2, <2>3, <2>4
<1>5. CASE journalTrimSucceeds
  <2>0. PICK k \in 1..Len(durableRetentionEntries) :
          LET gone == SubSeq(durableRetentionEntries, 1, k)
              kept == SubSeq(durableRetentionEntries, k + 1, Len(durableRetentionEntries))
              count == durableRetainedCount - k
              bytes == Reduced(durableBytes, BytesOf(gone))
              range == IF kept = <<>> THEN NoRange
                       ELSE <<Head(kept).sequence, durableRetainedRange[2]>>
          IN  /\ journal' = applyJournalRetentionTrim(Last(gone).sequence, range, count, bytes)
              /\ durableRetentionEntries' = kept
              /\ retainedEventIds' = retainedEventIds \ IdsOf(gone)
    BY <1>5 DEF journalTrimSucceeds
  <2>1. /\ journal'.evidence
             = After(journal.evidence, Last(SubSeq(durableRetentionEntries, 1, k)).sequence)
        /\ durableRetentionEntries'
             = SubSeq(durableRetentionEntries, k + 1, Len(durableRetentionEntries))
        /\ retainedEventIds' \subseteq retainedEventIds
        /\ batch' = <<>> /\ UNCHANGED <<pending, postClearPending, volatileEvidence>>
    BY <1>5, <2>0 DEF journalTrimSucceeds, applyJournalRetentionTrim, createControl, UnchangedByBatch
  <2>2. durableRetentionEntries' \in Seq(EvidenceType) BY <2>1, Parts DEF QueuesTypeOK
  <2>3. journal'.evidence \in Seq(EvidenceType) BY <2>1, AfterIsPart DEF QueuesTypeOK
  <2>4. retainedEventIds' \subseteq EventIds BY <1>t, <2>1
  <2> HIDE DEF Es, Cs
  <2> QED BY <1>t, <1>e, <1>g, <2>1, <2>2, <2>3, <2>4
<1>6. CASE \/ memoryAccepts
           \/ \E read \in BOOLEAN : fallBackAfterCommit(read) \/ fallBackAfterTrim(read)
  <2>1. /\ volatileEvidence' \in Seq(EvidenceType) /\ retainedEventIds' \subseteq EventIds
        /\ BatchDone
        /\ durableRetentionEntries' = durableRetentionEntries \/ durableRetentionEntries' = <<>>
    BY <1>6, MemoryHolds
  <2>2. batch' = <<>> /\ UNCHANGED <<pending, postClearPending, journal>>
    BY <2>1 DEF BatchDone, UnchangedByBatch
  <2> HIDE DEF Es, Cs
  <2>3. durableRetentionEntries' \in Vs
    <3>1. CASE durableRetentionEntries' = durableRetentionEntries BY <1>t, <3>1
    <3>2. CASE durableRetentionEntries' = <<>> BY <1>e, <3>2
    <3> QED BY <2>1, <3>1, <3>2
  <2> QED BY <1>t, <1>e, <1>g, <2>1, <2>2, <2>3
<1>c. pending \o postClearPending \in Seq(EntryType) BY Concat DEF QueuesTypeOK
<1>7. CASE clearSucceeds
  <2>1. /\ pending' = pending \o postClearPending /\ postClearPending' = <<>> /\ batch' = batch
        /\ durableRetentionEntries' = <<>> /\ volatileEvidence' = <<>> /\ retainedEventIds' = {}
        /\ journal'.evidence = <<>>
    BY <1>7 DEF clearSucceeds, clearJournalRecords, createControl
  <2>2. journal'.evidence \in Seq(EvidenceType) /\ durableRetentionEntries' \in Seq(EvidenceType)
        /\ volatileEvidence' \in Seq(EvidenceType)
    BY <2>1
  <2>3. postClearPending' \in Seq(EntryType) /\ batch' \in Seq(CandidateType)
    BY <2>1 DEF QueuesTypeOK
  <2> QED BY <1>c, <2>1, <2>2, <2>3 DEF QueuesTypeOK
<1>8. CASE clearFails BY <1>c, <1>8 DEF QueuesTypeOK, clearFails, rejoinPostClearQueue
<1>9. CASE closeEnds
  <2>1. /\ UNCHANGED <<pending, postClearPending, batch, durableRetentionEntries, volatileEvidence>>
        /\ journal' = NoJournal \/ journal' = journal
        /\ retainedEventIds' = {} \/ retainedEventIds' = retainedEventIds
    BY <1>9 DEF closeEnds, UnchangedByClose
  <2>2. NoJournal.evidence = <<>> BY DEF NoJournal
  <2> HIDE DEF Es, Cs, Vs
  <2>3. journal'.evidence \in Vs
    <3>1. CASE journal' = NoJournal BY <1>e, <2>2, <3>1
    <3>2. CASE journal' = journal BY <1>t, <3>2
    <3> QED BY <2>1, <3>1, <3>2
  <2> QED BY <1>t, <1>g, <2>1, <2>3
<1>10. CASE \/ startProcessing \/ journalCommitFails \/ journalTrimFails \/ finishProcessing
            \/ clear \/ clearBegins \/ clearCleanup \/ close \/ closeAfterClear \/ closeBegins
            \/ UNCHANGED vars
  BY <1>10 DEF QueuesTypeOK, startProcessing, journalCommitFails, journalTrimFails,
     finishProcessing, clear, clearBegins, clearCleanup, close, closeAfterClear, closeBegins,
     UnchangedByBatch, UnchangedByClose, vars
<1> QED BY <1>1, <1>2, <1>3, <1>4, <1>5, <1>6, <1>7, <1>8, <1>9, <1>10 DEF Next

\* Settling receipts adds and removes none.
LEMMA SettledReceipts ==
  ASSUME receipt \in Seq(Outcomes), NEW ordinals, NEW outcome \in Outcomes,
         Settle(ordinals, outcome)
  PROVE  receipt' \in Seq(Outcomes) /\ Len(receipt') = Len(receipt)
<1>1. \A o \in 1..Len(receipt) :
        (IF o \in ordinals THEN outcome ELSE receipt[o]) \in Outcomes
  OBVIOUS
<1>2. receipt' = [o \in 1..Len(receipt) |-> IF o \in ordinals THEN outcome ELSE receipt[o]]
  BY DEF Settle
<1> QED BY <1>1, <1>2

\* Sequences, boundaries, ranges and gaps stay numbers, and every ordinal that
\* is handed out gets one receipt.
LEMMA CountersStep ==
  QueuesTypeOK /\ CountersTypeOK /\ StagesAgree /\ [Next]_vars => CountersTypeOK'
<1> SUFFICES ASSUME QueuesTypeOK, CountersTypeOK, StagesAgree, [Next]_vars
            PROVE  CountersTypeOK'
  OBVIOUS
<1> USE DEF closeVars, queueVars, captureVars, durableVars, retainedVars,
            journalVars, sequenceVars, gapVars, clearVars, historyVars
<1> DEFINE gaps == gapCount \in Nat /\ firstGap \in GapType /\ latestGap \in GapType
           receipts == captured \in Nat /\ receipt \in Seq(Outcomes) /\ Len(receipt) = captured
           sequences == /\ interval \in Nat \ {0} /\ nextSequence \in Nat \ {0}
                        /\ committedEvidenceBoundary \in Nat
           ranges == durableRetainedRange \in Nat \X Nat /\ retainedRange \in Nat \X Nat
<1>t. gaps /\ receipts /\ sequences /\ ranges BY DEF CountersTypeOK
<1>g. ASSUME gaps', receipts', sequences', ranges' PROVE CountersTypeOK'
  BY <1>g DEF CountersTypeOK
<1>n. NoRange \in Nat \X Nat BY DEF NoRange
<1>s. ASSUME SettleBatch, UNCHANGED captured PROVE receipts'
  <2>1. receipt' \in Seq(Outcomes) /\ Len(receipt') = Len(receipt)
    BY <1>s, <1>t, SettledReceipts DEF SettleBatch, Outcomes
  <2> QED BY <1>s, <1>t, <2>1
<1>1. CASE \/ \E id \in EventIds, b \in Sizes : offer(id, b)
           \/ \E b \in Sizes, dim \in Dimensions : refuseUnretainable(b, dim)
  <2>1. TakesOrdinal BY <1>1, OfferedTypes
  <2>2. receipts' BY <1>t, <2>1 DEF TakesOrdinal, Outcomes
  <2>3. UNCHANGED <<gapVars, interval, sequenceVars, durableRetainedRange, retainedRange>>
    BY <2>1 DEF TakesOrdinal
  <2> HIDE DEF receipts
  <2> QED BY <1>t, <1>g, <2>2, <2>3
<1>2. CASE settleLeadingGapBarrier
  <2>1. Head(pending) \in BarrierType
    BY <1>2 DEF QueuesTypeOK, EntryType, settleLeadingGapBarrier, IsBarrier, CandidateType
  <2>2. /\ AcceptanceGap(Head(pending).first) \in GapType
        /\ AcceptanceGap(Head(pending).latest) \in GapType
        /\ gapCount + Head(pending).count \in Nat
    BY <2>1, SMTT(60) DEF CountersTypeOK, AcceptanceGap, GapType, BarrierType
  <2>3. /\ firstGap' \in {firstGap, AcceptanceGap(Head(pending).first)}
        /\ latestGap' = AcceptanceGap(Head(pending).latest)
        /\ gapCount' = gapCount + Head(pending).count
    BY <1>2 DEF settleLeadingGapBarrier, settleGapBarrier
  <2>4. receipt' \in Seq(Outcomes) /\ Len(receipt') = Len(receipt)
    BY <1>t, SettledReceipts, <1>2 DEF settleLeadingGapBarrier, settleGapBarrier, Outcomes
  <2>5. UNCHANGED <<interval, captured, sequenceVars, durableRetainedRange, retainedRange>>
    BY <1>2 DEF settleLeadingGapBarrier
  <2> QED BY <1>t, <1>g, <2>2, <2>3, <2>4, <2>5
<1>3. ASSUME NEW n \in 0..MaxCaptured, takeBatch(n) PROVE CountersTypeOK'
  BY <1>t, <1>g, <1>3 DEF takeBatch
<1>4. CASE journalCommitSucceeds
  <2> DEFINE evidence == EvidenceOf(batch)
             first == IF durableRetainedRange = NoRange THEN Head(evidence).sequence
                      ELSE durableRetainedRange[1]
  <2>1. evidence \in Seq(EvidenceType) /\ Len(evidence) \in Nat /\ Len(evidence) = Len(batch)
    BY EvidenceOfBatch
  <2>2. /\ processing = "commit" /\ Accept(evidence)
        /\ durableRetainedRange' = <<first, Last(evidence).sequence>>
        /\ retainedRange' = <<durableRetainedRange'[1], committedEvidenceBoundary'>>
        /\ UNCHANGED <<gapVars, interval, captured>>
        /\ (UNCHANGED receipt) \/ SettleBatch
    BY <1>4 DEF journalCommitSucceeds, UnchangedByBatch
  <2> HIDE DEF evidence
  <2>3. Head(evidence) \in EvidenceType /\ Last(evidence) \in EvidenceType
    <3>1. batch # <<>> BY <2>2 DEF StagesAgree
    <3>2. Len(batch) # 0 BY <3>1 DEF QueuesTypeOK
    <3> QED BY <2>1, <3>2 DEF Last
  <2>4. first \in Nat /\ Last(evidence).sequence \in Nat BY <2>3, EvidenceFacts, <1>t
  <2> HIDE DEF first
  <2>5. nextSequence' \in Nat \ {0} /\ committedEvidenceBoundary' \in Nat
    BY <1>t, <2>1, <2>2 DEF Accept
  <2>6. ranges' BY <2>2, <2>4, <2>5
  <2>7. receipts'
    <3>1. CASE UNCHANGED receipt BY <1>t, <2>2, <3>1
    <3>2. CASE SettleBatch BY <1>s, <2>2, <3>2
    <3> QED BY <2>2, <3>1, <3>2
  <2> HIDE DEF ranges, receipts
  <2> QED BY <1>t, <1>g, <2>2, <2>5, <2>6, <2>7
<1>5. CASE journalTrimSucceeds
  <2>1. PICK k \in 1..Len(durableRetentionEntries) :
          LET kept == SubSeq(durableRetentionEntries, k + 1, Len(durableRetentionEntries))
              range == IF kept = <<>> THEN NoRange
                       ELSE <<Head(kept).sequence, durableRetainedRange[2]>>
          IN  /\ durableRetainedRange' = range
              /\ retainedRange' = IF range = NoRange THEN NoRange
                                  ELSE <<range[1], committedEvidenceBoundary>>
    BY <1>5 DEF journalTrimSucceeds
  <2>2. SettleBatch /\ UNCHANGED <<gapVars, interval, captured, sequenceVars>>
    BY <1>5 DEF journalTrimSucceeds, UnchangedByBatch
  <2> DEFINE kept == SubSeq(durableRetentionEntries, k + 1, Len(durableRetentionEntries))
             range == IF kept = <<>> THEN NoRange
                      ELSE <<Head(kept).sequence, durableRetainedRange[2]>>
  <2>3. kept \in Seq(EvidenceType) BY Parts DEF QueuesTypeOK
  <2>4. /\ durableRetainedRange' = range
        /\ retainedRange' = IF range = NoRange THEN NoRange
                            ELSE <<range[1], committedEvidenceBoundary>>
    BY <2>1
  <2> HIDE DEF kept
  <2>5. range \in Nat \X Nat BY <1>t, <1>n, EvidenceFacts, <2>3
  <2> HIDE DEF range
  <2>6. ranges' BY <1>t, <1>n, <2>4, <2>5
  <2>7. receipts' BY <1>s, <2>2
  <2> HIDE DEF ranges, receipts
  <2> QED BY <1>t, <1>g, <2>2, <2>6, <2>7
<1>6. CASE \/ memoryAccepts
           \/ \E read \in BOOLEAN : fallBackAfterCommit(read) \/ fallBackAfterTrim(read)
  <2>1. /\ retainedRange' \in Nat \X Nat /\ BatchDone
        /\ nextSequence' \in Nat \ {0} /\ committedEvidenceBoundary' \in Nat
        /\ durableRetainedRange' = durableRetainedRange \/ durableRetainedRange' = NoRange
    BY <1>6, MemoryHolds
  <2>2. SettleBatch /\ UNCHANGED <<gapVars, interval, captured>>
    BY <2>1 DEF BatchDone, UnchangedByBatch
  <2>3. ranges' BY <1>t, <1>n, <2>1
  <2>4. receipts' BY <1>s, <2>2
  <2> HIDE DEF ranges, receipts
  <2> QED BY <1>t, <1>g, <2>1, <2>2, <2>3, <2>4
<1>7. CASE clearSucceeds
  <2>1. /\ interval' = interval + 1 /\ durableRetainedRange' = NoRange /\ retainedRange' = NoRange
        /\ gapCount' = 0 /\ firstGap' = NoGap /\ latestGap' = NoGap
        /\ UNCHANGED <<captureVars, sequenceVars>>
    BY <1>7 DEF clearSucceeds
  <2>2. NoGap \in GapType BY DEF NoGap, GapType
  <2> QED BY <1>t, <1>n, <1>g, <2>1, <2>2
<1>8. CASE closeEnds BY <1>t, <1>n, <1>g, <1>8 DEF closeEnds, UnchangedByClose
<1>9. CASE \/ startProcessing \/ journalCommitFails \/ journalTrimFails \/ finishProcessing
           \/ clear \/ clearBegins \/ clearFails \/ clearCleanup
           \/ close \/ closeAfterClear \/ closeBegins \/ UNCHANGED vars
  BY <1>t, <1>g, <1>9 DEF startProcessing, journalCommitFails, journalTrimFails,
     finishProcessing, clear, clearBegins, clearFails, clearCleanup, close, closeAfterClear,
     closeBegins, UnchangedByBatch, UnchangedByClose, vars
<1> QED BY <1>1, <1>2, <1>3, <1>4, <1>5, <1>6, <1>7, <1>8, <1>9 DEF Next

\* The stages exclude one another.
LEMMA StagesStep ==
  ASSUME TypeOK, StagesAgree, [Next]_vars PROVE StagesAgree'
<1> USE DEF closeVars, queueVars, captureVars, durableVars, retainedVars,
            journalVars, sequenceVars, gapVars, clearVars, historyVars
<1> DEFINE Goal == StagesAgree'
<1> HIDE DEF Goal
<1> SUFFICES Goal BY DEF Goal
<1>0. LifecycleTypeOK /\ QueuesTypeOK /\ CountersTypeOK BY DEF TypeOK
<1>1. CASE \/ \E id \in EventIds, b \in Sizes : offer(id, b)
           \/ \E b \in Sizes, dim \in Dimensions : refuseUnretainable(b, dim)
  <2>1. /\ \/ ~clearInProgress /\ pending' # <<>> /\ postClearPending' = postClearPending
           \/ clearInProgress /\ pending' = pending
        /\ scheduled' => scheduled \/ (processing = "no" /\ pending' # <<>>)
        /\ MayOffer /\ TakesOrdinal
    BY <1>0, <1>1, OfferedTypes
  <2>2. /\ closeStage = "none" /\ phase = "RUNNING"
        /\ UNCHANGED <<closeVars, batch, persistenceMode, processing, idleWaiters, clearing,
                       clearInProgress>>
    BY <1>0, <2>1 DEF MayOffer, StagesAgree, TakesOrdinal, LifecycleTypeOK
  <2>3. scheduled' => processing' = "no" /\ pending' # <<>> BY <2>1, <2>2 DEF StagesAgree
  <2>4. clearing' = "journal" \/ (clearing' = "waiting" /\ "clear" \notin idleWaiters')
          => isIdle'
    BY <2>1, <2>2 DEF StagesAgree, isIdle
  <2> QED BY <2>2, <2>3, <2>4 DEF Goal, StagesAgree
<1>4. CASE journalCommitFails \/ journalTrimFails \/ UNCHANGED vars
  BY <1>0, <1>4 DEF Goal, StagesAgree, isIdle, LifecycleTypeOK, journalCommitFails,
     journalTrimFails, UnchangedByBatch, vars
<1>5. CASE startProcessing BY <1>0, <1>5 DEF Goal, StagesAgree, startProcessing, isIdle
<1>6. CASE settleLeadingGapBarrier
  BY <1>0, <1>6 DEF Goal, StagesAgree, isIdle, settleLeadingGapBarrier
<1>7. ASSUME NEW n \in 0..MaxCaptured, takeBatch(n) PROVE Goal
  <2>1. /\ processing = "loop" /\ ~scheduled /\ ~isIdle
        /\ processing' = IF n = 0 THEN "loop" ELSE "commit"
        /\ UNCHANGED <<persistenceMode, clearVars, closeVars, scheduled, idleWaiters>>
    BY <1>0, <1>7 DEF takeBatch, StagesAgree, isIdle
  <2>2. batch' = <<>> <=> processing' = "loop" BY <2>1, <1>0, <1>7, TakenBatch
  <2> QED BY <2>1, <2>2 DEF Goal, StagesAgree, isIdle
<1>a. ASSUME ~(processing \in {"no", "loop"}), processing' = "loop", batch' = <<>>,
             UNCHANGED <<pending, clearVars, closeVars, scheduled, idleWaiters>>
      PROVE  Goal
  BY <1>a DEF Goal, StagesAgree, isIdle
<1>8. CASE journalCommitSucceeds
  <2>1. /\ processing = "commit" /\ persistenceMode = "INDEXEDDB"
        /\ UNCHANGED <<pending, persistenceMode, clearVars, closeVars, scheduled, idleWaiters>>
        /\ \/ processing' = "trim" /\ batch' = batch
           \/ processing' = "loop" /\ batch' = <<>>
    BY <1>8 DEF journalCommitSucceeds, UnchangedByBatch
  <2>2. CASE processing' = "trim" /\ batch' = batch BY <2>1, <2>2 DEF Goal, StagesAgree, isIdle
  <2>3. CASE processing' = "loop" /\ batch' = <<>> BY <1>a, <2>1, <2>3
  <2> QED BY <2>1, <2>2, <2>3
<1>15. CASE \/ journalTrimSucceeds \/ memoryAccepts
            \/ \E read \in BOOLEAN : fallBackAfterCommit(read) \/ fallBackAfterTrim(read)
  <2>1. ~(processing \in {"no", "loop"})
    BY <1>15 DEF journalTrimSucceeds, memoryAccepts, fallBackAfterCommit, fallBackAfterTrim
  <2>2. /\ processing' = "loop" /\ batch' = <<>>
        /\ UNCHANGED <<pending, clearVars, closeVars, scheduled, idleWaiters>>
    <3>1. CASE journalTrimSucceeds BY <3>1 DEF journalTrimSucceeds, UnchangedByBatch
    <3>2. CASE ~journalTrimSucceeds
      BY <1>0, <1>15, <3>2, MemoryHolds DEF BatchDone, UnchangedByBatch
    <3> QED BY <3>1, <3>2
  <2> QED BY <1>a, <2>1, <2>2
<1>9. CASE finishProcessing
  BY <1>0, <1>9 DEF Goal, StagesAgree, finishProcessing, isIdle, resolveIdleWaiters
<1>10. CASE clear
  BY <1>0, <1>10 DEF Goal, StagesAgree, clear, isIdle, waitForIdle, LifecycleTypeOK
<1>11. CASE clearBegins BY <1>0, <1>11 DEF Goal, StagesAgree, clearBegins, isIdle
<1>12. CASE clearSucceeds \/ clearFails
  <2>1. /\ clearing = "journal" /\ clearing' = "settled"
        /\ pending' = pending \o postClearPending
        /\ UNCHANGED <<batch, persistenceMode, closeVars, scheduled, processing, idleWaiters>>
    BY <1>12 DEF clearSucceeds, clearFails, rejoinPostClearQueue
  <2>2. pending' # <<>> \/ pending = <<>> BY <1>0, <2>1 DEF QueuesTypeOK
  <2> QED BY <2>1, <2>2 DEF Goal, StagesAgree, isIdle
<1>13. CASE clearCleanup
  BY <1>0, <1>13 DEF Goal, StagesAgree, clearCleanup, isIdle, schedule, LifecycleTypeOK
<1>14. CASE close \/ closeAfterClear \/ closeBegins \/ closeEnds
  BY <1>0, <1>14 DEF Goal, StagesAgree, isIdle, waitForIdle, LifecycleTypeOK, close,
     closeAfterClear, closeBegins, closeEnds, UnchangedByClose
<1> QED
  BY <1>1, <1>4, <1>5, <1>6, <1>7, <1>8, <1>9, <1>10, <1>11, <1>12, <1>13, <1>14, <1>15 DEF Next

-----------------------------------------------------------------------------
(* The journal *)

\* Evidence that follows the boundary extends the tail that ends there.
LEMMA TailGrows ==
  ASSUME NEW s \in Seq(EvidenceType), NEW taken \in Seq(EvidenceType), NEW b \in Nat, NEW iv,
         IsTail(s, b, iv),
         \A i \in 1 .. Len(taken) : taken[i].sequence = (b + 1) + (i - 1) /\ taken[i].interval = iv
  PROVE  IsTail(s \o taken, b + Len(taken), iv)
<1> DEFINE c == s \o taken
<1>1. /\ c \in Seq(EvidenceType) /\ Len(c) = Len(s) + Len(taken)
      /\ \A i \in 1 .. Len(s) + Len(taken) :
           \/ i \in 1 .. Len(s) /\ c[i] = s[i]
           \/ i - Len(s) \in 1 .. Len(taken) /\ c[i] = taken[i - Len(s)]
  BY Concat
<1> HIDE DEF c
<1>2. ASSUME NEW i \in 1 .. Len(s) + Len(taken)
      PROVE  c[i].sequence = ((b + Len(taken)) - Len(c)) + i /\ c[i].interval = iv
  <2>1. CASE i \in 1 .. Len(s) /\ c[i] = s[i] BY <1>1, <2>1 DEF IsTail
  <2>2. CASE i - Len(s) \in 1 .. Len(taken) /\ c[i] = taken[i - Len(s)] BY <1>1, <2>2
  <2> QED BY <1>1, <2>1, <2>2
<1>3. Len(c) <= b + Len(taken) BY <1>1 DEF IsTail
<1> QED BY <1>1, <1>2, <1>3 DEF IsTail, c

\* What is left behind the k oldest is a tail too.
LEMMA TailIsCut ==
  ASSUME NEW s \in Seq(EvidenceType), NEW b \in Nat, NEW iv, IsTail(s, b, iv),
         NEW k \in 0 .. Len(s)
  PROVE  IsTail(SubSeq(s, k + 1, Len(s)), b, iv)
<1> DEFINE t == SubSeq(s, k + 1, Len(s))
<1>1. /\ t \in Seq(EvidenceType) /\ Len(t) = Len(s) - k
      /\ \A i \in 1 .. Len(s) - k : t[i] = s[k + i]
  BY Parts
<1> HIDE DEF t
<1>2. ASSUME NEW i \in 1 .. Len(t) PROVE t[i].sequence = (b - Len(t)) + i /\ t[i].interval = iv
  <2>1. k + i \in 1 .. Len(s) /\ t[i] = s[k + i] BY <1>1
  <2>2. s[k + i].sequence = (b - Len(s)) + (k + i) /\ s[k + i].interval = iv BY <2>1 DEF IsTail
  <2> QED BY <1>1, <2>1, <2>2
<1>3. Len(t) <= b BY <1>1 DEF IsTail
<1>4. IsTail(t, b, iv) BY <1>1, <1>2, <1>3 DEF IsTail
<1> QED BY <1>4 DEF t

\* The keys up to that of the k-th record of a tail are those of the k oldest.
LEMMA AfterIsCut ==
  ASSUME NEW s \in Seq(EvidenceType), NEW b \in Nat, NEW iv, IsTail(s, b, iv),
         NEW k \in 1 .. Len(s)
  PROVE  After(s, s[k].sequence) = SubSeq(s, k + 1, Len(s))
<1> DEFINE T == {i \in DOMAIN s : s[i].sequence <= s[k].sequence}
<1>1. DOMAIN s = 1 .. Len(s) /\ Len(s) \in Nat OBVIOUS
<1>2. \A i \in 1 .. Len(s) : s[i].sequence = (b - Len(s)) + i BY <1>1 DEF IsTail
<1>3. T = 1 .. k
  <2>1. ASSUME NEW i \in 1 .. Len(s) PROVE s[i].sequence <= s[k].sequence <=> i <= k
    BY <1>1, <1>2
  <2> QED BY <1>1, <2>1
<1>4. Cardinality(1 .. k) = k BY FS_Interval
<1>5. After(s, s[k].sequence) = SubSeq(s, Cardinality(T) + 1, Len(s)) BY DEF After
<1> QED BY <1>3, <1>4, <1>5

\* The range of a tail: none when it is empty, otherwise its ends.
LEMMA RangeFacts ==
  ASSUME NEW s \in Seq(EvidenceType), NEW b \in Nat, NEW iv, IsTail(s, b, iv)
  PROVE  /\ RangeOf(s) = NoRange <=> s = <<>>
         /\ s # <<>> => /\ RangeOf(s) = <<s[1].sequence, b>> /\ s[Len(s)].sequence = b
                        /\ Len(s) \in Nat \ {0}
<1>1. CASE s = <<>> BY <1>1 DEF RangeOf
<1>2. CASE s # <<>>
  <2>1. Len(s) \in Nat /\ Len(s) >= 1 /\ Len(s) <= b BY <1>2 DEF IsTail
  <2>2. 1 \in DOMAIN s /\ Len(s) \in DOMAIN s BY <2>1
  <2>3. s[1].sequence = (b - Len(s)) + 1 /\ s[Len(s)].sequence = (b - Len(s)) + Len(s)
    BY <2>2 DEF IsTail
  <2>4. s[1].sequence # 0 /\ s[Len(s)].sequence = b BY <2>1, <2>3
  <2>5. RangeOf(s) = <<s[1].sequence, s[Len(s)].sequence>> BY <1>2 DEF RangeOf, Last
  <2> QED BY <1>2, <2>1, <2>4, <2>5 DEF NoRange
<1> QED BY <1>1, <1>2

\* The bytes of what is left, however they are computed.
LEMMA BytesAreCut ==
  ASSUME NEW s \in Seq(EvidenceType), NEW k \in 0 .. Len(s)
  PROVE  /\ BytesOf(s) \in Nat
         /\ Reduced(BytesOf(s), BytesOf(SubSeq(s, 1, k))) = BytesOf(SubSeq(s, k + 1, Len(s)))
<1> DEFINE gone == SubSeq(s, 1, k)
           kept == SubSeq(s, k + 1, Len(s))
<1>1. gone \in Seq(EvidenceType) /\ kept \in Seq(EvidenceType) /\ s = gone \o kept BY Parts
<1> HIDE DEF gone, kept
<1>2. \A e \in EvidenceType : e.bytes \in Nat BY EvidenceFacts
<1>3. /\ BytesOf(gone) \in Nat /\ BytesOf(kept) \in Nat
      /\ BytesOf(gone \o kept) = BytesOf(gone) + BytesOf(kept)
  <2> HIDE DEF EvidenceType
  <2> QED BY <1>1, <1>2, BytesFacts
<1>4. BytesOf(s) = BytesOf(gone) + BytesOf(kept) BY <1>1, <1>3
<1>5. BytesOf(s) \in Nat /\ Reduced(BytesOf(s), BytesOf(gone)) = BytesOf(kept)
  BY <1>3, <1>4 DEF Reduced
<1> QED BY <1>5 DEF gone, kept

\* What startup requires of a journal follows from its being such a tail.
LEMMA TailIsLoadable ==
  ASSUME NEW j, NEW b \in Nat, j.evidence \in Seq(EvidenceType), IsTail(j.evidence, b, j.interval),
         j.retainedCount = Len(j.evidence), j.accountedBytes = BytesOf(j.evidence),
         j.retainedRange = RangeOf(j.evidence),
         j.committedEvidenceBoundary = b, j.nextSequence = b + 1
  PROVE  validateJournalRecords(j)
<1> DEFINE s == j.evidence
<1>1. s \in Seq(EvidenceType) /\ IsTail(s, b, j.interval) /\ DOMAIN s = 1 .. Len(s) OBVIOUS
<1> HIDE DEF s
<1>2. ASSUME NEW i \in DOMAIN s
      PROVE  s[i].interval = j.interval /\ (i > 1 => s[i].sequence = s[i - 1].sequence + 1)
  <2>1. s[i].interval = j.interval /\ s[i].sequence = (b - Len(s)) + i BY <1>1 DEF IsTail
  <2>2. ASSUME i > 1 PROVE s[i].sequence = s[i - 1].sequence + 1
    <3>1. i - 1 \in DOMAIN s BY <1>1, <2>2
    <3>2. s[i - 1].sequence = (b - Len(s)) + (i - 1) BY <1>1, <3>1 DEF IsTail
    <3> QED BY <1>1, <2>1, <3>2
  <2> QED BY <2>1, <2>2
<1>3. s # <<>> => Last(s).sequence = b BY <1>1, RangeFacts DEF Last
<1> QED BY <1>2, <1>3 DEF validateJournalRecords, s

\* No step breaks the journal or parts the coordinator's records from it.
LEMMA JournalStep ==
  ASSUME JournalInv, [Next]_vars, TypeOK' PROVE DurableExact' /\ JournalHoldsEvidence'
<1> DEFINE s == durableRetentionEntries
           evidence == EvidenceOf(batch)
           Goal == DurableExact' /\ JournalHoldsEvidence'
<1> HIDE DEF Goal
<1> SUFFICES Goal BY DEF Goal
<1>0. LifecycleTypeOK /\ QueuesTypeOK /\ CountersTypeOK /\ StagesAgree BY DEF JournalInv, TypeOK
<1>1. /\ DurableExact /\ validateJournalRecords(journal) /\ ModeHoldsEvidence
      /\ phase = "RUNNING" => journal.interval = interval
  BY DEF JournalInv, JournalHoldsEvidence, JournalIsLoadable
<1>2. /\ s \in Seq(EvidenceType) /\ Len(s) \in Nat /\ committedEvidenceBoundary \in Nat
      /\ nextSequence = committedEvidenceBoundary + 1
      /\ IsTail(s, committedEvidenceBoundary, interval)
  BY <1>0, <1>1 DEF QueuesTypeOK, CountersTypeOK, DurableExact
\* Nothing that the journal is about changes.
<1>a. ASSUME UNCHANGED <<phase, journal, interval, persistenceMode, durableVars, volatileEvidence,
                         sequenceVars>>
      PROVE  Goal
  <2>1. /\ UNCHANGED durableRetentionEntries /\ UNCHANGED durableRetainedCount
        /\ UNCHANGED durableBytes /\ UNCHANGED durableRetainedRange
        /\ UNCHANGED nextSequence /\ UNCHANGED committedEvidenceBoundary
    BY <1>a DEF durableVars, sequenceVars
  <2>2. DurableExact' BY <1>a, <1>1, <2>1 DEF DurableExact
  <2>3. JournalIsLoadable' BY <1>a, <1>1 DEF JournalIsLoadable
  <2>4. ModeHoldsEvidence' BY <1>a, <1>1, <2>1 DEF ModeHoldsEvidence
  <2> QED BY <2>2, <2>3, <2>4 DEF Goal, JournalHoldsEvidence
\* The durable part is given up, or stays given up.
<1>b. ASSUME phase' = phase, journal' = journal, interval' = interval, persistenceMode' = "MEMORY",
             durableRetentionEntries' = <<>>, durableRetainedCount' = 0, durableBytes' = 0,
             durableRetainedRange' = NoRange, nextSequence' = committedEvidenceBoundary' + 1
      PROVE  Goal
  <2>1. JournalIsLoadable' BY <1>b, <1>1 DEF JournalIsLoadable
  <2>2. IsTail(<<>>, committedEvidenceBoundary', interval')
    BY DEF IsTail, TypeOK, CountersTypeOK
  <2>3. DurableExact' BY <1>b, <2>2, NoBytes DEF DurableExact, RangeOf
  <2>4. ModeHoldsEvidence' BY <1>b DEF ModeHoldsEvidence
  <2> QED BY <2>1, <2>3, <2>4 DEF Goal, JournalHoldsEvidence
\* The records and the journal change together.
<1>c. ASSUME NEW t \in Seq(EvidenceType), NEW b \in Nat, IsTail(t, b, interval'),
             durableRetentionEntries' = t, durableRetainedCount' = Len(t),
             durableBytes' = BytesOf(t), durableRetainedRange' = RangeOf(t),
             committedEvidenceBoundary' = b, nextSequence' = b + 1,
             journal'.evidence = t, journal'.interval = interval',
             journal'.retainedCount = Len(t), journal'.accountedBytes = BytesOf(t),
             journal'.retainedRange = RangeOf(t),
             journal'.committedEvidenceBoundary = b, journal'.nextSequence = b + 1,
             volatileEvidence' = <<>> \/ persistenceMode' = "MEMORY",
             persistenceMode' = "MEMORY" => t = <<>>
      PROVE  Goal
  <2>1. DurableExact' BY <1>c DEF DurableExact
  <2>2. validateJournalRecords(journal') BY <1>c, TailIsLoadable
  <2>3. JournalIsLoadable' BY <1>c, <2>2 DEF JournalIsLoadable
  <2>4. ModeHoldsEvidence'
    <3>1. CASE persistenceMode' = "INDEXEDDB" BY <1>c, <3>1 DEF ModeHoldsEvidence
    <3>2. CASE persistenceMode' = "MEMORY" BY <1>c, <3>2, NoBytes DEF ModeHoldsEvidence, RangeOf
    <3> QED BY <3>1, <3>2 DEF TypeOK, LifecycleTypeOK
  <2> QED BY <2>1, <2>3, <2>4 DEF Goal, JournalHoldsEvidence
<1>d. ASSUME persistenceMode = "INDEXEDDB", processing \notin {"no", "loop"}
      PROVE  /\ phase = "RUNNING" /\ journal.evidence = s /\ volatileEvidence = <<>>
             /\ batch # <<>> /\ durableRetainedCount = Len(s) /\ durableBytes = BytesOf(s)
             /\ durableRetainedRange = RangeOf(s)
  BY <1>0, <1>1, <1>d DEF ModeHoldsEvidence, DurableExact, StagesAgree, isIdle, LifecycleTypeOK
<1>3. CASE journalCommitSucceeds
  <2> DEFINE n == Len(evidence)
             t == s \o evidence
             b == committedEvidenceBoundary + n
             range == <<IF durableRetainedRange = NoRange THEN Head(evidence).sequence
                        ELSE durableRetainedRange[1], Last(evidence).sequence>>
  <2>1. processing = "commit" /\ persistenceMode = "INDEXEDDB" BY <1>3 DEF journalCommitSucceeds
  <2>2. /\ phase = "RUNNING" /\ journal.evidence = s /\ volatileEvidence = <<>> /\ batch # <<>>
        /\ durableRetainedCount = Len(s) /\ durableBytes = BytesOf(s)
        /\ durableRetainedRange = RangeOf(s)
    BY <1>d, <2>1
  <2>3. /\ evidence \in Seq(EvidenceType) /\ n \in Nat \ {0} /\ evidence # <<>>
        /\ \A i \in 1 .. n : evidence[i].sequence = nextSequence + (i - 1) /\ evidence[i].interval = interval
    <3>1. Len(batch) \in Nat \ {0} BY <1>0, <2>2 DEF QueuesTypeOK
    <3>2. /\ evidence \in Seq(EvidenceType) /\ Len(evidence) = Len(batch)
          /\ \A i \in 1 .. Len(batch) : evidence[i].sequence = nextSequence + (i - 1)
                                        /\ evidence[i].interval = interval
      BY <1>0, EvidenceOfBatch
    <3> HIDE DEF evidence
    <3> QED BY <3>1, <3>2
  <2>4. /\ journal' = commitBatch(evidence)
        /\ durableRetentionEntries' = t /\ durableRetainedCount' = durableRetainedCount + n
        /\ durableBytes' = durableBytes + BytesOf(evidence) /\ durableRetainedRange' = range
        /\ Accept(evidence)
        /\ UNCHANGED <<phase, interval, persistenceMode, volatileEvidence>>
    BY <1>3 DEF journalCommitSucceeds, UnchangedByBatch, closeVars
  <2>5. /\ journal'.evidence = journal.evidence \o evidence /\ journal'.interval = interval
        /\ journal'.retainedCount = durableRetainedCount + n
        /\ journal'.accountedBytes = durableBytes + BytesOf(evidence)
        /\ journal'.retainedRange = range
        /\ journal'.committedEvidenceBoundary = Last(evidence).sequence
        /\ journal'.nextSequence = nextSequence + n
    BY <2>4 DEF commitBatch, createControl
  <2>6. /\ nextSequence' = nextSequence + n
        /\ committedEvidenceBoundary' = nextSequence + n - 1
    BY <2>4 DEF Accept
  <2> HIDE DEF evidence
  <2>7. t \in Seq(EvidenceType) /\ Len(t) = Len(s) + n /\ IsTail(t, b, interval)
    BY <1>2, <2>3, TailGrows, Concat
  <2>8. BytesOf(t) = BytesOf(s) + BytesOf(evidence)
    <3> HIDE DEF EvidenceType
    <3> QED BY <1>2, <2>3, EvidenceFacts, BytesFacts
  <2>9. Last(evidence).sequence = b /\ Last(evidence) = evidence[n] /\ Head(evidence) = evidence[1]
    BY <1>2, <2>3 DEF Last
  <2>10. RangeOf(t) = range
    <3>1. t # <<>> /\ RangeOf(t) = <<t[1].sequence, b>>
      <4>1. Len(t) # 0 BY <1>2, <2>3, <2>7
      <4>2. t # <<>> /\ b \in Nat BY <1>2, <2>3, <4>1
      <4> HIDE DEF t, b
      <4> QED BY <2>7, <4>2, RangeFacts
    <3>2. CASE s = <<>>
      <4>1. durableRetainedRange = NoRange BY <2>2, <3>2 DEF RangeOf
      <4>2. t[1] = evidence[1] BY <2>3, <3>2
      <4> QED BY <2>9, <3>1, <4>1, <4>2
    <3>3. CASE s # <<>>
      <4>1. durableRetainedRange # NoRange /\ durableRetainedRange[1] = s[1].sequence
        BY <2>2, <1>2, <3>3, RangeFacts
      <4>2. t[1] = s[1] BY <1>2, <2>3, <3>3
      <4> QED BY <2>9, <3>1, <4>1, <4>2
    <3> QED BY <3>2, <3>3
  <2>11. b \in Nat /\ nextSequence + n = b + 1 /\ nextSequence + n - 1 = b BY <1>2, <2>3
  <2> HIDE DEF t, b, n, range
  <2>12. /\ durableRetentionEntries' = t /\ durableRetainedCount' = Len(t)
         /\ durableBytes' = BytesOf(t) /\ durableRetainedRange' = RangeOf(t)
    BY <2>2, <2>4, <2>7, <2>8, <2>10
  <2>13. committedEvidenceBoundary' = b /\ nextSequence' = b + 1 BY <2>6, <2>11
  <2>14. /\ journal'.retainedCount = Len(t) /\ journal'.accountedBytes = BytesOf(t)
         /\ journal'.retainedRange = RangeOf(t)
         /\ journal'.committedEvidenceBoundary = b /\ journal'.nextSequence = b + 1
    BY <2>2, <2>5, <2>7, <2>8, <2>9, <2>10, <2>11
  <2>15. interval' = interval /\ persistenceMode' = "INDEXEDDB" /\ volatileEvidence' = <<>>
    BY <2>1, <2>2, <2>4
  <2>16. journal'.evidence = t /\ journal'.interval = interval' BY <2>2, <2>5, <2>15 DEF t
  <2>17. t \in Seq(EvidenceType) /\ b \in Nat /\ IsTail(t, b, interval') BY <2>7, <2>11, <2>15
  <2> QED BY <1>c, <2>12, <2>13, <2>14, <2>15, <2>16, <2>17
<1>4. CASE journalTrimSucceeds
  <2>1. processing = "trim" /\ persistenceMode = "INDEXEDDB"
    BY <1>0, <1>4 DEF journalTrimSucceeds, StagesAgree, LifecycleTypeOK
  <2>2. /\ phase = "RUNNING" /\ journal.evidence = s /\ volatileEvidence = <<>>
        /\ durableRetainedCount = Len(s) /\ durableBytes = BytesOf(s)
        /\ durableRetainedRange = RangeOf(s)
    BY <1>d, <2>1
  <2>3. PICK k \in 1 .. Len(s) :
          LET gone == SubSeq(s, 1, k)
              kept == SubSeq(s, k + 1, Len(s))
              count == durableRetainedCount - k
              bytes == Reduced(durableBytes, BytesOf(gone))
              range == IF kept = <<>> THEN NoRange
                       ELSE <<Head(kept).sequence, durableRetainedRange[2]>>
          IN  /\ journal' = applyJournalRetentionTrim(Last(gone).sequence, range, count, bytes)
              /\ durableRetentionEntries' = kept /\ durableRetainedCount' = count
              /\ durableBytes' = bytes /\ durableRetainedRange' = range
    BY <1>4 DEF journalTrimSucceeds
  <2>4. UNCHANGED <<phase, interval, persistenceMode, volatileEvidence, sequenceVars>>
    BY <1>4 DEF journalTrimSucceeds, UnchangedByBatch, closeVars
  <2> DEFINE gone == SubSeq(s, 1, k)
             kept == SubSeq(s, k + 1, Len(s))
             count == durableRetainedCount - k
             bytes == Reduced(durableBytes, BytesOf(gone))
             range == IF kept = <<>> THEN NoRange
                      ELSE <<Head(kept).sequence, durableRetainedRange[2]>>
             b == committedEvidenceBoundary
  <2>5. /\ journal'.evidence = After(journal.evidence, Last(gone).sequence)
        /\ journal'.interval = interval /\ journal'.retainedCount = count
        /\ journal'.accountedBytes = bytes /\ journal'.retainedRange = range
        /\ journal'.committedEvidenceBoundary = b /\ journal'.nextSequence = nextSequence
        /\ durableRetentionEntries' = kept /\ durableRetainedCount' = count
        /\ durableBytes' = bytes /\ durableRetainedRange' = range
    BY <2>3 DEF applyJournalRetentionTrim, createControl
  <2>6. /\ gone \in Seq(EvidenceType) /\ Len(gone) = k /\ gone[k] = s[k]
        /\ kept \in Seq(EvidenceType) /\ Len(kept) = Len(s) - k
        /\ k \in 0 .. Len(s)
    <3>1. k \in 0 .. Len(s) /\ k \in 1 .. k BY <1>2
    <3> HIDE DEF EvidenceType
    <3> QED BY <1>2, <3>1, Parts, SMTT(60)
  <2>7. Last(gone) = s[k] BY <2>6 DEF Last
  <2>8. journal'.evidence = kept BY <2>2, <2>5, <2>7, <1>2, AfterIsCut
  <2>9. IsTail(kept, b, interval) BY <1>2, <2>6, TailIsCut
  <2>10. bytes = BytesOf(kept) BY <1>2, <2>2, <2>6, BytesAreCut
  <2> HIDE DEF gone, bytes, kept
  <2>11. range = RangeOf(kept)
    <3>1. CASE kept = <<>> BY <3>1 DEF RangeOf
    <3>2. CASE kept # <<>>
      <4>1. RangeOf(kept) = <<kept[1].sequence, b>> /\ Head(kept) = kept[1]
        BY <1>2, <2>6, <2>9, <3>2, RangeFacts
      <4>2. s # <<>> /\ RangeOf(s) = <<s[1].sequence, b>> BY <1>2, <2>6, RangeFacts
      <4>3. durableRetainedRange[2] = b BY <2>2, <4>2
      <4> QED BY <3>2, <4>1, <4>3
    <3> QED BY <3>1, <3>2
  <2>12. count = Len(kept) BY <2>2, <2>6
  <2>13. nextSequence' = b + 1 /\ committedEvidenceBoundary' = b /\ interval' = interval /\ b \in Nat
    BY <1>2, <2>4 DEF sequenceVars
  <2>14. volatileEvidence' = <<>> /\ persistenceMode' = "INDEXEDDB" BY <2>1, <2>2, <2>4
  <2> HIDE DEF range, count, b
  <2>15. /\ durableRetentionEntries' = kept /\ durableRetainedCount' = Len(kept)
         /\ durableBytes' = BytesOf(kept) /\ durableRetainedRange' = RangeOf(kept)
    BY <2>5, <2>10, <2>11, <2>12
  <2>16. nextSequence = b + 1 BY <1>2 DEF b
  <2>17. /\ journal'.evidence = kept /\ journal'.interval = interval'
         /\ journal'.retainedCount = Len(kept) /\ journal'.accountedBytes = BytesOf(kept)
         /\ journal'.retainedRange = RangeOf(kept)
         /\ journal'.committedEvidenceBoundary = b /\ journal'.nextSequence = b + 1
    BY <2>5, <2>8, <2>10, <2>11, <2>12, <2>13, <2>16
  <2>18. kept \in Seq(EvidenceType) /\ b \in Nat /\ IsTail(kept, b, interval')
    BY <2>6, <2>9, <2>13
  <2> QED BY <1>c, <2>13, <2>14, <2>15, <2>17, <2>18
<1>5. CASE \/ memoryAccepts
           \/ \E read \in BOOLEAN : fallBackAfterCommit(read) \/ fallBackAfterTrim(read)
  <2>1. /\ BatchDone
        /\ \/ persistenceMode' = persistenceMode /\ UNCHANGED durableVars
           \/ /\ durableRetentionEntries' = <<>> /\ durableRetainedCount' = 0
              /\ durableBytes' = 0 /\ durableRetainedRange' = NoRange
              /\ persistenceMode' = "MEMORY"
    BY <1>0, <1>5, MemoryHolds
  <2>2. UNCHANGED <<phase, journal, interval>>
    BY <2>1 DEF BatchDone, UnchangedByBatch, closeVars
  <2>3. nextSequence' = committedEvidenceBoundary' + 1
    <3>1. UNCHANGED sequenceVars \/ Accept(evidence)
      BY <1>5 DEF memoryAccepts, fallBackAfterCommit, fallBackAfterTrim
    <3>2. CASE UNCHANGED sequenceVars BY <1>2, <3>2 DEF sequenceVars
    <3>3. CASE Accept(evidence)
      <4>1. Len(evidence) \in Nat /\ nextSequence \in Nat
        BY <1>0, EvidenceOfBatch DEF QueuesTypeOK, CountersTypeOK
      <4>2. /\ nextSequence' = nextSequence + Len(evidence)
            /\ committedEvidenceBoundary' = nextSequence + Len(evidence) - 1
        BY <3>3 DEF Accept
      <4> HIDE DEF evidence
      <4> QED BY <4>1, <4>2
    <3> QED BY <3>1, <3>2, <3>3
  <2>4. /\ durableRetentionEntries' = <<>> /\ durableRetainedCount' = 0
        /\ durableBytes' = 0 /\ durableRetainedRange' = NoRange /\ persistenceMode' = "MEMORY"
    <3>1. CASE memoryAccepts BY <1>1, <3>1 DEF ModeHoldsEvidence, durableVars, memoryAccepts
    <3>2. CASE ~memoryAccepts
      BY <1>5, <3>2 DEF detachDurablePrefix, fallBackAfterCommit, fallBackAfterTrim
    <3> QED BY <3>1, <3>2
  <2> QED BY <1>b, <2>2, <2>3, <2>4
<1>6. CASE clearSucceeds
  <2>1. /\ journal' = clearJournalRecords /\ interval' = interval + 1
        /\ durableRetentionEntries' = <<>> /\ durableRetainedCount' = 0
        /\ durableBytes' = 0 /\ durableRetainedRange' = NoRange /\ volatileEvidence' = <<>>
        /\ UNCHANGED sequenceVars
    BY <1>6 DEF clearSucceeds
  <2>2. /\ journal'.evidence = <<>> /\ journal'.interval = interval + 1
        /\ journal'.retainedCount = 0 /\ journal'.accountedBytes = 0
        /\ journal'.retainedRange = NoRange
        /\ journal'.committedEvidenceBoundary = committedEvidenceBoundary
        /\ journal'.nextSequence = nextSequence
    BY <2>1 DEF clearJournalRecords, createControl
  <2>3. /\ <<>> \in Seq(EvidenceType) /\ Len(<<>>) = 0 /\ BytesOf(<<>>) = 0
        /\ RangeOf(<<>>) = NoRange /\ IsTail(<<>>, committedEvidenceBoundary, interval')
    BY <1>2, NoBytes DEF RangeOf, IsTail
  <2>4. committedEvidenceBoundary' = committedEvidenceBoundary /\ nextSequence' = nextSequence
    BY <2>1 DEF sequenceVars
  <2> QED BY <1>2, <1>c, <2>1, <2>2, <2>3, <2>4
<1>7. CASE closeEnds
  <2>1. /\ phase' = "CLOSED" /\ journal' \in {NoJournal, journal}
        /\ UNCHANGED <<interval, persistenceMode, durableVars, sequenceVars, volatileEvidence>>
    BY <1>7 DEF closeEnds, UnchangedByClose, retainedVars
  <2>2. DurableExact' BY <1>1, <2>1 DEF DurableExact, durableVars, sequenceVars
  <2>3. validateJournalRecords(NoJournal)
    BY NoBytes DEF validateJournalRecords, NoJournal, RangeOf
  <2>4. validateJournalRecords(journal') BY <1>1, <2>1, <2>3
  <2>5. ModeHoldsEvidence' BY <1>1, <2>1 DEF ModeHoldsEvidence, durableVars
  <2> QED BY <2>1, <2>2, <2>4, <2>5 DEF Goal, JournalHoldsEvidence, JournalIsLoadable
<1>8. ASSUME NEW n \in 0..MaxCaptured, takeBatch(n) PROVE Goal
  BY <1>a, <1>8 DEF takeBatch, closeVars, retainedVars
<1>9. CASE \/ \E id \in EventIds, b \in Sizes : offer(id, b)
           \/ \E b \in Sizes, dim \in Dimensions : refuseUnretainable(b, dim)
  <2>1. TakesOrdinal BY <1>0, <1>9, OfferedTypes
  <2>2. UNCHANGED <<phase, journal, interval, persistenceMode, durableVars, volatileEvidence, sequenceVars>>
    BY <2>1 DEF TakesOrdinal, historyVars, closeVars, journalVars, retainedVars
  <2> QED BY <1>a, <2>2
<1>10. CASE \/ startProcessing \/ settleLeadingGapBarrier \/ journalCommitFails \/ journalTrimFails
            \/ finishProcessing
  BY <1>a, <1>10 DEF startProcessing, settleLeadingGapBarrier, journalCommitFails,
     journalTrimFails, finishProcessing, UnchangedByBatch, historyVars, closeVars, journalVars,
     retainedVars
<1>11. CASE \/ clear \/ clearBegins \/ clearFails \/ clearCleanup
            \/ close \/ closeAfterClear \/ closeBegins \/ UNCHANGED vars
  BY <1>a, <1>11 DEF clear, clearBegins, clearFails, clearCleanup, close, closeAfterClear,
     closeBegins, UnchangedByClose, vars, historyVars, closeVars, journalVars, retainedVars
<1> QED BY <1>3, <1>4, <1>5, <1>6, <1>7, <1>8, <1>9, <1>10, <1>11 DEF Next

\* The invariant holds at the start.
LEMMA JournalInit == Init => JournalInv
<1> SUFFICES ASSUME Init PROVE JournalInv OBVIOUS
<1>1. LifecycleTypeOK
  <2>1. /\ phase = "RUNNING" /\ closing = FALSE /\ closeStage = "none" /\ clearing = "no"
        /\ clearInProgress = FALSE /\ lastClearResult = FALSE
    BY DEF Init
  <2>2. /\ idleWaiters = {} /\ scheduled = FALSE /\ processing = "no"
        /\ persistenceMode = "INDEXEDDB" /\ attempt = 0
    BY DEF Init
  <2>3. /\ phase \in {"RUNNING", "CLOSED"} /\ closing \in BOOLEAN
        /\ closeStage \in {"none", "afterClear", "waiting", "journal", "done"}
        /\ clearing \in {"no", "waiting", "journal", "settled"}
        /\ clearInProgress \in BOOLEAN /\ lastClearResult \in BOOLEAN
    BY <2>1, Zenon
  <2>4. /\ idleWaiters \subseteq {"clear", "close"} /\ scheduled \in BOOLEAN
        /\ processing \in {"no", "loop", "commit", "snapshot", "trim", "trimSnapshot"}
        /\ persistenceMode \in {"INDEXEDDB", "MEMORY"}
    BY <2>2, Zenon
  <2>5. attempt \in 0..3 BY <2>2
  <2> QED BY <2>3, <2>4, <2>5, Zenon DEF LifecycleTypeOK
<1>2. QueuesTypeOK
  <2>1. journal.evidence = <<>> BY DEF Init, NoJournal
  <2>2. /\ pending = <<>> /\ postClearPending = <<>> /\ batch = <<>> /\ retainedEventIds = {}
        /\ durableRetentionEntries = <<>> /\ volatileEvidence = <<>>
    BY DEF Init
  <2>3. <<>> \in Seq(EntryType) /\ <<>> \in Seq(CandidateType) /\ <<>> \in Seq(EvidenceType)
    <3> HIDE DEF EntryType, CandidateType, EvidenceType
    <3> QED OBVIOUS
  <2> HIDE DEF EntryType, CandidateType, EvidenceType
  <2> QED BY <2>1, <2>2, <2>3 DEF QueuesTypeOK
<1>3. CountersTypeOK BY DEF Init, CountersTypeOK, NoGap, GapType, NoRange
<1>4. StagesAgree BY DEF Init, StagesAgree
<1>5. DurableExact BY NoBytes DEF Init, DurableExact, IsTail, RangeOf
<1>6. JournalHoldsEvidence
  <2>1. /\ journal.evidence = <<>> /\ journal.interval = 1 /\ journal.nextSequence = 1
        /\ journal.committedEvidenceBoundary = 0 /\ journal.retainedCount = 0
        /\ journal.accountedBytes = 0 /\ journal.retainedRange = NoRange
    BY DEF Init, NoJournal
  <2>2. validateJournalRecords(journal) BY <2>1, NoBytes DEF validateJournalRecords, RangeOf
  <2>3. ModeHoldsEvidence BY <2>1 DEF Init, ModeHoldsEvidence
  <2> QED BY <2>1, <2>2, <2>3 DEF Init, JournalHoldsEvidence, JournalIsLoadable
<1> QED BY <1>1, <1>2, <1>3, <1>4, <1>5, <1>6 DEF JournalInv, TypeOK

\* Every step keeps the invariant.
LEMMA JournalInvStep == JournalInv /\ [Next]_vars => JournalInv'
<1> SUFFICES ASSUME JournalInv, [Next]_vars PROVE JournalInv' OBVIOUS
<1>1. LifecycleTypeOK /\ QueuesTypeOK /\ CountersTypeOK /\ StagesAgree /\ TypeOK
  BY DEF JournalInv, TypeOK
<1>2. TypeOK' BY <1>1, LifecycleStep, QueuesStep, CountersStep DEF TypeOK
<1>3. StagesAgree' BY <1>1, StagesStep
<1> QED BY <1>2, <1>3, JournalStep DEF JournalInv

\* Every reachable state has the shape the properties are stated over.
THEOREM TypeCorrect == Spec => []TypeOK
<1>1. JournalInv => TypeOK BY DEF JournalInv
<1> QED BY <1>1, JournalInit, JournalInvStep, PTL DEF Spec

\* Wherever the panel goes away, between two transactions or at any await, it
\* leaves a journal that a startup loads, and while the journal is in use it
\* holds exactly what the coordinator takes it to hold: over batches, retention
\* transactions, failed attempts, the fallback, Clear in both modes, and Close.
THEOREM JournalHoldsEvidenceHolds == Spec => []JournalHoldsEvidence
<1>1. JournalInv => JournalHoldsEvidence BY DEF JournalInv
<1> QED BY <1>1, JournalInit, JournalInvStep, PTL DEF Spec
-----------------------------------------------------------------------------
(* Nothing is lost.                                                        *)
(*                                                                         *)
(* The invariant: the entries of the batch and the queues stand, one after *)
(* the other, for exactly the ordinals that are not decided; what is       *)
(* charged to admission and the boundary agree with them, also while an    *)
(* accepted batch waits for its retention advance; and what is retained,   *)
(* in whichever part, is measured exactly and ends at the boundary.        *)

NothingBehindTheClear ==
  ~clearInProgress \/ clearing = "settled" => postClearPending = <<>>

\* The batch is Evidence already, but its receipts are open.
Advanced == processing \in {"trim", "trimSnapshot"}
Unsettled == IF Advanced THEN Len(batch) ELSE 0
Released == IF Advanced THEN BytesOf(batch) ELSE 0

Queued == batch \o pending \o postClearPending

\* Exactly the first d ordinals are settled, and the gaps are among them.
Decided(d) ==
  /\ \A o \in 1 .. d : receipt[o] # "open"
  /\ \A o \in d + 1 .. captured : receipt[o] = "open"
  /\ firstGap.captureOrdinal <= d /\ latestGap.captureOrdinal <= d

EntriesTile == \E d \in Nat : Tiles(Queued, d, captured) /\ Decided(d)

Accepted == {o \in DOMAIN receipt : receipt[o] = "BECAME_EVIDENCE"}

CountersAgree ==
  /\ awaitingBytes = CandidateBytes(Queued) - Released
  /\ committedEvidenceBoundary = Cardinality(Accepted) + Unsettled

\* No identity is retained twice, or about to be.
Identities ==
  /\ DistinctIds(Retained) /\ DistinctIds(batch)
  /\ ~Advanced => IdsOf(batch) \cap IdsOf(Retained) = {}

\* What is retained is in the order of capture and before what waits.
RetainedInOrder ==
  /\ InOrder(Retained)
  /\ \A d \in 0 .. captured, i \in DOMAIN Retained :
       Decided(d) => Retained[i].ordinal <= d + Unsettled

RetainedExact ==
  phase = "RUNNING" =>
    /\ retainedCount = Len(Retained) /\ retainedBytes = BytesOf(Retained)
    /\ retainedRange = RangeOf(Retained) /\ retainedEventIds = IdsOf(Retained)
    /\ processing \in {"no", "loop"} => ~OverHighWater(limits, retainedCount, retainedBytes)

LosslessInv ==
  /\ JournalInv /\ NothingBehindTheClear /\ EntriesTile /\ CountersAgree
  /\ IsTail(Retained, committedEvidenceBoundary, interval)
  /\ Identities /\ RetainedInOrder /\ RetainedExact /\ GapPlacement

\* The bytes of the candidates in a queue add up over its parts.
LEMMA CandidateSums ==
  ASSUME NEW q \in Seq(EntryType), NEW r \in Seq(EntryType)
  PROVE  /\ CandidateBytes(q) \in Nat
         /\ CandidateBytes(q \o r) = CandidateBytes(q) + CandidateBytes(r)
<1> DEFINE byte(e) == IF IsCandidate(e) THEN e.bytes ELSE 0
           B(s) == [i \in DOMAIN s |-> byte(s[i])]
<1>1. /\ CandidateBytes(q) = Total(B(q)) /\ CandidateBytes(r) = Total(B(r))
      /\ CandidateBytes(q \o r) = Total(B(q \o r))
  BY DEF CandidateBytes
<1>2. \A e \in EntryType : byte(e) \in Nat BY EntryFacts
<1> HIDE DEF byte
<1>3. B(q) \in Seq(Nat) /\ B(r) \in Seq(Nat) BY <1>2
<1>4. B(q \o r) = B(q) \o B(r) OBVIOUS
<1> HIDE DEF B
<1> QED BY <1>1, <1>3, <1>4, TotalFacts

\* A single entry counts when it is a candidate.
LEMMA OneEntry ==
  ASSUME NEW e \in EntryType
  PROVE  /\ <<e>> \in Seq(EntryType)
         /\ CandidateBytes(<<e>>) = IF IsCandidate(e) THEN e.bytes ELSE 0
<1>1. ASSUME NEW n \in Nat PROVE Total(<<n>>) = n
  <2> DEFINE s == <<n>>
  <2>1. s \in Seq(Nat) /\ Len(s) = 1 /\ s[1] = n OBVIOUS
  <2> HIDE DEF s
  <2>2. /\ Sums(s)[0] = 0 /\ Total(s) = Sums(s)[1]
        /\ \A i \in 1 .. 1 : Sums(s)[i] = Sums(s)[i - 1] + s[i]
    BY <2>1, SumsFacts
  <2>3. Sums(s)[1] = Sums(s)[0] + n BY <2>1, <2>2
  <2> QED BY <2>2, <2>3 DEF s
<1> DEFINE byte == IF IsCandidate(e) THEN e.bytes ELSE 0
<1>2. CandidateBytes(<<e>>) = Total(<<byte>>) BY DEF CandidateBytes
<1>3. byte \in Nat BY EntryFacts
<1> QED BY <1>1, <1>2, <1>3

\* In a batch every entry counts.
LEMMA BatchSums ==
  ASSUME NEW q \in Seq(CandidateType) PROVE CandidateBytes(q) = BytesOf(q)
<1>1. ASSUME NEW i \in DOMAIN q PROVE IsCandidate(q[i])
  <2>1. q[i] \in CandidateType OBVIOUS
  <2> QED BY <2>1 DEF CandidateType, IsCandidate
<1>2. [i \in DOMAIN q |-> IF IsCandidate(q[i]) THEN q[i].bytes ELSE 0]
        = [i \in DOMAIN q |-> q[i].bytes]
  BY <1>1
<1> QED BY <1>2 DEF CandidateBytes, BytesOf

\* What a prefix trim removes meets the goal, or is everything.
LEMMA TrimMeetsTarget ==
  ASSUME NEW s, NEW count, NEW total, NEW goal, NEW k,
         IsPrefixTrim(s, count, total, goal, k)
  PROVE  \/ count - k <= goal.count /\ total - BytesOf(SubSeq(s, 1, k)) <= goal.bytes
         \/ k = Len(s)
PROOF BY DEF IsPrefixTrim

\* The entries that wait for a decision, in the batch, in the queue and behind a
\* pending Clear, as one sequence.
LEMMA QueuedTypes ==
  ASSUME QueuesTypeOK
  PROVE  /\ batch \in Seq(EntryType) /\ pending \in Seq(EntryType)
         /\ postClearPending \in Seq(EntryType) /\ Queued \in Seq(EntryType)
<1>1. batch \in Seq(EntryType) /\ pending \in Seq(EntryType) /\ postClearPending \in Seq(EntryType)
  BY DEF QueuesTypeOK, EntryType
<1> QED BY <1>1 DEF Queued

\* What is offered goes to the end of all that waits: behind a pending Clear
\* there is a queue of its own, and without one that queue is empty.
LEMMA QueuedAtTheEnd ==
  ASSUME ~OfferBeforeCleanup, TypeOK, NothingBehindTheClear, MayOffer,
         NEW p \in Seq(EntryType), NEW s \in Seq(EntryType), NEW r \in Seq(EntryType),
         clearQueueForEntry = p \o s, Queue(p \o r), UNCHANGED batch
  PROVE  \E x \in Seq(EntryType) : Queued = x \o s /\ Queued' = x \o r
<1>1. batch \in Seq(EntryType) /\ pending \in Seq(EntryType) /\ postClearPending \in Seq(EntryType)
  BY QueuedTypes DEF TypeOK
<1>2. CASE clearInProgress
  <2>1. /\ postClearPending = p \o s /\ postClearPending' = p \o r /\ pending' = pending
        /\ batch' = batch
    BY <1>2 DEF clearQueueForEntry, Queue
  <2> DEFINE y == batch \o pending
  <2>2. y \in Seq(EntryType) BY <1>1
  <2>3. Queued = y \o (p \o s) /\ Queued' = y \o (p \o r) BY <2>1 DEF Queued
  <2> HIDE DEF y
  <2>4. Queued = (y \o p) \o s /\ Queued' = (y \o p) \o r /\ y \o p \in Seq(EntryType)
    BY <2>2, <2>3, EntriesAssociate
  <2> QED BY <2>4
<1>3. CASE ~clearInProgress
  <2>1. /\ pending = p \o s /\ pending' = p \o r /\ postClearPending = <<>> /\ postClearPending' = <<>>
        /\ batch' = batch
    BY <1>3 DEF clearQueueForEntry, Queue, NothingBehindTheClear
  <2> DEFINE y == batch
  <2>2. y \in Seq(EntryType) BY <1>1
  <2>3. Queued = (y \o (p \o s)) \o <<>> /\ Queued' = (y \o (p \o r)) \o <<>> BY <2>1 DEF Queued
  <2> HIDE DEF y
  <2>4. /\ y \o (p \o s) \in Seq(EntryType) /\ y \o (p \o s) = (y \o p) \o s
        /\ y \o (p \o r) \in Seq(EntryType) /\ y \o (p \o r) = (y \o p) \o r
        /\ y \o p \in Seq(EntryType)
    BY <2>2, EntriesAssociate
  <2>5. Queued = (y \o p) \o s /\ Queued' = (y \o p) \o r BY <2>3, <2>4, EmptyConcat
  <2> QED BY <2>4, <2>5
<1> QED BY <1>2, <1>3

\* An admitted candidate is added to what waits.
LEMMA OfferEffect ==
  ASSUME ~OfferBeforeCleanup, TypeOK, NothingBehindTheClear,
         NEW id \in EventIds, NEW b \in Sizes, offer(id, b)
  PROVE  /\ Candidate(captured + 1, id, b) \in CandidateType
         /\ Queued' = Queued \o <<Candidate(captured + 1, id, b)>>
<1> DEFINE e == Candidate(captured + 1, id, b)
           queue == clearQueueForEntry
<1>1. e \in CandidateType /\ e \in EntryType
  BY DEF TypeOK, CountersTypeOK, Candidate, CandidateType, EntryType
<1>2. queue \in Seq(EntryType) /\ Queued \in Seq(EntryType)
  BY QueuedTypes DEF TypeOK, clearQueueForEntry
<1>3. MayOffer /\ Queue(Append(queue, e)) /\ UNCHANGED batch BY DEF offer, TakesOrdinal
<1> HIDE DEF e
<1>4. /\ Append(queue, e) = queue \o <<e>> /\ queue = queue \o <<>>
      /\ <<e>> \in Seq(EntryType) /\ <<>> \in Seq(EntryType)
  BY <1>1, <1>2, AppendFacts, EmptyConcat
<1>5. PICK x \in Seq(EntryType) : Queued = x \o <<>> /\ Queued' = x \o <<e>>
  <2>1. Queue(queue \o <<e>>) BY <1>3, <1>4
  <2> QED BY <1>2, <1>3, <1>4, <2>1, QueuedAtTheEnd, ZenonT(60)
<1>6. Queued' = Queued \o <<e>> BY <1>5, EmptyConcat
<1> QED BY <1>1, <1>6 DEF e

\* A refusal adds a barrier to what waits, or extends the one at its end.
LEMMA RefuseEffect ==
  ASSUME ~OfferBeforeCleanup, TypeOK, NothingBehindTheClear,
         NEW b \in Sizes, NEW dim \in Dimensions, refuseUnretainable(b, dim)
  PROVE  LET o == captured + 1
             g == GapBarrier(o, o, 1, dim)
         IN  /\ g \in BarrierType
             /\ \/ Queued' = Queued \o <<g>>
                \/ \E x \in Seq(EntryType), e \in BarrierType :
                     Queued = x \o <<e>> /\ Queued' = x \o <<Extended(e, o)>>
<1> DEFINE o == captured + 1
           queue == clearQueueForEntry
           g == GapBarrier(o, o, 1, dim)
           merges == queue # <<>> /\ IsBarrier(Last(queue)) /\ Last(queue).dimension = dim
           q == IF merges THEN [queue EXCEPT ![Len(queue)] = Extended(@, o)] ELSE Append(queue, g)
<1>1. o \in Nat /\ g \in BarrierType /\ g \in EntryType
  BY DEF TypeOK, CountersTypeOK, GapBarrier, BarrierType, EntryType
<1>2. queue \in Seq(EntryType) /\ Queued \in Seq(EntryType)
  BY QueuedTypes DEF TypeOK, clearQueueForEntry
<1>3. MayOffer /\ Queue(q) /\ UNCHANGED batch BY DEF refuseUnretainable, TakesOrdinal
<1> HIDE DEF g
<1>4. CASE merges
  <2> DEFINE e == queue[Len(queue)]
             f == Extended(e, o)
  <2>1. IsBarrier(e) /\ Queue([queue EXCEPT ![Len(queue)] = f]) BY <1>3, <1>4 DEF Last
  <2>0. queue # <<>> BY <1>4
  <2>2. e \in BarrierType
    <3>1. e \in EntryType BY <1>2, <2>0
    <3> HIDE DEF e
    <3> QED BY <2>1, <3>1, EntryFacts
  <2>3. f \in EntryType BY <1>1, <2>2, ExtendedBarrier DEF EntryType
  <2> HIDE DEF queue, f
  <2>4. PICK p \in Seq(EntryType) : queue = p \o <<e>> /\ [queue EXCEPT ![Len(queue)] = f] = p \o <<f>>
    BY <1>2, <2>0, <2>3, FrontAndLast, Zenon
  <2>5. <<e>> \in Seq(EntryType) /\ <<f>> \in Seq(EntryType) BY <2>2, <2>3 DEF EntryType
  <2>6. clearQueueForEntry = p \o <<e>> /\ Queue(p \o <<f>>) BY <2>1, <2>4 DEF queue
  <2>7. PICK x \in Seq(EntryType) : Queued = x \o <<e>> /\ Queued' = x \o <<f>>
    BY <1>3, <2>5, <2>6, QueuedAtTheEnd
  <2> QED BY <1>1, <2>2, <2>7 DEF f, g
<1>5. CASE ~merges
  <2>1. Queue(Append(queue, g)) BY <1>3, <1>5
  <2>2. /\ Append(queue, g) = queue \o <<g>> /\ queue = queue \o <<>>
        /\ <<g>> \in Seq(EntryType) /\ <<>> \in Seq(EntryType)
    BY <1>1, <1>2, AppendFacts, EmptyConcat
  <2>3. Queue(queue \o <<g>>) BY <2>1, <2>2
  <2>4. PICK x \in Seq(EntryType) : Queued = x \o <<>> /\ Queued' = x \o <<g>>
    BY <1>2, <1>3, <2>2, <2>3, QueuedAtTheEnd, ZenonT(60)
  <2>5. Queued' = Queued \o <<g>> BY <2>4, EmptyConcat
  <2> QED BY <1>1, <2>5 DEF g
<1> QED BY <1>4, <1>5

\* The leading barrier is removed from what waits.
LEMMA SettleEffect ==
  ASSUME TypeOK, StagesAgree, settleLeadingGapBarrier
  PROVE  /\ Head(pending) \in BarrierType
         /\ Queued' \in Seq(EntryType)
         /\ Queued = <<Head(pending)>> \o Queued'
<1> DEFINE e == Head(pending)
<1>1. batch \in Seq(EntryType) /\ pending \in Seq(EntryType) /\ postClearPending \in Seq(EntryType)
  BY QueuedTypes DEF TypeOK
<1>2. /\ pending # <<>> /\ IsBarrier(e) /\ pending' = Tail(pending) /\ batch = <<>>
      /\ UNCHANGED <<postClearPending, batch>>
  BY DEF settleLeadingGapBarrier, StagesAgree
<1>3. e \in EntryType /\ pending' \in Seq(EntryType) /\ pending = <<e>> \o pending'
  BY <1>1, <1>2, HeadAndTail
<1>4. e \in BarrierType /\ <<e>> \in Seq(EntryType) BY <1>2, <1>3, EntryFacts
<1>5. Queued = pending \o postClearPending /\ Queued' = pending' \o postClearPending
  BY <1>1, <1>2, <1>3, EmptyConcat DEF Queued
<1> HIDE DEF e
<1>6. Queued = <<e>> \o Queued' /\ Queued' \in Seq(EntryType)
  BY <1>1, <1>3, <1>4, <1>5, EntriesAssociate
<1> QED BY <1>4, <1>6 DEF e

\* Taking a batch moves entries, and puts a barrier in the place of a
\* candidate that repeats an identity.
LEMMA TakeEffect ==
  ASSUME TypeOK, StagesAgree, NEW n \in 0..MaxCaptured, takeBatch(n)
  PROVE  \/ /\ Queued' = Queued
            /\ UNCHANGED awaitingBytes
         \/ \E x \in Seq(EntryType), y \in Seq(EntryType), d \in CandidateType :
              /\ Queued = x \o (<<d>> \o y)
              /\ Queued' = x \o (<<GapBarrier(d.ordinal, d.ordinal, 1, "EVENT_IDENTITY")>> \o y)
              /\ awaitingBytes' = awaitingBytes - d.bytes
<1>1. /\ QueuesTypeOK /\ pending \in Seq(EntryType) /\ postClearPending \in Seq(EntryType)
  BY QueuedTypes DEF TypeOK
<1> DEFINE x == SubSeq(pending, 1, n)
           rest == SubSeq(pending, n + 1, Len(pending))
<1>2. /\ batch = <<>> /\ batch' = x /\ UNCHANGED postClearPending
      /\ n \in 0 .. Len(pending)
  BY <1>1, BoundsAssumption DEF takeBatch, StagesAgree
<1>3. x \in Seq(EntryType) /\ rest \in Seq(EntryType) /\ pending = x \o rest
  BY <1>1, <1>2, Parts
<1>4. Queued = (x \o rest) \o postClearPending /\ Queued' = (x \o pending') \o postClearPending
  BY <1>1, <1>2, <1>3, EmptyConcat DEF Queued
<1>5. CASE Reaches(n + 1)
  <2> DEFINE d == pending[n + 1]
             g == GapBarrier(d.ordinal, d.ordinal, 1, "EVENT_IDENTITY")
             tail == SubSeq(pending, n + 2, Len(pending))
  <2>0. n + 1 <= Len(pending) /\ IsCandidate(d) BY <1>5, <1>2 DEF Reaches
  <2>1. d \in CandidateType BY <2>0, EntryFacts, <1>1, <1>2
  <2>2. g \in EntryType /\ d \in EntryType
    BY <2>1 DEF CandidateType, GapBarrier, BarrierType, Dimensions, EntryType
  <2>3. /\ pending' = <<g>> \o tail
        /\ awaitingBytes' = awaitingBytes - d.bytes
    BY <1>5 DEF takeBatch, convertDuplicateIdentityToGap
  <2>4. tail \in Seq(EntryType) /\ rest = <<d>> \o tail
    <3>1. /\ Len(rest) = Len(pending) - n
          /\ \A i \in 1 .. Len(pending) - n : rest[i] = pending[n + i]
      BY <1>1, <1>2, Parts
    <3>2. /\ tail \in Seq(EntryType) /\ Len(tail) = Len(pending) - (n + 1)
          /\ \A i \in 1 .. Len(pending) - (n + 1) : tail[i] = pending[(n + 1) + i]
      <4>1. n + 1 \in 0 .. Len(pending) /\ (n + 1) + 1 = n + 2 BY <1>1, <1>2, <2>0
      <4> QED BY <1>1, <4>1, Parts, SMTT(60)
    <3> DEFINE c == <<d>> \o tail
    <3> HIDE DEF tail, rest, d
    <3>3. /\ c \in Seq(EntryType) /\ Len(c) = Len(tail) + 1 /\ c[1] = d
          /\ \A i \in 1 .. Len(tail) : c[i + 1] = tail[i]
      BY <2>2, <3>2
    <3> HIDE DEF c
    <3>4. Len(c) = Len(rest) BY <3>1, <3>2, <3>3, <1>1, <1>2
    <3>5. ASSUME NEW i \in 1 .. Len(rest) PROVE c[i] = rest[i]
      <4>1. CASE i = 1 BY <1>1, <1>2, <3>1, <3>3, <4>1 DEF d
      <4>2. CASE i # 1
        <5>1. i - 1 \in 1 .. Len(tail) /\ (i - 1) + 1 = i /\ (n + 1) + (i - 1) = n + i
          BY <1>1, <1>2, <3>1, <3>2, <4>2
        <5>2. c[i] = tail[i - 1] /\ tail[i - 1] = pending[(n + 1) + (i - 1)]
          <6>1. c[(i - 1) + 1] = tail[i - 1] BY <3>3, <5>1
          <6>2. i - 1 \in 1 .. Len(pending) - (n + 1) BY <3>2, <5>1
          <6> QED BY <3>2, <5>1, <6>1, <6>2
        <5>3. rest[i] = pending[n + i] BY <3>1
        <5> QED BY <5>1, <5>2, <5>3
      <4> QED BY <4>1, <4>2
    <3>6. c = rest BY <1>3, <3>3, <3>4, <3>5
    <3> QED BY <3>2, <3>6 DEF c
  <2> HIDE DEF x, rest, tail, d, g
  <2>5. /\ <<d>> \in Seq(EntryType) /\ <<g>> \in Seq(EntryType)
        /\ <<d>> \o tail \in Seq(EntryType) /\ <<g>> \o tail \in Seq(EntryType)
        /\ tail \o postClearPending \in Seq(EntryType)
    BY <1>1, <2>2, <2>4
  <2> DEFINE post == postClearPending
  <2>6. Queued = x \o (<<d>> \o (tail \o post))
    <3>1. (x \o (<<d>> \o tail)) \o post = x \o (<<d>> \o (tail \o post))
      BY <1>1, <1>3, <2>4, <2>5, EntriesRegroup, SMTT(60)
    <3> QED BY <1>4, <2>4, <3>1
  <2>7. Queued' = x \o (<<g>> \o (tail \o post))
    <3>1. (x \o (<<g>> \o tail)) \o post = x \o (<<g>> \o (tail \o post))
      BY <1>1, <1>3, <2>4, <2>5, EntriesRegroup, SMTT(60)
    <3> QED BY <1>4, <2>3, <3>1
  <2> QED BY <1>3, <2>1, <2>3, <2>5, <2>6, <2>7 DEF g
<1>6. CASE ~(Reaches(n + 1)) BY <1>4, <1>6 DEF takeBatch
<1> QED BY <1>5, <1>6

\* A Clear that ends puts what waited behind it at the end of the queue.
LEMMA RejoinEffect ==
  ASSUME TypeOK, clearSucceeds \/ clearFails PROVE Queued' = Queued
<1>1. batch \in Seq(EntryType) /\ pending \in Seq(EntryType) /\ postClearPending \in Seq(EntryType)
  BY QueuedTypes DEF TypeOK
<1>2. /\ pending' = pending \o postClearPending /\ postClearPending' = <<>> /\ batch' = batch
  BY DEF clearSucceeds, clearFails, rejoinPostClearQueue
<1>3. Queued' = (batch \o (pending \o postClearPending)) \o <<>> BY <1>2 DEF Queued
<1>4. batch \o (pending \o postClearPending) \in Seq(EntryType) BY <1>1
<1> QED BY <1>1, <1>3, <1>4, EntriesAssociate, EmptyConcat, SMTT(60) DEF Queued

\* A batch that is settled no longer waits.
LEMMA ReleaseEffect ==
  ASSUME TypeOK, batch' = <<>>, UNCHANGED queueVars
  PROVE  Queued' \in Seq(EntryType) /\ Queued = batch \o Queued'
<1>1. batch \in Seq(EntryType) /\ pending \in Seq(EntryType) /\ postClearPending \in Seq(EntryType)
  BY QueuedTypes DEF TypeOK
<1>2. UNCHANGED <<pending, postClearPending>> BY DEF queueVars
<1>3. Queued' = pending \o postClearPending BY <1>1, <1>2, EmptyConcat DEF Queued
<1>4. (batch \o pending) \o postClearPending = batch \o (pending \o postClearPending)
  BY <1>1, EntriesAssociate
<1>5. pending \o postClearPending \in Seq(EntryType)
  <2> HIDE DEF EntryType
  <2> QED BY <1>1
<1>6. Queued = (batch \o pending) \o postClearPending BY DEF Queued
<1> QED BY <1>3, <1>4, <1>5, <1>6, Zenon

\* The batch becomes Evidence: its sequences are taken and its bytes released.
BatchAccepted ==
  /\ nextSequence' = nextSequence + Len(batch)
  /\ committedEvidenceBoundary' = committedEvidenceBoundary + Len(batch)
  /\ awaitingBytes' = awaitingBytes - BytesOf(batch)

\* The batch is settled, having become Evidence now or before its retention advance.
Releases ==
  /\ processing' = "loop" /\ batch' = <<>> /\ SettleBatch
  /\ UNCHANGED <<queueVars, captured, interval, gapVars>>
  /\ IF Advanced THEN UNCHANGED <<sequenceVars, awaitingBytes>> ELSE BatchAccepted

\* The batch became Evidence, and is settled behind its retention advance.
Advances ==
  /\ ~Advanced /\ processing' = "trim"
  /\ UNCHANGED <<batch, receipt, queueVars, captured, interval, gapVars>>
  /\ BatchAccepted

\* Evidence has the identities and bytes of the batch it is made from, and is in
\* its order.
LEMMA EvidenceIsTheBatch ==
  ASSUME QueuesTypeOK
  PROVE  /\ BytesOf(EvidenceOf(batch)) = BytesOf(batch)
         /\ IdsOf(EvidenceOf(batch)) = IdsOf(batch)
         /\ Len(EvidenceOf(batch)) = Len(batch)
         /\ \A i \in 1 .. Len(batch) : /\ EvidenceOf(batch)[i].ordinal = batch[i].ordinal
                                       /\ EvidenceOf(batch)[i].eventId = batch[i].eventId
<1> DEFINE s == EvidenceOf(batch)
<1>1. Len(batch) \in Nat /\ DOMAIN batch = 1 .. Len(batch) BY DEF QueuesTypeOK
<1>2. /\ DOMAIN s = 1 .. Len(batch) /\ Len(s) = Len(batch)
      /\ \A i \in 1 .. Len(batch) : /\ s[i].ordinal = batch[i].ordinal
                                    /\ s[i].eventId = batch[i].eventId
                                    /\ s[i].bytes = batch[i].bytes
  BY <1>1 DEF EvidenceOf
<1> HIDE DEF s
<1>3. [i \in DOMAIN s |-> s[i].bytes] = [i \in DOMAIN batch |-> batch[i].bytes] BY <1>1, <1>2
<1>4. BytesOf(s) = BytesOf(batch) BY <1>3 DEF BytesOf
<1>5. IdsOf(s) = IdsOf(batch) BY <1>1, <1>2 DEF IdsOf
<1> QED BY <1>2, <1>4, <1>5 DEF s

\* What the steps of the batch have in common.
LEMMA BatchKinds ==
  ASSUME TypeOK, DurableExact
  PROVE  /\ journalCommitSucceeds => Releases \/ Advances
         /\ journalTrimSucceeds \/ memoryAccepts => Releases
         /\ \A read \in BOOLEAN : fallBackAfterCommit(read) \/ fallBackAfterTrim(read) => Releases
<1> DEFINE evidence == EvidenceOf(batch)
<1>1. /\ BytesOf(evidence) = BytesOf(batch) /\ Len(evidence) = Len(batch)
      /\ Len(batch) \in Nat
  BY EvidenceIsTheBatch DEF TypeOK, QueuesTypeOK
<1>2. /\ committedEvidenceBoundary \in Nat
      /\ nextSequence = committedEvidenceBoundary + 1
  BY DEF TypeOK, CountersTypeOK, DurableExact
<1> HIDE DEF evidence
<1>3. ASSUME Accept(evidence) PROVE BatchAccepted BY <1>1, <1>2, <1>3 DEF Accept, BatchAccepted
<1>4. ASSUME UnchangedByBatch PROVE UNCHANGED <<queueVars, captured, interval, gapVars>>
  BY <1>4 DEF UnchangedByBatch
<1>5. ASSUME journalCommitSucceeds PROVE Releases \/ Advances
  BY <1>3, <1>4, <1>5 DEF Releases, Advances, journalCommitSucceeds, Advanced, evidence
<1>6. ASSUME journalTrimSucceeds PROVE Releases
  BY <1>4, <1>6 DEF Releases, journalTrimSucceeds, Advanced
<1>7. ASSUME memoryAccepts PROVE Releases
  BY <1>3, <1>4, <1>7 DEF Releases, memoryAccepts, BatchDone, Advanced, evidence
<1>8. ASSUME NEW read \in BOOLEAN, fallBackAfterCommit(read) PROVE Releases
  BY <1>3, <1>4, <1>8 DEF Releases, fallBackAfterCommit, BatchDone, Advanced, evidence
<1>9. ASSUME NEW read \in BOOLEAN, fallBackAfterTrim(read) PROVE Releases
  BY <1>4, <1>9 DEF Releases, fallBackAfterTrim, BatchDone, Advanced
<1> QED BY <1>5, <1>6, <1>7, <1>8, <1>9

\* There is a receipt for every ordinal handed out.
LEMMA ReceiptDomain ==
  ASSUME TypeOK
  PROVE  /\ captured \in Nat
         /\ DOMAIN receipt = 1 .. captured
         /\ \A o \in 1 .. captured : receipt[o] \in Outcomes
PROOF BY DEF TypeOK, CountersTypeOK

\* Settling the first undecided ordinals makes them the last decided ones.
LEMMA SettledRange ==
  ASSUME TypeOK, NEW d \in Nat, NEW c \in Nat, Decided(d), d <= c,
         c <= captured, NEW outcome, Settle(d + 1 .. c, outcome)
  PROVE  /\ DOMAIN receipt' = 1 .. captured
         /\ \A o \in 1 .. d : receipt'[o] = receipt[o]
         /\ \A o \in d + 1 .. c : receipt'[o] = outcome
         /\ \A o \in c + 1 .. captured : receipt'[o] = "open"
<1>1. /\ captured \in Nat
      /\ receipt' = [o \in 1 .. captured |->
                       IF o \in d + 1 .. c THEN outcome ELSE receipt[o]]
  BY ReceiptDomain DEF Settle
<1> QED BY <1>1 DEF Decided

\* The leading barrier stands for the first undecided ordinals.
LEMMA SettleOrdinals ==
  ASSUME TypeOK, StagesAgree, EntriesTile, settleLeadingGapBarrier
  PROVE  \E d \in Nat, c \in Nat :
           /\ Decided(d) /\ d < c /\ c <= captured
           /\ Head(pending).first = d + 1 /\ Head(pending).latest = c
           /\ Tiles(Queued', c, captured)
           /\ DOMAIN receipt' = 1 .. captured
           /\ \A o \in 1 .. d : receipt'[o] = receipt[o]
           /\ \A o \in d + 1 .. c : receipt'[o] = "NOT_EVIDENCE"
           /\ \A o \in c + 1 .. captured : receipt'[o] = "open"
<1> DEFINE e == Head(pending)
           z == captured
<1>1. e \in BarrierType /\ Queued' \in Seq(EntryType) /\ Queued = <<e>> \o Queued'
  BY SettleEffect
<1>2. z \in Nat BY ReceiptDomain
<1>3. PICK d \in Nat : Tiles(Queued, d, z) /\ Decided(d) BY DEF EntriesTile
<1>4. Settle(e.first .. e.latest, "NOT_EVIDENCE")
  BY DEF settleLeadingGapBarrier, settleGapBarrier, OrdinalsOf, Lowest, Highest, IsBarrier
<1> HIDE DEF e, z
<1>5. e \in EntryType /\ <<e>> \in Seq(EntryType) /\ Lowest(e) = e.first /\ Highest(e) = e.latest
  BY <1>1 DEF EntryType, Lowest, Highest, IsBarrier, BarrierType
<1>6. PICK c \in Nat : Tiles(<<e>>, d, c) /\ Tiles(Queued', c, z)
  <2>1. Tiles(<<e>> \o Queued', d, z) BY <1>1, <1>3
  <2> QED BY <1>1, <1>2, <1>5, <2>1, TilesSplit, Zenon
<1>7. Lowest(e) = d + 1 /\ Highest(e) = c /\ Lowest(e) <= Highest(e)
  BY <1>5, <1>6, TilesOne DEF Whole
<1>8. d < c /\ c <= z BY <1>7, <1>1, <1>2, <1>6, TilesCover
<1>9. Settle(d + 1 .. c, "NOT_EVIDENCE") BY <1>4, <1>5, <1>7
<1>10. /\ DOMAIN receipt' = 1 .. z
       /\ \A o \in 1 .. d : receipt'[o] = receipt[o]
       /\ \A o \in d + 1 .. c : receipt'[o] = "NOT_EVIDENCE"
       /\ \A o \in c + 1 .. z : receipt'[o] = "open"
  BY <1>3, <1>8, <1>9, SettledRange DEF z
<1> QED BY <1>3, <1>5, <1>6, <1>7, <1>8, <1>10 DEF e, z

\* The batch in flight stands for the first undecided ordinals, one each.
LEMMA ReleaseOrdinals ==
  ASSUME TypeOK, EntriesTile, Releases PROVE \E d \in Nat :
           /\ Decided(d) /\ d + Len(batch) <= captured
           /\ \A i \in 1 .. Len(batch) : batch[i].ordinal = d + i
           /\ Tiles(Queued', d + Len(batch), captured)
           /\ DOMAIN receipt' = 1 .. captured
           /\ \A o \in 1 .. d : receipt'[o] = receipt[o]
           /\ \A o \in d + 1 .. d + Len(batch) : receipt'[o] = "BECAME_EVIDENCE"
           /\ \A o \in d + Len(batch) + 1 .. captured : receipt'[o] = "open"
<1> DEFINE n == Len(batch)
           z == captured
           S == {batch[i].ordinal : i \in DOMAIN batch}
<1>1. /\ batch \in Seq(CandidateType) /\ batch \in Seq(EntryType) /\ n \in Nat
      /\ Queued' \in Seq(EntryType) /\ Queued = batch \o Queued'
  BY QueuedTypes, ReleaseEffect DEF TypeOK, QueuesTypeOK, Releases
<1>2. z \in Nat BY ReceiptDomain
<1>3. PICK d \in Nat : Tiles(Queued, d, z) /\ Decided(d) BY DEF EntriesTile
<1>4. Settle(S, "BECAME_EVIDENCE") BY DEF Releases, SettleBatch
<1>5. PICK c \in Nat : Tiles(batch, d, c) /\ Tiles(Queued', c, z)
  <2>1. Tiles(batch \o Queued', d, z) BY <1>1, <1>3
  <2> QED BY <1>1, <1>2, <2>1, TilesSplit, Zenon
<1>6. c = d + n /\ \A i \in 1 .. n : batch[i].ordinal = d + i BY <1>1, <1>5, TilesBatch
<1>7. c <= z BY <1>1, <1>2, <1>5, TilesCover
<1>8. S = d + 1 .. c
  <2>1. ASSUME NEW o \in d + 1 .. c PROVE o \in S
    <3>0. n \in Nat /\ d \in Nat /\ c = d + n BY <1>1, <1>6
    <3> HIDE DEF n
    <3>1. o - d \in 1 .. n /\ d + (o - d) = o BY <3>0
    <3>2. batch[o - d].ordinal = d + (o - d) BY <1>6, <3>1
    <3>3. o - d \in DOMAIN batch BY <1>1, <3>1 DEF n
    <3> QED BY <3>1, <3>2, <3>3
  <2>2. ASSUME NEW i \in 1 .. n PROVE batch[i].ordinal \in d + 1 .. c BY <1>1, <1>6
  <2> QED BY <2>1, <2>2
<1> HIDE DEF S, z
<1>9. /\ DOMAIN receipt' = 1 .. z
      /\ \A o \in 1 .. d : receipt'[o] = receipt[o]
      /\ \A o \in d + 1 .. c : receipt'[o] = "BECAME_EVIDENCE"
      /\ \A o \in c + 1 .. z : receipt'[o] = "open"
  BY <1>3, <1>7, SettledRange, <1>1, <1>4, <1>6, <1>8 DEF z
<1> QED BY <1>3, <1>5, <1>6, <1>7, <1>9 DEF z

\* The entries that wait stand for the undecided ordinals, whatever happens.
LEMMA EntriesStep ==
  ASSUME ~OfferBeforeCleanup, TypeOK, DurableExact, NothingBehindTheClear, StagesAgree, EntriesTile,
         [Next]_vars
  PROVE  EntriesTile'
<1> USE DEF queueVars, retainedVars, gapVars, clearVars, closeVars, journalVars, historyVars, captureVars
<1> DEFINE Goal == EntriesTile'
<1>0. captured \in Nat /\ captured + 1 \in Nat /\ Queued \in Seq(EntryType)
  BY ReceiptDomain, QueuedTypes DEF TypeOK
<1>1. PICK d \in Nat : Tiles(Queued, d, captured) /\ Decided(d) BY DEF EntriesTile
<1>2. d <= captured BY <1>0, <1>1, TilesCover
<1>3. ASSUME Tiles(Queued', d, captured + 1),
             captured' = captured + 1, receipt' = Append(receipt, "open"),
             UNCHANGED gapVars
      PROVE  Goal
  <2>1. /\ \A o \in 1 .. captured : receipt'[o] = receipt[o]
        /\ receipt'[captured + 1] = "open"
    BY <1>0, <1>3 DEF TypeOK, CountersTypeOK, Outcomes
  <2>2. captured' = captured + 1 BY <1>0, <1>3
  <2>3. \A o \in 1 .. d : receipt'[o] # "open" BY <1>0, <1>1, <1>2, <2>1 DEF Decided
  <2>4. \A o \in d + 1 .. captured' : receipt'[o] = "open"
    <3> SUFFICES ASSUME NEW o \in d + 1 .. captured' PROVE receipt'[o] = "open" OBVIOUS
    <3>1. CASE o = captured + 1 BY <2>1, <3>1
    <3>2. CASE o # captured + 1 BY <1>0, <1>1, <1>2, <2>1, <2>2, <3>2 DEF Decided
    <3> QED BY <3>1, <3>2
  <2>5. Decided(d)' BY <1>1, <1>3, <2>3, <2>4 DEF Decided
  <2> QED BY <1>3, <2>2, <2>5 DEF EntriesTile
<1>4. ASSUME Tiles(Queued', d, captured), UNCHANGED <<captured, receipt>>,
             firstGap' \in {firstGap, NoGap}, latestGap' \in {latestGap, NoGap}
      PROVE  Goal
  BY <1>4, <1>1 DEF EntriesTile, Decided, NoGap
<1> HIDE DEF Goal
<1> SUFFICES Goal BY DEF Goal
<1>5. ASSUME NEW id \in EventIds, NEW b \in Sizes, offer(id, b) PROVE Goal
  <2> DEFINE e == Candidate(captured + 1, id, b)
  <2>1. e \in CandidateType /\ e \in EntryType /\ Queued' = Queued \o <<e>>
    BY <1>5, OfferEffect DEF EntryType
  <2>2. <<e>> \in Seq(EntryType) /\ Tiles(<<e>>, captured, captured + 1)
    <3>1. Lowest(e) = captured + 1 /\ Highest(e) = captured + 1 /\ Whole(e)
      BY <1>0 DEF Candidate, Lowest, Highest, IsBarrier, Whole
    <3> HIDE DEF e
    <3> QED BY <1>0, <2>1, <3>1, TilesOne
  <2> HIDE DEF e
  <2>3. Tiles(Queued', d, captured + 1) BY <2>1, <1>0, <1>1, <2>2, TilesConcat
  <2>4. /\ captured' = captured + 1 /\ receipt' = Append(receipt, "open")
        /\ UNCHANGED gapVars
    BY <1>5 DEF offer, TakesOrdinal, historyVars
  <2> QED BY <1>3, <2>3, <2>4
<1>6. ASSUME NEW b \in Sizes, NEW dim \in Dimensions, refuseUnretainable(b, dim) PROVE Goal
  <2> DEFINE o == captured + 1
             g == GapBarrier(o, o, 1, dim)
  <2>1. /\ g \in BarrierType /\ g \in EntryType
        /\ \/ Queued' = Queued \o <<g>>
           \/ \E x \in Seq(EntryType), e \in BarrierType :
                Queued = x \o <<e>> /\ Queued' = x \o <<Extended(e, o)>>
    BY <1>6, RefuseEffect DEF EntryType
  <2>2. /\ captured' = captured + 1 /\ receipt' = Append(receipt, "open")
        /\ UNCHANGED gapVars
    BY <1>6 DEF refuseUnretainable, TakesOrdinal, historyVars
  <2>3. CASE Queued' = Queued \o <<g>>
    <3>1. <<g>> \in Seq(EntryType) /\ Tiles(<<g>>, captured, o)
      <4>1. Lowest(g) = captured + 1 /\ Highest(g) = o /\ Whole(g)
        BY <1>0 DEF GapBarrier, Lowest, Highest, IsBarrier, Whole
      <4> HIDE DEF g
      <4> QED BY <1>0, <2>1, <4>1, TilesOne
    <3> HIDE DEF g
    <3>2. Tiles(Queued \o <<g>>, d, o) BY <1>0, <1>1, <3>1, TilesConcat
    <3> QED BY <1>3, <2>2, <2>3, <3>2
  <2>4. ASSUME NEW x \in Seq(EntryType), NEW e \in BarrierType,
               Queued = x \o <<e>>, Queued' = x \o <<Extended(e, o)>>
        PROVE  Goal
    <3>1. /\ Extended(e, o) \in BarrierType /\ Lowest(Extended(e, o)) = Lowest(e)
          /\ Highest(Extended(e, o)) = o /\ IsBarrier(e) /\ e \in EntryType
          /\ Extended(e, o).count = e.count + 1
      BY <1>0, ExtendedBarrier DEF Extended, GapBarrier, IsBarrier, BarrierType, EntryType
    <3>2. <<e>> \in Seq(EntryType) BY <3>1
    <3>3. PICK c \in Nat : Tiles(x, d, c) /\ Tiles(<<e>>, c, captured)
      <4>1. Tiles(x \o <<e>>, d, captured) BY <1>1, <2>4
      <4> QED BY <1>0, <3>2, <4>1, TilesSplit, Zenon
    <3>4. Whole(e) /\ Lowest(e) = c + 1 /\ Highest(e) = captured BY <1>0, <3>1, <3>3, TilesOne
    <3> DEFINE f == Extended(e, o)
    <3>5. f \in EntryType /\ Lowest(f) = c + 1 /\ Highest(f) = o /\ Whole(f)
      BY <1>0, <3>1, <3>4 DEF Whole, EntryType
    <3>6. Queued' = x \o <<f>> BY <2>4
    <3> HIDE DEF f
    <3>7. <<f>> \in Seq(EntryType) /\ Tiles(<<f>>, c, o) BY <1>0, <3>5, TilesOne
    <3>8. Tiles(x \o <<f>>, d, o) BY <1>0, <3>3, <3>7, TilesConcat
    <3> QED BY <1>3, <2>2, <3>6, <3>8
  <2> QED BY <2>1, <2>3, <2>4
<1>7. CASE settleLeadingGapBarrier
  <2>1. PICK a \in Nat, c \in Nat :
          /\ Decided(a) /\ a < c /\ c <= captured
          /\ Head(pending).first = a + 1 /\ Head(pending).latest = c
          /\ Tiles(Queued', c, captured)
          /\ \A o \in 1 .. a : receipt'[o] = receipt[o]
          /\ \A o \in a + 1 .. c : receipt'[o] = "NOT_EVIDENCE"
          /\ \A o \in c + 1 .. captured : receipt'[o] = "open"
    BY <1>7, SettleOrdinals
  <2>2. /\ firstGap' \in {firstGap, AcceptanceGap(Head(pending).first)}
        /\ latestGap' = AcceptanceGap(Head(pending).latest)
        /\ captured' = captured
    BY <1>7 DEF settleLeadingGapBarrier, settleGapBarrier
  <2>3. firstGap'.captureOrdinal <= c /\ latestGap'.captureOrdinal <= c
    BY <2>1, <2>2 DEF AcceptanceGap, Decided, TypeOK, CountersTypeOK, GapType
  <2>4. \A o \in 1 .. c : receipt'[o] # "open"
    <3> SUFFICES ASSUME NEW o \in 1 .. c PROVE receipt'[o] # "open" OBVIOUS
    <3>1. CASE o \in 1 .. a BY <2>1, <3>1 DEF Decided
    <3>2. CASE o \in a + 1 .. c BY <2>1, <3>2
    <3> QED BY <3>1, <3>2
  <2>5. Decided(c)' BY <2>1, <2>2, <2>3, <2>4 DEF Decided
  <2> QED BY <2>1, <2>2, <2>5 DEF Goal, EntriesTile
<1>8. ASSUME NEW n \in 0..MaxCaptured, takeBatch(n) PROVE Goal
  <2>1. UNCHANGED <<captured, receipt, gapVars>> BY <1>8 DEF takeBatch
  <2>2. CASE Queued' = Queued BY <1>1, <1>4, <2>1, <2>2
  <2>3. ASSUME NEW x \in Seq(EntryType), NEW y \in Seq(EntryType), NEW e \in CandidateType,
               Queued = x \o (<<e>> \o y),
               Queued' = x \o (<<GapBarrier(e.ordinal, e.ordinal, 1, "EVENT_IDENTITY")>> \o y)
        PROVE  Goal
    <3> DEFINE g == GapBarrier(e.ordinal, e.ordinal, 1, "EVENT_IDENTITY")
    <3>1. /\ e \in EntryType /\ g \in EntryType
          /\ Lowest(g) = Lowest(e) /\ Highest(g) = Highest(e) /\ Whole(g)
      BY DEF CandidateType, GapBarrier, BarrierType, EntryType, Dimensions, Lowest, Highest,
         IsBarrier, Whole
    <3>2. Queued' = x \o (<<g>> \o y) BY <2>3
    <3> HIDE DEF g
    <3>3. /\ <<e>> \in Seq(EntryType) /\ <<g>> \in Seq(EntryType)
          /\ <<e>> \o y \in Seq(EntryType) /\ <<g>> \o y \in Seq(EntryType)
      BY <3>1
    <3>4. PICK p \in Nat : Tiles(x, d, p) /\ Tiles(<<e>> \o y, p, captured)
      <4>1. Tiles(x \o (<<e>> \o y), d, captured) BY <1>1, <2>3
      <4> QED BY <1>0, <3>3, <4>1, TilesSplit, Zenon
    <3>5. PICK r \in Nat : Tiles(<<e>>, p, r) /\ Tiles(y, r, captured)
      BY <1>0, <3>3, <3>4, TilesSplit, Zenon
    <3>6. Tiles(<<g>>, p, r) BY <3>1, <3>5, TilesOne
    <3>7. Tiles(<<g>> \o y, p, captured) BY <1>0, <3>3, <3>5, <3>6, TilesConcat, Zenon
    <3>8. Tiles(x \o (<<g>> \o y), d, captured) BY <1>0, <3>3, <3>4, <3>7, TilesConcat, Zenon
    <3> QED BY <1>4, <2>1, <3>2, <3>8
  <2> QED BY <1>8, <2>2, <2>3, TakeEffect
<1>9. CASE Releases
  <2>0. Len(batch) \in Nat BY DEF TypeOK, QueuesTypeOK
  <2>1. PICK a \in Nat, c \in Nat :
          /\ Decided(a) /\ a <= c /\ c <= captured /\ Tiles(Queued', c, captured)
          /\ \A o \in 1 .. a : receipt'[o] = receipt[o]
          /\ \A o \in a + 1 .. c : receipt'[o] = "BECAME_EVIDENCE"
          /\ \A o \in c + 1 .. captured : receipt'[o] = "open"
    <3>1. PICK a \in Nat :
            /\ Decided(a) /\ a + Len(batch) <= captured /\ Tiles(Queued', a + Len(batch), captured)
            /\ \A o \in 1 .. a : receipt'[o] = receipt[o]
            /\ \A o \in a + 1 .. a + Len(batch) : receipt'[o] = "BECAME_EVIDENCE"
            /\ \A o \in a + Len(batch) + 1 .. captured : receipt'[o] = "open"
      BY <1>9, ReleaseOrdinals
    <3>2. a + Len(batch) \in Nat /\ a <= a + Len(batch) BY <2>0
    <3> QED BY <3>1, <3>2
  <2>2. UNCHANGED <<captured, gapVars>> BY <1>9 DEF Releases
  <2>3. firstGap'.captureOrdinal <= c /\ latestGap'.captureOrdinal <= c
    BY <2>1, <2>2 DEF Decided, TypeOK, CountersTypeOK, GapType
  <2>4. \A o \in 1 .. c : receipt'[o] # "open"
    <3> SUFFICES ASSUME NEW o \in 1 .. c PROVE receipt'[o] # "open" OBVIOUS
    <3>1. CASE o \in 1 .. a BY <2>1, <3>1 DEF Decided
    <3>2. CASE o \in a + 1 .. c BY <2>1, <3>2
    <3> QED BY <3>1, <3>2
  <2>5. Decided(c)' BY <2>1, <2>2, <2>3, <2>4 DEF Decided
  <2> QED BY <2>1, <2>2, <2>5 DEF Goal, EntriesTile
<1>10. CASE clearSucceeds \/ clearFails
  <2>1. /\ UNCHANGED <<captured, receipt>>
        /\ firstGap' \in {firstGap, NoGap} /\ latestGap' \in {latestGap, NoGap}
    BY <1>10 DEF clearSucceeds, clearFails
  <2>2. Queued' = Queued BY <1>10, RejoinEffect
  <2> QED BY <1>1, <1>4, <2>1, <2>2
<1>12. CASE Advances
  <2>1. /\ UNCHANGED <<queueVars, captured, receipt, gapVars, batch>> BY <1>12 DEF Advances
  <2>2. Queued' = Queued BY <2>1 DEF Queued
  <2> QED BY <1>1, <1>4, <2>1, <2>2
<1>11. CASE \/ startProcessing \/ journalCommitFails \/ journalTrimFails
            \/ finishProcessing \/ clear \/ clearBegins \/ clearCleanup
            \/ close \/ closeAfterClear \/ closeBegins \/ closeEnds \/ UNCHANGED vars
  <2>1. UNCHANGED <<queueVars, captured, receipt, gapVars, batch>>
    BY <1>11 DEF startProcessing, journalCommitFails, journalTrimFails, finishProcessing, clear,
        clearBegins, clearCleanup, close, closeAfterClear, closeBegins, closeEnds,
        UnchangedByClose, UnchangedByBatch, vars, historyVars, captureVars
  <2>2. Queued' = Queued BY <2>1 DEF Queued
  <2> QED BY <1>1, <1>4, <2>1, <2>2
<1> QED BY <1>5, <1>6, <1>7, <1>8, <1>9, <1>10, <1>11, <1>12, BatchKinds DEF Next

\* Nothing waits behind a Clear that is not in progress, or has ended.
LEMMA ClearStep ==
  ASSUME ~OfferBeforeCleanup, NothingBehindTheClear, [Next]_vars PROVE NothingBehindTheClear'
<1> USE DEF queueVars, clearVars, closeVars
<1>1. ASSUME UNCHANGED <<clearing, clearInProgress, postClearPending>> PROVE NothingBehindTheClear'
  BY <1>1 DEF NothingBehindTheClear
<1>2. ASSUME MayOffer, NEW q, Queue(q), UNCHANGED <<clearing, clearInProgress>>
      PROVE  NothingBehindTheClear'
  BY <1>2 DEF NothingBehindTheClear, MayOffer, Queue
<1>3. ASSUME NEW id \in EventIds, NEW b \in Sizes, offer(id, b) PROVE NothingBehindTheClear'
  BY <1>2, <1>3 DEF offer, TakesOrdinal
<1>4. ASSUME NEW b \in Sizes, NEW dim \in Dimensions, refuseUnretainable(b, dim)
      PROVE  NothingBehindTheClear'
  BY <1>2, <1>4 DEF refuseUnretainable, TakesOrdinal
<1>5. ASSUME NEW n \in 0..MaxCaptured, takeBatch(n) PROVE NothingBehindTheClear'
  BY <1>1, <1>5 DEF takeBatch
<1>6. ASSUME NEW read \in BOOLEAN, fallBackAfterCommit(read) \/ fallBackAfterTrim(read)
      PROVE  NothingBehindTheClear'
  BY <1>1, <1>6 DEF fallBackAfterCommit, fallBackAfterTrim, BatchDone, UnchangedByBatch
<1>7. CASE \/ journalCommitSucceeds \/ journalCommitFails
           \/ journalTrimSucceeds \/ journalTrimFails \/ memoryAccepts
  BY <1>1, <1>7 DEF journalCommitSucceeds, journalCommitFails, journalTrimSucceeds, journalTrimFails,
     memoryAccepts, BatchDone, UnchangedByBatch
<1>8. CASE startProcessing \/ settleLeadingGapBarrier \/ finishProcessing \/ UNCHANGED vars
  BY <1>1, <1>8 DEF startProcessing, settleLeadingGapBarrier, finishProcessing, vars
<1>9. CASE close \/ closeAfterClear \/ closeBegins \/ closeEnds
  BY <1>1, <1>9 DEF close, closeAfterClear, closeBegins, closeEnds, UnchangedByClose
<1>10. CASE clear \/ clearBegins \/ clearCleanup
  BY <1>10 DEF clear, clearBegins, clearCleanup, NothingBehindTheClear
<1>11. CASE clearSucceeds \/ clearFails
  BY <1>11 DEF clearSucceeds, clearFails, rejoinPostClearQueue, NothingBehindTheClear
<1> QED BY <1>3, <1>4, <1>5, <1>6, <1>7, <1>8, <1>9, <1>10, <1>11 DEF Next

\* What became Evidence is finite.
LEMMA AcceptedIsFinite ==
  ASSUME TypeOK PROVE IsFiniteSet(Accepted) /\ Cardinality(Accepted) \in Nat
<1>1. Accepted \subseteq 1 .. captured BY ReceiptDomain DEF Accepted
<1>2. IsFiniteSet(1 .. captured) BY ReceiptDomain, FS_Interval
<1> QED BY <1>1, <1>2, FS_Subset, FS_CardinalityType

\* An offered ordinal has not become Evidence.
LEMMA AcceptedAfterOffer ==
  ASSUME TypeOK, receipt' = Append(receipt, "open") PROVE Accepted' = Accepted
<1> DEFINE z == captured
<1>1. /\ DOMAIN receipt = 1 .. z /\ DOMAIN receipt' = 1 .. z + 1 /\ z \in Nat
      /\ \A o \in 1 .. z : receipt'[o] = receipt[o]
      /\ receipt'[z + 1] = "open"
  BY ReceiptDomain DEF TypeOK, CountersTypeOK, Outcomes
<1> HIDE DEF z
<1> QED BY <1>1 DEF Accepted

\* A settled barrier has not become Evidence.
LEMMA AcceptedAfterSettle ==
  ASSUME TypeOK, StagesAgree, EntriesTile, settleLeadingGapBarrier PROVE Accepted' = Accepted
<1> DEFINE z == captured
<1>1. PICK d \in Nat, c \in Nat :
        /\ Decided(d) /\ d < c /\ c <= z
        /\ DOMAIN receipt' = 1 .. z
        /\ \A o \in 1 .. d : receipt'[o] = receipt[o]
        /\ \A o \in d + 1 .. c : receipt'[o] = "NOT_EVIDENCE"
        /\ \A o \in c + 1 .. z : receipt'[o] = "open"
  BY SettleOrdinals
<1>2. DOMAIN receipt = 1 .. z /\ z \in Nat /\ \A o \in d + 1 .. z : receipt[o] = "open"
  BY <1>1, ReceiptDomain DEF Decided
<1> HIDE DEF z
<1>3. ASSUME NEW o \in 1 .. z
      PROVE  receipt'[o] = "BECAME_EVIDENCE" <=> receipt[o] = "BECAME_EVIDENCE"
  <2>1. CASE o \in 1 .. d BY <1>1, <2>1
  <2>2. CASE o \in d + 1 .. c BY <1>1, <1>2, <2>2
  <2>3. CASE o \in c + 1 .. z BY <1>1, <1>2, <2>3
  <2> QED BY <1>1, <1>2, <2>1, <2>2, <2>3
<1> QED BY <1>1, <1>2, <1>3 DEF Accepted

\* A settled batch has become Evidence, one ordinal for each candidate.
LEMMA AcceptedAfterRelease ==
  ASSUME TypeOK, EntriesTile, Releases
  PROVE  Cardinality(Accepted') = Cardinality(Accepted) + Len(batch)
<1> DEFINE z == captured
           n == Len(batch)
<1>1. PICK d \in Nat :
        /\ Decided(d) /\ d + n <= z
        /\ DOMAIN receipt' = 1 .. z
        /\ \A o \in 1 .. d : receipt'[o] = receipt[o]
        /\ \A o \in d + 1 .. d + n : receipt'[o] = "BECAME_EVIDENCE"
        /\ \A o \in d + n + 1 .. z : receipt'[o] = "open"
  BY ReleaseOrdinals
<1>2. /\ DOMAIN receipt = 1 .. z /\ z \in Nat /\ \A o \in d + 1 .. z : receipt[o] = "open"
      /\ n \in Nat
  BY <1>1, ReceiptDomain DEF Decided, TypeOK, QueuesTypeOK
<1> HIDE DEF z, n
<1>3. ASSUME NEW o \in 1 .. z PROVE receipt'[o] = "BECAME_EVIDENCE"
               <=> receipt[o] = "BECAME_EVIDENCE" \/ o \in d + 1 .. d + n
  <2>1. CASE o \in 1 .. d BY <1>1, <2>1
  <2>2. CASE o \in d + 1 .. d + n BY <1>1, <1>2, <2>2
  <2>3. CASE o \in d + n + 1 .. z BY <1>1, <1>2, <2>3
  <2> QED BY <1>1, <1>2, <2>1, <2>2, <2>3
<1>4. Accepted' = Accepted \cup (d + 1 .. d + n) BY <1>1, <1>2, <1>3 DEF Accepted
<1>5. Accepted \cap (d + 1 .. d + n) = {} BY <1>1, <1>2 DEF Accepted
<1>6. IsFiniteSet(d + 1 .. d + n) /\ Cardinality(d + 1 .. d + n) = n BY <1>2, FS_Interval
<1>7. Cardinality(Accepted \cup (d + 1 .. d + n)) = Cardinality(Accepted) + n - 0
  <2> DEFINE B == d + 1 .. d + n
  <2>1. IsFiniteSet(Accepted) /\ IsFiniteSet(B) /\ Cardinality(B) = n /\ Accepted \cap B = {}
    BY <1>5, <1>6, AcceptedIsFinite
  <2> HIDE DEF B
  <2>2. Cardinality(Accepted \cup B)
          = Cardinality(Accepted) + Cardinality(B) - Cardinality(Accepted \cap B)
    BY <2>1, FS_Union
  <2> QED BY <2>1, <2>2, FS_EmptySet DEF B
<1>8. Cardinality(Accepted) \in Nat BY AcceptedIsFinite
<1> QED BY <1>2, <1>4, <1>7, <1>8 DEF n

\* The counters agree with what waits and with the receipts.
LEMMA AgreementStep ==
  ASSUME ~OfferBeforeCleanup, TypeOK, DurableExact, NothingBehindTheClear, StagesAgree, EntriesTile,
         CountersAgree, [Next]_vars
  PROVE  CountersAgree'
<1> USE DEF queueVars, retainedVars, gapVars, clearVars, closeVars, journalVars, historyVars,
            captureVars, sequenceVars
<1> DEFINE Goal == CountersAgree'
           cb == CandidateBytes(Queued)
<1>0. /\ Queued \in Seq(EntryType) /\ cb \in Int /\ CandidateBytes(Queued) = cb
      /\ batch \in Seq(CandidateType) /\ batch \in Seq(EntryType) /\ Len(batch) \in Nat
      /\ Cardinality(Accepted) \in Nat /\ captured + 1 \in Nat
  <2>1. Queued \in Seq(EntryType) /\ batch \in Seq(EntryType) BY QueuedTypes DEF TypeOK
  <2>2. CandidateBytes(Queued) \in Nat BY <2>1, CandidateSums
  <2>3. batch \in Seq(CandidateType) /\ Len(batch) \in Nat BY DEF TypeOK, QueuesTypeOK
  <2>4. Cardinality(Accepted) \in Nat /\ captured + 1 \in Nat BY AcceptedIsFinite, ReceiptDomain
  <2> QED BY <2>1, <2>2, <2>3, <2>4
<1>1. CandidateBytes(batch) = BytesOf(batch) /\ BytesOf(batch) \in Nat
  BY <1>0, BatchSums, CandidateSums
<1>2. /\ Released \in Nat /\ Unsettled \in Nat
      /\ Advanced => Released = BytesOf(batch) /\ Unsettled = Len(batch)
      /\ ~Advanced => Released = 0 /\ Unsettled = 0
  BY <1>0, <1>1 DEF Released, Unsettled
<1>3. /\ awaitingBytes = cb - Released /\ awaitingBytes \in Int
      /\ committedEvidenceBoundary = Cardinality(Accepted) + Unsettled
  BY <1>0, <1>2 DEF CountersAgree
<1> HIDE DEF cb
\* What waits changes by k bytes.
<1>4. ASSUME NEW k \in Int, CandidateBytes(Queued') = cb + k, awaitingBytes' = awaitingBytes + k,
             Released' = Released, Unsettled' = Unsettled, Accepted' = Accepted,
             committedEvidenceBoundary' = committedEvidenceBoundary
      PROVE  Goal
  BY <1>3, <1>4, <1>0, <1>2 DEF CountersAgree
<1>5. ASSUME UNCHANGED <<batch, processing>> PROVE Released' = Released /\ Unsettled' = Unsettled
  BY <1>5 DEF Released, Unsettled, Advanced
<1>a. ASSUME processing = "loop" PROVE ~Advanced BY <1>a DEF Advanced
<1> HIDE DEF Goal
<1> SUFFICES Goal BY DEF Goal
<1>6. ASSUME NEW id \in EventIds, NEW b \in Sizes, offer(id, b) PROVE Goal
  <2> DEFINE e == Candidate(captured + 1, id, b)
  <2>1. e \in CandidateType /\ e \in EntryType /\ Queued' = Queued \o <<e>>
    BY <1>6, OfferEffect DEF EntryType
  <2>2. IsCandidate(e) /\ e.bytes = b /\ b \in Nat
    BY LimitsAssumption DEF Candidate, IsCandidate
  <2> HIDE DEF e
  <2>3. <<e>> \in Seq(EntryType) /\ CandidateBytes(<<e>>) = b BY <2>1, <2>2, OneEntry
  <2>4. CandidateBytes(Queued') = cb + b BY <2>1, <1>0, <2>3, CandidateSums
  <2>5. /\ awaitingBytes' = awaitingBytes + b /\ receipt' = Append(receipt, "open")
        /\ UNCHANGED <<batch, processing, committedEvidenceBoundary>>
    BY <1>6 DEF offer, TakesOrdinal
  <2>6. Accepted' = Accepted BY <2>5, AcceptedAfterOffer
  <2> QED BY <1>4, <1>5, <2>2, <2>4, <2>5, <2>6
<1>7. ASSUME NEW b \in Sizes, NEW dim \in Dimensions, refuseUnretainable(b, dim) PROVE Goal
  <2> DEFINE o == captured + 1
             g == GapBarrier(o, o, 1, dim)
  <2>1. /\ g \in BarrierType
        /\ \/ Queued' = Queued \o <<g>>
           \/ \E x \in Seq(EntryType), e \in BarrierType :
                Queued = x \o <<e>> /\ Queued' = x \o <<Extended(e, o)>>
    BY <1>7, RefuseEffect
  <2>2. /\ receipt' = Append(receipt, "open")
        /\ UNCHANGED <<awaitingBytes, batch, processing, committedEvidenceBoundary>>
    BY <1>7 DEF refuseUnretainable, TakesOrdinal
  <2>3. Accepted' = Accepted BY <2>2, AcceptedAfterOffer
  <2>4. ASSUME NEW e \in BarrierType
        PROVE  <<e>> \in Seq(EntryType) /\ CandidateBytes(<<e>>) = 0
    BY OneEntry DEF EntryType, BarrierType, IsCandidate
  <2>5. CandidateBytes(Queued') = cb + 0
    <3>1. CASE Queued' = Queued \o <<g>>
      <4>1. <<g>> \in Seq(EntryType) /\ CandidateBytes(<<g>>) = 0 BY <2>1, <2>4
      <4> HIDE DEF g
      <4>2. CandidateBytes(Queued \o <<g>>) = cb + 0 BY <1>0, <4>1, CandidateSums
      <4> QED BY <1>0, <3>1, <4>2
    <3>2. ASSUME NEW x \in Seq(EntryType), NEW e \in BarrierType,
                 Queued = x \o <<e>>, Queued' = x \o <<Extended(e, o)>>
          PROVE  CandidateBytes(Queued') = cb + 0
      <4> DEFINE f == Extended(e, o)
      <4>1. f \in BarrierType BY <1>0, ExtendedBarrier
      <4>2. Queued' = x \o <<f>> BY <3>2
      <4> HIDE DEF f
      <4>3. CandidateBytes(x \o <<f>>) = CandidateBytes(x \o <<e>>)
        <5>1. <<f>> \in Seq(EntryType) /\ CandidateBytes(<<f>>) = 0 BY <2>4, <4>1
        <5>2. <<e>> \in Seq(EntryType) /\ CandidateBytes(<<e>>) = 0 BY <2>4
        <5>3. CandidateBytes(x \o <<f>>) = CandidateBytes(x) + CandidateBytes(<<f>>)
          BY <5>1, CandidateSums
        <5>4. CandidateBytes(x \o <<e>>) = CandidateBytes(x) + CandidateBytes(<<e>>)
          BY <5>2, CandidateSums
        <5> QED BY <5>1, <5>2, <5>3, <5>4
      <4>4. CandidateBytes(Queued') = cb BY <1>0, <3>2, <4>2, <4>3
      <4> QED BY <1>0, <4>4
    <3> QED BY <2>1, <3>1, <3>2
  <2>6. awaitingBytes' = awaitingBytes + 0 BY <1>3, <2>2
  <2> QED BY <1>4, <1>5, <2>2, <2>3, <2>5, <2>6
<1>8. CASE settleLeadingGapBarrier
  <2> DEFINE e == Head(pending)
  <2>1. e \in EntryType /\ ~IsCandidate(e) /\ Queued' \in Seq(EntryType) /\ Queued = <<e>> \o Queued'
    BY <1>8, SettleEffect DEF EntryType, BarrierType, IsCandidate
  <2> HIDE DEF e
  <2>2. <<e>> \in Seq(EntryType) /\ CandidateBytes(<<e>>) = 0 BY <2>1, OneEntry
  <2>3. CandidateBytes(Queued') = cb + 0
    <3>1. CandidateBytes(<<e>> \o Queued') = 0 + CandidateBytes(Queued')
      BY <2>1, <2>2, CandidateSums
    <3>2. CandidateBytes(Queued') \in Nat BY <2>1, CandidateSums
    <3> QED BY <1>0, <2>1, <3>1, <3>2
  <2>4. UNCHANGED <<batch, processing, awaitingBytes, committedEvidenceBoundary>>
    BY <1>8 DEF settleLeadingGapBarrier
  <2>5. Accepted' = Accepted BY <1>8, AcceptedAfterSettle
  <2>6. awaitingBytes' = awaitingBytes + 0 BY <1>3, <2>4
  <2> QED BY <1>4, <1>5, <2>3, <2>4, <2>5, <2>6
<1>9. ASSUME NEW n \in 0..MaxCaptured, takeBatch(n) PROVE Goal
  <2>1. /\ UNCHANGED <<receipt, committedEvidenceBoundary>>
        /\ processing = "loop" /\ processing' \in {"loop", "commit"}
    BY <1>9 DEF takeBatch
  <2>2. Accepted' = Accepted BY <2>1 DEF Accepted
  <2>3. Released' = Released /\ Unsettled' = Unsettled BY <2>1 DEF Released, Unsettled, Advanced
  <2>4. CASE Queued' = Queued /\ UNCHANGED awaitingBytes
    BY <1>4, <2>1, <2>2, <2>3, <1>0, <1>3, <2>4
  <2>5. ASSUME NEW x \in Seq(EntryType), NEW y \in Seq(EntryType), NEW e \in CandidateType,
               Queued = x \o (<<e>> \o y),
               Queued' = x \o (<<GapBarrier(e.ordinal, e.ordinal, 1, "EVENT_IDENTITY")>> \o y),
               awaitingBytes' = awaitingBytes - e.bytes
        PROVE  Goal
    <3> DEFINE g == GapBarrier(e.ordinal, e.ordinal, 1, "EVENT_IDENTITY")
    <3>1. /\ e \in EntryType /\ g \in EntryType /\ IsCandidate(e) /\ ~IsCandidate(g)
          /\ e.bytes \in Nat
      BY LimitsAssumption DEF CandidateType, GapBarrier, BarrierType, EntryType, Dimensions,
         IsCandidate
    <3>2. Queued' = x \o (<<g>> \o y) BY <2>5
    <3> HIDE DEF g
    <3>3. /\ <<e>> \in Seq(EntryType) /\ <<g>> \in Seq(EntryType)
          /\ CandidateBytes(<<e>>) = e.bytes /\ CandidateBytes(<<g>>) = 0
      BY <3>1, OneEntry
    <3>4. ASSUME NEW s \in Seq(EntryType) PROVE CandidateBytes(x \o (s \o y))
                   = CandidateBytes(x) + (CandidateBytes(s) + CandidateBytes(y))
      <4>1. s \o y \in Seq(EntryType) OBVIOUS
      <4> QED BY <4>1, CandidateSums, ZenonT(60)
    <3>5. CandidateBytes(x) \in Nat /\ CandidateBytes(y) \in Nat BY CandidateSums
    <3>6. cb = CandidateBytes(x) + (e.bytes + CandidateBytes(y)) BY <1>0, <2>5, <3>3, <3>4
    <3>7. CandidateBytes(Queued') = CandidateBytes(x) + (0 + CandidateBytes(y))
      BY <3>2, <3>3, <3>4
    <3>8. CandidateBytes(Queued') = cb + (0 - e.bytes) /\ 0 - e.bytes \in Int
      BY <3>1, <3>5, <3>6, <3>7, SMTT(60)
    <3>9. awaitingBytes' = awaitingBytes + (0 - e.bytes) BY <1>3, <2>5, <3>1
    <3> QED BY <1>4, <2>1, <2>2, <2>3, <3>8, <3>9
  <2> QED BY <1>9, <2>4, <2>5, TakeEffect
<1>10. CASE Releases
  <2> DEFINE n == Len(batch)
             left == CandidateBytes(Queued')
             bytes == BytesOf(batch)
  <2>1. batch' = <<>> /\ UNCHANGED queueVars /\ processing' = "loop" BY <1>10 DEF Releases
  <2>2. Queued' \in Seq(EntryType) /\ Queued = batch \o Queued' BY <2>1, ReleaseEffect
  <2>3. cb = bytes + left /\ left \in Nat /\ bytes \in Nat
    <3>1. CandidateBytes(batch \o Queued') = CandidateBytes(batch) + CandidateBytes(Queued')
      BY <1>0, <2>2, CandidateSums
    <3>2. CandidateBytes(Queued') \in Nat BY <2>2, CandidateSums
    <3> QED BY <1>0, <1>1, <2>2, <3>1, <3>2
  <2>4. Cardinality(Accepted') = Cardinality(Accepted) + n BY <1>10, AcceptedAfterRelease
  <2>5. Released' = 0 /\ Unsettled' = 0 BY <2>1 DEF Released, Unsettled, Advanced
  <2>6. awaitingBytes' = left /\ committedEvidenceBoundary' = Cardinality(Accepted) + n
    <3>1. CASE Advanced
      <4>1. UNCHANGED <<committedEvidenceBoundary, awaitingBytes>> BY <1>10, <3>1 DEF Releases
      <4> HIDE DEF left, bytes, n
      <4>2. Released = bytes /\ Unsettled = n BY <1>2, <3>1 DEF bytes, n
      <4> QED BY <1>3, <2>3, <4>1, <4>2
    <3>2. CASE ~Advanced
      <4>1. /\ awaitingBytes' = awaitingBytes - bytes
            /\ committedEvidenceBoundary' = committedEvidenceBoundary + n
        BY <1>10, <3>2 DEF Releases, BatchAccepted
      <4> HIDE DEF left, bytes
      <4>2. Released = 0 /\ Unsettled = 0 BY <1>2, <3>2
      <4>3. awaitingBytes' = left BY <1>0, <1>3, <2>3, <4>1, <4>2
      <4>4. committedEvidenceBoundary' = Cardinality(Accepted) + n BY <1>0, <1>3, <4>1, <4>2
      <4> QED BY <4>3, <4>4
    <3> QED BY <3>1, <3>2
  <2>7. awaitingBytes' = CandidateBytes(Queued') - Released' BY <2>3, <2>5, <2>6
  <2>8. committedEvidenceBoundary' = Cardinality(Accepted') + Unsettled'
    BY <1>0, <2>4, <2>5, <2>6
  <2> QED BY <2>7, <2>8 DEF Goal, CountersAgree
<1>11. CASE Advances
  <2> DEFINE n == Len(batch)
             bytes == BytesOf(batch)
  <2>1. /\ ~Advanced /\ processing' = "trim" /\ UNCHANGED <<batch, receipt, pending, postClearPending>>
        /\ awaitingBytes' = awaitingBytes - bytes
        /\ committedEvidenceBoundary' = committedEvidenceBoundary + n
    BY <1>11 DEF Advances, BatchAccepted
  <2>2. Queued' = Queued /\ Accepted' = Accepted BY <2>1 DEF Queued, Accepted
  <2>3. Released' = bytes /\ Unsettled' = n /\ Released = 0 /\ Unsettled = 0
    BY <2>1 DEF Released, Unsettled, Advanced
  <2> HIDE DEF n, bytes
  <2>4. awaitingBytes' = CandidateBytes(Queued') - Released'
    BY <1>0, <1>3, <2>1, <2>2, <2>3, <1>1 DEF bytes
  <2>5. committedEvidenceBoundary' = Cardinality(Accepted') + Unsettled'
    BY <1>0, <1>3, <2>1, <2>2, <2>3 DEF n
  <2> QED BY <2>4, <2>5 DEF Goal, CountersAgree
<1>b. ASSUME Queued' = Queued, UNCHANGED <<awaitingBytes, committedEvidenceBoundary, receipt>>,
             Released' = Released, Unsettled' = Unsettled
      PROVE  Goal
  BY <1>3, <1>b DEF Goal, CountersAgree, Accepted
<1>12. CASE clearSucceeds \/ clearFails
  <2>1. UNCHANGED <<awaitingBytes, committedEvidenceBoundary, receipt, batch, processing>>
    BY <1>12 DEF clearSucceeds, clearFails
  <2>2. Queued' = Queued BY <1>12, RejoinEffect
  <2> QED BY <1>5, <1>b, <2>1, <2>2
<1>13. CASE journalCommitFails \/ journalTrimFails \/ startProcessing \/ finishProcessing
  <2>1. UNCHANGED <<queueVars, awaitingBytes, committedEvidenceBoundary, receipt, batch>>
    BY <1>13 DEF journalCommitFails, journalTrimFails, startProcessing, finishProcessing, UnchangedByBatch
  <2>2. Queued' = Queued BY <2>1 DEF Queued
  <2>3. Advanced' <=> Advanced
    BY <1>13 DEF journalCommitFails, journalTrimFails, startProcessing, finishProcessing, Advanced
  <2>4. Released' = Released /\ Unsettled' = Unsettled BY <2>1, <2>3 DEF Released, Unsettled
  <2> QED BY <1>b, <2>1, <2>2, <2>4
<1>14. CASE \/ clear \/ clearBegins \/ clearCleanup
            \/ close \/ closeAfterClear \/ closeBegins \/ closeEnds \/ UNCHANGED vars
  <2>1. UNCHANGED <<queueVars, awaitingBytes, committedEvidenceBoundary, receipt, batch, processing>>
    BY <1>14 DEF clear, clearBegins, clearCleanup, close, closeAfterClear, closeBegins, closeEnds,
        UnchangedByClose, vars
  <2>2. Queued' = Queued BY <2>1 DEF Queued
  <2> QED BY <1>5, <1>b, <2>1, <2>2
<1> QED BY <1>6, <1>7, <1>8, <1>9, <1>10, <1>11, <1>12, <1>13, <1>14, BatchKinds DEF Next

\* The gaps that are reported stay where they belong: what is decided later
\* comes after them, and a new gap is placed after all Evidence there is.
LEMMA GapStep ==
  ASSUME ~OfferBeforeCleanup, TypeOK, DurableExact, StagesAgree, EntriesTile, CountersAgree,
         GapPlacement, [Next]_vars
  PROVE  GapPlacement'
<1> USE DEF queueVars, retainedVars, gapVars, clearVars, closeVars, journalVars, historyVars,
            captureVars
<1> DEFINE Goal == GapPlacement'
           z == captured
<1>0. /\ z \in Nat /\ DOMAIN receipt = 1 .. z
      /\ firstGap \in GapType /\ latestGap \in GapType
      /\ firstGap.captureOrdinal \in Nat /\ latestGap.captureOrdinal \in Nat
  BY ReceiptDomain DEF TypeOK, CountersTypeOK, GapType
<1>1. PICK d \in Nat : Tiles(Queued, d, z) /\ Decided(d) BY DEF EntriesTile
<1>2. d <= z BY <1>0, <1>1, TilesCover, QueuedTypes DEF TypeOK
<1> HIDE DEF z
\* A gap that was placed, while the decided receipts stay as they are.
<1>3. ASSUME NEW gap \in {firstGap, latestGap} \ {NoGap}, NEW c \in Nat, Decided(c),
             \A o \in 1 .. c : receipt'[o] = receipt[o]
      PROVE  /\ gap.interval = interval
             /\ gap.afterEvidence =
                  Cardinality({o \in 1 .. (gap.captureOrdinal - 1) : receipt'[o] = "BECAME_EVIDENCE"})
  <2>1. gap.captureOrdinal \in Nat /\ gap.captureOrdinal <= c BY <1>0, <1>3 DEF Decided
  <2>2. \A o \in 1 .. (gap.captureOrdinal - 1) : receipt'[o] = receipt[o] BY <1>3, <2>1
  <2>3. {o \in 1 .. (gap.captureOrdinal - 1) : receipt'[o] = "BECAME_EVIDENCE"}
          = {o \in 1 .. (gap.captureOrdinal - 1) : receipt[o] = "BECAME_EVIDENCE"}
    BY <2>2
  <2> QED BY <1>3, <2>3 DEF GapPlacement
<1>4. ASSUME NEW c \in Nat, Decided(c), \A o \in 1 .. c : receipt'[o] = receipt[o],
             UNCHANGED <<gapVars, interval>>
      PROVE  Goal
  BY <1>3, <1>4 DEF GapPlacement
<1> HIDE DEF Goal
<1> SUFFICES Goal BY DEF Goal
<1>5. ASSUME receipt' = Append(receipt, "open"), UNCHANGED <<gapVars, interval>> PROVE Goal
  BY <1>0, <1>1, <1>2, <1>4, <1>5 DEF TypeOK, CountersTypeOK
<1>6. ASSUME NEW id \in EventIds, NEW b \in Sizes, offer(id, b) PROVE Goal
  BY <1>5, <1>6 DEF offer, TakesOrdinal
<1>7. ASSUME NEW b \in Sizes, NEW dim \in Dimensions, refuseUnretainable(b, dim) PROVE Goal
  BY <1>5, <1>7 DEF refuseUnretainable, TakesOrdinal
<1>8. CASE settleLeadingGapBarrier
  <2>1. PICK b \in Nat, c \in Nat :
          /\ Decided(b) /\ b < c /\ c <= z
          /\ Head(pending).first = b + 1 /\ Head(pending).latest = c
          /\ \A o \in 1 .. b : receipt'[o] = receipt[o]
          /\ \A o \in b + 1 .. c : receipt'[o] = "NOT_EVIDENCE"
    BY <1>8, SettleOrdinals DEF z
  <2>2. /\ firstGap' = firstGap \/ firstGap' = AcceptanceGap(b + 1)
        /\ latestGap' = AcceptanceGap(c)
        /\ firstGap = NoGap => firstGap' = AcceptanceGap(b + 1)
        /\ interval' = interval
    BY <1>8, <2>1 DEF settleLeadingGapBarrier, settleGapBarrier
  <2>3. ASSUME NEW o \in 1 .. z, receipt[o] = "BECAME_EVIDENCE" PROVE o \in 1 .. b
    BY <1>0, <2>1, <2>3 DEF Decided, z
  <2>4. ASSUME NEW o \in Nat, b < o, o <= c
        PROVE  {p \in 1 .. (o - 1) : receipt'[p] = "BECAME_EVIDENCE"} = Accepted
    <3>1. ASSUME NEW p \in 1 .. (o - 1)
          PROVE  receipt'[p] = "BECAME_EVIDENCE" <=> p \in Accepted
      <4>1. CASE p \in 1 .. b BY <1>0, <2>1, <4>1 DEF Accepted
      <4>2. CASE p \in b + 1 .. c BY <1>0, <2>1, <2>3, <4>2 DEF Accepted
      <4> QED BY <2>1, <2>4, <4>1, <4>2
    <3>2. Accepted \subseteq 1 .. (o - 1) BY <1>0, <2>1, <2>3, <2>4 DEF Accepted
    <3> QED BY <3>1, <3>2
  <2>5. ASSUME NEW o \in Nat, b < o, o <= c PROVE LET gap == AcceptanceGap(o)
               IN  /\ gap.interval = interval
                   /\ gap.afterEvidence =
                        Cardinality({p \in 1 .. (gap.captureOrdinal - 1) :
                                       receipt'[p] = "BECAME_EVIDENCE"})
    <3>1. committedEvidenceBoundary = Cardinality(Accepted)
      <4>1. Unsettled = 0 BY <1>8 DEF Unsettled, Advanced, settleLeadingGapBarrier
      <4>2. Cardinality(Accepted) \in Nat BY AcceptedIsFinite
      <4> QED BY <4>1, <4>2 DEF CountersAgree
    <3>2. {p \in 1 .. (o - 1) : receipt'[p] = "BECAME_EVIDENCE"} = Accepted BY <2>4, <2>5
    <3> QED BY <3>1, <3>2 DEF AcceptanceGap
  <2>6. b + 1 \in Nat /\ b < b + 1 /\ b + 1 <= c BY <2>1
  <2>7. ASSUME NEW gap \in {firstGap', latestGap'} \ {NoGap}
        PROVE  /\ gap.interval = interval'
               /\ gap.afterEvidence =
                    Cardinality({o \in 1 .. (gap.captureOrdinal - 1) : receipt'[o] = "BECAME_EVIDENCE"})
    <3>1. CASE gap = AcceptanceGap(c) BY <2>1, <2>2, <2>5, <3>1
    <3>2. CASE gap = AcceptanceGap(b + 1) BY <2>2, <2>5, <2>6, <3>2
    <3>3. CASE gap = firstGap BY <1>3, <2>1, <2>2, <2>7, <3>3
    <3> QED BY <2>2, <2>7, <3>1, <3>2, <3>3
  <2> QED BY <2>7 DEF Goal, GapPlacement
<1>9. CASE Releases
  <2>1. PICK b \in Nat : Decided(b) /\ \A o \in 1 .. b : receipt'[o] = receipt[o]
    BY <1>9, ReleaseOrdinals
  <2>2. UNCHANGED <<gapVars, interval>> BY <1>9 DEF Releases
  <2> QED BY <1>4, <2>1, <2>2
<1>10. CASE clearSucceeds BY <1>10 DEF Goal, GapPlacement, clearSucceeds
<1>11. ASSUME NEW n \in 0..MaxCaptured, takeBatch(n) PROVE Goal
  BY <1>1, <1>4, <1>11 DEF takeBatch
<1>12. CASE \/ Advances \/ startProcessing \/ journalCommitFails \/ journalTrimFails
            \/ finishProcessing \/ clear \/ clearBegins \/ clearFails \/ clearCleanup
            \/ close \/ closeAfterClear \/ closeBegins \/ closeEnds \/ UNCHANGED vars
  BY <1>1, <1>4, <1>12 DEF Advances, startProcessing, journalCommitFails, journalTrimFails,
     finishProcessing, clear, clearBegins, clearFails, clearCleanup, close, closeAfterClear,
     closeBegins, closeEnds, UnchangedByBatch, UnchangedByClose, vars
<1> QED BY <1>6, <1>7, <1>8, <1>9, <1>10, <1>11, <1>12, BatchKinds DEF Next

\* While the journal is in use all that is retained is durable, after the
\* fallback all of it is in memory; and a batch is only under way while the
\* history runs.
LEMMA RetainedParts ==
  ASSUME JournalInv
  PROVE  /\ Retained \in Seq(EvidenceType)
         /\ persistenceMode = "INDEXEDDB" => Retained = durableRetentionEntries /\ volatileEvidence = <<>>
         /\ persistenceMode = "MEMORY" => Retained = volatileEvidence /\ durableRetentionEntries = <<>>
         /\ persistenceMode \in {"INDEXEDDB", "MEMORY"}
         /\ processing # "no" => phase = "RUNNING"
<1>1. durableRetentionEntries \in Seq(EvidenceType) /\ volatileEvidence \in Seq(EvidenceType)
  BY DEF JournalInv, TypeOK, QueuesTypeOK
<1>2. /\ persistenceMode = "INDEXEDDB" => volatileEvidence = <<>>
      /\ persistenceMode # "INDEXEDDB" => durableRetentionEntries = <<>>
  BY DEF JournalInv, JournalHoldsEvidence, ModeHoldsEvidence
<1>3. persistenceMode \in {"INDEXEDDB", "MEMORY"} /\ phase \in {"RUNNING", "CLOSED"}
  BY DEF JournalInv, TypeOK, LifecycleTypeOK
<1>4. processing # "no" => phase = "RUNNING" BY <1>3 DEF JournalInv, StagesAgree, isIdle
<1>5. /\ Retained \in Seq(EvidenceType)
      /\ durableRetentionEntries \o <<>> = durableRetentionEntries
      /\ <<>> \o volatileEvidence = volatileEvidence
  BY <1>1, Concat, EmptyConcat DEF Retained
<1> QED BY <1>2, <1>3, <1>4, <1>5 DEF Retained

\* The Evidence that a step of the batch adds to what is retained.
Fresh == IF Advanced THEN <<>> ELSE EvidenceOf(batch)

\* What is retained afterwards is all but the k oldest of s, and its count,
\* bytes, identities and range are recorded.
Retains(s, k) ==
  /\ Retained' = SubSeq(s, k + 1, Len(s))
  /\ retainedCount' = Len(s) - k
  /\ retainedBytes' = Reduced(BytesOf(s), BytesOf(SubSeq(s, 1, k)))
  /\ retainedEventIds' = IdsOf(s) \ IdsOf(SubSeq(s, 1, k))
  /\ retainedRange' = RangeOf(SubSeq(s, k + 1, Len(s)))

\* The history is within the budgets of its tier.
WithinBudget == ~OverHighWater(limits, retainedCount, retainedBytes)

\* What a step of the batch adds follows what is there, up to the boundary.
LEMMA GrownTail ==
  ASSUME JournalInv, IsTail(Retained, committedEvidenceBoundary, interval), Releases \/ Advances,
         NEW s, s \in {Retained, <<>>}
  PROVE  /\ Fresh \in Seq(EvidenceType) /\ s \in Seq(EvidenceType) /\ s \o Fresh \in Seq(EvidenceType)
         /\ IsTail(s \o Fresh, committedEvidenceBoundary', interval)
<1>1. /\ QueuesTypeOK /\ CountersTypeOK /\ committedEvidenceBoundary \in Nat
      /\ nextSequence = committedEvidenceBoundary + 1
  BY DEF JournalInv, TypeOK, CountersTypeOK, DurableExact
<1> DEFINE b == committedEvidenceBoundary
           n == Len(Fresh)
<1>2. /\ Fresh \in Seq(EvidenceType)
      /\ \A i \in 1 .. n : Fresh[i].sequence = (b + 1) + (i - 1) /\ Fresh[i].interval = interval
      /\ b' = b + n
  <2>1. CASE Advanced
    <3>1. Fresh = <<>> /\ b' = b BY <2>1 DEF Fresh, Releases, Advances, sequenceVars
    <3>2. Len(<<>>) = 0 /\ <<>> \in Seq(EvidenceType) /\ 1 .. 0 = {} OBVIOUS
    <3> QED BY <1>1, <3>1, <3>2
  <2>2. CASE ~Advanced
    BY <1>1, EvidenceOfBatch, <2>2 DEF Fresh, Releases, Advances, BatchAccepted
  <2> QED BY <2>1, <2>2
<1>3. s \in Seq(EvidenceType) /\ IsTail(s, b, interval)
  <2>1. Len(<<>>) = 0 /\ DOMAIN <<>> = {} /\ <<>> \in Seq(EvidenceType) OBVIOUS
  <2>2. IsTail(<<>>, b, interval) BY <1>1, <2>1 DEF IsTail
  <2> QED BY <2>1, <2>2, RetainedParts
<1>4. s \o Fresh \in Seq(EvidenceType) BY <1>2, <1>3, Concat
<1>5. IsTail(s \o Fresh, b + n, interval) BY <1>1, <1>2, <1>3, TailGrows
<1> QED BY <1>2, <1>3, <1>4, <1>5

\* A retention advance brings what is retained within the budget, or leaves
\* nothing of it.
LEMMA TrimIsEnough ==
  ASSUME NEW s \in Seq(EvidenceType), NEW t \in Tiers, NEW k \in 0 .. Len(s),
         \/ IsPrefixTrim(s, Len(s), BytesOf(s), LowWater(Limits[t]), k)
         \/ k = 0 /\ ~OverHighWater(Limits[t], Len(s), BytesOf(s))
  PROVE  ~OverHighWater(Limits[t], Len(s) - k, Reduced(BytesOf(s), BytesOf(SubSeq(s, 1, k))))
<1> DEFINE mc == Limits[t].maxRetainedCount
           mb == Limits[t].maxRetainedBytes
           low == LowWater(Limits[t])
           gone == SubSeq(s, 1, k)
           kept == SubSeq(s, k + 1, Len(s))
           left == Reduced(BytesOf(s), BytesOf(gone))
<1>1. mc \in Nat /\ mb \in Nat BY LimitsAssumption
<1>2. low.count \in Nat /\ low.bytes \in Nat /\ low.count <= mc /\ low.bytes <= mb
  BY <1>1, LowWaterBelow DEF LowWater
<1>3. /\ gone \in Seq(EvidenceType) /\ kept \in Seq(EvidenceType) /\ s = gone \o kept
      /\ Len(kept) = Len(s) - k /\ Len(s) \in Nat /\ k \in Nat
  <2>1. Len(s) \in Nat /\ k \in Nat OBVIOUS
  <2> QED BY <2>1, Parts, Zenon
<1>4. \A e \in EvidenceType : e.bytes \in Nat BY EvidenceFacts
<1>5. BytesOf(s) \in Nat /\ BytesOf(gone) \in Nat /\ left = BytesOf(kept)
  <2>1. BytesOf(s) \in Nat /\ left = BytesOf(kept) BY BytesAreCut
  <2>2. BytesOf(gone) \in Nat
    <3> HIDE DEF gone, kept, EvidenceType
    <3> QED BY <1>3, <1>4, BytesFacts
  <2> QED BY <2>1, <2>2
<1> HIDE DEF mc, mb, low, gone, kept
<1> SUFFICES Len(s) - k <= mc /\ left <= mb
  <2>1. left \in Nat BY <1>5 DEF Reduced
  <2> QED BY <1>1, <1>3, <2>1 DEF OverHighWater, mc, mb, left, gone
<1>6. CASE IsPrefixTrim(s, Len(s), BytesOf(s), low, k)
  <2>1. \/ Len(s) - k <= low.count /\ BytesOf(s) - BytesOf(gone) <= low.bytes
        \/ k = Len(s)
    BY <1>6, TrimMeetsTarget, Zenon DEF gone
  <2>2. CASE k = Len(s)
    <3>1. Len(kept) = 0 BY <1>3, <2>2
    <3>2. kept = <<>> BY <1>3, <3>1
    <3>3. left = 0 BY <1>5, <3>2, NoBytes
    <3> QED BY <1>1, <1>3, <2>2, <3>3
  <2>3. CASE Len(s) - k <= low.count /\ BytesOf(s) - BytesOf(gone) <= low.bytes
    <3>1. left <= low.bytes BY <1>2, <1>5, <2>3 DEF Reduced
    <3>2. left \in Nat BY <1>5 DEF Reduced
    <3> QED BY <1>1, <1>2, <1>3, <2>3, <3>1, <3>2
  <2> QED BY <2>1, <2>2, <2>3
<1>7. CASE k = 0 /\ ~OverHighWater(Limits[t], Len(s), BytesOf(s))
  <2>1. Len(s) <= mc /\ BytesOf(s) <= mb BY <1>1, <1>3, <1>5, <1>7 DEF OverHighWater, mc, mb
  <2>2. left <= BytesOf(s) BY <1>5 DEF Reduced
  <2>3. left \in Nat BY <1>5 DEF Reduced
  <2> QED BY <1>1, <1>3, <1>5, <1>7, <2>1, <2>2, <2>3
<1> QED BY <1>6, <1>7 DEF low

\* What memory keeps of s, when it measured it exactly.
LEMMA MemoryRetains ==
  ASSUME NEW s \in Seq(EvidenceType), committedEvidenceBoundary' \in Nat, persistenceMode' = "MEMORY",
         NEW iv, IsTail(s, committedEvidenceBoundary', iv), durableRetentionEntries' = <<>>,
         KeepInMemory(s, Len(s), BytesOf(s), IdsOf(s))
  PROVE  \E k \in 0 .. Len(s) : Retains(s, k) /\ WithinBudget'
<1> DEFINE high == Limits["LOWER"]
<1>1. PICK k \in 0 .. Len(s) :
        /\ IF OverHighWater(high, Len(s), BytesOf(s))
             THEN IsPrefixTrim(s, Len(s), BytesOf(s), LowWater(high), k)
             ELSE k = 0
        /\ volatileEvidence' = SubSeq(s, k + 1, Len(s))
        /\ retainedEventIds' = IdsOf(s) \ IdsOf(SubSeq(s, 1, k))
        /\ retainedCount' = Len(s) - k
        /\ retainedBytes' = Reduced(BytesOf(s), BytesOf(SubSeq(s, 1, k)))
        /\ retainedRange' = IF SubSeq(s, k + 1, Len(s)) = <<>> THEN NoRange
                            ELSE <<Head(SubSeq(s, k + 1, Len(s))).sequence, committedEvidenceBoundary'>>
  BY DEF KeepInMemory
<1> DEFINE kept == SubSeq(s, k + 1, Len(s))
<1>2. kept \in Seq(EvidenceType) /\ IsTail(kept, committedEvidenceBoundary', iv)
  BY Parts, TailIsCut
<1> HIDE DEF kept, high
<1>3. Retained' = kept BY <1>2, EmptyConcat, <1>1 DEF Retained, kept
<1>4. retainedRange' = RangeOf(kept)
  <2>1. CASE kept = <<>> BY <1>1, <2>1 DEF RangeOf, kept
  <2>2. CASE kept # <<>>
    <3>1. RangeOf(kept) = <<kept[1].sequence, committedEvidenceBoundary'>>
      BY <1>2, <2>2, RangeFacts
    <3>2. retainedRange' = <<Head(kept).sequence, committedEvidenceBoundary'>>
      BY <1>1, <2>2 DEF kept
    <3>3. Head(kept) = kept[1] BY <1>2, <2>2
    <3> QED BY <3>1, <3>2, <3>3
  <2> QED BY <2>1, <2>2
<1>5. Retains(s, k) BY <1>1, <1>3, <1>4 DEF Retains, kept
<1>6. limits' = high BY DEF limits, capacityTier, high
<1>7. ~OverHighWater(high, Len(s) - k, Reduced(BytesOf(s), BytesOf(SubSeq(s, 1, k))))
  <2>1. \/ IsPrefixTrim(s, Len(s), BytesOf(s), LowWater(high), k)
        \/ k = 0 /\ ~OverHighWater(high, Len(s), BytesOf(s))
    BY <1>1
  <2>2. "LOWER" \in Tiers BY DEF Tiers
  <2> QED BY <2>1, <2>2, TrimIsEnough DEF high
<1>8. WithinBudget' BY <1>1, <1>6, <1>7 DEF WithinBudget
<1> QED BY <1>5, <1>8

\* What is retained when nothing of s is dropped.
LEMMA RetainsAll ==
  ASSUME NEW s \in Seq(EvidenceType), Retained' = s, retainedCount' = Len(s),
         retainedBytes' = BytesOf(s), retainedEventIds' = IdsOf(s), retainedRange' = RangeOf(s)
  PROVE  0 \in 0 .. Len(s) /\ Retains(s, 0)
<1>1. 0 \in 0 .. Len(s) /\ 0 + 1 = 1 /\ Len(s) \in Nat OBVIOUS
<1>2. SubSeq(s, 1, 0) = <<>> OBVIOUS
<1>3. SubSeq(s, 1, Len(s)) = s OBVIOUS
<1>4. Reduced(BytesOf(s), BytesOf(<<>>)) = BytesOf(s) /\ IdsOf(<<>>) = {}
  BY <1>1, BytesAreCut, NoBytes DEF Reduced, IdsOf
<1>5. Len(s) - 0 = Len(s) BY <1>1
<1> HIDE DEF EvidenceType
<1> QED BY <1>1, <1>2, <1>3, <1>4, <1>5 DEF Retains

\* Without volatile Evidence the durable part is trimmed to the low water mark.
LEMMA DurableTargetIs ==
  ASSUME volatileEvidence = <<>>
  PROVE  DurableTarget = LowWater(limits) /\ limits \in {Limits[t] : t \in Tiers}
<1>1. limits \in {Limits[t] : t \in Tiers} BY DEF limits, capacityTier, Tiers
<1>2. LowWater(limits).count \in Nat /\ LowWater(limits).bytes \in Nat
  BY LowWaterBelow, <1>1, LimitsAssumption DEF LowWater
<1>3. ASSUME NEW n \in Nat PROVE Reduced(n, 0) = n BY DEF Reduced
<1>4. Len(volatileEvidence) = 0 /\ BytesOf(volatileEvidence) = 0 BY NoBytes
<1>5. DurableTarget = [count |-> LowWater(limits).count, bytes |-> LowWater(limits).bytes]
  BY <1>2, <1>3, <1>4 DEF DurableTarget
<1> QED BY <1>1, <1>5 DEF LowWater

\* The facts about what is retained that the steps of the batch start from.
LEMMA RetainedFacts ==
  ASSUME JournalInv, RetainedExact, processing # "no"
  PROVE  /\ retainedCount = Len(Retained) /\ retainedBytes = BytesOf(Retained)
         /\ retainedEventIds = IdsOf(Retained) /\ Retained \in Seq(EvidenceType)
         /\ Len(Retained) \in Nat /\ BytesOf(Retained) \in Nat
         /\ persistenceMode = "INDEXEDDB" =>
              /\ Retained = durableRetentionEntries /\ volatileEvidence = <<>>
              /\ durableRetainedCount = retainedCount /\ durableBytes = retainedBytes
         /\ persistenceMode = "MEMORY" => Retained = volatileEvidence /\ durableRetentionEntries = <<>>
         /\ processing \in {"snapshot", "trim", "trimSnapshot"} => persistenceMode = "INDEXEDDB"
<1>1. phase = "RUNNING" /\ Retained \in Seq(EvidenceType) BY RetainedParts
<1>2. Len(Retained) \in Nat /\ BytesOf(Retained) \in Nat BY <1>1, BytesAreCut
<1>3. /\ retainedCount = Len(Retained) /\ retainedBytes = BytesOf(Retained)
      /\ retainedEventIds = IdsOf(Retained)
  BY <1>1 DEF RetainedExact
<1>4. /\ durableRetainedCount = Len(durableRetentionEntries)
      /\ durableBytes = BytesOf(durableRetentionEntries)
  BY DEF JournalInv, DurableExact
<1>5. /\ persistenceMode = "INDEXEDDB" => Retained = durableRetentionEntries /\ volatileEvidence = <<>>
      /\ persistenceMode = "MEMORY" => Retained = volatileEvidence /\ durableRetentionEntries = <<>>
      /\ persistenceMode \in {"INDEXEDDB", "MEMORY"}
  BY RetainedParts
<1>6. processing \in {"snapshot", "trim", "trimSnapshot"} => persistenceMode = "INDEXEDDB"
  BY <1>5 DEF JournalInv, StagesAgree
<1> QED BY <1>1, <1>2, <1>3, <1>4, <1>5, <1>6

\* A committed batch is added to what is retained.
LEMMA CommitRetains ==
  ASSUME JournalInv, JournalInv', IsTail(Retained, committedEvidenceBoundary, interval), RetainedExact,
         journalCommitSucceeds
  PROVE  /\ 0 \in 0 .. Len(Retained \o Fresh) /\ Retains(Retained \o Fresh, 0)
         /\ processing' = "loop" => WithinBudget'
<1> DEFINE evidence == EvidenceOf(batch)
           n == Len(evidence)
           s == Retained \o Fresh
<1>1. /\ processing = "commit" /\ persistenceMode = "INDEXEDDB" /\ persistenceMode' = persistenceMode
      /\ durableRetentionEntries' = durableRetentionEntries \o evidence
      /\ durableRetainedCount' = durableRetainedCount + n
      /\ durableBytes' = durableBytes + BytesOf(evidence)
      /\ retainedEventIds' = retainedEventIds \cup IdsOf(evidence)
      /\ retainedCount' = retainedCount + n
      /\ retainedBytes' = retainedBytes + BytesOf(evidence)
      /\ retainedRange' = <<durableRetainedRange'[1], committedEvidenceBoundary'>>
      /\ volatileEvidence' = volatileEvidence
  BY DEF journalCommitSucceeds
<1>2. /\ retainedCount = Len(Retained) /\ retainedBytes = BytesOf(Retained)
      /\ retainedEventIds = IdsOf(Retained) /\ Retained \in Seq(EvidenceType)
      /\ Retained = durableRetentionEntries /\ volatileEvidence = <<>>
      /\ durableRetainedCount = retainedCount /\ durableBytes = retainedBytes
      /\ Len(Retained) \in Nat /\ BytesOf(Retained) \in Nat
  BY <1>1, RetainedFacts
<1>3. Fresh = evidence /\ evidence \in Seq(EvidenceType) /\ n = Len(batch) /\ batch # <<>>
  BY <1>1, EvidenceOfBatch DEF Fresh, Advanced, JournalInv, TypeOK, StagesAgree
<1>4. n \in Nat /\ n # 0 BY <1>3 DEF JournalInv, TypeOK, QueuesTypeOK
<1>5. s \in Seq(EvidenceType) /\ IsTail(s, committedEvidenceBoundary', interval)
  BY GrownTail, BatchKinds DEF JournalInv
<1> HIDE DEF evidence, n
<1>6. Retained' = s BY <1>5, EmptyConcat, <1>1, <1>2, <1>3 DEF Retained
<1>7. /\ Len(s) = Len(Retained) + n /\ IdsOf(s) = IdsOf(Retained) \cup IdsOf(evidence)
      /\ BytesOf(s) = BytesOf(Retained) + BytesOf(evidence)
  <2>1. Len(s) = Len(Retained) + n BY <1>2, <1>3, Concat DEF n
  <2>2. IdsOf(s) = IdsOf(Retained) \cup IdsOf(evidence) BY <1>2, <1>3, IdsFacts
  <2>3. \A e \in EvidenceType : e.bytes \in Nat BY EvidenceFacts
  <2>4. BytesOf(s) = BytesOf(Retained) + BytesOf(evidence)
    <3> HIDE DEF EvidenceType
    <3> QED BY <1>2, <1>3, <2>3, BytesFacts
  <2> QED BY <2>1, <2>2, <2>4
<1> HIDE DEF s
<1>8. retainedCount' = Len(s) /\ retainedBytes' = BytesOf(s) /\ retainedEventIds' = IdsOf(s)
  BY <1>1, <1>2, <1>7
<1>9. retainedRange' = RangeOf(s)
  <2>1. durableRetainedRange' = RangeOf(s)
    <3>1. durableRetainedRange' = RangeOf(durableRetentionEntries')
      BY DEF JournalInv, DurableExact
    <3>2. durableRetentionEntries' = s BY <1>1, <1>2, <1>3 DEF s
    <3> QED BY <3>1, <3>2
  <2>2. s # <<>> BY <1>2, <1>4, <1>7
  <2>3. committedEvidenceBoundary' \in Nat BY DEF JournalInv, TypeOK, CountersTypeOK
  <2>4. RangeOf(s) = <<s[1].sequence, committedEvidenceBoundary'>>
    BY <1>5, <2>2, <2>3, RangeFacts
  <2> QED BY <1>1, <2>1, <2>4
<1>10. 0 \in 0 .. Len(s) /\ Retains(s, 0) BY <1>5, <1>6, <1>8, <1>9, RetainsAll
<1>11. ASSUME processing' = "loop" PROVE WithinBudget'
  <2> DEFINE low == LowWater(limits)
  <2>1. DurableTarget = low /\ limits' = limits
    BY <1>1, <1>2, DurableTargetIs DEF limits, capacityTier
  <2>2. PICK t \in Tiers : limits = Limits[t] BY <1>2, DurableTargetIs
  <2>3. ~(/\ OverHighWater(limits, retainedCount + n, retainedBytes + BytesOf(evidence))
          /\ \/ durableRetainedCount + n > DurableTarget.count
             \/ durableBytes + BytesOf(evidence) > DurableTarget.bytes)
    BY <1>11 DEF journalCommitSucceeds, n, evidence
  <2>4. /\ limits.maxRetainedCount \in Nat /\ limits.maxRetainedBytes \in Nat
        /\ low.count \in Nat /\ low.bytes \in Nat
        /\ low.count <= limits.maxRetainedCount /\ low.bytes <= limits.maxRetainedBytes
    BY <2>2, LimitsAssumption, LowWaterBelow DEF LowWater
  <2> HIDE DEF low
  <2>5. ~(/\ OverHighWater(limits, retainedCount', retainedBytes')
          /\ retainedCount' > low.count \/ retainedBytes' > low.bytes)
    BY <1>1, <1>2, <2>1, <2>3
  <2>6. retainedCount' \in Nat /\ retainedBytes' \in Nat BY <1>8, <1>5, <1>10, BytesAreCut
  <2>7. ~OverHighWater(limits, retainedCount', retainedBytes')
    BY <2>4, <2>5, <2>6 DEF OverHighWater
  <2> QED BY <2>1, <2>7 DEF WithinBudget
<1> QED BY <1>10, <1>11 DEF s

\* A retention advance drops the oldest part of what is retained.
LEMMA TrimRetains ==
  ASSUME JournalInv, JournalInv', IsTail(Retained, committedEvidenceBoundary, interval), RetainedExact,
         journalTrimSucceeds
  PROVE  /\ Fresh = <<>>
         /\ \E k \in 0 .. Len(Retained) : Retains(Retained, k)
         /\ WithinBudget'
<1> DEFINE s == Retained
<1>1. /\ processing = "trim" /\ Fresh = <<>>
      /\ UNCHANGED <<persistenceMode, volatileEvidence, committedEvidenceBoundary>>
  BY DEF journalTrimSucceeds, Fresh, Advanced, sequenceVars
<1>2. /\ retainedCount = Len(s) /\ retainedBytes = BytesOf(s)
      /\ retainedEventIds = IdsOf(s) /\ s \in Seq(EvidenceType)
      /\ s = durableRetentionEntries /\ volatileEvidence = <<>>
      /\ durableRetainedCount = Len(s) /\ durableBytes = BytesOf(s)
      /\ Len(s) \in Nat
  BY <1>1, RetainedFacts
<1>3. PICK k \in 1 .. Len(s) :
        /\ IsPrefixTrim(s, Len(s), BytesOf(s), DurableTarget, k)
        /\ durableRetentionEntries' = SubSeq(s, k + 1, Len(s))
        /\ retainedEventIds' = retainedEventIds \ IdsOf(SubSeq(s, 1, k))
        /\ retainedCount' = retainedCount - k
        /\ retainedBytes' = Reduced(retainedBytes, BytesOf(SubSeq(s, 1, k)))
        /\ retainedRange' = IF durableRetainedRange' = NoRange THEN NoRange
                            ELSE <<durableRetainedRange'[1], committedEvidenceBoundary>>
  <2>1. s = durableRetentionEntries /\ durableRetainedCount = Len(s) /\ durableBytes = BytesOf(s)
    BY <1>2
  <2> HIDE DEF s
  <2> QED BY <2>1 DEF journalTrimSucceeds
<1> DEFINE kept == SubSeq(s, k + 1, Len(s))
<1>4. k \in 0 .. Len(s) BY <1>2
<1>5. /\ kept \in Seq(EvidenceType) /\ committedEvidenceBoundary \in Nat
      /\ IsTail(kept, committedEvidenceBoundary, interval)
  <2>1. committedEvidenceBoundary \in Nat BY DEF JournalInv, TypeOK, CountersTypeOK
  <2>2. IsTail(s, committedEvidenceBoundary, interval) OBVIOUS
  <2> HIDE DEF s
  <2> QED BY <1>2, <1>4, <2>1, <2>2, Parts, TailIsCut
<1> HIDE DEF kept
<1>6. Retained' = kept BY <1>5, EmptyConcat, <1>1, <1>2, <1>3 DEF Retained, kept
<1>7. retainedRange' = RangeOf(kept)
  <2>1. durableRetainedRange' = RangeOf(kept)
    <3>1. durableRetainedRange' = RangeOf(durableRetentionEntries')
      BY DEF JournalInv, DurableExact
    <3>2. durableRetentionEntries' = kept BY <1>3 DEF kept
    <3> QED BY <3>1, <3>2
  <2>2. CASE RangeOf(kept) = NoRange BY <1>3, <2>1, <2>2
  <2>3. CASE RangeOf(kept) # NoRange BY <1>3, <2>1, <2>3, <1>5, RangeFacts
  <2> QED BY <2>2, <2>3
<1> HIDE DEF s
<1>8. Retains(s, k) BY <1>6, <1>7, <1>2, <1>3 DEF Retains, kept
<1>9. WithinBudget'
  <2>1. DurableTarget = LowWater(limits) /\ limits' = limits
    BY <1>1, <1>2, DurableTargetIs DEF limits, capacityTier
  <2>2. PICK t \in Tiers : limits = Limits[t] BY <1>2, DurableTargetIs
  <2>3. IsPrefixTrim(s, Len(s), BytesOf(s), LowWater(Limits[t]), k) BY <1>3, <2>1, <2>2
  <2>4. ~OverHighWater(Limits[t], Len(s) - k, Reduced(BytesOf(s), BytesOf(SubSeq(s, 1, k))))
    BY <1>2, <1>4, <2>3, TrimIsEnough
  <2>5. ~OverHighWater(limits', retainedCount', retainedBytes')
    BY <1>8, <2>1, <2>2, <2>4 DEF Retains
  <2> QED BY <2>5 DEF WithinBudget
<1> QED BY <1>1, <1>4, <1>8, <1>9 DEF s

\* A batch that memory accepts is added to what is retained, which is trimmed.
LEMMA AcceptRetains ==
  ASSUME JournalInv, JournalInv', IsTail(Retained, committedEvidenceBoundary, interval), RetainedExact,
         memoryAccepts
  PROVE  \E k \in 0 .. Len(Retained \o Fresh) : Retains(Retained \o Fresh, k) /\ WithinBudget'
<1> DEFINE evidence == EvidenceOf(batch)
           s == Retained \o Fresh
<1>1. /\ processing = "commit" /\ persistenceMode = "MEMORY" /\ persistenceMode' = persistenceMode
      /\ durableRetentionEntries' = durableRetentionEntries /\ Fresh = evidence
  BY DEF memoryAccepts, durableVars, Fresh, Advanced
<1>2. /\ retainedCount = Len(Retained) /\ retainedBytes = BytesOf(Retained)
      /\ retainedEventIds = IdsOf(Retained) /\ Retained \in Seq(EvidenceType)
      /\ Retained = volatileEvidence /\ durableRetentionEntries = <<>>
  BY <1>1, RetainedFacts
<1>3. /\ evidence \in Seq(EvidenceType) /\ s \in Seq(EvidenceType)
      /\ IsTail(s, committedEvidenceBoundary', interval)
  BY <1>1, GrownTail, BatchKinds DEF JournalInv
<1>4. /\ Len(s) = Len(Retained) + Len(evidence) /\ IdsOf(s) = IdsOf(Retained) \cup IdsOf(evidence)
      /\ BytesOf(s) = BytesOf(Retained) + BytesOf(evidence)
  <2> HIDE DEF evidence
  <2>1. Len(s) = Len(Retained) + Len(evidence) BY <1>1, <1>2, <1>3, Concat
  <2>2. IdsOf(s) = IdsOf(Retained) \cup IdsOf(evidence) BY <1>1, <1>2, <1>3, IdsFacts
  <2>3. \A e \in EvidenceType : e.bytes \in Nat BY EvidenceFacts
  <2>4. BytesOf(s) = BytesOf(Retained) + BytesOf(evidence)
    <3> HIDE DEF EvidenceType
    <3> QED BY <1>1, <1>2, <1>3, <2>3, BytesFacts
  <2> QED BY <2>1, <2>2, <2>4
<1>5. KeepInMemory(s, Len(s), BytesOf(s), IdsOf(s))
  <2>1. KeepInMemory(volatileEvidence \o evidence, retainedCount + Len(evidence),
                     retainedBytes + BytesOf(evidence), retainedEventIds \cup IdsOf(evidence))
    BY DEF memoryAccepts
  <2>2. /\ volatileEvidence \o evidence = s /\ retainedCount + Len(evidence) = Len(s)
        /\ retainedBytes + BytesOf(evidence) = BytesOf(s)
        /\ retainedEventIds \cup IdsOf(evidence) = IdsOf(s)
    BY <1>1, <1>2, <1>4
  <2> QED BY <2>1, <2>2
<1>6. committedEvidenceBoundary' \in Nat BY DEF JournalInv, TypeOK, CountersTypeOK
<1> HIDE DEF s
<1>7. \E k \in 0 .. Len(s) : Retains(s, k) /\ WithinBudget'
  BY <1>1, <1>2, <1>3, <1>5, <1>6, MemoryRetains
<1> QED BY <1>7 DEF s

\* A fallback retains the durable part when it could be read, and forgets it
\* otherwise; the batch is added behind it and the whole trimmed.
LEMMA FallBackRetains ==
  ASSUME JournalInv, JournalInv', IsTail(Retained, committedEvidenceBoundary, interval), RetainedExact,
         Identities, NEW read \in BOOLEAN, fallBackAfterCommit(read) \/ fallBackAfterTrim(read)
  PROVE  \E s \in {Retained, <<>>} :
           \E k \in 0 .. Len(s \o Fresh) : Retains(s \o Fresh, k) /\ WithinBudget'
<1> DEFINE base == IF read THEN Retained ELSE <<>>
           s == base \o Fresh
<1>1. /\ processing \in {"snapshot", "trimSnapshot"} /\ detachDurablePrefix(read, Fresh)
      /\ persistenceMode' = "MEMORY" /\ durableRetentionEntries' = <<>>
  BY DEF fallBackAfterCommit, fallBackAfterTrim, Fresh, Advanced, detachDurablePrefix
<1>2. /\ retainedCount = Len(Retained) /\ retainedBytes = BytesOf(Retained)
      /\ retainedEventIds = IdsOf(Retained) /\ Retained \in Seq(EvidenceType)
      /\ Retained = durableRetentionEntries /\ volatileEvidence = <<>>
      /\ durableRetainedCount = retainedCount /\ durableBytes = retainedBytes
      /\ Len(Retained) \in Nat /\ BytesOf(Retained) \in Nat
  BY <1>1, RetainedFacts
<1>3. base \in {Retained, <<>>} /\ base \in Seq(EvidenceType) BY <1>2
<1>4. /\ Fresh \in Seq(EvidenceType) /\ s \in Seq(EvidenceType)
      /\ IsTail(s, committedEvidenceBoundary', interval)
  <2> HIDE DEF base
  <2> QED BY <1>3, GrownTail, BatchKinds DEF JournalInv
<1>5. IdsOf(Fresh) \cap IdsOf(Retained) = {}
  <2>1. CASE Advanced BY <2>1 DEF Fresh, IdsOf
  <2>2. CASE ~Advanced BY <2>2, EvidenceIsTheBatch DEF Fresh, Identities, JournalInv, TypeOK
  <2> QED BY <2>1, <2>2
<1>6. /\ Len(s) = Len(base) + Len(Fresh) /\ IdsOf(s) = IdsOf(base) \cup IdsOf(Fresh)
      /\ BytesOf(s) = BytesOf(base) + BytesOf(Fresh)
      /\ Len(Fresh) \in Nat /\ BytesOf(Fresh) \in Nat
  <2> HIDE DEF base
  <2>1. Len(s) = Len(base) + Len(Fresh) /\ Len(Fresh) \in Nat BY <1>3, <1>4, Concat
  <2>2. IdsOf(s) = IdsOf(base) \cup IdsOf(Fresh) BY <1>3, <1>4, IdsFacts
  <2>3. \A e \in EvidenceType : e.bytes \in Nat BY EvidenceFacts
  <2>4. BytesOf(s) = BytesOf(base) + BytesOf(Fresh) /\ BytesOf(Fresh) \in Nat
    <3> HIDE DEF EvidenceType
    <3> QED BY <1>3, <1>4, <2>3, BytesFacts
  <2> QED BY <2>1, <2>2, <2>4
<1> DEFINE entries == (IF read THEN durableRetentionEntries ELSE <<>>) \o volatileEvidence \o Fresh
           count == retainedCount + Len(Fresh) - (IF read THEN 0 ELSE durableRetainedCount)
           bytes == Reduced(retainedBytes + BytesOf(Fresh), IF read THEN 0 ELSE durableBytes)
           ids == (retainedEventIds \cup IdsOf(Fresh))
                    \ (IF read THEN {} ELSE IdsOf(durableRetentionEntries))
<1>7. KeepInMemory(entries, count, bytes, ids) BY <1>1 DEF detachDurablePrefix
<1>8. entries = s
  <2>1. base \o <<>> = base
    <3> HIDE DEF base
    <3> QED BY <1>3, EmptyConcat
  <2>2. entries = (base \o <<>>) \o Fresh BY <1>2
  <2> QED BY <2>1, <2>2
<1>9. count = Len(s) /\ bytes = BytesOf(s) /\ ids = IdsOf(s)
  <2>1. CASE read
    <3>1. base = Retained BY <2>1
    <3> HIDE DEF base, s
    <3>2. ids = IdsOf(s) BY <1>2, <1>6, <2>1, <3>1
    <3>3. count = Len(s) BY <1>2, <1>6, <2>1, <3>1
    <3>4. bytes = BytesOf(s) BY <1>2, <1>6, <2>1, <3>1 DEF Reduced
    <3> QED BY <3>2, <3>3, <3>4
  <2>2. CASE ~read
    <3>1. base = <<>> /\ Len(<<>>) = 0 /\ BytesOf(<<>>) = 0 /\ IdsOf(<<>>) = {}
      BY <2>2, NoBytes DEF IdsOf
    <3> HIDE DEF base, s
    <3>2. ids = IdsOf(s) BY <1>2, <1>5, <1>6, <2>2, <3>1
    <3>3. count = Len(s) BY <1>2, <1>6, <2>2, <3>1
    <3>4. bytes = BytesOf(s)
      <4>1. /\ bytes = Reduced(BytesOf(Retained) + BytesOf(Fresh), BytesOf(Retained))
            /\ BytesOf(s) = BytesOf(Fresh)
        BY <1>2, <1>6, <2>2, <3>1
      <4> HIDE DEF bytes
      <4> QED BY <1>2, <1>6, <4>1 DEF Reduced
    <3> QED BY <3>2, <3>3, <3>4
  <2> QED BY <2>1, <2>2
<1>10. committedEvidenceBoundary' \in Nat BY DEF JournalInv, TypeOK, CountersTypeOK
<1> HIDE DEF s, entries, count, bytes, ids
<1>11. KeepInMemory(s, Len(s), BytesOf(s), IdsOf(s)) BY <1>7, <1>8, <1>9
<1>12. \E k \in 0 .. Len(s) : Retains(s, k) /\ WithinBudget'
  BY <1>1, <1>4, <1>10, <1>11, MemoryRetains
<1> HIDE DEF base
<1> QED BY <1>3, <1>12 DEF s

\* What a step of the batch leaves of what was retained and what it adds.
LEMMA BatchRetains ==
  ASSUME JournalInv, JournalInv', IsTail(Retained, committedEvidenceBoundary, interval), RetainedExact,
         Identities,
         \/ journalCommitSucceeds \/ journalTrimSucceeds \/ memoryAccepts
         \/ \E read \in BOOLEAN : fallBackAfterCommit(read) \/ fallBackAfterTrim(read)
  PROVE  /\ \E s \in {Retained, <<>>} : \E k \in 0 .. Len(s \o Fresh) : Retains(s \o Fresh, k)
         /\ processing' = "loop" => WithinBudget'
         /\ Releases \/ Advances
         /\ processing # "no"
<1> DEFINE Goal == /\ \E s \in {Retained, <<>>} : \E k \in 0 .. Len(s \o Fresh) : Retains(s \o Fresh, k)
                   /\ processing' = "loop" => WithinBudget'
<1>1. (Releases \/ Advances) /\ processing # "no"
  <2>1. Releases \/ Advances BY BatchKinds DEF JournalInv
  <2>2. processing # "no"
    BY DEF journalCommitSucceeds, journalTrimSucceeds, memoryAccepts, fallBackAfterCommit,
           fallBackAfterTrim
  <2> QED BY <2>1, <2>2
<1>w. ASSUME NEW k \in 0 .. Len(Retained \o Fresh), Retains(Retained \o Fresh, k),
             processing' = "loop" => WithinBudget'
      PROVE  Goal
  <2>1. Retained \in {Retained, <<>>} OBVIOUS
  <2> HIDE DEF Retained
  <2> QED BY <1>w, <2>1, Zenon
<1> HIDE DEF Goal
<1> SUFFICES Goal BY <1>1 DEF Goal
<1>2. CASE journalCommitSucceeds
  <2>1. /\ 0 \in 0 .. Len(Retained \o Fresh) /\ Retains(Retained \o Fresh, 0)
        /\ processing' = "loop" => WithinBudget'
    BY <1>2, CommitRetains
  <2> QED BY <1>w, <2>1, Zenon
<1>3. CASE journalTrimSucceeds
  <2>1. PICK k \in 0 .. Len(Retained) : Retains(Retained, k) BY <1>3, TrimRetains
  <2>2. Retained \o Fresh = Retained
    <3>1. Fresh = <<>> /\ Retained \in Seq(EvidenceType) BY <1>3, TrimRetains, RetainedParts
    <3> HIDE DEF Retained
    <3> QED BY <3>1, EmptyConcat
  <2>3. WithinBudget' BY <1>3, TrimRetains
  <2>4. k \in 0 .. Len(Retained \o Fresh) /\ Retains(Retained \o Fresh, k) BY <2>1, <2>2
  <2> QED BY <1>w, <2>3, <2>4, Zenon
<1>4. CASE memoryAccepts
  <2>1. PICK k \in 0 .. Len(Retained \o Fresh) : Retains(Retained \o Fresh, k) /\ WithinBudget'
    BY <1>4, AcceptRetains
  <2> QED BY <1>w, <2>1, Zenon
<1>5. ASSUME NEW read \in BOOLEAN, fallBackAfterCommit(read) \/ fallBackAfterTrim(read)
      PROVE  Goal
  BY <1>5, FallBackRetains DEF Goal
<1> QED BY <1>2, <1>3, <1>4, <1>5

\* What is kept of a sequence: its last entries, measured exactly.
LEMMA KeptParts ==
  ASSUME NEW s \in Seq(EvidenceType), NEW k \in 0 .. Len(s), Retains(s, k)
  PROVE  /\ Retained' \in Seq(EvidenceType) /\ Len(Retained') = Len(s) - k
         /\ \A i \in 1 .. Len(s) - k : k + i \in 1 .. Len(s) /\ Retained'[i] = s[k + i]
         /\ retainedCount' = Len(Retained') /\ retainedBytes' = BytesOf(Retained')
         /\ retainedRange' = RangeOf(Retained')
         /\ DistinctIds(s) => DistinctIds(Retained') /\ retainedEventIds' = IdsOf(Retained')
         /\ IdsOf(Retained') \subseteq IdsOf(s)
<1> DEFINE gone == SubSeq(s, 1, k)
           kept == SubSeq(s, k + 1, Len(s))
<1>1. /\ gone \in Seq(EvidenceType) /\ kept \in Seq(EvidenceType) /\ s = gone \o kept
      /\ Len(kept) = Len(s) - k /\ \A i \in 1 .. Len(s) - k : kept[i] = s[k + i]
  BY Parts
<1>2. \A i \in 1 .. Len(s) - k : k + i \in 1 .. Len(s) OBVIOUS
<1>3. Reduced(BytesOf(s), BytesOf(gone)) = BytesOf(kept) BY BytesAreCut
<1>4. /\ Retained' = kept /\ retainedCount' = Len(s) - k
      /\ retainedBytes' = Reduced(BytesOf(s), BytesOf(gone))
      /\ retainedEventIds' = IdsOf(s) \ IdsOf(gone) /\ retainedRange' = RangeOf(kept)
  BY DEF Retains
<1> HIDE DEF gone, kept
<1>5. /\ IdsOf(s) = IdsOf(gone) \cup IdsOf(kept)
      /\ DistinctIds(s) => DistinctIds(kept) /\ IdsOf(gone) \cap IdsOf(kept) = {}
  BY <1>1, IdsFacts
<1> HIDE DEF Retained
<1>6. DistinctIds(s) => DistinctIds(Retained') /\ retainedEventIds' = IdsOf(Retained')
  <2>1. ASSUME DistinctIds(s) PROVE retainedEventIds' = IdsOf(kept) BY <1>4, <1>5, <2>1
  <2>2. ASSUME DistinctIds(s) PROVE DistinctIds(Retained') BY <1>4, <1>5, <2>2
  <2> QED BY <1>4, <2>1, <2>2
<1>7. IdsOf(Retained') \subseteq IdsOf(s) BY <1>4, <1>5
<1> HIDE DEF EvidenceType
<1> QED BY <1>1, <1>2, <1>3, <1>4, <1>6, <1>7

\* The decided ordinals have one end.
LEMMA OneDecided ==
  ASSUME NEW d \in 0 .. captured, NEW e \in 0 .. captured, captured \in Nat, Decided(d), Decided(e)
  PROVE  d = e
<1>1. CASE d < e BY <1>1 DEF Decided
<1>2. CASE e < d BY <1>2 DEF Decided
<1> QED BY <1>1, <1>2

\* The Evidence of the batch follows the decided ordinals, and afterwards they
\* reach to its end, or would without the retention advance.
LEMMA FreshOrdinals ==
  ASSUME TypeOK, EntriesTile, Releases \/ Advances PROVE \E d \in 0 .. captured :
           /\ Decided(d)
           /\ Len(Fresh) <= Len(batch) /\ Len(Fresh) \in Nat
           /\ Len(Fresh) + Unsettled = Len(batch)
           /\ \A i \in 1 .. Len(Fresh) : Fresh[i].ordinal = d + i
           /\ \A e \in 0 .. captured' : Decided(e)' => d + Len(batch) <= e + Unsettled'
<1> DEFINE n == Len(batch)
           z == captured
<1>1. /\ batch \in Seq(CandidateType) /\ batch \in Seq(EntryType) /\ n \in Nat /\ z \in Nat
      /\ Queued \in Seq(EntryType) /\ pending \in Seq(EntryType) /\ postClearPending \in Seq(EntryType)
      /\ z' = z
  BY ReceiptDomain, QueuedTypes DEF TypeOK, QueuesTypeOK, Releases, Advances
<1>2. /\ Len(Fresh) <= n /\ Len(Fresh) \in Nat /\ Len(Fresh) + Unsettled = n
      /\ \A i \in 1 .. Len(Fresh) : i \in 1 .. n /\ Fresh[i].ordinal = batch[i].ordinal
  <2>1. CASE Advanced BY <1>1, <2>1 DEF Fresh, Unsettled
  <2>2. CASE ~Advanced
    <3>1. Fresh = EvidenceOf(batch) /\ Unsettled = 0 BY <2>2 DEF Fresh, Unsettled
    <3>2. Len(Fresh) = n /\ \A i \in 1 .. n : Fresh[i].ordinal = batch[i].ordinal
      BY <3>1, EvidenceIsTheBatch DEF TypeOK
    <3> QED BY <1>1, <3>1, <3>2
  <2> QED BY <2>1, <2>2
<1>3. CASE Releases
  <2>1. PICK d \in Nat :
          /\ Decided(d) /\ d + n <= z
          /\ \A i \in 1 .. n : batch[i].ordinal = d + i
          /\ \A o \in 1 .. d : receipt'[o] = receipt[o]
          /\ \A o \in d + 1 .. d + n : receipt'[o] = "BECAME_EVIDENCE"
    BY <1>3, ReleaseOrdinals
  <2>2. \A i \in 1 .. Len(Fresh) : Fresh[i].ordinal = d + i BY <1>2, <2>1
  <2>3. d \in 0 .. z BY <1>1, <2>1
  <2>4. ASSUME NEW e \in 0 .. z, Decided(e)' PROVE d + n <= e
    <3>1. \A o \in e + 1 .. z : receipt'[o] = "open" BY <1>1, <2>4 DEF Decided
    <3>2. SUFFICES ASSUME e < d + n PROVE FALSE BY <1>1, <2>1, <2>4
    <3>3. e + 1 \in e + 1 .. z /\ e + 1 \in Nat BY <1>1, <2>1, <3>2
    <3>4. receipt'[e + 1] = "open" BY <3>1, <3>3
    <3>5. CASE e + 1 \in 1 .. d BY <2>1, <3>4, <3>5 DEF Decided
    <3>6. CASE e + 1 \in d + 1 .. d + n BY <2>1, <3>4, <3>6
    <3> QED BY <1>1, <2>1, <3>2, <3>5, <3>6
  <2>5. Unsettled' = 0 BY <1>3 DEF Releases, Unsettled, Advanced
  <2>6. ASSUME NEW e \in 0 .. z', Decided(e)' PROVE d + n <= e + Unsettled'
    BY <1>1, <2>4, <2>5, <2>6
  <2> HIDE DEF n, z
  <2> QED BY <1>2, <2>1, <2>2, <2>3, <2>6 DEF n, z
<1>4. CASE Advances
  <2>1. PICK d \in Nat : Tiles(Queued, d, z) /\ Decided(d) BY DEF EntriesTile
  <2>2. pending \o postClearPending \in Seq(EntryType) /\ Queued = batch \o (pending \o postClearPending)
    BY <1>1, EntriesAssociate, SMTT(60) DEF Queued
  <2>3. PICK c \in Nat : Tiles(batch, d, c) /\ Tiles(pending \o postClearPending, c, z)
    <3>1. Tiles(batch \o (pending \o postClearPending), d, z) BY <2>1, <2>2
    <3> QED BY <1>1, <2>2, <3>1, TilesSplit, Zenon
  <2>4. \A i \in 1 .. n : batch[i].ordinal = d + i BY <1>1, <2>3, TilesBatch
  <2>5. d \in 0 .. z BY <1>1, <2>1, TilesCover
  <2>6. \A i \in 1 .. Len(Fresh) : Fresh[i].ordinal = d + i BY <1>2, <2>4
  <2>7. Unsettled' = n BY <1>4 DEF Advances, Unsettled, Advanced
  <2>8. ASSUME NEW e \in 0 .. z', Decided(e)' PROVE d + n <= e + Unsettled'
    <3>1. Decided(e) /\ e \in 0 .. z BY <1>1, <1>4, <2>8 DEF Decided, Advances, gapVars
    <3>2. e = d BY <1>1, <2>1, <2>5, <3>1, OneDecided
    <3> QED BY <1>1, <2>7, <3>2
  <2> HIDE DEF n, z
  <2> QED BY <1>2, <2>1, <2>5, <2>6, <2>8 DEF n, z
<1> QED BY <1>3, <1>4

\* Evidence has one ordinal, and of what is in order any end is.
LEMMA EvidenceOrdinals ==
  ASSUME NEW e \in EvidenceType
  PROVE  Lowest(e) = e.ordinal /\ Highest(e) = e.ordinal /\ e.ordinal \in Nat
PROOF BY DEF EvidenceType, Lowest, Highest, IsBarrier

\* A settled or advancing batch leaves what is retained in the order of capture
\* and before what waits.
LEMMA BatchOrder ==
  ASSUME TypeOK, EntriesTile, RetainedInOrder, Releases \/ Advances,
         Retained \in Seq(EvidenceType), Fresh \in Seq(EvidenceType),
         NEW s \in {Retained, <<>>}, NEW k \in 0 .. Len(s \o Fresh), Retains(s \o Fresh, k)
  PROVE  RetainedInOrder'
<1> DEFINE all == s \o Fresh
           kept == Retained'
           m == Len(s)
<1>1. PICK d \in 0 .. captured :
        /\ Decided(d)
        /\ Len(Fresh) <= Len(batch) /\ Len(Fresh) \in Nat
        /\ Len(Fresh) + Unsettled = Len(batch)
        /\ \A i \in 1 .. Len(Fresh) : Fresh[i].ordinal = d + i
        /\ \A e \in 0 .. captured' : Decided(e)' => d + Len(batch) <= e + Unsettled'
  BY FreshOrdinals
<1>2. s \in Seq(EvidenceType) /\ <<>> \in Seq(EvidenceType) /\ m \in Nat
  <2>1. <<>> \in Seq(EvidenceType) OBVIOUS
  <2>2. s \in Seq(EvidenceType)
    <3> HIDE DEF Retained, EvidenceType
    <3> QED BY <2>1
  <2> QED BY <2>1, <2>2
<1>3. /\ InOrder(s) /\ \A i \in 1 .. m : s[i].ordinal <= d + Unsettled
  <2>1. InOrder(<<>>) /\ Len(<<>>) = 0 /\ 1 .. 0 = {} BY DEF InOrder
  <2>2. InOrder(Retained) /\ \A i \in DOMAIN Retained : Retained[i].ordinal <= d + Unsettled
    BY <1>1 DEF RetainedInOrder
  <2>3. DOMAIN Retained = 1 .. Len(Retained)
    <3> HIDE DEF Retained
    <3> QED OBVIOUS
  <2>4. CASE s = Retained BY <2>2, <2>3, <2>4
  <2>5. CASE s = <<>> BY <2>1, <2>5
  <2> QED BY <2>4, <2>5
<1> HIDE DEF Retained
<1>4. /\ all \in Seq(EvidenceType) /\ Len(all) = m + Len(Fresh)
      /\ \A i \in 1 .. m : all[i] = s[i]
      /\ \A i \in 1 .. m + Len(Fresh) : i > m => i - m \in 1 .. Len(Fresh) /\ all[i] = Fresh[i - m]
  <2>1. /\ all \in Seq(EvidenceType) /\ Len(all) = m + Len(Fresh)
        /\ \A i \in 1 .. m : all[i] = s[i]
        /\ \A i \in 1 .. Len(Fresh) : all[m + i] = Fresh[i]
    <3> HIDE DEF EvidenceType
    <3> QED BY <1>2, Concat
  <2>2. ASSUME NEW i \in 1 .. m + Len(Fresh), i > m
        PROVE  i - m \in 1 .. Len(Fresh) /\ all[i] = Fresh[i - m]
    BY <2>1, <1>1, <1>2, <2>2
  <2> QED BY <2>1, <2>2
<1> HIDE DEF all
<1>5. ASSUME NEW i \in 1 .. m + Len(Fresh)
      PROVE  /\ Lowest(all[i]) = all[i].ordinal /\ Highest(all[i]) = all[i].ordinal
             /\ all[i].ordinal \in Nat /\ all[i].ordinal <= d + Len(batch)
  <2>1. all[i] \in EvidenceType BY <1>1, <1>2, <1>4
  <2>2. Unsettled \in Nat /\ Len(batch) \in Nat BY DEF Unsettled, TypeOK, QueuesTypeOK
  <2>3. all[i].ordinal \in Nat /\ Lowest(all[i]) = all[i].ordinal /\ Highest(all[i]) = all[i].ordinal
    BY <2>1, EvidenceOrdinals
  <2>4. CASE i <= m
    <3>1. i \in 1 .. m BY <1>1, <1>2, <2>4
    <3>2. all[i].ordinal <= d + Unsettled BY <1>3, <1>4, <3>1
    <3> QED BY <1>1, <2>2, <2>3, <3>2
  <2>5. CASE i > m
    <3>1. all[i].ordinal = d + (i - m) /\ i - m \in 1 .. Len(Fresh) BY <1>1, <1>4, <2>5
    <3> QED BY <1>1, <2>2, <2>3, <3>1
  <2> QED BY <1>1, <1>2, <2>4, <2>5
<1>6. ASSUME NEW i \in 1 .. m + Len(Fresh), NEW j \in 1 .. m + Len(Fresh), i < j
      PROVE  all[i].ordinal < all[j].ordinal
  <2>1. CASE j <= m
    <3>1. i \in 1 .. m /\ j \in 1 .. m /\ DOMAIN s = 1 .. m BY <1>1, <1>2, <1>6, <2>1
    <3>2. Highest(s[i]) < Lowest(s[j]) BY <1>3, <1>6, <3>1 DEF InOrder
    <3> QED BY <1>4, <1>5, <3>1, <3>2
  <2>2. CASE i <= m /\ j > m
    <3>1. i \in 1 .. m BY <1>1, <1>2, <2>2
    <3>2. all[i].ordinal <= d + Unsettled BY <1>3, <1>4, <3>1
    <3>3. all[j].ordinal = d + (j - m) /\ j - m \in 1 .. Len(Fresh) BY <1>1, <1>4, <2>2
    <3>4. Unsettled = 0
      <4>1. Unsettled = 0 \/ Fresh = <<>> BY DEF Unsettled, Fresh
      <4>2. Fresh = <<>> => Len(Fresh) = 0 OBVIOUS
      <4> QED BY <1>1, <3>3, <4>1, <4>2
    <3> QED BY <1>1, <1>5, <3>2, <3>3, <3>4
  <2>3. CASE i > m
    <3>1. j > m BY <1>1, <1>2, <1>6, <2>3
    <3>2. all[i].ordinal = d + (i - m) /\ all[j].ordinal = d + (j - m) BY <1>1, <1>4, <2>3, <3>1
    <3> QED BY <1>1, <1>2, <1>6, <3>2
  <2> QED BY <1>1, <1>2, <2>1, <2>2, <2>3
<1>7. /\ kept \in Seq(EvidenceType) /\ Len(kept) = (m + Len(Fresh)) - k
      /\ \A i \in 1 .. (m + Len(Fresh)) - k : k + i \in 1 .. m + Len(Fresh) /\ kept[i] = all[k + i]
  <2>1. k \in 0 .. Len(all) /\ Retains(all, k) BY DEF all
  <2>2. /\ Retained' \in Seq(EvidenceType) /\ Len(Retained') = Len(all) - k
        /\ \A i \in 1 .. Len(all) - k : k + i \in 1 .. Len(all) /\ Retained'[i] = all[k + i]
    BY <1>4, <2>1, KeptParts
  <2> HIDE DEF EvidenceType
  <2> QED BY <1>4, <2>2
<1> HIDE DEF kept
<1>8. DOMAIN kept = 1 .. (m + Len(Fresh)) - k /\ k \in Nat
  <2>1. Len(kept) \in Nat /\ DOMAIN kept = 1 .. Len(kept) BY <1>7
  <2>2. k \in Nat BY <1>1, <1>2, <1>4 DEF all
  <2> QED BY <1>7, <2>1, <2>2
<1>9. InOrder(kept)
  <2>1. ASSUME NEW i \in DOMAIN kept, NEW j \in DOMAIN kept, i < j
        PROVE  Highest(kept[i]) < Lowest(kept[j])
    <3>1. /\ k + i \in 1 .. m + Len(Fresh) /\ kept[i] = all[k + i]
          /\ k + j \in 1 .. m + Len(Fresh) /\ kept[j] = all[k + j]
      BY <1>7, <1>8
    <3>2. k + i < k + j BY <1>1, <1>2, <1>8, <2>1
    <3>3. all[k + i].ordinal < all[k + j].ordinal BY <1>6, <3>1, <3>2
    <3> QED BY <1>5, <3>1, <3>3
  <2> QED BY <2>1 DEF InOrder
<1>10. ASSUME NEW e \in 0 .. captured', NEW i \in DOMAIN kept, Decided(e)'
       PROVE  kept[i].ordinal <= e + Unsettled'
  <2>1. k + i \in 1 .. m + Len(Fresh) /\ kept[i] = all[k + i] BY <1>7, <1>8
  <2>2. all[k + i].ordinal \in Nat /\ all[k + i].ordinal <= d + Len(batch) BY <1>5, <2>1
  <2>3. d + Len(batch) <= e + Unsettled' BY <1>1, <1>10
  <2>4. Len(batch) \in Nat /\ Unsettled' \in Nat /\ d \in Nat /\ e \in Nat
    <3>1. Len(batch) \in Nat BY DEF TypeOK, QueuesTypeOK
    <3>2. Unsettled' \in Nat
      <4>1. CASE Releases BY <4>1 DEF Releases, Unsettled, Advanced
      <4>2. CASE Advances BY <3>1, <4>2 DEF Unsettled, Advances
      <4> QED BY <4>1, <4>2
    <3>3. d \in Nat /\ e \in Nat OBVIOUS
    <3> QED BY <3>1, <3>2, <3>3
  <2> QED BY <2>1, <2>2, <2>3, <2>4
<1> QED BY <1>9, <1>10 DEF RetainedInOrder, kept

\* A step of the batch leaves what is retained a tail that is measured exactly,
\* without repeated identities, in order and within budget.
LEMMA TailBatch ==
  ASSUME JournalInv, JournalInv', EntriesTile, IsTail(Retained, committedEvidenceBoundary, interval),
         Identities, RetainedInOrder, RetainedExact,
         \/ journalCommitSucceeds \/ journalTrimSucceeds \/ memoryAccepts
         \/ \E read \in BOOLEAN : fallBackAfterCommit(read) \/ fallBackAfterTrim(read)
  PROVE  /\ IsTail(Retained', committedEvidenceBoundary', interval')
         /\ Identities' /\ RetainedInOrder' /\ RetainedExact'
<1> DEFINE b == committedEvidenceBoundary
<1>1. /\ \E s \in {Retained, <<>>} : \E k \in 0 .. Len(s \o Fresh) : Retains(s \o Fresh, k)
      /\ processing' = "loop" => WithinBudget'
      /\ Releases \/ Advances
      /\ processing # "no"
  BY BatchRetains
<1>2. PICK s \in {Retained, <<>>} : \E k \in 0 .. Len(s \o Fresh) : Retains(s \o Fresh, k)
  BY <1>1
<1>3. PICK k \in 0 .. Len(s \o Fresh) : Retains(s \o Fresh, k) BY <1>2
<1>4. /\ Fresh \in Seq(EvidenceType) /\ s \in Seq(EvidenceType) /\ s \o Fresh \in Seq(EvidenceType)
      /\ IsTail(s \o Fresh, b', interval)
  BY <1>1, GrownTail
<1>5. /\ Retained \in Seq(EvidenceType) /\ TypeOK /\ b' \in Nat
      /\ interval' = interval
  BY <1>1, RetainedParts DEF JournalInv, TypeOK, CountersTypeOK, Releases, Advances
<1>6. RetainedInOrder' BY <1>1, <1>3, <1>4, <1>5, BatchOrder
<1> DEFINE all == s \o Fresh
<1>7. IsTail(Retained', b', interval')
  <2>1. Retained' = SubSeq(all, k + 1, Len(all)) BY <1>3 DEF Retains
  <2>2. IsTail(SubSeq(all, k + 1, Len(all)), b', interval)
    <3> HIDE DEF b
    <3> QED BY <1>3, <1>4, <1>5, TailIsCut
  <2> QED BY <1>5, <2>1, <2>2
<1>8. /\ DistinctIds(batch) /\ DistinctIds(Retained)
      /\ ~Advanced => IdsOf(batch) \cap IdsOf(Retained) = {}
  BY DEF Identities
<1>9. DistinctIds(all) /\ IdsOf(all) \subseteq IdsOf(Retained) \cup IdsOf(Fresh)
  <2>1. DistinctIds(<<>>) /\ IdsOf(<<>>) = {} BY DEF DistinctIds, IdsOf
  <2>2. DistinctIds(s) /\ IdsOf(s) \subseteq IdsOf(Retained)
    <3> HIDE DEF Retained
    <3> QED BY <1>8, <2>1
  <2>3. DistinctIds(Fresh) /\ IdsOf(Fresh) \cap IdsOf(Retained) = {}
    <3>1. CASE Advanced BY <2>1, <3>1 DEF Fresh
    <3>2. CASE ~Advanced
      <4>1. /\ IdsOf(Fresh) = IdsOf(batch) /\ Len(Fresh) = Len(batch)
            /\ \A i \in 1 .. Len(batch) : Fresh[i].eventId = batch[i].eventId
        BY <1>5, <3>2, EvidenceIsTheBatch DEF Fresh, TypeOK
      <4>2. DOMAIN batch = 1 .. Len(batch) /\ DOMAIN Fresh = 1 .. Len(Fresh)
        BY <1>4, <1>5 DEF TypeOK, QueuesTypeOK
      <4>3. DistinctIds(Fresh) BY <1>8, <4>1, <4>2 DEF DistinctIds
      <4> QED BY <1>8, <3>2, <4>1, <4>3
    <3> QED BY <3>1, <3>2
  <2>4. IdsOf(s) \cap IdsOf(Fresh) = {} BY <2>2, <2>3
  <2>5. IdsOf(all) = IdsOf(s) \cup IdsOf(Fresh) /\ DistinctIds(all)
    <3> HIDE DEF EvidenceType
    <3> QED BY <1>4, <2>2, <2>3, <2>4, IdsFacts
  <2> QED BY <2>2, <2>5
<1> HIDE DEF all
<1>10. /\ retainedCount' = Len(Retained') /\ retainedBytes' = BytesOf(Retained')
       /\ retainedRange' = RangeOf(Retained')
       /\ DistinctIds(Retained') /\ retainedEventIds' = IdsOf(Retained')
  BY <1>9, KeptParts, <1>3, <1>4 DEF all
<1>11. Identities'
  <2>1. DistinctIds(<<>>) /\ IdsOf(<<>>) = {} BY DEF DistinctIds, IdsOf
  <2>2. CASE Releases
    <3>1. batch' = <<>> BY <2>2 DEF Releases
    <3>2. DistinctIds(batch)' /\ IdsOf(batch') = {} BY <2>1, <3>1 DEF DistinctIds
    <3>3. DistinctIds(Retained)' BY <1>10 DEF DistinctIds
    <3> QED BY <3>2, <3>3 DEF Identities
  <2>3. CASE Advances
    <3>1. batch' = batch /\ Advanced' BY <2>3 DEF Advances, Advanced
    <3>2. DistinctIds(batch)' BY <1>8, <3>1 DEF DistinctIds
    <3>3. DistinctIds(Retained)' BY <1>10 DEF DistinctIds
    <3> QED BY <3>1, <3>2, <3>3 DEF Identities
  <2> QED BY <1>1, <2>2, <2>3
<1>12. RetainedExact'
  <2>1. processing' \in {"no", "loop"} => WithinBudget' BY <1>1 DEF Releases, Advances
  <2> QED BY <1>10, <2>1 DEF RetainedExact, WithinBudget
<1> QED BY <1>6, <1>7, <1>11, <1>12

\* What is retained stays in order while it is not touched and no receipt that
\* is settled is opened again.
LEMMA OrderKept ==
  ASSUME TypeOK, EntriesTile, RetainedInOrder, Retained' = Retained, Unsettled' = Unsettled,
         captured' \in Nat, captured <= captured',
         \A o \in 1 .. captured : receipt[o] # "open" => receipt'[o] # "open"
  PROVE  RetainedInOrder'
<1>1. PICK d \in Nat : Tiles(Queued, d, captured) /\ Decided(d) BY DEF EntriesTile
<1>2. captured \in Nat /\ d <= captured
  BY <1>1, TilesCover, ReceiptDomain, QueuedTypes DEF TypeOK
<1> HIDE DEF Retained
<1>3. ASSUME NEW e \in 0 .. captured', Decided(e)' PROVE d <= e
  <2>1. SUFFICES ASSUME e < d PROVE FALSE BY <1>2
  <2>2. e + 1 \in 1 .. d /\ e + 1 \in 1 .. captured /\ e + 1 \in e + 1 .. captured'
    BY <1>2, <2>1
  <2>3. receipt[e + 1] # "open" BY <1>1, <2>2 DEF Decided
  <2>4. receipt'[e + 1] = "open" BY <1>3, <2>2 DEF Decided
  <2> QED BY <2>2, <2>3, <2>4
<1>4. ASSUME NEW e \in 0 .. captured', NEW i \in DOMAIN Retained, Decided(e)'
      PROVE  Retained[i].ordinal <= e + Unsettled
  <2>1. Retained[i].ordinal <= d + Unsettled /\ d \in 0 .. captured
    BY <1>1, <1>2 DEF RetainedInOrder
  <2>2. d <= e BY <1>3, <1>4
  <2>3. Unsettled \in Nat BY DEF Unsettled, TypeOK, QueuesTypeOK
  <2>4. Retained[i].ordinal \in Nat
    <3>1. Retained \in Seq(EvidenceType) BY Concat DEF Retained, TypeOK, QueuesTypeOK
    <3>2. Retained[i] \in EvidenceType
      <4> HIDE DEF EvidenceType
      <4> QED BY <3>1
    <3> QED BY <3>2, EvidenceOrdinals
  <2> QED BY <1>2, <2>1, <2>2, <2>3, <2>4
<1>5. InOrder(Retained') BY DEF RetainedInOrder
<1> QED BY <1>4, <1>5 DEF RetainedInOrder

\* What is retained stays a tail that is measured exactly, without repeated
\* identities and in order, whatever happens.
LEMMA TailStep ==
  ASSUME JournalInv, JournalInv', EntriesTile, IsTail(Retained, committedEvidenceBoundary, interval),
         Identities, RetainedInOrder, RetainedExact, [Next]_vars
  PROVE  /\ IsTail(Retained', committedEvidenceBoundary', interval')
         /\ Identities' /\ RetainedInOrder' /\ RetainedExact'
<1> USE DEF queueVars, durableVars, retainedVars, gapVars, clearVars, closeVars, journalVars,
            sequenceVars, historyVars, captureVars
<1> DEFINE Goal == /\ IsTail(Retained', committedEvidenceBoundary', interval')
                   /\ Identities' /\ RetainedInOrder' /\ RetainedExact'
           ReceiptsStay == \A o \in 1 .. captured : receipt[o] # "open" => receipt'[o] # "open"
<1>0. /\ TypeOK /\ captured \in Nat /\ captured' \in Nat
      /\ DOMAIN receipt = 1 .. captured
  BY ReceiptDomain DEF JournalInv, TypeOK, CountersTypeOK
<1>1. ASSUME UNCHANGED <<durableRetentionEntries, volatileEvidence, committedEvidenceBoundary, interval>>,
             Identities', Unsettled' = Unsettled, captured <= captured', ReceiptsStay,
             phase' = "RUNNING" => /\ phase = "RUNNING"
                                   /\ UNCHANGED <<retainedVars, persistenceMode>>
                                   /\ processing' \in {"no", "loop"} => processing \in {"no", "loop"}
      PROVE  Goal
  <2>1. Retained' = Retained BY <1>1 DEF Retained
  <2>2. RetainedInOrder' BY <1>0, <1>1, <2>1, OrderKept
  <2>3. RetainedExact'
    <3>1. SUFFICES ASSUME phase' = "RUNNING"
                   PROVE  /\ retainedCount' = Len(Retained') /\ retainedBytes' = BytesOf(Retained')
                          /\ retainedRange' = RangeOf(Retained') /\ retainedEventIds' = IdsOf(Retained')
                          /\ processing' \in {"no", "loop"}
                               => ~OverHighWater(limits', retainedCount', retainedBytes')
      BY DEF RetainedExact
    <3>2. limits' = limits BY <1>1, <3>1 DEF limits, capacityTier
    <3> QED BY <1>1, <2>1, <3>1, <3>2 DEF RetainedExact
  <2>4. IsTail(Retained', committedEvidenceBoundary', interval') BY <1>1, <2>1
  <2> QED BY <1>1, <2>2, <2>3, <2>4
<1> HIDE DEF Goal
<1> SUFFICES Goal BY DEF Goal
<1>2. ASSUME UNCHANGED <<historyVars, batch>>, Advanced' = Advanced,
             captured <= captured', ReceiptsStay,
             phase' = "RUNNING" => phase = "RUNNING",
             processing' \in {"no", "loop"} => processing \in {"no", "loop"}
      PROVE  Goal
  <2>1. Identities' BY <1>2 DEF Identities, DistinctIds, Retained
  <2>2. Unsettled' = Unsettled BY <1>2 DEF Unsettled
  <2> QED BY <1>1, <1>2, <2>1, <2>2
<1>3. ASSUME TakesOrdinal PROVE Goal
  <2>1. ReceiptsStay BY <1>0, <1>3 DEF TakesOrdinal, JournalInv, TypeOK, CountersTypeOK
  <2>2. captured <= captured' BY <1>0, <1>3 DEF TakesOrdinal
  <2> HIDE DEF ReceiptsStay
  <2>3. UNCHANGED <<historyVars, batch, phase, processing>> BY <1>3 DEF TakesOrdinal
  <2> QED BY <1>2, <2>1, <2>2, <2>3 DEF Advanced
<1>4. ASSUME NEW id \in EventIds, NEW b \in Sizes, offer(id, b) PROVE Goal
  BY <1>3, <1>4 DEF offer
<1>5. ASSUME NEW b \in Sizes, NEW dim \in Dimensions, refuseUnretainable(b, dim) PROVE Goal
  BY <1>3, <1>5 DEF refuseUnretainable
<1>6. CASE settleLeadingGapBarrier
  <2>1. ReceiptsStay BY <1>0, <1>6 DEF Settle, settleLeadingGapBarrier, settleGapBarrier
  <2>2. /\ UNCHANGED <<durableRetentionEntries, volatileEvidence, committedEvidenceBoundary, interval,
                       batch, phase, processing, retainedVars, persistenceMode, captured>>
    BY <1>6 DEF settleLeadingGapBarrier
  <2> HIDE DEF ReceiptsStay
  <2>3. Identities' /\ Unsettled' = Unsettled
    BY <2>2 DEF Identities, DistinctIds, Retained, Advanced, Unsettled
  <2>4. captured <= captured' BY <1>0, <2>2
  <2> QED BY <1>1, <2>1, <2>2, <2>3, <2>4
<1>7. ASSUME NEW n \in 0..MaxCaptured, takeBatch(n) PROVE Goal
  <2>1. /\ UNCHANGED <<phase, retainedVars, durableRetentionEntries, committedEvidenceBoundary, interval,
                       persistenceMode, captured, receipt>>
        /\ processing = "loop" /\ processing' \in {"loop", "commit"}
        /\ pending \in Seq(EntryType)
        /\ n \in 0 .. Len(pending) /\ IsBatchLength(n)
        /\ batch' = SubSeq(pending, 1, n)
    BY <1>0, <1>7, BoundsAssumption DEF takeBatch, TypeOK, QueuesTypeOK
  <2>2. batch' \in Seq(EntryType) /\ Len(batch') = n /\ \A i \in 1 .. n : batch'[i] = pending[i]
    <3> HIDE DEF EntryType
    <3> QED BY <2>1, Parts
  <2>3. DOMAIN batch' = 1 .. n /\ n \in Nat BY <2>1, <2>2
  <2>4. retainedEventIds = IdsOf(Retained) BY <2>1, RetainedFacts
  <2>5. ASSUME NEW i \in 1 .. n
        PROVE  /\ batch'[i].eventId \notin retainedEventIds
               /\ \A j \in 1 .. (i - 1) : batch'[j].eventId # batch'[i].eventId
    <3>1. ~RepeatsIdentity(i) /\ batch'[i] = pending[i] BY <2>1, <2>2 DEF IsBatchLength
    <3>2. ASSUME NEW j \in 1 .. (i - 1) PROVE batch'[j] = pending[j] BY <2>2, <2>3
    <3> QED BY <3>1, <3>2 DEF RepeatsIdentity
  <2>6. ASSUME NEW i \in 1 .. n, NEW j \in 1 .. n, i # j
        PROVE  batch'[i].eventId # batch'[j].eventId
    <3>1. CASE j \in 1 .. (i - 1) BY <2>5, <3>1
    <3>2. CASE i \in 1 .. (j - 1) BY <2>5, <3>2
    <3> QED BY <2>3, <2>6, <3>1, <3>2
  <2>7. Retained' = Retained BY <2>1 DEF Retained
  <2>8. Identities'
    <3>1. DistinctIds(batch)' BY <2>3, <2>6 DEF DistinctIds
    <3>2. DistinctIds(Retained)' BY <2>7 DEF Identities, DistinctIds
    <3>3. IdsOf(batch') \cap IdsOf(Retained') = {} BY <2>3, <2>4, <2>5, <2>7 DEF IdsOf
    <3> QED BY <3>1, <3>2, <3>3 DEF Identities
  <2>9. Unsettled' = Unsettled BY <2>1 DEF Unsettled, Advanced
  <2>10. ReceiptsStay BY <2>1
  <2>11. captured <= captured' BY <1>0, <2>1
  <2> HIDE DEF ReceiptsStay
  <2> QED BY <1>1, <2>1, <2>8, <2>9, <2>10, <2>11
<1>8. CASE \/ journalCommitSucceeds \/ journalTrimSucceeds \/ memoryAccepts
           \/ \E read \in BOOLEAN : fallBackAfterCommit(read) \/ fallBackAfterTrim(read)
  BY <1>8, TailBatch DEF Goal
<1>9. CASE clearSucceeds
  <2>1. Retained' = <<>> BY <1>9 DEF clearSucceeds, Retained
  <2>2. Len(<<>>) = 0 /\ DOMAIN <<>> = {} /\ IdsOf(<<>>) = {} /\ BytesOf(<<>>) = 0
    BY NoBytes DEF IdsOf
  <2>3. committedEvidenceBoundary' \in Nat BY DEF JournalInv, TypeOK, CountersTypeOK
  <2>4. IsTail(Retained', committedEvidenceBoundary', interval') BY <2>1, <2>2, <2>3 DEF IsTail
  <2>5. RetainedInOrder' BY <2>1, <2>2 DEF RetainedInOrder, InOrder
  <2>6. Identities' BY <1>9, <2>1, <2>2 DEF clearSucceeds, Identities, DistinctIds, Advanced
  <2>7. ~OverHighWater(limits', 0, 0)
    <3>1. limits' \in {Limits[t] : t \in Tiers} BY DEF limits, capacityTier, Tiers
    <3>2. limits'.maxRetainedCount \in Nat /\ limits'.maxRetainedBytes \in Nat
      BY <3>1, LimitsAssumption
    <3> QED BY <3>2 DEF OverHighWater
  <2>8. RetainedExact' BY <1>9, <2>1, <2>2, <2>7 DEF clearSucceeds, RetainedExact, RangeOf
  <2> QED BY <2>4, <2>5, <2>6, <2>8 DEF Goal
<1>10. CASE closeEnds
  <2>1. /\ UNCHANGED <<durableRetentionEntries, volatileEvidence, committedEvidenceBoundary, interval,
                       batch, processing, captured, receipt>>
        /\ phase' # "RUNNING"
    BY <1>10 DEF closeEnds, UnchangedByClose
  <2>2. Identities' /\ Unsettled' = Unsettled
    BY <2>1 DEF Identities, DistinctIds, Retained, Advanced, Unsettled
  <2>3. ReceiptsStay BY <2>1
  <2>4. captured <= captured' BY <1>0, <2>1
  <2> HIDE DEF ReceiptsStay
  <2> QED BY <1>1, <2>1, <2>2, <2>3, <2>4
<1>11. CASE startProcessing \/ journalCommitFails \/ journalTrimFails
  <2>1. /\ UNCHANGED <<durableRetentionEntries, volatileEvidence, committedEvidenceBoundary, interval,
                       batch, phase, retainedVars, persistenceMode, captured, receipt>>
        /\ Advanced' = Advanced
        /\ processing' \in {"no", "loop"} => processing \in {"no", "loop"}
    <3>1. CASE startProcessing BY <3>1 DEF startProcessing, Advanced
    <3>2. CASE journalCommitFails BY <3>2 DEF journalCommitFails, UnchangedByBatch, Advanced
    <3>3. CASE journalTrimFails BY <3>3 DEF journalTrimFails, UnchangedByBatch, Advanced
    <3> QED BY <1>11, <3>1, <3>2, <3>3
  <2>2. Identities' /\ Unsettled' = Unsettled
    BY <2>1 DEF Identities, DistinctIds, Retained, Unsettled
  <2>3. ReceiptsStay BY <2>1
  <2>4. captured <= captured' BY <1>0, <2>1
  <2> HIDE DEF ReceiptsStay
  <2> QED BY <1>1, <2>1, <2>2, <2>3, <2>4
<1>12. CASE \/ finishProcessing \/ clear \/ clearBegins \/ clearFails \/ clearCleanup
            \/ close \/ closeAfterClear \/ closeBegins \/ UNCHANGED vars
  <2>1. /\ UNCHANGED <<durableRetentionEntries, volatileEvidence, committedEvidenceBoundary, interval,
                       batch, phase, retainedVars, persistenceMode, captured, receipt>>
        /\ Advanced' = Advanced
        /\ processing' \in {"no", "loop"} => processing \in {"no", "loop"}
    <3>1. CASE finishProcessing BY <3>1 DEF finishProcessing, Advanced
    <3>2. CASE clear \/ clearBegins \/ clearFails \/ clearCleanup
      BY <3>2 DEF clear, clearBegins, clearFails, clearCleanup, Advanced
    <3>3. CASE close \/ closeAfterClear \/ closeBegins
      BY <3>3 DEF close, closeAfterClear, closeBegins, UnchangedByClose, Advanced
    <3>4. CASE UNCHANGED vars BY <3>4 DEF vars, Advanced
    <3> QED BY <1>12, <3>1, <3>2, <3>3, <3>4
  <2>2. Identities' /\ Unsettled' = Unsettled
    BY <2>1 DEF Identities, DistinctIds, Retained, Unsettled
  <2>3. ReceiptsStay BY <2>1
  <2>4. captured <= captured' BY <1>0, <2>1
  <2> HIDE DEF ReceiptsStay
  <2> QED BY <1>1, <2>1, <2>2, <2>3, <2>4
<1> QED BY <1>4, <1>5, <1>6, <1>7, <1>8, <1>9, <1>10, <1>11, <1>12 DEF Next

\* Entries that stand for a range, one after the other, are in its order.
LEMMA TilesInOrder ==
  ASSUME NEW q \in Seq(EntryType), NEW a \in Nat, NEW b \in Nat, Tiles(q, a, b)
  PROVE  /\ a <= b /\ InOrder(q)
         /\ \A i \in 1 .. Len(q) : a < Lowest(q[i]) /\ Highest(q[i]) <= b
<1>1. ASSUME NEW r \in Seq(EntryType), NEW l \in Nat, NEW h \in Nat, Tiles(r, l, h),
             NEW i \in 1 .. Len(r)
      PROVE  l < Lowest(r[i]) /\ Highest(r[i]) <= h
  <2>1. UNION {OrdinalsOf(r[j]) : j \in 1 .. Len(r)} = l + 1 .. h BY <1>1, TilesCover
  <2>2. r[i] \in EntryType /\ Whole(r[i])
    <3>1. r[i] \in EntryType
      <4> HIDE DEF EntryType
      <4> QED BY <1>1
    <3> QED BY <1>1, <3>1 DEF Tiles
  <2>3. Lowest(r[i]) \in Nat /\ Highest(r[i]) \in Nat /\ Lowest(r[i]) <= Highest(r[i])
    BY <2>2, EntryFacts DEF Whole
  <2>4. Lowest(r[i]) \in OrdinalsOf(r[i]) /\ Highest(r[i]) \in OrdinalsOf(r[i])
    BY <2>3 DEF OrdinalsOf
  <2>5. Lowest(r[i]) \in l + 1 .. h /\ Highest(r[i]) \in l + 1 .. h BY <1>1, <2>1, <2>4
  <2> QED BY <1>1, <2>3, <2>5
<1>2. a <= b BY TilesCover
<1>3. ASSUME NEW i \in 1 .. Len(q), NEW j \in 1 .. Len(q), i < j
      PROVE  Highest(q[i]) < Lowest(q[j])
  <2> DEFINE n == j - 1
             front == SubSeq(q, 1, n)
             rest == SubSeq(q, n + 1, Len(q))
  <2>1. n \in 0 .. Len(q) /\ i \in 1 .. n /\ 1 \in 1 .. Len(q) - n /\ n + 1 = j BY <1>3
  <2>2. /\ front \in Seq(EntryType) /\ Len(front) = n /\ \A x \in 1 .. n : front[x] = q[x]
        /\ rest \in Seq(EntryType) /\ Len(rest) = Len(q) - n
        /\ \A x \in 1 .. Len(q) - n : rest[x] = q[n + x]
        /\ q = front \o rest
    <3> HIDE DEF n, EntryType
    <3>1. n \in 0 .. Len(q) BY <2>1
    <3> QED BY <3>1, Parts, ZenonT(60)
  <2> HIDE DEF front, rest
  <2>3. PICK c \in Nat : Tiles(front, a, c) /\ Tiles(rest, c, b)
    <3>1. Tiles(front \o rest, a, b) BY <2>2
    <3> QED BY <2>2, <3>1, TilesSplit, Zenon
  <2>4. Highest(front[i]) <= c BY <1>1, <2>1, <2>2, <2>3
  <2>5. c < Lowest(rest[1]) BY <1>1, <2>1, <2>2, <2>3
  <2>6. front[i] = q[i] /\ rest[1] = q[j] BY <2>1, <2>2
  <2>7. Highest(q[i]) \in Nat /\ Lowest(q[j]) \in Nat
    <3>1. q[i] \in EntryType /\ q[j] \in EntryType
      <4> HIDE DEF EntryType
      <4> QED BY <1>3
    <3> QED BY <3>1, EntryFacts
  <2> QED BY <2>4, <2>5, <2>6, <2>7
<1>4. InOrder(q) BY <1>3 DEF InOrder
<1> QED BY <1>1, <1>2, <1>4

\* The initial state of the invariant.
LEMMA LosslessInit == Init => LosslessInv
<1> SUFFICES ASSUME Init PROVE LosslessInv OBVIOUS
<1>1. JournalInv BY JournalInit
<1>2. /\ batch = <<>> /\ pending = <<>> /\ postClearPending = <<>> /\ captured = 0 /\ receipt = <<>>
      /\ firstGap = NoGap /\ latestGap = NoGap /\ awaitingBytes = 0 /\ committedEvidenceBoundary = 0
      /\ processing = "no" /\ clearInProgress = FALSE /\ clearing = "no"
      /\ retainedCount = 0 /\ retainedBytes = 0 /\ retainedRange = NoRange /\ retainedEventIds = {}
      /\ durableRetentionEntries = <<>> /\ volatileEvidence = <<>>
  BY DEF Init
<1>3. Queued = <<>> /\ Retained = <<>> BY <1>2 DEF Queued, Retained
<1>4. Len(<<>>) = 0 /\ DOMAIN <<>> = {} /\ IdsOf(<<>>) = {} /\ BytesOf(<<>>) = 0
  BY NoBytes DEF IdsOf
<1>5. NothingBehindTheClear BY <1>2 DEF NothingBehindTheClear
<1>6. EntriesTile
  <2>1. Tiles(<<>>, 0, 0) BY DEF Tiles
  <2>2. Decided(0) BY <1>2 DEF Decided, NoGap
  <2> QED BY <1>2, <1>3, <2>1, <2>2 DEF EntriesTile
<1>7. CountersAgree
  <2>1. Accepted = {} BY <1>2 DEF Accepted
  <2>2. Cardinality(Accepted) = 0 BY <2>1, FS_EmptySet
  <2>3. CandidateBytes(<<>>) = 0
    <3>1. <<>> \in Seq(CandidateType) OBVIOUS
    <3> QED BY <1>4, <3>1, BatchSums
  <2> QED BY <1>2, <1>3, <2>2, <2>3 DEF CountersAgree, Released, Unsettled, Advanced
<1>8. IsTail(Retained, committedEvidenceBoundary, interval) BY <1>2, <1>3, <1>4 DEF IsTail
<1>9. Identities BY <1>2, <1>3, <1>4 DEF Identities, DistinctIds
<1>10. RetainedInOrder BY <1>3, <1>4 DEF RetainedInOrder, InOrder
<1>11. RetainedExact
  <2>1. limits.maxRetainedCount \in Nat /\ limits.maxRetainedBytes \in Nat
    BY LimitsAssumption DEF limits, capacityTier, Tiers
  <2>2. ~OverHighWater(limits, 0, 0) BY <2>1 DEF OverHighWater
  <2> QED BY <1>2, <1>3, <1>4, <2>2 DEF RetainedExact, RangeOf
<1>12. GapPlacement BY <1>2 DEF GapPlacement
<1> QED BY <1>1, <1>5, <1>6, <1>7, <1>8, <1>9, <1>10, <1>11, <1>12 DEF LosslessInv

\* Every step keeps it.
LEMMA LosslessStep ==
  ASSUME ~OfferBeforeCleanup, LosslessInv, [Next]_vars PROVE LosslessInv'
<1>1. TypeOK /\ StagesAgree /\ DurableExact BY DEF LosslessInv, JournalInv
<1>2. JournalInv' BY JournalInvStep DEF LosslessInv
<1>3. NothingBehindTheClear' /\ EntriesTile' /\ CountersAgree' /\ GapPlacement'
  BY <1>1, ClearStep, EntriesStep, AgreementStep, GapStep DEF LosslessInv
<1>4. /\ IsTail(Retained', committedEvidenceBoundary', interval')
      /\ Identities' /\ RetainedInOrder' /\ RetainedExact'
  BY <1>2, TailStep DEF LosslessInv
<1> QED BY <1>2, <1>3, <1>4 DEF LosslessInv, IsTail

\* What waits to be Evidence stands for the ordinals behind the retained ones.
LEMMA WaitingTiles ==
  ASSUME LosslessInv PROVE \E d \in Nat, a \in Nat, b \in Nat :
           /\ Tiles(inFlight, d, a) /\ Tiles(pending, a, b) /\ Tiles(postClearPending, b, captured)
           /\ inFlight \in Seq(EntryType) /\ pending \in Seq(EntryType)
           /\ postClearPending \in Seq(EntryType)
           /\ CandidateBytes(inFlight \o pending \o postClearPending) = awaitingBytes
           /\ InOrder(Retained)
           /\ \A i \in DOMAIN Retained : Retained[i].ordinal <= d
<1> DEFINE z == captured
           n == Len(batch)
           rest == pending \o postClearPending
<1>1. /\ batch \in Seq(CandidateType) /\ batch \in Seq(EntryType) /\ n \in Nat /\ z \in Nat
      /\ Queued \in Seq(EntryType) /\ pending \in Seq(EntryType) /\ postClearPending \in Seq(EntryType)
  BY ReceiptDomain, QueuedTypes DEF LosslessInv, JournalInv, TypeOK, QueuesTypeOK
<1>2. PICK d \in Nat : Tiles(Queued, d, z) /\ Decided(d) BY DEF LosslessInv, EntriesTile
<1>3. d \in 0 .. z BY <1>1, <1>2, TilesCover
<1>4. /\ InOrder(Retained) /\ \A i \in DOMAIN Retained : Retained[i].ordinal <= d + Unsettled
  BY <1>2, <1>3 DEF LosslessInv, RetainedInOrder
<1>5. rest \in Seq(EntryType) /\ Queued = batch \o rest BY <1>1, EntriesAssociate DEF Queued
<1> HIDE DEF rest
<1>6. PICK c \in Nat : Tiles(batch, d, c) /\ Tiles(rest, c, z)
  <2>1. Tiles(batch \o rest, d, z) BY <1>2, <1>5
  <2> QED BY <1>1, <1>5, <2>1, TilesSplit, Zenon
<1>7. c = d + n BY <1>1, <1>6, TilesBatch
<1>8. PICK b \in Nat : Tiles(pending, c, b) /\ Tiles(postClearPending, b, z)
  <2>1. Tiles(pending \o postClearPending, c, z) BY <1>6 DEF rest
  <2> QED BY <1>1, <2>1, TilesSplit, Zenon
<1>9. /\ awaitingBytes = CandidateBytes(Queued) - Released
      /\ CandidateBytes(Queued) = BytesOf(batch) + CandidateBytes(rest)
      /\ BytesOf(batch) \in Nat /\ CandidateBytes(rest) \in Nat
  <2>1. awaitingBytes = CandidateBytes(Queued) - Released BY DEF LosslessInv, CountersAgree
  <2>2. CandidateBytes(batch) = BytesOf(batch) BY <1>1, BatchSums
  <2>3. /\ CandidateBytes(batch) \in Nat /\ CandidateBytes(rest) \in Nat
        /\ CandidateBytes(batch \o rest) = CandidateBytes(batch) + CandidateBytes(rest)
    BY <1>1, <1>5, CandidateSums
  <2> QED BY <1>5, <2>1, <2>2, <2>3
<1>10. CASE Advanced
  <2>1. inFlight = <<>> /\ Unsettled = n /\ Released = BytesOf(batch)
    BY <1>10 DEF Advanced, inFlight, Unsettled, Released
  <2>2. Tiles(inFlight, c, c) /\ inFlight \in Seq(EntryType) BY <2>1 DEF Tiles
  <2>3. CandidateBytes(inFlight \o pending \o postClearPending) = awaitingBytes
    <3>1. <<>> \o pending = pending BY <1>1, EmptyConcat
    <3>2. inFlight \o pending \o postClearPending = rest BY <2>1, <3>1 DEF rest
    <3>3. awaitingBytes = CandidateBytes(rest)
      <4> HIDE DEF inFlight, Queued
      <4> QED BY <1>9, <2>1
    <3> QED BY <3>2, <3>3
  <2>4. \A i \in DOMAIN Retained : Retained[i].ordinal <= c BY <1>4, <1>7, <2>1
  <2> QED BY <1>1, <1>4, <1>8, <2>2, <2>3, <2>4 DEF z
<1>11. CASE ~Advanced
  <2>1. inFlight = batch /\ Unsettled = 0 /\ Released = 0
    <3>1. processing \in {"no", "loop", "commit", "snapshot", "trim", "trimSnapshot"}
      BY DEF LosslessInv, JournalInv, TypeOK, LifecycleTypeOK
    <3>2. processing \in {"no", "loop"} => batch = <<>>
      BY DEF LosslessInv, JournalInv, StagesAgree
    <3> QED BY <1>11, <3>1, <3>2 DEF Advanced, inFlight, Unsettled, Released
  <2>2. CandidateBytes(inFlight \o pending \o postClearPending) = awaitingBytes
    BY <2>1, <1>9 DEF Queued
  <2>3. \A i \in DOMAIN Retained : Retained[i].ordinal <= d BY <1>4, <2>1
  <2> QED BY <1>1, <1>4, <1>6, <1>8, <2>1, <2>2, <2>3 DEF z
<1> QED BY <1>10, <1>11

\* The invariant puts what is retained and what waits in the order of capture.
LEMMA LosslessIsInOrder == LosslessInv => CaptureOrder
<1> SUFFICES ASSUME LosslessInv PROVE CaptureOrder OBVIOUS
<1> DEFINE upcoming == <<inFlight, pending, postClearPending>>
<1>1. PICK d \in Nat, a \in Nat, b \in Nat :
        /\ Tiles(inFlight, d, a) /\ Tiles(pending, a, b) /\ Tiles(postClearPending, b, captured)
        /\ inFlight \in Seq(EntryType) /\ pending \in Seq(EntryType)
        /\ postClearPending \in Seq(EntryType)
        /\ InOrder(Retained)
        /\ \A i \in DOMAIN Retained : Retained[i].ordinal <= d
  BY WaitingTiles
<1>2. captured \in Nat BY ReceiptDomain DEF LosslessInv, JournalInv
<1>3. /\ d <= a /\ InOrder(inFlight)
      /\ \A i \in 1 .. Len(inFlight) : d < Lowest(inFlight[i]) /\ Highest(inFlight[i]) <= a
  BY <1>1, TilesInOrder
<1>4. /\ a <= b /\ InOrder(pending)
      /\ \A i \in 1 .. Len(pending) : a < Lowest(pending[i]) /\ Highest(pending[i]) <= b
  BY <1>1, TilesInOrder
<1>5. /\ b <= captured /\ InOrder(postClearPending)
      /\ \A i \in 1 .. Len(postClearPending) : b < Lowest(postClearPending[i])
  BY <1>1, <1>2, TilesInOrder
<1>6. ASSUME NEW q \in Seq(EntryType), NEW c \in Nat, d <= c, \A i \in 1 .. Len(q) : c < Lowest(q[i])
      PROVE  Precedes(Retained, q)
  <2>1. Retained \in Seq(EvidenceType) BY RetainedParts DEF LosslessInv
  <2>2. ASSUME NEW i \in DOMAIN Retained, NEW j \in DOMAIN q
        PROVE  Highest(Retained[i]) < Lowest(q[j])
    <3>1. Retained[i] \in EvidenceType /\ q[j] \in EntryType /\ j \in 1 .. Len(q)
      <4> HIDE DEF Retained, EvidenceType, EntryType
      <4> QED BY <1>6, <2>1, <2>2
    <3>2. Highest(Retained[i]) = Retained[i].ordinal /\ Retained[i].ordinal \in Nat
      BY <3>1, EvidenceOrdinals
    <3>3. Retained[i].ordinal <= d /\ c < Lowest(q[j]) /\ Lowest(q[j]) \in Nat
      BY <1>1, <1>6, <2>2, <3>1, EntryFacts
    <3> HIDE DEF Retained
    <3> QED BY <1>6, <3>2, <3>3
  <2> QED BY <2>2 DEF Precedes
<1>7. ASSUME NEW q \in Seq(EntryType), NEW r \in Seq(EntryType), NEW c \in Nat, NEW e \in Nat, c <= e,
             \A i \in 1 .. Len(q) : Highest(q[i]) <= c, \A i \in 1 .. Len(r) : e < Lowest(r[i])
      PROVE  Precedes(q, r)
  <2>1. ASSUME NEW i \in DOMAIN q, NEW j \in DOMAIN r PROVE Highest(q[i]) < Lowest(r[j])
    <3>1. q[i] \in EntryType /\ r[j] \in EntryType /\ i \in 1 .. Len(q) /\ j \in 1 .. Len(r)
      <4> HIDE DEF EntryType
      <4> QED BY <1>7, <2>1
    <3>2. Highest(q[i]) <= c /\ e < Lowest(r[j]) /\ Highest(q[i]) \in Nat /\ Lowest(r[j]) \in Nat
      BY <1>7, <3>1, EntryFacts
    <3> QED BY <1>7, <3>2
  <2> QED BY <2>1 DEF Precedes
<1>8. Precedes(Retained, inFlight) /\ Precedes(Retained, pending) /\ Precedes(Retained, postClearPending)
  <2>1. d <= d /\ d <= b BY <1>3, <1>4
  <2> HIDE DEF Retained
  <2> QED BY <1>1, <1>3, <1>4, <1>5, <1>6, <2>1
<1>9. /\ Precedes(inFlight, pending) /\ Precedes(inFlight, postClearPending)
      /\ Precedes(pending, postClearPending)
  <2>1. a <= a /\ b <= b /\ a <= b BY <1>4
  <2>2. Precedes(inFlight, pending) BY <1>1, <1>3, <1>4, <1>7, <2>1
  <2>3. Precedes(inFlight, postClearPending) BY <1>1, <1>3, <1>5, <1>7, <2>1
  <2>4. Precedes(pending, postClearPending) BY <1>1, <1>4, <1>5, <1>7, <2>1
  <2> QED BY <2>2, <2>3, <2>4
<1>10. upcoming[1] = inFlight /\ upcoming[2] = pending /\ upcoming[3] = postClearPending OBVIOUS
<1> HIDE DEF upcoming, Retained
<1>11. \A i \in 1 .. 3 : InOrder(upcoming[i]) /\ Precedes(Retained, upcoming[i])
  BY <1>3, <1>4, <1>5, <1>8, <1>10
<1>12. \A i, j \in 1 .. 3 : i < j => Precedes(upcoming[i], upcoming[j]) BY <1>9, <1>10
<1> QED BY <1>1, <1>11, <1>12 DEF CaptureOrder, upcoming

\* The entries of a concatenation are those of its parts.
LEMMA EntriesTogether ==
  ASSUME NEW S, NEW s \in Seq(S), NEW t \in Seq(S) PROVE ToSet(s \o t) = ToSet(s) \cup ToSet(t)
<1> DEFINE u == s \o t
           m == Len(s)
           n == Len(t)
<1>1. /\ m \in Nat /\ n \in Nat /\ DOMAIN s = 1 .. m /\ DOMAIN t = 1 .. n /\ DOMAIN u = 1 .. m + n
      /\ \A i \in 1 .. m : u[i] = s[i]
      /\ \A i \in 1 .. n : u[m + i] = t[i]
  BY Concat
<1> HIDE DEF u, m, n
<1>2. ASSUME NEW i \in 1 .. m PROVE s[i] \in ToSet(u) BY <1>1 DEF ToSet
<1>3. ASSUME NEW i \in 1 .. n PROVE t[i] \in ToSet(u) BY <1>1 DEF ToSet
<1>4. ASSUME NEW i \in 1 .. m + n PROVE u[i] \in ToSet(s) \cup ToSet(t)
  <2>1. CASE i <= m BY <1>1, <2>1 DEF ToSet
  <2>2. CASE i > m
    <3>1. i - m \in DOMAIN t /\ u[m + (i - m)] = t[i - m] /\ m + (i - m) = i BY <1>1, <2>2
    <3> QED BY <3>1 DEF ToSet
  <2> QED BY <1>1, <2>1, <2>2
<1>5. ToSet(s) \subseteq ToSet(u) /\ ToSet(t) \subseteq ToSet(u) BY <1>1, <1>2, <1>3 DEF ToSet
<1>6. ToSet(u) \subseteq ToSet(s) \cup ToSet(t) BY <1>1, <1>4 DEF ToSet
<1> QED BY <1>5, <1>6 DEF u

\* The invariant says that nothing is lost.
LEMMA LosslessMeansNothingIsLost == LosslessInv => NothingIsLost
<1> SUFFICES ASSUME LosslessInv PROVE NothingIsLost OBVIOUS
<1> DEFINE z == captured
           q == Queued
<1>1. /\ z \in Nat /\ DOMAIN receipt = 1 .. z /\ q \in Seq(EntryType)
      /\ TypeOK /\ batch \in Seq(EntryType) /\ pending \in Seq(EntryType)
      /\ postClearPending \in Seq(EntryType)
  BY ReceiptDomain, QueuedTypes DEF LosslessInv, JournalInv, TypeOK
<1>2. PICK d \in Nat : Tiles(q, d, z) /\ Decided(d) BY DEF LosslessInv, EntriesTile
<1>4. QueueEntries = {q[i] : i \in 1 .. Len(q)}
  <2>1. /\ batch \o pending \in Seq(EntryType)
        /\ ToSet(batch \o pending) = ToSet(batch) \cup ToSet(pending)
        /\ ToSet(q) = ToSet(batch \o pending) \cup ToSet(postClearPending)
    <3>1. /\ batch \o pending \in Seq(EntryType)
          /\ q = (batch \o pending) \o postClearPending
      BY <1>1, EntriesAssociate DEF Queued
    <3> HIDE DEF q, EntryType
    <3>2. \A s, t \in Seq(EntryType) : ToSet(s \o t) = ToSet(s) \cup ToSet(t)
      BY EntriesTogether, Zenon
    <3>3. batch \in Seq(EntryType) /\ pending \in Seq(EntryType) /\ postClearPending \in Seq(EntryType)
      BY <1>1
    <3> DEFINE bp == batch \o pending
    <3>4. ToSet(bp) = ToSet(batch) \cup ToSet(pending) BY <3>2, <3>3, Zenon
    <3>5. bp \in Seq(EntryType) /\ q = bp \o postClearPending BY <3>1
    <3> HIDE DEF bp
    <3>6. ToSet(q) = ToSet(bp) \cup ToSet(postClearPending) BY <3>2, <3>3, <3>5, Zenon
    <3> QED BY <3>1, <3>4, <3>6 DEF bp
  <2>2. ToSet(q) = {q[i] : i \in 1 .. Len(q)} BY <1>1 DEF ToSet
  <2> QED BY <2>1, <2>2 DEF QueueEntries
<1> HIDE DEF q, z
<1>3. d <= z /\ UNION {OrdinalsOf(q[i]) : i \in 1 .. Len(q)} = d + 1 .. z
  BY <1>1, <1>2, TilesCover
<1>5. {o \in DOMAIN receipt : receipt[o] = "open"} = UNION {OrdinalsOf(e) : e \in QueueEntries}
  <2>1. ASSUME NEW o \in 1 .. z PROVE receipt[o] = "open" <=> o \in d + 1 .. z
    <3>1. CASE o \in 1 .. d BY <1>1, <1>2, <3>1 DEF Decided
    <3>2. CASE o \in d + 1 .. z BY <1>2, <3>2 DEF Decided, z
    <3> QED BY <1>1, <3>1, <3>2
  <2>2. {o \in DOMAIN receipt : receipt[o] = "open"} = d + 1 .. z BY <1>1, <2>1
  <2>3. {OrdinalsOf(e) : e \in QueueEntries} = {OrdinalsOf(q[i]) : i \in 1 .. Len(q)} BY <1>4
  <2> QED BY <1>3, <2>2, <2>3
<1>6. ASSUME NEW e \in QueueEntries, IsBarrier(e) PROVE e.count = Cardinality(OrdinalsOf(e))
  <2>1. PICK i \in 1 .. Len(q) : e = q[i] BY <1>4
  <2>2. e \in EntryType /\ Whole(e) BY <1>1, <1>2, <2>1 DEF Tiles
  <2>3. Lowest(e) \in Nat /\ Highest(e) \in Nat /\ Lowest(e) <= Highest(e)
        /\ e.count = Highest(e) - Lowest(e) + 1
    BY <1>6, <2>2, EntryFacts DEF Whole
  <2>4. Cardinality(Lowest(e) .. Highest(e)) = Highest(e) - Lowest(e) + 1 BY <2>3, FS_Interval
  <2> QED BY <2>3, <2>4 DEF OrdinalsOf
<1>7. OpenReceiptsAreQueued BY <1>5, <1>6, WaitingTiles DEF OpenReceiptsAreQueued
<1>8. RetainedTail
  <2>1. SUFFICES ASSUME phase = "RUNNING" PROVE RetainedTail BY DEF RetainedTail
  <2>2. Retained \in Seq(EvidenceType) /\ DistinctIds(Retained)
    BY RetainedParts DEF LosslessInv, Identities
  <2>3. Cardinality(IdsOf(Retained)) = Len(Retained)
    <3> HIDE DEF Retained, EvidenceType
    <3> QED BY <2>2, DistinctIdsCount
  <2>4. \A i \in DOMAIN Retained :
          /\ Retained[i].sequence = committedEvidenceBoundary - Len(Retained) + i
          /\ Retained[i].interval = interval
    BY DEF LosslessInv, IsTail
  <2> QED BY <2>1, <2>3, <2>4 DEF RetainedTail, LosslessInv, RetainedExact
<1>9. CaptureOrder BY LosslessIsInOrder
<1>10. GapPlacement BY DEF LosslessInv
<1> QED BY <1>1, <1>7, <1>8, <1>9, <1>10 DEF NothingIsLost

\* Nothing that was captured is lost, overtaken or counted wrongly: in every
\* reachable state receipts, queues, admission, what is retained in the journal
\* and in memory, and the reported gaps agree, over retries, retention, both
\* fallbacks, lost prefixes, Clears and Close - as long as nothing is offered
\* between the end of a failed Clear and its cleanup callback.
THEOREM NothingIsLostHolds ==
  ASSUME ~OfferBeforeCleanup PROVE Spec => []NothingIsLost
<1>1. Init => LosslessInv BY LosslessInit
<1>2. LosslessInv /\ [Next]_vars => LosslessInv' BY LosslessStep
<1>3. LosslessInv => NothingIsLost BY LosslessMeansNothingIsLost
<1> QED BY <1>1, <1>2, <1>3, PTL DEF Spec

-----------------------------------------------------------------------------
(* The coordinator implements the Evidence log.                            *)
(*                                                                         *)
(* The mapping reads the log off the state: what is decided is a prefix of *)
(* the ordinals, the receipts that are settled and then those of a batch   *)
(* that has become Evidence and waits for its retention advance. Offers    *)
(* and refusals are captures; a settled barrier and a batch that becomes   *)
(* Evidence decide, in the journal as in memory; a retention advance       *)
(* retires; and everything else but Clear and Close is a stutter.          *)

\* What the mapping of Log puts for verdict, retained and cut.
MappedVerdict == [o \in 1 .. DecidedCount |-> Verdict(o)]
OrdinalsIn(s) == {s[i].ordinal : i \in DOMAIN s}
MappedRetained == IF retainedRange = NoRange THEN {} ELSE OrdinalsIn(Retained)
MappedCut == IF clearing \notin {"waiting", "journal"} THEN -1
             ELSE IF postClearPending = <<>> THEN captured
             ELSE Lowest(postClearPending[1]) - 1

\* When exactly the first d of z are decided, that is their number.
LEMMA DecidedPrefix ==
  ASSUME NEW r, NEW z \in Nat, NEW d \in 0 .. z,
         \A o \in 1 .. d : r[o] # "open", \A o \in d + 1 .. z : r[o] = "open"
  PROVE  Cardinality({o \in 1 .. z : \A p \in 1 .. o : r[p] # "open"}) = d
<1> DEFINE D == {o \in 1 .. z : \A p \in 1 .. o : r[p] # "open"}
<1>1. D = 1 .. d
  <2>1. ASSUME NEW o \in D PROVE o \in 1 .. d
    <3>1. o \in 1 .. z /\ o \in 1 .. o OBVIOUS
    <3>2. r[o] # "open" BY <3>1
    <3> QED BY <3>1, <3>2
  <2>2. ASSUME NEW o \in 1 .. d PROVE o \in D OBVIOUS
  <2> QED BY <2>1, <2>2
<1>2. Cardinality(1 .. d) = d BY FS_Interval
<1> QED BY <1>1, <1>2

\* What is decided ends in one place.
LEMMA OneEnd ==
  ASSUME NEW r, NEW z \in Nat, NEW d \in 0 .. z, NEW e \in 0 .. z,
         \A o \in 1 .. d : r[o] # "open", \A o \in d + 1 .. z : r[o] = "open",
         \A o \in 1 .. e : r[o] # "open", \A o \in e + 1 .. z : r[o] = "open"
  PROVE  d = e
<1>1. CASE d < e BY <1>1
<1>2. CASE e < d BY <1>2
<1> QED BY <1>1, <1>2

\* The batch stands for the first ordinals whose receipts are open.
LEMMA BatchOrdinals ==
  ASSUME TypeOK, NEW d \in Nat, Tiles(Queued, d, captured)
  PROVE  /\ Len(batch) \in Nat /\ d + Len(batch) <= captured
         /\ \A i \in 1 .. Len(batch) : batch[i].ordinal = d + i
         /\ {batch[i].ordinal : i \in DOMAIN batch} = d + 1 .. d + Len(batch)
<1> DEFINE n == Len(batch)
           z == captured
           rest == pending \o postClearPending
<1>1. /\ batch \in Seq(CandidateType) /\ batch \in Seq(EntryType) /\ n \in Nat /\ z \in Nat
      /\ pending \in Seq(EntryType) /\ postClearPending \in Seq(EntryType)
      /\ DOMAIN batch = 1 .. n
  BY ReceiptDomain, QueuedTypes DEF TypeOK, QueuesTypeOK
<1>2. rest \in Seq(EntryType) /\ Queued = batch \o rest
  <2>1. rest \in Seq(EntryType)
    <3> HIDE DEF EntryType
    <3> QED BY <1>1
  <2>2. (batch \o pending) \o postClearPending = batch \o rest BY <1>1, EntriesAssociate
  <2> QED BY <2>1, <2>2 DEF Queued
<1> HIDE DEF rest
<1>3. PICK c \in Nat : Tiles(batch, d, c) /\ Tiles(rest, c, z)
  <2>1. Tiles(batch \o rest, d, z) BY <1>2
  <2> QED BY <1>1, <1>2, <2>1, TilesSplit, Zenon
<1>4. c = d + n /\ \A i \in 1 .. n : batch[i].ordinal = d + i BY <1>1, <1>3, TilesBatch
<1>5. c <= z BY <1>1, <1>2, <1>3, TilesCover
<1>6. {batch[i].ordinal : i \in DOMAIN batch} = d + 1 .. d + n
  <2> HIDE DEF n, z
  <2>1. ASSUME NEW o \in d + 1 .. d + n PROVE o \in {batch[i].ordinal : i \in DOMAIN batch}
    <3>1. o - d \in 1 .. n /\ d + (o - d) = o BY <1>1
    <3>2. batch[o - d].ordinal = o BY <1>4, <3>1
    <3> QED BY <1>1, <3>1, <3>2
  <2>2. ASSUME NEW i \in 1 .. n PROVE batch[i].ordinal \in d + 1 .. d + n BY <1>1, <1>4
  <2> QED BY <1>1, <2>1, <2>2
<1> QED BY <1>1, <1>4, <1>5, <1>6

\* The decided ordinals: those whose receipts are settled, and then those of
\* an accepted batch.
LogIsRead ==
  \A d \in Nat : Tiles(Queued, d, captured) /\ Decided(d) =>
    /\ DecidedCount = d + Unsettled /\ DecidedCount \in 0 .. captured
    /\ \A o \in 1 .. d : Verdict(o) = receipt[o]
    /\ \A o \in d + 1 .. DecidedCount : Verdict(o) = "BECAME_EVIDENCE"
    /\ \A o \in DecidedCount + 1 .. captured : Verdict(o) = "open"

\* The log can be read off the state in this way.
LEMMA LogNow == LosslessInv => LogIsRead
<1> SUFFICES ASSUME LosslessInv, NEW d \in Nat, Tiles(Queued, d, captured), Decided(d)
             PROVE  /\ DecidedCount = d + Unsettled /\ DecidedCount \in 0 .. captured
                    /\ \A o \in 1 .. d : Verdict(o) = receipt[o]
                    /\ \A o \in d + 1 .. DecidedCount : Verdict(o) = "BECAME_EVIDENCE"
                    /\ \A o \in DecidedCount + 1 .. captured : Verdict(o) = "open"
  BY DEF LogIsRead
<1> DEFINE z == captured
           n == Len(batch)
           u == Unsettled
           S == {batch[i].ordinal : i \in DOMAIN batch}
<1>1. TypeOK /\ z \in Nat /\ DOMAIN receipt = 1 .. z
  BY ReceiptDomain DEF LosslessInv, JournalInv
<1>2. n \in Nat /\ d + n <= z /\ S = d + 1 .. d + n BY <1>1, BatchOrdinals
<1>3. u \in 0 .. n /\ (Advanced => u = n) /\ (~Advanced => u = 0) BY <1>2 DEF Unsettled
<1>4. \A o \in 1 .. z : Verdict(o) = IF Advanced /\ o \in S THEN "BECAME_EVIDENCE" ELSE receipt[o]
  BY DEF Verdict, Advanced
<1> HIDE DEF z, n, S, u
<1>5. d + u \in 0 .. z BY <1>1, <1>2, <1>3
<1>6. /\ \A o \in 1 .. d : Verdict(o) = receipt[o] /\ receipt[o] # "open"
      /\ \A o \in d + 1 .. d + u : Verdict(o) = "BECAME_EVIDENCE"
      /\ \A o \in d + u + 1 .. z : Verdict(o) = "open"
  <2>1. /\ \A o \in 1 .. d : receipt[o] # "open"
        /\ \A o \in d + 1 .. z : receipt[o] = "open"
    BY DEF Decided, z
  <2>2. ASSUME NEW o \in 1 .. d PROVE o \in 1 .. z /\ o \notin S BY <1>1, <1>2
  <2>3. CASE Advanced BY <1>1, <1>2, <1>3, <1>4, <2>1, <2>2, <2>3
  <2>4. CASE ~Advanced BY <1>1, <1>2, <1>3, <1>4, <2>1, <2>2, <2>4
  <2> QED BY <2>3, <2>4
<1>7. DecidedCount = d + u
  <2> DEFINE r == [o \in 1 .. z |-> Verdict(o)]
  <2>1. \A o \in 1 .. z : r[o] = Verdict(o) OBVIOUS
  <2>2. \A o \in 1 .. d + u : r[o] # "open"
    <3>1. ASSUME NEW o \in 1 .. d + u PROVE o \in 1 .. z /\ Verdict(o) # "open"
      <4>1. o \in 1 .. z BY <1>1, <1>5
      <4>2. CASE o \in 1 .. d BY <1>6, <4>1, <4>2
      <4>3. CASE o \in d + 1 .. d + u BY <1>6, <4>1, <4>3
      <4>4. o \in 1 .. d \/ o \in d + 1 .. d + u BY <1>5
      <4> QED BY <4>1, <4>2, <4>3, <4>4
    <3> QED BY <2>1, <3>1
  <2>3. \A o \in d + u + 1 .. z : r[o] = "open" BY <1>6, <2>1, <1>1, <1>5
  <2> HIDE DEF r
  <2>4. Cardinality({o \in 1 .. z : \A p \in 1 .. o : r[p] # "open"}) = d + u
    BY <1>1, <1>5, <2>2, <2>3, DecidedPrefix
  <2>5. \A o \in 1 .. z : \A p \in 1 .. o : p \in 1 .. z BY <1>1
  <2>6. {o \in 1 .. z : \A p \in 1 .. o : r[p] # "open"}
          = {o \in DOMAIN receipt : \A p \in 1 .. o : Verdict(p) # "open"}
    BY <1>1, <2>1, <2>5
  <2> QED BY <2>4, <2>6 DEF DecidedCount
<1> QED BY <1>5, <1>6, <1>7 DEF z, u

\* The verdicts are a sequence, of as many as are decided.
VerdictsAreSequence ==
  /\ MappedVerdict \in Seq(Outcomes) /\ Len(MappedVerdict) = DecidedCount
  /\ DecidedCount \in 0 .. captured
  /\ \A o \in 1 .. DecidedCount : MappedVerdict[o] = Verdict(o)

\* They always are.
LEMMA VerdictsNow == LosslessInv => VerdictsAreSequence
<1> SUFFICES ASSUME LosslessInv PROVE VerdictsAreSequence OBVIOUS
<1>1. PICK d \in Nat : Tiles(Queued, d, captured) /\ Decided(d) BY DEF LosslessInv, EntriesTile
<1>2. /\ DecidedCount \in 0 .. captured /\ d <= DecidedCount
      /\ \A o \in 1 .. d : Verdict(o) = receipt[o]
      /\ \A o \in d + 1 .. DecidedCount : Verdict(o) = "BECAME_EVIDENCE"
  <2>1. Unsettled \in Nat
    BY DEF LosslessInv, JournalInv, TypeOK, QueuesTypeOK, Unsettled
  <2>2. LogIsRead BY LogNow
  <2>3. /\ DecidedCount = d + Unsettled /\ DecidedCount \in 0 .. captured
        /\ \A o \in 1 .. d : Verdict(o) = receipt[o]
        /\ \A o \in d + 1 .. DecidedCount : Verdict(o) = "BECAME_EVIDENCE"
    BY <1>1, <2>2 DEF LogIsRead
  <2>4. d <= DecidedCount BY <2>1, <2>3
  <2> QED BY <2>3, <2>4
<1>3. captured \in Nat /\ \A o \in 1 .. captured : receipt[o] \in Outcomes
  BY ReceiptDomain DEF LosslessInv, JournalInv
<1>4. ASSUME NEW o \in 1 .. DecidedCount PROVE Verdict(o) \in Outcomes
  <2>1. CASE o \in 1 .. d BY <1>2, <1>3, <2>1
  <2>2. CASE o \in d + 1 .. DecidedCount BY <1>2, <2>2 DEF Outcomes
  <2> QED BY <1>2, <2>1, <2>2
<1>5. DecidedCount \in Nat BY <1>2, <1>3
<1> QED BY <1>2, <1>4, <1>5 DEF VerdictsAreSequence, MappedVerdict

\* What the log retains: while the panel records, all that is retained.
LEMMA RetainedNow == LosslessInv => (phase = "RUNNING" => MappedRetained = OrdinalsIn(Retained))
<1> SUFFICES ASSUME LosslessInv, phase = "RUNNING" PROVE MappedRetained = OrdinalsIn(Retained)
  OBVIOUS
<1>1. /\ retainedRange = RangeOf(Retained) /\ Retained \in Seq(EvidenceType)
      /\ IsTail(Retained, committedEvidenceBoundary, interval)
      /\ committedEvidenceBoundary \in Nat
  BY RetainedParts DEF LosslessInv, RetainedExact, JournalInv, TypeOK, CountersTypeOK
<1> HIDE DEF Retained, EvidenceType
<1>2. CASE Retained = <<>> BY <1>2 DEF OrdinalsIn, MappedRetained
<1>3. CASE Retained # <<>>
  <2>1. 1 \in DOMAIN Retained /\ Head(Retained) = Retained[1] /\ Len(Retained) \in Nat
    BY <1>1, <1>3
  <2>2. /\ Retained[1].sequence = (committedEvidenceBoundary - Len(Retained)) + 1
        /\ Len(Retained) <= committedEvidenceBoundary
    BY <1>1, <2>1 DEF IsTail
  <2>3. Retained[1].sequence # 0 BY <1>1, <2>1, <2>2
  <2>4. retainedRange # NoRange BY <1>1, <1>3, <2>1, <2>3 DEF RangeOf, NoRange
  <2> QED BY <2>4 DEF MappedRetained
<1> QED BY <1>2, <1>3

\* The receipts that are settled end where the queue begins.
LogStands == \E d \in 0 .. captured : Tiles(Queued, d, captured) /\ Decided(d)

\* They always do.
LEMMA StandsNow == LosslessInv => LogStands
<1> SUFFICES ASSUME LosslessInv PROVE LogStands OBVIOUS
<1>1. PICK d \in Nat : Tiles(Queued, d, captured) /\ Decided(d) BY DEF LosslessInv, EntriesTile
<1>2. captured \in Nat /\ Queued \in Seq(EntryType)
  BY ReceiptDomain, QueuedTypes DEF LosslessInv, JournalInv, TypeOK
<1>3. d \in 0 .. captured BY <1>1, <1>2, TilesCover
<1> QED BY <1>1, <1>3 DEF LogStands

\* After a step the log is read from where the new receipts are settled.
LEMMA ReadAfter ==
  ASSUME LosslessInv', NEW e \in 0 .. captured',
         \A o \in 1 .. e : receipt'[o] # "open", \A o \in e + 1 .. captured' : receipt'[o] = "open"
  PROVE  /\ DecidedCount' = e + Unsettled' /\ DecidedCount' \in 0 .. captured'
         /\ \A o \in 1 .. e : Verdict(o)' = receipt'[o]
         /\ \A o \in e + 1 .. DecidedCount' : Verdict(o)' = "BECAME_EVIDENCE"
<1>1. LogStands' /\ LogIsRead' BY StandsNow, LogNow, PTL
<1>2. PICK d \in 0 .. captured' : Tiles(Queued, d, captured)' /\ Decided(d)'
  BY <1>1 DEF LogStands
<1>3. /\ \A o \in 1 .. d : receipt'[o] # "open"
      /\ \A o \in d + 1 .. captured' : receipt'[o] = "open"
  BY <1>2 DEF Decided
<1>4. captured' \in Nat BY DEF LosslessInv, JournalInv, TypeOK, CountersTypeOK
<1>5. d = e
  <2> DEFINE r == receipt'
             z == captured'
  <2>1. /\ z \in Nat /\ d \in 0 .. z /\ e \in 0 .. z
        /\ \A o \in 1 .. d : r[o] # "open"
        /\ \A o \in d + 1 .. z : r[o] = "open"
        /\ \A o \in 1 .. e : r[o] # "open"
        /\ \A o \in e + 1 .. z : r[o] = "open"
    BY <1>2, <1>3, <1>4
  <2> HIDE DEF r, z
  <2> QED BY <2>1, OneEnd
<1>6. e \in Nat BY <1>4
<1> QED BY <1>1, <1>2, <1>5, <1>6 DEF LogIsRead

\* The bounds of the model, as the log needs them.
WithinBounds ==
  /\ captured <= MaxCaptured
  /\ clearing \in {"waiting", "journal"} => interval < MaxIntervals

\* Every step stays within them.
LEMMA WithinBoundsStep == TypeOK /\ WithinBounds /\ [Next]_vars => WithinBounds'
<1> USE DEF queueVars, retainedVars, gapVars, clearVars, closeVars, journalVars, historyVars, captureVars
<1> SUFFICES ASSUME TypeOK, WithinBounds, [Next]_vars PROVE WithinBounds' OBVIOUS
<1>1. captured \in Nat /\ MaxCaptured \in Nat BY ReceiptDomain, BoundsAssumption
<1>2. ASSUME MayOffer, TakesOrdinal PROVE WithinBounds'
  BY <1>1, <1>2 DEF WithinBounds, MayOffer, TakesOrdinal
<1>3. ASSUME UNCHANGED <<captured, clearing, interval>> PROVE WithinBounds'
  BY <1>3 DEF WithinBounds
<1>4. ASSUME NEW id \in EventIds, NEW b \in Sizes, offer(id, b) PROVE WithinBounds'
  BY <1>2, <1>4 DEF offer
<1>5. ASSUME NEW b \in Sizes, NEW dim \in Dimensions, refuseUnretainable(b, dim) PROVE WithinBounds'
  BY <1>2, <1>5 DEF refuseUnretainable
<1>6. CASE clear \/ clearBegins \/ clearSucceeds \/ clearFails \/ clearCleanup
  BY <1>6 DEF WithinBounds, clear, clearBegins, clearSucceeds, clearFails, clearCleanup
<1>7. CASE startProcessing \/ settleLeadingGapBarrier \/ finishProcessing
  BY <1>3, <1>7 DEF startProcessing, settleLeadingGapBarrier, finishProcessing
<1>8. ASSUME NEW n \in 0..MaxCaptured, takeBatch(n) PROVE WithinBounds'
  BY <1>3, <1>8 DEF takeBatch
<1>9. ASSUME UnchangedByBatch PROVE WithinBounds' BY <1>3, <1>9 DEF UnchangedByBatch
<1>10. CASE \/ journalCommitSucceeds \/ journalCommitFails
            \/ journalTrimSucceeds \/ journalTrimFails \/ memoryAccepts
  BY <1>9, <1>10 DEF journalCommitSucceeds, journalCommitFails, journalTrimSucceeds,
     journalTrimFails, memoryAccepts, BatchDone
<1>11. ASSUME NEW read \in BOOLEAN, fallBackAfterCommit(read) \/ fallBackAfterTrim(read)
       PROVE  WithinBounds'
  BY <1>9, <1>11 DEF fallBackAfterCommit, fallBackAfterTrim, BatchDone
<1>12. CASE close \/ closeAfterClear \/ closeBegins \/ closeEnds
  BY <1>3, <1>12 DEF close, closeAfterClear, closeBegins, closeEnds, UnchangedByClose
<1>13. CASE UNCHANGED vars BY <1>3, <1>13 DEF vars
<1> QED BY <1>4, <1>5, <1>6, <1>7, <1>8, <1>10, <1>11, <1>12, <1>13 DEF Next

\* A step that keeps what the mapping reads is a stutter of the log.
LEMMA StutterRefines ==
  ASSUME UNCHANGED <<captured, interval>>, (phase' = "CLOSED") = (phase = "CLOSED"),
         MappedVerdict' = MappedVerdict, MappedRetained' = MappedRetained, MappedCut' = MappedCut
  PROVE  UNCHANGED Log!vars
PROOF BY DEF Log!vars, MappedVerdict, MappedRetained, MappedCut, OrdinalsIn

\* The verdicts stay when the receipts do, and the batch that is advanced.
LEMMA SameVerdicts ==
  ASSUME UNCHANGED receipt, Advanced' = Advanced, Advanced => batch' = batch
  PROVE  /\ MappedVerdict' = MappedVerdict /\ DecidedCount' = DecidedCount
         /\ \A o : Verdict(o)' = Verdict(o)
<1>1. ASSUME NEW o PROVE Verdict(o)' = Verdict(o)
  <2>1. CASE Advanced BY <2>1 DEF Verdict, Advanced
  <2>2. CASE ~Advanced BY <2>2 DEF Verdict, Advanced
  <2> QED BY <2>1, <2>2
<1>2. DecidedCount' = DecidedCount BY <1>1 DEF DecidedCount
<1> QED BY <1>1, <1>2 DEF MappedVerdict

\* What is mapped to the retained ordinals stays when what is retained does.
LEMMA SameRetained ==
  ASSUME Retained' = Retained, UNCHANGED retainedRange PROVE MappedRetained' = MappedRetained
<1> HIDE DEF Retained
<1> QED BY DEF MappedRetained, OrdinalsIn

\* The cut stays when the Clear and the queue behind it do.
LEMMA SameCut ==
  ASSUME (clearing' \in {"waiting", "journal"}) <=> (clearing \in {"waiting", "journal"}),
         UNCHANGED <<captured, postClearPending>>
  PROVE  MappedCut' = MappedCut
PROOF BY DEF MappedCut

\* The cut while a Clear is pending, and that it holds back what follows it.
LEMMA CutNow ==
  ASSUME LosslessInv
  PROVE  /\ MappedCut # -1 <=> clearing \in {"waiting", "journal"}
         /\ MappedCut # -1 => \A d \in Nat : Tiles(postClearPending, d, captured)
                                              => MappedCut = d
<1> DEFINE z == captured
           post == postClearPending
           front == batch \o pending
<1>1. /\ z \in Nat /\ post \in Seq(EntryType) /\ batch \in Seq(EntryType)
      /\ pending \in Seq(EntryType) /\ Queued = front \o post
  BY ReceiptDomain, QueuedTypes DEF LosslessInv, JournalInv, TypeOK, Queued
<1>2. PICK d \in Nat : Tiles(Queued, d, z) BY DEF LosslessInv, EntriesTile
<1>3. \E c \in Nat : Tiles(post, c, z)
  <2>1. front \in Seq(EntryType)
    <3> HIDE DEF EntryType
    <3> QED BY <1>1
  <2> HIDE DEF front
  <2>2. \E b \in Nat : Tiles(front, d, b) /\ Tiles(post, b, z)
    <3>1. Tiles(front \o post, d, z) BY <1>1, <1>2
    <3> QED BY <1>1, <2>1, <3>1, TilesSplit, Zenon
  <2> QED BY <2>2
<1>4. ASSUME NEW c \in Nat, Tiles(post, c, z), clearing \in {"waiting", "journal"}
      PROVE  MappedCut = c
  <2>1. CASE post = <<>> BY <1>4, <2>1 DEF Tiles, MappedCut
  <2>2. CASE post # <<>> BY <1>4, <2>2 DEF MappedCut, Tiles
  <2> QED BY <2>1, <2>2
<1>5. clearing \notin {"waiting", "journal"} => MappedCut = -1 BY DEF MappedCut
<1>6. clearing \in {"waiting", "journal"} => MappedCut # -1
  <2> SUFFICES ASSUME clearing \in {"waiting", "journal"} PROVE MappedCut # -1 OBVIOUS
  <2>1. PICK c \in Nat : Tiles(post, c, z) BY <1>3
  <2>2. MappedCut = c BY <1>4, <2>1
  <2> QED BY <2>2
<1> QED BY <1>4, <1>5, <1>6

\* An ordinal is added; the ones before it keep their verdicts.
LEMMA VerdictsOfOffer ==
  ASSUME LosslessInv, LosslessInv', captured' = captured + 1, receipt' = Append(receipt, "open"),
         UNCHANGED <<batch, processing>>
  PROVE  MappedVerdict' = MappedVerdict
<1> DEFINE z == captured
<1>1. /\ z \in Nat /\ DOMAIN receipt = 1 .. z /\ receipt \in Seq(Outcomes) /\ Len(receipt) = z
      /\ batch \in Seq(CandidateType)
  BY ReceiptDomain DEF LosslessInv, JournalInv, TypeOK, CountersTypeOK, QueuesTypeOK
<1>2. /\ DOMAIN receipt' = 1 .. z + 1
      /\ \A o \in 1 .. z : receipt'[o] = receipt[o]
      /\ receipt'[z + 1] = "open"
  BY <1>1
<1>3. PICK d \in 0 .. z : Tiles(Queued, d, captured) /\ Decided(d) BY StandsNow DEF LogStands
<1>4. /\ d \in 0 .. captured' /\ captured' = z + 1
      /\ \A o \in 1 .. d : receipt'[o] # "open"
      /\ \A o \in d + 1 .. captured' : receipt'[o] = "open"
  <2>1. \A o \in 1 .. d : receipt'[o] # "open" BY <1>1, <1>2, <1>3 DEF Decided
  <2>2. ASSUME NEW o \in d + 1 .. z + 1 PROVE receipt'[o] = "open"
    <3>1. CASE o = z + 1 BY <1>2, <3>1
    <3>2. CASE o # z + 1 BY <1>2, <1>3, <1>1, <3>2 DEF Decided
    <3> QED BY <3>1, <3>2
  <2> QED BY <1>1, <2>1, <2>2
<1>8. Unsettled' = Unsettled /\ Unsettled \in Nat BY <1>1 DEF Unsettled, Advanced
<1>9. /\ DecidedCount = d + Unsettled
      /\ \A o \in 1 .. d : Verdict(o) = receipt[o]
      /\ \A o \in d + 1 .. DecidedCount : Verdict(o) = "BECAME_EVIDENCE"
  BY <1>1, <1>3, LogNow DEF LogIsRead
<1>10. /\ DecidedCount' = d + Unsettled
       /\ \A o \in 1 .. d : Verdict(o)' = receipt'[o]
       /\ \A o \in d + 1 .. DecidedCount' : Verdict(o)' = "BECAME_EVIDENCE"
  BY <1>4, <1>8, ReadAfter
<1>11. ASSUME NEW o \in 1 .. DecidedCount PROVE Verdict(o)' = Verdict(o)
  <2>1. CASE o \in 1 .. d BY <1>2, <1>9, <1>10, <2>1, <1>1
  <2>2. CASE o \in d + 1 .. DecidedCount BY <1>9, <1>10, <2>2
  <2>3. o \in 1 .. d \/ o \in d + 1 .. DecidedCount BY <1>1, <1>8, <1>9
  <2> QED BY <2>1, <2>2, <2>3
<1> QED BY <1>9, <1>10, <1>11 DEF MappedVerdict

\* An offer or a refusal with an ordinal is a capture: the cut of a pending
\* Clear stays in front of it.
LEMMA CaptureRefines ==
  ASSUME ~OfferBeforeCleanup, LosslessInv, LosslessInv', MayOffer, TakesOrdinal,
         NEW q \in Seq(EntryType), q # <<>>, Queue(q),
         clearQueueForEntry = <<>> => Lowest(q[1]) = captured + 1,
         clearQueueForEntry # <<>> => Lowest(q[1]) = Lowest(clearQueueForEntry[1])
  PROVE  Log!Capture
<1> DEFINE z == captured
           post == postClearPending
<1>1. /\ z \in Nat /\ captured' = z + 1 /\ z < MaxCaptured
      /\ phase # "CLOSED" /\ phase' = phase /\ clearing' = clearing /\ interval' = interval
  <2>1. UNCHANGED <<phase, clearing, interval>> BY DEF TakesOrdinal, closeVars, historyVars
  <2>2. z \in Nat BY ReceiptDomain DEF LosslessInv, JournalInv
  <2> QED BY <2>1, <2>2 DEF MayOffer, TakesOrdinal
<1>2. MappedVerdict' = MappedVerdict BY VerdictsOfOffer DEF TakesOrdinal
<1>3. MappedRetained' = MappedRetained
  BY SameRetained DEF TakesOrdinal, historyVars, durableVars, retainedVars, Retained
<1>4. MappedCut' = MappedCut
  <2>1. CASE clearing \notin {"waiting", "journal"} BY <1>1, <2>1 DEF MappedCut
  <2>2. CASE clearing \in {"waiting", "journal"}
    <3>1. clearQueueForEntry = post /\ post' = q
      BY <2>2 DEF LosslessInv, JournalInv, StagesAgree, clearQueueForEntry, Queue
    <3>2. post = <<>> => MappedCut' = z /\ MappedCut = z BY <1>1, <2>2, <3>1 DEF MappedCut
    <3>3. post # <<>> => MappedCut' = MappedCut BY <1>1, <2>2, <3>1 DEF MappedCut
    <3> QED BY <3>2, <3>3
  <2> QED BY <2>1, <2>2
<1> HIDE DEF MappedVerdict, MappedRetained, MappedCut
<1>5. /\ ~(phase = "CLOSED") /\ captured < MaxCaptured /\ captured' = captured + 1
      /\ MappedVerdict' = MappedVerdict /\ MappedRetained' = MappedRetained /\ interval' = interval
      /\ MappedCut' = MappedCut /\ (phase' = "CLOSED") = (phase = "CLOSED")
  BY <1>1, <1>2, <1>3, <1>4
<1> QED BY <1>5 DEF Log!Capture, MappedVerdict, MappedRetained, MappedCut, OrdinalsIn

\* A step that decides the next ordinals, retains a newest part of what was
\* retained and of what became Evidence, and keeps the rest, decides.
LEMMA DecideRefines ==
  ASSUME LosslessInv, LosslessInv', WithinBounds, DecidedCount < DecidedCount',
         MappedCut # -1 => DecidedCount' <= MappedCut,
         \A o \in 1 .. DecidedCount : Verdict(o)' = Verdict(o),
         \A o \in DecidedCount + 1 .. DecidedCount' :
           Verdict(o)' \in {"BECAME_EVIDENCE", "NOT_EVIDENCE"},
         Log!IsNewestPart(MappedRetained', MappedRetained \cup
           {o \in DecidedCount + 1 .. DecidedCount' : Verdict(o)' = "BECAME_EVIDENCE"}),
         UNCHANGED <<captured, interval, phase>>, MappedCut' = MappedCut
  PROVE  \E n \in 1 .. MaxCaptured : Log!Decide(n)
<1> DEFINE z == captured
           v == MappedVerdict
           w == MappedVerdict'
           f(o) == Verdict(o)'
<1>0. PICK d, c : d = DecidedCount /\ c = DecidedCount' OBVIOUS
<1> DEFINE n == c - d
           decided == [i \in 1 .. n |-> f(d + i)]
           fresh == {o \in d + 1 .. c : f(o) = "BECAME_EVIDENCE"}
<1>1. /\ v \in Seq(Outcomes) /\ Len(v) = d /\ d \in 0 .. z
      /\ \A o \in 1 .. d : v[o] = Verdict(o)
  BY <1>0, VerdictsNow DEF VerdictsAreSequence
<1>2. /\ w \in Seq(Outcomes) /\ Len(w) = c /\ c \in 0 .. z
      /\ \A o \in 1 .. c : w[o] = f(o)
  <2>1. VerdictsAreSequence' BY VerdictsNow, PTL
  <2> QED BY <1>0, <2>1 DEF VerdictsAreSequence
<1>3. z \in Nat /\ z <= MaxCaptured /\ MaxCaptured \in Nat
  <2>1. captured \in Nat BY ReceiptDomain DEF LosslessInv, JournalInv
  <2>2. MaxCaptured \in Nat BY BoundsAssumption
  <2>3. captured <= MaxCaptured BY DEF WithinBounds
  <2> QED BY <2>1, <2>2, <2>3
<1>4. /\ \A o \in 1 .. d : f(o) = Verdict(o)
      /\ \A o \in d + 1 .. c : f(o) \in {"BECAME_EVIDENCE", "NOT_EVIDENCE"}
      /\ d < c
  BY <1>0
<1>5. MappedCut # -1 => c <= MappedCut BY <1>0
<1>6. Log!IsNewestPart(MappedRetained', MappedRetained \cup fresh) BY <1>0
<1> HIDE DEF v, w, f, z
<1>7. n \in 1 .. MaxCaptured /\ d + n = c /\ n \in Nat /\ d \in Nat /\ c \in Nat
  BY <1>1, <1>2, <1>3, <1>4
<1>8. decided \in [1 .. n -> Log!Verdicts] BY <1>4, <1>7 DEF Log!Verdicts
<1>9. w = v \o decided
  <2>1. decided \in Seq(Outcomes) /\ Len(decided) = n /\ \A i \in 1 .. n : decided[i] = f(d + i)
    BY <1>7, <1>8 DEF Log!Verdicts, Outcomes
  <2> HIDE DEF decided
  <2> DEFINE u == v \o decided
  <2>0. v \in Seq(Outcomes) /\ Len(v) = d BY <1>1
  <2>2. /\ u \in Seq(Outcomes) /\ Len(u) = d + n
        /\ \A i \in 1 .. d + n : \/ i \in 1 .. d /\ u[i] = v[i]
                                 \/ i - d \in 1 .. n /\ u[i] = decided[i - d]
    <3> HIDE DEF n
    <3>1. decided \in Seq(Outcomes) /\ Len(decided) = n BY <2>1
    <3> QED BY <2>0, <3>1, Concat
  <2>3. \A i \in 1 .. c : d + (i - d) = i BY <1>7
  <2> HIDE DEF u, n
  <2>4. ASSUME NEW i \in 1 .. c PROVE w[i] = u[i]
    <3>1. CASE i \in 1 .. d /\ u[i] = v[i] BY <1>1, <1>2, <1>4, <3>1
    <3>2. CASE i - d \in 1 .. n /\ u[i] = decided[i - d] BY <1>2, <2>1, <2>3, <3>2
    <3>3. i \in 1 .. d + n BY <1>7
    <3> QED BY <2>2, <3>1, <3>2, <3>3
  <2>5. Len(u) = c BY <1>7, <2>2
  <2>6. w = u BY <1>2, <2>2, <2>4, <2>5
  <2> QED BY <2>6 DEF u
<1>10. {Len(v) + i : i \in {j \in 1 .. n : decided[j] = "BECAME_EVIDENCE"}} = fresh
  <2>1. ASSUME NEW i \in 1 .. n PROVE d + i \in d + 1 .. c /\ decided[i] = f(d + i) BY <1>7
  <2>2. ASSUME NEW o \in d + 1 .. c PROVE o - d \in 1 .. n /\ d + (o - d) = o BY <1>7
  <2> HIDE DEF decided, n
  <2>3. ASSUME NEW x \in {d + i : i \in {j \in 1 .. n : decided[j] = "BECAME_EVIDENCE"}}
        PROVE  x \in fresh
    BY <2>1
  <2>4. ASSUME NEW x \in fresh
        PROVE  x \in {d + i : i \in {j \in 1 .. n : decided[j] = "BECAME_EVIDENCE"}}
    <3>1. x - d \in 1 .. n /\ d + (x - d) = x BY <2>2
    <3>2. decided[x - d] = "BECAME_EVIDENCE" BY <2>1, <3>1
    <3> QED BY <3>1, <3>2
  <2> QED BY <1>1, <2>3, <2>4
<1>11. Len(v) + n <= IF MappedCut = -1 THEN z ELSE MappedCut BY <1>1, <1>2, <1>5, <1>7
<1>12. MappedRetained' \in SUBSET (MappedRetained \cup fresh) BY <1>6 DEF Log!IsNewestPart
<1> HIDE DEF n, decided, fresh
<1>13. /\ MappedVerdict' = MappedVerdict \o decided
       /\ {Len(MappedVerdict) + i : i \in {j \in 1 .. n : decided[j] = "BECAME_EVIDENCE"}} = fresh
       /\ Len(MappedVerdict) + n <= IF MappedCut = -1 THEN captured ELSE MappedCut
  BY <1>9, <1>10, <1>11 DEF v, w, z
<1>14. Log!Decide(n)
  BY <1>6, <1>8, <1>12, <1>13 DEF Log!Decide, Log!Decidable, Log!NoCut, MappedVerdict,
     MappedRetained, MappedCut, OrdinalsIn
<1> QED BY <1>7, <1>14

\* A step that only retains a newest part of what was retained retires it, or
\* is none.
LEMMA RetireRefines ==
  ASSUME MappedVerdict' = MappedVerdict, Log!IsNewestPart(MappedRetained', MappedRetained),
         UNCHANGED <<captured, interval, phase>>, MappedCut' = MappedCut
  PROVE  Log!Retire \/ UNCHANGED Log!vars
<1>1. CASE MappedRetained' = MappedRetained BY <1>1, StutterRefines
<1>2. CASE MappedRetained' # MappedRetained
  <2>1. MappedRetained' \in SUBSET MappedRetained BY DEF Log!IsNewestPart
  <2>2. \E kept \in SUBSET MappedRetained :
          kept # MappedRetained /\ Log!IsNewestPart(kept, MappedRetained) /\ MappedRetained' = kept
    BY <1>2, <2>1
  <2> HIDE DEF MappedVerdict, MappedRetained, MappedCut
  <2>3. (phase' = "CLOSED") = (phase = "CLOSED") OBVIOUS
  <2> QED BY <2>2, <2>3 DEF Log!Retire, MappedVerdict, MappedRetained, MappedCut, OrdinalsIn
<1> QED BY <1>1, <1>2

\* What is captured before the Clear is decided before its cut.
LEMMA BeforeTheCut ==
  ASSUME LosslessInv, NEW s \in Seq(EntryType), Precedes(s, postClearPending),
         NEW i \in 1 .. Len(s), Highest(s[i]) <= captured, MappedCut # -1
  PROVE  Highest(s[i]) <= MappedCut
<1>1. clearing \in {"waiting", "journal"} BY CutNow
<1>2. CASE postClearPending = <<>> BY <1>1, <1>2 DEF MappedCut
<1>3. CASE postClearPending # <<>>
  <2>1. postClearPending \in Seq(EntryType) BY DEF LosslessInv, JournalInv, TypeOK, QueuesTypeOK
  <2>2. 1 \in DOMAIN postClearPending /\ postClearPending[1] \in EntryType /\ i \in DOMAIN s
        /\ s[i] \in EntryType
    BY <1>3, <2>1
  <2>3. Highest(s[i]) < Lowest(postClearPending[1]) BY <2>2 DEF Precedes
  <2>4. Highest(s[i]) \in Nat /\ Lowest(postClearPending[1]) \in Nat BY <2>2, OrdinalsAreNumbers
  <2> QED BY <1>1, <1>3, <2>3, <2>4 DEF MappedCut
<1> QED BY <1>2, <1>3

\* A settled barrier decides its ordinals; nothing is retained or dropped.
LEMMA SettleRefines ==
  ASSUME LosslessInv, LosslessInv', WithinBounds, settleLeadingGapBarrier
  PROVE  \E n \in 1 .. MaxCaptured : Log!Decide(n)
<1> DEFINE z == captured
<1>0. TypeOK /\ StagesAgree /\ EntriesTile /\ CaptureOrder
  BY LosslessIsInOrder DEF LosslessInv, JournalInv
<1>1. PICK d \in Nat, c \in Nat :
        /\ Decided(d) /\ d < c /\ c <= z
        /\ Head(pending).first = d + 1 /\ Head(pending).latest = c
        /\ Tiles(Queued', c, captured)
        /\ DOMAIN receipt' = 1 .. z
        /\ \A o \in 1 .. d : receipt'[o] = receipt[o]
        /\ \A o \in d + 1 .. c : receipt'[o] = "NOT_EVIDENCE"
        /\ \A o \in c + 1 .. z : receipt'[o] = "open"
  BY <1>0, SettleOrdinals
<1>2. /\ pending # <<>> /\ IsBarrier(Head(pending)) /\ pending \in Seq(EntryType)
      /\ UNCHANGED <<captured, interval, phase, postClearPending, clearing, retainedRange>>
      /\ Retained' = Retained /\ ~Advanced /\ ~Advanced' /\ z \in Nat
  BY <1>0, QueuedTypes, ReceiptDomain DEF settleLeadingGapBarrier, retainedVars, durableVars,
     clearVars, closeVars, TypeOK, Retained, Advanced
<1>3. MappedCut' = MappedCut BY <1>2, SameCut
<1>4. Unsettled = 0 /\ Unsettled' = 0 BY <1>2 DEF Unsettled
<1>5. /\ DecidedCount = d
      /\ \A o \in 1 .. d : Verdict(o) = receipt[o]
  <2>1. PICK e \in 0 .. captured : Tiles(Queued, e, captured) /\ Decided(e)
    BY StandsNow DEF LogStands
  <2>2. d \in 0 .. captured /\ captured \in Nat BY <1>1, <1>2
  <2>3. e = d BY <1>1, <2>1, <2>2, OneDecided
  <2> QED BY <1>4, <2>1, <2>3, LogNow DEF LogIsRead
<1>6. /\ DecidedCount' = c
      /\ \A o \in 1 .. c : Verdict(o)' = receipt'[o]
  <2>1. c \in 0 .. captured' /\ captured' = z BY <1>1, <1>2
  <2>2. ASSUME NEW o \in 1 .. c PROVE receipt'[o] # "open"
    <3>1. CASE o \in 1 .. d BY <1>1, <3>1 DEF Decided
    <3>2. CASE o \in d + 1 .. c BY <1>1, <3>2
    <3> QED BY <3>1, <3>2
  <2> QED BY <1>1, <1>4, <2>1, <2>2, ReadAfter
<1>7. MappedCut # -1 => DecidedCount' <= MappedCut
  <2>1. Head(pending) = pending[1] /\ 1 \in 1 .. Len(pending) BY <1>2
  <2>2. Highest(pending[1]) = c BY <1>1, <1>2, <2>1 DEF Highest
  <2>3. Precedes(pending, postClearPending) BY <1>0 DEF CaptureOrder
  <2> QED BY <1>1, <1>2, <1>6, <2>1, <2>2, <2>3, BeforeTheCut
<1>8. /\ \A o \in 1 .. d : Verdict(o)' = Verdict(o)
      /\ \A o \in d + 1 .. c : Verdict(o)' = "NOT_EVIDENCE"
  BY <1>1, <1>5, <1>6
<1>9. Log!IsNewestPart(MappedRetained', MappedRetained \cup
        {o \in DecidedCount + 1 .. DecidedCount' : Verdict(o)' = "BECAME_EVIDENCE"})
  <2>1. {o \in DecidedCount + 1 .. DecidedCount' : Verdict(o)' = "BECAME_EVIDENCE"} = {}
    BY <1>5, <1>6, <1>8
  <2>2. MappedRetained' = MappedRetained BY <1>2, SameRetained
  <2> HIDE DEF MappedRetained
  <2> QED BY <2>1, <2>2 DEF Log!IsNewestPart
<1>10. /\ DecidedCount < DecidedCount'
       /\ \A o \in 1 .. DecidedCount : Verdict(o)' = Verdict(o)
       /\ \A o \in DecidedCount + 1 .. DecidedCount' :
            Verdict(o)' \in {"BECAME_EVIDENCE", "NOT_EVIDENCE"}
  BY <1>1, <1>5, <1>6, <1>8
<1> QED BY <1>2, <1>3, <1>7, <1>9, <1>10, DecideRefines

\* The verdicts of a batch: it becomes Evidence with the transaction, or in
\* memory, before a retention advance and not with it.
LEMMA BatchVerdicts ==
  ASSUME LosslessInv, LosslessInv', Releases \/ Advances
  PROVE  /\ DecidedCount' = DecidedCount + Len(Fresh) /\ Len(Fresh) \in Nat
         /\ \A i \in 1 .. Len(Fresh) : Fresh[i].ordinal = DecidedCount + i
         /\ \A o \in 1 .. DecidedCount : Verdict(o)' = Verdict(o)
         /\ \A o \in DecidedCount + 1 .. DecidedCount' : Verdict(o)' = "BECAME_EVIDENCE"
         /\ DecidedCount' <= captured
<1> DEFINE n == Len(batch)
           z == captured
<1>0. TypeOK /\ EntriesTile BY DEF LosslessInv, JournalInv
<1>1. PICK d \in 0 .. z : Tiles(Queued, d, captured) /\ Decided(d) BY StandsNow DEF LogStands
<1>2. z \in Nat /\ d \in Nat /\ n \in Nat /\ d + n <= z
  BY <1>0, <1>1, BatchOrdinals, ReceiptDomain
<1>3. /\ DecidedCount = d + Unsettled
      /\ \A o \in 1 .. d : Verdict(o) = receipt[o]
      /\ \A o \in d + 1 .. DecidedCount : Verdict(o) = "BECAME_EVIDENCE"
  BY <1>1, <1>2, LogNow DEF LogIsRead
<1>4. /\ Len(Fresh) + Unsettled = n /\ Len(Fresh) \in Nat
      /\ \A i \in 1 .. Len(Fresh) : Fresh[i].ordinal = d + i
  <2>1. PICK e \in 0 .. captured :
          /\ Decided(e)
          /\ Len(Fresh) + Unsettled = Len(batch) /\ Len(Fresh) \in Nat
          /\ \A i \in 1 .. Len(Fresh) : Fresh[i].ordinal = e + i
    BY <1>0, FreshOrdinals
  <2>2. e = d BY <1>1, <1>2, <2>1, OneDecided
  <2> QED BY <2>1, <2>2
<1>5. Unsettled \in Nat /\ (Unsettled = 0 \/ Len(Fresh) = 0)
  <2>1. CASE Advanced BY <1>2, <2>1 DEF Fresh, Unsettled
  <2>2. CASE ~Advanced BY <2>2 DEF Unsettled
  <2> QED BY <2>1, <2>2
<1>6. /\ DecidedCount' = d + n
      /\ \A o \in 1 .. d : Verdict(o)' = receipt[o]
      /\ \A o \in d + 1 .. d + n : Verdict(o)' = "BECAME_EVIDENCE"
  <2>1. CASE Releases
    <3>1. PICK e \in Nat :
            /\ Decided(e) /\ e + n <= z
            /\ DOMAIN receipt' = 1 .. z
            /\ \A o \in 1 .. e : receipt'[o] = receipt[o]
            /\ \A o \in e + 1 .. e + n : receipt'[o] = "BECAME_EVIDENCE"
            /\ \A o \in e + n + 1 .. z : receipt'[o] = "open"
      BY <1>0, <2>1, ReleaseOrdinals
    <3>2. e = d BY <1>1, <1>2, <3>1, OneDecided
    <3>3. Unsettled' = 0 /\ captured' = z BY <2>1 DEF Releases, Unsettled, Advanced
    <3> HIDE DEF n
    <3>4. d + n \in 0 .. captured' /\ \A o \in d + n + 1 .. captured' : receipt'[o] = "open"
      BY <1>2, <3>1, <3>2, <3>3
    <3>5. \A o \in 1 .. d + n : o \in 1 .. d \/ o \in d + 1 .. d + n BY <1>2
    <3>6. \A o \in 1 .. d + n : receipt'[o] # "open" BY <1>1, <3>1, <3>2, <3>5 DEF Decided
    <3>7. /\ DecidedCount' = (d + n) + Unsettled'
          /\ \A o \in 1 .. d + n : Verdict(o)' = receipt'[o]
      BY <3>4, <3>6, ReadAfter
    <3>8. \A o : o \in 1 .. d \/ o \in d + 1 .. d + n => o \in 1 .. d + n BY <1>2
    <3> QED BY <1>2, <3>1, <3>2, <3>3, <3>7, <3>8
  <2>2. CASE Advances
    <3>1. UNCHANGED <<receipt, captured, batch>> /\ Advanced' BY <2>2 DEF Advances, Advanced
    <3>2. Unsettled' = n BY <3>1 DEF Unsettled
    <3> HIDE DEF n
    <3>3. /\ d \in 0 .. captured'
          /\ \A o \in 1 .. d : receipt'[o] # "open"
          /\ \A o \in d + 1 .. captured' : receipt'[o] = "open"
      BY <1>1, <1>2, <3>1 DEF Decided
    <3>4. /\ DecidedCount' = d + n
          /\ \A o \in 1 .. d : Verdict(o)' = receipt'[o]
          /\ \A o \in d + 1 .. DecidedCount' : Verdict(o)' = "BECAME_EVIDENCE"
      BY <3>2, <3>3, ReadAfter
    <3> QED BY <3>1, <3>4
  <2> QED BY <2>1, <2>2
<1> DEFINE k == Len(Fresh)
           u == Unsettled
<1>7. DecidedCount' = DecidedCount + k /\ DecidedCount = d + u /\ u <= n /\ k + u = n
  BY <1>2, <1>3, <1>4, <1>5, <1>6
<1>8. \A i \in 1 .. k : Fresh[i].ordinal = DecidedCount + i
  <2>1. CASE u = 0 BY <1>2, <1>3, <1>4, <2>1
  <2>2. CASE k = 0 BY <2>2
  <2> QED BY <1>5, <2>1, <2>2
<1> HIDE DEF k, u, n, z
<1>9. u \in Nat /\ k \in Nat BY <1>4, <1>5 DEF k, u
<1>10. ASSUME NEW o \in 1 .. DecidedCount PROVE Verdict(o)' = Verdict(o)
  <2>1. CASE o \in 1 .. d BY <1>3, <1>6, <2>1
  <2>2. CASE o \in d + 1 .. d + u
    <3>1. o \in d + 1 .. d + n BY <1>2, <1>7, <1>9, <2>2
    <3>2. o \in d + 1 .. DecidedCount BY <1>7, <2>2
    <3> QED BY <1>3, <1>6, <3>1, <3>2
  <2>3. o \in 1 .. d \/ o \in d + 1 .. d + u BY <1>2, <1>7, <1>9
  <2> QED BY <2>1, <2>2, <2>3
<1>11. ASSUME NEW o \in DecidedCount + 1 .. DecidedCount' PROVE Verdict(o)' = "BECAME_EVIDENCE"
  BY <1>6, <1>2, <1>7, <1>9
<1>12. DecidedCount' <= captured BY <1>2, <1>6 DEF z
<1> QED BY <1>4, <1>7, <1>8, <1>10, <1>11, <1>12 DEF k

\* The end of a sequence in capture order is its newest part.
LEMMA EndIsNewest ==
  ASSUME NEW s \in Seq(EvidenceType), NEW t \in Seq(EvidenceType), NEW j \in 0 .. Len(s),
         \A a, b \in 1 .. Len(s) : a < b => s[a].ordinal < s[b].ordinal,
         Len(t) = Len(s) - j, \A i \in 1 .. Len(s) - j : t[i] = s[j + i]
  PROVE  Log!IsNewestPart(OrdinalsIn(t), OrdinalsIn(s))
<1>1. Len(s) \in Nat /\ DOMAIN s = 1 .. Len(s) /\ DOMAIN t = 1 .. Len(s) - j /\ j \in Nat
  OBVIOUS
<1>2. ASSUME NEW x \in OrdinalsIn(t) PROVE \E i \in 1 .. Len(s) : j < i /\ x = s[i].ordinal
  <2>1. PICK i \in 1 .. Len(s) - j : x = t[i].ordinal BY <1>1 DEF OrdinalsIn
  <2>2. j + i \in 1 .. Len(s) /\ j < j + i BY <1>1
  <2> QED BY <2>1, <2>2
<1>3. ASSUME NEW i \in 1 .. Len(s), j < i PROVE s[i].ordinal \in OrdinalsIn(t)
  <2>1. i - j \in 1 .. Len(s) - j /\ j + (i - j) = i BY <1>1, <1>3
  <2>2. t[i - j] = s[i] BY <2>1
  <2> QED BY <1>1, <2>1, <2>2 DEF OrdinalsIn
<1>4. OrdinalsIn(s) = {s[i].ordinal : i \in 1 .. Len(s)} BY <1>1 DEF OrdinalsIn
<1>5. OrdinalsIn(t) \subseteq OrdinalsIn(s) BY <1>2, <1>4
<1>6. ASSUME NEW x \in OrdinalsIn(t), NEW lost \in OrdinalsIn(s) \ OrdinalsIn(t) PROVE lost < x
  <2>1. PICK b \in 1 .. Len(s) : j < b /\ x = s[b].ordinal BY <1>2
  <2>2. PICK a \in 1 .. Len(s) : lost = s[a].ordinal BY <1>4
  <2>3. ~(j < a) BY <1>3, <2>2
  <2>4. a < b BY <1>1, <2>1, <2>3
  <2> QED BY <2>1, <2>2, <2>4
<1> QED BY <1>5, <1>6 DEF Log!IsNewestPart

\* What a step of the batch retains is the newest part of what was retained and
\* of what it adds.
LEMMA BatchNewest ==
  ASSUME LosslessInv, LosslessInv',
         \/ journalCommitSucceeds \/ journalTrimSucceeds \/ memoryAccepts
         \/ \E read \in BOOLEAN : fallBackAfterCommit(read) \/ fallBackAfterTrim(read)
  PROVE  /\ Log!IsNewestPart(OrdinalsIn(Retained'),
                             OrdinalsIn(Retained) \cup (DecidedCount + 1 .. DecidedCount'))
         /\ Releases \/ Advances
         /\ phase = "RUNNING"
<1> DEFINE m == Len(Retained)
           n == Len(Fresh)
           d == DecidedCount
           all == Retained \o Fresh
<1>0. /\ JournalInv /\ JournalInv' /\ IsTail(Retained, committedEvidenceBoundary, interval)
      /\ RetainedExact /\ Identities /\ RetainedInOrder
  BY DEF LosslessInv
<1>1. /\ \E s \in {Retained, <<>>} : \E k \in 0 .. Len(s \o Fresh) : Retains(s \o Fresh, k)
      /\ Releases \/ Advances
      /\ phase = "RUNNING"
  BY <1>0, RetainedParts, BatchRetains
<1>2. /\ Retained \in Seq(EvidenceType) /\ Fresh \in Seq(EvidenceType) /\ m \in Nat /\ n \in Nat
      /\ DOMAIN Retained = 1 .. m
  <2>1. Retained \in {Retained, <<>>} OBVIOUS
  <2>2. Retained \in Seq(EvidenceType) /\ Fresh \in Seq(EvidenceType)
    BY <1>0, <1>1, <2>1, GrownTail
  <2> HIDE DEF Retained, EvidenceType
  <2> QED BY <2>2
<1>3. /\ d' = d + n /\ d \in Nat
      /\ \A i \in 1 .. n : Fresh[i].ordinal = d + i
  <2>1. /\ DecidedCount' = DecidedCount + Len(Fresh)
        /\ \A i \in 1 .. Len(Fresh) : Fresh[i].ordinal = DecidedCount + i
    BY <1>1, BatchVerdicts
  <2>2. DecidedCount \in 0 .. captured BY VerdictsNow DEF VerdictsAreSequence
  <2> QED BY <2>1, <2>2
<1>4. /\ \A i \in 1 .. m : Retained[i].ordinal \in Nat /\ Retained[i].ordinal <= d
      /\ \A i, j \in 1 .. m : i < j => Retained[i].ordinal < Retained[j].ordinal
  <2>1. PICK e \in 0 .. captured : Tiles(Queued, e, captured) /\ Decided(e)
    BY StandsNow DEF LogStands
  <2>2. d = e + Unsettled BY <2>1, LogNow DEF LogIsRead
  <2>3. \A i \in DOMAIN Retained : Retained[i].ordinal <= e + Unsettled
    BY <1>0, <2>1 DEF RetainedInOrder
  <2>4. ASSUME NEW i \in 1 .. m
        PROVE  /\ Lowest(Retained[i]) = Retained[i].ordinal
               /\ Highest(Retained[i]) = Retained[i].ordinal
               /\ Retained[i].ordinal \in Nat
    <3>1. Retained[i] \in EvidenceType
      <4> HIDE DEF Retained, EvidenceType
      <4> QED BY <1>2
    <3> QED BY <3>1, EvidenceOrdinals
  <2>5. InOrder(Retained) BY <1>0 DEF RetainedInOrder
  <2> HIDE DEF Retained, d, m
  <2>6. ASSUME NEW i \in 1 .. m, NEW j \in 1 .. m, i < j
        PROVE  Retained[i].ordinal < Retained[j].ordinal
    BY <1>2, <2>4, <2>5, <2>6 DEF InOrder
  <2> QED BY <1>2, <2>2, <2>3, <2>4, <2>6
<1> HIDE DEF Retained, m, n, d, EvidenceType
<1>5. /\ all \in Seq(EvidenceType) /\ Len(all) = m + n
      /\ \A i \in 1 .. m : all[i] = Retained[i]
      /\ \A i \in 1 .. n : all[m + i] = Fresh[i]
      /\ \A i \in 1 .. m + n : \/ i \in 1 .. m /\ all[i] = Retained[i]
                               \/ i - m \in 1 .. n /\ all[i] = Fresh[i - m]
  BY <1>2, Concat DEF m, n
<1>6. \E j \in 0 .. m + n : /\ Retained' \in Seq(EvidenceType) /\ Len(Retained') = (m + n) - j
                            /\ \A i \in 1 .. (m + n) - j : Retained'[i] = all[j + i]
  <2>1. PICK s \in {Retained, <<>>} : \E k \in 0 .. Len(s \o Fresh) : Retains(s \o Fresh, k)
    BY <1>1
  <2>2. PICK k \in 0 .. Len(s \o Fresh) : Retains(s \o Fresh, k) BY <2>1
  <2>3. CASE s = Retained
    <3>1. all \in Seq(EvidenceType) /\ k \in 0 .. Len(all) /\ Retains(all, k)
      BY <1>5, <2>2, <2>3
    <3> HIDE DEF all
    <3>2. /\ Retained' \in Seq(EvidenceType) /\ Len(Retained') = Len(all) - k
          /\ \A i \in 1 .. Len(all) - k : Retained'[i] = all[k + i]
      BY <3>1, KeptParts
    <3> QED BY <1>5, <3>1, <3>2
  <2>4. CASE s = <<>>
    <3>1. s \o Fresh = Fresh BY <1>2, <2>4, EmptyConcat
    <3>2. k \in 0 .. n /\ Retains(Fresh, k) /\ Fresh \in Seq(EvidenceType)
      BY <1>2, <2>2, <3>1 DEF n
    <3>3. /\ Retained' \in Seq(EvidenceType) /\ Len(Retained') = n - k
          /\ \A i \in 1 .. n - k : Retained'[i] = Fresh[k + i]
      BY <3>2, KeptParts DEF n
    <3> HIDE DEF all
    <3>4. m + k \in 0 .. m + n /\ (m + n) - (m + k) = n - k BY <1>2, <3>2
    <3>5. ASSUME NEW i \in 1 .. n - k PROVE Retained'[i] = all[(m + k) + i]
      <4>1. k + i \in 1 .. n /\ (m + k) + i = m + (k + i) BY <1>2, <3>2
      <4>2. all[m + (k + i)] = Fresh[k + i] BY <1>5, <4>1
      <4> QED BY <3>3, <4>1, <4>2
    <3> QED BY <3>3, <3>4, <3>5
  <2> QED BY <2>3, <2>4
<1> HIDE DEF all
<1>7. ASSUME NEW a \in 1 .. m + n, NEW b \in 1 .. m + n, a < b
      PROVE  all[a].ordinal < all[b].ordinal
  <2>1. CASE a \in 1 .. m /\ b \in 1 .. m BY <1>4, <1>5, <1>7, <2>1
  <2>2. CASE a \in 1 .. m /\ b \notin 1 .. m
    <3>1. all[a].ordinal <= d /\ all[a].ordinal \in Nat BY <1>4, <1>5, <2>2
    <3>2. b - m \in 1 .. n /\ all[b].ordinal = d + (b - m) BY <1>3, <1>5, <2>2
    <3> QED BY <1>2, <1>3, <3>1, <3>2
  <2>3. CASE a \notin 1 .. m
    <3>1. b \notin 1 .. m BY <1>2, <1>7, <2>3
    <3>2. a - m \in 1 .. n /\ all[a].ordinal = d + (a - m) BY <1>3, <1>5, <2>3
    <3>3. b - m \in 1 .. n /\ all[b].ordinal = d + (b - m) BY <1>3, <1>5, <3>1
    <3> QED BY <1>2, <1>3, <1>7, <3>2, <3>3
  <2> QED BY <2>1, <2>2, <2>3
<1>8. OrdinalsIn(all) = OrdinalsIn(Retained) \cup (d + 1 .. d + n)
  <2>1. DOMAIN all = 1 .. m + n BY <1>2, <1>5
  <2>2. ASSUME NEW i \in 1 .. m + n
        PROVE  all[i].ordinal \in OrdinalsIn(Retained) \cup (d + 1 .. d + n)
    <3>1. CASE i \in 1 .. m /\ all[i] = Retained[i] BY <1>2, <3>1 DEF OrdinalsIn
    <3>2. CASE i - m \in 1 .. n /\ all[i] = Fresh[i - m] BY <1>2, <1>3, <3>2
    <3> QED BY <1>5, <3>1, <3>2
  <2>3. ASSUME NEW x \in OrdinalsIn(Retained) PROVE \E i \in 1 .. m + n : x = all[i].ordinal
    <3>1. PICK i \in 1 .. m : x = Retained[i].ordinal BY <1>2 DEF OrdinalsIn
    <3>2. i \in 1 .. m + n BY <1>2
    <3> QED BY <1>5, <3>1, <3>2
  <2>4. ASSUME NEW x \in d + 1 .. d + n PROVE \E i \in 1 .. m + n : x = all[i].ordinal
    <3>1. x - d \in 1 .. n /\ m + (x - d) \in 1 .. m + n /\ d + (x - d) = x BY <1>2, <1>3
    <3>2. all[m + (x - d)].ordinal = x BY <1>3, <1>5, <3>1
    <3> QED BY <3>1, <3>2
  <2> QED BY <2>1, <2>2, <2>3, <2>4 DEF OrdinalsIn
<1>9. Log!IsNewestPart(OrdinalsIn(Retained'), OrdinalsIn(all))
  <2>1. PICK j \in 0 .. m + n :
          /\ Retained' \in Seq(EvidenceType) /\ Len(Retained') = (m + n) - j
          /\ \A i \in 1 .. (m + n) - j : Retained'[i] = all[j + i]
    BY <1>6
  <2> DEFINE t == Retained'
  <2>2. /\ all \in Seq(EvidenceType) /\ t \in Seq(EvidenceType) /\ j \in 0 .. Len(all)
        /\ Len(t) = Len(all) - j /\ \A i \in 1 .. Len(all) - j : t[i] = all[j + i]
        /\ \A a, b \in 1 .. Len(all) : a < b => all[a].ordinal < all[b].ordinal
    BY <1>5, <1>7, <2>1
  <2> HIDE DEF t
  <2>3. Log!IsNewestPart(OrdinalsIn(t), OrdinalsIn(all)) BY <2>2, EndIsNewest
  <2> QED BY <2>3 DEF t
<1>10. d + 1 .. d + n = DecidedCount + 1 .. DecidedCount' BY <1>3 DEF d
<1> QED BY <1>1, <1>8, <1>9, <1>10

\* A batch decides when it becomes Evidence, and retires behind a retention
\* advance.
LEMMA BatchRefines ==
  ASSUME LosslessInv, LosslessInv', WithinBounds,
         \/ journalCommitSucceeds \/ journalTrimSucceeds \/ memoryAccepts
         \/ \E read \in BOOLEAN : fallBackAfterCommit(read) \/ fallBackAfterTrim(read)
  PROVE  (\E n \in 1 .. MaxCaptured : Log!Decide(n)) \/ Log!Retire \/ UNCHANGED Log!vars
<1> DEFINE F == DecidedCount + 1 .. DecidedCount'
<1>1. /\ Log!IsNewestPart(OrdinalsIn(Retained'), OrdinalsIn(Retained) \cup F)
      /\ Releases \/ Advances
      /\ phase = "RUNNING"
  BY BatchNewest
<1>2. UNCHANGED <<captured, interval, phase, postClearPending, clearing>>
  BY DEF journalCommitSucceeds, journalTrimSucceeds, memoryAccepts, fallBackAfterCommit,
         fallBackAfterTrim, BatchDone, UnchangedByBatch, closeVars, queueVars, clearVars
<1>3. MappedCut' = MappedCut BY <1>2, SameCut
<1>4. MappedRetained' = OrdinalsIn(Retained') /\ MappedRetained = OrdinalsIn(Retained)
  <2>1. (phase = "RUNNING" => MappedRetained = OrdinalsIn(Retained))' BY RetainedNow, PTL
  <2> HIDE DEF Retained, MappedRetained, OrdinalsIn
  <2> QED BY <1>1, <1>2, <2>1, RetainedNow
<1>5. /\ DecidedCount' = DecidedCount + Len(Fresh) /\ Len(Fresh) \in Nat
      /\ \A o \in 1 .. DecidedCount : Verdict(o)' = Verdict(o)
      /\ \A o \in DecidedCount + 1 .. DecidedCount' : Verdict(o)' = "BECAME_EVIDENCE"
      /\ DecidedCount' <= captured /\ DecidedCount \in Nat
  <2>1. DecidedCount \in 0 .. captured BY VerdictsNow DEF VerdictsAreSequence
  <2> QED BY <1>1, <2>1, BatchVerdicts
<1>6. Log!IsNewestPart(MappedRetained', MappedRetained \cup F) BY <1>1, <1>4
<1> HIDE DEF MappedRetained, Retained
<1>7. CASE Len(Fresh) = 0
  <2>1. DecidedCount' = DecidedCount /\ F = {} BY <1>5, <1>7
  <2>2. MappedVerdict' = MappedVerdict BY <1>5, <2>1 DEF MappedVerdict
  <2>3. Log!IsNewestPart(MappedRetained', MappedRetained) BY <1>6, <2>1
  <2> QED BY <1>2, <1>3, <2>2, <2>3, RetireRefines
<1>8. CASE Len(Fresh) # 0
  <2>1. DecidedCount < DecidedCount' BY <1>5, <1>8
  <2>2. {o \in F : Verdict(o)' = "BECAME_EVIDENCE"} = F BY <1>5
  <2>3. MappedCut # -1 => DecidedCount' <= MappedCut
    <3>1. ~Advanced BY <1>8 DEF Fresh
    <3>2. TypeOK /\ StagesAgree /\ CaptureOrder BY LosslessIsInOrder DEF LosslessInv, JournalInv
    <3>3. /\ inFlight = batch /\ Len(Fresh) = Len(batch) /\ batch \in Seq(CandidateType)
          /\ batch \in Seq(EntryType)
      <4>1. processing # "no" /\ processing # "loop"
        BY DEF journalCommitSucceeds, journalTrimSucceeds, memoryAccepts, fallBackAfterCommit,
               fallBackAfterTrim
      <4>2. processing \in {"commit", "snapshot"}
        BY <3>1, <3>2, <4>1 DEF TypeOK, LifecycleTypeOK, Advanced
      <4>3. Len(Fresh) = Len(batch) BY <3>1, <3>2, EvidenceIsTheBatch DEF TypeOK, Fresh
      <4> QED BY <3>2, <4>2, <4>3, QueuedTypes DEF inFlight, TypeOK, QueuesTypeOK
    <3>4. Precedes(batch, postClearPending) BY <3>2, <3>3 DEF CaptureOrder
    <3> DEFINE n == Len(batch)
    <3>5. n \in 1 .. n /\ n \in Nat BY <1>8, <3>3
    <3>6. Highest(batch[n]) = DecidedCount'
      <4>1. Fresh[n].ordinal = DecidedCount + n BY <1>1, <3>3, <3>5, BatchVerdicts
      <4>2. Fresh[n].ordinal = batch[n].ordinal
        BY <3>1, <3>2, <3>5, EvidenceIsTheBatch DEF TypeOK, Fresh
      <4>3. batch[n] \in CandidateType BY <3>3, <3>5
      <4>4. Highest(batch[n]) = batch[n].ordinal BY <4>3 DEF CandidateType, Highest, IsBarrier
      <4> QED BY <1>5, <3>3, <4>1, <4>2, <4>4
    <3> QED BY <1>5, <3>3, <3>4, <3>5, <3>6, BeforeTheCut
  <2>4. \A o \in DecidedCount + 1 .. DecidedCount' :
          Verdict(o)' \in {"BECAME_EVIDENCE", "NOT_EVIDENCE"}
    BY <1>5
  <2>5. Log!IsNewestPart(MappedRetained', MappedRetained \cup
          {o \in DecidedCount + 1 .. DecidedCount' : Verdict(o)' = "BECAME_EVIDENCE"})
    BY <1>6, <2>2
  <2>6. \A o \in 1 .. DecidedCount : Verdict(o)' = Verdict(o) BY <1>5
  <2> QED BY <1>2, <1>3, <2>1, <2>3, <2>4, <2>5, <2>6, DecideRefines
<1> QED BY <1>5, <1>7, <1>8

\* What joins the end of a queue leaves its head alone.
LEMMA AppendHead ==
  ASSUME NEW S, NEW s \in Seq(S), NEW x \in S, s # <<>> PROVE Append(s, x)[1] = s[1]
OBVIOUS

\* An offer joins the queue it belongs to.
LEMMA OfferGrows ==
  ASSUME TypeOK, NEW id \in EventIds, NEW b \in Sizes, offer(id, b)
  PROVE  \E q \in Seq(EntryType) :
           /\ q # <<>> /\ Queue(q)
           /\ clearQueueForEntry = <<>> => Lowest(q[1]) = captured + 1
           /\ clearQueueForEntry # <<>> => Lowest(q[1]) = Lowest(clearQueueForEntry[1])
<1> DEFINE o == captured + 1
           e == Candidate(o, id, b)
           queue == clearQueueForEntry
           q == Append(queue, e)
<1>1. o \in Nat /\ queue \in Seq(EntryType)
  BY ReceiptDomain, QueuedTypes DEF TypeOK, clearQueueForEntry
<1>2. e \in EntryType /\ Lowest(e) = o
  BY <1>1 DEF Candidate, CandidateType, EntryType, Lowest, IsBarrier
<1>3. Queue(q) BY DEF offer
<1> HIDE DEF e, queue
<1>4. q \in Seq(EntryType) /\ q # <<>> BY <1>1, <1>2, AppendFacts
<1>5. queue = <<>> => q[1] = e BY <1>1, <1>2
<1>6. queue # <<>> => q[1] = queue[1] BY <1>1, <1>2, AppendHead
<1> HIDE DEF q
<1> QED BY <1>2, <1>3, <1>4, <1>5, <1>6 DEF queue

\* So does a refusal, in a barrier of its own or in the one at the end.
LEMMA RefuseGrows ==
  ASSUME TypeOK, NEW b \in Sizes, NEW dim \in Dimensions, refuseUnretainable(b, dim)
  PROVE  \E q \in Seq(EntryType) :
           /\ q # <<>> /\ Queue(q)
           /\ clearQueueForEntry = <<>> => Lowest(q[1]) = captured + 1
           /\ clearQueueForEntry # <<>> => Lowest(q[1]) = Lowest(clearQueueForEntry[1])
<1> DEFINE o == captured + 1
           queue == clearQueueForEntry
           g == GapBarrier(o, o, 1, dim)
           merges == queue # <<>> /\ IsBarrier(Last(queue)) /\ Last(queue).dimension = dim
<1>1. o \in Nat /\ queue \in Seq(EntryType)
  BY ReceiptDomain, QueuedTypes DEF TypeOK, clearQueueForEntry
<1>2. CASE merges
  <2> DEFINE n == Len(queue)
             q == [queue EXCEPT ![n] = Extended(@, o)]
  <2>1. Queue(q) BY <1>2 DEF refuseUnretainable
  <2>2. queue # <<>> /\ IsBarrier(queue[n]) BY <1>2 DEF Last
  <2> HIDE DEF queue
  <2>3. /\ q \in Seq(EntryType) /\ Len(q) = Len(queue)
        /\ \A i \in 1 .. (Len(queue) - 1) : q[i] = queue[i]
        /\ Lowest(q[Len(queue)]) = Lowest(queue[Len(queue)])
    <3>1. q = [queue EXCEPT ![Len(queue)] = Extended(@, o)] /\ queue \in Seq(EntryType) /\ o \in Nat
      BY <1>1
    <3> HIDE DEF q
    <3> QED BY <2>2, <3>1, ExtendedTail
  <2> HIDE DEF q
  <2>4. Len(queue) \in Nat /\ Len(queue) # 0 /\ q # <<>> BY <1>1, <2>2, <2>3
  <2>5. Lowest(q[1]) = Lowest(queue[1])
    <3>1. CASE Len(queue) = 1 BY <2>3, <3>1
    <3>2. CASE Len(queue) # 1
      <4>1. \A k \in Nat : k # 0 /\ k # 1 => 1 \in 1 .. (k - 1) OBVIOUS
      <4>2. 1 \in 1 .. (Len(queue) - 1) BY <2>4, <3>2, <4>1
      <4> QED BY <2>3, <4>2
    <3> QED BY <3>1, <3>2
  <2> QED BY <2>1, <2>2, <2>3, <2>4, <2>5 DEF queue
<1>3. CASE ~merges
  <2> DEFINE q == Append(queue, g)
  <2>1. Queue(q) BY <1>3 DEF refuseUnretainable
  <2>2. g \in EntryType /\ Lowest(g) = o
    BY <1>1 DEF GapBarrier, BarrierType, EntryType, Lowest, IsBarrier
  <2> HIDE DEF g, queue
  <2>3. q \in Seq(EntryType) /\ q # <<>> BY <1>1, <2>2, AppendFacts
  <2>4. queue = <<>> => q[1] = g BY <1>1, <2>2
  <2>5. queue # <<>> => q[1] = queue[1] BY <1>1, <2>2, AppendHead
  <2> HIDE DEF q
  <2> QED BY <2>1, <2>2, <2>3, <2>4, <2>5 DEF queue
<1> QED BY <1>2, <1>3

\* Once the queue in front of a Clear or a Close has drained, what is decided
\* ends where the queue behind the Clear begins.
LEMMA DrainedVerdict ==
  ASSUME LosslessInv, isIdle
  PROVE  /\ \E d \in Nat : Tiles(postClearPending, d, captured) /\ Len(MappedVerdict) = d
         /\ postClearPending = <<>> => Len(MappedVerdict) = captured
<1>1. batch = <<>> /\ pending = <<>> /\ postClearPending \in Seq(EntryType) /\ Unsettled = 0
  BY QueuedTypes DEF isIdle, LosslessInv, JournalInv, StagesAgree, TypeOK, Unsettled, Advanced
<1>2. Queued = postClearPending BY <1>1 DEF Queued
<1>3. PICK d \in 0 .. captured : Tiles(Queued, d, captured) /\ Decided(d)
  BY StandsNow DEF LogStands
<1>4. d \in Nat /\ captured \in Nat BY <1>3, ReceiptDomain DEF LosslessInv, JournalInv
<1>5. Len(MappedVerdict) = d
  BY VerdictsNow, <1>1, <1>3, <1>4, LogNow DEF VerdictsAreSequence, LogIsRead
<1>6. postClearPending = <<>> => d = captured BY <1>2, <1>3 DEF Tiles
<1> HIDE DEF MappedVerdict
<1> QED BY <1>2, <1>3, <1>4, <1>5, <1>6

\* The empty log.
LEMMA LogInit == Init => Log!Init
<1> SUFFICES ASSUME Init PROVE Log!Init OBVIOUS
<1>1. DecidedCount = 0
  <2>1. DOMAIN receipt = {} BY DEF Init
  <2>2. {o \in DOMAIN receipt : \A p \in 1 .. o : Verdict(p) # "open"} = {} BY <2>1
  <2> QED BY <2>2, FS_EmptySet DEF DecidedCount
<1>2. MappedVerdict = <<>> BY <1>1 DEF MappedVerdict
<1>3. MappedCut = -1 /\ MappedRetained = {} BY DEF Init, MappedCut, MappedRetained
<1> QED
  BY <1>2, <1>3 DEF Init, Log!Init, Log!NoCut, MappedVerdict, MappedCut, MappedRetained, OrdinalsIn

\* Every step of the coordinator is a step of the log, or none.
LEMMA LogStep ==
  ASSUME ~OfferBeforeCleanup, LosslessInv, LosslessInv', WithinBounds, [Next]_vars
  PROVE  [Log!Next]_(Log!vars)
<1> USE DEF queueVars, retainedVars, durableVars, gapVars, clearVars, closeVars, journalVars,
            historyVars, captureVars
<1> DEFINE Goal == [Log!Next]_(Log!vars)
<1>s. ASSUME UNCHANGED Log!vars PROVE Goal BY <1>s
<1>n. ASSUME Log!Next PROVE Goal BY <1>n
<1> HIDE DEF Goal
<1> SUFFICES Goal BY DEF Goal
<1>0. TypeOK /\ StagesAgree BY DEF LosslessInv, JournalInv
<1>1. ASSUME NEW id \in EventIds, NEW b \in Sizes, offer(id, b) PROVE Goal
  <2>1. PICK q \in Seq(EntryType) :
          /\ q # <<>> /\ Queue(q)
          /\ clearQueueForEntry = <<>> => Lowest(q[1]) = captured + 1
          /\ clearQueueForEntry # <<>> => Lowest(q[1]) = Lowest(clearQueueForEntry[1])
    BY <1>0, <1>1, OfferGrows
  <2>2. MayOffer /\ TakesOrdinal BY <1>1 DEF offer
  <2>3. Log!Capture BY <2>1, <2>2, CaptureRefines
  <2> QED BY <1>n, <2>3 DEF Log!Next
<1>2. ASSUME NEW b \in Sizes, NEW dim \in Dimensions, refuseUnretainable(b, dim) PROVE Goal
  <2>1. PICK q \in Seq(EntryType) :
          /\ q # <<>> /\ Queue(q)
          /\ clearQueueForEntry = <<>> => Lowest(q[1]) = captured + 1
          /\ clearQueueForEntry # <<>> => Lowest(q[1]) = Lowest(clearQueueForEntry[1])
    BY <1>0, <1>2, RefuseGrows
  <2>2. MayOffer /\ TakesOrdinal BY <1>2 DEF refuseUnretainable
  <2>3. Log!Capture BY <2>1, <2>2, CaptureRefines
  <2> QED BY <1>n, <2>3 DEF Log!Next
<1>3. CASE settleLeadingGapBarrier BY <1>n, <1>3, SettleRefines DEF Log!Next
<1>4. CASE \/ journalCommitSucceeds \/ journalTrimSucceeds \/ memoryAccepts
           \/ \E read \in BOOLEAN : fallBackAfterCommit(read) \/ fallBackAfterTrim(read)
  BY <1>s, <1>n, <1>4, BatchRefines DEF Log!Next
<1>5. CASE clear
  <2>1. /\ phase = "RUNNING" /\ clearing = "no" /\ clearing' = "waiting"
        /\ UNCHANGED <<captured, receipt, interval, phase, postClearPending, batch, processing,
                       durableRetentionEntries, volatileEvidence, retainedRange>>
    BY <1>5 DEF clear
  <2>2. postClearPending = <<>>
    BY <1>0, <2>1 DEF StagesAgree, LosslessInv, NothingBehindTheClear
  <2>3. MappedCut = -1 /\ MappedCut' = captured BY <2>1, <2>2 DEF MappedCut
  <2>4. MappedVerdict' = MappedVerdict BY <2>1, SameVerdicts DEF Advanced
  <2>5. MappedRetained' = MappedRetained BY <2>1, SameRetained DEF Retained
  <2>6. Log!RequestClear
    BY <2>1, <2>3, <2>4, <2>5 DEF Log!RequestClear, Log!NoCut, MappedCut, MappedVerdict,
       MappedRetained, OrdinalsIn
  <2> QED BY <1>n, <2>6 DEF Log!Next
<1>6. CASE clearSucceeds
  <2>1. /\ clearing = "journal" /\ clearing' = "settled" /\ interval' = interval + 1
        /\ retainedRange' = NoRange
        /\ UNCHANGED <<captured, receipt, phase, batch, processing>>
    BY <1>6 DEF clearSucceeds
  <2>2. isIdle /\ interval < MaxIntervals BY <1>0, <2>1 DEF StagesAgree, WithinBounds
  <2>3. MappedCut # -1 /\ Len(MappedVerdict) = MappedCut BY <2>1, <2>2, CutNow, DrainedVerdict
  <2>4. MappedVerdict' = MappedVerdict BY <2>1, SameVerdicts DEF Advanced
  <2>5. MappedRetained' = {} /\ MappedCut' = -1 BY <2>1 DEF MappedRetained, MappedCut
  <2>6. Log!CompleteClear
    BY <2>1, <2>2, <2>3, <2>4, <2>5 DEF Log!CompleteClear, Log!NoCut, MappedCut, MappedVerdict,
       MappedRetained, OrdinalsIn
  <2> QED BY <1>n, <2>6 DEF Log!Next
<1>7. CASE clearFails
  <2>1. /\ clearing = "journal" /\ clearing' = "settled"
        /\ UNCHANGED <<captured, receipt, interval, phase, batch, processing,
                       durableRetentionEntries, volatileEvidence, retainedRange>>
    BY <1>7 DEF clearFails
  <2>2. MappedCut # -1 /\ MappedCut' = -1 BY <2>1, CutNow DEF MappedCut
  <2>3. MappedVerdict' = MappedVerdict BY <2>1, SameVerdicts DEF Advanced
  <2>4. MappedRetained' = MappedRetained BY <2>1, SameRetained DEF Retained
  <2>5. Log!FailClear
    BY <2>1, <2>2, <2>3, <2>4 DEF Log!FailClear, Log!NoCut, MappedCut, MappedVerdict,
       MappedRetained, OrdinalsIn
  <2> QED BY <1>n, <2>5 DEF Log!Next
<1>8. CASE closeEnds
  <2>1. /\ closeStage = "journal" /\ phase' = "CLOSED"
        /\ UNCHANGED <<captured, receipt, interval, clearing, postClearPending, batch, processing,
                       durableRetentionEntries, volatileEvidence>>
        /\ retainedRange' = NoRange \/ retainedRange' = retainedRange
    BY <1>8 DEF closeEnds, UnchangedByClose
  <2>2. isIdle /\ clearing = "no" /\ phase # "CLOSED" /\ ~clearInProgress
    BY <1>0, <2>1 DEF StagesAgree
  <2>3. postClearPending = <<>> BY <2>2 DEF LosslessInv, NothingBehindTheClear
  <2>4. Len(MappedVerdict) = captured BY <2>2, <2>3, DrainedVerdict
  <2>5. MappedCut = -1 /\ MappedCut' = -1 BY <2>1, <2>2 DEF MappedCut
  <2>6. MappedVerdict' = MappedVerdict BY <2>1, SameVerdicts DEF Advanced
  <2>7. MappedRetained' = {} \/ MappedRetained' = MappedRetained
    <3>1. CASE retainedRange' = NoRange BY <3>1 DEF MappedRetained
    <3>2. CASE retainedRange' = retainedRange BY <2>1, <3>2, SameRetained DEF Retained
    <3> QED BY <2>1, <3>1, <3>2
  <2>8. Log!Close
    BY <2>1, <2>2, <2>4, <2>5, <2>6, <2>7 DEF Log!Close, Log!NoCut, MappedCut, MappedVerdict,
       MappedRetained, OrdinalsIn
  <2> QED BY <1>n, <2>8 DEF Log!Next
<1>9. ASSUME UNCHANGED <<captured, receipt, interval, phase, postClearPending,
                         durableRetentionEntries, volatileEvidence, retainedRange>>,
             (clearing' \in {"waiting", "journal"}) <=> (clearing \in {"waiting", "journal"}),
             Advanced' = Advanced, Advanced => batch' = batch
      PROVE  Goal
  <2>1. MappedVerdict' = MappedVerdict BY <1>9, SameVerdicts
  <2>2. MappedRetained' = MappedRetained BY <1>9, SameRetained DEF Retained
  <2>3. MappedCut' = MappedCut BY <1>9, SameCut
  <2>4. UNCHANGED <<captured, interval>> /\ (phase' = "CLOSED") = (phase = "CLOSED") BY <1>9
  <2> QED BY <1>s, <2>1, <2>2, <2>3, <2>4, StutterRefines
<1>10. ASSUME UNCHANGED <<captured, receipt, interval, phase, postClearPending,
                          durableRetentionEntries, volatileEvidence, retainedRange>>,
              (clearing' \in {"waiting", "journal"}) <=> (clearing \in {"waiting", "journal"}),
              UNCHANGED <<batch, processing>>
       PROVE  Goal
  BY <1>9, <1>10 DEF Advanced
<1>11. CASE startProcessing \/ finishProcessing
  BY <1>9, <1>11 DEF startProcessing, finishProcessing, Advanced
<1>12. ASSUME NEW n \in 0..MaxCaptured, takeBatch(n) PROVE Goal
  BY <1>9, <1>12 DEF takeBatch, Advanced
<1>13. CASE journalCommitFails \/ journalTrimFails
  BY <1>9, <1>13 DEF journalCommitFails, journalTrimFails, UnchangedByBatch, Advanced
<1>14. CASE clearBegins \/ clearCleanup \/ close \/ closeAfterClear \/ closeBegins
  BY <1>10, <1>14 DEF clearBegins, clearCleanup, close, closeAfterClear, closeBegins, UnchangedByClose
<1>15. CASE UNCHANGED vars BY <1>10, <1>15 DEF vars
<1> QED
  BY <1>1, <1>2, <1>3, <1>4, <1>5, <1>6, <1>7, <1>8, <1>11, <1>12, <1>13, <1>14, <1>15 DEF Next

\* The durable coordinator implements the Evidence log, whatever fails in its
\* journal: every captured candidate is decided once and in capture order, over
\* retries and the fallback to memory; what is retained is the newest part of
\* what was accepted, in whichever part; a Clear cuts exactly at its request and
\* a Close decides everything before it - as long as nothing is offered between
\* the end of a failed Clear and its cleanup callback.
THEOREM ImplementsEvidenceLogHolds ==
  ASSUME ~OfferBeforeCleanup PROVE Spec => ImplementsEvidenceLog
<1>1. Init => LosslessInv /\ Log!Init /\ WithinBounds
  BY LosslessInit, LogInit, BoundsAssumption DEF Init, WithinBounds
<1>2. LosslessInv /\ [Next]_vars => LosslessInv' BY LosslessStep
<1>3. LosslessInv /\ WithinBounds /\ [Next]_vars => WithinBounds'
  BY WithinBoundsStep DEF LosslessInv, JournalInv
<1>4. LosslessInv /\ LosslessInv' /\ WithinBounds /\ [Next]_vars => [Log!Next]_(Log!vars)
  BY LogStep
<1> QED BY <1>1, <1>2, <1>3, <1>4, PTL DEF Spec, ImplementsEvidenceLog, Log!Spec
-----------------------------------------------------------------------------
(* Who may use and erase which database *)

\* From the grant of its lock to the end of its close a panel owns the name of
\* its database.
OwnersOwn == \A p \in Panels : stage[p] \in Owning => owner[NameOf[p]] = p

\* A sweep visits other names than its own, and deletes what it has locked.
SweepsOthers ==
  \A p \in Panels :
    /\ stage[p] \in {"locking", "deleting"} => target[p] # NameOf[p]
    /\ stage[p] = "deleting" => owner[target[p]] = p

\* Locks are held for no other reason.
LocksAreUsed ==
  \A n \in Names, p \in Panels :
    owner[n] = p =>
      /\ stage[p] \in Owning
      /\ n = NameOf[p] \/ (stage[p] = "deleting" /\ n = target[p])

\* The database of a connected panel exists and stays.
ConnectedKeep == \A p \in connected : NameOf[p] \in stored \ pendingDelete

OwnershipInv == OwnershipTypeOK /\ OwnersOwn /\ SweepsOthers /\ LocksAreUsed /\ ConnectedKeep

USE DEF Live, Owning, Connected, Ended
-----------------------------------------------------------------------------
\* The holder of a name's lock is the only one that may be connected to it.
LEMMA SoleConnection ==
  ASSUME OwnershipInv, NEW n \in Names, NEW q \in connected, NameOf[q] = n
  PROVE  /\ owner[n] = q /\ q \in Panels
         /\ \A p \in Panels : stage[p] = "deleting" => target[p] # n
         /\ n \notin pendingDelete
<1>1. q \in Panels /\ stage[q] \in Connected BY DEF OwnershipInv, OwnershipTypeOK
<1>2. owner[n] = q BY <1>1 DEF OwnershipInv, OwnersOwn
<1>3. ASSUME NEW p \in Panels, stage[p] = "deleting" PROVE target[p] # n
  BY <1>1, <1>2, <1>3 DEF OwnershipInv, SweepsOthers
<1> QED BY <1>1, <1>2, <1>3 DEF OwnershipInv, ConnectedKeep

\* Nobody is connected to the target of a sweep, to what a closing panel has
\* disconnected from, or to what is still to be deleted.
LEMMA DeletedIsUnused ==
  ASSUME NamesAssumption, OwnershipInv, NEW n \in Names,
         \/ \E p \in Panels : stage[p] = "deleting" /\ target[p] = n
         \/ \E p \in Panels : stage[p] = "erasing" /\ NameOf[p] = n
         \/ n \in pendingDelete
  PROVE  \A q \in connected : NameOf[q] # n
<1> SUFFICES ASSUME NEW q \in connected, NameOf[q] = n PROVE FALSE OBVIOUS
<1>1. owner[n] = q /\ q \in Panels /\ n \notin pendingDelete
      /\ \A p \in Panels : stage[p] = "deleting" => target[p] # n
  BY SoleConnection
<1>2. PICK p \in Panels : stage[p] = "erasing" /\ NameOf[p] = n BY <1>1
<1>3. owner[n] = p BY <1>2 DEF OwnershipInv, OwnersOwn
<1>4. stage[q] # "erasing" BY <1>1 DEF OwnershipInv, OwnershipTypeOK
<1> QED BY <1>1, <1>2, <1>3, <1>4

LEMMA OwnershipInitInv ==
  ASSUME NamesAssumption, OwnershipInit PROVE OwnershipInv
<1>1. OwnershipTypeOK BY DEF NamesAssumption, OwnershipInit, OwnershipTypeOK
<1> QED BY <1>1 DEF NamesAssumption, OwnershipInit, OwnershipInv, OwnersOwn, SweepsOthers,
              LocksAreUsed, ConnectedKeep

\* A failing panel lets go of everything, and of nothing else.
LEMMA FailInv ==
  ASSUME NamesAssumption, OwnershipInv, NEW p \in Panels, Fail(p),
         stored \subseteq stored', stored' \subseteq Names,
         pendingDelete' \subseteq Names,
         \A n \in pendingDelete' \ pendingDelete : \A q \in connected : NameOf[q] # n
  PROVE  OwnershipInv'
<1> USE DEF OwnershipInv, Fail, releaseLocks, releaseLiveLease, sweepVars
<1>1. OwnershipTypeOK' BY DEF OwnershipTypeOK, NamesAssumption
<1>2. OwnersOwn' BY DEF OwnershipTypeOK, NamesAssumption, OwnersOwn, LocksAreUsed
<1>3. SweepsOthers' BY DEF OwnershipTypeOK, NamesAssumption, SweepsOthers
<1>4. LocksAreUsed' BY DEF OwnershipTypeOK, NamesAssumption, LocksAreUsed
<1>5. ConnectedKeep' BY DEF ConnectedKeep
<1> QED BY <1>1, <1>2, <1>3, <1>4, <1>5
-----------------------------------------------------------------------------
(* One lemma per action; those that only end in Fail follow from FailInv. *)

LEMMA CreateInv ==
  ASSUME NamesAssumption, OwnershipInv, NEW p \in Panels, createIndexedDbEventHistory(p)
  PROVE  OwnershipInv'
<1> USE DEF NamesAssumption, OwnershipInv, createIndexedDbEventHistory, sweepVars
<1>1. OwnershipTypeOK' BY DEF OwnershipTypeOK, claimLivePanelLease
<1> QED BY <1>1 DEF OwnershipTypeOK, OwnersOwn, SweepsOthers, LocksAreUsed, ConnectedKeep

LEMMA RequestLockInv ==
  ASSUME NamesAssumption, OwnershipInv, NEW p \in Panels, requestLock(p) PROVE OwnershipInv'
<1>1. CASE Available(NameOf[p])
  <2> USE <1>1 DEF NamesAssumption, OwnershipInv, requestLock, Available, sweepVars
  <2>1. OwnershipTypeOK' BY DEF OwnershipTypeOK
  <2> QED BY <2>1 DEF OwnershipTypeOK, OwnersOwn, SweepsOthers, LocksAreUsed, ConnectedKeep
<1>2. CASE ~Available(NameOf[p]) BY <1>2, FailInv DEF requestLock, OwnershipInv, OwnershipTypeOK
<1> QED BY <1>1, <1>2

LEMMA OpenInv ==
  ASSUME NamesAssumption, OwnershipInv, NEW p \in Panels, openAuthoritativeEventDatabase(p)
  PROVE  OwnershipInv'
<1> USE DEF NamesAssumption, OwnershipInv, openAuthoritativeEventDatabase, sweepVars
<1>1. OwnershipTypeOK' BY DEF OwnershipTypeOK
<1> QED BY <1>1 DEF OwnershipTypeOK, OwnersOwn, SweepsOthers, LocksAreUsed, ConnectedKeep

LEMMA SweepStepInv ==
  ASSUME NamesAssumption, OwnershipInv, NEW p \in Panels,
         \/ listDatabases(p)
         \/ \E n \in Names : SkipLive(p, n) \/ hasFreshLivePanelLease(p, n)
  PROVE  OwnershipInv'
<1> USE DEF NamesAssumption, OwnershipInv
<1>1. CASE listDatabases(p)
  BY <1>1 DEF listDatabases, OwnershipTypeOK, OwnersOwn, SweepsOthers, LocksAreUsed,
              ConnectedKeep
<1>2. ASSUME NEW n \in Names, SkipLive(p, n) PROVE OwnershipInv'
  BY <1>2 DEF SkipLive, OwnershipTypeOK, OwnersOwn, SweepsOthers, LocksAreUsed, ConnectedKeep
<1>3. ASSUME NEW n \in Names, hasFreshLivePanelLease(p, n) PROVE OwnershipInv'
  BY <1>3 DEF hasFreshLivePanelLease, OwnershipTypeOK, OwnersOwn, SweepsOthers, LocksAreUsed,
              ConnectedKeep
<1> QED BY <1>1, <1>2, <1>3

LEMMA RequestSweepLockInv ==
  ASSUME NamesAssumption, OwnershipInv, NEW p \in Panels, requestSweepLock(p)
  PROVE  OwnershipInv'
<1> USE DEF NamesAssumption, OwnershipInv, requestSweepLock, Available, sweepVars
<1>1. OwnershipTypeOK' BY DEF OwnershipTypeOK
<1>2. OwnersOwn' BY DEF OwnershipTypeOK, OwnersOwn
<1>3. SweepsOthers' BY DEF OwnershipTypeOK, SweepsOthers
<1>4. LocksAreUsed' BY DEF OwnershipTypeOK, LocksAreUsed
<1> QED BY <1>1, <1>2, <1>3, <1>4 DEF ConnectedKeep

LEMMA SweepDeletesInv ==
  ASSUME NamesAssumption, OwnershipInv, NEW p \in Panels, SweepDeletes(p) PROVE OwnershipInv'
<1> USE DEF NamesAssumption, OwnershipInv, SweepDeletes, sweepVars
<1>1. target[p] \in Names /\ \A q \in connected : NameOf[q] # target[p]
  BY DeletedIsUnused DEF OwnershipTypeOK
<1>2. connected' = connected /\ stored' = stored \ {target[p]}
  BY <1>1 DEF deleteAuthoritativeEventDatabase
<1>3. OwnershipTypeOK' BY <1>1, <1>2 DEF OwnershipTypeOK
<1>4. OwnersOwn' BY <1>1 DEF OwnershipTypeOK, OwnersOwn, SweepsOthers
<1>5. SweepsOthers' BY DEF OwnershipTypeOK, SweepsOthers
<1>6. LocksAreUsed' BY DEF OwnershipTypeOK, LocksAreUsed
<1>7. ConnectedKeep' BY <1>1, <1>2 DEF ConnectedKeep
<1> QED BY <1>3, <1>4, <1>5, <1>6, <1>7

LEMMA StartupFailsInv ==
  ASSUME NamesAssumption, OwnershipInv, NEW p \in Panels,
         OpenFails(p) \/ ListFails(p) \/ SweepFails(p)
  PROVE  OwnershipInv'
<1>1. CASE OpenFails(p) \/ ListFails(p)
  BY <1>1, FailInv DEF OpenFails, ListFails, OwnershipInv, OwnershipTypeOK, NamesAssumption
<1>2. CASE SweepFails(p)
  BY <1>2, FailInv, DeletedIsUnused DEF SweepFails, OwnershipInv, OwnershipTypeOK
<1> QED BY <1>1, <1>2

LEMMA SweepEndsInv ==
  ASSUME NamesAssumption, OwnershipInv, NEW p \in Panels, SweepEnds(p) PROVE OwnershipInv'
<1>1. CASE listed[p] = {}
  BY <1>1 DEF SweepEnds, NamesAssumption, OwnershipInv, OwnershipTypeOK, OwnersOwn,
              SweepsOthers, LocksAreUsed, ConnectedKeep, sweepVars
<1>2. CASE listed[p] # {} BY <1>2, FailInv DEF SweepEnds, OwnershipInv, OwnershipTypeOK
<1> QED BY <1>1, <1>2

LEMMA LateDeletionInv ==
  ASSUME NamesAssumption, OwnershipInv, NEW n \in Names, LateDeletion(n) PROVE OwnershipInv'
<1>1. \A q \in connected : NameOf[q] # n BY DeletedIsUnused DEF LateDeletion
<1>2. connected' = connected /\ stored' = stored \ {n}
  BY <1>1 DEF LateDeletion, deleteAuthoritativeEventDatabase
<1> QED BY <1>1, <1>2 DEF LateDeletion, OwnershipInv, OwnershipTypeOK, OwnersOwn, SweepsOthers,
                    LocksAreUsed, ConnectedKeep, sweepVars

\* What the ends of a session have in common.
LEMMA LeavesInv ==
  ASSUME NamesAssumption, OwnershipInv, NEW p \in Panels, NEW end \in {"closed", "crashed"},
         stage' = [stage EXCEPT ![p] = end], releaseLocks(p),
         lease' \in [Names -> {"none", "fresh", "stale"}],
         connected' = connected \ {p}, stored' \subseteq Names,
         \A n \in stored \ stored' : \A q \in connected : NameOf[q] # n,
         pendingDelete' \subseteq Names,
         \A n \in pendingDelete' \ pendingDelete : \A q \in connected' : NameOf[q] # n,
         UNCHANGED sweepVars
  PROVE  OwnershipInv'
<1> USE DEF NamesAssumption, OwnershipInv, releaseLocks, sweepVars
<1>1. OwnershipTypeOK' BY DEF OwnershipTypeOK
<1>2. OwnersOwn' BY DEF OwnershipTypeOK, OwnersOwn, LocksAreUsed
<1>3. SweepsOthers' BY DEF OwnershipTypeOK, SweepsOthers
<1>4. LocksAreUsed' BY DEF OwnershipTypeOK, LocksAreUsed
<1>5. ConnectedKeep' BY DEF ConnectedKeep
<1> QED BY <1>1, <1>2, <1>3, <1>4, <1>5

LEMMA CloseInv ==
  ASSUME NamesAssumption, OwnershipInv, NEW p \in Panels,
         closePanel(p) \/ Disconnect(p) \/ Erase(p) \/ CloseFails(p)
  PROVE  OwnershipInv'
<1> USE DEF NamesAssumption, OwnershipInv
<1>1. CASE closePanel(p)
  BY <1>1 DEF closePanel, OwnershipTypeOK, OwnersOwn, SweepsOthers, LocksAreUsed, ConnectedKeep,
              sweepVars
<1>2. CASE Disconnect(p)
  BY <1>2 DEF Disconnect, OwnershipTypeOK, OwnersOwn, SweepsOthers, LocksAreUsed, ConnectedKeep,
              sweepVars
<1>3. CASE Erase(p)
  <2>1. \A q \in connected : NameOf[q] # NameOf[p] BY <1>3, DeletedIsUnused DEF Erase
  <2>2. connected' = connected \ {p} /\ stored' = stored \ {NameOf[p]}
    BY <1>3, <2>1 DEF Erase, deleteAuthoritativeEventDatabase
  <2> QED
    BY <1>3, <2>1, <2>2, LeavesInv DEF Erase, closeCurrent, releaseLiveLease, OwnershipTypeOK
<1>4. CASE CloseFails(p)
  <2>1. stage[p] = "erasing" => \A q \in connected : NameOf[q] # NameOf[p] BY DeletedIsUnused
  <2>2. /\ pendingDelete' \subseteq Names
        /\ \A n \in pendingDelete' \ pendingDelete : \A q \in connected' : NameOf[q] # n
    BY <1>4, <2>1 DEF CloseFails, OwnershipTypeOK
  <2>3. lease' \in [Names -> {"none", "fresh", "stale"}]
    BY <1>4 DEF CloseFails, closeCurrent, releaseLiveLease, OwnershipTypeOK
  <2>4. /\ stage' = [stage EXCEPT ![p] = "closed"] /\ releaseLocks(p) /\ UNCHANGED sweepVars
        /\ connected' = connected \ {p} /\ stored' = stored
    BY <1>4 DEF CloseFails, closeCurrent
  <2> QED BY <2>2, <2>3, <2>4, LeavesInv DEF OwnershipTypeOK
<1> QED BY <1>1, <1>2, <1>3, <1>4

LEMMA CrashInv ==
  ASSUME NamesAssumption, OwnershipInv, NEW p \in Panels, Crash(p) PROVE OwnershipInv'
<1>1. /\ DeletionsOf(p) \subseteq Names
      /\ \A n \in DeletionsOf(p) : \A q \in connected : NameOf[q] # n
  BY DeletedIsUnused DEF DeletionsOf
<1>2. pendingDelete' \in {pendingDelete, pendingDelete \cup DeletionsOf(p)} BY DEF Crash
<1> QED BY <1>1, <1>2, LeavesInv DEF Crash, OwnershipInv, OwnershipTypeOK

LEMMA LeaseInv ==
  ASSUME NamesAssumption, OwnershipInv,
         (\E p \in Panels : Heartbeat(p)) \/ (\E n \in Names : LeaseExpires(n))
  PROVE  OwnershipInv'
BY DEF NamesAssumption, OwnershipInv, Heartbeat, LeaseExpires, OwnershipTypeOK, OwnersOwn,
       SweepsOthers, LocksAreUsed, ConnectedKeep, sweepVars

LEMMA OwnershipNextInv ==
  ASSUME NamesAssumption, OwnershipInv, OwnershipNext PROVE OwnershipInv'
BY CreateInv, RequestLockInv, OpenInv, SweepStepInv, RequestSweepLockInv, SweepDeletesInv,
   StartupFailsInv, SweepEndsInv, LateDeletionInv, CloseInv, CrashInv, LeaseInv DEF
   OwnershipNext, Startup, Closing

LEMMA OwnershipInvariant == OwnershipSpec => []OwnershipInv
<1>1. OwnershipInit => OwnershipInv BY OwnershipInitInv, NamesAssumption
<1>2. OwnershipInv /\ [OwnershipNext]_ownershipVars => OwnershipInv'
  <2>1. ASSUME OwnershipInv, UNCHANGED ownershipVars PROVE OwnershipInv'
    BY <2>1 DEF ownershipVars, OwnershipInv, OwnershipTypeOK, OwnersOwn, SweepsOthers,
                LocksAreUsed, ConnectedKeep
  <2> QED BY <2>1, OwnershipNextInv, NamesAssumption
<1> QED BY <1>1, <1>2, PTL DEF OwnershipSpec
-----------------------------------------------------------------------------
\* The variables keep their types, and the open connections are those of the
\* panels between the opening and the closing of their database.
THEOREM OwnershipTypeCorrect == OwnershipSpec => []OwnershipTypeOK
<1>1. OwnershipInv => OwnershipTypeOK BY DEF OwnershipInv
<1> QED BY <1>1, OwnershipInvariant, PTL

\* While a panel records Evidence nobody takes its database away or shares it,
\* whatever sweeps, crashes, late deletions and expired leases there are.
THEOREM RunningKeepsJournalHolds == OwnershipSpec => []RunningKeepsJournal
<1>1. ASSUME OwnershipInv PROVE RunningKeepsJournal
  <2> SUFFICES ASSUME NEW p \in Panels, stage[p] = "running"
               PROVE  /\ NameOf[p] \in stored \ pendingDelete
                      /\ p \in connected
                      /\ \A q \in connected : NameOf[q] = NameOf[p] => q = p
    BY DEF RunningKeepsJournal
  <2>1. p \in connected /\ NameOf[p] \in Names
    BY <1>1, NamesAssumption DEF OwnershipInv, OwnershipTypeOK, NamesAssumption
  <2>2. NameOf[p] \in stored \ pendingDelete BY <1>1, <2>1 DEF OwnershipInv, ConnectedKeep
  <2>3. ASSUME NEW q \in connected, NameOf[q] = NameOf[p] PROVE q = p
    BY <1>1, <2>1, <2>3, SoleConnection
  <2> QED BY <2>1, <2>2, <2>3
<1> QED BY <1>1, OwnershipInvariant, PTL

\* A panel that has failed, closed or crashed holds no lock and no connection.
THEOREM EndedHoldsNothingHolds == OwnershipSpec => []EndedHoldsNothing
<1>1. OwnershipInv => EndedHoldsNothing
  BY DEF OwnershipInv, OwnershipTypeOK, LocksAreUsed, EndedHoldsNothing
<1> QED BY <1>1, OwnershipInvariant, PTL

\* No database is deleted under a connection.
THEOREM ErasesOnlyUnusedHolds == OwnershipSpec => ErasesOnlyUnused
<1> DEFINE Unused == \A n \in stored \ stored' : \A q \in connected : NameOf[q] # n
<1>1. ASSUME OwnershipInv, [OwnershipNext]_ownershipVars PROVE Unused
  <2> SUFFICES ASSUME NEW n \in stored \ stored' PROVE \A q \in connected : NameOf[q] # n
    OBVIOUS
  <2>1. n \in Names BY <1>1 DEF OwnershipInv, OwnershipTypeOK
  <2>2. \/ \E p \in Panels : stage[p] = "deleting" /\ target[p] = n
        \/ \E p \in Panels : stage[p] = "erasing" /\ NameOf[p] = n
        \/ n \in pendingDelete
    BY <1>1 DEF ownershipVars, OwnershipNext, Startup, Closing, createIndexedDbEventHistory,
                requestLock, openAuthoritativeEventDatabase, OpenFails, listDatabases,
       ListFails, SkipLive, hasFreshLivePanelLease, requestSweepLock, SweepDeletes, SweepFails,
       SweepEnds, deleteAuthoritativeEventDatabase, LateDeletion, closePanel, Disconnect, Erase,
       CloseFails, Heartbeat, LeaseExpires, Crash
  <2> QED BY <1>1, <2>1, <2>2, DeletedIsUnused, NamesAssumption
<1>2. OwnershipInv /\ [OwnershipNext]_ownershipVars => [Unused]_ownershipVars BY <1>1
<1> QED BY <1>2, OwnershipInvariant, PTL DEF OwnershipSpec, ErasesOnlyUnused
-----------------------------------------------------------------------------
\* Nothing deletes a database of a newer schema, or will; and a sweep has them
\* all before it until it ends.
NewerStay ==
  /\ pendingDelete \cap NewerNames = {}
  /\ \A p \in Panels : stage[p] \in {"locking", "deleting"} => target[p] \notin NewerNames
  /\ \A p \in Panels :
       stage[p] \in {"sweeping", "locking", "deleting"} =>
         stored \cap NewerNames \subseteq listed[p]

\* Panels have names of their own session, which no newer version has used.
NewerAreOthers == \A p \in Panels : NameOf[p] \notin NewerNames

\* What one step does to the databases of a newer schema.
NewerSpared ==
  /\ stored' \cap NewerNames = stored \cap NewerNames
  /\ stored \cap NewerNames # {} =>
       \A p \in Panels : stage'[p] = "running" => stage[p] = "running"

\* Startups and their sweeps.
LEMMA StartupSpares ==
  ASSUME NamesAssumption, NewerAreOthers, OwnershipInv, NewerStay,
         NEW p \in Panels, createIndexedDbEventHistory(p) \/ Startup(p)
  PROVE  NewerSpared /\ NewerStay'
<1> USE DEF NamesAssumption, NewerAreOthers, OwnershipInv, OwnershipTypeOK, NewerStay,
            NewerSpared, sweepVars, Fail
<1>1. CASE createIndexedDbEventHistory(p) BY <1>1 DEF createIndexedDbEventHistory
<1>2. CASE requestLock(p) BY <1>2 DEF requestLock
<1>3. CASE openAuthoritativeEventDatabase(p) BY <1>3 DEF openAuthoritativeEventDatabase
<1>4. CASE OpenFails(p) BY <1>4 DEF OpenFails
<1>5. CASE listDatabases(p) BY <1>5 DEF listDatabases
<1>6. CASE ListFails(p) BY <1>6 DEF ListFails
<1>7. ASSUME NEW n \in Names, SkipLive(p, n) PROVE NewerSpared /\ NewerStay'
  BY <1>7 DEF SkipLive, IsNewer
<1>8. ASSUME NEW n \in Names, hasFreshLivePanelLease(p, n) PROVE NewerSpared /\ NewerStay'
  BY <1>8 DEF hasFreshLivePanelLease, IsNewer
<1>9. CASE requestSweepLock(p) BY <1>9 DEF requestSweepLock
<1>10. CASE SweepDeletes(p) BY <1>10 DEF SweepDeletes, deleteAuthoritativeEventDatabase
<1>11. CASE SweepFails(p) BY <1>11 DEF SweepFails
<1>12. CASE SweepEnds(p) BY <1>12 DEF SweepEnds
<1> QED BY <1>1, <1>2, <1>3, <1>4, <1>5, <1>6, <1>7, <1>8, <1>9, <1>10, <1>11, <1>12 DEF Startup

\* The ends of sessions, leases and late deletions.
LEMMA OthersSpare ==
  ASSUME NamesAssumption, NewerAreOthers, OwnershipInv, NewerStay,
         \/ \E p \in Panels : closePanel(p) \/ Closing(p) \/ Heartbeat(p) \/ Crash(p)
         \/ \E n \in Names : LeaseExpires(n) \/ LateDeletion(n)
  PROVE  NewerSpared /\ NewerStay'
<1> USE DEF NamesAssumption, NewerAreOthers, OwnershipInv, OwnershipTypeOK, NewerStay,
            NewerSpared, sweepVars, closeCurrent
<1>1. ASSUME NEW p \in Panels, closePanel(p) \/ Disconnect(p) PROVE NewerSpared /\ NewerStay'
  BY <1>1 DEF closePanel, Disconnect
<1>2. ASSUME NEW p \in Panels, Erase(p) PROVE NewerSpared /\ NewerStay'
  BY <1>2 DEF Erase, deleteAuthoritativeEventDatabase
<1>3. ASSUME NEW p \in Panels, CloseFails(p) PROVE NewerSpared /\ NewerStay'
  BY <1>3 DEF CloseFails
<1>4. ASSUME NEW p \in Panels, Heartbeat(p) PROVE NewerSpared /\ NewerStay'
  BY <1>4 DEF Heartbeat
<1>5. ASSUME NEW p \in Panels, Crash(p) PROVE NewerSpared /\ NewerStay'
  BY <1>5 DEF Crash, DeletionsOf
<1>6. ASSUME NEW n \in Names, LeaseExpires(n) PROVE NewerSpared /\ NewerStay'
  BY <1>6 DEF LeaseExpires
<1>7. ASSUME NEW n \in Names, LateDeletion(n) PROVE NewerSpared /\ NewerStay'
  BY <1>7 DEF LateDeletion, deleteAuthoritativeEventDatabase
<1> QED BY <1>1, <1>2, <1>3, <1>4, <1>5, <1>6, <1>7 DEF Closing

\* A database of a newer schema is never deleted, and no panel starts to record
\* beside it (the safety part of StartupsSettle).
THEOREM NewerSchemaKeptHolds ==
  ASSUME NewerAreOthers PROVE OwnershipSpec => NewerSchemaKept
<1> DEFINE Kept ==
      /\ stored \cap NewerNames \subseteq stored'
      /\ stored \cap NewerNames # {} =>
           \A p \in Panels : stage'[p] = "running" => stage[p] = "running"
<1>1. OwnershipInit => NewerStay BY DEF OwnershipInit, NewerStay
<1>2. OwnershipInv /\ NewerStay /\ [OwnershipNext]_ownershipVars
        => NewerStay' /\ [Kept]_ownershipVars
  <2> SUFFICES ASSUME OwnershipInv, NewerStay, [OwnershipNext]_ownershipVars
               PROVE  NewerStay' /\ [Kept]_ownershipVars
    OBVIOUS
  <2>1. CASE OwnershipNext
    BY <2>1, StartupSpares, OthersSpare, NamesAssumption DEF NewerSpared, OwnershipNext
  <2>2. CASE UNCHANGED ownershipVars BY <2>2 DEF NewerStay, ownershipVars
  <2> QED BY <2>1, <2>2
<1> QED BY <1>1, <1>2, OwnershipInvariant, PTL DEF OwnershipSpec, NewerSchemaKept
=============================================================================
