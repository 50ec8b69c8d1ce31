------------------------ MODULE MemoryHistoryProofs ------------------------
(***************************************************************************)
(* Theorems about MemoryHistory for every capacity, identity and bound.    *)
(***************************************************************************)
EXTENDS MemoryHistory, HistoryEntriesProofs

\* The flags and stages keep to their values.
LEMMA LifecycleStep == LifecycleTypeOK /\ [Next]_vars => LifecycleTypeOK'
<1> SUFFICES ASSUME LifecycleTypeOK, [Next]_vars PROVE LifecycleTypeOK' OBVIOUS
<1> USE DEF LifecycleTypeOK, queueVars, retainedVars, gapVars, clearVars, closeVars,
            journalVars
<1>1. ASSUME NEW id \in EventIds, NEW b \in Sizes, offerCandidate(id, b) PROVE LifecycleTypeOK'
  BY <1>1 DEF offerCandidate, Enqueue, scheduleProcessing
<1>2. ASSUME NEW b \in Sizes, NEW dim \in Dimensions, refuseUnretainable(b, dim)
      PROVE  LifecycleTypeOK'
  BY <1>2 DEF refuseUnretainable, Enqueue, scheduleProcessing
<1>3. CASE refuseWithoutOrdinal BY <1>3 DEF refuseWithoutOrdinal
<1>4. CASE startProcessing BY <1>4 DEF startProcessing
<1>5. CASE settleLeadingGapBarrier BY <1>5 DEF settleLeadingGapBarrier
<1>6. ASSUME NEW n \in 0..MaxCaptured, takeCandidatePrefix(n) PROVE LifecycleTypeOK'
  BY <1>6 DEF takeCandidatePrefix
<1>7. CASE journalCommitFails BY <1>7 DEF journalCommitFails
<1>8. CASE acceptBatch BY <1>8 DEF acceptBatch
<1>9. CASE finishProcessing BY <1>9 DEF finishProcessing, resolveIdleWaiters
<1>10. CASE clear BY <1>10 DEF clear, waitForIdle
<1>11. CASE clearBegins BY <1>11 DEF clearBegins
<1>12. CASE clearSucceeds BY <1>12 DEF clearSucceeds
<1>13. CASE clearFails BY <1>13 DEF clearFails
<1>14. CASE clearCleanup BY <1>14 DEF clearCleanup, scheduleProcessing
<1>15. CASE close BY <1>15 DEF close, waitForIdle, UnchangedByClose
<1>16. CASE closeAfterClear BY <1>16 DEF closeAfterClear, waitForIdle, UnchangedByClose
<1>17. CASE closeBegins BY <1>17 DEF closeBegins, UnchangedByClose
<1>18. CASE closeEnds BY <1>18 DEF closeEnds, UnchangedByClose
<1>19. CASE UNCHANGED vars BY <1>19 DEF vars
<1> QED BY <1>1, <1>2, <1>3, <1>4, <1>5, <1>6, <1>7, <1>8, <1>9, <1>10, <1>11, <1>12, <1>13,
     <1>14, <1>15, <1>16, <1>17, <1>18, <1>19 DEF Next
-----------------------------------------------------------------------------
(* What the larger actions do to the queues. *)

\* A batch is taken from the front of the queue; a repeated identity behind
\* it leaves a barrier with its own ordinal in its place.
LEMMA TakenPrefix ==
  ASSUME QueuesTypeOK, NEW n \in 0..MaxCaptured, takeCandidatePrefix(n)
  PROVE  /\ inFlight' \in Seq(CandidateType)
         /\ Len(inFlight') = n
         /\ \A i \in 1..n : inFlight'[i] = pending[i]
         /\ pending' \in Seq(EntryType)
         /\ n <= Len(pending) /\ Len(pending') = Len(pending) - n
         /\ \A i \in 1..Len(pending') : /\ Lowest(pending'[i]) = Lowest(pending[n + i])
                                        /\ Highest(pending'[i]) = Highest(pending[n + i])
         /\ notAccepted' \in {notAccepted, notAccepted + 1}
<1>1. n \in Nat /\ n <= Len(pending) /\ pending \in Seq(EntryType)
  BY BoundsAssumption DEF QueuesTypeOK, takeCandidatePrefix
<1>2. \A i \in 1..n : pending[i] \in CandidateType
  BY <1>1 DEF takeCandidatePrefix, IsBatchLength, IsCandidate, BarrierType, EntryType
<1>3. inFlight' = SubSeq(pending, 1, n) BY DEF takeCandidatePrefix
<1>4. /\ inFlight' \in Seq(CandidateType) /\ Len(inFlight') = n
      /\ \A i \in 1..n : inFlight'[i] = pending[i]
  BY <1>1, <1>2, <1>3
<1>5. CASE n < Len(pending) /\ IsCandidate(pending[n + 1])
  <2> DEFINE d == pending[n + 1]
             g == GapBarrier(d.ordinal, d.ordinal, 1, "EVENT_IDENTITY")
             rest == SubSeq(pending, n + 2, Len(pending))
  <2>1. d \in CandidateType BY <1>1, <1>5 DEF IsCandidate, BarrierType, EntryType
  <2>2. g \in BarrierType /\ Lowest(g) = Lowest(d) /\ Highest(g) = Highest(d)
    BY <2>1 DEF CandidateType, GapBarrier, BarrierType, Dimensions, Lowest, Highest, IsBarrier
  <2>3. pending' = <<g>> \o rest /\ notAccepted' = notAccepted + 1
    BY <1>5 DEF takeCandidatePrefix, convertDuplicateIdentityToGap
  <2>4. /\ rest \in Seq(EntryType) /\ Len(rest) = Len(pending) - n - 1
        /\ \A i \in 1..Len(rest) : rest[i] = pending[n + 1 + i]
    BY <1>1, <1>5
  <2> HIDE DEF g, rest
  <2>5. pending' \in Seq(EntryType) /\ Len(pending') = Len(rest) + 1
    BY <2>2, <2>3, <2>4 DEF EntryType
  <2>6. pending'[1] = g BY <2>2, <2>3, <2>4 DEF EntryType
  <2>7. ASSUME NEW i \in 1..Len(rest) PROVE pending'[i + 1] = pending[n + (i + 1)]
    BY <1>1, <2>4, <2>2, <2>3 DEF EntryType
  <2>8. ASSUME NEW i \in 1..Len(pending')
        PROVE  /\ Lowest(pending'[i]) = Lowest(pending[n + i])
               /\ Highest(pending'[i]) = Highest(pending[n + i])
    <3>1. CASE i = 1 BY <1>1, <2>2, <2>6, <3>1
    <3>2. CASE i # 1
      <4>1. i - 1 \in 1..Len(rest) /\ (i - 1) + 1 = i BY <2>4, <2>5, <3>2
      <4>2. pending'[i] = pending[n + i] BY <2>7, <4>1
      <4> QED BY <4>2
    <3> QED BY <3>1, <3>2
  <2> QED BY <1>1, <1>4, <2>3, <2>4, <2>5, <2>8
<1>6. CASE ~(n < Len(pending) /\ IsCandidate(pending[n + 1]))
  <2>1. pending' = SubSeq(pending, n + 1, Len(pending)) /\ notAccepted' = notAccepted
    BY <1>6 DEF takeCandidatePrefix
  <2>2. /\ pending' \in Seq(EntryType) /\ Len(pending') = Len(pending) - n
        /\ \A i \in 1..Len(pending') : pending'[i] = pending[n + i]
    BY <1>1, <2>1
  <2> QED BY <1>1, <1>4, <2>1, <2>2
<1> QED BY <1>5, <1>6

\* Evidence keeps the capture ordinals of the batch it is made from.
LEMMA EvidenceOfBatch ==
  ASSUME QueuesTypeOK, CountersTypeOK
  PROVE  /\ EvidenceOf(inFlight) \in Seq(EvidenceType)
         /\ Len(EvidenceOf(inFlight)) = Len(inFlight)
         /\ \A i \in 1..Len(inFlight) :
              /\ Lowest(EvidenceOf(inFlight)[i]) = Lowest(inFlight[i])
              /\ Highest(EvidenceOf(inFlight)[i]) = Highest(inFlight[i])
<1> DEFINE n == Len(inFlight)
<1>1. n \in Nat /\ \A i \in 1..n : inFlight[i] \in CandidateType BY DEF QueuesTypeOK
<1>2. \A i \in 1..n : EvidenceOf(inFlight)[i] \in EvidenceType
  BY <1>1 DEF CountersTypeOK, EvidenceOf, EvidenceType, CandidateType
<1>3. EvidenceOf(inFlight) \in Seq(EvidenceType) /\ Len(EvidenceOf(inFlight)) = n
  BY <1>1, <1>2 DEF EvidenceOf
<1>4. \A i \in 1..n : /\ Lowest(EvidenceOf(inFlight)[i]) = Lowest(inFlight[i])
                      /\ Highest(EvidenceOf(inFlight)[i]) = Highest(inFlight[i])
  BY <1>1 DEF EvidenceOf, CandidateType, Lowest, Highest, IsBarrier
<1> QED BY <1>3, <1>4

\* An offered entry is appended to the queue on its side of a pending Clear;
\* a refusal may be merged with the barrier at its tail instead.
LEMMA Enqueued ==
  ASSUME QueuesTypeOK, NEW q \in Seq(EntryType), Enqueue(q)
  PROVE  /\ pending' \in Seq(EntryType) /\ postClearPending' \in Seq(EntryType)
         /\ clearInProgress => pending' = pending /\ postClearPending' = q
         /\ ~clearInProgress => pending' = q /\ postClearPending' = postClearPending
PROOF BY DEF QueuesTypeOK, Enqueue

\* No step puts anything but entries into a queue, candidates into a batch or
\* Evidence into what is retained.
LEMMA QueuesStep ==
  QueuesTypeOK /\ CountersTypeOK /\ [Next]_vars => QueuesTypeOK'
<1> SUFFICES ASSUME QueuesTypeOK, CountersTypeOK, [Next]_vars PROVE QueuesTypeOK' OBVIOUS
<1> USE DEF queueVars, retainedVars, gapVars, clearVars, closeVars, journalVars
<1>1. ASSUME NEW id \in EventIds, NEW b \in Sizes, offerCandidate(id, b) PROVE QueuesTypeOK'
  <2> DEFINE q == Append(clearQueueForEntry, Candidate(nextCaptureOrdinal, id, b))
  <2>1. Candidate(nextCaptureOrdinal, id, b) \in CandidateType
    BY DEF CountersTypeOK, Candidate, CandidateType
  <2>2. q \in Seq(EntryType) BY <2>1 DEF QueuesTypeOK, clearQueueForEntry, EntryType
  <2>3. Enqueue(q) /\ UNCHANGED <<inFlight, retainedVars>> BY <1>1 DEF offerCandidate
  <2> HIDE DEF q
  <2> QED BY <2>2, <2>3, Enqueued DEF QueuesTypeOK
<1>2. ASSUME NEW b \in Sizes, NEW dim \in Dimensions, refuseUnretainable(b, dim)
      PROVE  QueuesTypeOK'
  <2> DEFINE queue == clearQueueForEntry
             o == nextCaptureOrdinal
             merges == queue # <<>> /\ IsBarrier(Last(queue)) /\ Last(queue).dimension = dim
             q == IF merges THEN [queue EXCEPT ![Len(queue)] = Extended(@, o)]
                            ELSE Append(queue, GapBarrier(o, o, 1, dim))
  <2>1. queue \in Seq(EntryType) /\ o \in Nat
    BY DEF QueuesTypeOK, CountersTypeOK, clearQueueForEntry
  <2>2. GapBarrier(o, o, 1, dim) \in EntryType BY <2>1 DEF GapBarrier, BarrierType, EntryType
  <2>3. Enqueue(q) /\ UNCHANGED <<inFlight, retainedVars>> BY <1>2 DEF refuseUnretainable
  <2>4. q \in Seq(EntryType)
    <3>1. CASE merges BY <2>1, <3>1, ExtendedTail DEF Last
    <3>2. CASE ~merges BY <2>1, <2>2, <3>2
    <3> QED BY <3>1, <3>2
  <2> HIDE DEF q
  <2> QED BY <2>3, <2>4, Enqueued DEF QueuesTypeOK
<1>3. CASE settleLeadingGapBarrier BY <1>3 DEF QueuesTypeOK, settleLeadingGapBarrier
<1>4. ASSUME NEW n \in 0..MaxCaptured, takeCandidatePrefix(n) PROVE QueuesTypeOK'
  BY <1>4, TakenPrefix DEF QueuesTypeOK, takeCandidatePrefix
<1>5. CASE acceptBatch
  <2> DEFINE all == committed \o EvidenceOf(inFlight)
  <2>1. all \in Seq(EvidenceType) BY EvidenceOfBatch DEF QueuesTypeOK
  <2>2. PICK k \in 0..Len(all) :
          /\ committed' = SubSeq(all, k + 1, Len(all))
          /\ retainedEventIds' = (retainedEventIds \cup IdsOf(inFlight))
                                   \ IdsOf(SubSeq(all, 1, k))
    BY <1>5 DEF acceptBatch
  <2>3. committed' \in Seq(EvidenceType) BY <2>1, <2>2
  <2>4. IdsOf(inFlight) \subseteq EventIds
    <3>1. \A i \in DOMAIN inFlight : inFlight[i].eventId \in EventIds
      <4>1. \A i \in DOMAIN inFlight : inFlight[i] \in CandidateType BY DEF QueuesTypeOK
      <4> QED BY <4>1 DEF CandidateType
    <3> QED BY <3>1 DEF IdsOf
  <2>5. retainedEventIds' \subseteq EventIds BY <2>2, <2>4 DEF QueuesTypeOK
  <2>6. inFlight' = <<>> /\ UNCHANGED <<pending, postClearPending>> BY <1>5 DEF acceptBatch
  <2> QED BY <2>3, <2>5, <2>6 DEF QueuesTypeOK
<1>6. CASE clearSucceeds BY <1>6 DEF QueuesTypeOK, clearSucceeds, rejoinPostClearQueue
<1>7. CASE clearFails BY <1>7 DEF QueuesTypeOK, clearFails, rejoinPostClearQueue
<1>8. CASE closeEnds
  <2>1. /\ UNCHANGED queueVars
        /\ \/ committed' = <<>> /\ retainedEventIds' = {}
           \/ committed' = committed /\ retainedEventIds' = retainedEventIds
    BY <1>8 DEF closeEnds, UnchangedByClose
  <2>2. /\ committed' \in Seq(EvidenceType)
        /\ retainedEventIds' \subseteq EventIds
    <3>1. CASE committed' = <<>> /\ retainedEventIds' = {} BY <3>1
    <3>2. CASE committed' = committed /\ retainedEventIds' = retainedEventIds
      BY <3>2 DEF QueuesTypeOK
    <3> QED BY <2>1, <3>1, <3>2
  <2> QED BY <2>1, <2>2 DEF QueuesTypeOK
<1>9. CASE \/ refuseWithoutOrdinal \/ startProcessing \/ journalCommitFails
           \/ finishProcessing \/ clear \/ clearBegins \/ clearCleanup
           \/ close \/ closeAfterClear \/ closeBegins \/ UNCHANGED vars
  BY <1>9 DEF QueuesTypeOK, refuseWithoutOrdinal, startProcessing, journalCommitFails,
     finishProcessing, clear, clearBegins, clearCleanup, close, closeAfterClear, closeBegins,
     UnchangedByClose, vars
<1> QED BY <1>1, <1>2, <1>3, <1>4, <1>5, <1>6, <1>7, <1>8, <1>9 DEF Next

\* Settling receipts adds and removes none.
LEMMA SettledReceipts ==
  ASSUME receipt \in Seq(Outcomes), NEW ordinals, NEW outcome \in Outcomes,
         Settle(ordinals, outcome)
  PROVE  receipt' \in Seq(Outcomes) /\ Len(receipt') = Len(receipt)
<1>1. \A o \in 1..Len(receipt) :
        (IF o \in ordinals THEN outcome ELSE receipt[o]) \in Outcomes
  OBVIOUS
<1>2. receipt' = [o \in 1..Len(receipt) |-> IF o \in ordinals THEN outcome ELSE receipt[o]]
  BY DEF Settle
<1> QED BY <1>1, <1>2

\* Sequences, boundaries and counters stay numbers, and every ordinal that is
\* handed out gets one receipt.
LEMMA CountersStep ==
  QueuesTypeOK /\ CountersTypeOK /\ [Next]_vars => CountersTypeOK'
<1> SUFFICES ASSUME QueuesTypeOK, CountersTypeOK, [Next]_vars PROVE CountersTypeOK' OBVIOUS
<1> USE DEF queueVars, retainedVars, gapVars, clearVars, closeVars, journalVars
<1>1. ASSUME NEW id \in EventIds, NEW b \in Sizes, offerCandidate(id, b) PROVE CountersTypeOK'
  BY <1>1 DEF CountersTypeOK, offerCandidate, Outcomes
<1>2. ASSUME NEW b \in Sizes, NEW dim \in Dimensions, refuseUnretainable(b, dim)
      PROVE  CountersTypeOK'
  BY <1>2 DEF CountersTypeOK, Outcomes, refuseUnretainable
<1>3. CASE settleLeadingGapBarrier
  <2>1. Head(pending) \in BarrierType
    BY <1>3 DEF QueuesTypeOK, EntryType, settleLeadingGapBarrier, IsBarrier, CandidateType
  <2>2. /\ AcceptanceGap(Head(pending).first) \in GapType
        /\ AcceptanceGap(Head(pending).latest) \in GapType
        /\ gapCount + Head(pending).count \in Nat
    BY <2>1 DEF CountersTypeOK, AcceptanceGap, GapType, BarrierType
  <2>4. /\ firstGap' \in {firstGap, AcceptanceGap(Head(pending).first)}
        /\ latestGap' = AcceptanceGap(Head(pending).latest)
        /\ gapCount' = gapCount + Head(pending).count
    BY <1>3 DEF settleLeadingGapBarrier
  <2>3. receipt' \in Seq(Outcomes) /\ Len(receipt') = Len(receipt)
    BY <1>3, SettledReceipts DEF CountersTypeOK, settleLeadingGapBarrier, Outcomes
  <2>5. UNCHANGED <<attempt, interval, nextCaptureOrdinal, nextEvidenceSequence,
                    committedEvidenceBoundary, accepted, notAccepted>>
    BY <1>3 DEF settleLeadingGapBarrier
  <2> QED BY <2>2, <2>3, <2>4, <2>5 DEF CountersTypeOK
<1>4. ASSUME NEW n \in 0..MaxCaptured, takeCandidatePrefix(n) PROVE CountersTypeOK'
  <2>1. /\ attempt' \in 0..3 /\ UNCHANGED <<gapVars, interval, nextCaptureOrdinal,
          nextEvidenceSequence, committedEvidenceBoundary, accepted, receipt>>
    BY <1>4 DEF takeCandidatePrefix
  <2>2. notAccepted' \in {notAccepted, notAccepted + 1} BY <1>4, TakenPrefix
  <2> QED BY <2>1, <2>2 DEF CountersTypeOK
<1>5. CASE journalCommitFails
  <2>1. attempt' \in 0..3
    <3>1. \/ attempt < 3 /\ attempt' = attempt + 1
          \/ attempt' = attempt
      BY <1>5 DEF journalCommitFails
    <3> QED BY <3>1 DEF CountersTypeOK
  <2>2. UNCHANGED <<gapVars, interval, nextCaptureOrdinal, nextEvidenceSequence,
                    committedEvidenceBoundary, accepted, notAccepted, receipt>>
    BY <1>5 DEF journalCommitFails
  <2> QED BY <2>1, <2>2 DEF CountersTypeOK
<1>6. CASE acceptBatch
  <2>1. Len(inFlight) \in Nat BY DEF QueuesTypeOK
  <2>2. receipt' \in Seq(Outcomes) /\ Len(receipt') = Len(receipt)
    BY <1>6, SettledReceipts DEF CountersTypeOK, acceptBatch, Outcomes
  <2>3. /\ nextEvidenceSequence' = nextEvidenceSequence + Len(inFlight)
        /\ committedEvidenceBoundary' = nextEvidenceSequence + Len(inFlight) - 1
        /\ accepted' = accepted + Len(inFlight)
        /\ attempt' = 0
        /\ UNCHANGED <<gapVars, interval, nextCaptureOrdinal, notAccepted>>
    BY <1>6 DEF acceptBatch
  <2> QED BY <2>1, <2>2, <2>3 DEF CountersTypeOK
<1>7. CASE clearSucceeds BY <1>7 DEF CountersTypeOK, clearSucceeds, NoGap, GapType
<1>8. CASE refuseWithoutOrdinal BY <1>8 DEF CountersTypeOK, refuseWithoutOrdinal
<1>9. CASE \/ startProcessing \/ finishProcessing \/ clear \/ clearBegins \/ clearFails
           \/ clearCleanup \/ close \/ closeAfterClear \/ closeBegins \/ closeEnds
           \/ UNCHANGED vars
  BY <1>9 DEF CountersTypeOK, startProcessing, finishProcessing, clear, clearBegins,
     clearFails, clearCleanup, close, closeAfterClear, closeBegins, closeEnds,
     UnchangedByClose, vars
<1> QED BY <1>1, <1>2, <1>3, <1>4, <1>5, <1>6, <1>7, <1>8, <1>9 DEF Next

\* Every reachable state has the shape the properties are stated over: in
\* particular a queue holds candidates and barriers, a batch only candidates,
\* and every capture ordinal handed out has exactly one receipt.
THEOREM TypeCorrect == Spec => []TypeOK
<1>1. Init => TypeOK
  <2>1. Init => LifecycleTypeOK BY DEF Init, LifecycleTypeOK
  <2>2. Init => QueuesTypeOK BY DEF Init, QueuesTypeOK
  <2>3. Init => CountersTypeOK BY DEF Init, CountersTypeOK, NoGap, GapType
  <2> QED BY <2>1, <2>2, <2>3 DEF TypeOK
<1>2. TypeOK /\ [Next]_vars => TypeOK' BY LifecycleStep, QueuesStep, CountersStep DEF TypeOK
<1> QED BY <1>1, <1>2, PTL DEF Spec
-----------------------------------------------------------------------------
(* Capture order.                                                          *)
(*                                                                         *)
(* CaptureOrder alone is not inductive: an offer appends the next ordinal  *)
(* to one of two queues, so every ordinal in the state must be below the   *)
(* next one, and the queue behind a Clear must be empty whenever an offer  *)
(* joins the queue in front of it.                                         *)

CapturedBefore(s, o) == \A i \in DOMAIN s : Highest(s[i]) < o

AllCaptured ==
  /\ CapturedBefore(committed, nextCaptureOrdinal)
  /\ CapturedBefore(inFlight, nextCaptureOrdinal)
  /\ CapturedBefore(pending, nextCaptureOrdinal)
  /\ CapturedBefore(postClearPending, nextCaptureOrdinal)

NothingBehindTheClear ==
  ~clearInProgress \/ clearing = "settled" => postClearPending = <<>>

CaptureOrderInv == TypeOK /\ CaptureOrder /\ AllCaptured /\ NothingBehindTheClear

\* t has the ordinals of a part of s, from position d + 1 on.
IsPart(t, s, d) ==
  /\ Len(t) + d <= Len(s)
  /\ \A i \in 1..Len(t) : Lowest(t[i]) = Lowest(s[d + i]) /\ Highest(t[i]) = Highest(s[d + i])

\* q is queue with the ordinal o added at its end.
IsGrown(q, queue, o) ==
  /\ Len(q) \in {Len(queue), Len(queue) + 1}
  /\ \A i \in 1..Len(q) :
       \/ i <= Len(queue) /\ Lowest(q[i]) = Lowest(queue[i]) /\ Highest(q[i]) = Highest(queue[i])
       \/ i = Len(queue) /\ i = Len(q) /\ Lowest(q[i]) = Lowest(queue[i]) /\ Highest(q[i]) = o
       \/ i = Len(queue) + 1 /\ Lowest(q[i]) = o /\ Highest(q[i]) = o

\* A part of a sequence in order is in order, and stays on its side of others.
LEMMA PartKeepsOrder ==
  ASSUME NEW S, NEW s \in Seq(S), NEW T, NEW t \in Seq(T), NEW d \in Nat, IsPart(t, s, d)
  PROVE  /\ InOrder(s) => InOrder(t)
         /\ \A o : CapturedBefore(s, o) => CapturedBefore(t, o)
         /\ \A u : (Precedes(s, u) => Precedes(t, u)) /\ (Precedes(u, s) => Precedes(u, t))
<1>1. \A i \in 1..Len(t) : d + i \in 1..Len(s) BY DEF IsPart
<1>2. InOrder(s) => InOrder(t)
  <2> SUFFICES ASSUME InOrder(s), NEW i \in 1..Len(t), NEW j \in 1..Len(t), i < j
               PROVE  Highest(t[i]) < Lowest(t[j])
    BY DEF InOrder
  <2>1. Highest(s[d + i]) < Lowest(s[d + j]) BY <1>1 DEF InOrder
  <2> QED BY <2>1 DEF IsPart
<1>3. \A o : CapturedBefore(s, o) => CapturedBefore(t, o)
  <2> SUFFICES ASSUME NEW o, CapturedBefore(s, o) PROVE CapturedBefore(t, o) OBVIOUS
  <2>1. ASSUME NEW i \in 1..Len(t) PROVE Highest(t[i]) < o BY <1>1 DEF IsPart, CapturedBefore
  <2> QED BY <2>1 DEF CapturedBefore
<1>4. \A u : (Precedes(s, u) => Precedes(t, u)) /\ (Precedes(u, s) => Precedes(u, t))
  <2> SUFFICES ASSUME NEW u
               PROVE  /\ Precedes(s, u) => Precedes(t, u)
                      /\ Precedes(u, s) => Precedes(u, t)
    OBVIOUS
  <2>1. ASSUME Precedes(s, u), NEW i \in 1..Len(t), NEW j \in DOMAIN u
        PROVE  Highest(t[i]) < Lowest(u[j])
    BY <1>1, <2>1 DEF IsPart, Precedes
  <2>2. ASSUME Precedes(u, s), NEW i \in 1..Len(t), NEW j \in DOMAIN u
        PROVE  Highest(u[j]) < Lowest(t[i])
    BY <1>1, <2>2 DEF IsPart, Precedes
  <2> QED BY <2>1, <2>2 DEF Precedes
<1> QED BY <1>2, <1>3, <1>4

\* Two sequences in order, one before the other, are in order together.
LEMMA ConcatKeepsOrder ==
  ASSUME NEW S, NEW s \in Seq(S), NEW t \in Seq(S)
  PROVE  /\ InOrder(s) /\ InOrder(t) /\ Precedes(s, t) => InOrder(s \o t)
         /\ \A o : CapturedBefore(s, o) /\ CapturedBefore(t, o) => CapturedBefore(s \o t, o)
         /\ \A u : /\ Precedes(s, u) /\ Precedes(t, u) => Precedes(s \o t, u)
                   /\ Precedes(u, s) /\ Precedes(u, t) => Precedes(u, s \o t)
<1> DEFINE c == s \o t
<1>1. /\ c \in Seq(S) /\ Len(c) = Len(s) + Len(t)
      /\ \A i \in 1..Len(c) : \/ i \in 1..Len(s) /\ c[i] = s[i]
                              \/ i - Len(s) \in 1..Len(t) /\ c[i] = t[i - Len(s)]
  OBVIOUS
<1> HIDE DEF c
<1>2. InOrder(s) /\ InOrder(t) /\ Precedes(s, t) => InOrder(c)
  <2> SUFFICES ASSUME InOrder(s), InOrder(t), Precedes(s, t),
                      NEW i \in 1..Len(c), NEW j \in 1..Len(c), i < j
               PROVE  Highest(c[i]) < Lowest(c[j])
    BY <1>1 DEF InOrder
  <2>1. CASE j \in 1..Len(s) /\ c[j] = s[j] BY <2>1, <1>1 DEF InOrder
  <2>2. CASE j - Len(s) \in 1..Len(t) /\ c[j] = t[j - Len(s)]
    <3>1. CASE i \in 1..Len(s) /\ c[i] = s[i] BY <2>2, <3>1 DEF Precedes
    <3>2. CASE i - Len(s) \in 1..Len(t) /\ c[i] = t[i - Len(s)] BY <2>2, <3>2 DEF InOrder
    <3> QED BY <1>1, <3>1, <3>2
  <2> QED BY <1>1, <2>1, <2>2
<1>3. \A o : CapturedBefore(s, o) /\ CapturedBefore(t, o) => CapturedBefore(c, o)
  BY <1>1 DEF CapturedBefore
<1>4. \A u : /\ Precedes(s, u) /\ Precedes(t, u) => Precedes(c, u)
             /\ Precedes(u, s) /\ Precedes(u, t) => Precedes(u, c)
  <2> SUFFICES ASSUME NEW u
               PROVE  /\ Precedes(s, u) /\ Precedes(t, u) => Precedes(c, u)
                      /\ Precedes(u, s) /\ Precedes(u, t) => Precedes(u, c)
    OBVIOUS
  <2>1. ASSUME Precedes(s, u), Precedes(t, u), NEW i \in 1..Len(c), NEW j \in DOMAIN u
        PROVE  Highest(c[i]) < Lowest(u[j])
    BY <1>1, <2>1 DEF Precedes
  <2>2. ASSUME Precedes(u, s), Precedes(u, t), NEW i \in 1..Len(c), NEW j \in DOMAIN u
        PROVE  Highest(u[j]) < Lowest(c[i])
    BY <1>1, <2>2, SMTT(60) DEF Precedes
  <2> QED BY <1>1, <2>1, <2>2 DEF Precedes
<1> QED BY <1>2, <1>3, <1>4 DEF c

\* A queue that has grown by the next ordinal is in order, behind everything
\* that was before it, and below the ordinal after.
LEMMA GrowthKeepsOrder ==
  ASSUME NEW queue \in Seq(EntryType), NEW q \in Seq(EntryType), NEW o \in Nat,
         IsGrown(q, queue, o), CapturedBefore(queue, o)
  PROVE  /\ InOrder(queue) => InOrder(q)
         /\ CapturedBefore(q, o + 1)
         /\ \A u : Precedes(u, queue) /\ CapturedBefore(u, o) => Precedes(u, q)
<1>1. \A i \in 1..Len(queue) : /\ Lowest(queue[i]) \in Nat /\ Highest(queue[i]) \in Nat
                               /\ Highest(queue[i]) < o
  BY OrdinalsAreNumbers DEF CapturedBefore
<1>2. InOrder(queue) => InOrder(q)
  <2> SUFFICES ASSUME InOrder(queue), NEW i \in 1..Len(q), NEW j \in 1..Len(q), i < j
               PROVE  Highest(q[i]) < Lowest(q[j])
    BY DEF InOrder
  <2>1. i \in 1..Len(queue) /\ Highest(q[i]) = Highest(queue[i]) BY DEF IsGrown
  <2>2. CASE j <= Len(queue) BY <2>1, <2>2 DEF InOrder, IsGrown
  <2>3. CASE j = Len(queue) + 1 BY <1>1, <2>1, <2>3 DEF IsGrown
  <2> QED BY <2>2, <2>3 DEF IsGrown
<1>3. CapturedBefore(q, o + 1)
  <2> SUFFICES ASSUME NEW i \in 1..Len(q) PROVE Highest(q[i]) < o + 1 BY DEF CapturedBefore
  <2> QED BY <1>1 DEF IsGrown
<1>4. ASSUME NEW u, Precedes(u, queue), CapturedBefore(u, o) PROVE Precedes(u, q)
  <2> SUFFICES ASSUME NEW i \in DOMAIN u, NEW j \in 1..Len(q)
               PROVE  Highest(u[i]) < Lowest(q[j])
    BY DEF Precedes
  <2>1. CASE j \in 1..Len(queue) /\ Lowest(q[j]) = Lowest(queue[j]) BY <1>4, <2>1 DEF Precedes
  <2>2. CASE Lowest(q[j]) = o BY <1>4, <2>2 DEF CapturedBefore
  <2> QED BY <2>1, <2>2 DEF IsGrown
<1> QED BY <1>2, <1>3, <1>4

\* An empty history is in order.
LEMMA CaptureOrderInit == Init => CaptureOrder /\ AllCaptured /\ NothingBehindTheClear
  BY DEF Init, CaptureOrder, InOrder, Precedes, AllCaptured, CapturedBefore,
         NothingBehindTheClear

\* What is captured before an ordinal is captured before the next one.
LEMMA CapturedLater ==
  ASSUME NEW s \in Seq(EntryType \cup EvidenceType), NEW o \in Nat, CapturedBefore(s, o)
  PROVE  CapturedBefore(s, o + 1)
<1> SUFFICES ASSUME NEW i \in 1..Len(s) PROVE Highest(s[i]) < o + 1 BY DEF CapturedBefore
<1> QED BY OrdinalsAreNumbers DEF CapturedBefore

\* An offer or a refusal that enqueues the next ordinal keeps the order,
\* unless it comes between the end of a Clear and its cleanup.
LEMMA EnqueueKeepsOrder ==
  ASSUME CaptureOrderInv, NEW q \in Seq(EntryType),
         IsGrown(q, clearQueueForEntry, nextCaptureOrdinal),
         Enqueue(q), clearing # "settled", nextCaptureOrdinal' = nextCaptureOrdinal + 1,
         UNCHANGED <<inFlight, committed, clearing, clearInProgress>>
  PROVE  CaptureOrder' /\ AllCaptured' /\ NothingBehindTheClear'
<1> DEFINE o == nextCaptureOrdinal
           queue == clearQueueForEntry
<1>1. /\ o \in Nat /\ queue \in Seq(EntryType)
      /\ committed \in Seq(EntryType \cup EvidenceType)
      /\ inFlight \in Seq(EntryType \cup EvidenceType)
      /\ pending \in Seq(EntryType \cup EvidenceType)
      /\ postClearPending \in Seq(EntryType \cup EvidenceType)
  BY DEF CaptureOrderInv, TypeOK, QueuesTypeOK, CountersTypeOK, clearQueueForEntry, EntryType
<1>2. /\ CapturedBefore(committed, o + 1) /\ CapturedBefore(inFlight, o + 1)
      /\ CapturedBefore(pending, o + 1) /\ CapturedBefore(postClearPending, o + 1)
  BY <1>1, CapturedLater DEF CaptureOrderInv, AllCaptured
<1>3. CASE clearInProgress
  <2>1. queue = postClearPending /\ pending' = pending /\ postClearPending' = q
    BY <1>3 DEF clearQueueForEntry, Enqueue
  <2>2. /\ InOrder(queue) /\ CapturedBefore(queue, o)
        /\ Precedes(committed, queue) /\ CapturedBefore(committed, o)
        /\ Precedes(inFlight, queue) /\ CapturedBefore(inFlight, o)
        /\ Precedes(pending, queue) /\ CapturedBefore(pending, o)
    BY <2>1 DEF CaptureOrderInv, CaptureOrder, AllCaptured
  <2>3. /\ InOrder(q) /\ CapturedBefore(q, o + 1)
        /\ Precedes(committed, q) /\ Precedes(inFlight, q) /\ Precedes(pending, q)
    BY <1>1, <2>2, GrowthKeepsOrder
  <2> QED BY <1>2, <1>3, <2>1, <2>3 DEF CaptureOrderInv, CaptureOrder, AllCaptured,
    NothingBehindTheClear
<1>4. CASE ~clearInProgress
  <2>1. queue = pending /\ pending' = q /\ postClearPending' = <<>> /\ postClearPending = <<>>
    BY <1>4 DEF clearQueueForEntry, Enqueue, CaptureOrderInv, NothingBehindTheClear
  <2>2. /\ InOrder(queue) /\ CapturedBefore(queue, o)
        /\ Precedes(committed, queue) /\ CapturedBefore(committed, o)
        /\ Precedes(inFlight, queue) /\ CapturedBefore(inFlight, o)
    BY <2>1 DEF CaptureOrderInv, CaptureOrder, AllCaptured
  <2>3. /\ InOrder(q) /\ CapturedBefore(q, o + 1)
        /\ Precedes(committed, q) /\ Precedes(inFlight, q)
    BY <1>1, <2>2, GrowthKeepsOrder
  <2>4. Precedes(q, <<>>) BY DEF Precedes
  <2> QED
    BY <1>2, <2>1, <2>3, <2>4 DEF CaptureOrderInv, CaptureOrder, AllCaptured, NothingBehindTheClear
<1> QED BY <1>3, <1>4

\* Every step of the coordinator keeps the inductive invariant.
LEMMA CaptureOrderStep ==
  ASSUME ~OfferBeforeCleanup, CaptureOrderInv, [Next]_vars
  PROVE  CaptureOrder' /\ AllCaptured' /\ NothingBehindTheClear'
<1> USE DEF queueVars, retainedVars, gapVars, clearVars, closeVars, journalVars
<1> DEFINE Goal == CaptureOrder' /\ AllCaptured' /\ NothingBehindTheClear'
<1> HIDE DEF Goal
<1> SUFFICES Goal BY DEF Goal
<1>0. /\ nextCaptureOrdinal \in Nat /\ pending \in Seq(EntryType)
      /\ postClearPending \in Seq(EntryType) /\ inFlight \in Seq(CandidateType)
      /\ committed \in Seq(EvidenceType) /\ clearQueueForEntry \in Seq(EntryType)
  BY DEF CaptureOrderInv, TypeOK, QueuesTypeOK, CountersTypeOK, clearQueueForEntry
<1>1. ASSUME NEW id \in EventIds, NEW b \in Sizes, offerCandidate(id, b) PROVE Goal
  <2> DEFINE o == nextCaptureOrdinal
             e == Candidate(o, id, b)
             q == Append(clearQueueForEntry, e)
  <2>1. e \in EntryType /\ Lowest(e) = o /\ Highest(e) = o
    BY <1>0 DEF Candidate, CandidateType, EntryType, Lowest, Highest, IsBarrier
  <2> HIDE DEF e
  <2>2. q \in Seq(EntryType) /\ IsGrown(q, clearQueueForEntry, o) BY <1>0, <2>1 DEF IsGrown
  <2>3. Enqueue(q) /\ clearing # "settled" BY <1>1 DEF offerCandidate, MayOffer, e
  <2>4. /\ nextCaptureOrdinal' = nextCaptureOrdinal + 1
        /\ UNCHANGED <<inFlight, committed, clearing, clearInProgress>>
    BY <1>1 DEF offerCandidate
  <2> HIDE DEF q
  <2> QED BY <2>2, <2>3, <2>4, EnqueueKeepsOrder DEF Goal
<1>2. ASSUME NEW b \in Sizes, NEW dim \in Dimensions, refuseUnretainable(b, dim) PROVE Goal
  <2> DEFINE o == nextCaptureOrdinal
             queue == clearQueueForEntry
             g == GapBarrier(o, o, 1, dim)
             merges == queue # <<>> /\ IsBarrier(Last(queue)) /\ Last(queue).dimension = dim
             q == IF merges THEN [queue EXCEPT ![Len(queue)] = Extended(@, o)]
                            ELSE Append(queue, g)
  <2>1. g \in EntryType /\ Lowest(g) = o /\ Highest(g) = o
    BY <1>0 DEF GapBarrier, BarrierType, EntryType, Lowest, Highest, IsBarrier
  <2>2. Enqueue(q) /\ clearing # "settled" BY <1>2 DEF refuseUnretainable, MayOffer
  <2>3. /\ nextCaptureOrdinal' = nextCaptureOrdinal + 1
        /\ UNCHANGED <<inFlight, committed, clearing, clearInProgress>>
    BY <1>2 DEF refuseUnretainable
  <2> HIDE DEF g
  <2>4. q \in Seq(EntryType) /\ IsGrown(q, queue, o)
    <3>1. CASE merges
      <4>1. /\ q \in Seq(EntryType) /\ Len(q) = Len(queue)
            /\ \A i \in 1..(Len(queue) - 1) : q[i] = queue[i]
            /\ Lowest(q[Len(queue)]) = Lowest(queue[Len(queue)])
            /\ Highest(q[Len(queue)]) = o
        <5>1. queue # <<>> /\ IsBarrier(queue[Len(queue)]) BY <3>1 DEF Last
        <5>2. q = [queue EXCEPT ![Len(queue)] = Extended(@, o)] BY <3>1
        <5> HIDE DEF q, queue
        <5>3. queue \in Seq(EntryType) /\ o \in Nat BY <1>0 DEF queue
        <5> QED BY <5>1, <5>2, <5>3, ExtendedTail
      <4>2. ASSUME NEW i \in 1..Len(q)
            PROVE  \/ /\ i <= Len(queue) /\ Lowest(q[i]) = Lowest(queue[i])
                      /\ Highest(q[i]) = Highest(queue[i])
                   \/ /\ i = Len(queue) /\ i = Len(q) /\ Lowest(q[i]) = Lowest(queue[i])
                      /\ Highest(q[i]) = o
        <5> HIDE DEF q, queue
        <5>1. queue \in Seq(EntryType) BY <1>0 DEF queue
        <5>2. CASE i = Len(queue) BY <4>1, <5>1, <5>2
        <5>3. CASE i \in 1..(Len(queue) - 1) BY <4>1, <5>1, <5>3
        <5> QED BY <4>1, <5>1, <5>2, <5>3
      <4> HIDE DEF q, queue
      <4> QED BY <4>1, <4>2 DEF IsGrown
    <3>2. CASE ~merges BY <1>0, <2>1, <3>2 DEF IsGrown
    <3> QED BY <3>1, <3>2
  <2> HIDE DEF q
  <2> QED BY <2>2, <2>3, <2>4, EnqueueKeepsOrder DEF Goal
<1>3. CASE settleLeadingGapBarrier
  <2>1. /\ pending # <<>> /\ pending' = Tail(pending)
        /\ UNCHANGED <<postClearPending, inFlight, committed, nextCaptureOrdinal, clearing,
                       clearInProgress>>
    BY <1>3 DEF settleLeadingGapBarrier
  <2>2. pending' \in Seq(EntryType) /\ IsPart(pending', pending, 1) BY <1>0, <2>1 DEF IsPart
  <2> QED
    BY <1>0, <2>1, <2>2, PartKeepsOrder DEF Goal, CaptureOrderInv, CaptureOrder, AllCaptured,
    NothingBehindTheClear
<1>4. ASSUME NEW n \in 0..MaxCaptured, takeCandidatePrefix(n) PROVE Goal
  <2>1. /\ n \in Nat /\ n <= Len(pending)
        /\ inFlight' \in Seq(CandidateType) /\ Len(inFlight') = n
        /\ \A i \in 1..n : inFlight'[i] = pending[i]
        /\ pending' \in Seq(EntryType) /\ IsPart(pending', pending, n)
    <3>1. QueuesTypeOK BY DEF CaptureOrderInv, TypeOK
    <3>2. /\ n <= Len(pending)
          /\ inFlight' \in Seq(CandidateType) /\ Len(inFlight') = n
          /\ \A i \in 1..n : inFlight'[i] = pending[i]
          /\ pending' \in Seq(EntryType) /\ Len(pending') = Len(pending) - n
          /\ \A i \in 1..Len(pending') : /\ Lowest(pending'[i]) = Lowest(pending[n + i])
                                         /\ Highest(pending'[i]) = Highest(pending[n + i])
      BY <1>4, <3>1, TakenPrefix
    <3>3. n \in Nat /\ Len(pending') + n <= Len(pending) BY <1>0, <3>2
    <3> QED BY <3>2, <3>3 DEF IsPart
  <2>2. IsPart(inFlight', pending, 0) BY <1>0, <2>1 DEF IsPart
  <2>3. UNCHANGED <<postClearPending, committed, nextCaptureOrdinal, clearing, clearInProgress>>
    BY <1>4 DEF takeCandidatePrefix
  <2>4. /\ InOrder(inFlight') /\ CapturedBefore(inFlight', nextCaptureOrdinal)
        /\ Precedes(committed, inFlight') /\ Precedes(inFlight', postClearPending)
    BY <1>0, <2>1, <2>2, PartKeepsOrder DEF CaptureOrderInv, CaptureOrder, AllCaptured
  <2>5. /\ InOrder(pending') /\ CapturedBefore(pending', nextCaptureOrdinal)
        /\ Precedes(committed, pending') /\ Precedes(pending', postClearPending)
    BY <1>0, <2>1, PartKeepsOrder DEF CaptureOrderInv, CaptureOrder, AllCaptured
  <2>6. Precedes(inFlight', pending')
    <3> SUFFICES ASSUME NEW i \in 1..n, NEW j \in 1..Len(pending')
                 PROVE  Highest(inFlight'[i]) < Lowest(pending'[j])
      BY <2>1 DEF Precedes
    <3>1. i \in 1..Len(pending) /\ n + j \in 1..Len(pending) /\ i < n + j
      BY <1>0, <2>1 DEF IsPart
    <3>2. Highest(pending[i]) < Lowest(pending[n + j])
      BY <1>0, <3>1 DEF CaptureOrderInv, CaptureOrder, InOrder
    <3> QED BY <2>1, <3>2 DEF IsPart
  <2> QED BY <2>3, <2>4, <2>5, <2>6 DEF Goal, CaptureOrderInv, CaptureOrder, AllCaptured,
    NothingBehindTheClear
<1>5. CASE acceptBatch
  <2> DEFINE ev == EvidenceOf(inFlight)
             all == committed \o ev
  <2>1. ev \in Seq(EvidenceType) /\ IsPart(ev, inFlight, 0)
    BY <1>0, EvidenceOfBatch DEF CaptureOrderInv, TypeOK, IsPart
  <2>2. PICK k \in 0..Len(all) : committed' = SubSeq(all, k + 1, Len(all))
    BY <1>5 DEF acceptBatch
  <2>3. /\ inFlight' = <<>>
        /\ UNCHANGED <<pending, postClearPending, nextCaptureOrdinal, clearing, clearInProgress>>
    BY <1>5 DEF acceptBatch
  <2> HIDE DEF ev
  <2>4. /\ InOrder(ev) /\ CapturedBefore(ev, nextCaptureOrdinal) /\ Precedes(committed, ev)
        /\ Precedes(ev, pending) /\ Precedes(ev, postClearPending)
    BY <1>0, <2>1, PartKeepsOrder DEF CaptureOrderInv, CaptureOrder, AllCaptured
  <2>5. /\ all \in Seq(EvidenceType) /\ InOrder(all) /\ CapturedBefore(all, nextCaptureOrdinal)
        /\ Precedes(all, pending) /\ Precedes(all, postClearPending)
    BY <1>0, <2>1, <2>4, ConcatKeepsOrder DEF CaptureOrderInv, CaptureOrder, AllCaptured
  <2> HIDE DEF all
  <2>6. committed' \in Seq(EvidenceType) /\ IsPart(committed', all, k) /\ k \in Nat
    BY <2>2, <2>5 DEF IsPart
  <2>7. /\ InOrder(committed') /\ CapturedBefore(committed', nextCaptureOrdinal)
        /\ Precedes(committed', pending) /\ Precedes(committed', postClearPending)
    BY <2>5, <2>6, PartKeepsOrder
  <2> QED BY <1>0, <2>3, <2>7 DEF Goal, CaptureOrderInv, CaptureOrder, AllCaptured,
    NothingBehindTheClear, InOrder, Precedes, CapturedBefore
<1>6. CASE clearSucceeds \/ clearFails
  <2>1. /\ pending' = pending \o postClearPending /\ postClearPending' = <<>>
        /\ committed' \in {committed, <<>>}
        /\ UNCHANGED <<inFlight, nextCaptureOrdinal>>
    BY <1>6 DEF clearSucceeds, clearFails, rejoinPostClearQueue
  <2>2. /\ InOrder(pending') /\ CapturedBefore(pending', nextCaptureOrdinal)
        /\ Precedes(committed, pending') /\ Precedes(inFlight, pending')
    BY <1>0, <2>1, ConcatKeepsOrder DEF CaptureOrderInv, CaptureOrder, AllCaptured
  <2>3. /\ InOrder(committed') /\ CapturedBefore(committed', nextCaptureOrdinal)
        /\ Precedes(committed', pending') /\ Precedes(committed', inFlight)
    BY <2>1, <2>2 DEF CaptureOrderInv, CaptureOrder, AllCaptured, InOrder, CapturedBefore, Precedes
  <2> QED BY <2>1, <2>2, <2>3 DEF Goal, CaptureOrderInv, CaptureOrder, AllCaptured,
    NothingBehindTheClear, InOrder, CapturedBefore, Precedes
<1>7. CASE closeEnds
  <2>1. /\ committed' \in {committed, <<>>}
        /\ UNCHANGED <<queueVars, nextCaptureOrdinal, clearing, clearInProgress>>
    BY <1>7 DEF closeEnds, UnchangedByClose
  <2>2. /\ InOrder(committed') /\ CapturedBefore(committed', nextCaptureOrdinal)
        /\ Precedes(committed', inFlight) /\ Precedes(committed', pending)
        /\ Precedes(committed', postClearPending)
    BY <2>1 DEF CaptureOrderInv, CaptureOrder, AllCaptured, InOrder, CapturedBefore, Precedes
  <2> QED
    BY <2>1, <2>2 DEF Goal, CaptureOrderInv, CaptureOrder, AllCaptured, NothingBehindTheClear
<1>8. CASE clear \/ clearBegins \/ clearCleanup
  BY <1>8 DEF Goal, CaptureOrderInv, CaptureOrder, AllCaptured, NothingBehindTheClear, clear,
     clearBegins, clearCleanup
<1>9. CASE \/ refuseWithoutOrdinal \/ startProcessing \/ journalCommitFails
           \/ finishProcessing \/ close \/ closeAfterClear \/ closeBegins \/ UNCHANGED vars
  BY <1>9 DEF Goal, CaptureOrderInv, CaptureOrder, AllCaptured, NothingBehindTheClear,
     refuseWithoutOrdinal, startProcessing, journalCommitFails, finishProcessing, close,
     closeAfterClear, closeBegins, UnchangedByClose, vars
<1> QED BY <1>1, <1>2, <1>3, <1>4, <1>5, <1>6, <1>7, <1>8, <1>9 DEF Next

\* Evidence is committed, and waits to be committed, in the order in which it
\* was captured, through refusals, duplicates, fallback, retention and Clears
\* that succeed or fail - as long as nothing is offered between the end of a
\* Clear and its cleanup callback.
THEOREM CaptureOrderHolds ==
  ASSUME ~OfferBeforeCleanup PROVE Spec => []CaptureOrder
<1>1. Init => CaptureOrder /\ AllCaptured /\ NothingBehindTheClear BY CaptureOrderInit
<1>2. /\ TypeOK /\ TypeOK' /\ [Next]_vars
      /\ CaptureOrder /\ AllCaptured /\ NothingBehindTheClear
      => CaptureOrder' /\ AllCaptured' /\ NothingBehindTheClear'
  BY CaptureOrderStep DEF CaptureOrderInv
<1> QED BY <1>1, <1>2, TypeCorrect, PTL DEF Spec
-----------------------------------------------------------------------------
(* Sums                                                                    *)

\* What BytesOf and the sums over candidates say of the empty sequence.
LEMMA NoBytes == BytesOf(<<>>) = 0 /\ CandidateCount(<<>>) = 0 /\ CandidateBytes(<<>>) = 0
<1>1. Total(<<>>) = 0
  <2>1. <<>> \in Seq(Nat) /\ Len(<<>>) = 0 OBVIOUS
  <2>2. Sums(<<>>)[0] = 0 /\ Total(<<>>) = Sums(<<>>)[Len(<<>>)] BY <2>1, SumsFacts
  <2> QED BY <2>1, <2>2
<1>2. /\ [i \in DOMAIN <<>> |-> <<>>[i].bytes] = <<>>
      /\ [i \in DOMAIN <<>> |-> IF IsCandidate(<<>>[i]) THEN 1 ELSE 0] = <<>>
      /\ [i \in DOMAIN <<>> |-> IF IsCandidate(<<>>[i]) THEN <<>>[i].bytes ELSE 0] = <<>>
  OBVIOUS
<1> QED BY <1>1, <1>2 DEF BytesOf, CandidateCount, CandidateBytes

\* The candidates in a queue, and their bytes, add up over its parts.
LEMMA CandidateSums ==
  ASSUME NEW q \in Seq(EntryType), NEW r \in Seq(EntryType)
  PROVE  /\ CandidateCount(q) \in Nat /\ CandidateBytes(q) \in Nat
         /\ CandidateCount(q \o r) = CandidateCount(q) + CandidateCount(r)
         /\ CandidateBytes(q \o r) = CandidateBytes(q) + CandidateBytes(r)
<1> DEFINE one(e) == IF IsCandidate(e) THEN 1 ELSE 0
           byte(e) == IF IsCandidate(e) THEN e.bytes ELSE 0
           N(s) == [i \in DOMAIN s |-> one(s[i])]
           B(s) == [i \in DOMAIN s |-> byte(s[i])]
<1>1. /\ CandidateCount(q) = Total(N(q)) /\ CandidateCount(r) = Total(N(r))
      /\ CandidateCount(q \o r) = Total(N(q \o r))
      /\ CandidateBytes(q) = Total(B(q)) /\ CandidateBytes(r) = Total(B(r))
      /\ CandidateBytes(q \o r) = Total(B(q \o r))
  BY DEF CandidateCount, CandidateBytes
<1>2. \A e \in EntryType : one(e) \in Nat /\ byte(e) \in Nat BY EntryFacts
<1> HIDE DEF one, byte
<1>3. N(q) \in Seq(Nat) /\ N(r) \in Seq(Nat) /\ B(q) \in Seq(Nat) /\ B(r) \in Seq(Nat) BY <1>2
<1>4. N(q \o r) = N(q) \o N(r) OBVIOUS
<1>5. B(q \o r) = B(q) \o B(r) OBVIOUS
<1> HIDE DEF N, B
<1> QED BY <1>1, <1>3, <1>4, <1>5, TotalFacts

\* A single entry counts when it is a candidate.
LEMMA OneEntry ==
  ASSUME NEW e \in EntryType
  PROVE  /\ <<e>> \in Seq(EntryType)
         /\ CandidateCount(<<e>>) = IF IsCandidate(e) THEN 1 ELSE 0
         /\ CandidateBytes(<<e>>) = IF IsCandidate(e) THEN e.bytes ELSE 0
<1>1. ASSUME NEW n \in Nat PROVE Total(<<n>>) = n
  <2> DEFINE s == <<n>>
  <2>1. s \in Seq(Nat) /\ Len(s) = 1 /\ s[1] = n OBVIOUS
  <2> HIDE DEF s
  <2>2. /\ Sums(s)[0] = 0 /\ Total(s) = Sums(s)[1]
        /\ \A i \in 1 .. 1 : Sums(s)[i] = Sums(s)[i - 1] + s[i]
    BY <2>1, SumsFacts
  <2>3. Sums(s)[1] = Sums(s)[0] + n BY <2>1, <2>2
  <2> QED BY <2>2, <2>3 DEF s
<1> DEFINE one == IF IsCandidate(e) THEN 1 ELSE 0
           byte == IF IsCandidate(e) THEN e.bytes ELSE 0
<1>2. CandidateCount(<<e>>) = Total(<<one>>) BY DEF CandidateCount
<1>3. CandidateBytes(<<e>>) = Total(<<byte>>) BY DEF CandidateBytes
<1>4. one \in Nat /\ byte \in Nat BY EntryFacts
<1> QED BY <1>1, <1>2, <1>3, <1>4

\* In a batch every entry counts.
LEMMA BatchSums ==
  ASSUME NEW q \in Seq(CandidateType)
  PROVE  /\ CandidateCount(q) = Len(q)
         /\ CandidateBytes(q) = BytesOf(q)
<1>1. ASSUME NEW i \in DOMAIN q PROVE IsCandidate(q[i])
  <2>1. q[i] \in CandidateType OBVIOUS
  <2> QED BY <2>1 DEF CandidateType, IsCandidate
<1>2. CandidateBytes(q) = BytesOf(q) BY <1>1 DEF CandidateBytes, BytesOf
<1> DEFINE s == [i \in 1 .. Len(q) |-> 1]
           g == [i \in 0 .. Len(q) |-> i]
<1>3. CandidateCount(q) = Total(s) BY <1>1 DEF CandidateCount
<1>4. s \in Seq(Nat) /\ Len(s) = Len(q) OBVIOUS
<1>5. g[0] = 0 /\ \A i \in 1 .. Len(s) : g[i] = g[i - 1] + s[i] BY <1>4
<1>6. g[Len(s)] = Len(q) BY <1>4
<1> HIDE DEF s, g
<1> QED BY <1>2, <1>3, <1>4, <1>5, <1>6, TotalIs
-----------------------------------------------------------------------------
(* Nothing is lost.                                                        *)
(*                                                                         *)
(* The invariant: the entries of the queues stand, one after the other,    *)
(* for exactly the ordinals that are not decided; the counters agree with  *)
(* the entries and the receipts; what is retained carries the sequence     *)
(* numbers just below the next one; and the stages of processing, Clear    *)
(* and Close exclude one another.                                          *)

\* Exactly the first d ordinals are decided, and the gaps are among them.
Decided(d) ==
  /\ \A o \in 1 .. d : receipt[o] # "open"
  /\ \A o \in d + 1 .. nextCaptureOrdinal - 1 : receipt[o] = "open"
  /\ firstGap.captureOrdinal <= d /\ latestGap.captureOrdinal <= d

EntriesTile == \E d \in Nat : Tiles(Queued, d, nextCaptureOrdinal - 1) /\ Decided(d)

Accepted == {o \in DOMAIN receipt : receipt[o] = "BECAME_EVIDENCE"}

CountersAgree ==
  /\ awaitingCount = CandidateCount(Queued) /\ awaitingBytes = CandidateBytes(Queued)
  /\ \E t \in Tiers : awaitingBytes <= Limits[t].pendingStopBytes
  /\ accepted = Cardinality(Accepted)
  /\ nextEvidenceSequence = accepted + 1 /\ committedEvidenceBoundary = accepted
  /\ nextCaptureOrdinal - 1 - accepted - awaitingCount <= notAccepted

StagesAgree ==
  /\ inFlight # <<>> <=> processing = "commit"
  /\ clearing \in {"waiting", "journal"} => clearInProgress /\ interval < MaxIntervals
  /\ clearing = "no" => ~clearInProgress
  /\ scheduled => processing = "no" /\ pending # <<>>
  /\ clearing = "journal" \/ (clearing = "waiting" /\ "clear" \notin idleWaiters) => isIdle
  /\ closing <=> closeStage # "none"
  /\ phase = "CLOSED" <=> closeStage = "done"
  /\ closeStage \in {"waiting", "journal", "done"} => clearing = "no"
  /\ (closeStage = "waiting" /\ "close" \notin idleWaiters) \/ closeStage \in {"journal", "done"}
       => isIdle
  /\ nextCaptureOrdinal <= MaxCaptured + 1

\* No identity is retained, or in flight, twice.
Identities ==
  /\ retainedEventIds = IdsOf(committed)
  /\ DistinctIds(committed) /\ DistinctIds(inFlight)
  /\ \A i \in DOMAIN inFlight : inFlight[i].eventId \notin retainedEventIds

Retention ==
  /\ retainedCount = Len(committed) /\ retainedBytes = BytesOf(committed)
  /\ \A i \in DOMAIN committed :
       /\ committed[i].sequence = nextEvidenceSequence - 1 - Len(committed) + i
       /\ committed[i].interval = interval
  /\ processing # "commit" => /\ retainedCount <= limits.maxRetainedCount
                             /\ retainedBytes <= limits.maxRetainedBytes

LosslessInv ==
  /\ CaptureOrderInv /\ StagesAgree /\ EntriesTile /\ CountersAgree
  /\ Identities /\ Retention /\ GapPlacement

\* The stages exclude one another: a batch is in flight exactly during a
\* commit, a run is scheduled only for a waiting entry, and what waits for
\* the queue to drain goes on only once it has.
LEMMA StagesStep ==
  ASSUME CaptureOrderInv, StagesAgree, [Next]_vars PROVE StagesAgree'
<1> USE DEF queueVars, retainedVars, gapVars, clearVars, closeVars, journalVars
<1> DEFINE Goal == StagesAgree'
<1> HIDE DEF Goal
<1> SUFFICES Goal BY DEF Goal
<1>0. /\ LifecycleTypeOK /\ QueuesTypeOK /\ CountersTypeOK
      /\ MaxCaptured \in Nat /\ interval \in Nat /\ MaxIntervals \in Nat
  BY BoundsAssumption DEF CaptureOrderInv, TypeOK, CountersTypeOK
<1>1. ASSUME MayOffer, NEW q, q # <<>>, Enqueue(q), nextCaptureOrdinal' = nextCaptureOrdinal + 1,
             UNCHANGED <<inFlight, clearing, clearInProgress, closeVars, journalVars, interval,
                         processing, idleWaiters>>
      PROVE  Goal
  <2>1. /\ closeStage = "none" /\ closeStage' = "none" /\ closing' = closing /\ phase' = phase
        /\ nextCaptureOrdinal' <= MaxCaptured + 1
    BY <1>0, <1>1 DEF MayOffer, StagesAgree, CountersTypeOK
  <2>2. scheduled' => processing' = "no" /\ pending' # <<>>
    BY <1>1 DEF Enqueue, scheduleProcessing, StagesAgree
  <2>3. clearing' = "journal" \/ (clearing' = "waiting" /\ "clear" \notin idleWaiters')
          => isIdle'
    <3>1. CASE clearInProgress BY <1>1, <3>1 DEF Enqueue, StagesAgree, isIdle
    <3>2. CASE ~clearInProgress BY <1>1, <3>2 DEF StagesAgree
    <3> QED BY <3>1, <3>2
  <2> QED BY <1>1, <2>1, <2>2, <2>3 DEF Goal, StagesAgree
<1>2. ASSUME NEW id \in EventIds, NEW b \in Sizes, offerCandidate(id, b) PROVE Goal
  <2> DEFINE q == Append(clearQueueForEntry, Candidate(nextCaptureOrdinal, id, b))
  <2>1. q # <<>>
    <3>1. clearQueueForEntry \in Seq(EntryType) BY <1>0 DEF QueuesTypeOK, clearQueueForEntry
    <3>2. Candidate(nextCaptureOrdinal, id, b) \in EntryType
      BY <1>0 DEF CountersTypeOK, Candidate, CandidateType, EntryType
    <3> QED BY <3>1, <3>2, AppendFacts
  <2>2. /\ MayOffer /\ Enqueue(q) /\ nextCaptureOrdinal' = nextCaptureOrdinal + 1
        /\ UNCHANGED <<inFlight, clearing, clearInProgress, closeVars, journalVars, interval,
                       processing, idleWaiters>>
    BY <1>2 DEF offerCandidate
  <2> HIDE DEF q
  <2> QED BY <1>1, <2>1, <2>2
<1>3. ASSUME NEW b \in Sizes, NEW dim \in Dimensions, refuseUnretainable(b, dim) PROVE Goal
  <2> DEFINE queue == clearQueueForEntry
             o == nextCaptureOrdinal
             merges == queue # <<>> /\ IsBarrier(Last(queue)) /\ Last(queue).dimension = dim
             q == IF merges THEN [queue EXCEPT ![Len(queue)] = Extended(@, o)]
                            ELSE Append(queue, GapBarrier(o, o, 1, dim))
  <2>1. q # <<>>
    <3>1. queue \in Seq(EntryType) BY <1>0 DEF QueuesTypeOK, clearQueueForEntry
    <3> HIDE DEF queue
    <3>2. CASE merges
      <4>1. queue # <<>> /\ q = [queue EXCEPT ![Len(queue)] = Extended(@, o)] BY <3>2
      <4>2. DOMAIN q = DOMAIN queue /\ DOMAIN queue # {} BY <3>1, <4>1
      <4> QED BY <4>2
    <3>3. CASE ~merges BY <3>1, <3>3
    <3> QED BY <3>2, <3>3
  <2>2. /\ MayOffer /\ Enqueue(q) /\ nextCaptureOrdinal' = nextCaptureOrdinal + 1
        /\ UNCHANGED <<inFlight, clearing, clearInProgress, closeVars, journalVars, interval,
                       processing, idleWaiters>>
    BY <1>3 DEF refuseUnretainable
  <2> HIDE DEF q
  <2> QED BY <1>1, <2>1, <2>2
<1>4. CASE refuseWithoutOrdinal \/ journalCommitFails \/ UNCHANGED vars
  BY <1>4 DEF Goal, StagesAgree, isIdle, refuseWithoutOrdinal, journalCommitFails, vars
<1>5. CASE startProcessing BY <1>0, <1>5 DEF Goal, StagesAgree, startProcessing, isIdle
<1>6. CASE settleLeadingGapBarrier
  BY <1>0, <1>6 DEF Goal, StagesAgree, isIdle, settleLeadingGapBarrier
<1>7. ASSUME NEW n \in 0..MaxCaptured, takeCandidatePrefix(n) PROVE Goal
  <2>1. /\ processing = "loop" /\ ~scheduled /\ ~isIdle
        /\ processing' = IF n = 0 THEN "loop" ELSE "commit"
        /\ UNCHANGED <<clearVars, closeVars, interval, nextCaptureOrdinal, scheduled, idleWaiters>>
    BY <1>0, <1>7 DEF takeCandidatePrefix, StagesAgree, isIdle
  <2>2. inFlight' # <<>> <=> processing' = "commit" BY <2>1, <1>0, <1>7, TakenPrefix
  <2> QED BY <2>1, <2>2 DEF Goal, StagesAgree, isIdle
<1>8. CASE acceptBatch BY <1>0, <1>8 DEF Goal, StagesAgree, isIdle, acceptBatch
<1>9. CASE finishProcessing
  BY <1>0, <1>9 DEF Goal, StagesAgree, finishProcessing, isIdle, resolveIdleWaiters
<1>10. CASE clear
  BY <1>0, <1>10 DEF Goal, StagesAgree, clear, isIdle, waitForIdle, LifecycleTypeOK
<1>11. CASE clearBegins BY <1>0, <1>11 DEF Goal, StagesAgree, clearBegins, isIdle
<1>12. CASE clearSucceeds \/ clearFails
  <2>1. /\ clearing = "journal" /\ clearing' = "settled"
        /\ pending' = pending \o postClearPending
        /\ UNCHANGED <<inFlight, closeVars, nextCaptureOrdinal, scheduled, processing, idleWaiters>>
    BY <1>12 DEF clearSucceeds, clearFails, rejoinPostClearQueue
  <2>2. pending' # <<>> \/ pending = <<>> BY <1>0, <2>1 DEF QueuesTypeOK
  <2> QED BY <2>1, <2>2 DEF Goal, StagesAgree, isIdle
<1>13. CASE clearCleanup
  BY <1>0, <1>13 DEF Goal, StagesAgree, clearCleanup, isIdle, scheduleProcessing, LifecycleTypeOK
<1>14. CASE close \/ closeAfterClear \/ closeBegins \/ closeEnds
  BY <1>0, <1>14 DEF Goal, StagesAgree, close, closeAfterClear, closeBegins, closeEnds, isIdle,
     waitForIdle, UnchangedByClose, LifecycleTypeOK
<1> QED
  BY <1>2, <1>3, <1>4, <1>5, <1>6, <1>7, <1>8, <1>9, <1>10, <1>11, <1>12, <1>13, <1>14 DEF Next

\* The entries that wait for a decision, in flight, in the queue and behind a
\* pending Clear, as one sequence.
LEMMA QueuedTypes ==
  ASSUME QueuesTypeOK
  PROVE  /\ inFlight \in Seq(EntryType) /\ pending \in Seq(EntryType)
         /\ postClearPending \in Seq(EntryType) /\ Queued \in Seq(EntryType)
<1>1. inFlight \in Seq(EntryType) /\ pending \in Seq(EntryType) /\ postClearPending \in Seq(EntryType)
  BY DEF QueuesTypeOK, EntryType
<1> QED BY <1>1 DEF Queued

\* What is offered goes to the end of all that waits: behind a pending Clear
\* there is a queue of its own, and without one that queue is empty.
LEMMA EnqueuedAtTheEnd ==
  ASSUME ~OfferBeforeCleanup, CaptureOrderInv, MayOffer,
         NEW p \in Seq(EntryType), NEW s \in Seq(EntryType), NEW r \in Seq(EntryType),
         clearQueueForEntry = p \o s, Enqueue(p \o r), UNCHANGED inFlight
  PROVE  \E x \in Seq(EntryType) : Queued = x \o s /\ Queued' = x \o r
<1>1. inFlight \in Seq(EntryType) /\ pending \in Seq(EntryType) /\ postClearPending \in Seq(EntryType)
  BY QueuedTypes DEF CaptureOrderInv, TypeOK
<1>2. CASE clearInProgress
  <2>1. /\ postClearPending = p \o s /\ postClearPending' = p \o r /\ pending' = pending
        /\ inFlight' = inFlight
    BY <1>2 DEF clearQueueForEntry, Enqueue
  <2> DEFINE y == inFlight \o pending
  <2>2. y \in Seq(EntryType) BY <1>1
  <2>3. Queued = y \o (p \o s) /\ Queued' = y \o (p \o r) BY <2>1 DEF Queued
  <2> HIDE DEF y
  <2>4. Queued = (y \o p) \o s /\ Queued' = (y \o p) \o r /\ y \o p \in Seq(EntryType)
    BY <2>2, <2>3, EntriesAssociate
  <2> QED BY <2>4
<1>3. CASE ~clearInProgress
  <2>1. /\ pending = p \o s /\ pending' = p \o r /\ postClearPending = <<>> /\ postClearPending' = <<>>
        /\ inFlight' = inFlight
    BY <1>3 DEF clearQueueForEntry, Enqueue, CaptureOrderInv, NothingBehindTheClear
  <2> DEFINE y == inFlight
  <2>2. y \in Seq(EntryType) BY <1>1
  <2>3. Queued = (y \o (p \o s)) \o <<>> /\ Queued' = (y \o (p \o r)) \o <<>> BY <2>1 DEF Queued
  <2> HIDE DEF y
  <2>4. /\ y \o (p \o s) \in Seq(EntryType) /\ y \o (p \o s) = (y \o p) \o s
        /\ y \o (p \o r) \in Seq(EntryType) /\ y \o (p \o r) = (y \o p) \o r
        /\ y \o p \in Seq(EntryType)
    BY <2>2, EntriesAssociate
  <2>5. Queued = (y \o p) \o s /\ Queued' = (y \o p) \o r BY <2>3, <2>4, EmptyConcat
  <2> QED BY <2>4, <2>5
<1> QED BY <1>2, <1>3

\* An admitted candidate is added to what waits.
LEMMA OfferEffect ==
  ASSUME ~OfferBeforeCleanup, CaptureOrderInv,
         NEW id \in EventIds, NEW b \in Sizes, offerCandidate(id, b)
  PROVE  /\ Candidate(nextCaptureOrdinal, id, b) \in CandidateType
         /\ Queued' = Queued \o <<Candidate(nextCaptureOrdinal, id, b)>>
<1> DEFINE e == Candidate(nextCaptureOrdinal, id, b)
           queue == clearQueueForEntry
<1>1. e \in CandidateType /\ e \in EntryType
  BY DEF CaptureOrderInv, TypeOK, CountersTypeOK, Candidate, CandidateType, EntryType
<1>2. queue \in Seq(EntryType) /\ Queued \in Seq(EntryType)
  BY QueuedTypes DEF CaptureOrderInv, TypeOK, clearQueueForEntry
<1>3. MayOffer /\ Enqueue(Append(queue, e)) /\ UNCHANGED inFlight BY DEF offerCandidate
<1> HIDE DEF e
<1>4. /\ Append(queue, e) = queue \o <<e>> /\ queue = queue \o <<>>
      /\ <<e>> \in Seq(EntryType) /\ <<>> \in Seq(EntryType)
  BY <1>1, <1>2, AppendFacts, EmptyConcat
<1>5. PICK x \in Seq(EntryType) : Queued = x \o <<>> /\ Queued' = x \o <<e>>
  <2>1. Enqueue(queue \o <<e>>) BY <1>3, <1>4
  <2> QED BY <1>2, <1>3, <1>4, <2>1, EnqueuedAtTheEnd, ZenonT(60)
<1>6. Queued' = Queued \o <<e>> BY <1>5, EmptyConcat
<1> QED BY <1>1, <1>6 DEF e

\* A refusal adds a barrier to what waits, or extends the one at its end.
LEMMA RefuseEffect ==
  ASSUME ~OfferBeforeCleanup, CaptureOrderInv,
         NEW b \in Sizes, NEW dim \in Dimensions, refuseUnretainable(b, dim)
  PROVE  LET o == nextCaptureOrdinal
             g == GapBarrier(o, o, 1, dim)
         IN  /\ g \in BarrierType
             /\ \/ Queued' = Queued \o <<g>>
                \/ \E x \in Seq(EntryType), e \in BarrierType :
                     Queued = x \o <<e>> /\ Queued' = x \o <<Extended(e, o)>>
<1> DEFINE o == nextCaptureOrdinal
           queue == clearQueueForEntry
           g == GapBarrier(o, o, 1, dim)
           merges == queue # <<>> /\ IsBarrier(Last(queue)) /\ Last(queue).dimension = dim
           q == IF merges THEN [queue EXCEPT ![Len(queue)] = Extended(@, o)] ELSE Append(queue, g)
<1>1. o \in Nat /\ g \in BarrierType /\ g \in EntryType
  BY DEF CaptureOrderInv, TypeOK, CountersTypeOK, GapBarrier, BarrierType, EntryType
<1>2. queue \in Seq(EntryType) /\ Queued \in Seq(EntryType)
  BY QueuedTypes DEF CaptureOrderInv, TypeOK, clearQueueForEntry
<1>3. MayOffer /\ Enqueue(q) /\ UNCHANGED inFlight BY DEF refuseUnretainable
<1> HIDE DEF g
<1>4. CASE merges
  <2> DEFINE e == queue[Len(queue)]
             f == Extended(e, o)
  <2>1. IsBarrier(e) /\ Enqueue([queue EXCEPT ![Len(queue)] = f]) BY <1>3, <1>4 DEF Last
  <2>0. queue # <<>> BY <1>4
  <2>2. e \in BarrierType
    <3>1. e \in EntryType BY <1>2, <2>0
    <3> HIDE DEF e
    <3> QED BY <2>1, <3>1, EntryFacts
  <2>3. f \in EntryType BY <1>1, <2>2, ExtendedBarrier DEF EntryType
  <2> HIDE DEF queue, f
  <2>4. PICK p \in Seq(EntryType) : queue = p \o <<e>> /\ [queue EXCEPT ![Len(queue)] = f] = p \o <<f>>
    BY <1>2, <2>0, <2>3, FrontAndLast, Zenon
  <2>5. <<e>> \in Seq(EntryType) /\ <<f>> \in Seq(EntryType) BY <2>2, <2>3 DEF EntryType
  <2>6. clearQueueForEntry = p \o <<e>> /\ Enqueue(p \o <<f>>) BY <2>1, <2>4 DEF queue
  <2>7. PICK x \in Seq(EntryType) : Queued = x \o <<e>> /\ Queued' = x \o <<f>>
    BY <1>3, <2>5, <2>6, EnqueuedAtTheEnd
  <2> QED BY <1>1, <2>2, <2>7 DEF f, g
<1>5. CASE ~merges
  <2>1. Enqueue(Append(queue, g)) BY <1>3, <1>5
  <2>2. /\ Append(queue, g) = queue \o <<g>> /\ queue = queue \o <<>>
        /\ <<g>> \in Seq(EntryType) /\ <<>> \in Seq(EntryType)
    BY <1>1, <1>2, AppendFacts, EmptyConcat
  <2>3. Enqueue(queue \o <<g>>) BY <2>1, <2>2
  <2>4. PICK x \in Seq(EntryType) : Queued = x \o <<>> /\ Queued' = x \o <<g>>
    BY <1>2, <1>3, <2>2, <2>3, EnqueuedAtTheEnd, ZenonT(60)
  <2>5. Queued' = Queued \o <<g>> BY <2>4, EmptyConcat
  <2> QED BY <1>1, <2>5 DEF g
<1> QED BY <1>4, <1>5

\* The leading barrier is removed from what waits.
LEMMA SettleEffect ==
  ASSUME CaptureOrderInv, StagesAgree, settleLeadingGapBarrier
  PROVE  /\ Head(pending) \in BarrierType
         /\ Queued' \in Seq(EntryType)
         /\ Queued = <<Head(pending)>> \o Queued'
<1> DEFINE e == Head(pending)
<1>1. inFlight \in Seq(EntryType) /\ pending \in Seq(EntryType) /\ postClearPending \in Seq(EntryType)
  BY QueuedTypes DEF CaptureOrderInv, TypeOK
<1>2. /\ pending # <<>> /\ IsBarrier(e) /\ pending' = Tail(pending) /\ inFlight = <<>>
      /\ UNCHANGED <<postClearPending, inFlight>>
  BY DEF settleLeadingGapBarrier, StagesAgree
<1>3. e \in EntryType /\ pending' \in Seq(EntryType) /\ pending = <<e>> \o pending'
  BY <1>1, <1>2, HeadAndTail
<1>4. e \in BarrierType /\ <<e>> \in Seq(EntryType) BY <1>2, <1>3, EntryFacts
<1>5. Queued = pending \o postClearPending /\ Queued' = pending' \o postClearPending
  BY <1>1, <1>2, <1>3, EmptyConcat DEF Queued
<1> HIDE DEF e
<1>6. Queued = <<e>> \o Queued' /\ Queued' \in Seq(EntryType)
  BY <1>1, <1>3, <1>4, <1>5, EntriesAssociate
<1> QED BY <1>4, <1>6 DEF e

\* Taking a batch moves entries, and puts a barrier in the place of a
\* candidate that repeats an identity.
LEMMA TakeEffect ==
  ASSUME CaptureOrderInv, StagesAgree, NEW n \in 0..MaxCaptured, takeCandidatePrefix(n)
  PROVE  \/ /\ Queued' = Queued
            /\ UNCHANGED <<awaitingCount, awaitingBytes, notAccepted>>
         \/ \E x \in Seq(EntryType), y \in Seq(EntryType), d \in CandidateType :
              /\ Queued = x \o (<<d>> \o y)
              /\ Queued' = x \o (<<GapBarrier(d.ordinal, d.ordinal, 1, "EVENT_IDENTITY")>> \o y)
              /\ awaitingCount' = awaitingCount - 1
              /\ awaitingBytes' = awaitingBytes - d.bytes
              /\ notAccepted' = notAccepted + 1
<1>1. /\ QueuesTypeOK /\ pending \in Seq(EntryType) /\ postClearPending \in Seq(EntryType)
  BY QueuedTypes DEF CaptureOrderInv, TypeOK
<1> DEFINE x == SubSeq(pending, 1, n)
           rest == SubSeq(pending, n + 1, Len(pending))
<1>2. /\ inFlight = <<>> /\ inFlight' = x /\ UNCHANGED postClearPending
      /\ n \in 0 .. Len(pending)
  BY <1>1, BoundsAssumption DEF takeCandidatePrefix, StagesAgree
<1>3. x \in Seq(EntryType) /\ rest \in Seq(EntryType) /\ pending = x \o rest
  BY <1>1, <1>2, Parts
<1>4. Queued = (x \o rest) \o postClearPending /\ Queued' = (x \o pending') \o postClearPending
  BY <1>1, <1>2, <1>3, EmptyConcat DEF Queued
<1>5. CASE n < Len(pending) /\ IsCandidate(pending[n + 1])
  <2> DEFINE d == pending[n + 1]
             g == GapBarrier(d.ordinal, d.ordinal, 1, "EVENT_IDENTITY")
             tail == SubSeq(pending, n + 2, Len(pending))
  <2>1. d \in CandidateType BY <1>5, EntryFacts, <1>1, <1>2
  <2>2. g \in EntryType /\ d \in EntryType
    BY <2>1 DEF CandidateType, GapBarrier, BarrierType, Dimensions, EntryType
  <2>3. /\ pending' = <<g>> \o tail
        /\ awaitingCount' = awaitingCount - 1 /\ awaitingBytes' = awaitingBytes - d.bytes
        /\ notAccepted' = notAccepted + 1
    BY <1>5 DEF takeCandidatePrefix, convertDuplicateIdentityToGap
  <2>4. tail \in Seq(EntryType) /\ rest = <<d>> \o tail
    <3>1. /\ Len(rest) = Len(pending) - n
          /\ \A i \in 1 .. Len(pending) - n : rest[i] = pending[n + i]
      BY <1>1, <1>2, Parts
    <3>2. /\ tail \in Seq(EntryType) /\ Len(tail) = Len(pending) - (n + 1)
          /\ \A i \in 1 .. Len(pending) - (n + 1) : tail[i] = pending[(n + 1) + i]
      <4>1. n + 1 \in 0 .. Len(pending) /\ (n + 1) + 1 = n + 2 BY <1>1, <1>2, <1>5
      <4> QED BY <1>1, <4>1, Parts, SMTT(60)
    <3> DEFINE c == <<d>> \o tail
    <3> HIDE DEF tail, rest, d
    <3>3. /\ c \in Seq(EntryType) /\ Len(c) = Len(tail) + 1 /\ c[1] = d
          /\ \A i \in 1 .. Len(tail) : c[i + 1] = tail[i]
      BY <2>2, <3>2
    <3> HIDE DEF c
    <3>4. Len(c) = Len(rest) BY <3>1, <3>2, <3>3, <1>1, <1>2
    <3>5. ASSUME NEW i \in 1 .. Len(rest) PROVE c[i] = rest[i]
      <4>1. CASE i = 1 BY <1>1, <1>2, <3>1, <3>3, <4>1 DEF d
      <4>2. CASE i # 1
        <5>1. i - 1 \in 1 .. Len(tail) /\ (i - 1) + 1 = i /\ (n + 1) + (i - 1) = n + i
          BY <1>1, <1>2, <3>1, <3>2, <4>2
        <5>2. c[i] = tail[i - 1] /\ tail[i - 1] = pending[(n + 1) + (i - 1)]
          <6>1. c[(i - 1) + 1] = tail[i - 1] BY <3>3, <5>1
          <6>2. i - 1 \in 1 .. Len(pending) - (n + 1) BY <3>2, <5>1
          <6> QED BY <3>2, <5>1, <6>1, <6>2
        <5>3. rest[i] = pending[n + i] BY <3>1
        <5> QED BY <5>1, <5>2, <5>3
      <4> QED BY <4>1, <4>2
    <3>6. c = rest BY <1>3, <3>3, <3>4, <3>5
    <3> QED BY <3>2, <3>6 DEF c
  <2> HIDE DEF x, rest, tail, d, g
  <2>5. /\ <<d>> \in Seq(EntryType) /\ <<g>> \in Seq(EntryType)
        /\ <<d>> \o tail \in Seq(EntryType) /\ <<g>> \o tail \in Seq(EntryType)
        /\ tail \o postClearPending \in Seq(EntryType)
    BY <1>1, <2>2, <2>4
  <2> DEFINE post == postClearPending
  <2>6. Queued = x \o (<<d>> \o (tail \o post))
    <3>1. (x \o (<<d>> \o tail)) \o post = x \o (<<d>> \o (tail \o post))
      BY <1>1, <1>3, <2>4, <2>5, EntriesRegroup, SMTT(60)
    <3> QED BY <1>4, <2>4, <3>1
  <2>7. Queued' = x \o (<<g>> \o (tail \o post))
    <3>1. (x \o (<<g>> \o tail)) \o post = x \o (<<g>> \o (tail \o post))
      BY <1>1, <1>3, <2>4, <2>5, EntriesRegroup, SMTT(60)
    <3> QED BY <1>4, <2>3, <3>1
  <2> QED BY <1>3, <2>1, <2>3, <2>5, <2>6, <2>7 DEF g
<1>6. CASE ~(n < Len(pending) /\ IsCandidate(pending[n + 1]))
  BY <1>4, <1>6 DEF takeCandidatePrefix
<1> QED BY <1>5, <1>6

\* An accepted batch no longer waits.
LEMMA AcceptEffect ==
  ASSUME CaptureOrderInv, acceptBatch
  PROVE  Queued' \in Seq(EntryType) /\ Queued = inFlight \o Queued'
<1>1. inFlight \in Seq(EntryType) /\ pending \in Seq(EntryType) /\ postClearPending \in Seq(EntryType)
  BY QueuedTypes DEF CaptureOrderInv, TypeOK
<1>2. inFlight' = <<>> /\ UNCHANGED <<pending, postClearPending>> BY DEF acceptBatch
<1>3. Queued' = pending \o postClearPending BY <1>1, <1>2, EmptyConcat DEF Queued
<1>4. (inFlight \o pending) \o postClearPending = inFlight \o (pending \o postClearPending)
  BY <1>1, EntriesAssociate
<1>5. pending \o postClearPending \in Seq(EntryType)
  <2> HIDE DEF EntryType
  <2> QED BY <1>1
<1>6. Queued = (inFlight \o pending) \o postClearPending BY DEF Queued
<1> QED BY <1>3, <1>4, <1>5, <1>6, Zenon

\* A Clear that ends puts what waited behind it at the end of the queue.
LEMMA RejoinEffect ==
  ASSUME CaptureOrderInv, clearSucceeds \/ clearFails PROVE Queued' = Queued
<1>1. inFlight \in Seq(EntryType) /\ pending \in Seq(EntryType) /\ postClearPending \in Seq(EntryType)
  BY QueuedTypes DEF CaptureOrderInv, TypeOK
<1>2. /\ pending' = pending \o postClearPending /\ postClearPending' = <<>> /\ inFlight' = inFlight
  BY DEF clearSucceeds, clearFails, rejoinPostClearQueue
<1>3. Queued' = (inFlight \o (pending \o postClearPending)) \o <<>> BY <1>2 DEF Queued
<1>4. inFlight \o (pending \o postClearPending) \in Seq(EntryType) BY <1>1
<1> QED BY <1>1, <1>3, <1>4, EntriesAssociate, EmptyConcat, SMTT(60) DEF Queued

\* There is a receipt for every ordinal handed out.
LEMMA ReceiptDomain ==
  ASSUME CaptureOrderInv
  PROVE  /\ nextCaptureOrdinal \in Nat \ {0} /\ nextCaptureOrdinal - 1 \in Nat
         /\ DOMAIN receipt = 1 .. nextCaptureOrdinal - 1
         /\ \A o \in 1 .. nextCaptureOrdinal - 1 : receipt[o] \in Outcomes
PROOF BY DEF CaptureOrderInv, TypeOK, CountersTypeOK

\* Settling the first undecided ordinals makes them the last decided ones.
LEMMA SettledRange ==
  ASSUME CaptureOrderInv, NEW d \in Nat, NEW c \in Nat, Decided(d), d <= c,
         c <= nextCaptureOrdinal - 1, NEW outcome, Settle(d + 1 .. c, outcome)
  PROVE  /\ DOMAIN receipt' = 1 .. nextCaptureOrdinal - 1
         /\ \A o \in 1 .. d : receipt'[o] = receipt[o]
         /\ \A o \in d + 1 .. c : receipt'[o] = outcome
         /\ \A o \in c + 1 .. nextCaptureOrdinal - 1 : receipt'[o] = "open"
<1>1. /\ nextCaptureOrdinal \in Nat \ {0}
      /\ receipt' = [o \in 1 .. nextCaptureOrdinal - 1 |->
                       IF o \in d + 1 .. c THEN outcome ELSE receipt[o]]
  BY ReceiptDomain DEF Settle
<1> QED BY <1>1 DEF Decided

\* The leading barrier stands for the first undecided ordinals.
LEMMA SettleOrdinals ==
  ASSUME CaptureOrderInv, StagesAgree, EntriesTile, settleLeadingGapBarrier
  PROVE  \E d \in Nat, c \in Nat :
           /\ Decided(d) /\ d < c /\ c <= nextCaptureOrdinal - 1
           /\ Head(pending).first = d + 1 /\ Head(pending).latest = c
           /\ Tiles(Queued', c, nextCaptureOrdinal - 1)
           /\ DOMAIN receipt' = 1 .. nextCaptureOrdinal - 1
           /\ \A o \in 1 .. d : receipt'[o] = receipt[o]
           /\ \A o \in d + 1 .. c : receipt'[o] = "NOT_EVIDENCE"
           /\ \A o \in c + 1 .. nextCaptureOrdinal - 1 : receipt'[o] = "open"
<1> DEFINE e == Head(pending)
           z == nextCaptureOrdinal - 1
<1>1. e \in BarrierType /\ Queued' \in Seq(EntryType) /\ Queued = <<e>> \o Queued'
  BY SettleEffect
<1>2. z \in Nat BY ReceiptDomain
<1>3. PICK d \in Nat : Tiles(Queued, d, z) /\ Decided(d) BY DEF EntriesTile
<1>4. Settle(e.first .. e.latest, "NOT_EVIDENCE") BY DEF settleLeadingGapBarrier, SettledBy
<1> HIDE DEF e, z
<1>5. e \in EntryType /\ <<e>> \in Seq(EntryType) /\ Lowest(e) = e.first /\ Highest(e) = e.latest
  BY <1>1 DEF EntryType, Lowest, Highest, IsBarrier, BarrierType
<1>6. PICK c \in Nat : Tiles(<<e>>, d, c) /\ Tiles(Queued', c, z)
  <2>1. Tiles(<<e>> \o Queued', d, z) BY <1>1, <1>3
  <2> QED BY <1>1, <1>2, <1>5, <2>1, TilesSplit, Zenon
<1>7. Lowest(e) = d + 1 /\ Highest(e) = c /\ Lowest(e) <= Highest(e)
  BY <1>5, <1>6, TilesOne DEF Whole
<1>8. d < c /\ c <= z BY <1>7, <1>1, <1>2, <1>6, TilesCover
<1>9. Settle(d + 1 .. c, "NOT_EVIDENCE") BY <1>4, <1>5, <1>7
<1>10. /\ DOMAIN receipt' = 1 .. z
       /\ \A o \in 1 .. d : receipt'[o] = receipt[o]
       /\ \A o \in d + 1 .. c : receipt'[o] = "NOT_EVIDENCE"
       /\ \A o \in c + 1 .. z : receipt'[o] = "open"
  BY <1>3, <1>8, <1>9, SettledRange DEF z
<1> QED BY <1>3, <1>5, <1>6, <1>7, <1>8, <1>10 DEF e, z

\* The batch in flight stands for the first undecided ordinals, one each.
LEMMA AcceptOrdinals ==
  ASSUME CaptureOrderInv, EntriesTile, acceptBatch PROVE \E d \in Nat :
           /\ Decided(d) /\ d + Len(inFlight) <= nextCaptureOrdinal - 1
           /\ \A i \in 1 .. Len(inFlight) : inFlight[i].ordinal = d + i
           /\ Tiles(Queued', d + Len(inFlight), nextCaptureOrdinal - 1)
           /\ DOMAIN receipt' = 1 .. nextCaptureOrdinal - 1
           /\ \A o \in 1 .. d : receipt'[o] = receipt[o]
           /\ \A o \in d + 1 .. d + Len(inFlight) : receipt'[o] = "BECAME_EVIDENCE"
           /\ \A o \in d + Len(inFlight) + 1 .. nextCaptureOrdinal - 1 : receipt'[o] = "open"
<1> DEFINE n == Len(inFlight)
           z == nextCaptureOrdinal - 1
           S == {inFlight[i].ordinal : i \in 1 .. n}
<1>1. /\ inFlight \in Seq(CandidateType) /\ inFlight \in Seq(EntryType) /\ n \in Nat
      /\ Queued' \in Seq(EntryType) /\ Queued = inFlight \o Queued'
  BY QueuedTypes, AcceptEffect DEF CaptureOrderInv, TypeOK, QueuesTypeOK
<1>2. z \in Nat BY ReceiptDomain
<1>3. PICK d \in Nat : Tiles(Queued, d, z) /\ Decided(d) BY DEF EntriesTile
<1>4. Settle(S, "BECAME_EVIDENCE") BY DEF acceptBatch
<1>5. PICK c \in Nat : Tiles(inFlight, d, c) /\ Tiles(Queued', c, z)
  <2>1. Tiles(inFlight \o Queued', d, z) BY <1>1, <1>3
  <2> QED BY <1>1, <1>2, <2>1, TilesSplit, Zenon
<1>6. c = d + n /\ \A i \in 1 .. n : inFlight[i].ordinal = d + i BY <1>1, <1>5, TilesBatch
<1>7. c <= z BY <1>1, <1>2, <1>5, TilesCover
<1>8. S = d + 1 .. c
  <2>1. ASSUME NEW o \in d + 1 .. c PROVE o \in S
    <3>1. o - d \in 1 .. n /\ inFlight[o - d].ordinal = d + (o - d) /\ d + (o - d) = o
      BY <1>1, <1>6
    <3> QED BY <3>1
  <2>2. ASSUME NEW i \in 1 .. n PROVE inFlight[i].ordinal \in d + 1 .. c BY <1>1, <1>6
  <2> QED BY <2>1, <2>2
<1> HIDE DEF S, z
<1>9. /\ DOMAIN receipt' = 1 .. z
      /\ \A o \in 1 .. d : receipt'[o] = receipt[o]
      /\ \A o \in d + 1 .. c : receipt'[o] = "BECAME_EVIDENCE"
      /\ \A o \in c + 1 .. z : receipt'[o] = "open"
  BY <1>3, <1>7, SettledRange, <1>1, <1>4, <1>6, <1>8 DEF z
<1> QED BY <1>3, <1>5, <1>6, <1>7, <1>9 DEF z

\* The entries that wait stand for the undecided ordinals, whatever happens.
LEMMA EntriesStep ==
  ASSUME ~OfferBeforeCleanup, CaptureOrderInv, StagesAgree, EntriesTile, [Next]_vars
  PROVE  EntriesTile'
<1> USE DEF queueVars, retainedVars, gapVars, clearVars, closeVars, journalVars
<1> DEFINE Goal == EntriesTile'
           z == nextCaptureOrdinal - 1
<1>0. z \in Nat /\ nextCaptureOrdinal \in Nat /\ nextCaptureOrdinal = z + 1 /\ Queued \in Seq(EntryType)
  BY ReceiptDomain, QueuedTypes DEF CaptureOrderInv, TypeOK
<1>1. PICK d \in Nat : Tiles(Queued, d, z) /\ Decided(d) BY DEF EntriesTile
<1>2. d <= z BY <1>0, <1>1, TilesCover
<1>3. ASSUME Tiles(Queued', d, nextCaptureOrdinal),
             nextCaptureOrdinal' = nextCaptureOrdinal + 1, receipt' = Append(receipt, "open"),
             UNCHANGED gapVars
      PROVE  Goal
  <2>1. /\ \A o \in 1 .. z : receipt'[o] = receipt[o]
        /\ receipt'[z + 1] = "open"
    BY <1>0, <1>3 DEF CaptureOrderInv, TypeOK, CountersTypeOK, Outcomes
  <2>2. nextCaptureOrdinal' - 1 = nextCaptureOrdinal /\ nextCaptureOrdinal = z + 1 BY <1>0, <1>3
  <2>3. \A o \in 1 .. d : receipt'[o] # "open" BY <1>0, <1>1, <1>2, <2>1 DEF Decided
  <2>4. \A o \in d + 1 .. nextCaptureOrdinal' - 1 : receipt'[o] = "open"
    <3> SUFFICES ASSUME NEW o \in d + 1 .. nextCaptureOrdinal' - 1 PROVE receipt'[o] = "open"
      OBVIOUS
    <3>1. CASE o = z + 1 BY <2>1, <3>1
    <3>2. CASE o # z + 1 BY <1>0, <1>1, <1>2, <2>1, <2>2, <3>2 DEF Decided
    <3> QED BY <3>1, <3>2
  <2>5. Decided(d)' BY <1>1, <1>3, <2>3, <2>4 DEF Decided
  <2> QED BY <1>3, <2>2, <2>5 DEF EntriesTile
<1>4. ASSUME Tiles(Queued', d, z), UNCHANGED <<nextCaptureOrdinal, receipt>>,
             firstGap' \in {firstGap, NoGap}, latestGap' \in {latestGap, NoGap}
      PROVE  Goal
  BY <1>4, <1>1 DEF EntriesTile, Decided, NoGap
<1> HIDE DEF Goal, z
<1> SUFFICES Goal BY DEF Goal
<1>5. ASSUME NEW id \in EventIds, NEW b \in Sizes, offerCandidate(id, b) PROVE Goal
  <2> DEFINE e == Candidate(nextCaptureOrdinal, id, b)
  <2>1. e \in CandidateType /\ e \in EntryType /\ Queued' = Queued \o <<e>>
    BY <1>5, OfferEffect DEF EntryType
  <2>2. <<e>> \in Seq(EntryType) /\ Tiles(<<e>>, z, nextCaptureOrdinal)
    <3>1. Lowest(e) = z + 1 /\ Highest(e) = nextCaptureOrdinal /\ Whole(e)
      BY <1>0 DEF Candidate, Lowest, Highest, IsBarrier, Whole
    <3> HIDE DEF e
    <3> QED BY <1>0, <2>1, <3>1, TilesOne
  <2> HIDE DEF e
  <2>3. Tiles(Queued', d, nextCaptureOrdinal) BY <2>1, <1>0, <1>1, <2>2, TilesConcat
  <2>4. /\ nextCaptureOrdinal' = nextCaptureOrdinal + 1 /\ receipt' = Append(receipt, "open")
        /\ UNCHANGED gapVars
    BY <1>5 DEF offerCandidate
  <2> QED BY <1>3, <2>3, <2>4
<1>6. ASSUME NEW b \in Sizes, NEW dim \in Dimensions, refuseUnretainable(b, dim) PROVE Goal
  <2> DEFINE o == nextCaptureOrdinal
             g == GapBarrier(o, o, 1, dim)
  <2>1. /\ g \in BarrierType /\ g \in EntryType
        /\ \/ Queued' = Queued \o <<g>>
           \/ \E x \in Seq(EntryType), e \in BarrierType :
                Queued = x \o <<e>> /\ Queued' = x \o <<Extended(e, o)>>
    BY <1>6, RefuseEffect DEF EntryType
  <2>2. /\ nextCaptureOrdinal' = nextCaptureOrdinal + 1 /\ receipt' = Append(receipt, "open")
        /\ UNCHANGED gapVars
    BY <1>6 DEF refuseUnretainable
  <2>3. CASE Queued' = Queued \o <<g>>
    <3>1. <<g>> \in Seq(EntryType) /\ Tiles(<<g>>, z, o)
      <4>1. Lowest(g) = z + 1 /\ Highest(g) = o /\ Whole(g)
        BY <1>0 DEF GapBarrier, Lowest, Highest, IsBarrier, Whole
      <4> HIDE DEF g
      <4> QED BY <1>0, <2>1, <4>1, TilesOne
    <3> HIDE DEF g
    <3>2. Tiles(Queued \o <<g>>, d, o) BY <1>0, <1>1, <3>1, TilesConcat
    <3> QED BY <1>3, <2>2, <2>3, <3>2
  <2>4. ASSUME NEW x \in Seq(EntryType), NEW e \in BarrierType,
               Queued = x \o <<e>>, Queued' = x \o <<Extended(e, o)>>
        PROVE  Goal
    <3>1. /\ Extended(e, o) \in BarrierType /\ Lowest(Extended(e, o)) = Lowest(e)
          /\ Highest(Extended(e, o)) = o /\ IsBarrier(e) /\ e \in EntryType
          /\ Extended(e, o).count = e.count + 1
      BY <1>0, ExtendedBarrier DEF Extended, GapBarrier, IsBarrier, BarrierType, EntryType
    <3>2. <<e>> \in Seq(EntryType) BY <3>1
    <3>3. PICK c \in Nat : Tiles(x, d, c) /\ Tiles(<<e>>, c, z)
      <4>1. Tiles(x \o <<e>>, d, z) BY <1>1, <2>4
      <4> QED BY <1>0, <3>2, <4>1, TilesSplit, Zenon
    <3>4. Whole(e) /\ Lowest(e) = c + 1 /\ Highest(e) = z BY <1>0, <3>1, <3>3, TilesOne
    <3> DEFINE f == Extended(e, o)
    <3>5. f \in EntryType /\ Lowest(f) = c + 1 /\ Highest(f) = o /\ Whole(f)
      BY <1>0, <3>1, <3>4 DEF Whole, EntryType
    <3>6. Queued' = x \o <<f>> BY <2>4
    <3> HIDE DEF f
    <3>7. <<f>> \in Seq(EntryType) /\ Tiles(<<f>>, c, o) BY <1>0, <3>5, TilesOne
    <3>8. Tiles(x \o <<f>>, d, o) BY <1>0, <3>3, <3>7, TilesConcat
    <3> QED BY <1>3, <2>2, <3>6, <3>8
  <2> QED BY <2>1, <2>3, <2>4
<1>7. CASE settleLeadingGapBarrier
  <2>1. PICK a \in Nat, c \in Nat :
          /\ Decided(a) /\ a < c /\ c <= z
          /\ Head(pending).first = a + 1 /\ Head(pending).latest = c
          /\ Tiles(Queued', c, z)
          /\ \A o \in 1 .. a : receipt'[o] = receipt[o]
          /\ \A o \in a + 1 .. c : receipt'[o] = "NOT_EVIDENCE"
          /\ \A o \in c + 1 .. z : receipt'[o] = "open"
    BY <1>7, SettleOrdinals DEF z
  <2>2. /\ firstGap' \in {firstGap, AcceptanceGap(Head(pending).first)}
        /\ latestGap' = AcceptanceGap(Head(pending).latest)
        /\ nextCaptureOrdinal' = nextCaptureOrdinal
    BY <1>7 DEF settleLeadingGapBarrier
  <2>3. firstGap'.captureOrdinal <= c /\ latestGap'.captureOrdinal <= c
    BY <2>1, <2>2 DEF AcceptanceGap, Decided, CaptureOrderInv, TypeOK, CountersTypeOK, GapType
  <2>4. \A o \in 1 .. c : receipt'[o] # "open"
    <3> SUFFICES ASSUME NEW o \in 1 .. c PROVE receipt'[o] # "open" OBVIOUS
    <3>1. CASE o \in 1 .. a BY <2>1, <3>1 DEF Decided
    <3>2. CASE o \in a + 1 .. c BY <2>1, <3>2
    <3> QED BY <3>1, <3>2
  <2>5. Decided(c)' BY <2>1, <2>2, <2>3, <2>4 DEF Decided, z
  <2> QED BY <2>1, <2>2, <2>5 DEF Goal, EntriesTile, z
<1>8. ASSUME NEW n \in 0..MaxCaptured, takeCandidatePrefix(n) PROVE Goal
  <2>1. UNCHANGED <<nextCaptureOrdinal, receipt, gapVars>> BY <1>8 DEF takeCandidatePrefix
  <2>2. CASE Queued' = Queued BY <1>1, <1>4, <2>1, <2>2
  <2>3. ASSUME NEW x \in Seq(EntryType), NEW y \in Seq(EntryType), NEW e \in CandidateType,
               Queued = x \o (<<e>> \o y),
               Queued' = x \o (<<GapBarrier(e.ordinal, e.ordinal, 1, "EVENT_IDENTITY")>> \o y)
        PROVE  Goal
    <3> DEFINE g == GapBarrier(e.ordinal, e.ordinal, 1, "EVENT_IDENTITY")
    <3>1. /\ e \in EntryType /\ g \in EntryType
          /\ Lowest(g) = Lowest(e) /\ Highest(g) = Highest(e) /\ Whole(g)
      BY DEF CandidateType, GapBarrier, BarrierType, EntryType, Dimensions, Lowest, Highest,
         IsBarrier, Whole
    <3>2. Queued' = x \o (<<g>> \o y) BY <2>3
    <3> HIDE DEF g
    <3>3. /\ <<e>> \in Seq(EntryType) /\ <<g>> \in Seq(EntryType)
          /\ <<e>> \o y \in Seq(EntryType) /\ <<g>> \o y \in Seq(EntryType)
      BY <3>1
    <3>4. PICK p \in Nat : Tiles(x, d, p) /\ Tiles(<<e>> \o y, p, z)
      <4>1. Tiles(x \o (<<e>> \o y), d, z) BY <1>1, <2>3
      <4> QED BY <1>0, <3>3, <4>1, TilesSplit, Zenon
    <3>5. PICK r \in Nat : Tiles(<<e>>, p, r) /\ Tiles(y, r, z)
      BY <1>0, <3>3, <3>4, TilesSplit, Zenon
    <3>6. Tiles(<<g>>, p, r) BY <3>1, <3>5, TilesOne
    <3>7. Tiles(<<g>> \o y, p, z) BY <1>0, <3>3, <3>5, <3>6, TilesConcat, Zenon
    <3>8. Tiles(x \o (<<g>> \o y), d, z) BY <1>0, <3>3, <3>4, <3>7, TilesConcat, Zenon
    <3> QED BY <1>4, <2>1, <3>2, <3>8
  <2> QED BY <1>8, <2>2, <2>3, TakeEffect
<1>9. CASE acceptBatch
  <2>0. Len(inFlight) \in Nat BY DEF CaptureOrderInv, TypeOK, QueuesTypeOK
  <2>1. PICK a \in Nat, c \in Nat :
          /\ Decided(a) /\ a <= c /\ c <= z /\ Tiles(Queued', c, z)
          /\ \A o \in 1 .. a : receipt'[o] = receipt[o]
          /\ \A o \in a + 1 .. c : receipt'[o] = "BECAME_EVIDENCE"
          /\ \A o \in c + 1 .. z : receipt'[o] = "open"
    <3>1. PICK a \in Nat :
            /\ Decided(a) /\ a + Len(inFlight) <= z /\ Tiles(Queued', a + Len(inFlight), z)
            /\ \A o \in 1 .. a : receipt'[o] = receipt[o]
            /\ \A o \in a + 1 .. a + Len(inFlight) : receipt'[o] = "BECAME_EVIDENCE"
            /\ \A o \in a + Len(inFlight) + 1 .. z : receipt'[o] = "open"
      BY <1>9, AcceptOrdinals DEF z
    <3>2. a + Len(inFlight) \in Nat /\ a <= a + Len(inFlight) BY <2>0
    <3> QED BY <3>1, <3>2
  <2>2. UNCHANGED <<nextCaptureOrdinal, gapVars>> BY <1>9 DEF acceptBatch
  <2>3. firstGap'.captureOrdinal <= c /\ latestGap'.captureOrdinal <= c
    BY <2>1, <2>2 DEF Decided, CaptureOrderInv, TypeOK, CountersTypeOK, GapType
  <2>4. \A o \in 1 .. c : receipt'[o] # "open"
    <3> SUFFICES ASSUME NEW o \in 1 .. c PROVE receipt'[o] # "open" OBVIOUS
    <3>1. CASE o \in 1 .. a BY <2>1, <3>1 DEF Decided
    <3>2. CASE o \in a + 1 .. c BY <2>1, <3>2
    <3> QED BY <3>1, <3>2
  <2>5. Decided(c)' BY <2>1, <2>2, <2>3, <2>4 DEF Decided, z
  <2> QED BY <2>1, <2>2, <2>5 DEF Goal, EntriesTile, z
<1>10. CASE clearSucceeds \/ clearFails
  <2>1. /\ UNCHANGED <<nextCaptureOrdinal, receipt>>
        /\ firstGap' \in {firstGap, NoGap} /\ latestGap' \in {latestGap, NoGap}
    BY <1>10 DEF clearSucceeds, clearFails
  <2>2. Queued' = Queued BY <1>10, RejoinEffect
  <2> QED BY <1>1, <1>4, <2>1, <2>2
<1>11. CASE \/ refuseWithoutOrdinal \/ startProcessing \/ journalCommitFails
            \/ finishProcessing \/ clear \/ clearBegins \/ clearCleanup
            \/ close \/ closeAfterClear \/ closeBegins \/ closeEnds \/ UNCHANGED vars
  <2>1. UNCHANGED <<queueVars, nextCaptureOrdinal, receipt, gapVars>>
    BY <1>11 DEF refuseWithoutOrdinal, startProcessing, journalCommitFails, finishProcessing,
        clear, clearBegins, clearCleanup, close, closeAfterClear, closeBegins, closeEnds,
        UnchangedByClose, vars
  <2>2. Queued' = Queued BY <2>1 DEF Queued
  <2> QED BY <1>1, <1>4, <2>1, <2>2
<1> QED BY <1>5, <1>6, <1>7, <1>8, <1>9, <1>10, <1>11 DEF Next

\* The limits in force are those of one of the tiers.
LEMMA LimitsFacts ==
  /\ capacityTier \in Tiers /\ limits = Limits[capacityTier]
  /\ limits.maxRetainedCount \in Nat /\ limits.maxRetainedBytes \in Nat
  /\ limits.pendingStopBytes \in Nat
PROOF BY LimitsAssumption DEF limits, capacityTier, Tiers

\* What is admitted fits the bytes that may wait.
LEMMA AdmittedFits ==
  ASSUME NEW b \in Sizes, \A dim \in Dimensions : ~RefusedIn(b, dim), awaitingBytes \in Nat
  PROVE  awaitingBytes + b <= limits.pendingStopBytes
<1>1. b \in Nat BY LimitsAssumption
<1>2. ~(limits.maxRetainedCount < 1) BY DEF RefusedIn, Dimensions
<1>3. ~(b > limits.maxRetainedBytes) BY <1>1, <1>2, LimitsFacts DEF RefusedIn, Dimensions
<1>4. ~RefusedIn(b, "PENDING_BYTES") BY DEF Dimensions
<1>5. ~(awaitingBytes + b > limits.pendingStopBytes)
  BY <1>1, <1>2, <1>3, <1>4, LimitsFacts DEF RefusedIn
<1> QED BY <1>1, <1>5, LimitsFacts

\* What became Evidence is finite.
LEMMA AcceptedIsFinite ==
  ASSUME CaptureOrderInv PROVE IsFiniteSet(Accepted)
<1>1. Accepted \subseteq 1 .. nextCaptureOrdinal - 1 BY ReceiptDomain DEF Accepted
<1>2. IsFiniteSet(1 .. nextCaptureOrdinal - 1) BY ReceiptDomain, FS_Interval
<1> QED BY <1>1, <1>2, FS_Subset

\* An offered ordinal has not become Evidence.
LEMMA AcceptedAfterOffer ==
  ASSUME CaptureOrderInv, receipt' = Append(receipt, "open") PROVE Accepted' = Accepted
<1> DEFINE z == nextCaptureOrdinal - 1
<1>1. /\ DOMAIN receipt = 1 .. z /\ DOMAIN receipt' = 1 .. z + 1 /\ z \in Nat
      /\ \A o \in 1 .. z : receipt'[o] = receipt[o]
      /\ receipt'[z + 1] = "open"
  BY ReceiptDomain DEF CaptureOrderInv, TypeOK, CountersTypeOK, Outcomes
<1> HIDE DEF z
<1> QED BY <1>1 DEF Accepted

\* A settled barrier has not become Evidence.
LEMMA AcceptedAfterSettle ==
  ASSUME CaptureOrderInv, StagesAgree, EntriesTile, settleLeadingGapBarrier
  PROVE  Accepted' = Accepted
<1> DEFINE z == nextCaptureOrdinal - 1
<1>1. PICK d \in Nat, c \in Nat :
        /\ Decided(d) /\ d < c /\ c <= z
        /\ DOMAIN receipt' = 1 .. z
        /\ \A o \in 1 .. d : receipt'[o] = receipt[o]
        /\ \A o \in d + 1 .. c : receipt'[o] = "NOT_EVIDENCE"
        /\ \A o \in c + 1 .. z : receipt'[o] = "open"
  BY SettleOrdinals
<1>2. DOMAIN receipt = 1 .. z /\ z \in Nat /\ \A o \in d + 1 .. z : receipt[o] = "open"
  BY <1>1, ReceiptDomain DEF Decided
<1> HIDE DEF z
<1>3. ASSUME NEW o \in 1 .. z
      PROVE  receipt'[o] = "BECAME_EVIDENCE" <=> receipt[o] = "BECAME_EVIDENCE"
  <2>1. CASE o \in 1 .. d BY <1>1, <2>1
  <2>2. CASE o \in d + 1 .. c BY <1>1, <1>2, <2>2
  <2>3. CASE o \in c + 1 .. z BY <1>1, <1>2, <2>3
  <2> QED BY <1>1, <1>2, <2>1, <2>2, <2>3
<1> QED BY <1>1, <1>2, <1>3 DEF Accepted

\* An accepted batch has become Evidence, one ordinal for each candidate.
LEMMA AcceptedAfterAccept ==
  ASSUME CaptureOrderInv, EntriesTile, acceptBatch
  PROVE  Cardinality(Accepted') = Cardinality(Accepted) + Len(inFlight)
<1> DEFINE z == nextCaptureOrdinal - 1
           n == Len(inFlight)
<1>1. PICK d \in Nat :
        /\ Decided(d) /\ d + n <= z
        /\ DOMAIN receipt' = 1 .. z
        /\ \A o \in 1 .. d : receipt'[o] = receipt[o]
        /\ \A o \in d + 1 .. d + n : receipt'[o] = "BECAME_EVIDENCE"
        /\ \A o \in d + n + 1 .. z : receipt'[o] = "open"
  BY AcceptOrdinals
<1>2. /\ DOMAIN receipt = 1 .. z /\ z \in Nat /\ \A o \in d + 1 .. z : receipt[o] = "open"
      /\ n \in Nat
  BY <1>1, ReceiptDomain DEF Decided, CaptureOrderInv, TypeOK, QueuesTypeOK
<1> HIDE DEF z, n
<1>3. ASSUME NEW o \in 1 .. z PROVE receipt'[o] = "BECAME_EVIDENCE"
               <=> receipt[o] = "BECAME_EVIDENCE" \/ o \in d + 1 .. d + n
  <2>1. CASE o \in 1 .. d BY <1>1, <2>1
  <2>2. CASE o \in d + 1 .. d + n BY <1>1, <1>2, <2>2
  <2>3. CASE o \in d + n + 1 .. z BY <1>1, <1>2, <2>3
  <2> QED BY <1>1, <1>2, <2>1, <2>2, <2>3
<1>4. Accepted' = Accepted \cup (d + 1 .. d + n) BY <1>1, <1>2, <1>3 DEF Accepted
<1>5. Accepted \cap (d + 1 .. d + n) = {} BY <1>1, <1>2 DEF Accepted
<1>6. IsFiniteSet(d + 1 .. d + n) /\ Cardinality(d + 1 .. d + n) = n BY <1>2, FS_Interval
<1>7. Cardinality(Accepted \cup (d + 1 .. d + n)) = Cardinality(Accepted) + n - 0
  <2> DEFINE B == d + 1 .. d + n
  <2>1. IsFiniteSet(Accepted) /\ IsFiniteSet(B) /\ Cardinality(B) = n /\ Accepted \cap B = {}
    BY <1>5, <1>6, AcceptedIsFinite
  <2> HIDE DEF B
  <2>2. Cardinality(Accepted \cup B)
          = Cardinality(Accepted) + Cardinality(B) - Cardinality(Accepted \cap B)
    BY <2>1, FS_Union
  <2> QED BY <2>1, <2>2, FS_EmptySet DEF B
<1>8. Cardinality(Accepted) \in Nat BY AcceptedIsFinite, FS_CardinalityType
<1> QED BY <1>2, <1>4, <1>7, <1>8 DEF n

\* The counters agree with what waits and with the receipts.
LEMMA AgreementStep ==
  ASSUME ~OfferBeforeCleanup, CaptureOrderInv, StagesAgree, EntriesTile, CountersAgree, [Next]_vars
  PROVE  CountersAgree'
<1> USE DEF queueVars, retainedVars, gapVars, clearVars, closeVars, journalVars
<1> DEFINE Goal == CountersAgree'
           cc == CandidateCount(Queued)
           cb == CandidateBytes(Queued)
<1>0. /\ Queued \in Seq(EntryType) /\ cc \in Nat /\ cb \in Nat
      /\ awaitingCount = cc /\ awaitingBytes = cb
      /\ awaitingCount \in Nat /\ awaitingBytes \in Nat
      /\ nextCaptureOrdinal \in Nat /\ accepted \in Nat /\ notAccepted \in Nat
      /\ nextEvidenceSequence = accepted + 1 /\ committedEvidenceBoundary = accepted
      /\ accepted = Cardinality(Accepted)
  BY QueuedTypes, CandidateSums DEF CaptureOrderInv, TypeOK, CountersTypeOK, CountersAgree
<1>a. nextCaptureOrdinal - 1 - accepted - awaitingCount <= notAccepted BY DEF CountersAgree
<1>b. /\ nextCaptureOrdinal \in Nat /\ accepted \in Nat /\ notAccepted \in Nat
      /\ awaitingCount \in Nat
  BY <1>0
<1>1. PICK t \in Tiers : awaitingBytes <= Limits[t].pendingStopBytes BY DEF CountersAgree
<1>2. ASSUME NEW k \in Nat, NEW m \in Nat, k <= cb,
             CandidateBytes(Queued') = cb - k, awaitingBytes' = awaitingBytes - k,
             CandidateCount(Queued') = cc - m, awaitingCount' = awaitingCount - m,
             notAccepted' = notAccepted + m,
             UNCHANGED <<nextCaptureOrdinal, nextEvidenceSequence, committedEvidenceBoundary,
                         accepted>>,
             Accepted' = Accepted
      PROVE  Goal
  <2>1. awaitingBytes' <= Limits[t].pendingStopBytes
    BY <1>0, <1>1, <1>2, LimitsAssumption, SMTT(60)
  <2>2. nextCaptureOrdinal' - 1 - accepted' - awaitingCount' <= notAccepted' BY <1>a, <1>b, <1>2
  <2> HIDE DEF cc, cb
  <2>3. awaitingCount' = CandidateCount(Queued') /\ awaitingBytes' = CandidateBytes(Queued')
    BY <1>0, <1>2
  <2> QED BY <1>0, <1>2, <2>1, <2>2, <2>3 DEF CountersAgree
<1>3. ASSUME CandidateBytes(Queued') = cb, CandidateCount(Queued') = cc,
             nextCaptureOrdinal' = nextCaptureOrdinal + 1, notAccepted' = notAccepted + 1,
             UNCHANGED <<awaitingCount, awaitingBytes, nextEvidenceSequence,
                         committedEvidenceBoundary, accepted>>,
             Accepted' = Accepted
      PROVE  Goal
  <2>1. nextCaptureOrdinal' - 1 - accepted' - awaitingCount' <= notAccepted' BY <1>a, <1>b, <1>3
  <2> QED BY <1>0, <1>1, <1>3, <2>1 DEF CountersAgree
<1> HIDE DEF Goal
<1> SUFFICES Goal BY DEF Goal
<1>4. ASSUME NEW id \in EventIds, NEW b \in Sizes, offerCandidate(id, b) PROVE Goal
  <2> DEFINE e == Candidate(nextCaptureOrdinal, id, b)
  <2>1. e \in CandidateType /\ e \in EntryType /\ Queued' = Queued \o <<e>>
    BY <1>4, OfferEffect DEF EntryType
  <2>2. IsCandidate(e) /\ e.bytes = b /\ b \in Nat
    BY LimitsAssumption DEF Candidate, IsCandidate
  <2> HIDE DEF e
  <2>3. /\ <<e>> \in Seq(EntryType) /\ CandidateCount(<<e>>) = 1 /\ CandidateBytes(<<e>>) = b
    BY <2>1, <2>2, OneEntry
  <2>4. CandidateCount(Queued') = cc + 1 /\ CandidateBytes(Queued') = cb + b
    BY <2>1, <1>0, <2>3, CandidateSums
  <2>5. /\ awaitingCount' = awaitingCount + 1 /\ awaitingBytes' = awaitingBytes + b
        /\ nextCaptureOrdinal' = nextCaptureOrdinal + 1 /\ receipt' = Append(receipt, "open")
        /\ UNCHANGED <<nextEvidenceSequence, committedEvidenceBoundary, accepted, notAccepted>>
        /\ \A dim \in Dimensions : ~RefusedIn(b, dim)
    BY <1>4 DEF offerCandidate
  <2>6. Accepted' = Accepted BY <2>5, AcceptedAfterOffer
  <2>7. capacityTier \in Tiers /\ awaitingBytes' <= Limits[capacityTier].pendingStopBytes
    BY <1>0, <2>5, AdmittedFits, LimitsFacts
  <2>8. nextCaptureOrdinal' - 1 - accepted' - awaitingCount' <= notAccepted' BY <1>0, <1>a, <2>5
  <2> HIDE DEF cc, cb
  <2>9. \E u \in Tiers : awaitingBytes' <= Limits[u].pendingStopBytes BY <2>7
  <2> QED BY <1>0, <2>4, <2>5, <2>6, <2>8, <2>9 DEF Goal, CountersAgree
<1>5. ASSUME NEW b \in Sizes, NEW dim \in Dimensions, refuseUnretainable(b, dim) PROVE Goal
  <2> DEFINE o == nextCaptureOrdinal
             g == GapBarrier(o, o, 1, dim)
  <2>1. /\ g \in BarrierType
        /\ \/ Queued' = Queued \o <<g>>
           \/ \E x \in Seq(EntryType), e \in BarrierType :
                Queued = x \o <<e>> /\ Queued' = x \o <<Extended(e, o)>>
    BY <1>5, RefuseEffect
  <2>2. /\ nextCaptureOrdinal' = nextCaptureOrdinal + 1 /\ notAccepted' = notAccepted + 1
        /\ receipt' = Append(receipt, "open")
        /\ UNCHANGED <<awaitingCount, awaitingBytes, nextEvidenceSequence,
                       committedEvidenceBoundary, accepted>>
    BY <1>5 DEF refuseUnretainable
  <2>3. Accepted' = Accepted BY <2>2, AcceptedAfterOffer
  <2>4. ASSUME NEW e \in BarrierType
        PROVE  /\ <<e>> \in Seq(EntryType) /\ CandidateCount(<<e>>) = 0
               /\ CandidateBytes(<<e>>) = 0
    BY OneEntry DEF EntryType, BarrierType, IsCandidate
  <2>5. CandidateCount(Queued') = cc /\ CandidateBytes(Queued') = cb
    <3>1. CASE Queued' = Queued \o <<g>>
      <4>1. /\ <<g>> \in Seq(EntryType) /\ CandidateCount(<<g>>) = 0
            /\ CandidateBytes(<<g>>) = 0
        BY <2>1, <2>4
      <4> HIDE DEF g
      <4>2. /\ CandidateCount(Queued \o <<g>>) = cc + 0
            /\ CandidateBytes(Queued \o <<g>>) = cb + 0
        BY <1>0, <4>1, CandidateSums
      <4> QED BY <1>0, <3>1, <4>2
    <3>2. ASSUME NEW x \in Seq(EntryType), NEW e \in BarrierType,
                 Queued = x \o <<e>>, Queued' = x \o <<Extended(e, o)>>
          PROVE  CandidateCount(Queued') = cc /\ CandidateBytes(Queued') = cb
      <4> DEFINE f == Extended(e, o)
      <4>1. f \in BarrierType BY <1>0, ExtendedBarrier
      <4>2. Queued' = x \o <<f>> BY <3>2
      <4> HIDE DEF f
      <4>3. /\ CandidateCount(x \o <<f>>) = CandidateCount(x \o <<e>>)
            /\ CandidateBytes(x \o <<f>>) = CandidateBytes(x \o <<e>>)
        <5>1. /\ <<f>> \in Seq(EntryType) /\ CandidateCount(<<f>>) = 0
              /\ CandidateBytes(<<f>>) = 0
          BY <2>4, <4>1
        <5>2. /\ <<e>> \in Seq(EntryType) /\ CandidateCount(<<e>>) = 0
              /\ CandidateBytes(<<e>>) = 0
          BY <2>4
        <5>3. /\ CandidateCount(x \o <<f>>) = CandidateCount(x) + CandidateCount(<<f>>)
              /\ CandidateBytes(x \o <<f>>) = CandidateBytes(x) + CandidateBytes(<<f>>)
          BY <5>1, CandidateSums
        <5>4. /\ CandidateCount(x \o <<e>>) = CandidateCount(x) + CandidateCount(<<e>>)
              /\ CandidateBytes(x \o <<e>>) = CandidateBytes(x) + CandidateBytes(<<e>>)
          BY <5>2, CandidateSums
        <5> QED BY <5>1, <5>2, <5>3, <5>4
      <4> QED BY <3>2, <4>2, <4>3
    <3> QED BY <2>1, <3>1, <3>2
  <2> QED BY <1>3, <2>2, <2>3, <2>5
<1>6. CASE settleLeadingGapBarrier
  <2> DEFINE e == Head(pending)
  <2>1. e \in EntryType /\ ~IsCandidate(e) /\ Queued' \in Seq(EntryType) /\ Queued = <<e>> \o Queued'
    BY <1>6, SettleEffect DEF EntryType, BarrierType, IsCandidate
  <2> HIDE DEF e
  <2>2. /\ <<e>> \in Seq(EntryType) /\ CandidateCount(<<e>>) = 0
        /\ CandidateBytes(<<e>>) = 0
    BY <2>1, OneEntry
  <2>3. cc = 0 + CandidateCount(Queued') /\ cb = 0 + CandidateBytes(Queued')
    BY <2>1, <2>2, CandidateSums
  <2>4. CandidateCount(Queued') = cc - 0 /\ CandidateBytes(Queued') = cb - 0
    BY <2>3, <2>1, CandidateSums
  <2>5. UNCHANGED <<nextCaptureOrdinal, nextEvidenceSequence, committedEvidenceBoundary,
                    awaitingCount, awaitingBytes, accepted, notAccepted>>
    BY <1>6 DEF settleLeadingGapBarrier
  <2>6. Accepted' = Accepted BY <1>6, AcceptedAfterSettle
  <2>7. /\ awaitingBytes' = awaitingBytes - 0 /\ awaitingCount' = awaitingCount - 0
        /\ notAccepted' = notAccepted + 0
    BY <1>0, <2>5
  <2> QED BY <1>0, <1>2, <2>4, <2>5, <2>6, <2>7
<1>7. ASSUME NEW n \in 0..MaxCaptured, takeCandidatePrefix(n) PROVE Goal
  <2>1. UNCHANGED <<nextCaptureOrdinal, nextEvidenceSequence, committedEvidenceBoundary,
                    accepted, receipt>>
    BY <1>7 DEF takeCandidatePrefix
  <2>2. Accepted' = Accepted BY <2>1 DEF Accepted
  <2>3. CASE Queued' = Queued /\ UNCHANGED <<awaitingCount, awaitingBytes, notAccepted>>
    BY <1>0, <1>2, <2>1, <2>2, <2>3
  <2>4. ASSUME NEW x \in Seq(EntryType), NEW y \in Seq(EntryType), NEW e \in CandidateType,
               Queued = x \o (<<e>> \o y),
               Queued' = x \o (<<GapBarrier(e.ordinal, e.ordinal, 1, "EVENT_IDENTITY")>> \o y),
               awaitingCount' = awaitingCount - 1, awaitingBytes' = awaitingBytes - e.bytes,
               notAccepted' = notAccepted + 1
        PROVE  Goal
    <3> DEFINE g == GapBarrier(e.ordinal, e.ordinal, 1, "EVENT_IDENTITY")
    <3>1. /\ e \in EntryType /\ g \in EntryType /\ IsCandidate(e) /\ ~IsCandidate(g)
          /\ e.bytes \in Nat
      BY LimitsAssumption DEF CandidateType, GapBarrier, BarrierType, EntryType, Dimensions,
         IsCandidate
    <3>2. Queued' = x \o (<<g>> \o y) BY <2>4
    <3> HIDE DEF g
    <3>3. /\ <<e>> \in Seq(EntryType) /\ <<g>> \in Seq(EntryType)
          /\ CandidateCount(<<e>>) = 1 /\ CandidateBytes(<<e>>) = e.bytes
          /\ CandidateCount(<<g>>) = 0 /\ CandidateBytes(<<g>>) = 0
      BY <3>1, OneEntry
    <3>4. ASSUME NEW s \in Seq(EntryType)
          PROVE  /\ CandidateCount(x \o (s \o y))
                      = CandidateCount(x) + (CandidateCount(s) + CandidateCount(y))
                 /\ CandidateBytes(x \o (s \o y))
                      = CandidateBytes(x) + (CandidateBytes(s) + CandidateBytes(y))
      <4>1. s \o y \in Seq(EntryType) OBVIOUS
      <4> QED BY <4>1, CandidateSums, ZenonT(60)
    <3>5. /\ CandidateCount(x) \in Nat /\ CandidateBytes(x) \in Nat
          /\ CandidateCount(y) \in Nat /\ CandidateBytes(y) \in Nat
      BY CandidateSums
    <3>6. /\ cc = CandidateCount(x) + (1 + CandidateCount(y))
          /\ cb = CandidateBytes(x) + (e.bytes + CandidateBytes(y))
      BY <2>4, <3>3, <3>4
    <3>7. /\ CandidateCount(Queued') = CandidateCount(x) + (0 + CandidateCount(y))
          /\ CandidateBytes(Queued') = CandidateBytes(x) + (0 + CandidateBytes(y))
      BY <3>2, <3>3, <3>4
    <3>8. /\ CandidateCount(Queued') = cc - 1 /\ CandidateBytes(Queued') = cb - e.bytes
          /\ e.bytes <= cb
      BY <3>1, <3>5, <3>6, <3>7, SMTT(60)
    <3> HIDE DEF cc, cb
    <3> QED BY <1>2, <2>1, <2>2, <2>4, <3>1, <3>8
  <2> QED BY <1>7, <2>3, <2>4, TakeEffect
<1>8. CASE acceptBatch
  <2> DEFINE n == Len(inFlight)
  <2>1. /\ inFlight \in Seq(CandidateType) /\ inFlight \in Seq(EntryType) /\ n \in Nat
        /\ Queued' \in Seq(EntryType) /\ Queued = inFlight \o Queued'
    BY <1>8, QueuedTypes, AcceptEffect DEF CaptureOrderInv, TypeOK, QueuesTypeOK
  <2>2. CandidateCount(inFlight) = n /\ CandidateBytes(inFlight) = BytesOf(inFlight)
    BY <2>1, BatchSums
  <2>3. /\ cc = n + CandidateCount(Queued') /\ CandidateCount(Queued') \in Nat
        /\ cb = BytesOf(inFlight) + CandidateBytes(Queued') /\ CandidateBytes(Queued') \in Nat
        /\ BytesOf(inFlight) \in Nat
    BY <2>1, <2>2, CandidateSums
  <2>4. /\ awaitingCount' = awaitingCount - n /\ awaitingBytes' = awaitingBytes - BytesOf(inFlight)
        /\ accepted' = accepted + n /\ nextEvidenceSequence' = nextEvidenceSequence + n
        /\ committedEvidenceBoundary' = nextEvidenceSequence + n - 1
        /\ UNCHANGED <<nextCaptureOrdinal, notAccepted>>
    BY <1>8 DEF acceptBatch
  <2>5. Cardinality(Accepted') = Cardinality(Accepted) + n BY <1>8, AcceptedAfterAccept
  <2> HIDE DEF n
  <2>6. awaitingBytes' <= Limits[t].pendingStopBytes
    BY <1>0, <1>1, <2>3, <2>4, LimitsAssumption, SMTT(60)
  <2>7. nextCaptureOrdinal' - 1 - accepted' - awaitingCount' <= notAccepted'
    BY <1>a, <1>b, <2>1, <2>4
  <2>8. /\ awaitingCount' = CandidateCount(Queued') /\ awaitingBytes' = CandidateBytes(Queued')
        /\ accepted' = Cardinality(Accepted')
        /\ nextEvidenceSequence' = accepted' + 1 /\ committedEvidenceBoundary' = accepted'
    <3>1. awaitingCount' = CandidateCount(Queued') /\ awaitingBytes' = CandidateBytes(Queued')
      <4> HIDE DEF cc, cb
      <4>1. /\ awaitingCount = n + CandidateCount(Queued')
            /\ awaitingBytes = BytesOf(inFlight) + CandidateBytes(Queued')
        BY <1>0, <2>3
      <4>2. /\ awaitingCount' = awaitingCount - n
            /\ awaitingBytes' = awaitingBytes - BytesOf(inFlight)
        BY <2>4
      <4> QED BY <2>1, <2>3, <4>1, <4>2, SMTT(60)
    <3>2. accepted' = Cardinality(Accepted') BY <1>0, <2>4, <2>5
    <3>3. nextEvidenceSequence' = accepted' + 1 /\ committedEvidenceBoundary' = accepted'
      <4>1. nextEvidenceSequence = accepted + 1 BY <1>0
      <4>2. /\ accepted' = accepted + n /\ nextEvidenceSequence' = nextEvidenceSequence + n
            /\ committedEvidenceBoundary' = nextEvidenceSequence + n - 1
        BY <2>4
      <4> QED BY <1>b, <2>1, <4>1, <4>2
    <3> QED BY <3>1, <3>2, <3>3
  <2> QED BY <2>6, <2>7, <2>8 DEF Goal, CountersAgree
<1>9. CASE clearSucceeds \/ clearFails
  <2>1. UNCHANGED <<nextCaptureOrdinal, nextEvidenceSequence, committedEvidenceBoundary,
                    awaitingCount, awaitingBytes, accepted, notAccepted, receipt>>
    BY <1>9 DEF clearSucceeds, clearFails
  <2>2. Queued' = Queued BY <1>9, RejoinEffect
  <2> QED BY <2>1, <2>2 DEF Goal, CountersAgree, Accepted
<1>10. CASE refuseWithoutOrdinal
  <2>1. UNCHANGED <<queueVars, nextCaptureOrdinal, nextEvidenceSequence,
                    committedEvidenceBoundary, awaitingCount, awaitingBytes, accepted, receipt>>
        /\ notAccepted' = notAccepted + 1
    BY <1>10 DEF refuseWithoutOrdinal
  <2>2. Queued' = Queued /\ Accepted' = Accepted BY <2>1 DEF Queued, Accepted
  <2>3. nextCaptureOrdinal' - 1 - accepted' - awaitingCount' <= notAccepted' BY <1>a, <1>b, <2>1
  <2> HIDE DEF cc, cb
  <2> QED BY <1>0, <1>1, <2>1, <2>2, <2>3 DEF Goal, CountersAgree
<1>11. CASE \/ startProcessing \/ journalCommitFails
            \/ finishProcessing \/ clear \/ clearBegins \/ clearCleanup
            \/ close \/ closeAfterClear \/ closeBegins \/ closeEnds \/ UNCHANGED vars
  <2>1. UNCHANGED <<queueVars, nextCaptureOrdinal, nextEvidenceSequence,
                    committedEvidenceBoundary, awaitingCount, awaitingBytes, accepted,
                    notAccepted, receipt>>
    BY <1>11 DEF startProcessing, journalCommitFails, finishProcessing, clear, clearBegins,
        clearCleanup, close, closeAfterClear, closeBegins, closeEnds, UnchangedByClose, vars
  <2>2. Queued' = Queued BY <2>1 DEF Queued
  <2> QED BY <2>1, <2>2 DEF Goal, CountersAgree, Accepted
<1> QED BY <1>4, <1>5, <1>6, <1>7, <1>8, <1>9, <1>10, <1>11 DEF Next

\* The gaps that are reported stay where they belong: what is decided later
\* comes after them, and a new gap is placed after all Evidence there is.
LEMMA GapStep ==
  ASSUME ~OfferBeforeCleanup, CaptureOrderInv, StagesAgree, EntriesTile, CountersAgree,
         GapPlacement, [Next]_vars
  PROVE  GapPlacement'
<1> USE DEF queueVars, retainedVars, gapVars, clearVars, closeVars, journalVars
<1> DEFINE Goal == GapPlacement'
           z == nextCaptureOrdinal - 1
<1>0. /\ z \in Nat /\ DOMAIN receipt = 1 .. z
      /\ firstGap \in GapType /\ latestGap \in GapType
      /\ firstGap.captureOrdinal \in Nat /\ latestGap.captureOrdinal \in Nat
  BY ReceiptDomain DEF CaptureOrderInv, TypeOK, CountersTypeOK, GapType
<1>1. PICK d \in Nat : Tiles(Queued, d, z) /\ Decided(d) BY DEF EntriesTile
<1>2. d <= z BY <1>0, <1>1, TilesCover, QueuedTypes DEF CaptureOrderInv, TypeOK
<1> HIDE DEF z
\* A gap that was placed, while the decided receipts stay as they are.
<1>3. ASSUME NEW gap \in {firstGap, latestGap} \ {NoGap}, NEW c \in Nat, Decided(c),
             \A o \in 1 .. c : receipt'[o] = receipt[o]
      PROVE  /\ gap.interval = interval
             /\ gap.afterEvidence =
                  Cardinality({o \in 1 .. (gap.captureOrdinal - 1) : receipt'[o] = "BECAME_EVIDENCE"})
  <2>1. gap.captureOrdinal \in Nat /\ gap.captureOrdinal <= c BY <1>0, <1>3 DEF Decided
  <2>2. \A o \in 1 .. (gap.captureOrdinal - 1) : receipt'[o] = receipt[o] BY <1>3, <2>1
  <2>3. {o \in 1 .. (gap.captureOrdinal - 1) : receipt'[o] = "BECAME_EVIDENCE"}
          = {o \in 1 .. (gap.captureOrdinal - 1) : receipt[o] = "BECAME_EVIDENCE"}
    BY <2>2
  <2> QED BY <1>3, <2>3 DEF GapPlacement
<1>4. ASSUME NEW c \in Nat, Decided(c), \A o \in 1 .. c : receipt'[o] = receipt[o],
             UNCHANGED <<gapVars, interval>>
      PROVE  Goal
  BY <1>3, <1>4 DEF GapPlacement
<1> HIDE DEF Goal
<1> SUFFICES Goal BY DEF Goal
<1>5. ASSUME receipt' = Append(receipt, "open"), UNCHANGED <<gapVars, interval>> PROVE Goal
  BY <1>0, <1>1, <1>2, <1>4, <1>5 DEF CaptureOrderInv, TypeOK, CountersTypeOK
<1>6. ASSUME NEW id \in EventIds, NEW b \in Sizes, offerCandidate(id, b) PROVE Goal
  BY <1>5, <1>6 DEF offerCandidate
<1>7. ASSUME NEW b \in Sizes, NEW dim \in Dimensions, refuseUnretainable(b, dim) PROVE Goal
  BY <1>5, <1>7 DEF refuseUnretainable
<1>8. CASE settleLeadingGapBarrier
  <2>1. PICK b \in Nat, c \in Nat :
          /\ Decided(b) /\ b < c /\ c <= z
          /\ Head(pending).first = b + 1 /\ Head(pending).latest = c
          /\ \A o \in 1 .. b : receipt'[o] = receipt[o]
          /\ \A o \in b + 1 .. c : receipt'[o] = "NOT_EVIDENCE"
    BY <1>8, SettleOrdinals DEF z
  <2>2. /\ firstGap' = firstGap \/ firstGap' = AcceptanceGap(b + 1)
        /\ latestGap' = AcceptanceGap(c)
        /\ firstGap = NoGap => firstGap' = AcceptanceGap(b + 1)
        /\ interval' = interval
    BY <1>8, <2>1 DEF settleLeadingGapBarrier
  <2>3. ASSUME NEW o \in 1 .. z, receipt[o] = "BECAME_EVIDENCE" PROVE o \in 1 .. b
    BY <1>0, <2>1, <2>3 DEF Decided, z
  <2>4. ASSUME NEW o \in Nat, b < o, o <= c
        PROVE  {p \in 1 .. (o - 1) : receipt'[p] = "BECAME_EVIDENCE"} = Accepted
    <3>1. ASSUME NEW p \in 1 .. (o - 1)
          PROVE  receipt'[p] = "BECAME_EVIDENCE" <=> p \in Accepted
      <4>1. CASE p \in 1 .. b BY <1>0, <2>1, <4>1 DEF Accepted
      <4>2. CASE p \in b + 1 .. c BY <1>0, <2>1, <2>3, <4>2 DEF Accepted
      <4> QED BY <2>1, <2>4, <4>1, <4>2
    <3>2. Accepted \subseteq 1 .. (o - 1) BY <1>0, <2>1, <2>3, <2>4 DEF Accepted
    <3> QED BY <3>1, <3>2
  <2>5. ASSUME NEW o \in Nat, b < o, o <= c PROVE LET gap == AcceptanceGap(o)
               IN  /\ gap.interval = interval
                   /\ gap.afterEvidence =
                        Cardinality({p \in 1 .. (gap.captureOrdinal - 1) :
                                       receipt'[p] = "BECAME_EVIDENCE"})
    <3>1. committedEvidenceBoundary = Cardinality(Accepted) BY DEF CountersAgree
    <3>2. {p \in 1 .. (o - 1) : receipt'[p] = "BECAME_EVIDENCE"} = Accepted BY <2>4, <2>5
    <3> QED BY <3>1, <3>2 DEF AcceptanceGap
  <2>6. b + 1 \in Nat /\ b < b + 1 /\ b + 1 <= c BY <2>1
  <2>7. ASSUME NEW gap \in {firstGap', latestGap'} \ {NoGap}
        PROVE  /\ gap.interval = interval'
               /\ gap.afterEvidence =
                    Cardinality({o \in 1 .. (gap.captureOrdinal - 1) : receipt'[o] = "BECAME_EVIDENCE"})
    <3>1. CASE gap = AcceptanceGap(c) BY <2>1, <2>2, <2>5, <3>1
    <3>2. CASE gap = AcceptanceGap(b + 1) BY <2>2, <2>5, <2>6, <3>2
    <3>3. CASE gap = firstGap BY <1>3, <2>1, <2>2, <2>7, <3>3
    <3> QED BY <2>2, <2>7, <3>1, <3>2, <3>3
  <2> QED BY <2>7 DEF Goal, GapPlacement
<1>9. CASE acceptBatch
  <2>1. PICK b \in Nat : Decided(b) /\ \A o \in 1 .. b : receipt'[o] = receipt[o]
    BY <1>9, AcceptOrdinals
  <2>2. UNCHANGED <<gapVars, interval>> BY <1>9 DEF acceptBatch
  <2> QED BY <1>4, <2>1, <2>2
<1>10. CASE clearSucceeds BY <1>10 DEF Goal, GapPlacement, clearSucceeds
<1>11. ASSUME NEW n \in 0..MaxCaptured, takeCandidatePrefix(n) PROVE Goal
  BY <1>1, <1>4, <1>11 DEF takeCandidatePrefix
<1>12. CASE \/ refuseWithoutOrdinal \/ startProcessing \/ journalCommitFails
            \/ finishProcessing \/ clear \/ clearBegins \/ clearFails \/ clearCleanup
            \/ close \/ closeAfterClear \/ closeBegins \/ closeEnds \/ UNCHANGED vars
  BY <1>1, <1>4, <1>12 DEF refuseWithoutOrdinal, startProcessing, journalCommitFails,
     finishProcessing, clear, clearBegins, clearFails, clearCleanup, close, closeAfterClear,
     closeBegins, closeEnds, UnchangedByClose, vars
<1> QED BY <1>6, <1>7, <1>8, <1>9, <1>10, <1>11, <1>12 DEF Next

\* What a prefix trim removes meets the target, or is everything.
LEMMA TrimMeetsTarget ==
  ASSUME NEW s, NEW count, NEW total, NEW target, NEW k,
         IsPrefixTrim(s, count, total, target, k)
  PROVE  \/ count - k <= target.count /\ total - BytesOf(SubSeq(s, 1, k)) <= target.bytes
         \/ k = Len(s)
PROOF BY DEF IsPrefixTrim

\* An accepted batch extends the tail at its end, the retention advance drops
\* its oldest part; index, sums and bounds go with it.
LEMMA AcceptedTail ==
  ASSUME CaptureOrderInv, Identities, Retention, acceptBatch PROVE Identities' /\ Retention'
<1> DEFINE c == Len(committed)
           n == Len(inFlight)
           fresh == EvidenceOf(inFlight)
           all == committed \o fresh
           bytes == retainedBytes + BytesOf(inFlight)
           base == nextEvidenceSequence - 1 - c
<1>1. /\ c \in Nat /\ n \in Nat /\ base \in Int /\ nextEvidenceSequence \in Nat
      /\ committed \in Seq(EvidenceType) /\ inFlight \in Seq(CandidateType)
      /\ fresh \in Seq(EvidenceType) /\ Len(fresh) = n
      /\ DOMAIN committed = 1 .. c /\ DOMAIN inFlight = 1 .. n
  BY EvidenceOfBatch DEF CaptureOrderInv, TypeOK, QueuesTypeOK, CountersTypeOK
<1>2. ASSUME NEW i \in 1 .. n
      PROVE  /\ fresh[i].sequence = nextEvidenceSequence + i - 1 /\ fresh[i].interval = interval
             /\ fresh[i].eventId = inFlight[i].eventId /\ fresh[i].bytes = inFlight[i].bytes
  BY DEF EvidenceOf
<1>3. DOMAIN fresh = 1 .. n BY <1>1
<1> HIDE DEF fresh, c, n
<1>4. /\ IdsOf(fresh) = IdsOf(inFlight) /\ BytesOf(fresh) = BytesOf(inFlight)
      /\ DistinctIds(fresh)
  <2>1. IdsOf(fresh) = IdsOf(inFlight)
    <3>1. \A i \in 1 .. n : fresh[i].eventId = inFlight[i].eventId BY <1>2
    <3>2. ASSUME NEW x \in IdsOf(fresh) PROVE x \in IdsOf(inFlight)
      <4>1. PICK i \in 1 .. n : x = fresh[i].eventId BY <1>3 DEF IdsOf
      <4>2. x = inFlight[i].eventId /\ i \in DOMAIN inFlight BY <4>1, <3>1, <1>1
      <4> QED BY <4>2 DEF IdsOf
    <3>3. ASSUME NEW x \in IdsOf(inFlight) PROVE x \in IdsOf(fresh)
      <4>1. PICK i \in 1 .. n : x = inFlight[i].eventId BY <1>1 DEF IdsOf
      <4>2. x = fresh[i].eventId /\ i \in DOMAIN fresh BY <4>1, <3>1, <1>3
      <4> QED BY <4>2 DEF IdsOf
    <3> QED BY <3>2, <3>3
  <2>2. BytesOf(fresh) = BytesOf(inFlight) BY <1>1, <1>2, <1>3 DEF BytesOf
  <2>3. ASSUME NEW i \in DOMAIN fresh, NEW j \in DOMAIN fresh, i # j
        PROVE  fresh[i].eventId # fresh[j].eventId
    <3>1. \A k \in 1 .. n : fresh[k].eventId = inFlight[k].eventId BY <1>2
    <3>2. i \in 1 .. n /\ j \in 1 .. n BY <2>3, <1>3
    <3>3. inFlight[i].eventId # inFlight[j].eventId
      BY <2>3, <3>2, <1>1 DEF DistinctIds, Identities
    <3> QED BY <3>1, <3>2, <3>3
  <2>4. DistinctIds(fresh) BY <2>3 DEF DistinctIds
  <2> QED BY <2>1, <2>2, <2>4
<1>5. /\ all \in Seq(EvidenceType) /\ Len(all) = c + n
      /\ \A i \in 1 .. c + n : \/ i \in 1 .. c /\ all[i] = committed[i]
                               \/ i - c \in 1 .. n /\ all[i] = fresh[i - c]
  BY <1>1, Concat DEF c
<1>6. \A e \in EvidenceType : e.bytes \in Nat BY LimitsAssumption DEF EvidenceType
<1>7. BytesOf(all) = bytes /\ bytes \in Nat BY <1>4, <1>1, <1>6, BytesFacts DEF Retention
<1>8. IdsOf(all) = retainedEventIds \cup IdsOf(inFlight) /\ DistinctIds(all)
  <2>1. IdsOf(committed) \cap IdsOf(fresh) = {} BY <1>1, <1>4 DEF Identities, IdsOf
  <2>2. IdsOf(all) = IdsOf(committed) \cup IdsOf(fresh) /\ DistinctIds(all)
    BY <1>1, <1>4, <2>1, IdsFacts DEF Identities
  <2> QED BY <1>4, <2>2 DEF Identities
<1>9. ASSUME NEW i \in 1 .. c + n
      PROVE  all[i].sequence = base + i /\ all[i].interval = interval
  <2>1. CASE i \in 1 .. c /\ all[i] = committed[i] BY <1>1, <2>1 DEF Retention, c
  <2>2. CASE i - c \in 1 .. n /\ all[i] = fresh[i - c] BY <1>1, <1>2, <2>2
  <2> QED BY <1>5, <2>1, <2>2
<1>10. /\ retainedCount = c
       /\ limits' = limits /\ interval' = interval /\ nextEvidenceSequence' = nextEvidenceSequence + n
       /\ inFlight' = <<>>
  BY DEF acceptBatch, Retention, c, n, limits, capacityTier
<1>11. PICK k \in 0 .. Len(all) :
         /\ IsRetentionCut(all, retainedCount + n, bytes, k)
         /\ committed' = SubSeq(all, k + 1, Len(all))
         /\ retainedEventIds' = (retainedEventIds \cup IdsOf(inFlight)) \ IdsOf(SubSeq(all, 1, k))
         /\ retainedCount' = retainedCount + n - k
         /\ retainedBytes' = bytes - BytesOf(SubSeq(all, 1, k))
  BY DEF acceptBatch, n, fresh
<1> DEFINE gone == SubSeq(all, 1, k)
           kept == SubSeq(all, k + 1, Len(all))
<1> HIDE DEF all
<1>12. /\ gone \in Seq(EvidenceType) /\ kept \in Seq(EvidenceType) /\ all = gone \o kept
       /\ Len(kept) = (c + n) - k /\ DOMAIN kept = 1 .. (c + n) - k
       /\ \A i \in 1 .. (c + n) - k : kept[i] = all[k + i]
  <2>1. /\ gone \in Seq(EvidenceType) /\ kept \in Seq(EvidenceType) /\ all = gone \o kept
        /\ Len(kept) = Len(all) - k
        /\ \A i \in 1 .. Len(all) - k : kept[i] = all[k + i]
    BY <1>5, Parts
  <2> HIDE DEF kept, gone
  <2>3. DOMAIN kept = 1 .. Len(kept) BY <2>1
  <2>4. Len(all) - k = (c + n) - k BY <1>1, <1>5
  <2> QED BY <2>1, <2>3, <2>4, Zenon
<1>13. k \in Nat /\ k <= c + n BY <1>1, <1>5
<1> HIDE DEF gone, kept, bytes, base
<1>14. /\ BytesOf(gone) \in Nat /\ BytesOf(kept) \in Nat
       /\ BytesOf(all) = BytesOf(gone) + BytesOf(kept)
  BY <1>6, <1>12, BytesFacts
<1>15. /\ committed' = kept
       /\ retainedEventIds' = IdsOf(all) \ IdsOf(gone)
       /\ retainedCount' = (c + n) - k
       /\ retainedBytes' = bytes - BytesOf(gone)
  <2>1. /\ committed' = kept
        /\ retainedEventIds' = IdsOf(all) \ IdsOf(gone)
        /\ retainedBytes' = bytes - BytesOf(gone)
    BY <1>8, <1>11 DEF gone, kept
  <2>2. retainedCount' = c + (n - k) BY <1>10, <1>11
  <2> QED BY <1>1, <1>13, <2>1, <2>2
<1>16. /\ DistinctIds(kept) /\ IdsOf(all) \ IdsOf(gone) = IdsOf(kept) BY <1>8, <1>12, IdsFacts
<1>17. Identities'
  <2>1. DistinctIds(<<>>) /\ DOMAIN <<>> = {} BY DEF DistinctIds
  <2> QED BY <1>10, <1>15, <1>16, <2>1 DEF Identities, DistinctIds, IdsOf
<1>18. retainedCount' = Len(kept) /\ retainedBytes' = BytesOf(kept) BY <1>7, <1>12, <1>14, <1>15
<1>19. ASSUME NEW i \in DOMAIN kept
       PROVE  /\ kept[i].sequence = nextEvidenceSequence' - 1 - Len(kept) + i
              /\ kept[i].interval = interval
  <2>1. k + i \in 1 .. c + n /\ i \in 1 .. (c + n) - k BY <1>1, <1>12, <1>13
  <2>2. kept[i].sequence = base + (k + i) /\ kept[i].interval = interval BY <1>9, <1>12, <2>1
  <2>3. base = nextEvidenceSequence - 1 - c BY DEF base
  <2>4. nextEvidenceSequence' = nextEvidenceSequence + n /\ Len(kept) = (c + n) - k
    BY <1>10, <1>12
  <2>5. c \in Nat /\ n \in Nat /\ k \in Nat /\ i \in Int /\ nextEvidenceSequence \in Nat
    BY <1>1, <1>13, <2>1
  <2>6. base + (k + i) = nextEvidenceSequence' - 1 - Len(kept) + i BY <2>3, <2>4, <2>5
  <2> QED BY <2>2, <2>6
<1>20. retainedCount' <= limits.maxRetainedCount /\ retainedBytes' <= limits.maxRetainedBytes
  <2> DEFINE mc == limits.maxRetainedCount
             mb == limits.maxRetainedBytes
             target == LowWater(limits)
  <2>1. /\ mc \in Nat /\ mb \in Nat
        /\ target.count \in Nat /\ target.bytes \in Nat /\ target.count <= mc /\ target.bytes <= mb
    BY LimitsFacts, LowWaterBelow DEF LowWater
  <2>2. IsRetentionCut(all, c + n, bytes, k) BY <1>10, <1>11
  <2>3. CASE OverHighWater(limits, c + n, bytes)
    <3>1. \/ (c + n) - k <= target.count /\ bytes - BytesOf(gone) <= target.bytes
          \/ k = Len(all)
      <4>1. IsPrefixTrim(all, c + n, bytes, target, k) BY <2>2, <2>3 DEF IsRetentionCut
      <4> HIDE DEF target
      <4>2. \/ (c + n) - k <= target.count /\ bytes - BytesOf(SubSeq(all, 1, k)) <= target.bytes
            \/ k = Len(all)
        BY <4>1, TrimMeetsTarget, Zenon
      <4> QED BY <4>2 DEF gone
    <3>2. CASE k = Len(all)
      <4>1. Len(kept) = 0 BY <1>1, <1>5, <1>12, <3>2
      <4>2. kept = <<>> BY <1>12, <4>1
      <4>3. retainedCount' = 0 /\ retainedBytes' = 0 BY <1>18, <4>1, <4>2, NoBytes
      <4> QED BY <2>1, <4>3
    <3>3. CASE (c + n) - k <= target.count /\ bytes - BytesOf(gone) <= target.bytes
      <4>1. retainedCount' <= target.count /\ retainedBytes' <= target.bytes BY <1>15, <3>3
      <4>2. retainedCount' \in Nat /\ retainedBytes' \in Nat BY <1>12, <1>14, <1>18
      <4> HIDE DEF target, mc, mb
      <4>3. retainedCount' <= mc /\ retainedBytes' <= mb BY <2>1, <4>1, <4>2
      <4> QED BY <4>3 DEF mc, mb
    <3> QED BY <3>1, <3>2, <3>3
  <2>4. CASE ~OverHighWater(limits, c + n, bytes)
    <3>1. c + n <= mc /\ bytes <= mb BY <1>1, <1>7, <2>1, <2>4 DEF OverHighWater
    <3>2. retainedCount' = (c + n) - k /\ retainedBytes' = bytes - BytesOf(gone) BY <1>15
    <3> HIDE DEF mc, mb
    <3>3. retainedCount' <= mc /\ retainedBytes' <= mb
      BY <3>1, <3>2, <1>1, <1>7, <1>13, <1>14, <2>1
    <3> QED BY <3>3 DEF mc, mb
  <2> QED BY <2>3, <2>4
<1>21. Retention' BY <1>10, <1>15, <1>18, <1>19, <1>20 DEF Retention
<1> QED BY <1>17, <1>21

\* What is retained stays a tail of the Evidence sequence within its budgets,
\* and no identity is retained or in flight twice.
LEMMA TailStep ==
  ASSUME CaptureOrderInv, StagesAgree, Identities, Retention, [Next]_vars
  PROVE  Identities' /\ Retention'
<1> USE DEF queueVars, retainedVars, gapVars, clearVars, closeVars, journalVars
<1> DEFINE Goal == Identities' /\ Retention'
<1>0. DistinctIds(<<>>) /\ IdsOf(<<>>) = {} /\ DOMAIN <<>> = {} /\ Len(<<>>) = 0
  BY DEF DistinctIds, IdsOf
<1>1. ASSUME UNCHANGED <<retainedVars, inFlight, nextEvidenceSequence, interval>>,
             processing' # "commit" => processing # "commit" /\ journalEnabled' = journalEnabled
      PROVE  Goal
  <2>1. Identities' BY <1>1 DEF Identities, DistinctIds
  <2>2. processing' # "commit" => limits' = limits BY <1>1 DEF limits, capacityTier
  <2> QED BY <1>1, <2>1, <2>2 DEF Retention
<1>2. ASSUME committed' = <<>>, retainedEventIds' = {}, retainedCount' = 0, retainedBytes' = 0,
             UNCHANGED <<inFlight, journalEnabled>>
      PROVE  Goal
  <2>1. Identities' BY <1>0, <1>2 DEF Identities, DistinctIds
  <2>2. limits' = limits /\ limits.maxRetainedCount \in Nat /\ limits.maxRetainedBytes \in Nat
    BY <1>2, LimitsFacts DEF limits, capacityTier
  <2>3. 0 <= limits'.maxRetainedCount /\ 0 <= limits'.maxRetainedBytes BY <2>2
  <2> QED BY <1>0, <1>2, <2>1, <2>3, NoBytes DEF Retention
<1> HIDE DEF Goal
<1> SUFFICES Goal BY DEF Goal
<1>3. ASSUME NEW n \in 0..MaxCaptured, takeCandidatePrefix(n) PROVE Goal
  <2>1. /\ UNCHANGED <<retainedVars, nextEvidenceSequence, interval, journalEnabled>>
        /\ processing = "loop"
        /\ pending \in Seq(EntryType)
        /\ IsBatchLength(n)
        /\ inFlight' \in Seq(CandidateType) /\ Len(inFlight') = n
        /\ \A i \in 1 .. n : inFlight'[i] = pending[i]
    BY <1>3, TakenPrefix DEF takeCandidatePrefix, CaptureOrderInv, TypeOK, QueuesTypeOK
  <2>2. DOMAIN inFlight' = 1 .. n /\ n \in Nat BY <1>3, <2>1, BoundsAssumption
  <2>3. ASSUME NEW i \in 1 .. n
        PROVE  /\ inFlight'[i].eventId \notin retainedEventIds
               /\ \A j \in 1 .. (i - 1) : inFlight'[j].eventId # inFlight'[i].eventId
    <3>1. IsCandidate(pending[i]) /\ ~RepeatsIdentity(i) /\ inFlight'[i] = pending[i]
      BY <2>1 DEF IsBatchLength
    <3>2. ASSUME NEW j \in 1 .. (i - 1)
          PROVE  IsCandidate(pending[j]) /\ inFlight'[j] = pending[j]
      BY <2>1, <2>2 DEF IsBatchLength
    <3> QED BY <3>1, <3>2 DEF RepeatsIdentity
  <2>4. ASSUME NEW i \in 1 .. n, NEW j \in 1 .. n, i # j
        PROVE  inFlight'[i].eventId # inFlight'[j].eventId
    <3>1. CASE j \in 1 .. (i - 1) BY <2>3, <3>1
    <3>2. CASE i \in 1 .. (j - 1) BY <2>3, <3>2
    <3> QED BY <2>2, <2>4, <3>1, <3>2
  <2>5. Identities' BY <2>1, <2>2, <2>3, <2>4 DEF Identities, DistinctIds
  <2>6. limits' = limits BY <2>1 DEF limits, capacityTier
  <2>7. Retention' BY <2>1, <2>6 DEF Retention
  <2> QED BY <2>5, <2>7 DEF Goal
<1>4. CASE acceptBatch BY <1>4, AcceptedTail DEF Goal
<1>5. CASE clearSucceeds BY <1>2, <1>5 DEF clearSucceeds
<1>6. CASE closeEnds
  <2>1. UNCHANGED <<inFlight, nextEvidenceSequence, interval, processing, journalEnabled>>
    BY <1>6 DEF closeEnds, UnchangedByClose
  <2>2. \/ committed' = <<>> /\ retainedEventIds' = {} /\ retainedCount' = 0 /\ retainedBytes' = 0
        \/ UNCHANGED retainedVars
    BY <1>6 DEF closeEnds
  <2> QED BY <1>1, <1>2, <2>1, <2>2
<1>7. ASSUME NEW id \in EventIds, NEW b \in Sizes, offerCandidate(id, b) PROVE Goal
  BY <1>1, <1>7 DEF offerCandidate
<1>8. ASSUME NEW b \in Sizes, NEW dim \in Dimensions, refuseUnretainable(b, dim) PROVE Goal
  BY <1>1, <1>8 DEF refuseUnretainable
<1>9. CASE startProcessing \/ journalCommitFails
  BY <1>1, <1>9 DEF startProcessing, journalCommitFails, StagesAgree
<1>10. CASE \/ refuseWithoutOrdinal \/ settleLeadingGapBarrier
            \/ finishProcessing \/ clear \/ clearBegins \/ clearFails \/ clearCleanup
            \/ close \/ closeAfterClear \/ closeBegins \/ UNCHANGED vars
  BY <1>1, <1>10 DEF refuseWithoutOrdinal, settleLeadingGapBarrier, finishProcessing, clear,
     clearBegins, clearFails, clearCleanup, close, closeAfterClear, closeBegins,
     UnchangedByClose, vars
<1> QED BY <1>3, <1>4, <1>5, <1>6, <1>7, <1>8, <1>9, <1>10 DEF Next

\* The initial state of the invariant.
LEMMA LosslessInit == Init => LosslessInv
<1> SUFFICES ASSUME Init PROVE LosslessInv OBVIOUS
<1>1. CaptureOrderInv
  <2>1. LifecycleTypeOK BY DEF Init, LifecycleTypeOK
  <2>2. QueuesTypeOK BY DEF Init, QueuesTypeOK
  <2>3. CountersTypeOK BY DEF Init, CountersTypeOK, NoGap, GapType
  <2> QED BY <2>1, <2>2, <2>3, CaptureOrderInit DEF CaptureOrderInv, TypeOK
<1>2. StagesAgree BY BoundsAssumption DEF Init, StagesAgree, isIdle
<1>3. Queued = <<>> BY DEF Init, Queued
<1>4. EntriesTile
  <2>1. Tiles(<<>>, 0, nextCaptureOrdinal - 1) BY DEF Init, Tiles
  <2>2. Decided(0) BY DEF Init, Decided, NoGap
  <2> QED BY <1>3, <2>1, <2>2 DEF EntriesTile
<1>5. CountersAgree
  <2>1. Accepted = {} BY DEF Init, Accepted
  <2>2. Cardinality(Accepted) = 0 BY <2>1, FS_EmptySet
  <2>3. \E t \in Tiers : 0 <= Limits[t].pendingStopBytes BY LimitsFacts
  <2> QED BY <1>3, <2>2, <2>3, NoBytes DEF Init, CountersAgree
<1>6. Identities BY DEF Init, Identities, DistinctIds, IdsOf
<1>7. Retention BY NoBytes, LimitsFacts DEF Init, Retention
<1>8. GapPlacement BY DEF Init, GapPlacement
<1> QED BY <1>1, <1>2, <1>4, <1>5, <1>6, <1>7, <1>8 DEF LosslessInv

\* Every step keeps it.
LEMMA LosslessStep ==
  ASSUME ~OfferBeforeCleanup, LosslessInv, TypeOK', [Next]_vars PROVE LosslessInv'
<1>1. CaptureOrderInv' BY CaptureOrderStep DEF LosslessInv, CaptureOrderInv
<1> QED BY <1>1, StagesStep, EntriesStep, AgreementStep, TailStep, GapStep DEF LosslessInv

\* The invariant says that nothing is lost.
LEMMA LosslessMeansNothingIsLost == LosslessInv => NothingIsLost
<1> SUFFICES ASSUME LosslessInv PROVE NothingIsLost OBVIOUS
<1> DEFINE z == nextCaptureOrdinal - 1
           q == Queued
<1>1. /\ z \in Nat /\ DOMAIN receipt = 1 .. z /\ q \in Seq(EntryType)
      /\ LifecycleTypeOK /\ QueuesTypeOK /\ committed \in Seq(EvidenceType)
  BY ReceiptDomain, QueuedTypes DEF LosslessInv, CaptureOrderInv, TypeOK, QueuesTypeOK
<1>2. PICK d \in Nat : Tiles(q, d, z) /\ Decided(d) BY DEF LosslessInv, EntriesTile
<1>3. d <= z /\ UNION {OrdinalsOf(q[i]) : i \in 1 .. Len(q)} = d + 1 .. z
  BY <1>1, <1>2, TilesCover
<1>4. QueueEntries = {q[i] : i \in 1 .. Len(q)} BY <1>1 DEF QueueEntries, ToSet
<1>5. {o \in DOMAIN receipt : receipt[o] = "open"} = UNION {OrdinalsOf(e) : e \in QueueEntries}
  <2>1. ASSUME NEW o \in 1 .. z PROVE receipt[o] = "open" <=> o \in d + 1 .. z
    <3>1. CASE o \in 1 .. d BY <1>1, <1>2, <3>1 DEF Decided
    <3>2. CASE o \in d + 1 .. z BY <1>2, <3>2 DEF Decided
    <3> QED BY <1>1, <3>1, <3>2
  <2>2. {o \in DOMAIN receipt : receipt[o] = "open"} = d + 1 .. z BY <1>1, <2>1
  <2>3. {OrdinalsOf(e) : e \in QueueEntries} = {OrdinalsOf(q[i]) : i \in 1 .. Len(q)} BY <1>4
  <2> QED BY <1>3, <2>2, <2>3
<1>6. ASSUME NEW e \in QueueEntries, IsBarrier(e) PROVE e.count = Cardinality(OrdinalsOf(e))
  <2>1. PICK i \in 1 .. Len(q) : e = q[i] BY <1>4
  <2>2. e \in EntryType /\ Whole(e) BY <1>1, <1>2, <2>1 DEF Tiles
  <2>3. Lowest(e) \in Nat /\ Highest(e) \in Nat /\ Lowest(e) <= Highest(e)
        /\ e.count = Highest(e) - Lowest(e) + 1
    BY <1>6, <2>2, EntryFacts DEF Whole
  <2>4. Cardinality(Lowest(e) .. Highest(e)) = Highest(e) - Lowest(e) + 1 BY <2>3, FS_Interval
  <2> QED BY <2>3, <2>4 DEF OrdinalsOf
<1>7. ASSUME phase = "CLOSED" PROVE QueueEntries = {}
  <2>1. isIdle /\ ~clearInProgress BY <1>7 DEF LosslessInv, StagesAgree
  <2>2. inFlight = <<>> /\ pending = <<>> /\ postClearPending = <<>>
    BY <2>1 DEF LosslessInv, StagesAgree, isIdle, CaptureOrderInv, NothingBehindTheClear
  <2>3. q = <<>> BY <2>2 DEF Queued
  <2> QED BY <2>3 DEF QueueEntries, ToSet
<1>8. OpenReceiptsAreQueued
  BY <1>5, <1>6, <1>7 DEF OpenReceiptsAreQueued, LosslessInv, CountersAgree, Accepted
<1>9. RetainedTail
  BY <1>1, DistinctIdsCount DEF RetainedTail, LosslessInv, Identities, Retention
<1> QED BY <1>8, <1>9 DEF NothingIsLost, LosslessInv

\* Nothing that was captured is lost or counted wrongly: in every reachable
\* state the receipts, the queues, the counters, the retained tail and the
\* reported gaps agree, through refusals, duplicates, fallback, retention,
\* Clears and Close - as long as nothing is offered between the end of a Clear
\* and its cleanup callback.
THEOREM NothingIsLostHolds ==
  ASSUME ~OfferBeforeCleanup PROVE Spec => []NothingIsLost
<1>1. Init => LosslessInv BY LosslessInit
<1>2. LosslessInv /\ TypeOK' /\ [Next]_vars => LosslessInv' BY LosslessStep
<1>3. LosslessInv => NothingIsLost BY LosslessMeansNothingIsLost
<1> QED BY <1>1, <1>2, <1>3, TypeCorrect, PTL DEF Spec
-----------------------------------------------------------------------------
(* The coordinator implements the Evidence log.                            *)
(*                                                                         *)
(* The mapping reads the log off the state: the decided ordinals are a     *)
(* prefix of the receipts, so the verdicts are that prefix; offers and     *)
(* refusals are captures, a settled barrier and an accepted batch decide,  *)
(* and everything else but Clear and Close is a stutter.                   *)

\* What the mapping of Log puts for verdict, retained and cut.
MappedVerdict == SubSeq(receipt, 1, DecidedCount)
MappedRetained == {committed[i].ordinal : i \in DOMAIN committed}
MappedCut == IF clearing \notin {"waiting", "journal"} THEN -1
             ELSE IF postClearPending = <<>> THEN nextCaptureOrdinal - 1
             ELSE Lowest(postClearPending[1]) - 1

\* When exactly the first d receipts are decided, that is their number.
LEMMA DecidedPrefix ==
  ASSUME NEW r, NEW z \in Nat, DOMAIN r = 1 .. z, NEW d \in 0 .. z,
         \A o \in 1 .. d : r[o] # "open", \A o \in d + 1 .. z : r[o] = "open"
  PROVE  Cardinality({o \in DOMAIN r : \A p \in 1 .. o : r[p] # "open"}) = d
<1> DEFINE D == {o \in DOMAIN r : \A p \in 1 .. o : r[p] # "open"}
<1>1. D = 1 .. d
  <2>1. ASSUME NEW o \in D PROVE o \in 1 .. d
    <3>1. o \in 1 .. z /\ o \in 1 .. o OBVIOUS
    <3>2. r[o] # "open" BY <3>1
    <3> QED BY <3>1, <3>2
  <2>2. ASSUME NEW o \in 1 .. d PROVE o \in D OBVIOUS
  <2> QED BY <2>1, <2>2
<1>2. Cardinality(1 .. d) = d BY FS_Interval
<1> QED BY <1>1, <1>2

\* The verdicts are the decided prefix of the receipts.
LEMMA VerdictNow ==
  ASSUME CaptureOrderInv, NEW d \in Nat, d <= nextCaptureOrdinal - 1, Decided(d)
  PROVE  /\ DecidedCount = d
         /\ MappedVerdict = SubSeq(receipt, 1, d)
         /\ MappedVerdict \in Seq(Outcomes) /\ Len(MappedVerdict) = d
         /\ \A o \in 1 .. d : MappedVerdict[o] = receipt[o]
<1> DEFINE z == nextCaptureOrdinal - 1
<1>1. /\ z \in Nat /\ DOMAIN receipt = 1 .. z /\ d \in 0 .. z
      /\ \A o \in 1 .. d : receipt[o] # "open"
      /\ \A o \in d + 1 .. z : receipt[o] = "open"
  BY ReceiptDomain DEF Decided
<1> HIDE DEF z
<1>2. DecidedCount = d BY <1>1, DecidedPrefix DEF DecidedCount
<1>3. receipt \in Seq(Outcomes) /\ d \in 0 .. Len(receipt)
  BY <1>1 DEF CaptureOrderInv, TypeOK, CountersTypeOK, z
<1>4. /\ SubSeq(receipt, 1, d) \in Seq(Outcomes) /\ Len(SubSeq(receipt, 1, d)) = d
      /\ \A o \in 1 .. d : SubSeq(receipt, 1, d)[o] = receipt[o]
  BY <1>3, Parts
<1> QED BY <1>2, <1>4 DEF MappedVerdict

\* After a step, the decided prefix of the new receipts.
LEMMA VerdictNext ==
  ASSUME CaptureOrderInv, CaptureOrderInv', NEW c \in Nat, NEW w \in Nat, c <= w,
         DOMAIN receipt' = 1 .. w,
         \A o \in 1 .. c : receipt'[o] # "open", \A o \in c + 1 .. w : receipt'[o] = "open"
  PROVE  /\ MappedVerdict' \in Seq(Outcomes) /\ Len(MappedVerdict') = c
         /\ \A o \in 1 .. c : MappedVerdict'[o] = receipt'[o]
<1>1. c \in 0 .. w OBVIOUS
<1>2. DecidedCount' = c BY <1>1, DecidedPrefix DEF DecidedCount
<1>3. receipt' \in Seq(Outcomes) /\ c \in 0 .. Len(receipt')
  <2>1. receipt' \in Seq(Outcomes) BY DEF CaptureOrderInv, TypeOK, CountersTypeOK
  <2>2. Len(receipt') = w BY <2>1
  <2> QED BY <1>1, <2>1, <2>2
<1>4. /\ SubSeq(receipt', 1, c) \in Seq(Outcomes) /\ Len(SubSeq(receipt', 1, c)) = c
      /\ \A o \in 1 .. c : SubSeq(receipt', 1, c)[o] = receipt'[o]
  BY <1>3, Parts
<1> QED BY <1>2, <1>4 DEF MappedVerdict

\* Sequences with the same entries are the same.
LEMMA SameSequence ==
  ASSUME NEW S, NEW s \in Seq(S), NEW t \in Seq(S), Len(s) = Len(t),
         \A i \in 1 .. Len(s) : s[i] = t[i]
  PROVE  s = t
PROOF OBVIOUS

\* The verdicts stay when the decided receipts do and nothing else is decided.
LEMMA VerdictStays ==
  ASSUME CaptureOrderInv, CaptureOrderInv', NEW d \in Nat, d <= nextCaptureOrdinal - 1, Decided(d),
         NEW w \in Nat, d <= w, DOMAIN receipt' = 1 .. w,
         \A o \in 1 .. d : receipt'[o] = receipt[o],
         \A o \in d + 1 .. w : receipt'[o] = "open"
  PROVE  MappedVerdict' = MappedVerdict
<1>1. /\ MappedVerdict \in Seq(Outcomes) /\ Len(MappedVerdict) = d
      /\ \A o \in 1 .. d : MappedVerdict[o] = receipt[o]
  BY VerdictNow
<1>2. \A o \in 1 .. d : receipt'[o] # "open" BY DEF Decided
<1>3. /\ MappedVerdict' \in Seq(Outcomes) /\ Len(MappedVerdict') = d
      /\ \A o \in 1 .. d : MappedVerdict'[o] = receipt'[o]
  BY <1>2, VerdictNext
<1> HIDE DEF MappedVerdict
<1> QED BY <1>1, <1>3, SameSequence

\* The undecided ordinals begin where the queue does.
LEMMA DecidedNow ==
  ASSUME LosslessInv
  PROVE  \E d \in Nat : /\ Tiles(Queued, d, nextCaptureOrdinal - 1) /\ Decided(d)
                        /\ d <= nextCaptureOrdinal - 1
<1>1. PICK d \in Nat : Tiles(Queued, d, nextCaptureOrdinal - 1) /\ Decided(d)
  BY DEF LosslessInv, EntriesTile
<1>2. nextCaptureOrdinal - 1 \in Nat /\ Queued \in Seq(EntryType)
  BY ReceiptDomain, QueuedTypes DEF LosslessInv, CaptureOrderInv, TypeOK
<1> QED BY <1>1, <1>2, TilesCover

\* A step that keeps what the mapping reads is a stutter of the log.
LEMMA StutterRefines ==
  ASSUME UNCHANGED <<nextCaptureOrdinal, receipt, committed, interval>>,
         (phase' = "CLOSED") = (phase = "CLOSED"), MappedCut' = MappedCut
  PROVE  UNCHANGED Log!vars
<1>1. DecidedCount' = DecidedCount BY DEF DecidedCount
<1> QED BY <1>1 DEF Log!vars, MappedCut

\* The cut while a Clear is pending, and that it holds back what follows it.
LEMMA CutNow ==
  ASSUME LosslessInv
  PROVE  /\ MappedCut # -1 <=> clearing \in {"waiting", "journal"}
         /\ MappedCut # -1 => \A d \in Nat : Tiles(postClearPending, d, nextCaptureOrdinal - 1)
                                              => MappedCut = d
<1> DEFINE z == nextCaptureOrdinal - 1
           post == postClearPending
<1>1. z \in Nat /\ post \in Seq(EntryType) /\ inFlight \in Seq(EntryType) /\ pending \in Seq(EntryType)
  BY ReceiptDomain, QueuedTypes DEF LosslessInv, CaptureOrderInv, TypeOK
<1>2. PICK d \in Nat : Tiles(Queued, d, z) BY DecidedNow
<1>3. \E c \in Nat : Tiles(post, c, z)
  <2>1. inFlight \o pending \in Seq(EntryType) BY <1>1
  <2>2. \E b \in Nat : Tiles(inFlight \o pending, d, b) /\ Tiles(post, b, z)
    <3>1. Tiles((inFlight \o pending) \o post, d, z) BY <1>2 DEF Queued
    <3> QED BY <1>1, <2>1, <3>1, TilesSplit, Zenon
  <2> QED BY <2>2
<1>4. ASSUME NEW c \in Nat, Tiles(post, c, z), clearing \in {"waiting", "journal"}
      PROVE  MappedCut = c
  <2>1. CASE post = <<>> BY <1>4, <2>1 DEF Tiles, MappedCut
  <2>2. CASE post # <<>> BY <1>4, <2>2 DEF MappedCut, Tiles
  <2> QED BY <2>1, <2>2
<1>5. clearing \notin {"waiting", "journal"} => MappedCut = -1 BY DEF MappedCut
<1>6. clearing \in {"waiting", "journal"} => MappedCut # -1
  <2> SUFFICES ASSUME clearing \in {"waiting", "journal"} PROVE MappedCut # -1 OBVIOUS
  <2>1. PICK c \in Nat : Tiles(post, c, z) BY <1>3
  <2>2. MappedCut = c BY <1>4, <2>1
  <2> QED BY <2>2
<1> QED BY <1>4, <1>5, <1>6

\* An offer or a refusal with an ordinal is a capture: the cut of a pending
\* Clear stays in front of it.
LEMMA CaptureRefines ==
  ASSUME LosslessInv, CaptureOrderInv', MayOffer, NEW q \in Seq(EntryType), q # <<>>,
         IsGrown(q, clearQueueForEntry, nextCaptureOrdinal), Enqueue(q),
         nextCaptureOrdinal' = nextCaptureOrdinal + 1, receipt' = Append(receipt, "open"),
         UNCHANGED <<committed, interval, clearing, clearInProgress, phase>>
  PROVE  Log!Capture
<1> DEFINE z == nextCaptureOrdinal - 1
           post == postClearPending
<1>1. /\ z \in Nat /\ DOMAIN receipt = 1 .. z /\ nextCaptureOrdinal = z + 1
      /\ post \in Seq(EntryType) /\ MaxCaptured \in Nat
      /\ receipt \in Seq(Outcomes) /\ Len(receipt) = z
  BY ReceiptDomain, BoundsAssumption DEF LosslessInv, CaptureOrderInv, TypeOK, QueuesTypeOK,
     CountersTypeOK
<1>2. PICK d \in Nat : Decided(d) /\ d <= z BY DecidedNow
<1>3. /\ DOMAIN receipt' = 1 .. z + 1 /\ z + 1 \in Nat
      /\ \A o \in 1 .. z : receipt'[o] = receipt[o]
      /\ receipt'[z + 1] = "open"
  BY <1>1
<1>4. MappedVerdict' = MappedVerdict
  <2> HIDE DEF z
  <2>1. \A o \in 1 .. d : receipt'[o] = receipt[o] BY <1>1, <1>2, <1>3
  <2>2. \A o \in d + 1 .. z + 1 : receipt'[o] = "open" BY <1>1, <1>2, <1>3 DEF Decided, z
  <2>3. CaptureOrderInv /\ d <= z + 1 /\ d <= nextCaptureOrdinal - 1
    BY <1>1, <1>2 DEF LosslessInv, z
  <2> QED BY <1>2, <1>3, <2>1, <2>2, <2>3, VerdictStays
<1>5. MappedCut' = MappedCut
  <2>1. CASE clearing \notin {"waiting", "journal"} BY <2>1 DEF MappedCut
  <2>2. CASE clearing \in {"waiting", "journal"}
    <3>1. clearQueueForEntry = post /\ post' = q
      BY <2>2 DEF LosslessInv, StagesAgree, clearQueueForEntry, Enqueue
    <3>2. 1 \in 1 .. Len(q) /\ Len(post) \in Nat /\ (post = <<>> <=> Len(post) = 0) BY <1>1
    <3>3. post # <<>> => Lowest(q[1]) = Lowest(post[1]) BY <3>1, <3>2 DEF IsGrown
    <3>4. post = <<>> => Lowest(q[1]) = nextCaptureOrdinal BY <3>1, <3>2 DEF IsGrown
    <3> QED BY <2>2, <3>1, <3>3, <3>4 DEF MappedCut
  <2> QED BY <2>1, <2>2
<1>6. /\ phase # "CLOSED" /\ phase' = phase
      /\ z < MaxCaptured /\ nextCaptureOrdinal' - 1 = z + 1
  BY <1>1 DEF MayOffer
<1>7. MappedRetained' = MappedRetained BY DEF MappedRetained
<1> QED BY <1>4, <1>5, <1>6, <1>7 DEF Log!Capture, MappedVerdict, MappedCut, MappedRetained

\* A step that decides the ordinals d + 1 .. c, retains a newest part of what
\* was retained and of what became Evidence, and keeps the rest, decides.
LEMMA DecideRefines ==
  ASSUME LosslessInv, CaptureOrderInv', NEW d \in Nat, NEW c \in Nat, Decided(d), d < c,
         c <= nextCaptureOrdinal - 1,
         MappedCut # -1 => c <= MappedCut,
         DOMAIN receipt' = 1 .. nextCaptureOrdinal - 1,
         \A o \in 1 .. d : receipt'[o] = receipt[o],
         \A o \in d + 1 .. c : receipt'[o] \in {"BECAME_EVIDENCE", "NOT_EVIDENCE"},
         \A o \in c + 1 .. nextCaptureOrdinal - 1 : receipt'[o] = "open",
         Log!IsNewestPart(MappedRetained',
                          MappedRetained \cup {o \in d + 1 .. c : receipt'[o] = "BECAME_EVIDENCE"}),
         UNCHANGED <<nextCaptureOrdinal, interval, phase>>, MappedCut' = MappedCut
  PROVE  \E n \in 1 .. MaxCaptured : Log!Decide(n)
<1> DEFINE z == nextCaptureOrdinal - 1
           n == c - d
           decided == [i \in 1 .. n |-> receipt'[d + i]]
           fresh == {o \in d + 1 .. c : receipt'[o] = "BECAME_EVIDENCE"}
<1>1. z \in Nat /\ c <= z /\ MaxCaptured \in Nat /\ n \in Nat
  BY ReceiptDomain, BoundsAssumption DEF LosslessInv
<1>2. n \in 1 .. MaxCaptured BY <1>1, ReceiptDomain DEF LosslessInv, StagesAgree
<1>3. /\ MappedVerdict \in Seq(Outcomes) /\ Len(MappedVerdict) = d
      /\ \A o \in 1 .. d : MappedVerdict[o] = receipt[o]
  BY VerdictNow, <1>1 DEF LosslessInv
<1>4. /\ MappedVerdict' \in Seq(Outcomes) /\ Len(MappedVerdict') = c
      /\ \A o \in 1 .. c : MappedVerdict'[o] = receipt'[o]
  <2>1. CaptureOrderInv BY DEF LosslessInv
  <2>2. ASSUME NEW o \in 1 .. c PROVE receipt'[o] # "open"
    <3>1. CASE o \in 1 .. d BY <3>1 DEF Decided
    <3>2. CASE o \in d + 1 .. c BY <3>2
    <3> QED BY <3>1, <3>2
  <2> HIDE DEF z
  <2>3. c <= z /\ z \in Nat /\ DOMAIN receipt' = 1 .. z /\ \A o \in c + 1 .. z : receipt'[o] = "open"
    BY <1>1 DEF z
  <2> QED BY <2>1, <2>2, <2>3, VerdictNext
<1>5. decided \in [1 .. n -> Log!Verdicts] BY <1>1 DEF Log!Verdicts
<1>6. MappedVerdict' = MappedVerdict \o decided
  <2>1. decided \in Seq(Outcomes) /\ Len(decided) = n /\ \A i \in 1 .. n : decided[i] = receipt'[d + i]
    BY <1>1, <1>5 DEF Log!Verdicts, Outcomes
  <2> HIDE DEF MappedVerdict, decided
  <2> DEFINE u == MappedVerdict \o decided
  <2>2. /\ u \in Seq(Outcomes) /\ Len(u) = d + n
        /\ \A i \in 1 .. d + n : \/ i \in 1 .. d /\ u[i] = MappedVerdict[i]
                                 \/ i - d \in 1 .. n /\ u[i] = decided[i - d]
    BY <1>3, <2>1, Concat
  <2>3. d + n = c /\ \A i \in 1 .. c : d + (i - d) = i OBVIOUS
  <2> HIDE DEF u, n
  <2>4. ASSUME NEW i \in 1 .. c PROVE MappedVerdict'[i] = u[i]
    <3>1. CASE i \in 1 .. d /\ u[i] = MappedVerdict[i] BY <1>3, <1>4, <3>1
    <3>2. CASE i - d \in 1 .. n /\ u[i] = decided[i - d] BY <1>4, <2>1, <2>3, <3>2
    <3> QED BY <2>2, <2>3, <3>1, <3>2
  <2>5. Len(u) = c BY <2>2, <2>3
  <2>6. MappedVerdict' = u BY <1>4, <2>2, <2>4, <2>5, SameSequence
  <2> QED BY <2>6 DEF u
<1>7. {Len(MappedVerdict) + i : i \in {j \in 1 .. n : decided[j] = "BECAME_EVIDENCE"}} = fresh
  <2>1. ASSUME NEW i \in 1 .. n PROVE d + i \in d + 1 .. c /\ decided[i] = receipt'[d + i]
    BY <1>1
  <2>2. ASSUME NEW o \in d + 1 .. c PROVE o - d \in 1 .. n /\ d + (o - d) = o BY <1>1
  <2> HIDE DEF decided, n, MappedVerdict
  <2>3. ASSUME NEW x \in {d + i : i \in {j \in 1 .. n : decided[j] = "BECAME_EVIDENCE"}}
        PROVE  x \in fresh
    BY <2>1
  <2>4. ASSUME NEW x \in fresh
        PROVE  x \in {d + i : i \in {j \in 1 .. n : decided[j] = "BECAME_EVIDENCE"}}
    <3>1. x - d \in 1 .. n /\ d + (x - d) = x BY <2>2
    <3>2. decided[x - d] = "BECAME_EVIDENCE" BY <2>1, <3>1
    <3> QED BY <3>1, <3>2
  <2> QED BY <1>3, <2>3, <2>4
<1>8. Len(MappedVerdict) + n <= IF MappedCut = -1 THEN z ELSE MappedCut BY <1>1, <1>3
<1>9. /\ MappedRetained' \in SUBSET (MappedRetained \cup fresh)
      /\ Log!IsNewestPart(MappedRetained', MappedRetained \cup fresh)
  BY DEF Log!IsNewestPart
<1> HIDE DEF n, decided, fresh
<1>10. Log!Decide(n)
  BY <1>5, <1>6, <1>7, <1>8, <1>9 DEF Log!Decide, Log!Decidable, Log!NoCut, MappedVerdict,
     MappedRetained, MappedCut
<1> QED BY <1>2, <1>10

\* What is captured before the Clear is decided before its cut.
LEMMA BeforeTheCut ==
  ASSUME LosslessInv, NEW s \in Seq(EntryType), s # <<>>, Precedes(s, postClearPending),
         Highest(s[1]) <= nextCaptureOrdinal - 1, NEW i \in 1 .. Len(s),
         Highest(s[i]) <= nextCaptureOrdinal - 1, MappedCut # -1
  PROVE  Highest(s[i]) <= MappedCut
<1>1. clearing \in {"waiting", "journal"} BY CutNow
<1>2. CASE postClearPending = <<>> BY <1>1, <1>2 DEF MappedCut
<1>3. CASE postClearPending # <<>>
  <2>1. postClearPending \in Seq(EntryType)
    BY DEF LosslessInv, CaptureOrderInv, TypeOK, QueuesTypeOK
  <2>2. 1 \in DOMAIN postClearPending /\ postClearPending[1] \in EntryType /\ i \in DOMAIN s
        /\ s[i] \in EntryType
    BY <1>3, <2>1
  <2>3. Highest(s[i]) < Lowest(postClearPending[1]) BY <2>2 DEF Precedes
  <2>4. Highest(s[i]) \in Nat /\ Lowest(postClearPending[1]) \in Nat BY <2>2, EntryFacts
  <2> QED BY <1>1, <1>3, <2>3, <2>4 DEF MappedCut
<1> QED BY <1>2, <1>3

\* A settled barrier decides its ordinals; nothing is retained or dropped.
LEMMA SettleRefines ==
  ASSUME LosslessInv, CaptureOrderInv', settleLeadingGapBarrier
  PROVE  \E n \in 1 .. MaxCaptured : Log!Decide(n)
<1> DEFINE z == nextCaptureOrdinal - 1
<1>0. CaptureOrderInv /\ StagesAgree /\ EntriesTile BY DEF LosslessInv
<1>1. PICK d \in Nat, c \in Nat :
        /\ Decided(d) /\ d < c /\ c <= z
        /\ Head(pending).first = d + 1 /\ Head(pending).latest = c
        /\ DOMAIN receipt' = 1 .. z
        /\ \A o \in 1 .. d : receipt'[o] = receipt[o]
        /\ \A o \in d + 1 .. c : receipt'[o] = "NOT_EVIDENCE"
        /\ \A o \in c + 1 .. z : receipt'[o] = "open"
  BY <1>0, SettleOrdinals
<1>2. /\ pending # <<>> /\ IsBarrier(Head(pending)) /\ pending \in Seq(EntryType)
      /\ UNCHANGED <<nextCaptureOrdinal, interval, phase, committed, postClearPending, clearing>>
  BY <1>0 DEF settleLeadingGapBarrier, retainedVars, clearVars, closeVars, CaptureOrderInv, TypeOK,
              QueuesTypeOK
<1>3. MappedCut' = MappedCut BY <1>2 DEF MappedCut
<1>4. MappedCut # -1 => c <= MappedCut
  <2>1. Head(pending) = pending[1] /\ 1 \in 1 .. Len(pending) BY <1>2
  <2>2. Highest(pending[1]) = c BY <1>1, <1>2, <2>1 DEF Highest
  <2>3. Precedes(pending, postClearPending) BY <1>0 DEF CaptureOrderInv, CaptureOrder
  <2> QED BY <1>1, <1>2, <2>1, <2>2, <2>3, BeforeTheCut
<1>5. Log!IsNewestPart(MappedRetained',
        MappedRetained \cup {o \in d + 1 .. c : receipt'[o] = "BECAME_EVIDENCE"})
  <2>1. {o \in d + 1 .. c : receipt'[o] = "BECAME_EVIDENCE"} = {} BY <1>1
  <2>2. MappedRetained' = MappedRetained BY <1>2 DEF MappedRetained
  <2> HIDE DEF MappedRetained
  <2> QED BY <2>1, <2>2 DEF Log!IsNewestPart
<1>6. \A o \in d + 1 .. c : receipt'[o] \in {"BECAME_EVIDENCE", "NOT_EVIDENCE"} BY <1>1
<1> QED BY <1>1, <1>2, <1>3, <1>4, <1>5, <1>6, DecideRefines

\* An accepted batch decides its ordinals; what is retained afterwards is the
\* newest part of what was retained and what was accepted.
LEMMA AcceptRefines ==
  ASSUME LosslessInv, CaptureOrderInv', acceptBatch
  PROVE  \E n \in 1 .. MaxCaptured : Log!Decide(n)
<1> DEFINE z == nextCaptureOrdinal - 1
           m == Len(committed)
           n == Len(inFlight)
           fresh == EvidenceOf(inFlight)
           all == committed \o fresh
<1>0. CaptureOrderInv /\ StagesAgree /\ EntriesTile BY DEF LosslessInv
<1>1. PICK d \in Nat :
        /\ Decided(d) /\ d + n <= z
        /\ \A i \in 1 .. n : inFlight[i].ordinal = d + i
        /\ DOMAIN receipt' = 1 .. z
        /\ \A o \in 1 .. d : receipt'[o] = receipt[o]
        /\ \A o \in d + 1 .. d + n : receipt'[o] = "BECAME_EVIDENCE"
        /\ \A o \in d + n + 1 .. z : receipt'[o] = "open"
  BY <1>0, AcceptOrdinals
<1>2. /\ inFlight # <<>> /\ inFlight \in Seq(CandidateType) /\ inFlight \in Seq(EntryType)
      /\ committed \in Seq(EvidenceType)
      /\ UNCHANGED <<nextCaptureOrdinal, interval, phase, postClearPending, clearing>>
  BY <1>0, QueuedTypes DEF acceptBatch, clearVars, closeVars, CaptureOrderInv, TypeOK,
              QueuesTypeOK, StagesAgree
<1>3. /\ m \in Nat /\ n \in Nat /\ n >= 1 /\ fresh \in Seq(EvidenceType) /\ Len(fresh) = n
      /\ DOMAIN committed = 1 .. m /\ DOMAIN inFlight = 1 .. n
  BY <1>0, <1>2, EvidenceOfBatch DEF CaptureOrderInv, TypeOK
<1>4. MappedCut' = MappedCut BY <1>2 DEF MappedCut
<1>5. ASSUME NEW i \in 1 .. n
      PROVE  fresh[i].ordinal = d + i /\ Highest(inFlight[i]) = d + i /\ Lowest(inFlight[i]) = d + i
  <2>1. inFlight[i] \in CandidateType BY <1>2
  <2> QED BY <1>1, <2>1 DEF EvidenceOf, CandidateType, Highest, Lowest, IsBarrier
<1>6. MappedCut # -1 => d + n <= MappedCut
  <2>1. 1 \in 1 .. n /\ n \in 1 .. n /\ d + 1 <= d + n BY <1>3
  <2>2. Highest(inFlight[1]) <= z /\ Highest(inFlight[n]) <= z
    <3>1. Highest(inFlight[1]) = d + 1 /\ Highest(inFlight[n]) = d + n BY <1>5, <2>1
    <3>2. z \in Nat /\ d + n <= z BY <1>0, <1>1, ReceiptDomain
    <3> HIDE DEF z, n
    <3> QED BY <1>3, <2>1, <3>1, <3>2
  <2>3. Precedes(inFlight, postClearPending) BY <1>0 DEF CaptureOrderInv, CaptureOrder
  <2>4. MappedCut # -1 => Highest(inFlight[n]) <= MappedCut
    BY <1>2, <2>1, <2>2, <2>3, BeforeTheCut
  <2> QED BY <1>5, <2>1, <2>4
<1>7. ASSUME NEW i \in 1 .. m, NEW j \in 1 .. m, i < j
      PROVE  committed[i].ordinal < committed[j].ordinal /\ committed[j].ordinal < d + 1
  <2>1. ASSUME NEW k \in 1 .. m
        PROVE  /\ Highest(committed[k]) = committed[k].ordinal
               /\ Lowest(committed[k]) = committed[k].ordinal
    <3>1. committed[k] \in EvidenceType BY <1>2
    <3> QED BY <3>1 DEF EvidenceType, Highest, Lowest, IsBarrier
  <2>2. Highest(committed[i]) < Lowest(committed[j])
    BY <1>0, <1>3, <1>7 DEF CaptureOrderInv, CaptureOrder, InOrder
  <2>3. Highest(committed[j]) < Lowest(inFlight[1])
    BY <1>0, <1>3 DEF CaptureOrderInv, CaptureOrder, Precedes
  <2> QED BY <1>3, <1>5, <2>1, <2>2, <2>3
<1>8. ASSUME NEW i \in 1 .. m
      PROVE  committed[i].ordinal \in Nat /\ committed[i].ordinal < d + 1
  <2>1. committed[i] \in EvidenceType BY <1>2
  <2>2. committed[i].ordinal \in Nat /\ Highest(committed[i]) = committed[i].ordinal
    BY <2>1 DEF EvidenceType, Highest, IsBarrier
  <2>3. Highest(committed[i]) < Lowest(inFlight[1])
    BY <1>0, <1>3 DEF CaptureOrderInv, CaptureOrder, Precedes
  <2> QED BY <1>3, <1>5, <2>2, <2>3
<1> HIDE DEF fresh, m, n, z
<1>9. /\ all \in Seq(EvidenceType) /\ Len(all) = m + n
      /\ \A i \in 1 .. m : all[i] = committed[i]
      /\ \A i \in 1 .. n : all[m + i] = fresh[i]
      /\ \A i \in 1 .. m + n : \/ i \in 1 .. m /\ all[i] = committed[i]
                               \/ i - m \in 1 .. n /\ all[i] = fresh[i - m]
  <2>1. /\ Len(committed) = m /\ Len(fresh) = n
        /\ committed \in Seq(EvidenceType) /\ fresh \in Seq(EvidenceType)
    BY <1>2, <1>3 DEF m
  <2>2. /\ all \in Seq(EvidenceType) /\ Len(all) = Len(committed) + Len(fresh)
        /\ \A i \in 1 .. Len(committed) : all[i] = committed[i]
        /\ \A i \in 1 .. Len(fresh) : all[Len(committed) + i] = fresh[i]
        /\ \A i \in 1 .. Len(committed) + Len(fresh) :
             \/ i \in 1 .. Len(committed) /\ all[i] = committed[i]
             \/ i - Len(committed) \in 1 .. Len(fresh) /\ all[i] = fresh[i - Len(committed)]
    BY <2>1, Concat
  <2> HIDE DEF all
  <2> QED BY <2>1, <2>2
<1>10. PICK k \in 0 .. Len(all) : committed' = SubSeq(all, k + 1, Len(all))
  BY DEF acceptBatch, fresh
<1> HIDE DEF all
<1>11. ASSUME NEW i \in 1 .. m + n, NEW j \in 1 .. m + n, i < j
       PROVE  all[i].ordinal < all[j].ordinal
  <2>1. CASE i \in 1 .. m /\ all[i] = committed[i]
    <3>1. CASE j \in 1 .. m /\ all[j] = committed[j] BY <1>7, <1>11, <2>1, <3>1
    <3>2. CASE j - m \in 1 .. n /\ all[j] = fresh[j - m] BY <1>3, <1>5, <1>8, <2>1, <3>2
    <3> QED BY <1>9, <3>1, <3>2
  <2>2. CASE i - m \in 1 .. n /\ all[i] = fresh[i - m]
    <3>1. j - m \in 1 .. n BY <1>3, <1>11, <2>2
    <3>2. m + (j - m) = j BY <1>3
    <3>3. all[j] = fresh[j - m] BY <1>9, <3>1, <3>2
    <3>4. all[i].ordinal = d + (i - m) /\ all[j].ordinal = d + (j - m) BY <1>5, <2>2, <3>1, <3>3
    <3> QED BY <1>3, <1>11, <3>4
  <2> QED BY <1>9, <2>1, <2>2
<1> DEFINE F == {o \in d + 1 .. d + n : receipt'[o] = "BECAME_EVIDENCE"}
<1>12. MappedRetained \cup F = {all[i].ordinal : i \in 1 .. m + n}
  <2>1. MappedRetained = {committed[i].ordinal : i \in 1 .. m} BY <1>3 DEF MappedRetained
  <2>2. F = d + 1 .. d + n BY <1>1
  <2>3. ASSUME NEW x \in MappedRetained \cup F PROVE \E i \in 1 .. m + n : x = all[i].ordinal
    <3>1. CASE x \in MappedRetained
      <4>1. PICK i \in 1 .. m : x = committed[i].ordinal BY <2>1, <3>1
      <4>2. i \in 1 .. m + n /\ all[i] = committed[i] BY <1>3, <1>9
      <4> QED BY <4>1, <4>2
    <3>2. CASE x \in F
      <4>1. x - d \in 1 .. n /\ d + (x - d) = x /\ m + (x - d) \in 1 .. m + n
        BY <1>3, <2>2, <3>2
      <4>2. all[m + (x - d)].ordinal = x BY <1>5, <1>9, <4>1
      <4> QED BY <4>1, <4>2
    <3> QED BY <3>1, <3>2
  <2>4. ASSUME NEW i \in 1 .. m + n PROVE all[i].ordinal \in MappedRetained \cup F
    <3>1. CASE i \in 1 .. m /\ all[i] = committed[i] BY <2>1, <3>1
    <3>2. CASE i - m \in 1 .. n /\ all[i] = fresh[i - m]
      <4>1. d + (i - m) \in d + 1 .. d + n BY <1>3, <3>2
      <4>2. all[i].ordinal = d + (i - m) BY <1>5, <3>2
      <4> QED BY <2>2, <4>1, <4>2
    <3> QED BY <1>9, <3>1, <3>2
  <2> HIDE DEF F
  <2> QED BY <2>3, <2>4
<1>13. MappedRetained' = {all[i].ordinal : i \in k + 1 .. m + n}
  <2>1. /\ committed' \in Seq(EvidenceType) /\ Len(committed') = Len(all) - k
        /\ \A i \in 1 .. Len(all) - k : committed'[i] = all[k + i]
    BY <1>9, <1>10, Parts
  <2>2. /\ Len(all) = m + n /\ k \in Nat /\ k <= m + n BY <1>3, <1>9
  <2>3. DOMAIN committed' = 1 .. Len(all) - k BY <2>1
  <2>4. /\ \A i \in 1 .. Len(all) - k : k + i \in k + 1 .. m + n
        /\ \A i \in k + 1 .. m + n : i - k \in 1 .. Len(all) - k /\ k + (i - k) = i
    BY <1>3, <2>2
  <2>5. MappedRetained' = {committed'[i].ordinal : i \in 1 .. Len(all) - k}
    BY <2>3 DEF MappedRetained
  <2>6. ASSUME NEW x \in MappedRetained' PROVE \E i \in k + 1 .. m + n : x = all[i].ordinal
    <3>1. PICK i \in 1 .. Len(all) - k : x = committed'[i].ordinal BY <2>5
    <3> QED BY <2>1, <2>4, <3>1
  <2>7. ASSUME NEW i \in k + 1 .. m + n PROVE all[i].ordinal \in MappedRetained'
    BY <2>5, <2>1, <2>4
  <2> HIDE DEF MappedRetained
  <2> QED BY <2>6, <2>7
<1>14. k \in Nat /\ k <= m + n BY <1>3, <1>9
<1>15. Log!IsNewestPart(MappedRetained', MappedRetained \cup F)
  <2> DEFINE A == {all[i].ordinal : i \in 1 .. m + n}
             R == {all[i].ordinal : i \in k + 1 .. m + n}
  <2>1. R \subseteq A BY <1>3, <1>14
  <2>2. ASSUME NEW r \in R, NEW lost \in A \ R PROVE lost < r
    <3>1. PICK j \in k + 1 .. m + n : r = all[j].ordinal OBVIOUS
    <3>2. PICK i \in 1 .. m + n : lost = all[i].ordinal OBVIOUS
    <3>3. i \notin k + 1 .. m + n BY <2>2, <3>2
    <3>4. i < j /\ j \in 1 .. m + n BY <1>3, <1>14, <3>3
    <3> QED BY <1>11, <3>1, <3>2, <3>4
  <2> HIDE DEF A, R
  <2>3. MappedRetained' = R /\ MappedRetained \cup F = A BY <1>12, <1>13 DEF A, R
  <2> HIDE DEF F, MappedRetained
  <2> QED BY <2>1, <2>2, <2>3 DEF Log!IsNewestPart
<1>16. \A o \in d + 1 .. d + n : receipt'[o] \in {"BECAME_EVIDENCE", "NOT_EVIDENCE"} BY <1>1
<1>17. d + n \in Nat /\ d < d + n BY <1>3
<1> QED BY <1>1, <1>2, <1>4, <1>6, <1>15, <1>16, <1>17, DecideRefines DEF z

\* An offer joins the queue it belongs to.
LEMMA OfferGrows ==
  ASSUME CaptureOrderInv, NEW id \in EventIds, NEW b \in Sizes, offerCandidate(id, b)
  PROVE  \E q \in Seq(EntryType) :
           q # <<>> /\ IsGrown(q, clearQueueForEntry, nextCaptureOrdinal) /\ Enqueue(q)
<1> DEFINE o == nextCaptureOrdinal
           e == Candidate(o, id, b)
           q == Append(clearQueueForEntry, e)
<1>1. o \in Nat /\ clearQueueForEntry \in Seq(EntryType)
  BY DEF CaptureOrderInv, TypeOK, QueuesTypeOK, CountersTypeOK, clearQueueForEntry
<1>2. e \in EntryType /\ Lowest(e) = o /\ Highest(e) = o
  BY <1>1 DEF Candidate, CandidateType, EntryType, Lowest, Highest, IsBarrier
<1>3. Enqueue(q) BY DEF offerCandidate
<1> HIDE DEF e
<1>4. q \in Seq(EntryType) /\ q # <<>> /\ IsGrown(q, clearQueueForEntry, o)
  BY <1>1, <1>2, AppendFacts DEF IsGrown
<1> QED BY <1>3, <1>4

\* So does a refusal, in a barrier of its own or in the one at the end.
LEMMA RefuseGrows ==
  ASSUME CaptureOrderInv, NEW b \in Sizes, NEW dim \in Dimensions, refuseUnretainable(b, dim)
  PROVE  \E q \in Seq(EntryType) :
           q # <<>> /\ IsGrown(q, clearQueueForEntry, nextCaptureOrdinal) /\ Enqueue(q)
<1> DEFINE o == nextCaptureOrdinal
           queue == clearQueueForEntry
           g == GapBarrier(o, o, 1, dim)
           merges == queue # <<>> /\ IsBarrier(Last(queue)) /\ Last(queue).dimension = dim
<1>1. o \in Nat /\ queue \in Seq(EntryType)
  BY DEF CaptureOrderInv, TypeOK, QueuesTypeOK, CountersTypeOK, clearQueueForEntry
<1>2. CASE merges
  <2> DEFINE q == [queue EXCEPT ![Len(queue)] = Extended(@, o)]
  <2>1. Enqueue(q) BY <1>2 DEF refuseUnretainable
  <2>2. queue # <<>> /\ IsBarrier(queue[Len(queue)]) BY <1>2 DEF Last
  <2> HIDE DEF queue
  <2>3. /\ q \in Seq(EntryType) /\ Len(q) = Len(queue)
        /\ \A i \in 1..(Len(queue) - 1) : q[i] = queue[i]
        /\ Lowest(q[Len(queue)]) = Lowest(queue[Len(queue)])
        /\ Highest(q[Len(queue)]) = o
    <3>1. q = [queue EXCEPT ![Len(queue)] = Extended(@, o)] /\ queue \in Seq(EntryType) /\ o \in Nat
      BY <1>1 DEF queue
    <3> HIDE DEF q
    <3> QED BY <2>2, <3>1, ExtendedTail
  <2> HIDE DEF q
  <2>4. Len(queue) \in Nat /\ (queue = <<>> <=> Len(queue) = 0) /\ (q = <<>> <=> Len(q) = 0)
    BY <1>1, <2>3
  <2>5. ASSUME NEW i \in 1..Len(q)
        PROVE  \/ /\ i <= Len(queue) /\ Lowest(q[i]) = Lowest(queue[i])
                  /\ Highest(q[i]) = Highest(queue[i])
               \/ /\ i = Len(queue) /\ i = Len(q) /\ Lowest(q[i]) = Lowest(queue[i])
                  /\ Highest(q[i]) = o
    <3>1. CASE i = Len(queue) BY <2>3, <3>1
    <3>2. CASE i \in 1..(Len(queue) - 1) BY <2>3, <2>4, <3>2
    <3> QED BY <2>3, <2>4, <3>1, <3>2
  <2>6. IsGrown(q, queue, o) BY <2>3, <2>5 DEF IsGrown
  <2> QED BY <2>1, <2>2, <2>3, <2>4, <2>6 DEF queue
<1>3. CASE ~merges
  <2> DEFINE q == Append(queue, g)
  <2>1. Enqueue(q) BY <1>3 DEF refuseUnretainable
  <2>2. g \in EntryType /\ Lowest(g) = o /\ Highest(g) = o
    BY <1>1 DEF GapBarrier, BarrierType, EntryType, Lowest, Highest, IsBarrier
  <2> HIDE DEF g
  <2>3. q \in Seq(EntryType) /\ q # <<>> /\ IsGrown(q, queue, o)
    BY <1>1, <2>2, AppendFacts DEF IsGrown
  <2> QED BY <2>1, <2>3
<1> QED BY <1>2, <1>3

\* Once the queue in front of a Clear or a Close has drained, what is decided
\* ends where the queue behind the Clear begins.
LEMMA DrainedVerdict ==
  ASSUME LosslessInv, isIdle
  PROVE  /\ \E d \in Nat : Tiles(postClearPending, d, nextCaptureOrdinal - 1)
                            /\ Len(MappedVerdict) = d
         /\ postClearPending = <<>> => Len(MappedVerdict) = nextCaptureOrdinal - 1
<1>1. inFlight = <<>> /\ pending = <<>> /\ postClearPending \in Seq(EntryType)
  BY DEF isIdle, LosslessInv, StagesAgree, CaptureOrderInv, TypeOK, QueuesTypeOK
<1>2. Queued = postClearPending BY <1>1 DEF Queued
<1>3. PICK d \in Nat : /\ Tiles(Queued, d, nextCaptureOrdinal - 1) /\ Decided(d)
                       /\ d <= nextCaptureOrdinal - 1
  BY DecidedNow
<1>4. Len(MappedVerdict) = d BY <1>3, VerdictNow DEF LosslessInv
<1>5. postClearPending = <<>> => d = nextCaptureOrdinal - 1 BY <1>2, <1>3 DEF Tiles
<1> HIDE DEF MappedVerdict
<1> QED BY <1>2, <1>3, <1>4, <1>5

\* The empty log.
LEMMA LogInit == Init => Log!Init
<1> SUFFICES ASSUME Init PROVE Log!Init OBVIOUS
<1>1. receipt = <<>> /\ nextCaptureOrdinal - 1 = 0 /\ CaptureOrderInv
  BY LosslessInit DEF Init, LosslessInv
<1>2. Decided(0) BY DEF Init, Decided, NoGap
<1>3. MappedVerdict \in Seq(Outcomes) /\ Len(MappedVerdict) = 0 BY <1>1, <1>2, VerdictNow
<1>4. MappedVerdict = <<>>
  <2> HIDE DEF MappedVerdict
  <2> QED BY <1>3
<1>5. MappedCut = -1 /\ MappedRetained = {} BY DEF Init, MappedCut, MappedRetained
<1> QED
  BY <1>1, <1>4, <1>5 DEF Init, Log!Init, Log!NoCut, MappedVerdict, MappedCut, MappedRetained

\* Every step of the coordinator is a step of the log, or none.
LEMMA LogStep ==
  ASSUME ~OfferBeforeCleanup, LosslessInv, LosslessInv', [Next]_vars
  PROVE  [Log!Next]_(Log!vars)
<1> USE DEF queueVars, retainedVars, gapVars, clearVars, closeVars, journalVars
<1> DEFINE Goal == [Log!Next]_(Log!vars)
<1>s. ASSUME UNCHANGED Log!vars PROVE Goal BY <1>s
<1>n. ASSUME Log!Next PROVE Goal BY <1>n
<1> HIDE DEF Goal
<1> SUFFICES Goal BY DEF Goal
<1>0. CaptureOrderInv /\ CaptureOrderInv' /\ StagesAgree BY DEF LosslessInv
<1>1. ASSUME NEW id \in EventIds, NEW b \in Sizes, offerCandidate(id, b) PROVE Goal
  <2>1. PICK q \in Seq(EntryType) :
          q # <<>> /\ IsGrown(q, clearQueueForEntry, nextCaptureOrdinal) /\ Enqueue(q)
    BY <1>0, <1>1, OfferGrows
  <2>2. /\ MayOffer /\ nextCaptureOrdinal' = nextCaptureOrdinal + 1
        /\ receipt' = Append(receipt, "open")
        /\ UNCHANGED <<committed, interval, clearing, clearInProgress, phase>>
    BY <1>1 DEF offerCandidate
  <2>3. Log!Capture BY <1>0, <2>1, <2>2, CaptureRefines
  <2> QED BY <1>n, <2>3 DEF Log!Next
<1>2. ASSUME NEW b \in Sizes, NEW dim \in Dimensions, refuseUnretainable(b, dim) PROVE Goal
  <2>1. PICK q \in Seq(EntryType) :
          q # <<>> /\ IsGrown(q, clearQueueForEntry, nextCaptureOrdinal) /\ Enqueue(q)
    BY <1>0, <1>2, RefuseGrows
  <2>2. /\ MayOffer /\ nextCaptureOrdinal' = nextCaptureOrdinal + 1
        /\ receipt' = Append(receipt, "open")
        /\ UNCHANGED <<committed, interval, clearing, clearInProgress, phase>>
    BY <1>2 DEF refuseUnretainable
  <2>3. Log!Capture BY <1>0, <2>1, <2>2, CaptureRefines
  <2> QED BY <1>n, <2>3 DEF Log!Next
<1>3. CASE settleLeadingGapBarrier BY <1>n, <1>0, <1>3, SettleRefines DEF Log!Next
<1>4. CASE acceptBatch BY <1>n, <1>0, <1>4, AcceptRefines DEF Log!Next
<1>5. CASE clear
  <2>1. /\ phase = "RUNNING" /\ clearing = "no" /\ clearing' = "waiting"
        /\ UNCHANGED <<nextCaptureOrdinal, receipt, committed, interval, phase, postClearPending>>
    BY <1>5 DEF clear
  <2>2. postClearPending = <<>>
    BY <1>0, <2>1 DEF StagesAgree, CaptureOrderInv, NothingBehindTheClear
  <2>3. MappedCut = -1 /\ MappedCut' = nextCaptureOrdinal - 1 BY <2>1, <2>2 DEF MappedCut
  <2>4. DecidedCount' = DecidedCount BY <2>1 DEF DecidedCount
  <2>5. Log!RequestClear BY <2>1, <2>3, <2>4 DEF Log!RequestClear, Log!NoCut, MappedCut
  <2> QED BY <1>n, <2>5 DEF Log!Next
<1>6. CASE clearSucceeds
  <2>1. /\ clearing = "journal" /\ clearing' = "settled" /\ interval' = interval + 1
        /\ committed' = <<>> /\ UNCHANGED <<nextCaptureOrdinal, receipt, phase>>
    BY <1>6 DEF clearSucceeds
  <2>2. isIdle /\ interval < MaxIntervals BY <1>0, <2>1 DEF StagesAgree
  <2>3. MappedCut # -1 /\ Len(MappedVerdict) = MappedCut BY <2>1, <2>2, CutNow, DrainedVerdict
  <2>4. DecidedCount' = DecidedCount /\ MappedRetained' = {} /\ MappedCut' = -1
    BY <2>1 DEF DecidedCount, MappedRetained, MappedCut
  <2>5. Log!CompleteClear
    BY <2>1, <2>2, <2>3, <2>4 DEF Log!CompleteClear, Log!NoCut, MappedCut, MappedVerdict,
       MappedRetained
  <2> QED BY <1>n, <2>5 DEF Log!Next
<1>7. CASE clearFails
  <2>1. /\ clearing = "journal" /\ clearing' = "settled"
        /\ UNCHANGED <<nextCaptureOrdinal, receipt, committed, interval, phase>>
    BY <1>7 DEF clearFails
  <2>2. MappedCut # -1 /\ MappedCut' = -1 BY <2>1, CutNow DEF MappedCut
  <2>3. DecidedCount' = DecidedCount BY <2>1 DEF DecidedCount
  <2>4. Log!FailClear BY <2>1, <2>2, <2>3 DEF Log!FailClear, Log!NoCut, MappedCut
  <2> QED BY <1>n, <2>4 DEF Log!Next
<1>8. CASE closeEnds
  <2>1. /\ closeStage = "journal" /\ phase' = "CLOSED"
        /\ committed' = <<>> \/ committed' = committed
        /\ UNCHANGED <<nextCaptureOrdinal, receipt, interval, clearing, postClearPending>>
    BY <1>8 DEF closeEnds, UnchangedByClose
  <2>2. isIdle /\ clearing = "no" /\ phase # "CLOSED" /\ ~clearInProgress
    BY <1>0, <2>1 DEF StagesAgree
  <2>3. postClearPending = <<>> BY <1>0, <2>2 DEF CaptureOrderInv, NothingBehindTheClear
  <2>4. Len(MappedVerdict) = nextCaptureOrdinal - 1 BY <2>2, <2>3, DrainedVerdict
  <2>5. MappedCut = -1 /\ MappedCut' = -1 /\ DecidedCount' = DecidedCount
    BY <2>1, <2>2 DEF MappedCut, DecidedCount
  <2>6. MappedRetained' = {} \/ MappedRetained' = MappedRetained BY <2>1 DEF MappedRetained
  <2>7. Log!Close
    BY <2>1, <2>2, <2>4, <2>5, <2>6 DEF Log!Close, Log!NoCut, MappedCut, MappedVerdict,
       MappedRetained
  <2> QED BY <1>n, <2>7 DEF Log!Next
<1>9. ASSUME UNCHANGED <<nextCaptureOrdinal, receipt, committed, interval, phase, postClearPending>>,
             (clearing' \in {"waiting", "journal"}) <=> (clearing \in {"waiting", "journal"})
      PROVE  Goal
  <2>1. MappedCut' = MappedCut BY <1>9 DEF MappedCut
  <2>2. (phase' = "CLOSED") = (phase = "CLOSED") BY <1>9
  <2> QED BY <1>9, <1>s, <2>1, <2>2, StutterRefines
<1>10. ASSUME NEW n \in 0..MaxCaptured, takeCandidatePrefix(n) PROVE Goal
  BY <1>9, <1>10 DEF takeCandidatePrefix
<1>11. CASE \/ refuseWithoutOrdinal \/ startProcessing \/ journalCommitFails
            \/ finishProcessing \/ clearBegins \/ clearCleanup
            \/ close \/ closeAfterClear \/ closeBegins \/ UNCHANGED vars
  BY <1>9, <1>11 DEF refuseWithoutOrdinal, startProcessing, journalCommitFails,
     finishProcessing, clearBegins, clearCleanup, close, closeAfterClear, closeBegins,
     UnchangedByClose, vars
<1> QED BY <1>1, <1>2, <1>3, <1>4, <1>5, <1>6, <1>7, <1>8, <1>10, <1>11 DEF Next

\* The coordinator implements the Evidence log: every captured candidate is
\* decided once and in capture order, what is retained is the newest part of
\* what was accepted, a Clear cuts exactly at its request and a Close decides
\* everything before it - as long as nothing is offered between the end of a
\* Clear and its cleanup callback.
THEOREM ImplementsEvidenceLogHolds ==
  ASSUME ~OfferBeforeCleanup PROVE Spec => ImplementsEvidenceLog
<1>1. Init => LosslessInv /\ Log!Init BY LosslessInit, LogInit
<1>2. LosslessInv /\ TypeOK' /\ [Next]_vars => LosslessInv' BY LosslessStep
<1>3. LosslessInv /\ LosslessInv' /\ [Next]_vars => [Log!Next]_(Log!vars) BY LogStep
<1> QED BY <1>1, <1>2, <1>3, TypeCorrect, PTL DEF Spec, ImplementsEvidenceLog, Log!Spec
=============================================================================
