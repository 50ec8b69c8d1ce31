--------------------------- MODULE MemoryHistory ---------------------------
(***************************************************************************)
(* The in-memory Event History coordinator                                 *)
(* (src/core/event-history-authoritative.ts, createMemoryHistory).         *)
(*                                                                         *)
(* One JavaScript thread runs it, so an action is a run of code between    *)
(* two points where other code can run: an await, or a publication, whose  *)
(* observers run synchronously and may call back.  "ordinal" is the        *)
(* capture ordinal; Evidence keeps it here so that properties can relate   *)
(* Evidence order to capture order.                                        *)
(***************************************************************************)
EXTENDS HistoryEntries

CONSTANTS
  MaxCaptured,     \* bound: capture ordinals handed out
  MaxIntervals,    \* bound: History Intervals opened
  MaxNotAccepted,  \* bound: refused offers counted
  OfferBeforeCleanup \* whether an observer or a microtask may offer between
                     \* the end of a Clear and the Clear's cleanup callback

ASSUME BoundsAssumption ==
  /\ MaxCaptured \in Nat /\ MaxIntervals \in Nat /\ MaxNotAccepted \in Nat
  /\ OfferBeforeCleanup \in BOOLEAN

VARIABLES
  phase, closing,                    \* lifecycle
  interval,                          \* ordinal of the current interval
  pending, postClearPending, inFlight,
  committed, retainedEventIds, retainedCount, retainedBytes,
  nextCaptureOrdinal, nextEvidenceSequence, committedEvidenceBoundary,
  awaitingCount, awaitingBytes, accepted, notAccepted,
  gapCount, firstGap, latestGap,
  journalEnabled, attempt,           \* attempt: commit attempts of this batch
  scheduled, processing,             \* processing: where processPending is
  clearing, clearInProgress, lastClearResult,
  closeStage, idleWaiters,
  receipt                            \* receipt[o]: the promise of ordinal o

queueVars == <<pending, postClearPending, inFlight>>
retainedVars == <<committed, retainedEventIds, retainedCount, retainedBytes>>
gapVars == <<gapCount, firstGap, latestGap>>
clearVars == <<clearing, clearInProgress, lastClearResult>>
closeVars == <<phase, closing, closeStage>>
journalVars == <<journalEnabled, attempt>>
vars == <<queueVars, retainedVars, gapVars, clearVars, closeVars, journalVars,
          interval, nextCaptureOrdinal, nextEvidenceSequence,
          committedEvidenceBoundary, awaitingCount, awaitingBytes, accepted,
          notAccepted, scheduled, processing, idleWaiters, receipt>>
-----------------------------------------------------------------------------
(* Capacity. *)

\* A journal failure adopts the memory tier; so does a fallback at startup.
capacityTier == IF journalEnabled THEN "NORMAL" ELSE "LOWER"
limits == Limits[capacityTier]

\* The dimension in which a candidate of b bytes cannot be admitted.
RefusedIn(b, dim) ==
  \/ dim = "RETAINED_COUNT" /\ limits.maxRetainedCount < 1
  \/ dim = "RETAINED_BYTES" /\ limits.maxRetainedCount >= 1 /\ b > limits.maxRetainedBytes
  \/ /\ dim = "PENDING_BYTES"
     /\ limits.maxRetainedCount >= 1 /\ b <= limits.maxRetainedBytes
     /\ awaitingBytes + b > limits.pendingStopBytes

\* Mutant: only the count budget starts a retention advance.
IsRetentionCut_CountOnly(s, count, total, k) ==
  IF count <= limits.maxRetainedCount
    THEN k = 0
    ELSE k = count - rollingLowWater(limits.maxRetainedCount)

\* The number of oldest entries of s that a retention advance removes, when
\* s holds count entries of total bytes.
IsRetentionCut(s, count, total, k) ==
  IF OverHighWater(limits, count, total)
    THEN IsPrefixTrim(s, count, total, LowWater(limits), k)
    ELSE k = 0
-----------------------------------------------------------------------------
(* Scheduling: processPending runs from a microtask, one run at a time. *)

\* Mutant: only the first entry of a queue schedules a run.
scheduleProcessing_FirstOnly(queue) ==
  scheduled' = (scheduled \/ (processing = "no" /\ Len(queue) = 1))

scheduleProcessing(queue) ==
  scheduled' = (scheduled \/ (processing = "no" /\ queue # <<>>))

isIdle == processing = "no" /\ pending = <<>>

Init ==
  /\ phase = "RUNNING" /\ closing = FALSE /\ closeStage = "none"
  /\ interval = 1
  /\ pending = <<>> /\ postClearPending = <<>> /\ inFlight = <<>>
  /\ committed = <<>> /\ retainedEventIds = {} /\ retainedCount = 0 /\ retainedBytes = 0
  /\ nextCaptureOrdinal = 1 /\ nextEvidenceSequence = 1 /\ committedEvidenceBoundary = 0
  /\ awaitingCount = 0 /\ awaitingBytes = 0 /\ accepted = 0 /\ notAccepted = 0
  /\ gapCount = 0 /\ firstGap = NoGap /\ latestGap = NoGap
  /\ journalEnabled \in BOOLEAN /\ attempt = 0
  /\ scheduled = FALSE /\ processing = "no"
  /\ clearing = "no" /\ clearInProgress = FALSE /\ lastClearResult = FALSE
  /\ idleWaiters = {}
  /\ receipt = <<>>
-----------------------------------------------------------------------------
(* offer *)

MayOffer ==
  /\ phase = "RUNNING" /\ ~closing
  /\ nextCaptureOrdinal <= MaxCaptured
  /\ clearing = "settled" => OfferBeforeCleanup

\* Mutant: a pending Clear does not hold back the offers that follow it.
Enqueue_IgnoresClear(q) ==
  pending' = q /\ scheduleProcessing(q) /\ UNCHANGED postClearPending

\* The entry joins the queue of the side of the pending Clear it is on.
Enqueue(q) ==
  IF clearInProgress
    THEN postClearPending' = q /\ UNCHANGED <<pending, scheduled>>
    ELSE pending' = q /\ scheduleProcessing(q) /\ UNCHANGED postClearPending

clearQueueForEntry == IF clearInProgress THEN postClearPending ELSE pending

offerCandidate(id, b) ==
  /\ MayOffer
  /\ \A dim \in Dimensions : ~RefusedIn(b, dim)
  /\ Enqueue(Append(clearQueueForEntry, Candidate(nextCaptureOrdinal, id, b)))
  /\ nextCaptureOrdinal' = nextCaptureOrdinal + 1
  /\ receipt' = Append(receipt, "open")
  /\ awaitingCount' = awaitingCount + 1
  /\ awaitingBytes' = awaitingBytes + b
  /\ lastClearResult' = FALSE
  /\ UNCHANGED <<inFlight, retainedVars, gapVars, closeVars, journalVars, interval,
                 nextEvidenceSequence, committedEvidenceBoundary, accepted, notAccepted,
                 processing, clearing, clearInProgress, idleWaiters>>

\* Consecutive refusals in one dimension share the barrier at the tail.
refuseUnretainable(b, dim) ==
  LET queue == clearQueueForEntry
      o == nextCaptureOrdinal
      merges == /\ queue # <<>> /\ IsBarrier(Last(queue)) /\ Last(queue).dimension = dim
  IN  /\ MayOffer
      /\ notAccepted < MaxNotAccepted
      /\ RefusedIn(b, dim)
      /\ Enqueue(IF merges
                 THEN [queue EXCEPT ![Len(queue)] = Extended(@, o)]
                 ELSE Append(queue, GapBarrier(o, o, 1, dim)))
      /\ nextCaptureOrdinal' = o + 1
      /\ receipt' = Append(receipt, "open")
      /\ notAccepted' = notAccepted + 1
      /\ lastClearResult' = FALSE
      /\ UNCHANGED <<inFlight, retainedVars, gapVars, closeVars, journalVars, interval,
                     nextEvidenceSequence, committedEvidenceBoundary, awaitingCount,
                     awaitingBytes, accepted, processing, clearing, clearInProgress,
                     idleWaiters>>

\* An invalid candidate, or any offer after the close cut, takes no ordinal.
refuseWithoutOrdinal ==
  /\ notAccepted < MaxNotAccepted
  /\ notAccepted' = notAccepted + 1
  /\ UNCHANGED <<queueVars, retainedVars, gapVars, clearVars, closeVars, journalVars,
                 interval, nextCaptureOrdinal, nextEvidenceSequence,
                 committedEvidenceBoundary, awaitingCount, awaitingBytes, accepted,
                 scheduled, processing, idleWaiters, receipt>>
-----------------------------------------------------------------------------
(* processPending *)

startProcessing ==
  /\ scheduled
  /\ scheduled' = FALSE
  /\ processing' = "loop"
  /\ UNCHANGED <<queueVars, retainedVars, gapVars, clearVars, closeVars, journalVars,
                 interval, nextCaptureOrdinal, nextEvidenceSequence,
                 committedEvidenceBoundary, awaitingCount, awaitingBytes, accepted,
                 notAccepted, idleWaiters, receipt>>

Settle(ordinals, outcome) ==
  receipt' = [o \in DOMAIN receipt |-> IF o \in ordinals THEN outcome ELSE receipt[o]]

\* Mutant: the gap names the sequence that the next Evidence will take.
AcceptanceGap_NextSequence(o) ==
  [interval |-> interval, captureOrdinal |-> o, afterEvidence |-> nextEvidenceSequence]

AcceptanceGap(o) ==
  [interval |-> interval, captureOrdinal |-> o, afterEvidence |-> committedEvidenceBoundary]

\* Mutant: only the first refusal of a barrier learns its outcome.
SettledBy_FirstOnly(barrier) == {barrier.first}

\* Refusals that share a barrier share its receipt.
SettledBy(barrier) == barrier.first .. barrier.latest

settleLeadingGapBarrier ==
  /\ processing = "loop"
  /\ pending # <<>> /\ IsBarrier(Head(pending))
  /\ LET barrier == Head(pending)
     IN  /\ firstGap' = IF firstGap = NoGap THEN AcceptanceGap(barrier.first) ELSE firstGap
         /\ latestGap' = AcceptanceGap(barrier.latest)
         /\ gapCount' = gapCount + barrier.count
         /\ Settle(SettledBy(barrier), "NOT_EVIDENCE")
  /\ pending' = Tail(pending)
  /\ UNCHANGED <<postClearPending, inFlight, retainedVars, clearVars, closeVars,
                 journalVars, interval, nextCaptureOrdinal, nextEvidenceSequence,
                 committedEvidenceBoundary, awaitingCount, awaitingBytes, accepted,
                 notAccepted, scheduled, processing, idleWaiters>>

\* An entry ends the batch when it is a barrier or repeats an identity.
RepeatsIdentity(i) ==
  /\ IsCandidate(pending[i])
  /\ \/ pending[i].eventId \in retainedEventIds
     \/ \E j \in 1..(i - 1) : /\ IsCandidate(pending[j])
                              /\ pending[j].eventId = pending[i].eventId

\* Mutant: a barrier does not end the batch.
IsBatchLength_ThroughBarriers(n) ==
  /\ \A i \in 1..n : ~RepeatsIdentity(i)
  /\ n < Len(pending) => RepeatsIdentity(n + 1)

IsBatchLength(n) ==
  /\ \A i \in 1..n : IsCandidate(pending[i]) /\ ~RepeatsIdentity(i)
  /\ n < Len(pending) => IsBarrier(pending[n + 1]) \/ RepeatsIdentity(n + 1)

\* The repeated identity that ended the batch becomes a barrier of its own,
\* in its place, and keeps its receipt.
convertDuplicateIdentityToGap(n) ==
  LET duplicate == pending[n + 1]
      o == duplicate.ordinal
  IN  /\ pending' = <<GapBarrier(o, o, 1, "EVENT_IDENTITY")>>
                    \o SubSeq(pending, n + 2, Len(pending))
      /\ awaitingCount' = awaitingCount - 1
      /\ awaitingBytes' = awaitingBytes - duplicate.bytes
      /\ notAccepted' = notAccepted + 1

takeCandidatePrefix(n) ==
  /\ processing = "loop"
  /\ pending # <<>> /\ IsCandidate(Head(pending))
  /\ n <= Len(pending) /\ IsBatchLength(n)
  /\ inFlight' = SubSeq(pending, 1, n)
  /\ IF n < Len(pending) /\ IsCandidate(pending[n + 1])
       THEN convertDuplicateIdentityToGap(n)
       ELSE /\ pending' = SubSeq(pending, n + 1, Len(pending))
            /\ UNCHANGED <<awaitingCount, awaitingBytes, notAccepted>>
  /\ processing' = IF n = 0 THEN "loop" ELSE "commit"
  /\ attempt' = IF n = 0 THEN 0 ELSE 1
  /\ UNCHANGED <<postClearPending, retainedVars, gapVars, clearVars, closeVars,
                 journalEnabled, interval, nextCaptureOrdinal, nextEvidenceSequence,
                 committedEvidenceBoundary, accepted, scheduled, idleWaiters, receipt>>

\* Three failed attempts open the circuit: the journal is given up.
journalCommitFails ==
  /\ processing = "commit" /\ journalEnabled
  /\ IF attempt < 3
       THEN attempt' = attempt + 1 /\ UNCHANGED journalEnabled
       ELSE journalEnabled' = FALSE /\ UNCHANGED attempt
  /\ UNCHANGED <<queueVars, retainedVars, gapVars, clearVars, closeVars, interval,
                 nextCaptureOrdinal, nextEvidenceSequence, committedEvidenceBoundary,
                 awaitingCount, awaitingBytes, accepted, notAccepted, scheduled,
                 processing, idleWaiters, receipt>>

EvidenceOf(batch) ==
  [i \in 1..Len(batch) |-> [kind |-> "evidence",
                            sequence |-> nextEvidenceSequence + i - 1,
                            interval |-> interval,
                            ordinal |-> batch[i].ordinal,
                            eventId |-> batch[i].eventId,
                            bytes |-> batch[i].bytes]]

\* The batch is committed, or memory accepts it; retention advances at once.
acceptBatch ==
  /\ processing = "commit"
  /\ LET n == Len(inFlight)
         all == committed \o EvidenceOf(inFlight)
         bytes == retainedBytes + BytesOf(inFlight)
     IN  /\ \E k \in 0..Len(all) :
              /\ IsRetentionCut(all, retainedCount + n, bytes, k)
              /\ committed' = SubSeq(all, k + 1, Len(all))
              /\ retainedEventIds' = (retainedEventIds \cup IdsOf(inFlight))
                                       \ IdsOf(SubSeq(all, 1, k))
              /\ retainedCount' = retainedCount + n - k
              /\ retainedBytes' = bytes - BytesOf(SubSeq(all, 1, k))
         /\ nextEvidenceSequence' = nextEvidenceSequence + n
         /\ committedEvidenceBoundary' = nextEvidenceSequence + n - 1
         /\ awaitingCount' = awaitingCount - n
         /\ awaitingBytes' = awaitingBytes - BytesOf(inFlight)
         /\ accepted' = accepted + n
         /\ Settle({inFlight[i].ordinal : i \in 1..n}, "BECAME_EVIDENCE")
  /\ inFlight' = <<>>
  /\ processing' = "loop"
  /\ attempt' = 0
  /\ UNCHANGED <<pending, postClearPending, gapVars, clearVars, closeVars,
                 journalEnabled, interval, nextCaptureOrdinal, notAccepted, scheduled,
                 idleWaiters>>

resolveIdleWaiters == idleWaiters' = {}

finishProcessing ==
  /\ processing = "loop" /\ pending = <<>>
  /\ processing' = "no"
  /\ resolveIdleWaiters
  /\ UNCHANGED <<queueVars, retainedVars, gapVars, clearVars, closeVars, journalVars,
                 interval, nextCaptureOrdinal, nextEvidenceSequence,
                 committedEvidenceBoundary, awaitingCount, awaitingBytes, accepted,
                 notAccepted, scheduled, receipt>>
-----------------------------------------------------------------------------
(* clear: "waiting" for idle, erasing the "journal", "settled" until its     *)
(* cleanup callback has run.                                                 *)

\* A Clear of an interval cleared before and untouched since repeats the
\* previous answer.
RepeatsLastClear ==
  lastClearResult /\ committed = <<>> /\ pending = <<>> /\ postClearPending = <<>>
                  /\ inFlight = <<>>

waitForIdle(waiter) ==
  idleWaiters' = IF isIdle THEN idleWaiters ELSE idleWaiters \cup {waiter}

clear ==
  /\ phase = "RUNNING" /\ ~closing
  /\ clearing = "no"
  /\ interval < MaxIntervals
  /\ ~RepeatsLastClear
  /\ clearInProgress' = TRUE
  /\ clearing' = "waiting"
  /\ waitForIdle("clear")
  /\ UNCHANGED <<queueVars, retainedVars, gapVars, closeVars, journalVars, interval,
                 nextCaptureOrdinal, nextEvidenceSequence, committedEvidenceBoundary,
                 awaitingCount, awaitingBytes, accepted, notAccepted, scheduled,
                 processing, lastClearResult, receipt>>

clearBegins ==
  /\ clearing = "waiting" /\ "clear" \notin idleWaiters
  /\ clearing' = "journal"
  /\ UNCHANGED <<queueVars, retainedVars, gapVars, closeVars, journalVars, interval,
                 nextCaptureOrdinal, nextEvidenceSequence, committedEvidenceBoundary,
                 awaitingCount, awaitingBytes, accepted, notAccepted, scheduled,
                 processing, clearInProgress, lastClearResult, idleWaiters, receipt>>

\* Mutant: the queue behind the Clear is not rejoined.
rejoinPostClearQueue_Forgotten == UNCHANGED <<pending, postClearPending>>

rejoinPostClearQueue ==
  /\ pending' = pending \o postClearPending
  /\ postClearPending' = <<>>

clearSucceeds ==
  /\ clearing = "journal"
  /\ interval' = interval + 1
  /\ committed' = <<>> /\ retainedEventIds' = {} /\ retainedCount' = 0 /\ retainedBytes' = 0
  /\ gapCount' = 0 /\ firstGap' = NoGap /\ latestGap' = NoGap
  /\ rejoinPostClearQueue
  /\ clearInProgress' = FALSE
  /\ lastClearResult' = TRUE
  /\ clearing' = "settled"
  /\ UNCHANGED <<inFlight, closeVars, journalVars, nextCaptureOrdinal,
                 nextEvidenceSequence, committedEvidenceBoundary, awaitingCount,
                 awaitingBytes, accepted, notAccepted, scheduled, processing,
                 idleWaiters, receipt>>

\* Erasure refused or thrown: the interval goes on, the queue rejoins it.
clearFails ==
  /\ clearing = "journal"
  /\ rejoinPostClearQueue
  /\ lastClearResult' = FALSE
  /\ clearing' = "settled"
  /\ UNCHANGED <<inFlight, retainedVars, gapVars, closeVars, journalVars, interval,
                 nextCaptureOrdinal, nextEvidenceSequence, committedEvidenceBoundary,
                 awaitingCount, awaitingBytes, accepted, notAccepted, scheduled,
                 processing, clearInProgress, idleWaiters, receipt>>

\* The callback of clearPromise.finally.
clearCleanup ==
  /\ clearing = "settled"
  /\ clearing' = "no"
  /\ clearInProgress' = FALSE
  /\ scheduleProcessing(pending)
  /\ UNCHANGED <<queueVars, retainedVars, gapVars, closeVars, journalVars, interval,
                 nextCaptureOrdinal, nextEvidenceSequence, committedEvidenceBoundary,
                 awaitingCount, awaitingBytes, accepted, notAccepted, processing,
                 lastClearResult, idleWaiters, receipt>>
-----------------------------------------------------------------------------
(* close: intake is cut at once; what is queued still drains. *)

UnchangedByClose ==
  UNCHANGED <<queueVars, gapVars, clearVars, journalVars, interval, nextCaptureOrdinal,
              nextEvidenceSequence, committedEvidenceBoundary, awaitingCount,
              awaitingBytes, accepted, notAccepted, scheduled, processing, receipt>>

close ==
  /\ phase = "RUNNING" /\ ~closing
  /\ closing' = TRUE
  /\ IF clearing # "no"
       THEN closeStage' = "afterClear" /\ UNCHANGED idleWaiters
       ELSE closeStage' = "waiting" /\ waitForIdle("close")
  /\ UnchangedByClose /\ UNCHANGED <<phase, retainedVars>>

closeAfterClear ==
  /\ closeStage = "afterClear" /\ clearing = "no"
  /\ closeStage' = "waiting"
  /\ waitForIdle("close")
  /\ UnchangedByClose /\ UNCHANGED <<phase, closing, retainedVars>>

closeBegins ==
  /\ closeStage = "waiting" /\ "close" \notin idleWaiters
  /\ closeStage' = "journal"
  /\ UnchangedByClose /\ UNCHANGED <<phase, closing, retainedVars, idleWaiters>>

closeEnds ==
  /\ closeStage = "journal"
  /\ closeStage' = "done"
  /\ phase' = "CLOSED"
  /\ \/ /\ committed' = <<>> /\ retainedEventIds' = {}
        /\ retainedCount' = 0 /\ retainedBytes' = 0
     \/ UNCHANGED retainedVars     \* CLOSE_FAILED: erasure threw
  /\ UnchangedByClose /\ UNCHANGED <<closing, idleWaiters>>
-----------------------------------------------------------------------------
Next ==
  \/ \E id \in EventIds, b \in Sizes : offerCandidate(id, b)
  \/ \E b \in Sizes, dim \in Dimensions : refuseUnretainable(b, dim)
  \/ refuseWithoutOrdinal
  \/ startProcessing
  \/ settleLeadingGapBarrier
  \/ \E n \in 0..MaxCaptured : takeCandidatePrefix(n)
  \/ journalCommitFails
  \/ acceptBatch
  \/ finishProcessing
  \/ clear \/ clearBegins \/ clearSucceeds \/ clearFails \/ clearCleanup
  \/ close \/ closeAfterClear \/ closeBegins \/ closeEnds

\* Microtasks run, and every journal promise settles one way or the other.
Fairness ==
  /\ WF_vars(startProcessing)
  /\ WF_vars(settleLeadingGapBarrier)
  /\ WF_vars(\E n \in 0..MaxCaptured : takeCandidatePrefix(n))
  /\ WF_vars(journalCommitFails \/ acceptBatch)
  /\ WF_vars(finishProcessing)
  /\ WF_vars(clearBegins) /\ WF_vars(clearSucceeds \/ clearFails) /\ WF_vars(clearCleanup)
  /\ WF_vars(closeAfterClear) /\ WF_vars(closeBegins) /\ WF_vars(closeEnds)

Spec == Init /\ [][Next]_vars
FairSpec == Spec /\ Fairness
-----------------------------------------------------------------------------
(* Properties *)

LifecycleTypeOK ==
  /\ phase \in {"RUNNING", "CLOSED"} /\ closing \in BOOLEAN
  /\ closeStage \in {"none", "afterClear", "waiting", "journal", "done"}
  /\ clearing \in {"no", "waiting", "journal", "settled"}
  /\ clearInProgress \in BOOLEAN /\ lastClearResult \in BOOLEAN
  /\ idleWaiters \subseteq {"clear", "close"}
  /\ scheduled \in BOOLEAN /\ processing \in {"no", "loop", "commit"}
  /\ journalEnabled \in BOOLEAN

QueuesTypeOK ==
  /\ pending \in Seq(EntryType)
  /\ postClearPending \in Seq(EntryType)
  /\ inFlight \in Seq(CandidateType)
  /\ committed \in Seq(EvidenceType)
  /\ retainedEventIds \subseteq EventIds

CountersTypeOK ==
  /\ attempt \in 0..3
  /\ interval \in Nat /\ nextCaptureOrdinal \in Nat \ {0}
  /\ nextEvidenceSequence \in Nat \ {0} /\ committedEvidenceBoundary \in Nat
  /\ accepted \in Nat /\ notAccepted \in Nat
  /\ gapCount \in Nat /\ firstGap \in GapType /\ latestGap \in GapType
  /\ receipt \in Seq(Outcomes) /\ Len(receipt) = nextCaptureOrdinal - 1

\* The shape of the state; the byte and count totals are OpenReceiptsAreQueued
\* and RetainedTail.
TypeOK == LifecycleTypeOK /\ QueuesTypeOK /\ CountersTypeOK

\* Evidence, the batch in flight, the queue and the queue behind a pending
\* Clear hold capture ordinals in capture order, across refusals, duplicate
\* identities, fallback and failed or successful Clears: Evidence is
\* committed in the order in which it was captured.
CaptureOrder ==
  /\ InOrder(committed) /\ InOrder(inFlight) /\ InOrder(pending)
  /\ InOrder(postClearPending)
  /\ Precedes(committed, inFlight) /\ Precedes(committed, pending)
  /\ Precedes(committed, postClearPending) /\ Precedes(inFlight, pending)
  /\ Precedes(inFlight, postClearPending) /\ Precedes(pending, postClearPending)

Queued == inFlight \o pending \o postClearPending
QueueEntries == ToSet(Queued)

\* The number of candidates in a queue.
CandidateCount(q) == Total([i \in DOMAIN q |-> IF IsCandidate(q[i]) THEN 1 ELSE 0])

\* A receipt is open exactly while its ordinal is queued or in flight, and a
\* barrier stands for exactly the range of ordinals it counts: no refusal,
\* duplicate, batch or Clear settles an ordinal twice, loses one, or reports
\* a gap range with a wrong count, and a closed history owes no answer. The
\* counters that admission and status read agree with this: pending bytes are
\* those of the waiting candidates and never above the admission budget, and
\* every captured candidate is accepted, awaiting, or refused with an ordinal.
OpenReceiptsAreQueued ==
  /\ {o \in DOMAIN receipt : receipt[o] = "open"} = UNION {OrdinalsOf(e) : e \in QueueEntries}
  /\ \A e \in QueueEntries : IsBarrier(e) => e.count = Cardinality(OrdinalsOf(e))
  /\ phase = "CLOSED" => QueueEntries = {}
  /\ awaitingCount = CandidateCount(Queued) /\ awaitingBytes = CandidateBytes(Queued)
  /\ \E t \in Tiers : awaitingBytes <= Limits[t].pendingStopBytes
  /\ accepted = Cardinality({o \in DOMAIN receipt : receipt[o] = "BECAME_EVIDENCE"})
  /\ nextCaptureOrdinal - 1 - accepted - awaitingCount <= notAccepted

\* What is retained is the newest part of the current interval's Evidence
\* sequence, without holes, within the tier's budgets once a batch and its
\* retention advance are done; the byte and count budgets measure it exactly,
\* and the index that refuses duplicate identities holds its identities, each
\* of them retained once.
RetainedTail ==
  /\ retainedCount = Len(committed) /\ retainedBytes = BytesOf(committed)
  /\ retainedEventIds = IdsOf(committed) /\ Cardinality(retainedEventIds) = Len(committed)
  /\ \A i \in DOMAIN committed :
       /\ committed[i].sequence = nextEvidenceSequence - 1 - Len(committed) + i
       /\ committed[i].interval = interval
  /\ processing # "commit" => /\ retainedCount <= limits.maxRetainedCount
                             /\ retainedBytes <= limits.maxRetainedBytes

\* A reported gap names the Evidence directly before it: as many candidates
\* became Evidence before the refused ordinal as the sequence it names.
GapPlacement ==
  \A gap \in {firstGap, latestGap} \ {NoGap} :
    /\ gap.interval = interval
    /\ gap.afterEvidence =
         Cardinality({o \in 1..(gap.captureOrdinal - 1) : receipt[o] = "BECAME_EVIDENCE"})

\* Nothing that was captured is lost or counted wrongly: receipts, queues and
\* counters agree, the tail is retained whole, and gaps stand where they belong.
NothingIsLost == OpenReceiptsAreQueued /\ RetainedTail /\ GapPlacement

DecidedCount ==
  Cardinality({o \in DOMAIN receipt : \A p \in 1..o : receipt[p] # "open"})

Log == INSTANCE EvidenceLog WITH
  captured <- nextCaptureOrdinal - 1,
  verdict <- SubSeq(receipt, 1, DecidedCount),
  retained <- {committed[i].ordinal : i \in DOMAIN committed},
  cut <- IF clearing \notin {"waiting", "journal"} THEN -1
         ELSE IF postClearPending = <<>> THEN nextCaptureOrdinal - 1
         ELSE Lowest(postClearPending[1]) - 1,
  closed <- phase = "CLOSED"

\* The coordinator implements the Evidence log: ordinals are decided in
\* capture order, retention drops the oldest, Clear cuts at its request.
ImplementsEvidenceLog == Log!Spec

\* Every offer is eventually decided, whatever the journal does; a requested
\* Clear is answered and a Close ends, also when they overlap.
EveryOperationEnds ==
  /\ \A o \in 1..MaxCaptured :
       (o \in DOMAIN receipt) ~> (o \in DOMAIN receipt /\ receipt[o] # "open")
  /\ clearing # "no" ~> clearing = "no"
  /\ closing ~> phase = "CLOSED"
=============================================================================
