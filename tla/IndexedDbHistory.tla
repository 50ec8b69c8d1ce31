-------------------------- MODULE IndexedDbHistory --------------------------
(***************************************************************************)
(* The durable Event History coordinator                                   *)
(* (src/core/event-history-indexeddb.ts, createHistory).                   *)
(*                                                                         *)
(* An action is a run of code between two awaits.  "journal" is what the   *)
(* database holds: its control record and its Evidence records, which one  *)
(* transaction changes together or, when it fails or times out, not at all.*)
(* The rest is the memory of the panel, which has to agree with it.        *)
(* "batch" is the local variable of processPending; "processing" says at   *)
(* which of its awaits it is.                                              *)
(***************************************************************************)
EXTENDS HistoryEntries

CONSTANTS
  SoftBatchBytes,    \* accounted bytes at which a batch stops growing
  MaxCaptured,       \* bound: capture ordinals handed out
  MaxIntervals,      \* bound: History Intervals opened
  OfferBeforeCleanup \* whether an observer or a microtask may offer between
                     \* the end of a failed Clear and its cleanup callback

ASSUME BoundsAssumption ==
  /\ SoftBatchBytes \in Nat /\ MaxCaptured \in Nat /\ MaxIntervals \in Nat
  /\ OfferBeforeCleanup \in BOOLEAN

VARIABLES
  phase, closing, closeStage,
  interval,
  pending, postClearPending, batch,
  awaitingBytes, captured, receipt,
  journal, persistenceMode, attempt,
  durableRetentionEntries, durableRetainedCount, durableBytes, durableRetainedRange,
  volatileEvidence,
  retainedEventIds, retainedCount, retainedBytes, retainedRange,
  nextSequence, committedEvidenceBoundary,
  gapCount, firstGap, latestGap,
  scheduled, processing, idleWaiters,
  clearing, clearInProgress, lastClearResult

closeVars == <<phase, closing, closeStage>>
queueVars == <<pending, postClearPending>>
captureVars == <<captured, receipt>>
durableVars == <<durableRetentionEntries, durableRetainedCount, durableBytes,
                 durableRetainedRange>>
retainedVars == <<volatileEvidence, retainedEventIds, retainedCount, retainedBytes,
                  retainedRange>>
journalVars == <<journal, persistenceMode, attempt>>
sequenceVars == <<nextSequence, committedEvidenceBoundary>>
gapVars == <<gapCount, firstGap, latestGap>>
clearVars == <<clearing, clearInProgress, lastClearResult>>
historyVars == <<interval, journalVars, durableVars, retainedVars, sequenceVars, gapVars>>
vars == <<closeVars, queueVars, captureVars, batch, awaitingBytes, historyVars,
          scheduled, processing, idleWaiters, clearVars>>
-----------------------------------------------------------------------------
(* Ranges of sequences, the control record, capacity. *)

NoRange == <<0, 0>>
RangeOf(entries) ==
  IF entries = <<>> THEN NoRange ELSE <<Head(entries).sequence, Last(entries).sequence>>

createControl(evidence, next, boundary, count, bytes, range) ==
  [interval |-> interval, evidence |-> evidence, nextSequence |-> next,
   committedEvidenceBoundary |-> boundary, retainedCount |-> count,
   accountedBytes |-> bytes, retainedRange |-> range]

\* A deleted database.
NoJournal == [interval |-> 0, evidence |-> <<>>, nextSequence |-> 1,
              committedEvidenceBoundary |-> 0, retainedCount |-> 0,
              accountedBytes |-> 0, retainedRange |-> NoRange]

\* The fallback to memory adopts the memory tier.
capacityTier == IF persistenceMode = "INDEXEDDB" THEN "NORMAL" ELSE "LOWER"
limits == Limits[capacityTier]

retentionBatchLimit ==
  LET low == rollingLowWater(limits.maxRetainedCount)
  IN  IF low < 1 THEN 1 ELSE IF low > 256 THEN 256 ELSE low

Reduced(a, b) == IF a > b THEN a - b ELSE 0

RefusedIn(b, dim) ==
  CASE limits.maxRetainedCount < 1 -> dim = "RETAINED_COUNT"
    [] limits.maxRetainedCount >= 1 /\ b > limits.maxRetainedBytes -> dim = "RETAINED_BYTES"
    [] limits.maxRetainedCount >= 1 /\ b <= limits.maxRetainedBytes
         -> dim = "PENDING_BYTES" /\ awaitingBytes + b > limits.pendingStopBytes
-----------------------------------------------------------------------------
(* Scheduling: processPending runs from a timer, one run at a time. *)

isIdle == processing = "no" /\ pending = <<>>

schedule(queue) ==
  scheduled' = (scheduled \/ (processing = "no" /\ queue # <<>>))

Init ==
  /\ phase = "RUNNING" /\ closing = FALSE /\ closeStage = "none"
  /\ interval = 1
  /\ pending = <<>> /\ postClearPending = <<>> /\ batch = <<>>
  /\ awaitingBytes = 0 /\ captured = 0 /\ receipt = <<>>
  /\ journal = [NoJournal EXCEPT !.interval = 1]
  /\ persistenceMode = "INDEXEDDB" /\ attempt = 0
  /\ durableRetentionEntries = <<>> /\ durableRetainedCount = 0 /\ durableBytes = 0
  /\ durableRetainedRange = NoRange
  /\ volatileEvidence = <<>> /\ retainedEventIds = {}
  /\ retainedCount = 0 /\ retainedBytes = 0 /\ retainedRange = NoRange
  /\ nextSequence = 1 /\ committedEvidenceBoundary = 0
  /\ gapCount = 0 /\ firstGap = NoGap /\ latestGap = NoGap
  /\ scheduled = FALSE /\ processing = "no" /\ idleWaiters = {}
  /\ clearing = "no" /\ clearInProgress = FALSE /\ lastClearResult = FALSE
-----------------------------------------------------------------------------
(* offer *)

MayOffer ==
  /\ phase = "RUNNING" /\ ~closing
  /\ captured < MaxCaptured
  /\ clearing = "settled" /\ clearInProgress => OfferBeforeCleanup

clearQueueForEntry == IF clearInProgress THEN postClearPending ELSE pending

\* Mutant: a pending Clear does not hold back the offers that follow it.
Queue_IgnoresClear(q) == pending' = q /\ UNCHANGED postClearPending

\* q replaces the queue of the side of the pending Clear that the offer is on.
Queue(q) ==
  IF clearInProgress
    THEN postClearPending' = q /\ UNCHANGED pending
    ELSE pending' = q /\ UNCHANGED postClearPending

\* What both outcomes of offer have in common.
TakesOrdinal ==
  /\ captured' = captured + 1
  /\ receipt' = Append(receipt, "open")
  /\ lastClearResult' = FALSE
  /\ UNCHANGED <<closeVars, batch, historyVars, processing, idleWaiters, clearing,
                 clearInProgress>>

offer(id, b) ==
  /\ MayOffer
  /\ \A dim \in Dimensions : ~RefusedIn(b, dim)
  /\ Queue(Append(clearQueueForEntry, Candidate(captured + 1, id, b)))
  /\ IF clearInProgress THEN UNCHANGED scheduled ELSE schedule(pending')
  /\ awaitingBytes' = awaitingBytes + b
  /\ TakesOrdinal

refuseUnretainable(b, dim) ==
  LET queue == clearQueueForEntry
      o == captured + 1
      merges == queue # <<>> /\ IsBarrier(Last(queue)) /\ Last(queue).dimension = dim
  IN  /\ MayOffer
      /\ RefusedIn(b, dim)
      /\ Queue(IF merges
               THEN [queue EXCEPT ![Len(queue)] = Extended(@, o)]
               ELSE Append(queue, GapBarrier(o, o, 1, dim)))
      /\ IF merges \/ clearInProgress THEN UNCHANGED scheduled ELSE schedule(pending')
      /\ UNCHANGED awaitingBytes
      /\ TakesOrdinal
-----------------------------------------------------------------------------
(* processPending: taking a batch *)

startProcessing ==
  /\ scheduled
  /\ scheduled' = FALSE
  /\ processing' = IF processing = "no" THEN "loop" ELSE processing
  /\ UNCHANGED <<closeVars, queueVars, captureVars, batch, awaitingBytes, historyVars,
                 idleWaiters, clearVars>>

Settle(ordinals, outcome) ==
  receipt' = [o \in DOMAIN receipt |-> IF o \in ordinals THEN outcome ELSE receipt[o]]

\* Mutant: the gap names the sequence that the next Evidence will take.
AcceptanceGap_NextSequence(o) ==
  [interval |-> interval, captureOrdinal |-> o, afterEvidence |-> nextSequence]

AcceptanceGap(o) ==
  [interval |-> interval, captureOrdinal |-> o, afterEvidence |-> committedEvidenceBoundary]

\* Refusals that share a barrier share its receipt.
settleGapBarrier(barrier) ==
  /\ firstGap' = IF firstGap = NoGap THEN AcceptanceGap(barrier.first) ELSE firstGap
  /\ latestGap' = AcceptanceGap(barrier.latest)
  /\ gapCount' = gapCount + barrier.count
  /\ Settle(OrdinalsOf(barrier), "NOT_EVIDENCE")

settleLeadingGapBarrier ==
  /\ processing = "loop"
  /\ pending # <<>> /\ IsBarrier(Head(pending))
  /\ settleGapBarrier(Head(pending))
  /\ pending' = Tail(pending)
  /\ UNCHANGED <<closeVars, postClearPending, captured, batch, awaitingBytes, interval,
                 journalVars, durableVars, retainedVars, sequenceVars, scheduled,
                 processing, idleWaiters, clearVars>>

RepeatsIdentity(i) ==
  \/ pending[i].eventId \in retainedEventIds
  \/ \E j \in 1..(i - 1) : pending[j].eventId = pending[i].eventId

\* The loop that fills the batch comes as far as entry i.
Reaches(i) ==
  /\ i <= Len(pending) /\ i <= retentionBatchLimit
  /\ \A j \in 1..i : IsCandidate(pending[j])
  /\ i > 1 => BytesOf(SubSeq(pending, 1, i)) <= SoftBatchBytes

IsBatchLength(n) ==
  /\ \A i \in 1..n : Reaches(i) /\ ~RepeatsIdentity(i)
  /\ Reaches(n + 1) => RepeatsIdentity(n + 1)

\* Mutant: the bytes of the duplicate stay charged to admission.
convertDuplicateIdentityToGap_KeepsBytes(n) ==
  LET o == pending[n + 1].ordinal
  IN  /\ pending' = <<GapBarrier(o, o, 1, "EVENT_IDENTITY")>>
                    \o SubSeq(pending, n + 2, Len(pending))
      /\ UNCHANGED awaitingBytes

\* The repeated identity becomes a barrier in its place, with its receipt.
convertDuplicateIdentityToGap(n) ==
  LET o == pending[n + 1].ordinal
  IN  /\ pending' = <<GapBarrier(o, o, 1, "EVENT_IDENTITY")>>
                    \o SubSeq(pending, n + 2, Len(pending))
      /\ awaitingBytes' = awaitingBytes - pending[n + 1].bytes

takeBatch(n) ==
  /\ processing = "loop"
  /\ pending # <<>> /\ IsCandidate(Head(pending))
  /\ n <= Len(pending) /\ IsBatchLength(n)
  /\ batch' = SubSeq(pending, 1, n)
  /\ IF Reaches(n + 1)
       THEN convertDuplicateIdentityToGap(n)
       ELSE /\ pending' = SubSeq(pending, n + 1, Len(pending))
            /\ UNCHANGED awaitingBytes
  /\ processing' = IF n = 0 THEN "loop" ELSE "commit"
  /\ attempt' = IF n = 0 \/ persistenceMode = "MEMORY" THEN 0 ELSE 1
  /\ UNCHANGED <<closeVars, postClearPending, captureVars, interval, journal,
                 persistenceMode, durableVars, retainedVars, sequenceVars, gapVars,
                 scheduled, idleWaiters, clearVars>>

EvidenceOf(entries) ==
  [i \in 1..Len(entries) |-> [kind |-> "evidence",
                              sequence |-> nextSequence + i - 1,
                              interval |-> interval,
                              ordinal |-> entries[i].ordinal,
                              eventId |-> entries[i].eventId,
                              bytes |-> entries[i].bytes]]

\* The batch becomes Evidence: its sequences are taken, its bytes released.
Accept(evidence) ==
  /\ nextSequence' = nextSequence + Len(evidence)
  /\ committedEvidenceBoundary' = nextSequence + Len(evidence) - 1
  /\ awaitingBytes' = awaitingBytes - BytesOf(evidence)

SettleBatch == Settle({batch[i].ordinal : i \in DOMAIN batch}, "BECAME_EVIDENCE")

UnchangedByBatch ==
  UNCHANGED <<closeVars, queueVars, captured, interval, gapVars, scheduled, idleWaiters,
              clearVars>>
-----------------------------------------------------------------------------
(* processPending: the journal *)

\* Mutant: the control record keeps the range it had.
commitBatch_KeepsRange(evidence) ==
  createControl(journal.evidence \o evidence,
                nextSequence + Len(evidence),
                Last(evidence).sequence,
                durableRetainedCount + Len(evidence),
                durableBytes + BytesOf(evidence),
                IF durableRetainedRange = NoRange THEN RangeOf(evidence)
                ELSE durableRetainedRange)

commitBatch(evidence) ==
  createControl(journal.evidence \o evidence,
                nextSequence + Len(evidence),
                Last(evidence).sequence,
                durableRetainedCount + Len(evidence),
                durableBytes + BytesOf(evidence),
                <<IF durableRetainedRange = NoRange THEN Head(evidence).sequence
                  ELSE durableRetainedRange[1], Last(evidence).sequence>>)

\* What retention leaves of the durable prefix: the rest is volatile.
DurableTarget ==
  [count |-> Reduced(LowWater(limits).count, Len(volatileEvidence)),
   bytes |-> Reduced(LowWater(limits).bytes, BytesOf(volatileEvidence))]

\* The receipts wait for the retention advance, when there is one.
journalCommitSucceeds ==
  /\ processing = "commit" /\ persistenceMode = "INDEXEDDB"
  /\ LET evidence == EvidenceOf(batch)
         n == Len(evidence)
         bytes == BytesOf(evidence)
         advances ==
           /\ OverHighWater(limits, retainedCount + n, retainedBytes + bytes)
           /\ \/ durableRetainedCount + n > DurableTarget.count
              \/ durableBytes + bytes > DurableTarget.bytes
     IN  /\ journal' = commitBatch(evidence)
         /\ durableRetentionEntries' = durableRetentionEntries \o evidence
         /\ durableRetainedCount' = durableRetainedCount + n
         /\ durableBytes' = durableBytes + bytes
         /\ durableRetainedRange' =
              <<IF durableRetainedRange = NoRange THEN Head(evidence).sequence
                ELSE durableRetainedRange[1], Last(evidence).sequence>>
         /\ Accept(evidence)
         /\ retainedEventIds' = retainedEventIds \cup IdsOf(evidence)
         /\ retainedCount' = retainedCount + n
         /\ retainedBytes' = retainedBytes + bytes
         /\ retainedRange' = <<durableRetainedRange'[1], committedEvidenceBoundary'>>
         /\ IF advances
              THEN processing' = "trim" /\ UNCHANGED <<batch, receipt>>
              ELSE processing' = "loop" /\ batch' = <<>> /\ SettleBatch
  /\ attempt' = 0
  /\ UNCHANGED <<persistenceMode, volatileEvidence>> /\ UnchangedByBatch

\* Mutant: a fourth attempt.
journalCommitFails_Fourth ==
  /\ processing = "commit" /\ persistenceMode = "INDEXEDDB"
  /\ IF attempt <= 3
       THEN attempt' = attempt + 1 /\ UNCHANGED processing
       ELSE processing' = "snapshot" /\ attempt' = 0
  /\ UNCHANGED <<journal, persistenceMode, batch, awaitingBytes, receipt, durableVars,
                 retainedVars, sequenceVars>>
  /\ UnchangedByBatch

\* The transaction aborts or is aborted by its timeout. After the third
\* attempt the durable prefix is read back, to be kept in memory.
journalCommitFails ==
  /\ processing = "commit" /\ persistenceMode = "INDEXEDDB"
  /\ IF attempt < 3
       THEN attempt' = attempt + 1 /\ UNCHANGED processing
       ELSE processing' = "snapshot" /\ attempt' = 0
  /\ UNCHANGED <<journal, persistenceMode, batch, awaitingBytes, receipt, durableVars,
                 retainedVars, sequenceVars>>
  /\ UnchangedByBatch

\* The records left by the deletion of the keys up to cutoff: the key of a
\* record is its sequence, and records are in the order of their keys.
After(evidence, cutoff) ==
  LET n == Cardinality({i \in DOMAIN evidence : evidence[i].sequence <= cutoff})
  IN  SubSeq(evidence, n + 1, Len(evidence))

\* Mutant: the control record keeps the count it had.
applyJournalRetentionTrim_KeepsCount(cutoff, range, count, bytes) ==
  createControl(After(journal.evidence, cutoff),
                nextSequence, committedEvidenceBoundary, durableRetainedCount, bytes, range)

applyJournalRetentionTrim(cutoff, range, count, bytes) ==
  createControl(After(journal.evidence, cutoff),
                nextSequence, committedEvidenceBoundary, count, bytes, range)

\* No Evidence is volatile while the journal is in use (ModeHoldsEvidence), so
\* that the durable prefix is all that there is to trim.
journalTrimSucceeds ==
  /\ processing = "trim"
  /\ \E k \in 1..Len(durableRetentionEntries) :
       LET gone == SubSeq(durableRetentionEntries, 1, k)
           kept == SubSeq(durableRetentionEntries, k + 1, Len(durableRetentionEntries))
           count == durableRetainedCount - k
           bytes == Reduced(durableBytes, BytesOf(gone))
           range == IF kept = <<>> THEN NoRange
                    ELSE <<Head(kept).sequence, durableRetainedRange[2]>>
       IN  /\ IsPrefixTrim(durableRetentionEntries, durableRetainedCount, durableBytes,
                           DurableTarget, k)
           /\ journal' = applyJournalRetentionTrim(Last(gone).sequence, range, count, bytes)
           /\ durableRetentionEntries' = kept
           /\ durableRetainedCount' = count
           /\ durableBytes' = bytes
           /\ durableRetainedRange' = range
           /\ retainedEventIds' = retainedEventIds \ IdsOf(gone)
           /\ retainedCount' = retainedCount - k
           /\ retainedBytes' = Reduced(retainedBytes, BytesOf(gone))
           /\ retainedRange' = IF range = NoRange THEN NoRange
                               ELSE <<range[1], committedEvidenceBoundary>>
  /\ processing' = "loop" /\ batch' = <<>> /\ SettleBatch
  /\ UNCHANGED <<persistenceMode, attempt, volatileEvidence, sequenceVars, awaitingBytes>>
  /\ UnchangedByBatch

journalTrimFails ==
  /\ processing = "trim"
  /\ processing' = "trimSnapshot"
  /\ UNCHANGED <<journalVars, batch, awaitingBytes, receipt, durableVars, retainedVars,
                 sequenceVars>>
  /\ UnchangedByBatch
-----------------------------------------------------------------------------
(* processPending: memory *)

\* Memory holds entries, count and bytes of them in total, less what a
\* retention advance removes.
KeepInMemory(entries, count, bytes, ids) ==
  \E k \in 0..Len(entries) :
    LET gone == SubSeq(entries, 1, k)
        kept == SubSeq(entries, k + 1, Len(entries))
    IN  /\ IF OverHighWater(Limits["LOWER"], count, bytes)
             THEN IsPrefixTrim(entries, count, bytes, LowWater(Limits["LOWER"]), k)
             ELSE k = 0
        /\ volatileEvidence' = kept
        /\ retainedEventIds' = ids \ IdsOf(gone)
        /\ retainedCount' = count - k
        /\ retainedBytes' = Reduced(bytes, BytesOf(gone))
        /\ retainedRange' = IF kept = <<>> THEN NoRange
                            ELSE <<Head(kept).sequence, committedEvidenceBoundary'>>

BatchDone ==
  /\ processing' = "loop" /\ batch' = <<>>
  /\ SettleBatch
  /\ attempt' = 0
  /\ UNCHANGED journal
  /\ UnchangedByBatch

memoryAccepts ==
  /\ processing = "commit" /\ persistenceMode = "MEMORY"
  /\ LET evidence == EvidenceOf(batch)
     IN  /\ Accept(evidence)
         /\ KeepInMemory(volatileEvidence \o evidence,
                         retainedCount + Len(evidence),
                         retainedBytes + BytesOf(evidence),
                         retainedEventIds \cup IdsOf(evidence))
  /\ UNCHANGED <<persistenceMode, durableVars>>
  /\ BatchDone

\* The durable prefix as the journal has it; null when it cannot be read or
\* is not what the coordinator recorded.
snapshotDurablePrefix(read) ==
  read => SelectSeq(journal.evidence,
                    LAMBDA e : /\ durableRetainedRange[1] <= e.sequence
                               /\ e.sequence <= durableRetainedRange[2])
            = durableRetentionEntries

\* Mutant: the counts keep the prefix that could not be read.
detachDurablePrefix_KeepsCounts(read, evidence) ==
  /\ KeepInMemory((IF read THEN durableRetentionEntries ELSE <<>>)
                    \o volatileEvidence \o evidence,
                  retainedCount + Len(evidence),
                  retainedBytes + BytesOf(evidence),
                  retainedEventIds \cup IdsOf(evidence))
  /\ durableRetentionEntries' = <<>> /\ durableRetainedCount' = 0
  /\ durableBytes' = 0 /\ durableRetainedRange' = NoRange

\* Mutant: the snapshot goes behind the volatile batch.
detachDurablePrefix_Behind(read, evidence) ==
  /\ KeepInMemory(volatileEvidence \o evidence
                    \o (IF read THEN durableRetentionEntries ELSE <<>>),
                  retainedCount + Len(evidence) - (IF read THEN 0 ELSE durableRetainedCount),
                  Reduced(retainedBytes + BytesOf(evidence), IF read THEN 0 ELSE durableBytes),
                  (retainedEventIds \cup IdsOf(evidence))
                    \ (IF read THEN {} ELSE IdsOf(durableRetentionEntries)))
  /\ durableRetentionEntries' = <<>> /\ durableRetainedCount' = 0
  /\ durableBytes' = 0 /\ durableRetainedRange' = NoRange

\* The durable prefix moves into memory, or is dropped when it was not read;
\* evidence is accepted behind it, and the memory tier trims the whole.
detachDurablePrefix(read, evidence) ==
  /\ KeepInMemory((IF read THEN durableRetentionEntries ELSE <<>>)
                    \o volatileEvidence \o evidence,
                  retainedCount + Len(evidence) - (IF read THEN 0 ELSE durableRetainedCount),
                  Reduced(retainedBytes + BytesOf(evidence), IF read THEN 0 ELSE durableBytes),
                  (retainedEventIds \cup IdsOf(evidence))
                    \ (IF read THEN {} ELSE IdsOf(durableRetentionEntries)))
  /\ durableRetentionEntries' = <<>> /\ durableRetainedCount' = 0
  /\ durableBytes' = 0 /\ durableRetainedRange' = NoRange

\* The journal refused the batch three times, or to trim behind it: it is
\* given up, and the batch becomes Evidence in memory.
fallBackAfterCommit(read) ==
  /\ processing = "snapshot"
  /\ snapshotDurablePrefix(read)
  /\ Accept(EvidenceOf(batch))
  /\ detachDurablePrefix(read, EvidenceOf(batch))
  /\ persistenceMode' = "MEMORY"
  /\ BatchDone

fallBackAfterTrim(read) ==
  /\ processing = "trimSnapshot"
  /\ snapshotDurablePrefix(read)
  /\ UNCHANGED <<sequenceVars, awaitingBytes>>
  /\ detachDurablePrefix(read, <<>>)
  /\ persistenceMode' = "MEMORY"
  /\ BatchDone

\* Mutant: only a waiting Clear is told that the queue is idle.
resolveIdleWaiters_ClearOnly == idleWaiters' = idleWaiters \ {"clear"}

resolveIdleWaiters == idleWaiters' = {}

finishProcessing ==
  /\ processing = "loop" /\ pending = <<>>
  /\ processing' = "no"
  /\ resolveIdleWaiters
  /\ UNCHANGED <<closeVars, queueVars, captureVars, batch, awaitingBytes, historyVars,
                 scheduled, clearVars>>
-----------------------------------------------------------------------------
(* clear: "waiting" for idle, its "journal" transaction, "settled" until its *)
(* cleanup callback has run.                                                 *)

inFlight == IF processing \in {"commit", "snapshot"} THEN batch ELSE <<>>

RepeatsLastClear ==
  lastClearResult /\ retainedCount = 0 /\ pending = <<>> /\ postClearPending = <<>>
                  /\ inFlight = <<>>

waitForIdle(waiter) ==
  idleWaiters' = IF isIdle THEN idleWaiters ELSE idleWaiters \cup {waiter}

clear ==
  /\ phase = "RUNNING" /\ ~closing
  /\ clearing = "no"
  /\ interval < MaxIntervals
  /\ ~RepeatsLastClear
  /\ clearInProgress' = TRUE
  /\ clearing' = "waiting"
  /\ waitForIdle("clear")
  /\ UNCHANGED <<closeVars, queueVars, captureVars, batch, awaitingBytes, historyVars,
                 scheduled, processing, lastClearResult>>

clearBegins ==
  /\ clearing = "waiting" /\ "clear" \notin idleWaiters
  /\ clearing' = "journal"
  /\ UNCHANGED <<closeVars, queueVars, captureVars, batch, awaitingBytes, historyVars,
                 scheduled, processing, idleWaiters, clearInProgress, lastClearResult>>

\* The transaction runs in memory mode too.
clearJournalRecords ==
  [createControl(<<>>, nextSequence, committedEvidenceBoundary, 0, 0, NoRange)
    EXCEPT !.interval = interval + 1]

clearSucceeds ==
  /\ clearing = "journal"
  /\ journal' = clearJournalRecords
  /\ interval' = interval + 1
  /\ durableRetentionEntries' = <<>> /\ durableRetainedCount' = 0
  /\ durableBytes' = 0 /\ durableRetainedRange' = NoRange
  /\ volatileEvidence' = <<>> /\ retainedEventIds' = {}
  /\ retainedCount' = 0 /\ retainedBytes' = 0 /\ retainedRange' = NoRange
  /\ gapCount' = 0 /\ firstGap' = NoGap /\ latestGap' = NoGap
  /\ pending' = pending \o postClearPending /\ postClearPending' = <<>>
  /\ clearInProgress' = FALSE
  /\ lastClearResult' = TRUE
  /\ clearing' = "settled"
  /\ UNCHANGED <<closeVars, captureVars, batch, awaitingBytes, persistenceMode, attempt,
                 sequenceVars, scheduled, processing, idleWaiters>>

\* With nothing to rejoin the Clear stays in progress until its cleanup.
rejoinPostClearQueue ==
  /\ pending' = pending \o postClearPending
  /\ postClearPending' = <<>>
  /\ clearInProgress' = (clearInProgress /\ postClearPending = <<>>)

\* A refusal forgets the last answer, an error does not.
clearFails ==
  /\ clearing = "journal"
  /\ rejoinPostClearQueue
  /\ lastClearResult' \in {FALSE, lastClearResult}
  /\ clearing' = "settled"
  /\ UNCHANGED <<closeVars, captureVars, batch, awaitingBytes, historyVars, scheduled,
                 processing, idleWaiters>>

clearCleanup ==
  /\ clearing = "settled"
  /\ clearing' = "no"
  /\ clearInProgress' = FALSE
  /\ schedule(pending)
  /\ UNCHANGED <<closeVars, queueVars, captureVars, batch, awaitingBytes, historyVars,
                 processing, idleWaiters, lastClearResult>>
-----------------------------------------------------------------------------
(* close: intake is cut at once; what is queued still drains. *)

UnchangedByClose ==
  UNCHANGED <<queueVars, captureVars, batch, awaitingBytes, interval, persistenceMode,
              attempt, durableVars, sequenceVars, gapVars, scheduled, processing,
              clearVars>>

close ==
  /\ phase = "RUNNING" /\ ~closing
  /\ closing' = TRUE
  /\ IF clearing # "no"
       THEN closeStage' = "afterClear" /\ UNCHANGED idleWaiters
       ELSE closeStage' = "waiting" /\ waitForIdle("close")
  /\ UNCHANGED <<phase, journal, retainedVars>> /\ UnchangedByClose

closeAfterClear ==
  /\ closeStage = "afterClear" /\ clearing = "no"
  /\ closeStage' = "waiting"
  /\ waitForIdle("close")
  /\ UNCHANGED <<phase, closing, journal, retainedVars>> /\ UnchangedByClose

closeBegins ==
  /\ closeStage = "waiting" /\ "close" \notin idleWaiters
  /\ closeStage' = "journal"
  /\ UNCHANGED <<phase, closing, idleWaiters, journal, retainedVars>> /\ UnchangedByClose

\* The database is deleted or not: clearJournal may decline (the history then
\* forgets what it retained all the same), and a deletion that times out or is
\* blocked (CLOSE_FAILED) may still come to pass.
closeEnds ==
  /\ closeStage = "journal"
  /\ closeStage' = "done"
  /\ phase' = "CLOSED"
  /\ journal' \in {NoJournal, journal}
  /\ \/ /\ retainedEventIds' = {} /\ retainedCount' = 0 /\ retainedBytes' = 0
        /\ retainedRange' = NoRange
        /\ UNCHANGED volatileEvidence
     \/ UNCHANGED retainedVars
  /\ UNCHANGED <<closing, idleWaiters>> /\ UnchangedByClose
-----------------------------------------------------------------------------
Next ==
  \/ \E id \in EventIds, b \in Sizes : offer(id, b)
  \/ \E b \in Sizes, dim \in Dimensions : refuseUnretainable(b, dim)
  \/ startProcessing
  \/ settleLeadingGapBarrier
  \/ \E n \in 0..MaxCaptured : takeBatch(n)
  \/ journalCommitSucceeds \/ journalCommitFails
  \/ journalTrimSucceeds \/ journalTrimFails
  \/ memoryAccepts
  \/ \E read \in BOOLEAN : fallBackAfterCommit(read) \/ fallBackAfterTrim(read)
  \/ finishProcessing
  \/ clear \/ clearBegins \/ clearSucceeds \/ clearFails \/ clearCleanup
  \/ close \/ closeAfterClear \/ closeBegins \/ closeEnds

\* Timers fire, and every transaction ends one way or the other.
Fairness ==
  /\ WF_vars(startProcessing)
  /\ WF_vars(settleLeadingGapBarrier)
  /\ WF_vars(\E n \in 0..MaxCaptured : takeBatch(n))
  /\ WF_vars(journalCommitSucceeds \/ journalCommitFails)
  /\ WF_vars(journalTrimSucceeds \/ journalTrimFails)
  /\ WF_vars(memoryAccepts)
  /\ WF_vars(\E read \in BOOLEAN : fallBackAfterCommit(read) \/ fallBackAfterTrim(read))
  /\ WF_vars(finishProcessing)
  /\ WF_vars(clearBegins) /\ WF_vars(clearSucceeds \/ clearFails) /\ WF_vars(clearCleanup)
  /\ WF_vars(closeAfterClear) /\ WF_vars(closeBegins) /\ WF_vars(closeEnds)

Spec == Init /\ [][Next]_vars
FairSpec == Spec /\ Fairness
-----------------------------------------------------------------------------
(* Properties *)

LifecycleTypeOK ==
  /\ phase \in {"RUNNING", "CLOSED"} /\ closing \in BOOLEAN
  /\ closeStage \in {"none", "afterClear", "waiting", "journal", "done"}
  /\ clearing \in {"no", "waiting", "journal", "settled"}
  /\ clearInProgress \in BOOLEAN /\ lastClearResult \in BOOLEAN
  /\ idleWaiters \subseteq {"clear", "close"}
  /\ scheduled \in BOOLEAN
  /\ processing \in {"no", "loop", "commit", "snapshot", "trim", "trimSnapshot"}
  /\ persistenceMode \in {"INDEXEDDB", "MEMORY"} /\ attempt \in 0..3

QueuesTypeOK ==
  /\ pending \in Seq(EntryType) /\ postClearPending \in Seq(EntryType)
  /\ batch \in Seq(CandidateType)
  /\ durableRetentionEntries \in Seq(EvidenceType)
  /\ volatileEvidence \in Seq(EvidenceType)
  /\ journal.evidence \in Seq(EvidenceType)
  /\ retainedEventIds \subseteq EventIds

CountersTypeOK ==
  /\ interval \in Nat \ {0} /\ nextSequence \in Nat \ {0}
  /\ committedEvidenceBoundary \in Nat
  /\ durableRetainedRange \in Nat \X Nat /\ retainedRange \in Nat \X Nat
  /\ gapCount \in Nat /\ firstGap \in GapType /\ latestGap \in GapType
  /\ captured \in Nat /\ receipt \in Seq(Outcomes) /\ Len(receipt) = captured

\* The shape of the state.
TypeOK == LifecycleTypeOK /\ QueuesTypeOK /\ CountersTypeOK

Retained == durableRetentionEntries \o volatileEvidence

\* Evidence, the batch, the queue and the queue behind a pending Clear hold
\* capture ordinals in capture order, over retries, both fallbacks, lost
\* prefixes, and failed or successful Clears.
CaptureOrder ==
  LET upcoming == <<inFlight, pending, postClearPending>>
  IN  /\ InOrder(Retained)
      /\ \A i \in 1..3 : InOrder(upcoming[i]) /\ Precedes(Retained, upcoming[i])
      /\ \A i, j \in 1..3 : i < j => Precedes(upcoming[i], upcoming[j])

QueueEntries == ToSet(batch) \cup ToSet(pending) \cup ToSet(postClearPending)

\* A receipt is open exactly while its ordinal is queued or its batch is on
\* its way, up to the retention advance that follows the commit; and the
\* bytes charged to admission are those of the candidates that wait.
OpenReceiptsAreQueued ==
  /\ {o \in DOMAIN receipt : receipt[o] = "open"} = UNION {OrdinalsOf(e) : e \in QueueEntries}
  /\ \A e \in QueueEntries : IsBarrier(e) => e.count = Cardinality(OrdinalsOf(e))
  /\ awaitingBytes = CandidateBytes(inFlight \o pending \o postClearPending)

\* What startup requires of a journal before it loads it: totals, range, next
\* sequence and boundary of the control record are those of its Evidence.
validateJournalRecords(j) ==
  /\ j.retainedCount = Len(j.evidence)
  /\ j.accountedBytes = BytesOf(j.evidence)
  /\ j.retainedRange = RangeOf(j.evidence)
  /\ \A i \in DOMAIN j.evidence :
       /\ j.evidence[i].interval = j.interval
       /\ i > 1 => j.evidence[i].sequence = j.evidence[i - 1].sequence + 1
  /\ IF j.evidence = <<>>
       THEN j.nextSequence = j.committedEvidenceBoundary + 1
       ELSE /\ j.committedEvidenceBoundary = Last(j.evidence).sequence
            /\ j.nextSequence = j.committedEvidenceBoundary + 1

\* Whenever the panel goes away, between any two transactions and at any
\* await, it leaves a journal that loads, of the current interval only.
JournalIsLoadable ==
  /\ validateJournalRecords(journal)
  /\ phase = "RUNNING" => journal.interval = interval

\* While the journal is in use it holds all that is retained, and the
\* coordinator's own records of it are exact; after the fallback nothing
\* refers to it any more.
ModeHoldsEvidence ==
  IF persistenceMode = "INDEXEDDB"
    THEN /\ volatileEvidence = <<>>
         /\ phase = "RUNNING" =>
              /\ journal.evidence = durableRetentionEntries
              /\ journal.nextSequence = nextSequence
              /\ journal.committedEvidenceBoundary = committedEvidenceBoundary
              /\ journal.retainedCount = durableRetainedCount
              /\ journal.accountedBytes = durableBytes
              /\ journal.retainedRange = durableRetainedRange
    ELSE /\ durableRetentionEntries = <<>> /\ durableRetainedCount = 0 /\ durableBytes = 0
         /\ durableRetainedRange = NoRange

\* What is retained ends at the boundary without holes, its counts, bytes,
\* range and identities are those that reads, admission and duplicates go by,
\* it is within the budgets of the tier once the batch is settled, and no
\* identity is retained twice, in whichever part.
RetainedTail ==
  phase = "RUNNING" =>
    /\ retainedCount = Len(Retained) /\ retainedBytes = BytesOf(Retained)
    /\ retainedRange = RangeOf(Retained)
    /\ retainedEventIds = IdsOf(Retained) /\ Cardinality(retainedEventIds) = Len(Retained)
    /\ \A i \in DOMAIN Retained :
         /\ Retained[i].sequence = committedEvidenceBoundary - Len(Retained) + i
         /\ Retained[i].interval = interval
    /\ processing \in {"no", "loop"} => ~OverHighWater(limits, retainedCount, retainedBytes)

\* A reported gap names the Evidence directly before it.
GapPlacement ==
  \A gap \in {firstGap, latestGap} \ {NoGap} :
    /\ gap.interval = interval
    /\ gap.afterEvidence =
         Cardinality({o \in 1..(gap.captureOrdinal - 1) : receipt[o] = "BECAME_EVIDENCE"})

\* Nothing that was captured is lost, overtaken or counted wrongly, in either
\* part of what is retained and in whichever queue it waits.
NothingIsLost ==
  TypeOK /\ CaptureOrder /\ OpenReceiptsAreQueued /\ RetainedTail /\ GapPlacement

\* The journal can be loaded at any moment and holds what the coordinator takes
\* it to hold.
JournalHoldsEvidence == JournalIsLoadable /\ ModeHoldsEvidence

\* An accepted batch is decided although its receipts wait for retention.
Verdict(o) ==
  IF processing \in {"trim", "trimSnapshot"} /\ o \in {batch[i].ordinal : i \in DOMAIN batch}
    THEN "BECAME_EVIDENCE" ELSE receipt[o]

DecidedCount ==
  Cardinality({o \in DOMAIN receipt : \A p \in 1..o : Verdict(p) # "open"})

Log == INSTANCE EvidenceLog WITH
  verdict <- [o \in 1..DecidedCount |-> Verdict(o)],
  retained <- IF retainedRange = NoRange THEN {}
              ELSE {Retained[i].ordinal : i \in DOMAIN Retained},
  cut <- IF clearing \notin {"waiting", "journal"} THEN -1
         ELSE IF postClearPending = <<>> THEN captured
         ELSE Lowest(postClearPending[1]) - 1,
  closed <- phase = "CLOSED"

\* The durable coordinator implements the Evidence log as the in-memory one
\* does, whatever fails in its journal.
ImplementsEvidenceLog == Log!Spec

\* Every offer is eventually decided, whatever the journal does; a requested
\* Clear is answered and a Close ends, also when they overlap.
EveryOperationEnds ==
  /\ \A o \in 1..MaxCaptured :
       (o \in DOMAIN receipt) ~> (o \in DOMAIN receipt /\ receipt[o] # "open")
  /\ clearing # "no" ~> clearing = "no"
  /\ closing ~> phase = "CLOSED"
=============================================================================
