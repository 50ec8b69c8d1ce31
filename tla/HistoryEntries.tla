--------------------------- MODULE HistoryEntries ---------------------------
(***************************************************************************)
(* What the two Event History coordinators share: the entries of their     *)
(* queues, Evidence, Evidence Gaps and retention budgets.                  *)
(***************************************************************************)
EXTENDS Integers, Sequences, FiniteSets, SequencesExt, FiniteSetsExt

CONSTANTS
  EventIds,  \* identities a candidate may carry
  Sizes,     \* accounted bytes of a candidate
  Limits     \* Limits[tier]: the history capacity limits of a tier

Tiers == {"NORMAL", "LOWER"}

ASSUME LimitsAssumption ==
  /\ Sizes \subseteq Nat
  /\ \A t \in Tiers : /\ Limits[t].maxRetainedCount \in Nat
                      /\ Limits[t].maxRetainedBytes \in Nat
                      /\ Limits[t].pendingStopBytes \in Nat
-----------------------------------------------------------------------------
(* Entries of the queues. *)

Dimensions == {"RETAINED_COUNT", "RETAINED_BYTES", "PENDING_BYTES", "EVENT_IDENTITY"}
Outcomes == {"open", "BECAME_EVIDENCE", "NOT_EVIDENCE"}

Candidate(o, id, b) == [kind |-> "candidate", ordinal |-> o, eventId |-> id, bytes |-> b]
GapBarrier(first, latest, n, dim) ==
  [kind |-> "gap-barrier", first |-> first, latest |-> latest, count |-> n, dimension |-> dim]

IsCandidate(e) == e.kind = "candidate"
IsBarrier(e) == e.kind = "gap-barrier"
Lowest(e) == IF IsBarrier(e) THEN e.first ELSE e.ordinal
Highest(e) == IF IsBarrier(e) THEN e.latest ELSE e.ordinal

\* The sum of a sequence of numbers.
Total(s) ==
  LET sum[i \in 0..Len(s)] == IF i = 0 THEN 0 ELSE sum[i - 1] + s[i]
  IN  sum[Len(s)]

BytesOf(s) == Total([i \in DOMAIN s |-> s[i].bytes])
IdsOf(s) == {s[i].eventId : i \in DOMAIN s}

NoGap == [interval |-> 0, captureOrdinal |-> 0, afterEvidence |-> 0]

CandidateType == [kind : {"candidate"}, ordinal : Nat, eventId : EventIds, bytes : Sizes]
BarrierType ==
  [kind : {"gap-barrier"}, first : Nat, latest : Nat, count : Nat, dimension : Dimensions]
EvidenceType == [kind : {"evidence"}, sequence : Nat, interval : Nat, ordinal : Nat,
                 eventId : EventIds, bytes : Sizes]
GapType == [interval : Nat, captureOrdinal : Nat, afterEvidence : Nat]

EntryType == CandidateType \cup BarrierType

\* Another refusal in the same dimension, of ordinal o.
Extended(barrier, o) ==
  GapBarrier(barrier.first, o, barrier.count + 1, barrier.dimension)

OrdinalsOf(e) == Lowest(e) .. Highest(e)

\* The bytes of the candidates in a queue.
CandidateBytes(q) == Total([i \in DOMAIN q |-> IF IsCandidate(q[i]) THEN q[i].bytes ELSE 0])

\* Capture order within a sequence of entries, and between two of them.
InOrder(s) == \A i, j \in DOMAIN s : i < j => Highest(s[i]) < Lowest(s[j])
Precedes(s, t) == \A i \in DOMAIN s, j \in DOMAIN t : Highest(s[i]) < Lowest(t[j])

rollingLowWater(highWater) ==
  IF highWater <= 0 THEN 0
  ELSE IF (9 * highWater) \div 10 < 1 THEN 1 ELSE (9 * highWater) \div 10

\* k is the least number of oldest entries of s whose removal meets the
\* target, when s is part of a whole of count entries and total bytes.
IsPrefixTrim(s, count, total, target, k) ==
  LET fits(j) == /\ count - j <= target.count
                 /\ total - BytesOf(SubSeq(s, 1, j)) <= target.bytes
  IN  /\ fits(k) \/ k = Len(s)
      /\ \A j \in 0..(k - 1) : ~fits(j)

LowWater(budget) == [count |-> rollingLowWater(budget.maxRetainedCount),
                     bytes |-> rollingLowWater(budget.maxRetainedBytes)]

OverHighWater(budget, count, total) ==
  count > budget.maxRetainedCount \/ total > budget.maxRetainedBytes
=============================================================================
