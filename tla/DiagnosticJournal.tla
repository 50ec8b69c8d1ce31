------------------------- MODULE DiagnosticJournal -------------------------
(***************************************************************************)
(* The Diagnostic Observation journal of a Panel Session                   *)
(* (src/core/diagnostic-observation.ts).                                   *)
(*                                                                         *)
(* A journal is one record.  Every operation runs alone: the journal's     *)
(* mutation tail runs one operation after the other, so each operator      *)
(* below takes the journal and returns the next one.  A stored observation *)
(* takes one unit of the byte capacity, in "records" as in "current".      *)
(***************************************************************************)
EXTENDS Integers, Sequences, FiniteSets, Functions

CONSTANTS
  MaxRetained,    \* DIAGNOSTIC_MAX_RETAINED_OBSERVATIONS
  MaxBytes,       \* DIAGNOSTIC_MAX_RETAINED_BYTES, in observations
  MaxIdentities   \* DIAGNOSTIC_MAX_LIFECYCLE_IDENTITIES

ASSUME JournalAssumption ==
  /\ MaxRetained \in Nat \ {0} /\ MaxBytes \in Nat \ {0} /\ MaxIdentities \in Nat \ {0}

\* current: per identity its latest observation.  records: the retained
\* observations of the interval, in order.
emptyPersistedState ==
  [interval |-> 1, sequence |-> 0, retainedThrough |-> 0,
   records |-> <<>>, current |-> <<>>, closed |-> FALSE]

Identities(j) == DOMAIN j.current
ActiveIn(j) == {id \in Identities(j) : j.current[id].state = "active"}

\* No further identity fits: what is current is never evicted.
exhausted(ids) == Cardinality(ids) > MaxIdentities \/ Cardinality(ids) > MaxBytes

\* The larger of two numbers.
Larger(m, n) == IF m >= n THEN m ELSE n

\* How many of the oldest observations have to go.
Surplus(candidate, current) ==
  Larger(0, Larger(Len(candidate) - MaxRetained,
                   Len(candidate) + Cardinality(DOMAIN current) - MaxBytes))

\* Mutant: what is evicted does not move the retained boundary.
retainDiagnosticCapacity_NoBoundary(candidate, current, retainedThrough) ==
  [records |-> SubSeq(candidate, Surplus(candidate, current) + 1, Len(candidate)),
   retainedThrough |-> retainedThrough]

retainDiagnosticCapacity(candidate, current, retainedThrough) ==
  LET surplus == Surplus(candidate, current)
  IN  [records |-> SubSeq(candidate, surplus + 1, Len(candidate)),
       retainedThrough |->
         IF surplus = 0 THEN retainedThrough
         ELSE Larger(retainedThrough, candidate[surplus].sequence)]

\* The journal after a lifecycle event of an identity.
Committed(j, id, state, content) ==
  LET event == [id |-> id, interval |-> j.interval, sequence |-> j.sequence + 1,
                state |-> state, content |-> content]
      current == [i \in Identities(j) \cup {id} |->
                    IF i = id THEN event ELSE j.current[i]]
      kept == retainDiagnosticCapacity(Append(j.records, event), current, j.retainedThrough)
  IN  [j EXCEPT !.sequence = @ + 1, !.current = current,
                !.records = kept.records, !.retainedThrough = kept.retainedThrough]

\* Whether a mutation commits an event: an occurrence that is known and an
\* active condition of the same content are deduplicated, and only an active
\* condition is resolved.
Commits(j, mutation) ==
  LET existing == j.current[mutation.id]
  IN  IF mutation.id \notin Identities(j) THEN mutation.op = "observe"
      ELSE IF mutation.op = "resolve" THEN existing.state = "active"
      ELSE ~mutation.occurrence
             /\ ~(existing.state = "active" /\ existing.content = mutation.content)

StateAfter(mutation) ==
  IF mutation.op = "resolve" THEN "resolved"
  ELSE IF mutation.occurrence THEN "observed" ELSE "active"

\* Whether the journal rejects a mutation.
Rejects(j, mutation) ==
  \/ j.closed
  \/ Commits(j, mutation) /\ exhausted(Identities(j) \cup {mutation.id})

\* observe and resolveCondition
Mutated(j, mutation) ==
  IF Commits(j, mutation) /\ ~Rejects(j, mutation)
    THEN Committed(j, mutation.id, StateAfter(mutation), mutation.content)
    ELSE j

Cleared(j) ==
  [j EXCEPT !.interval = @ + 1, !.sequence = 0, !.retainedThrough = 0,
            !.records = <<>>, !.current = <<>>]

\* discardRetainedThrough: the observations up to a boundary are dropped.
Discarded(j, boundary) ==
  LET through == Larger(j.retainedThrough, boundary)
  IN  [j EXCEPT !.retainedThrough = through,
                !.records = SubSeq(@, through - j.retainedThrough + 1, Len(@))]

Closed(j) == [j EXCEPT !.closed = TRUE]
-----------------------------------------------------------------------------
\* What query answers for the range after..through of the current interval.
queryStatus(j, after, through) ==
  CASE j.closed -> "closed"
    [] ~j.closed /\ after > through -> "unsupported"
    [] ~j.closed /\ after <= through /\ through > j.sequence -> "unavailable"
    [] ~j.closed /\ after <= through /\ through <= j.sequence ->
         IF after < j.retainedThrough THEN "retention-gap" ELSE "complete"

queryResult(j, after, through) ==
  {r \in Range(j.records) : after < r.sequence /\ r.sequence <= through}

\* What hydratePersistedState demands of a stored journal before it opens it.
Hydratable(j) ==
  /\ j.retainedThrough <= j.sequence
  /\ Len(j.records) <= MaxRetained
  /\ Cardinality(Identities(j)) <= MaxIdentities
  /\ Len(j.records) + Cardinality(Identities(j)) <= MaxBytes
  /\ Len(j.records) = j.sequence - j.retainedThrough
  /\ \A i \in DOMAIN j.records :
       LET r == j.records[i]
       IN  /\ r.interval = j.interval /\ r.sequence = j.retainedThrough + i
           /\ r.id \in Identities(j) /\ j.current[r.id].sequence >= r.sequence
  /\ \A id \in Identities(j) :
       LET latest == j.current[id]
       IN  /\ latest.id = id /\ latest.interval = j.interval /\ latest.sequence <= j.sequence
           /\ latest.sequence > j.retainedThrough =>
                j.records[latest.sequence - j.retainedThrough] = latest
=============================================================================
