---------------------- MODULE DiagnosticObservations ----------------------
(***************************************************************************)
(* The Diagnostic Observation journal with its storage and one subscriber  *)
(* (createDiagnosticObservationJournal and                                 *)
(* openIndexedDbDiagnosticObservationJournal).                             *)
(*                                                                         *)
(* An operation persists the next state of the journal before it takes it  *)
(* over and publishes it; the next operation waits.  Queries and           *)
(* subscriptions do not wait.  The panel may go away at any time; the      *)
(* journal is then opened again from what is stored.                       *)
(***************************************************************************)
EXTENDS DiagnosticJournal

CONSTANTS
  ConditionIds, OccurrenceIds, Contents,
  MaxSequence,    \* bound: observations per interval
  MaxIntervals    \* bound: intervals

ASSUME ObservationsAssumption ==
  /\ ConditionIds \cap OccurrenceIds = {}
  /\ MaxSequence \in Nat /\ MaxIntervals \in Nat

VARIABLES
  journal,     \* what the journal holds in memory
  stored,      \* the state in the database
  persisting,  \* "idle", "writing", or "written": the transaction has completed
  pending,     \* the next state of the operation that runs
  feed         \* the subscriber: what it asked for, got and was told

vars == <<journal, stored, persisting, pending, feed>>
-----------------------------------------------------------------------------
Observes ==
  [op : {"observe"}, id : ConditionIds, content : Contents, occurrence : {FALSE}]
    \cup [op : {"observe"}, id : OccurrenceIds, content : Contents, occurrence : {TRUE}]
Resolutions ==
  [op : {"resolve"}, id : ConditionIds, content : Contents, occurrence : {FALSE}]

Nobody == [subscribed |-> FALSE, interval |-> 1, after |-> 0, got |-> <<>>, told |-> {}]

Init ==
  /\ journal = emptyPersistedState /\ stored = emptyPersistedState
  /\ persisting = "idle" /\ pending = emptyPersistedState
  /\ feed = Nobody

\* Mutant: the journal takes the next state over before it is persisted.
Persist_MemoryFirst(next) ==
  /\ persisting = "idle" /\ ~journal.closed
  /\ persisting' = "writing" /\ pending' = next /\ journal' = next
  /\ UNCHANGED <<stored, feed>>

\* An operation computes the next state and persists it.
Persist(next) ==
  /\ persisting = "idle" /\ ~journal.closed
  /\ persisting' = "writing" /\ pending' = next
  /\ UNCHANGED <<journal, stored, feed>>

\* observe or resolveCondition that commits; one that is deduplicated or
\* rejected changes nothing.
Mutate(mutation) ==
  /\ Commits(journal, mutation) /\ ~Rejects(journal, mutation)
  /\ journal.sequence < MaxSequence
  /\ Persist(Mutated(journal, mutation))

Discard(boundary) ==
  /\ boundary <= journal.sequence
  /\ Persist(Discarded(journal, boundary))

Clear ==
  /\ journal.interval < MaxIntervals
  /\ Persist(Cleared(journal))

\* The transaction completes, or aborts and the operation rejects.
WriteCompletes ==
  /\ persisting = "writing"
  /\ persisting' = "written" /\ stored' = pending
  /\ UNCHANGED <<journal, pending, feed>>

WriteAborts ==
  /\ persisting = "writing"
  /\ persisting' = "idle"
  /\ UNCHANGED <<journal, stored, pending, feed>>

\* Mutant: a commit publishes the gap that it leaves in place of the observation.
Published_GapOnly(next) ==
  IF ~feed.subscribed THEN feed
  ELSE IF next.interval # journal.interval THEN [feed EXCEPT !.told = @ \cup {"cleared"}]
  ELSE IF feed.interval # next.interval THEN feed
  ELSE IF feed.after < next.retainedThrough
    THEN [feed EXCEPT !.told = @ \cup {"retention-gap"}]
  ELSE IF next.sequence > journal.sequence
    THEN [feed EXCEPT !.got = Append(@, next.sequence)]
    ELSE feed

\* What an operation publishes once its state is persisted: a Clear its new
\* interval, a commit or a discard the gap that it leaves, a commit the
\* observation.
Published(next) ==
  IF ~feed.subscribed THEN feed
  ELSE IF next.interval # journal.interval THEN [feed EXCEPT !.told = @ \cup {"cleared"}]
  ELSE IF feed.interval # next.interval THEN feed
  ELSE [feed EXCEPT
         !.told = IF feed.after < next.retainedThrough THEN @ \cup {"retention-gap"} ELSE @,
         !.got = IF next.sequence > journal.sequence THEN Append(@, next.sequence) ELSE @]

Settle ==
  /\ persisting = "written"
  /\ persisting' = "idle" /\ journal' = pending /\ feed' = Published(pending)
  /\ UNCHANGED <<stored, pending>>

Close ==
  /\ persisting = "idle" /\ ~journal.closed
  /\ journal' = Closed(journal)
  /\ feed' = [feed EXCEPT !.subscribed = FALSE,
                          !.told = IF feed.subscribed THEN @ \cup {"closed"} ELSE @]
  /\ UNCHANGED <<stored, persisting, pending>>

\* What a subscriber gets at once: of the records, one after the other, each that
\* is after the boundary it named.
Replayed(records, after) ==
  LET got[n \in 0 .. Len(records)] ==
        IF n = 0 THEN <<>>
        ELSE IF records[n].sequence > after THEN Append(got[n - 1], records[n].sequence)
        ELSE got[n - 1]
  IN  got[Len(records)]

\* subscribe after a boundary: a boundary of another interval is cleared, one
\* that is not committed is unavailable; else what is retained follows at once.
Subscribe(interval, after) ==
  /\ ~journal.closed /\ ~feed.subscribed
  /\ LET refused == IF interval # journal.interval THEN {"cleared"}
                    ELSE IF after > journal.sequence THEN {"unavailable"} ELSE {}
     IN  feed' = IF refused # {} THEN [Nobody EXCEPT !.told = refused]
                 ELSE [subscribed |-> TRUE, interval |-> interval, after |-> after,
                       got |-> Replayed(journal.records, after),
                       told |-> IF after < journal.retainedThrough THEN {"retention-gap"} ELSE {}]
  /\ UNCHANGED <<journal, stored, persisting, pending>>

Unsubscribe ==
  /\ feed.subscribed
  /\ feed' = Nobody
  /\ UNCHANGED <<journal, stored, persisting, pending>>

\* The journal that openIndexedDbDiagnosticObservationJournal makes of what is
\* stored: an unavailable one if it is not valid.
Opened(state) == IF Hydratable(state) THEN state ELSE Closed(state)

\* The panel goes away with all it holds in memory; another one opens.
Reopen ==
  /\ journal' = Opened(stored) /\ persisting' = "idle" /\ pending' = stored
  /\ feed' = Nobody
  /\ UNCHANGED stored

Next ==
  \/ \E mutation \in Observes \cup Resolutions : Mutate(mutation)
  \/ \E boundary \in 0 .. journal.sequence : Discard(boundary)
  \/ Clear
  \/ WriteCompletes
  \/ WriteAborts
  \/ Settle
  \/ Close
  \/ \E interval \in 1 .. journal.interval, after \in 0 .. MaxSequence : Subscribe(interval, after)
  \/ Unsubscribe
  \/ Reopen

Spec == Init /\ [][Next]_vars
-----------------------------------------------------------------------------
Ids == ConditionIds \cup OccurrenceIds
Observations ==
  [id : Ids, interval : Nat, sequence : Nat,
   state : {"observed", "active", "resolved"}, content : Contents]

IsJournal(j) ==
  /\ j = [interval |-> j.interval, sequence |-> j.sequence,
          retainedThrough |-> j.retainedThrough, records |-> j.records,
          current |-> j.current, closed |-> j.closed]
  /\ j.interval \in Nat /\ j.sequence \in Nat /\ j.retainedThrough \in Nat
  /\ j.records \in Seq(Observations) /\ j.closed \in BOOLEAN
  /\ Identities(j) \subseteq Ids /\ IsFiniteSet(Identities(j)) /\ j.current \in [Identities(j) -> Observations]

\* An observation is recorded for a change only: of two retained observations
\* of an identity with none of it between them, the later one ends the earlier
\* condition, begins it anew or has another content.
RecordsChanges(j) ==
  \A m, n \in DOMAIN j.records :
    LET earlier == j.records[m]
        later == j.records[n]
        next == m < n /\ earlier.id = later.id
                  /\ \A k \in m + 1 .. n - 1 : j.records[k].id # earlier.id
    IN  next => /\ earlier.state # "observed"
                /\ earlier.state = "resolved" => later.state = "active"
                /\ earlier.state = later.state => earlier.content # later.content

\* Whatever is evicted, discarded or cleared, and wherever the panel goes away,
\* the journal and what is stored are ones that can be opened again, every
\* observation in them records a change, and a range that is called complete is
\* answered in full (diagnostic-observation.ts, hydratePersistedState, observe,
\* retainDiagnosticCapacity and query).
JournalIsSound ==
  /\ Hydratable(journal) /\ Hydratable(stored)
  /\ RecordsChanges(journal)
  /\ \A after, through \in 0 .. journal.sequence :
       queryStatus(journal, after, through) = "complete" =>
         {r.sequence : r \in queryResult(journal, after, through)} = after + 1 .. through

\* A subscriber that is told neither of a gap nor of a Clear has received every
\* observation since the boundary it named, once and in order, up to the last
\* one that is committed (diagnostic-observation.ts, subscribe and commit).
FeedIsTruthful ==
  feed.subscribed =>
    IF feed.interval # journal.interval THEN "cleared" \in feed.told
    ELSE /\ \A i \in DOMAIN feed.got : feed.got[i] = journal.sequence - Len(feed.got) + i
         /\ Len(feed.got) < journal.sequence - feed.after => "retention-gap" \in feed.told

\* No step takes back what the journal has shown: its boundary never moves
\* back, across Clears and across a panel that goes away, and no two different
\* observations ever stand at one boundary (diagnostic-observation.ts, persist
\* before the state is taken over).
RecordedIsFinal ==
  [][/\ \/ journal'.interval > journal.interval
        \/ journal'.interval = journal.interval /\ journal'.sequence >= journal.sequence
     /\ \A earlier \in Range(journal.records), later \in Range(journal'.records) :
          earlier.interval = later.interval /\ earlier.sequence = later.sequence =>
            earlier = later]_vars
=============================================================================
