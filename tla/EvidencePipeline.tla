-------------------------- MODULE EvidencePipeline --------------------------
(***************************************************************************)
(* The committed-evidence pipeline of the panel                            *)
(* (src/extension/panel/committed-evidence-pipeline.ts) following an       *)
(* in-memory Event History, with the projections that WorkbenchRuntime     *)
(* rebuilds from it: Evidence is applied one entry at a time, an observer  *)
(* that throws makes the follower restart behind the last applied entry,   *)
(* and a recovery becomes visible only when it is complete.                *)
(*                                                                         *)
(* History calls the pipeline synchronously, so that a step is one run of  *)
(* History (an operator of PublicationFeed) folded through the observer.   *)
(***************************************************************************)
EXTENDS PublicationFeed, FiniteSets, FiniteSetsExt

CONSTANTS
  MaxGaps,     \* MAX_EXCEPTIONAL_GAPS
  MaxRestarts  \* bound: explicit calls of restart

ASSUME PipelineAssumption == MaxGaps \in Nat /\ MaxRestarts \in Nat

VARIABLES
  pipe,     \* the pipeline and the panel's projections, which follow the feed
  restarts  \* bound: explicit restarts so far

pipelineVars == <<feed, pipe, restarts>>

Ref(i, s) == [interval |-> i, sequence |-> s]
NoRecovery == [active |-> FALSE, interval |-> 0, evidence |-> {}]

\* next = 0: no sequence is expected yet.  "live" and "recovery" hold the
\* Evidence that the live and the recovering projections were built from.
\* "applied" and "tries" are history variables: the Evidence that
\* onCommittedEvidence accepted, and how often it was called with what.
IdlePipe ==
  [phase |-> "IDLE", running |-> FALSE, closed |-> FALSE, following |-> FALSE,
   restarting |-> FALSE, follower |-> 0, interval |-> 0, next |-> 0, boundary |-> NoRef,
   gaps |-> {}, failed |-> NoRef, attempts |-> 0,
   live |-> {}, recovery |-> NoRecovery,
   applied |-> <<>>, tries |-> [r \in Refs |-> 0]]

\* The member of a set of one.  What a variable ranges over TLC evaluates once.
The(S) == CHOOSE x \in S : TRUE

PipelineInit == feed = InitialFeed /\ pipe = IdlePipe /\ restarts = 0
-----------------------------------------------------------------------------
(* The panel's projections *)

\* RECOVERING builds beside the live projections, LIVE puts what was built in
\* their place, any other end throws it away.
handleFollowerState(s) ==
  LET i == IF s.follower # 0 THEN s.follower ELSE s.interval
      fresh == [active |-> TRUE, interval |-> i, evidence |-> {}]
      replaced == /\ s.recovery.interval # 0 /\ i # 0 /\ s.recovery.interval # i
  IN  CASE s.phase = "RECOVERING" /\ (~s.recovery.active \/ replaced) ->
             [s EXCEPT !.recovery = fresh]
        [] s.phase = "RECOVERING" /\ s.recovery.active /\ s.recovery.interval = 0 ->
             [s EXCEPT !.recovery.interval = i]
        [] s.phase = "LIVE" /\ s.recovery.active ->
             [s EXCEPT !.live = s.recovery.evidence, !.recovery = NoRecovery]
        [] s.phase \in {"FAILED", "CANCELLED"} -> [s EXCEPT !.recovery = NoRecovery]
        [] OTHER -> s

\* Mutant: recovered Evidence goes to the live projections at once.
handleCommittedEvidence_Visible(s, e) == [s EXCEPT !.live = @ \cup {e}]

handleCommittedEvidence(s, e) ==
  IF s.recovery.active THEN [s EXCEPT !.recovery.evidence = @ \cup {e}]
  ELSE [s EXCEPT !.live = @ \cup {e}]

resetCoherentStateAfterClear(s) == [s EXCEPT !.live = {}, !.recovery = NoRecovery]
-----------------------------------------------------------------------------
(* The pipeline *)

setFollowerPhase(s, phase) ==
  The({handleFollowerState(t) : t \in {[s EXCEPT !.phase = phase]}})

resetAppliedProgress(s, after, i) ==
  [s EXCEPT !.gaps = {}, !.follower = i, !.boundary = after,
            !.interval = IF after = NoRef THEN i ELSE after.interval,
            !.next = IF after = NoRef THEN 0 ELSE after.sequence + 1]

unsubscribeCurrent(s) == [s EXCEPT !.following = FALSE]

failFollower(s) ==
  IF s.phase = "FAILED" \/ s.closed THEN s
  ELSE unsubscribeCurrent(setFollowerPhase(s, "FAILED"))

scheduleRestart(s) ==
  IF s.closed \/ s.restarting \/ s.phase \in {"FAILED", "CANCELLED"} THEN s
  ELSE [unsubscribeCurrent(s) EXCEPT !.restarting = TRUE]

\* Mutant: every failure counts as the first one.
handleObserverFailure_Recounts(s, e) ==
  scheduleRestart([s EXCEPT !.failed = e, !.attempts = 1])

\* Mutant: the applied boundary moves to the entry that failed.
handleObserverFailure_Advances(s, e) ==
  scheduleRestart([s EXCEPT !.failed = e, !.attempts = 1, !.boundary = e])

handleObserverFailure(s, e) ==
  LET attempts == IF s.failed = e THEN s.attempts + 1 ELSE 1
      t == [s EXCEPT !.failed = e, !.attempts = attempts]
  IN  IF attempts <= 2 THEN scheduleRestart(t) ELSE failFollower(t)

\* onCommittedEvidence is called with e.  (Counted up to 3.)
Presented(s, e) == [s EXCEPT !.tries[e] = IF @ < 3 THEN @ + 1 ELSE @]

applyOne(s, e) ==
  [handleCommittedEvidence(Presented(s, e), e)
     EXCEPT !.boundary = e, !.interval = e.interval, !.next = e.sequence + 1,
            !.applied = Append(@, e)]

\* Mutant: the set of entries that wait for a gap has no bound.
HeldBack_Unbounded(s, e) == [s EXCEPT !.gaps = @ \cup {e.sequence}]

\* An entry behind a gap waits; there is room for MaxGaps of them.
HeldBack(s, e) ==
  IF e.sequence \in s.gaps THEN s
  ELSE IF Cardinality(s.gaps) >= MaxGaps THEN failFollower(s)
  ELSE [s EXCEPT !.gaps = @ \cup {e.sequence}]

\* e and the entries that waited for it are applied, up to the one, "bad", at
\* which the observer throws.  The failure is charged to e in any case.
AppliedWithWaiting(s, e, bad) ==
  LET run == {e.sequence} \cup {g \in s.gaps : (e.sequence + 1)..g \subseteq s.gaps}
      done == {g \in run : bad \notin e.sequence..g}
      all[n \in 0..Cardinality(done)] ==
        IF n = 0 THEN [s EXCEPT !.gaps = @ \ (done \cup {bad})]
        ELSE The({applyOne(u, Ref(e.interval, e.sequence + n - 1)) : u \in {all[n - 1]}})
      t == all[Cardinality(done)]
  IN  IF bad \in run THEN handleObserverFailure(Presented(t, Ref(e.interval, bad)), e) ELSE t

applyInOrder(s, e, bad) ==
  LET adopted == IF s.interval = 0
                   THEN [s EXCEPT !.interval = e.interval, !.next = e.sequence] ELSE s
      t == IF adopted.next = 0 THEN [adopted EXCEPT !.next = e.sequence] ELSE adopted
  IN  IF s.phase \in {"FAILED", "CANCELLED"} \/ s.closed THEN s
      ELSE IF e.interval # adopted.interval THEN failFollower(adopted)
      ELSE IF e.sequence < t.next THEN t
      ELSE IF e.sequence > t.next THEN HeldBack(t, e)
      ELSE AppliedWithWaiting(t, e, bad)

\* An entry that failed twice is not tried again.
applyEntry(s, e, bad) ==
  IF s.phase = "FAILED" THEN s
  ELSE IF s.failed = e /\ s.attempts >= 2 THEN failFollower(s)
  ELSE applyInOrder(s, e, bad)

\* The entries of one publication, whether or not the follower has let go of
\* its subscription meanwhile.
applyPublication(s, p, bad) ==
  LET entered[n \in 0..(p.last - p.first + 1)] ==
        IF n = 0 THEN s
        ELSE The({applyEntry(t, Ref(p.interval, p.first + n - 1), bad) : t \in {entered[n - 1]}})
  IN  entered[p.last - p.first + 1]

handleReplayStarted(s, p) ==
  LET after == IF p.last = 0 THEN NoRef ELSE Ref(p.interval, p.last)
      next == IF after = NoRef THEN p.first ELSE p.last + 1
  IN  setFollowerPhase([resetAppliedProgress(s, after, p.interval) EXCEPT !.next = next],
                       "RECOVERING")

handleReplayComplete(s, p) ==
  IF s.gaps # {} THEN failFollower(s)
  ELSE setFollowerPhase([s EXCEPT !.follower = p.interval], "LIVE")

handleIntervalCleared(s, p) ==
  LET next == IF p.last # 0 THEN p.last + 1
              ELSE IF s.boundary # NoRef THEN s.boundary.sequence + 1 ELSE 0
  IN  resetCoherentStateAfterClear(
        setFollowerPhase([resetAppliedProgress(s, NoRef, p.interval) EXCEPT !.next = next],
                         "LIVE"))

\* The observer that startFollowing subscribes.
observer(s, p, bad) ==
  IF ~s.following \/ s.closed THEN s
  ELSE CASE p.type = "replay-started" -> handleReplayStarted(s, p)
         [] p.type = "replay-complete" -> handleReplayComplete(s, p)
         [] p.type = "replay-cancelled" ->
              setFollowerPhase([s EXCEPT !.follower = p.interval], "CANCELLED")
         [] p.type = "replay-failed" -> failFollower([s EXCEPT !.follower = p.interval])
         [] p.type = "interval-cleared" -> handleIntervalCleared(s, p)
         [] p.type = "committed-evidence" -> applyPublication(s, p, bad)
         [] OTHER -> s

\* The follower s after it received the publications out; the observer of
\* Evidence throws at sequence "bad" (0: it does not throw).
Observed(s, out, bad) ==
  LET seen[n \in 0..Len(out)] ==
        IF n = 0 THEN s ELSE The({observer(t, out[n], bad) : t \in {seen[n - 1]}})
  IN  seen[Len(out)]

\* A follower that let go receives nothing more.
Attached(f, s) == IF s.following THEN f ELSE unfollow(f)

Runs(f, s) ==
  \E g \in {f}, bad \in 0..MaxSequence :
    /\ bad = 0 \/ \E k \in DOMAIN g.out : /\ g.out[k].type = "committed-evidence"
                                          /\ bad \in g.out[k].first..g.out[k].last
    /\ pipe' = Observed(s, g.out, bad)
    /\ feed' = Attached([g EXCEPT !.out = <<>>], pipe')

startFollowing(s) ==
  LET t == setFollowerPhase(resetAppliedProgress(s, s.boundary, s.follower), "RECOVERING")
  IN  Runs(follow(feed, s.boundary, TRUE), [t EXCEPT !.following = TRUE])
-----------------------------------------------------------------------------
(* Actions.  A restart is a microtask: it runs before any task. *)

start ==
  /\ ~pipe.running /\ ~pipe.closed /\ pipe.phase = "IDLE"
  /\ startFollowing([pipe EXCEPT !.running = TRUE])
  /\ UNCHANGED restarts

RestartMicrotask ==
  /\ pipe.restarting
  /\ startFollowing([pipe EXCEPT !.restarting = FALSE])
  /\ UNCHANGED restarts

restart ==
  /\ ~pipe.restarting /\ ~pipe.closed /\ pipe.phase # "IDLE" /\ restarts < MaxRestarts
  /\ restarts' = restarts + 1
  /\ pipe' = [unsubscribeCurrent(pipe) EXCEPT
                !.running = TRUE, !.failed = NoRef, !.attempts = 0, !.restarting = TRUE,
                !.tries = [r \in Refs |-> 0]]
  /\ feed' = unfollow(feed)

cancelRecovery ==
  /\ ~pipe.restarting /\ ~pipe.closed /\ pipe.running
  /\ pipe' = setFollowerPhase([unsubscribeCurrent(pipe) EXCEPT !.running = FALSE], "CANCELLED")
  /\ feed' = unfollow(feed)
  /\ UNCHANGED restarts

close ==
  /\ ~pipe.restarting /\ ~pipe.closed
  /\ pipe' = [unsubscribeCurrent(pipe) EXCEPT !.closed = TRUE, !.running = FALSE]
  /\ feed' = unfollow(feed)
  /\ UNCHANGED restarts

HistoryReplays ==
  /\ ~pipe.restarting /\ feed.state = "replaying"
  /\ Runs(runCooperativeReplayChunk(feed), pipe)
  /\ UNCHANGED restarts

HistoryCommits(n) ==
  /\ ~pipe.restarting /\ feed.boundary + n <= MaxSequence
  /\ Runs(commitBatch(feed, n), pipe)
  /\ UNCHANGED restarts

HistoryClears ==
  /\ ~pipe.restarting /\ feed.interval < MaxIntervals
  /\ Runs(clearInterval(feed), pipe)
  /\ UNCHANGED restarts

PipelineNext ==
  \/ start \/ RestartMicrotask \/ restart \/ cancelRecovery \/ close
  \/ HistoryReplays \/ HistoryClears
  \/ \E n \in 1..MaxSequence : HistoryCommits(n)

PipelineSpec == PipelineInit /\ [][PipelineNext]_pipelineVars
FairPipelineSpec == PipelineSpec /\ WF_pipelineVars(RestartMicrotask) /\ WF_pipelineVars(HistoryReplays)
-----------------------------------------------------------------------------
(* Properties *)

PipelineTypeOK ==
  /\ feed \in FeedType /\ feed.out = <<>>
  /\ restarts \in 0..MaxRestarts
  /\ pipe.phase \in {"IDLE", "RECOVERING", "LIVE", "CANCELLED", "FAILED"}
  /\ {pipe.running, pipe.closed, pipe.following, pipe.restarting} \subseteq BOOLEAN
  /\ {pipe.follower, pipe.interval} \subseteq 0..MaxIntervals
  /\ pipe.next \in 0..(MaxSequence + 1)
  /\ {pipe.boundary, pipe.failed} \subseteq Refs \cup {NoRef}
  /\ pipe.gaps \subseteq 1..MaxSequence /\ Cardinality(pipe.gaps) <= MaxGaps
  /\ pipe.attempts \in 0..3
  /\ pipe.live \subseteq Refs /\ pipe.recovery.evidence \subseteq Refs
  /\ pipe.recovery.active \in BOOLEAN /\ pipe.recovery.interval \in 0..MaxIntervals
  /\ pipe.applied \in Seq(Refs) /\ pipe.tries \in [Refs -> 0..3]

Committed == feed.oldest..feed.boundary
Running == ~pipe.restarting /\ ~pipe.closed

\* Restarts, duplicates of a replay and Clears notwithstanding, the observer
\* accepts each committed entry at most once, in sequence order, and skips
\* none within an interval; one at which it throws is presented once more and
\* never a third time.
AppliedInOrder ==
  /\ \A r \in Refs : pipe.tries[r] <= 2
  /\ \A k \in 1..(Len(pipe.applied) - 1) :
       LET e == pipe.applied[k] f == pipe.applied[k + 1]
       IN  IF f.interval = e.interval THEN f.sequence = e.sequence + 1
           ELSE f.interval > e.interval /\ f.sequence > e.sequence

\* A follower that reports LIVE has applied everything that the History has
\* committed in its interval, and nothing else is expected next; one that
\* reports RECOVERING or LIVE is subscribed or about to restart, and one that
\* reports that it gave up is subscribed to nothing.
LiveIsCurrent ==
  Running =>
    /\ feed.state # "none" <=> pipe.phase \in {"RECOVERING", "LIVE"}
    /\ pipe.phase = "LIVE" =>
         /\ pipe.interval \in {0, feed.interval}
         /\ pipe.boundary = NoRef => Committed = {}
         /\ pipe.boundary # NoRef => pipe.boundary = Ref(feed.interval, feed.boundary)
         /\ pipe.next \in {0, feed.boundary + 1}

\* The follower applies each entry once and in order, and its phase is true.
FollowerIsTruthful == PipelineTypeOK /\ AppliedInOrder /\ LiveIsCurrent

\* The panel never shows a recovery that is in progress or was cancelled: while
\* chunks are replayed, and over restarts in the middle of it, what is live
\* stays as it was.
RecoveryIsHidden ==
  [][pipe.phase = "RECOVERING" /\ pipe'.phase \in {"RECOVERING", "CANCELLED"}
       => pipe'.live = pipe.live]_pipelineVars

\* Every recovery ends, in the LIVE phase or in a reported failure.
RecoveryEnds ==
  pipe.phase = "RECOVERING" ~> pipe.phase # "RECOVERING" \/ pipe.closed
=============================================================================
