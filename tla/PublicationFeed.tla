-------------------------- MODULE PublicationFeed --------------------------
(***************************************************************************)
(* How the in-memory Event History publishes to a follower                 *)
(* (src/core/event-history-authoritative.ts, follow and publish).          *)
(*                                                                         *)
(* A follower is called back synchronously inside a commit, a Clear, a     *)
(* replay chunk or follow itself.  Each operator below is one such         *)
(* synchronous run: it takes the state of the feed and returns the next    *)
(* one, with the publications that the observer received, in order, in     *)
(* the field "out".  Committed Evidence is one contiguous array, of which  *)
(* a feed keeps the range oldest..boundary of sequences.                   *)
(***************************************************************************)
EXTENDS Integers, Sequences, SequencesExt

CONSTANTS
  ChunkSize,    \* replay chunk size of the follower
  MaxRetained,  \* retained count high-water mark
  LowWater,     \* retained count after a retention advance
  MaxSequence,  \* bound: Evidence sequences
  MaxIntervals  \* bound: History Intervals

VARIABLE feed  \* the feed of one follower, a record that InitialFeed lists

ASSUME FeedAssumption ==
  /\ ChunkSize \in Nat \ {0} /\ MaxRetained \in Nat \ {0}
  /\ LowWater \in 0..MaxRetained
  /\ MaxSequence \in Nat /\ MaxIntervals \in Nat \ {0}

NoRef == [interval |-> 0, sequence |-> 0]
Refs == [interval : 1..MaxIntervals, sequence : 1..MaxSequence]

PublicationTypes ==
  {"status", "committed-evidence", "interval-cleared", "retention-advanced",
   "replay-started", "replay-complete", "replay-cancelled", "replay-failed"}

\* first..last: the sequences of the Evidence published.  replay-started
\* carries the boundary it resumes after in "last" and the oldest retained
\* sequence in "first"; interval-cleared the committed boundary in "last".
Publication(type, i, first, last) ==
  [type |-> type, interval |-> i, first |-> first, last |-> last]

NoReplay == [next |-> 0, last |-> -1, interval |-> 0]

\* state: "none" is not subscribed; a replay that "cooperates" queues what is
\* published meanwhile in "pending".
InitialFeed ==
  [interval |-> 1, oldest |-> 1, boundary |-> 0,
   state |-> "none", replay |-> NoReplay, pending |-> <<>>, out |-> <<>>]

FeedType ==
  [interval : 1..MaxIntervals, oldest : 1..(MaxSequence + 1), boundary : 0..MaxSequence,
   state : {"none", "replaying", "live"},
   replay : [next : 0..MaxSequence, last : -1..(MaxSequence - 1), interval : 0..MaxIntervals],
   pending : Seq([type : PublicationTypes \cup {"committed-range"}, interval : 1..MaxIntervals,
                  first : 0..MaxSequence, last : 0..MaxSequence]),
   out : Seq([type : PublicationTypes, interval : 1..MaxIntervals,
              first : 0..MaxSequence, last : 0..MaxSequence])]

RetainedLength(f) == f.boundary - f.oldest + 1
OldestRetained(f) == IF RetainedLength(f) > 0 THEN f.oldest ELSE 0
-----------------------------------------------------------------------------
invoke(f, p) == IF f.state = "none" THEN f ELSE [f EXCEPT !.out = Append(@, p)]

unfollow(f) == [f EXCEPT !.state = "none", !.replay = NoReplay, !.pending = <<>>]

\* What is published during a replay is queued; consecutive Evidence of one
\* interval is queued as one range.
appendPendingReplayRange(pending, p) ==
  LET joins == /\ pending # <<>>
               /\ Last(pending).type = "committed-range"
               /\ Last(pending).interval = p.interval
               /\ Last(pending).last + 1 = p.first
  IN  IF p.type # "committed-evidence" THEN Append(pending, p)
      ELSE IF joins THEN [pending EXCEPT ![Len(pending)].last = p.last]
      ELSE Append(pending, [p EXCEPT !.type = "committed-range"])

\* Mutant: a live publication overtakes the replay.
publish_DuringReplay(f, p) == invoke(f, p)

publish(f, p) ==
  IF f.state = "replaying"
    THEN [f EXCEPT !.pending = appendPendingReplayRange(@, p)]
    ELSE invoke(f, p)

failCooperativeReplay(f) ==
  unfollow(invoke(f, Publication("replay-failed", f.interval, 0, f.boundary)))

cancelCooperativeReplay(f) ==
  unfollow(invoke(f, Publication("replay-cancelled", f.interval, 0, f.boundary)))

\* A queued range is read from the retained array when it is delivered.
drainOne(f, p) ==
  IF f.state = "none" THEN f
  ELSE IF p.type # "committed-range" THEN invoke(f, p)
  ELSE IF p.interval # f.interval \/ RetainedLength(f) = 0 THEN f
  ELSE IF p.first < f.oldest \/ p.last > f.boundary THEN failCooperativeReplay(f)
  ELSE invoke(f, [p EXCEPT !.type = "committed-evidence"])

\* drained[n]: the first n entries of the queue have been delivered.
drainPending(f) ==
  LET drained[n \in 0..Len(f.pending)] ==
        IF n = 0 THEN [f EXCEPT !.pending = <<>>] ELSE drainOne(drained[n - 1], f.pending[n])
  IN  IF f.state = "none" THEN f ELSE drained[Len(f.pending)]

\* Mutant: what was queued during the replay is forgotten.
finishCooperativeReplay_DropsPending(f) ==
  invoke([f EXCEPT !.state = "live", !.replay = NoReplay, !.pending = <<>>],
         Publication("replay-complete", f.replay.interval, 0, f.boundary))

finishCooperativeReplay(f) ==
  drainPending(invoke([f EXCEPT !.state = "live", !.replay = NoReplay],
                      Publication("replay-complete", f.replay.interval, 0, f.boundary)))
-----------------------------------------------------------------------------
(* follow *)

\* A boundary to resume after is refused when Evidence behind it is gone.
IsResumable(f, after) ==
  /\ after.interval = f.interval
  /\ RetainedLength(f) > 0 => after.sequence \in (f.oldest - 1)..f.boundary

\* Mutant: a resume point that nothing is retained behind has no index.
startCooperativeReplay_NotFound(f, after) ==
  LET from == IF after = NoRef THEN OldestRetained(f) ELSE after.sequence + 1
      next == IF from \in f.oldest..f.boundary THEN from - f.oldest ELSE -1
  IN  IF after # NoRef /\ ~IsResumable(f, after) THEN failCooperativeReplay(f)
      ELSE invoke([f EXCEPT !.replay = [next |-> next, last |-> RetainedLength(f) - 1,
                                        interval |-> f.interval]],
                  Publication("replay-started", f.interval, OldestRetained(f), after.sequence))

startCooperativeReplay(f, after) ==
  LET from == IF after = NoRef THEN OldestRetained(f) ELSE after.sequence + 1
      next == IF from \in f.oldest..f.boundary THEN from - f.oldest ELSE RetainedLength(f)
  IN  IF after # NoRef /\ ~IsResumable(f, after) THEN failCooperativeReplay(f)
      ELSE invoke([f EXCEPT !.replay = [next |-> next, last |-> RetainedLength(f) - 1,
                                        interval |-> f.interval]],
                  Publication("replay-started", f.interval, OldestRetained(f), after.sequence))

follow(f, after, cooperative) ==
  LET subscribed == [unfollow(f) EXCEPT !.state = "replaying", !.out = <<>>]
      g == invoke(subscribed, Publication("status", f.interval, 0, f.boundary))
      evidence == Publication("committed-evidence", f.interval, f.oldest, f.boundary)
  IN  IF cooperative THEN startCooperativeReplay(g, after)
      ELSE drainPending([(IF RetainedLength(f) > 0 THEN invoke(g, evidence) ELSE g)
                           EXCEPT !.state = "live"])

\* Mutant: a replay goes on in the interval that replaced its own.
runCooperativeReplayChunk_AcrossClear(f) ==
  LET first == f.oldest + f.replay.next
      last == IF first + ChunkSize - 1 < f.boundary THEN first + ChunkSize - 1 ELSE f.boundary
      g == IF first <= last
             THEN invoke([f EXCEPT !.replay.next = @ + last - first + 1, !.out = <<>>],
                         Publication("committed-evidence", f.replay.interval, first, last))
             ELSE [f EXCEPT !.out = <<>>]
  IN  IF g.replay.next <= g.replay.last THEN g ELSE finishCooperativeReplay(g)

\* A chunk is cut from the array as it is now, not as it was at the start.
runCooperativeReplayChunk(f) ==
  LET first == f.oldest + f.replay.next
      last == IF first + ChunkSize - 1 < f.boundary THEN first + ChunkSize - 1 ELSE f.boundary
      g == IF first <= last
             THEN invoke([f EXCEPT !.replay.next = @ + last - first + 1, !.out = <<>>],
                         Publication("committed-evidence", f.interval, first, last))
             ELSE [f EXCEPT !.out = <<>>]
  IN  IF f.interval # f.replay.interval THEN finishCooperativeReplay([f EXCEPT !.out = <<>>])
      ELSE IF g.replay.next <= g.replay.last THEN g
      ELSE finishCooperativeReplay(g)
-----------------------------------------------------------------------------
(* What the coordinator publishes. *)

\* Mutant: a replay in progress survives a retention advance.
advanceRetentionIfNeeded_KeepsReplay(f) ==
  IF RetainedLength(f) <= MaxRetained THEN f
  ELSE LET g == [f EXCEPT !.oldest = f.boundary - LowWater + 1]
       IN  publish(g, Publication("retention-advanced", g.interval, OldestRetained(g), g.boundary))

\* A retention advance fails every replay that is in progress.
advanceRetentionIfNeeded(f) ==
  IF RetainedLength(f) <= MaxRetained THEN f
  ELSE LET g == [f EXCEPT !.oldest = f.boundary - LowWater + 1]
           h == IF g.state = "replaying" THEN failCooperativeReplay(g) ELSE g
       IN  publish(h, Publication("retention-advanced", h.interval, OldestRetained(h), h.boundary))

\* A batch of n is committed and published, then retention advances.
commitBatch(f, n) ==
  LET p == Publication("committed-evidence", f.interval, f.boundary + 1, f.boundary + n)
  IN  advanceRetentionIfNeeded(publish([f EXCEPT !.boundary = @ + n, !.out = <<>>], p))

clearInterval(f) ==
  publish([f EXCEPT !.interval = @ + 1, !.oldest = f.boundary + 1, !.out = <<>>],
          Publication("interval-cleared", f.interval + 1, 0, f.boundary))
=============================================================================
