--------------------------- MODULE HistoryFollow ---------------------------
(***************************************************************************)
(* A follower of the in-memory Event History that keeps what it is told:   *)
(* what replay, live publication, retention and Clear add up to for one    *)
(* subscriber.                                                             *)
(***************************************************************************)
EXTENDS PublicationFeed, FiniteSets, FiniteSetsExt

CONSTANT MaxFollows  \* bound: times the observer subscribes

ASSUME FollowsAssumption == MaxFollows \in Nat

VARIABLES
  ledger,   \* every publication received since the last follow
  asked,    \* what the last follow asked for, and the range retained then
  follows

vars == <<feed, ledger, asked, follows>>

Init ==
  /\ feed = InitialFeed
  /\ ledger = <<>>
  /\ asked = [after |-> NoRef, oldest |-> 1, boundary |-> 0, cooperative |-> FALSE]
  /\ follows = 0

\* The observer may throw at a publication, or unsubscribe in it: then it
\* receives nothing that comes after.
Deliver(f) ==
  \/ feed' = f /\ ledger' = ledger \o f.out
  \/ \E k \in 1..Len(f.out) :
       /\ feed' = [unfollow(f) EXCEPT !.out = SubSeq(f.out, 1, k)]
       /\ ledger' = ledger \o SubSeq(f.out, 1, k)

Follow(after, cooperative) ==
  /\ feed.state = "none" /\ follows < MaxFollows
  /\ follows' = follows + 1
  /\ asked' = [after |-> after, oldest |-> feed.oldest, boundary |-> feed.boundary,
               cooperative |-> cooperative]
  /\ \/ /\ feed' = follow(feed, after, cooperative)
        /\ ledger' = feed'.out
     \/ \E k \in 1..Len(follow(feed, after, cooperative).out) :
          /\ feed' = [unfollow(follow(feed, after, cooperative)) EXCEPT !.out = SubSeq(@, 1, k)]
          /\ ledger' = feed'.out

ReplayChunk ==
  /\ feed.state = "replaying"
  /\ Deliver(runCooperativeReplayChunk(feed))
  /\ UNCHANGED <<asked, follows>>

Commit(n) ==
  /\ feed.boundary + n <= MaxSequence
  /\ Deliver(commitBatch(feed, n))
  /\ UNCHANGED <<asked, follows>>

Clear ==
  /\ feed.interval < MaxIntervals
  /\ Deliver(clearInterval(feed))
  /\ UNCHANGED <<asked, follows>>

\* The caller's signal aborts a replay.
Abort ==
  /\ feed.state = "replaying"
  /\ Deliver(cancelCooperativeReplay([feed EXCEPT !.out = <<>>]))
  /\ UNCHANGED <<asked, follows>>

Unfollow ==
  /\ feed.state # "none"
  /\ feed' = [unfollow(feed) EXCEPT !.out = <<>>]
  /\ UNCHANGED <<ledger, asked, follows>>

\* A caller resumes after Evidence of the current or of an earlier interval.
KnownRefs == {r \in Refs : r.interval <= feed.interval /\ r.sequence <= feed.boundary}

Next ==
  \/ \E after \in KnownRefs : Follow(after, TRUE)
  \/ \E cooperative \in BOOLEAN : Follow(NoRef, cooperative)
  \/ ReplayChunk
  \/ \E n \in 1..MaxSequence : Commit(n)
  \/ Clear
  \/ Abort
  \/ Unfollow

Spec == Init /\ [][Next]_vars
FairSpec == Spec /\ WF_vars(ReplayChunk)
-----------------------------------------------------------------------------
(* Properties *)

TypeOK ==
  /\ feed \in FeedType
  /\ ledger \in Seq([type : PublicationTypes, interval : 1..MaxIntervals,
                     first : 0..MaxSequence, last : 0..MaxSequence])
  /\ asked \in [after : Refs \cup {NoRef}, oldest : 1..(MaxSequence + 1),
                boundary : 0..MaxSequence, cooperative : BOOLEAN]
  /\ follows \in 0..MaxFollows

IsEvidence(p) == p.type = "committed-evidence"
SequencesOf(p) == IF IsEvidence(p) THEN p.first..p.last ELSE {}
DeliveredBefore(k) == UNION {SequencesOf(ledger[i]) : i \in 1..(k - 1)}
Positions(type) == {i \in DOMAIN ledger : ledger[i].type = type}

\* The first sequence that the observer has asked for.
FirstWanted == IF asked.after = NoRef THEN asked.oldest ELSE asked.after.sequence + 1

\* A subscriber that is live has been told of everything from where it asked
\* to start up to the committed boundary; of earlier intervals, of what was
\* delivered before their Clear and nothing else is missing within them.
LiveFollowerMissesNothing ==
  feed.state = "live" =>
    {s \in feed.oldest..feed.boundary : s >= FirstWanted}
      \subseteq DeliveredBefore(Len(ledger) + 1)

\* Evidence reaches the observer in sequence order: whatever a publication
\* adds to what was delivered before lies directly behind it.
DeliveredInOrder ==
  \A k \in DOMAIN ledger :
    LET earlier == DeliveredBefore(k)
        new == SequencesOf(ledger[k]) \ earlier
    IN  earlier # {} /\ new # {} => /\ Min(new) > Max(earlier)
                                    /\ \/ Min(new) = Max(earlier) + 1
                                       \/ \E j \in Positions("interval-cleared") : j < k

\* Evidence stays on its side of a Clear: the subscriber is told of what the
\* cleared interval held before interval-cleared and under that interval, of
\* the new interval's Evidence after it, by no chunk or queued range
\* otherwise.
EvidenceStaysOnItsSide ==
  \A j \in Positions("interval-cleared"), k \in DOMAIN ledger :
    IsEvidence(ledger[k]) =>
      IF k < j THEN ledger[k].interval < ledger[j].interval /\ ledger[k].last <= ledger[j].last
      ELSE ledger[k].interval >= ledger[j].interval /\ ledger[k].first > ledger[j].last

\* A replay that completes has delivered everything that was retained when
\* it was requested, unless the interval was cleared under it.
CompleteReplayIsComplete ==
  \A k \in Positions("replay-complete") :
    \/ ledger[k].interval < feed.interval
    \/ {s \in asked.oldest..asked.boundary : s >= FirstWanted} \subseteq DeliveredBefore(k)

\* What the subscriber is told comes in order and on its side of a Clear.
DeliveryIsOrdered == TypeOK /\ DeliveredInOrder /\ EvidenceStaysOnItsSide

\* A subscriber that is live, or told that its replay is complete, has been told
\* of everything it asked for.
NothingIsMissed == LiveFollowerMissesNothing /\ CompleteReplayIsComplete

\* Every replay ends, whatever is committed, cleared or retired meanwhile.
ReplayEnds == feed.state = "replaying" ~> feed.state # "replaying"
=============================================================================
