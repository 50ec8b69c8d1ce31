------------------------ MODULE HistoryFollowProofs -------------------------
(***************************************************************************)
(* Theorems about HistoryFollow for every chunk length, capacity and       *)
(* bound: what one observer of the Event History is told by commits,       *)
(* Clears, retention advances and cooperative replays, in any order, is in *)
(* order, and a live observer has missed nothing.                          *)
(*                                                                         *)
(* The inductive invariant, FollowInv, relates the feed to the account     *)
(* "ledger" of what its observer was told.  It says of an observer that    *)
(* is live how far the account reaches, and of one that replays that the   *)
(* queue goes on where the replay will end.                                *)
(*                                                                         *)
(* The second half proves of the committed-evidence pipeline               *)
(* (EvidencePipeline), one such observer, that it applies what it is told  *)
(* once and in order, that what it reports of itself is so, and that a     *)
(* recovery stays hidden until it is complete.  Its invariant, PipeInv,    *)
(* adds to what FollowInv says of the feed which Evidence the pipeline     *)
(* expects next, in every state of the subscription (Agrees).              *)
(***************************************************************************)
EXTENDS HistoryFollow, EvidencePipeline, FiniteSetTheorems, WellFoundedInduction, TLAPS

-----------------------------------------------------------------------------
(* The account: what an observer has been told, in the publications l. *)

\* A publication, whose numbers are within the bounds.
PublicationType ==
  [type : PublicationTypes, interval : 1..MaxIntervals,
   first : 0..MaxSequence, last : 0..MaxSequence]

\* The Evidence of the publications before the k-th, and that of all.
Before(l, k) == UNION {SequencesOf(l[i]) : i \in 1..(k - 1)}
Told(l) == UNION {SequencesOf(l[i]) : i \in DOMAIN l}
IsClear(p) == p.type = "interval-cleared"

\* New Evidence follows all that was told, without a hole unless a Clear has
\* been told.
InOrder(l) ==
  \A k \in DOMAIN l :
    LET earlier == Before(l, k)
        new == SequencesOf(l[k]) \ earlier
    IN  earlier # {} /\ new # {} => /\ Min(new) > Max(earlier)
                                    /\ \/ Min(new) = Max(earlier) + 1
                                       \/ \E j \in DOMAIN l : IsClear(l[j]) /\ j < k

\* Evidence is told on its own side of every Clear.
OnItsSide(l) ==
  \A j \in DOMAIN l, k \in DOMAIN l :
    IsClear(l[j]) /\ IsEvidence(l[k]) =>
      IF k < j THEN l[k].interval < l[j].interval /\ l[k].last <= l[j].last
      ELSE l[k].interval >= l[j].interval /\ l[k].first > l[j].last

\* A replay that completes in interval i has told all of W.
Completed(l, i, W) ==
  \A k \in DOMAIN l : l[k].type = "replay-complete" => l[k].interval < i \/ W \subseteq Before(l, k)

\* The first sequence, and all the retained ones, that the follow st asked for.
FirstOf(st) == IF st.after = NoRef THEN st.oldest ELSE st.after.sequence + 1
WantedOf(st) == {s \in st.oldest..st.boundary : s >= FirstOf(st)}

\* The account is in order, and every replay in it that completes is complete.
Orderly(l, i, st) ==
  /\ l \in Seq(PublicationType)
  /\ InOrder(l) /\ OnItsSide(l) /\ Completed(l, i, WantedOf(st))

\* Of what came after the last Clear, at c, exactly lo..h has been told.
Reaches(l, i, c, lo, h) ==
  /\ c < lo /\ lo <= h + 1
  /\ {s \in Told(l) : s > c} = lo..h
  /\ \A k \in DOMAIN l : IsEvidence(l[k]) => l[k].interval <= i /\ l[k].first > 0 /\ l[k].last <= h
  /\ \A k \in DOMAIN l : IsClear(l[k]) => l[k].interval <= i /\ l[k].last <= c
  /\ (\A k \in DOMAIN l : ~IsClear(l[k])) => c = 0

-----------------------------------------------------------------------------
(* The queue of a replay, and the invariant. *)

\* A range of Evidence that was committed while a replay was in progress.
IsRange(p) == p.type = "committed-range"

\* How far, and to which interval, the first n entries of the queue q lead from
\* the boundary b of interval i.
EndAt(q, n, b) == IF n = 0 THEN b ELSE q[n].last
IntervalAt(q, n, i) == IF n = 0 THEN i ELSE q[n].interval

\* The queue q goes on from b and i, without hole or overlap.
Continues(q, b, i) ==
  \A n \in DOMAIN q :
    \/ /\ IsRange(q[n]) /\ q[n].interval = IntervalAt(q, n - 1, i)
       /\ q[n].first = EndAt(q, n - 1, b) + 1 /\ q[n].first <= q[n].last
    \/ /\ IsClear(q[n]) /\ q[n].interval = IntervalAt(q, n - 1, i) + 1
       /\ q[n].last = EndAt(q, n - 1, b)

\* Its intervals and its sequences only grow.
QueueInOrder(q, b, i) ==
  /\ \A n \in DOMAIN q : q[n].interval >= i /\ q[n].last >= b
  /\ \A m, n \in DOMAIN q : m < n => q[m].interval <= q[n].interval /\ q[m].last <= q[n].last

\* The queue leads from what was retained when the replay began, up to b in
\* interval i, to what is retained now.
Queued(f, b, i) ==
  LET q == f.pending IN
  /\ Continues(q, b, i) /\ QueueInOrder(q, b, i)
  /\ EndAt(q, Len(q), b) = f.boundary /\ IntervalAt(q, Len(q), i) = f.interval
  /\ i # f.interval => \E n \in DOMAIN q : /\ IsClear(q[n]) /\ q[n].interval = f.interval
                                          /\ f.oldest = q[n].last + 1

\* No replay is in progress.
Idle(f) == f.replay = NoReplay /\ f.pending = <<>>

\* A replay of the current interval has told all before its position; one whose
\* interval was cleared has told nothing that came after the Clear.
ReplayInv(f, l, st) ==
  LET i == f.replay.interval IN
  /\ i \in 1..f.interval
  /\ Queued(f, st.boundary, i)
  /\ \E lo \in 1..MaxSequence + 1, h \in 0..MaxSequence :
       /\ Reaches(l, i, 0, lo, h)
       /\ lo <= st.boundary + 1 /\ (lo <= st.oldest \/ lo <= FirstOf(st))
       /\ i = f.interval => /\ f.oldest = st.oldest /\ h = f.oldest + f.replay.next - 1
                            /\ f.replay.last = st.boundary - f.oldest /\ h <= f.boundary
       /\ i # f.interval => \A n \in DOMAIN f.pending : IsClear(f.pending[n]) => h <= f.pending[n].last

\* A live observer has been told everything up to the boundary, from what is
\* retained or from what it asked for.
LiveInv(f, l, st) ==
  \E c \in 0..MaxSequence, lo \in 1..MaxSequence + 1 :
    /\ Reaches(l, f.interval, c, lo, f.boundary)
    /\ lo <= f.oldest \/ lo <= FirstOf(st)

\* The account l of the follow st agrees with the feed f.
Good(f, l, st) ==
  /\ f \in FeedType /\ f.oldest <= f.boundary + 1
  /\ Orderly(l, f.interval, st)
  /\ f.state = "none" => Idle(f)
  /\ f.state = "live" => Idle(f) /\ LiveInv(f, l, st)
  /\ f.state = "replaying" => ReplayInv(f, l, st)

\* What a follow asked for, and the range retained at that time.
Asked(st) ==
  /\ st \in [after : Refs \cup {NoRef}, oldest : 1..(MaxSequence + 1),
             boundary : 0..MaxSequence, cooperative : BOOLEAN]
  /\ st.oldest <= st.boundary + 1

\* The inductive invariant.
FollowInv == Asked(asked) /\ follows \in 0..MaxFollows /\ Good(feed, ledger, asked)

-----------------------------------------------------------------------------
(* The operators *)

\* Induction over the natural numbers, for a set instead of a predicate.
LEMMA Induction ==
  ASSUME NEW T, 0 \in T, \A n \in Nat : n \in T => n + 1 \in T PROVE \A n \in Nat : n \in T
<1> DEFINE Less == {ss \in Nat \X Nat : ss[1] < ss[2]}
           Missing == {n \in Nat : n \notin T}
<1>1. IsWellFoundedOn(Less, Nat) BY NatLessThanWellFounded DEF OpToRel
<1>2. SUFFICES ASSUME Missing # {} PROVE FALSE OBVIOUS
<1>3. PICK m \in Missing : \A n \in Missing : <<n, m>> \notin Less
  <2>1. Missing \subseteq Nat OBVIOUS
  <2> HIDE DEF Less, Missing
  <2> QED BY <1>1, <1>2, <2>1, WFMin, Zenon
<1>4. m \in Nat \ {0} /\ m - 1 \in Nat OBVIOUS
<1>5. m - 1 \in T
  <2>1. <<m - 1, m>> \in Less BY <1>4
  <2> QED BY <1>3, <1>4, <2>1
<1> QED BY <1>4, <1>5

\* What is told by one publication more.
LEMMA AppendTells ==
  ASSUME NEW l \in Seq(PublicationType), NEW p \in PublicationType
  PROVE  LET m == Append(l, p) IN
         /\ m \in Seq(PublicationType) /\ Len(l) \in Nat
         /\ DOMAIN m = 1..Len(l) + 1 /\ DOMAIN l = 1..Len(l)
         /\ \A k \in 1..Len(l) : m[k] = l[k]
         /\ m[Len(l) + 1] = p
         /\ \A k \in 1..Len(l) : Before(m, k) = Before(l, k)
         /\ Before(m, Len(l) + 1) = Told(l)
         /\ Told(m) = Told(l) \cup SequencesOf(p)
<1> DEFINE m == Append(l, p)
           n == Len(l)
<1>1. /\ m \in Seq(PublicationType) /\ n \in Nat /\ Len(m) = n + 1
      /\ DOMAIN m = 1..n + 1 /\ DOMAIN l = 1..n
      /\ \A k \in 1..n : m[k] = l[k]
      /\ m[n + 1] = p
  OBVIOUS
<1> HIDE DEF m, n
<1>2. \A k \in 1..n + 1 : Before(m, k) = Before(l, k)
  <2>1. ASSUME NEW k \in 1..n + 1 PROVE Before(m, k) = Before(l, k)
    <3>1. \A i \in 1..(k - 1) : i \in 1..n /\ m[i] = l[i] BY <1>1
    <3> QED BY <3>1 DEF Before
  <2> QED BY <2>1
<1>3. Before(l, n + 1) = Told(l)
  <2>1. 1..((n + 1) - 1) = DOMAIN l BY <1>1
  <2> QED BY <2>1 DEF Before, Told
<1>4. Told(m) = Told(l) \cup SequencesOf(p)
  <2>1. ASSUME NEW x \in Told(m) PROVE x \in Told(l) \cup SequencesOf(p)
    <3>1. PICK k \in 1..n + 1 : x \in SequencesOf(m[k]) BY <1>1 DEF Told
    <3>2. CASE k = n + 1 BY <1>1, <3>1, <3>2
    <3>3. CASE k # n + 1
      <4>1. k \in 1..n BY <1>1, <3>3
      <4> QED BY <1>1, <3>1, <4>1 DEF Told
    <3> QED BY <3>2, <3>3
  <2>2. ASSUME NEW x \in Told(l) PROVE x \in Told(m)
    <3>1. PICK k \in 1..n : x \in SequencesOf(l[k]) BY <1>1 DEF Told
    <3>2. k \in DOMAIN m /\ m[k] = l[k] BY <1>1
    <3> QED BY <3>1, <3>2 DEF Told
  <2>3. ASSUME NEW x \in SequencesOf(p) PROVE x \in Told(m)
    <3>1. n + 1 \in DOMAIN m BY <1>1
    <3> QED BY <1>1, <3>1 DEF Told
  <2> QED BY <2>1, <2>2, <2>3
<1>5. \A k \in 1..n : k \in 1..n + 1 BY <1>1
<1>6. n + 1 \in 1..n + 1 BY <1>1
<1> QED BY <1>1, <1>2, <1>3, <1>4, <1>5, <1>6 DEF m, n

\* Evidence is told by what is in the sequence.
LEMMA ToldBefore ==
  ASSUME NEW l \in Seq(PublicationType)
  PROVE  /\ Told(l) \subseteq 0..MaxSequence
         /\ \A k \in DOMAIN l : Before(l, k) \subseteq Told(l)
<1>1. ASSUME NEW k \in DOMAIN l PROVE SequencesOf(l[k]) \subseteq 0..MaxSequence
  <2>1. l[k] \in PublicationType BY <1>1
  <2>2. l[k].first \in 0..MaxSequence /\ l[k].last \in 0..MaxSequence
    BY <2>1 DEF PublicationType
  <2> QED BY <2>2, FeedAssumption DEF SequencesOf
<1>2. ASSUME NEW k \in DOMAIN l PROVE Before(l, k) \subseteq Told(l)
  <2>1. \A i \in 1..(k - 1) : i \in DOMAIN l BY <1>2
  <2> QED BY <2>1 DEF Before, Told
<1> QED BY <1>1, <1>2 DEF Told

\* The least and the greatest number of a set.
LEMMA Extremes ==
  ASSUME NEW S \in SUBSET Nat
  PROVE  /\ \A x \in S : (\A y \in S : x <= y) => Min(S) = x
         /\ \A x \in S : (\A y \in S : x >= y) => Max(S) = x
         /\ \A h \in Nat : S # {} /\ (\A y \in S : y <= h) =>
              Max(S) \in S /\ Max(S) <= h /\ \A y \in S : y <= Max(S)
<1>1. ASSUME NEW x \in S, \A y \in S : x <= y PROVE Min(S) = x
  <2>1. \A z \in S : (\A y \in S : z <= y) => z = x
    <3>1. \A z \in S : z <= x /\ x <= z => z = x OBVIOUS
    <3> QED BY <1>1, <3>1
  <2> QED BY <1>1, <2>1 DEF Min
<1>2. ASSUME NEW x \in S, \A y \in S : x >= y PROVE Max(S) = x
  <2>1. \A z \in S : (\A y \in S : z >= y) => z = x
    <3>1. \A z \in S : z >= x /\ x >= z => z = x OBVIOUS
    <3> QED BY <1>2, <3>1
  <2> QED BY <1>2, <2>1 DEF Max
<1>3. ASSUME NEW h \in Nat, S # {}, \A y \in S : y <= h
      PROVE  Max(S) \in S /\ Max(S) <= h /\ \A y \in S : y <= Max(S)
  <2>1. \E x \in S : \A y \in S : x >= y
    <3> DEFINE D == {n \in Nat : (\E x \in S : x >= h - n) => \E x \in S : \A y \in S : x >= y}
    <3>1. 0 \in D
      <4>1. ASSUME NEW x \in S, x >= h - 0 PROVE \A y \in S : x >= y BY <1>3, <4>1
      <4> QED BY <4>1
    <3>2. ASSUME NEW n \in Nat, n \in D PROVE n + 1 \in D
      <4>1. ASSUME NEW x \in S, x >= h - (n + 1), ~(\E y \in S : y >= h - n)
            PROVE  \A y \in S : x >= y
        BY <4>1
      <4> QED BY <3>2, <4>1
    <3>3. h \in D
      <4> HIDE DEF D
      <4> QED BY <3>1, <3>2, Induction
    <3>4. \E x \in S : x >= h - h
      <4>1. PICK x \in S : TRUE BY <1>3
      <4> QED BY <4>1
    <3> QED BY <3>3, <3>4
  <2>2. PICK x \in S : \A y \in S : x >= y BY <2>1
  <2>3. Max(S) = x BY <1>2, <2>2
  <2> QED BY <1>3, <2>2, <2>3
<1> QED BY <1>1, <1>2, <1>3

\* A publication that is neither Evidence nor a Clear nor the end of a replay
\* changes nothing of what was told.
LEMMA TellsNothing ==
  ASSUME NEW l, NEW i \in 1..MaxIntervals, NEW st, Orderly(l, i, st),
         NEW p \in PublicationType, ~IsEvidence(p), ~IsClear(p),
         p.type = "replay-complete" => p.interval < i \/ WantedOf(st) \subseteq Told(l)
  PROVE  /\ Orderly(Append(l, p), i, st)
         /\ \A c, lo, h : Reaches(l, i, c, lo, h) => Reaches(Append(l, p), i, c, lo, h)
         /\ \A j, c, lo, h : Reaches(l, j, c, lo, h) => Reaches(Append(l, p), j, c, lo, h)
<1> DEFINE m == Append(l, p)
           n == Len(l)
<1>1. /\ m \in Seq(PublicationType) /\ n \in Nat
      /\ DOMAIN m = 1..n + 1 /\ DOMAIN l = 1..n
      /\ \A k \in 1..n : m[k] = l[k]
      /\ m[n + 1] = p
      /\ \A k \in 1..n : Before(m, k) = Before(l, k)
      /\ Before(m, n + 1) = Told(l)
      /\ Told(m) = Told(l) \cup SequencesOf(p)
  BY AppendTells DEF Orderly
<1>2. SequencesOf(p) = {} BY DEF SequencesOf
<1> HIDE DEF m, n
<1>3. \A k \in DOMAIN m : (k \in DOMAIN l /\ m[k] = l[k]) \/ (k = n + 1 /\ m[k] = p) BY <1>1
<1>4. \A k \in DOMAIN l : k \in DOMAIN m /\ m[k] = l[k] /\ Before(m, k) = Before(l, k) BY <1>1
<1>5. InOrder(m)
  <2>1. SUFFICES ASSUME NEW k \in DOMAIN m, Before(m, k) # {}, SequencesOf(m[k]) \ Before(m, k) # {}
                 PROVE  LET new == SequencesOf(m[k]) \ Before(m, k) IN
                        /\ Min(new) > Max(Before(m, k))
                        /\ \/ Min(new) = Max(Before(m, k)) + 1
                           \/ \E j \in DOMAIN m : IsClear(m[j]) /\ j < k
    BY DEF InOrder
  <2>2. k \in DOMAIN l /\ m[k] = l[k] /\ Before(m, k) = Before(l, k) BY <1>2, <1>3, <1>4, <2>1
  <2>3. InOrder(l) BY DEF Orderly
  <2>4. LET new == SequencesOf(l[k]) \ Before(l, k) IN
        /\ Min(new) > Max(Before(l, k))
        /\ \/ Min(new) = Max(Before(l, k)) + 1
           \/ \E j \in DOMAIN l : IsClear(l[j]) /\ j < k
    BY <2>1, <2>2, <2>3 DEF InOrder
  <2> QED BY <1>4, <2>2, <2>4
<1>6. OnItsSide(m)
  <2>1. OnItsSide(l) BY DEF Orderly
  <2> QED BY <1>3, <2>1 DEF OnItsSide
<1>7. Completed(m, i, WantedOf(st))
  <2>1. Completed(l, i, WantedOf(st)) BY DEF Orderly
  <2> QED BY <1>1, <1>3, <1>4, <2>1 DEF Completed
<1>8. ASSUME NEW j, NEW c, NEW lo, NEW h, Reaches(l, j, c, lo, h) PROVE Reaches(m, j, c, lo, h)
  <2>1. Told(m) = Told(l) BY <1>1, <1>2
  <2>2. \A k \in DOMAIN m : IsEvidence(m[k]) \/ IsClear(m[k]) => k \in DOMAIN l /\ m[k] = l[k]
    BY <1>3
  <2>3. \A k \in DOMAIN l : k \in DOMAIN m /\ m[k] = l[k] BY <1>4
  <2> QED BY <1>8, <2>1, <2>2, <2>3, Zenon DEF Reaches
<1> QED BY <1>1, <1>5, <1>6, <1>7, <1>8 DEF Orderly, m

\* Evidence that begins where it was expected, or overlaps what was told, comes
\* in order.
LEMMA TellsEvidence ==
  ASSUME NEW l, NEW i \in 1..MaxIntervals, NEW fi \in 1..MaxIntervals, NEW st, Orderly(l, fi, st),
         NEW c \in 0..MaxSequence, NEW lo \in 1..MaxSequence + 1, NEW h \in 0..MaxSequence,
         Reaches(l, i, c, lo, h),
         NEW p \in PublicationType, IsEvidence(p), p.interval = i,
         lo <= p.first, p.first <= h + 1, p.first <= p.last
  PROVE  /\ Orderly(Append(l, p), fi, st)
         /\ Reaches(Append(l, p), i, c, lo, IF p.last > h THEN p.last ELSE h)
<1> DEFINE m == Append(l, p)
           n == Len(l)
           top == IF p.last > h THEN p.last ELSE h
<1>0. l \in Seq(PublicationType) /\ InOrder(l) /\ OnItsSide(l) /\ Completed(l, fi, WantedOf(st))
  BY DEF Orderly
<1>1. /\ m \in Seq(PublicationType) /\ n \in Nat
      /\ DOMAIN m = 1..n + 1 /\ DOMAIN l = 1..n
      /\ \A k \in 1..n : m[k] = l[k]
      /\ m[n + 1] = p
      /\ \A k \in 1..n : Before(m, k) = Before(l, k)
      /\ Before(m, n + 1) = Told(l)
      /\ Told(m) = Told(l) \cup SequencesOf(p)
  BY <1>0, AppendTells
<1>2. /\ SequencesOf(p) = p.first..p.last /\ ~IsClear(p)
      /\ p.first \in 0..MaxSequence /\ p.last \in 0..MaxSequence /\ p.type # "replay-complete"
  BY DEF SequencesOf, PublicationType, IsEvidence, IsClear
<1>3. /\ MaxSequence \in Nat /\ c \in Nat /\ lo \in Nat /\ h \in Nat /\ c < lo /\ c <= h
      /\ top \in 0..MaxSequence /\ h <= top /\ p.last <= top /\ lo <= top + 1
      /\ top = h \/ top = p.last
      /\ p.first \in Nat /\ p.last \in Nat
  BY <1>2, FeedAssumption DEF Reaches
<1>4. /\ \A s \in Told(l) : s \in Nat /\ (s <= c \/ s \in lo..h)
      /\ \A s \in lo..h : s \in Told(l)
  <2>1. {s \in Told(l) : s > c} = lo..h /\ Told(l) \subseteq 0..MaxSequence
    BY <1>0, ToldBefore DEF Reaches
  <2>2. \A s \in Told(l) : s \in Nat BY <1>3, <2>1
  <2>3. ASSUME NEW s \in Told(l) PROVE s <= c \/ s \in lo..h BY <1>3, <2>1, <2>2
  <2> QED BY <2>1, <2>2, <2>3
<1> HIDE DEF m, n, top
<1>5. \A k \in DOMAIN m : (k \in DOMAIN l /\ m[k] = l[k]) \/ (k = n + 1 /\ m[k] = p) BY <1>1
<1>6. \A k \in DOMAIN l : k \in DOMAIN m /\ m[k] = l[k] /\ Before(m, k) = Before(l, k) /\ k < n + 1
  BY <1>1
<1>7. LET new == SequencesOf(p) \ Told(l) IN
      Told(l) # {} /\ new # {} =>
        /\ Min(new) > Max(Told(l))
        /\ Min(new) = Max(Told(l)) + 1 \/ \E j \in DOMAIN l : IsClear(l[j])
  <2> DEFINE new == SequencesOf(p) \ Told(l)
             old == Told(l)
  <2>1. SUFFICES ASSUME old # {}, new # {}
                 PROVE  /\ Min(new) > Max(old)
                        /\ Min(new) = Max(old) + 1 \/ \E j \in DOMAIN l : IsClear(l[j])
    OBVIOUS
  <2>2. \A s \in new : s \in Nat /\ s > h /\ s <= p.last
    <3>1. ASSUME NEW s \in new PROVE s \in Nat /\ s > h /\ s <= p.last
      <4>1. s \in p.first..p.last /\ s \notin Told(l) BY <1>2
      <4>2. s \in Nat /\ s >= lo /\ s <= p.last BY <1>3, <4>1
      <4>3. s \notin lo..h BY <1>4, <4>1
      <4> QED BY <1>3, <4>2, <4>3
    <3> QED BY <3>1
  <2>3. p.last > h
    <3>1. PICK s \in new : TRUE BY <2>1
    <3> QED BY <1>3, <2>2, <3>1
  <2>4. h + 1 \in new
    <3>1. h + 1 \in p.first..p.last BY <1>3, <2>3
    <3>2. h + 1 \notin Told(l)
      <4>1. ~(h + 1 <= c) /\ h + 1 \notin lo..h BY <1>3
      <4> QED BY <1>4, <4>1
    <3> QED BY <1>2, <3>1, <3>2
  <2>5. \A s \in old : s \in Nat /\ s <= h BY <1>3, <1>4
  <2> HIDE DEF new, old
  <2>6. Min(new) = h + 1
    <3>1. \A s \in new : h + 1 <= s BY <1>3, <2>2
    <3>2. new \in SUBSET Nat BY <2>2
    <3> QED BY <2>4, <3>1, <3>2, Extremes
  <2>7. Max(old) \in Nat /\ Max(old) <= h /\ Max(old) \in old /\ \A y \in old : y <= Max(old)
    <3>1. old \in SUBSET Nat BY <2>5
    <3> QED BY <1>3, <2>1, <2>5, <3>1, Extremes
  <2>8. ASSUME \A j \in DOMAIN l : ~IsClear(l[j]) PROVE Max(old) = h
    <3>1. c = 0 BY <2>8 DEF Reaches
    <3>2. h \in old
      <4>1. lo <= h
        <5>1. PICK s \in old : TRUE BY <2>1
        <5>2. s <= c \/ s \in lo..h BY <1>4 DEF old
        <5>3. s # 0
          <6>1. PICK k \in DOMAIN l : s \in SequencesOf(l[k]) BY <5>1 DEF old, Told
          <6>2. s \in l[k].first..l[k].last /\ IsEvidence(l[k]) BY <6>1 DEF SequencesOf
          <6>3. l[k].first > 0 /\ l[k].first \in 0..MaxSequence /\ l[k].last \in 0..MaxSequence
            <7>1. l[k] \in PublicationType BY <1>0
            <7> QED BY <6>2, <7>1 DEF Reaches, PublicationType
          <6> QED BY <1>3, <6>2, <6>3
        <5> QED BY <1>3, <2>5, <3>1, <5>1, <5>2, <5>3
      <4>2. h \in lo..h BY <1>3, <4>1
      <4> QED BY <1>4, <4>2 DEF old
    <3> QED BY <1>3, <2>7, <3>2
  <2> QED BY <1>3, <2>6, <2>7, <2>8
<1>8. InOrder(m)
  <2>1. SUFFICES ASSUME NEW k \in DOMAIN m, Before(m, k) # {}, SequencesOf(m[k]) \ Before(m, k) # {}
                 PROVE  LET new == SequencesOf(m[k]) \ Before(m, k) IN
                        /\ Min(new) > Max(Before(m, k))
                        /\ \/ Min(new) = Max(Before(m, k)) + 1
                           \/ \E j \in DOMAIN m : IsClear(m[j]) /\ j < k
    BY DEF InOrder
  <2>2. CASE k \in DOMAIN l /\ m[k] = l[k]
    <3>1. m[k] = l[k] /\ Before(m, k) = Before(l, k) BY <1>6, <2>2
    <3>2. LET new == SequencesOf(l[k]) \ Before(l, k) IN
          /\ Min(new) > Max(Before(l, k))
          /\ \/ Min(new) = Max(Before(l, k)) + 1
             \/ \E j \in DOMAIN l : IsClear(l[j]) /\ j < k
      BY <1>0, <2>1, <2>2, <3>1 DEF InOrder
    <3> QED BY <1>6, <3>1, <3>2
  <2>3. CASE k = n + 1 /\ m[k] = p BY <1>1, <1>6, <1>7, <2>1, <2>3
  <2> QED BY <1>5, <2>2, <2>3
<1>9. OnItsSide(m)
  <2>1. SUFFICES ASSUME NEW j \in DOMAIN m, NEW k \in DOMAIN m, IsClear(m[j]), IsEvidence(m[k])
                 PROVE  IF k < j THEN m[k].interval < m[j].interval /\ m[k].last <= m[j].last
                        ELSE m[k].interval >= m[j].interval /\ m[k].first > m[j].last
    BY DEF OnItsSide
  <2>2. j \in DOMAIN l /\ m[j] = l[j] /\ IsClear(l[j]) BY <1>2, <1>5, <2>1
  <2>3. CASE k \in DOMAIN l /\ m[k] = l[k] BY <1>0, <2>1, <2>2, <2>3 DEF OnItsSide
  <2>4. CASE k = n + 1 /\ m[k] = p
    <3>1. ~(k < j) BY <1>1, <2>2, <2>4
    <3>2. l[j].interval <= i /\ l[j].last <= c BY <2>2 DEF Reaches
    <3>3. l[j].last \in 0..MaxSequence
      <4>1. l[j] \in PublicationType BY <1>0, <2>2
      <4> QED BY <4>1 DEF PublicationType
    <3> QED BY <1>3, <2>2, <2>4, <3>1, <3>2, <3>3
  <2> QED BY <1>5, <2>3, <2>4
<1>10. Completed(m, fi, WantedOf(st)) BY <1>0, <1>2, <1>5, <1>6 DEF Completed
<1>11. Reaches(m, i, c, lo, top)
  <2>1. {s \in Told(m) : s > c} = lo..top
    <3>1. ASSUME NEW s \in Told(m), s > c PROVE s \in lo..top
      <4>1. CASE s \in Told(l) BY <1>3, <1>4, <3>1, <4>1
      <4>2. CASE s \in SequencesOf(p) BY <1>2, <1>3, <4>2
      <4> QED BY <1>1, <4>1, <4>2
    <3>2. ASSUME NEW s \in lo..top PROVE s \in Told(m) /\ s > c
      <4>1. s \in Nat /\ s > c BY <1>3
      <4>2. CASE s <= h
        <5>1. s \in lo..h BY <1>3, <4>2
        <5> QED BY <1>1, <1>4, <4>1, <5>1
      <4>3. CASE s > h
        <5>1. s \in p.first..p.last BY <1>3, <4>3
        <5> QED BY <1>1, <1>2, <4>1, <5>1
      <4> QED BY <1>3, <4>1, <4>2, <4>3
    <3> QED BY <3>1, <3>2
  <2>2. \A k \in DOMAIN m : IsEvidence(m[k]) =>
          m[k].interval <= i /\ m[k].first > 0 /\ m[k].last <= top
    <3>1. ASSUME NEW k \in DOMAIN m, IsEvidence(m[k])
          PROVE  m[k].interval <= i /\ m[k].first > 0 /\ m[k].last <= top
      <4>1. CASE k \in DOMAIN l /\ m[k] = l[k]
        <5>1. l[k].interval <= i /\ l[k].first > 0 /\ l[k].last <= h BY <3>1, <4>1 DEF Reaches
        <5>2. l[k].last \in 0..MaxSequence
          <6>1. l[k] \in PublicationType BY <1>0, <4>1
          <6> QED BY <6>1 DEF PublicationType
        <5> QED BY <1>3, <4>1, <5>1, <5>2
      <4>2. CASE k = n + 1 /\ m[k] = p BY <1>3, <4>2
      <4> QED BY <1>5, <3>1, <4>1, <4>2
    <3> QED BY <3>1
  <2>3. \A k \in DOMAIN m : IsClear(m[k]) => m[k].interval <= i /\ m[k].last <= c
    BY <1>2, <1>5 DEF Reaches
  <2>4. (\A k \in DOMAIN m : ~IsClear(m[k])) => c = 0 BY <1>6 DEF Reaches
  <2>5. c < lo /\ lo <= top + 1 BY <1>3
  <2> QED BY <2>1, <2>2, <2>3, <2>4, <2>5 DEF Reaches
<1> QED BY <1>1, <1>8, <1>9, <1>10, <1>11 DEF Orderly, m, top

\* A Clear comes after everything that was told of the intervals before it.
LEMMA TellsClear ==
  ASSUME NEW l, NEW i \in 1..MaxIntervals, NEW fi \in 1..MaxIntervals, NEW st, Orderly(l, fi, st),
         NEW c \in 0..MaxSequence, NEW lo \in 1..MaxSequence + 1, NEW h \in 0..MaxSequence,
         Reaches(l, i, c, lo, h),
         NEW p \in PublicationType, IsClear(p), p.interval > i, p.last >= h
  PROVE  /\ Orderly(Append(l, p), fi, st)
         /\ Reaches(Append(l, p), p.interval, p.last, p.last + 1, p.last)
<1> DEFINE m == Append(l, p)
           n == Len(l)
           e == p.last
<1>0. l \in Seq(PublicationType) /\ InOrder(l) /\ OnItsSide(l) /\ Completed(l, fi, WantedOf(st))
  BY DEF Orderly
<1>1. /\ m \in Seq(PublicationType) /\ n \in Nat
      /\ DOMAIN m = 1..n + 1 /\ DOMAIN l = 1..n
      /\ \A k \in 1..n : m[k] = l[k]
      /\ m[n + 1] = p
      /\ \A k \in 1..n : Before(m, k) = Before(l, k)
      /\ Told(m) = Told(l) \cup SequencesOf(p)
  BY <1>0, AppendTells
<1>2. /\ SequencesOf(p) = {} /\ ~IsEvidence(p)
      /\ e \in 0..MaxSequence /\ p.interval \in 1..MaxIntervals /\ p.type # "replay-complete"
  BY DEF SequencesOf, PublicationType, IsEvidence, IsClear
<1>3. /\ MaxSequence \in Nat /\ MaxIntervals \in Nat /\ c \in Nat /\ lo \in Nat /\ h \in Nat /\ e \in Nat
      /\ c < lo /\ c <= h /\ h <= e
  BY <1>2, FeedAssumption DEF Reaches
<1>4. \A s \in Told(l) : s \in Nat /\ s <= h
  <2>1. {s \in Told(l) : s > c} = lo..h /\ Told(l) \subseteq 0..MaxSequence
    BY <1>0, ToldBefore DEF Reaches
  <2>2. ASSUME NEW s \in Told(l) PROVE s \in Nat /\ s <= h
    <3>1. s \in Nat BY <1>3, <2>1
    <3>2. s <= c \/ s \in lo..h BY <1>3, <2>1, <3>1
    <3> QED BY <1>3, <3>1, <3>2
  <2> QED BY <2>2
<1> HIDE DEF m, n
<1>5. \A k \in DOMAIN m : (k \in DOMAIN l /\ m[k] = l[k]) \/ (k = n + 1 /\ m[k] = p) BY <1>1
<1>6. \A k \in DOMAIN l : k \in DOMAIN m /\ m[k] = l[k] /\ Before(m, k) = Before(l, k) /\ k < n + 1
  BY <1>1
<1>7. \A k \in DOMAIN l : /\ l[k].interval \in 1..MaxIntervals
                          /\ l[k].first \in 0..MaxSequence /\ l[k].last \in 0..MaxSequence
  <2>1. ASSUME NEW k \in DOMAIN l PROVE l[k] \in PublicationType BY <1>0
  <2> QED BY <2>1 DEF PublicationType
<1>8. InOrder(m)
  <2>1. SUFFICES ASSUME NEW k \in DOMAIN m, Before(m, k) # {}, SequencesOf(m[k]) \ Before(m, k) # {}
                 PROVE  LET new == SequencesOf(m[k]) \ Before(m, k) IN
                        /\ Min(new) > Max(Before(m, k))
                        /\ \/ Min(new) = Max(Before(m, k)) + 1
                           \/ \E j \in DOMAIN m : IsClear(m[j]) /\ j < k
    BY DEF InOrder
  <2>2. k \in DOMAIN l /\ m[k] = l[k] /\ Before(m, k) = Before(l, k) BY <1>2, <1>5, <1>6, <2>1
  <2>3. LET new == SequencesOf(l[k]) \ Before(l, k) IN
        /\ Min(new) > Max(Before(l, k))
        /\ \/ Min(new) = Max(Before(l, k)) + 1
           \/ \E j \in DOMAIN l : IsClear(l[j]) /\ j < k
    BY <1>0, <2>1, <2>2 DEF InOrder
  <2> QED BY <1>6, <2>2, <2>3
<1>9. OnItsSide(m)
  <2>1. SUFFICES ASSUME NEW j \in DOMAIN m, NEW k \in DOMAIN m, IsClear(m[j]), IsEvidence(m[k])
                 PROVE  IF k < j THEN m[k].interval < m[j].interval /\ m[k].last <= m[j].last
                        ELSE m[k].interval >= m[j].interval /\ m[k].first > m[j].last
    BY DEF OnItsSide
  <2>2. k \in DOMAIN l /\ m[k] = l[k] /\ IsEvidence(l[k]) BY <1>2, <1>5, <2>1
  <2>3. CASE j \in DOMAIN l /\ m[j] = l[j] BY <1>0, <2>1, <2>2, <2>3 DEF OnItsSide
  <2>4. CASE j = n + 1 /\ m[j] = p
    <3>1. k < j BY <1>6, <2>2, <2>4
    <3>2. l[k].interval <= i /\ l[k].last <= h BY <2>2 DEF Reaches
    <3> QED BY <1>2, <1>3, <1>7, <2>2, <2>4, <3>1, <3>2
  <2> QED BY <1>5, <2>3, <2>4
<1>10. Completed(m, fi, WantedOf(st)) BY <1>0, <1>2, <1>5, <1>6 DEF Completed
<1>11. Reaches(m, p.interval, e, e + 1, e)
  <2>1. {s \in Told(m) : s > e} = e + 1..e
    <3>1. ASSUME NEW s \in Told(m), s > e PROVE FALSE BY <1>1, <1>2, <1>3, <1>4, <3>1
    <3>2. e + 1..e = {} BY <1>3
    <3> QED BY <3>1, <3>2
  <2>2. ASSUME NEW k \in DOMAIN m, IsEvidence(m[k])
        PROVE  m[k].interval <= p.interval /\ m[k].first > 0 /\ m[k].last <= e
    <3>1. k \in DOMAIN l /\ m[k] = l[k] BY <1>2, <1>5, <2>2
    <3>2. l[k].interval <= i /\ l[k].first > 0 /\ l[k].last <= h BY <2>2, <3>1 DEF Reaches
    <3> QED BY <1>2, <1>3, <1>7, <3>1, <3>2
  <2>3. ASSUME NEW k \in DOMAIN m, IsClear(m[k]) PROVE m[k].interval <= p.interval /\ m[k].last <= e
    <3>1. CASE k = n + 1 /\ m[k] = p BY <1>2, <1>3, <3>1
    <3>2. CASE k \in DOMAIN l /\ m[k] = l[k]
      <4>1. l[k].interval <= i /\ l[k].last <= c BY <2>3, <3>2 DEF Reaches
      <4> QED BY <1>2, <1>3, <1>7, <3>2, <4>1
    <3> QED BY <1>5, <3>1, <3>2
  <2>4. ~(\A k \in DOMAIN m : ~IsClear(m[k]))
    <3>1. n + 1 \in DOMAIN m BY <1>1
    <3> QED BY <1>1, <3>1
  <2>5. e < e + 1 /\ e + 1 <= e + 1 BY <1>3
  <2> QED BY <2>1, <2>2, <2>3, <2>4, <2>5 DEF Reaches
<1> QED BY <1>1, <1>8, <1>9, <1>10, <1>11 DEF Orderly, m

\* What was told in order stays so when the interval moves on.
LEMMA LaterInterval ==
  ASSUME NEW l, NEW i \in Int, NEW j \in Int, i <= j, NEW st, Orderly(l, i, st)
  PROVE  Orderly(l, j, st)
<1>1. \A k \in DOMAIN l : l[k].interval \in Int
  <2>1. ASSUME NEW k \in DOMAIN l PROVE l[k] \in PublicationType BY DEF Orderly
  <2> QED BY <2>1, FeedAssumption DEF PublicationType
<1>2. Completed(l, i, WantedOf(st)) BY DEF Orderly
<1>3. Completed(l, j, WantedOf(st))
  <2>1. ASSUME NEW k \in DOMAIN l, l[k].type = "replay-complete"
        PROVE  l[k].interval < j \/ WantedOf(st) \subseteq Before(l, k)
    <3>1. l[k].interval < i \/ WantedOf(st) \subseteq Before(l, k) BY <1>2, <2>1 DEF Completed
    <3> QED BY <1>1, <3>1
  <2> QED BY <2>1 DEF Completed
<1> QED BY <1>3 DEF Orderly

\* What was told in order was told in order at every point.
LEMMA PrefixInOrder ==
  ASSUME NEW l, NEW i, NEW st, Orderly(l, i, st), NEW n \in 0..Len(l)
  PROVE  Orderly(SubSeq(l, 1, n), i, st)
<1> DEFINE m == SubSeq(l, 1, n)
<1>1. l \in Seq(PublicationType) /\ InOrder(l) /\ OnItsSide(l) /\ Completed(l, i, WantedOf(st))
  BY DEF Orderly
<1>2. /\ m \in Seq(PublicationType) /\ n \in Nat /\ Len(l) \in Nat /\ n <= Len(l)
      /\ DOMAIN m = 1..n /\ DOMAIN l = 1..Len(l)
      /\ \A k \in 1..n : m[k] = l[k]
  BY <1>1
<1> HIDE DEF m
<1>3. \A k \in DOMAIN m : k \in DOMAIN l /\ m[k] = l[k] BY <1>2
<1>4. \A k \in DOMAIN m : Before(m, k) = Before(l, k)
  <2>1. ASSUME NEW k \in DOMAIN m PROVE Before(m, k) = Before(l, k)
    <3>1. \A j \in 1..(k - 1) : j \in DOMAIN m /\ m[j] = l[j] BY <1>2
    <3> QED BY <3>1 DEF Before
  <2> QED BY <2>1
<1>5. InOrder(m)
  <2>1. SUFFICES ASSUME NEW k \in DOMAIN m, Before(m, k) # {}, SequencesOf(m[k]) \ Before(m, k) # {}
                 PROVE  LET new == SequencesOf(m[k]) \ Before(m, k) IN
                        /\ Min(new) > Max(Before(m, k))
                        /\ \/ Min(new) = Max(Before(m, k)) + 1
                           \/ \E j \in DOMAIN m : IsClear(m[j]) /\ j < k
    BY DEF InOrder
  <2>2. k \in DOMAIN l /\ m[k] = l[k] /\ Before(m, k) = Before(l, k) BY <1>3, <1>4
  <2>3. LET new == SequencesOf(l[k]) \ Before(l, k) IN
        /\ Min(new) > Max(Before(l, k))
        /\ \/ Min(new) = Max(Before(l, k)) + 1
           \/ \E j \in DOMAIN l : IsClear(l[j]) /\ j < k
    BY <1>1, <2>1, <2>2 DEF InOrder
  <2>4. \A j \in DOMAIN l : j < k => j \in DOMAIN m /\ m[j] = l[j] BY <1>2
  <2> QED BY <2>2, <2>3, <2>4
<1>6. OnItsSide(m) BY <1>1, <1>3 DEF OnItsSide
<1>7. Completed(m, i, WantedOf(st)) BY <1>1, <1>3, <1>4 DEF Completed
<1> QED BY <1>2, <1>5, <1>6, <1>7 DEF Orderly, m

\* A publication more in what a step tells is one more in what was told.
LEMMA ToldInSteps ==
  ASSUME NEW l \in Seq(PublicationType), NEW o \in Seq(PublicationType)
  PROVE  /\ l \o o \in Seq(PublicationType)
         /\ l \o <<>> = l /\ <<>> \o o = o
         /\ \A p \in PublicationType : l \o Append(o, p) = Append(l \o o, p)
         /\ \A n \in 1..Len(o) : /\ SubSeq(o, 1, n) \in Seq(PublicationType)
                                 /\ Len(l) + n \in 0..Len(l \o o)
                                 /\ l \o SubSeq(o, 1, n) = SubSeq(l \o o, 1, Len(l) + n)
<1>1. l \o o \in Seq(PublicationType) /\ l \o <<>> = l /\ <<>> \o o = o /\ Len(l) \in Nat /\ Len(o) \in Nat
  OBVIOUS
<1>2. ASSUME NEW p \in PublicationType PROVE l \o Append(o, p) = Append(l \o o, p) OBVIOUS
<1>3. ASSUME NEW n \in 1..Len(o)
      PROVE  /\ SubSeq(o, 1, n) \in Seq(PublicationType)
             /\ Len(l) + n \in 0..Len(l \o o)
             /\ l \o SubSeq(o, 1, n) = SubSeq(l \o o, 1, Len(l) + n)
  <2>1. SubSeq(o, 1, n) \in Seq(PublicationType) /\ Len(SubSeq(o, 1, n)) = n /\ n \in Nat /\ n <= Len(o)
    OBVIOUS
  <2>2. Len(l \o o) = Len(l) + Len(o) OBVIOUS
  <2>3. Len(l) + n \in 0..Len(l \o o) BY <1>1, <2>1, <2>2
  <2> DEFINE a == l \o SubSeq(o, 1, n)
             b == SubSeq(l \o o, 1, Len(l) + n)
  <2>4. a \in Seq(PublicationType) /\ Len(a) = Len(l) + n BY <2>1
  <2>5. b \in Seq(PublicationType) /\ Len(b) = Len(l) + n
    <3>1. \A k \in 1..Len(l) + n : (l \o o)[k] \in PublicationType
      <4>1. \A k \in 1..Len(l) + n : k \in 1..Len(l \o o) BY <1>1, <2>1, <2>2
      <4> QED BY <1>1, <4>1
    <3> QED BY <1>1, <2>1, <2>2, <3>1
  <2>6. ASSUME NEW k \in 1..Len(l) + n PROVE a[k] = b[k]
    <3>1. b[k] = (l \o o)[k] BY <1>1, <2>1, <2>2
    <3>2. CASE k <= Len(l)
      <4>1. k \in 1..Len(l) BY <1>1, <3>2
      <4> QED BY <1>1, <2>1, <2>4, <3>1, <4>1
    <3>3. CASE k > Len(l)
      <4>1. k - Len(l) \in 1..n /\ k - Len(l) \in 1..Len(o) BY <1>1, <2>1, <3>3
      <4>2. a[k] = SubSeq(o, 1, n)[k - Len(l)] /\ (l \o o)[k] = o[k - Len(l)]
        BY <1>1, <2>1, <3>3, <4>1
      <4>3. SubSeq(o, 1, n)[k - Len(l)] = o[k - Len(l)] BY <1>1, <2>1, <4>1
      <4> QED BY <3>1, <4>2, <4>3
    <3> QED BY <1>1, <3>2, <3>3
  <2> HIDE DEF a, b
  <2>7. a = b BY <2>4, <2>5, <2>6
  <2> QED BY <2>1, <2>3, <2>7 DEF a, b
<1> QED BY <1>1, <1>2, <1>3

-----------------------------------------------------------------------------
(* The fields of a feed, and its queue *)

\* d holds what has become of the feed after so many entries of its queue.
IsDrained(d, f) ==
  d = [n \in 0..Len(f.pending) |->
         IF n = 0 THEN [f EXCEPT !.pending = <<>>] ELSE drainOne(d[n - 1], f.pending[n])]

\* The recursive definition in drainPending has a solution.
LEMMA DrainUnfolds ==
  ASSUME NEW f, Len(f.pending) \in Nat, f.state # "none"
  PROVE  \E d : /\ drainPending(f) = d[Len(f.pending)]
                /\ d[0] = [f EXCEPT !.pending = <<>>]
                /\ \A n \in 1..Len(f.pending) : d[n] = drainOne(d[n - 1], f.pending[n])
<1> DEFINE N == Len(f.pending)
           A == [f EXCEPT !.pending = <<>>]
           Solves(d, n) == d[0] = A /\ \A k \in 1..n : d[k] = drainOne(d[k - 1], f.pending[k])
           T == {n \in Nat : n <= N => \E d : Solves(d, n)}
<1> HIDE DEF N, A
<1>1. 0 \in T
  <2>1. Solves([k \in {0} |-> A], 0) OBVIOUS
  <2> QED BY <2>1
<1>2. ASSUME NEW n \in Nat, n \in T PROVE n + 1 \in T
  <2>1. SUFFICES ASSUME n + 1 <= N PROVE \E d : Solves(d, n + 1) BY <1>2
  <2>2. PICK d : Solves(d, n) BY <1>2, <2>1 DEF N
  <2> DEFINE g == [k \in 0..n + 1 |-> IF k = n + 1 THEN drainOne(d[n], f.pending[n + 1]) ELSE d[k]]
  <2>3. g[0] = A BY <2>2
  <2>4. ASSUME NEW k \in 1..n + 1 PROVE g[k] = drainOne(g[k - 1], f.pending[k])
    <3>1. CASE k = n + 1
      <4>1. k - 1 = n /\ n \in 0..n + 1 /\ n # n + 1 BY <3>1
      <4>2. g[k] = drainOne(d[n], f.pending[k]) /\ g[k - 1] = d[n] BY <3>1, <4>1
      <4> QED BY <4>2
    <3>2. CASE k # n + 1
      <4>1. k \in 1..n /\ k - 1 \in 0..n + 1 /\ k - 1 # n + 1 BY <3>2
      <4>2. d[k] = drainOne(d[k - 1], f.pending[k]) BY <2>2, <4>1
      <4>3. g[k] = d[k] /\ g[k - 1] = d[k - 1] BY <3>2, <4>1
      <4> QED BY <4>2, <4>3
    <3> QED BY <3>1, <3>2
  <2> QED BY <2>3, <2>4
<1>3. N \in T
  <2> HIDE DEF T
  <2> QED BY <1>1, <1>2, Induction DEF N
<1>4. PICK d : Solves(d, N) BY <1>3 DEF N
<1> DEFINE e == [n \in 0..N |-> d[n]]
           E == CHOOSE x : IsDrained(x, f)
<1>5. IsDrained(e, f)
  <2>1. ASSUME NEW n \in 0..N PROVE e[n] = IF n = 0 THEN A ELSE drainOne(e[n - 1], f.pending[n])
    <3>1. CASE n = 0 BY <1>4, <3>1
    <3>2. CASE n # 0
      <4>1. n \in 1..N /\ n - 1 \in 0..N BY <3>2 DEF N
      <4>2. d[n] = drainOne(d[n - 1], f.pending[n]) BY <1>4, <4>1
      <4>3. e[n] = d[n] /\ e[n - 1] = d[n - 1] BY <4>1
      <4> QED BY <3>2, <4>2, <4>3
    <3> QED BY <3>1, <3>2
  <2>2. e = [n \in 0..N |-> IF n = 0 THEN A ELSE drainOne(e[n - 1], f.pending[n])] BY <2>1
  <2> QED BY <2>2 DEF IsDrained, N, A
<1>6. IsDrained(E, f)
  <2> HIDE DEF e
  <2> QED BY <1>5
<1>7. E = [n \in 0..N |-> IF n = 0 THEN A ELSE drainOne(E[n - 1], f.pending[n])]
  <2> HIDE DEF E
  <2> QED BY <1>6 DEF IsDrained, N, A
<1>8. drainPending(f) = E[N] BY DEF drainPending, IsDrained, N
<1> HIDE DEF E
<1>9. E[0] = A /\ \A n \in 1..N : E[n] = drainOne(E[n - 1], f.pending[n])
  <2>1. 0 \in 0..N BY DEF N
  <2>2. E[0] = A BY <1>7, <2>1
  <2>3. ASSUME NEW n \in 1..N PROVE E[n] = drainOne(E[n - 1], f.pending[n])
    <3>1. n \in 0..N /\ n # 0 BY DEF N
    <3> QED BY <1>7, <3>1
  <2> QED BY <2>2, <2>3
<1> QED BY <1>8, <1>9 DEF N, A

\* An entry of the queue of a replay.
QueueType ==
  [type : PublicationTypes \cup {"committed-range"}, interval : 1..MaxIntervals,
   first : 0..MaxSequence, last : 0..MaxSequence]

\* The same range is retained.
SameRange(g, f) == g.interval = f.interval /\ g.oldest = f.oldest /\ g.boundary = f.boundary

\* The fields of a feed.
LEMMA FeedFields ==
  ASSUME NEW f \in FeedType
  PROVE  /\ f.interval \in 1..MaxIntervals /\ f.oldest \in 1..(MaxSequence + 1)
         /\ f.boundary \in 0..MaxSequence
         /\ f.state \in {"none", "replaying", "live"}
         /\ f.replay.next \in 0..MaxSequence /\ f.replay.last \in -1..(MaxSequence - 1)
         /\ f.replay.interval \in 0..MaxIntervals
         /\ f.pending \in Seq(QueueType) /\ f.out \in Seq(PublicationType)
         /\ MaxSequence \in Nat /\ MaxIntervals \in Nat
         /\ f.interval \in Nat /\ f.oldest \in Nat /\ f.boundary \in Nat
<1>1. /\ f.interval \in 1..MaxIntervals /\ f.oldest \in 1..(MaxSequence + 1)
      /\ f.boundary \in 0..MaxSequence
      /\ f.state \in {"none", "replaying", "live"}
      /\ f.replay \in [next : 0..MaxSequence, last : -1..(MaxSequence - 1), interval : 0..MaxIntervals]
      /\ f.pending \in Seq(QueueType) /\ f.out \in Seq(PublicationType)
  BY DEF FeedType, QueueType, PublicationType
<1>2. /\ f.replay.next \in 0..MaxSequence /\ f.replay.last \in -1..(MaxSequence - 1)
      /\ f.replay.interval \in 0..MaxIntervals
  BY <1>1
<1>3. MaxSequence \in Nat /\ MaxIntervals \in Nat BY FeedAssumption
<1>4. f.interval \in Nat /\ f.oldest \in Nat /\ f.boundary \in Nat
  <2>1. \A n \in Nat : 1..n \subseteq Nat /\ 0..n \subseteq Nat /\ n + 1 \in Nat OBVIOUS
  <2> QED BY <1>1, <1>3, <2>1
<1> QED BY <1>1, <1>2, <1>3, <1>4

\* Where a replay stands.
ReplayType == [next : 0..MaxSequence, last : -1..(MaxSequence - 1), interval : 0..MaxIntervals]

\* g is f with another state, replay, queue and publications.
Updated(g, f, s, r, q, o) ==
  /\ g \in FeedType /\ SameRange(g, f)
  /\ g.state = s /\ g.replay = r /\ g.pending = q /\ g.out = o

\* Such an update keeps the type, and changes nothing else.
LEMMA FeedUpdate ==
  ASSUME NEW f \in FeedType, NEW s \in {"none", "replaying", "live"},
         NEW r \in ReplayType, NEW q \in Seq(QueueType), NEW o \in Seq(PublicationType)
  PROVE  /\ Updated([f EXCEPT !.out = o], f, f.state, f.replay, f.pending, o)
         /\ Updated([f EXCEPT !.pending = q], f, f.state, f.replay, q, f.out)
         /\ Updated([f EXCEPT !.state = s], f, s, f.replay, f.pending, f.out)
         /\ Updated([f EXCEPT !.replay = r], f, f.state, r, f.pending, f.out)
         /\ Updated([f EXCEPT !.state = s, !.replay = r], f, s, r, f.pending, f.out)
         /\ Updated([f EXCEPT !.state = s, !.replay = r, !.pending = q], f, s, r, q, f.out)
         /\ Updated([f EXCEPT !.state = s, !.out = o], f, s, f.replay, f.pending, o)
<1> DEFINE I == 1..MaxIntervals
           O == 1..(MaxSequence + 1)
           B == 0..MaxSequence
           S == {"none", "replaying", "live"}
           R == ReplayType
           Q == Seq(QueueType)
           P == Seq(PublicationType)
<1>1. FeedType = [interval : I, oldest : O, boundary : B, state : S, replay : R, pending : Q, out : P]
  BY DEF FeedType, QueueType, PublicationType, ReplayType
<1>2. s \in S /\ r \in R /\ q \in Q /\ o \in P OBVIOUS
<1> HIDE DEF I, O, B, S, R, Q, P
<1>3. Updated([f EXCEPT !.out = o], f, f.state, f.replay, f.pending, o)
  BY <1>1, <1>2 DEF Updated, SameRange
<1>4. Updated([f EXCEPT !.pending = q], f, f.state, f.replay, q, f.out)
  BY <1>1, <1>2 DEF Updated, SameRange
<1>5. Updated([f EXCEPT !.state = s], f, s, f.replay, f.pending, f.out)
  BY <1>1, <1>2 DEF Updated, SameRange
<1>6. Updated([f EXCEPT !.replay = r], f, f.state, r, f.pending, f.out)
  BY <1>1, <1>2 DEF Updated, SameRange
<1>7. Updated([f EXCEPT !.state = s, !.replay = r], f, s, r, f.pending, f.out)
  BY <1>1, <1>2 DEF Updated, SameRange
<1>8. Updated([f EXCEPT !.state = s, !.replay = r, !.pending = q], f, s, r, q, f.out)
  BY <1>1, <1>2 DEF Updated, SameRange
<1>9. Updated([f EXCEPT !.state = s, !.out = o], f, s, f.replay, f.pending, o)
  BY <1>1, <1>2 DEF Updated, SameRange
<1> QED BY <1>3, <1>4, <1>5, <1>6, <1>7, <1>8, <1>9

\* Every part of a feed is of its type.
LEMMA FeedParts ==
  ASSUME NEW f \in FeedType
  PROVE  /\ f.state \in {"none", "replaying", "live"} /\ f.replay \in ReplayType
         /\ f.pending \in Seq(QueueType) /\ f.out \in Seq(PublicationType)
         /\ NoReplay \in ReplayType /\ <<>> \in Seq(QueueType) /\ <<>> \in Seq(PublicationType)
<1>1. f.replay \in ReplayType BY DEF FeedType, ReplayType
<1>2. NoReplay \in ReplayType BY FeedAssumption DEF NoReplay, ReplayType
<1> QED BY <1>1, <1>2, FeedFields

\* A publication that the observer receives is the next thing it was told.
LEMMA InvokeTells ==
  ASSUME NEW f \in FeedType, f.state # "none", NEW p \in PublicationType, NEW l \in Seq(PublicationType)
  PROVE  LET g == invoke(f, p) IN
         /\ g \in FeedType /\ SameRange(g, f)
         /\ g.state = f.state /\ g.replay = f.replay /\ g.pending = f.pending
         /\ l \o g.out = Append(l \o f.out, p)
<1> DEFINE x == f.out
           o == Append(f.out, p)
<1>1. invoke(f, p) = [f EXCEPT !.out = o] BY DEF invoke
<1>2. x \in Seq(PublicationType) /\ o \in Seq(PublicationType) /\ o = Append(x, p) BY FeedParts
<1> HIDE DEF x, o
<1>3. l \o Append(x, p) = Append(l \o x, p) BY <1>2, ToldInSteps
<1>4. Updated([f EXCEPT !.out = o], f, f.state, f.replay, f.pending, o)
  BY <1>2, FeedParts, FeedUpdate
<1> QED BY <1>1, <1>2, <1>3, <1>4 DEF Updated, x

\* The feed without its observer.
LEMMA UnfollowFields ==
  ASSUME NEW f \in FeedType PROVE LET g == unfollow(f) IN
         /\ g \in FeedType /\ SameRange(g, f) /\ g.state = "none" /\ Idle(g) /\ g.out = f.out
<1>1. Updated(unfollow(f), f, "none", NoReplay, <<>>, f.out)
  BY FeedParts, FeedUpdate DEF unfollow
<1> QED BY <1>1 DEF Updated, Idle

\* The entries of a queue: numbers, and none beyond the feed that it leads to.
LEMMA QueueFacts ==
  ASSUME NEW f \in FeedType, NEW b \in 0..MaxSequence, NEW i \in 1..MaxIntervals, Queued(f, b, i)
  PROVE  LET q == f.pending IN
         /\ q \in Seq(QueueType) /\ Len(q) \in Nat /\ DOMAIN q = 1..Len(q)
         /\ \A n \in 1..Len(q) :
              /\ q[n] \in QueueType
              /\ q[n].interval \in Nat /\ q[n].first \in Nat /\ q[n].last \in Nat
              /\ i <= q[n].interval /\ q[n].interval <= f.interval
              /\ b <= q[n].last /\ q[n].last <= f.boundary
         /\ \A n \in 0..Len(q) : /\ EndAt(q, n, b) \in Nat /\ b <= EndAt(q, n, b) /\ EndAt(q, n, b) <= f.boundary
                                 /\ IntervalAt(q, n, i) \in Nat /\ i <= IntervalAt(q, n, i)
                                 /\ IntervalAt(q, n, i) <= f.interval
         /\ i <= f.interval /\ b <= f.boundary
<1> DEFINE q == f.pending
<1>1. /\ q \in Seq(QueueType) /\ f.interval \in Nat /\ f.boundary \in Nat /\ b \in Nat /\ i \in Nat
      /\ MaxSequence \in Nat /\ MaxIntervals \in Nat
  BY FeedFields
<1>2. Len(q) \in Nat /\ DOMAIN q = 1..Len(q) BY <1>1
<1>3. /\ QueueInOrder(q, b, i) /\ EndAt(q, Len(q), b) = f.boundary
      /\ IntervalAt(q, Len(q), i) = f.interval
  BY DEF Queued
<1> HIDE DEF q
<1>4. \A n \in 1..Len(q) : q[n] \in QueueType BY <1>1
<1>5. \A n \in 1..Len(q) : q[n].interval \in Nat /\ q[n].first \in Nat /\ q[n].last \in Nat
  BY <1>1, <1>4 DEF QueueType
<1>6. ASSUME NEW n \in 1..Len(q)
      PROVE  /\ i <= q[n].interval /\ q[n].interval <= f.interval
             /\ b <= q[n].last /\ q[n].last <= f.boundary
  <2>1. i <= q[n].interval /\ b <= q[n].last BY <1>2, <1>1, <1>5, <1>3 DEF QueueInOrder
  <2>2. Len(q) # 0 /\ Len(q) \in 1..Len(q) /\ (n = Len(q) \/ n < Len(q))
    <3>1. \A k \in Nat : n \in 1..k => k # 0 /\ k \in 1..k /\ (n = k \/ n < k) OBVIOUS
    <3> QED BY <1>2, <3>1
  <2>3. q[Len(q)].last = f.boundary /\ q[Len(q)].interval = f.interval
    BY <1>3, <2>2 DEF EndAt, IntervalAt
  <2>4. CASE n < Len(q)
    <3>1. q[n].interval <= q[Len(q)].interval /\ q[n].last <= q[Len(q)].last
      BY <1>2, <1>3, <2>2, <2>4 DEF QueueInOrder
    <3> QED BY <2>1, <2>3, <3>1
  <2>5. CASE n = Len(q) BY <1>1, <2>1, <2>3, <2>5
  <2> QED BY <2>2, <2>4, <2>5
<1>7. i <= f.interval /\ b <= f.boundary
  <2>1. CASE Len(q) = 0 BY <1>1, <1>3, <2>1 DEF EndAt, IntervalAt
  <2>2. CASE Len(q) # 0
    <3>1. 1 \in 1..Len(q) BY <1>2, <2>2
    <3> QED BY <1>1, <1>5, <1>6, <3>1
  <2> QED BY <2>1, <2>2
<1>8. ASSUME NEW n \in 0..Len(q)
      PROVE  /\ EndAt(q, n, b) \in Nat /\ b <= EndAt(q, n, b) /\ EndAt(q, n, b) <= f.boundary
             /\ IntervalAt(q, n, i) \in Nat /\ i <= IntervalAt(q, n, i)
             /\ IntervalAt(q, n, i) <= f.interval
  <2>1. CASE n = 0 BY <1>1, <1>7, <2>1 DEF EndAt, IntervalAt
  <2>2. CASE n # 0
    <3>1. n \in 1..Len(q) BY <1>2, <2>2
    <3> QED BY <1>5, <1>6, <2>2, <3>1 DEF EndAt, IntervalAt
  <2> QED BY <2>1, <2>2
<1> QED BY <1>1, <1>2, <1>4, <1>5, <1>6, <1>7, <1>8 DEF q

\* g is the live feed f after it has passed on what was queued, in order.
PassedOn(g, f, l, st) ==
  /\ g \in FeedType /\ SameRange(g, f)
  /\ g.state = "live" /\ g.replay = f.replay /\ g.pending = <<>>
  /\ Orderly(l \o g.out, f.interval, st)

\* A queued range that is retained is told as Evidence; one of an earlier
\* interval is passed over.
LEMMA DrainsRange ==
  ASSUME NEW f \in FeedType, NEW l \in Seq(PublicationType), NEW st, NEW g, PassedOn(g, f, l, st),
         NEW p \in QueueType, IsRange(p),
         NEW i \in 1..MaxIntervals, p.interval = i,
         NEW c \in 0..MaxSequence, NEW lo \in 1..MaxSequence + 1, NEW h \in 0..MaxSequence,
         Reaches(l \o g.out, i, c, lo, h),
         i = f.interval => /\ f.oldest <= p.first /\ p.last <= f.boundary /\ p.first <= p.last
                           /\ lo <= p.first /\ p.first <= h + 1
  PROVE  LET d == drainOne(g, p) IN
         /\ PassedOn(d, f, l, st)
         /\ Reaches(l \o d.out, i, c, lo, IF i = f.interval /\ p.last > h THEN p.last ELSE h)
<1> DEFINE d == drainOne(g, p)
           e == [p EXCEPT !.type = "committed-evidence"]
<1>1. /\ g \in FeedType /\ SameRange(g, f) /\ g.state = "live" /\ g.replay = f.replay
      /\ g.pending = <<>> /\ Orderly(l \o g.out, f.interval, st)
  BY DEF PassedOn
<1>2. CASE i # f.interval
  <2>1. d = g BY <1>1, <1>2 DEF drainOne, SameRange, IsRange
  <2> QED BY <1>2, <2>1
<1>3. CASE i = f.interval
  <2>0. f.oldest <= p.first /\ p.last <= f.boundary /\ p.first <= p.last /\ lo <= p.first /\ p.first <= h + 1
    BY <1>3
  <2>1. /\ e \in PublicationType /\ IsEvidence(e) /\ e.interval = i
        /\ e.first = p.first /\ e.last = p.last
    BY DEF QueueType, PublicationType, IsEvidence, PublicationTypes
  <2>2. /\ f.oldest \in Nat /\ f.boundary \in Nat /\ p.first \in Nat /\ p.last \in Nat
        /\ g.oldest = f.oldest /\ g.boundary = f.boundary /\ g.interval = f.interval
    BY <1>1, FeedFields DEF SameRange, QueueType
  <2>3. d = invoke(g, e)
    <3>1. RetainedLength(g) # 0 /\ ~(p.first < g.oldest) /\ ~(p.last > g.boundary)
      BY <2>0, <2>2 DEF RetainedLength
    <3> QED BY <1>1, <1>3, <2>2, <3>1 DEF drainOne, IsRange
  <2> HIDE DEF d, e
  <2>4. /\ d \in FeedType /\ SameRange(d, g) /\ d.state = g.state /\ d.replay = g.replay
        /\ d.pending = g.pending /\ l \o d.out = Append(l \o g.out, e)
    <3>1. g.state # "none" BY <1>1
    <3> QED BY <1>1, <2>1, <2>3, <3>1, InvokeTells
  <2>5. /\ Orderly(Append(l \o g.out, e), f.interval, st)
        /\ Reaches(Append(l \o g.out, e), i, c, lo, IF e.last > h THEN e.last ELSE h)
    <3>1. f.interval \in 1..MaxIntervals BY FeedFields
    <3>2. lo <= e.first /\ e.first <= h + 1 /\ e.first <= e.last BY <2>0, <2>1
    <3> QED BY <1>1, <2>1, <3>1, <3>2, TellsEvidence
  <2>6. PassedOn(d, f, l, st) BY <1>1, <2>4, <2>5 DEF PassedOn, SameRange
  <2> QED BY <1>3, <2>1, <2>4, <2>5, <2>6 DEF d
<1> QED BY <1>2, <1>3

\* A queued Clear is told.
LEMMA DrainsClear ==
  ASSUME NEW f \in FeedType, NEW l \in Seq(PublicationType), NEW st, NEW g, PassedOn(g, f, l, st),
         NEW p \in QueueType, IsClear(p),
         NEW i \in 1..MaxIntervals, p.interval > i,
         NEW c \in 0..MaxSequence, NEW lo \in 1..MaxSequence + 1, NEW h \in 0..MaxSequence,
         Reaches(l \o g.out, i, c, lo, h), h <= p.last
  PROVE  LET d == drainOne(g, p) IN
         /\ PassedOn(d, f, l, st)
         /\ Reaches(l \o d.out, p.interval, p.last, p.last + 1, p.last)
<1> DEFINE d == drainOne(g, p)
<1>1. /\ g \in FeedType /\ SameRange(g, f) /\ g.state = "live" /\ g.replay = f.replay
      /\ g.pending = <<>> /\ Orderly(l \o g.out, f.interval, st)
  BY DEF PassedOn
<1>2. p \in PublicationType /\ p.last >= h
  <2>1. p.type \in PublicationTypes BY DEF IsClear, PublicationTypes
  <2>2. p.last \in Nat BY FeedAssumption DEF QueueType
  <2> QED BY <2>1, <2>2 DEF QueueType, PublicationType
<1>3. d = invoke(g, p) BY <1>1 DEF drainOne, IsClear
<1> HIDE DEF d
<1>4. /\ d \in FeedType /\ SameRange(d, g) /\ d.state = g.state /\ d.replay = g.replay
      /\ d.pending = g.pending /\ l \o d.out = Append(l \o g.out, p)
  <2>1. g.state # "none" BY <1>1
  <2> QED BY <1>1, <1>2, <1>3, <2>1, InvokeTells
<1>5. /\ Orderly(Append(l \o g.out, p), f.interval, st)
      /\ Reaches(Append(l \o g.out, p), p.interval, p.last, p.last + 1, p.last)
  <2>1. f.interval \in 1..MaxIntervals BY FeedFields
  <2> QED BY <1>1, <1>2, <2>1, TellsClear
<1>6. PassedOn(d, f, l, st) BY <1>1, <1>4, <1>5 DEF PassedOn, SameRange
<1> QED BY <1>4, <1>5, <1>6 DEF d

\* A replay whose interval was not cleared passes on ranges only, and ends at
\* the boundary.
LEMMA DrainsOneInterval ==
  ASSUME NEW f \in FeedType, f.state = "live", NEW l \in Seq(PublicationType), NEW st,
         Orderly(l \o f.out, f.interval, st),
         NEW b \in 0..MaxSequence, Queued(f, b, f.interval), f.oldest <= b + 1,
         NEW lo \in 1..MaxSequence + 1, lo <= b + 1,
         NEW h \in 0..MaxSequence, b <= h, h <= f.boundary,
         Reaches(l \o f.out, f.interval, 0, lo, h)
  PROVE  LET g == drainPending(f) IN
         PassedOn(g, f, l, st) /\ Reaches(l \o g.out, f.interval, 0, lo, f.boundary)
<1> DEFINE q == f.pending
           N == Len(f.pending)
           i == f.interval
           E(n) == EndAt(f.pending, n, b)
<1>1. /\ i \in 1..MaxIntervals /\ q \in Seq(QueueType) /\ N \in Nat /\ DOMAIN q = 1..N
      /\ \A n \in 1..N : /\ q[n] \in QueueType
                         /\ q[n].interval \in Nat /\ q[n].first \in Nat /\ q[n].last \in Nat
                         /\ q[n].interval = i /\ q[n].last <= f.boundary
      /\ \A n \in 0..N : E(n) \in Nat /\ b <= E(n) /\ IntervalAt(q, n, i) = i
      /\ E(N) = f.boundary
  <2>1. i \in 1..MaxIntervals BY FeedFields
  <2>2. /\ q \in Seq(QueueType) /\ N \in Nat /\ DOMAIN q = 1..N
        /\ \A n \in 1..N : /\ q[n] \in QueueType
                           /\ q[n].interval \in Nat /\ q[n].first \in Nat /\ q[n].last \in Nat
                           /\ i <= q[n].interval /\ q[n].interval <= i
                           /\ q[n].last <= f.boundary
        /\ \A n \in 0..N : /\ E(n) \in Nat /\ b <= E(n)
                           /\ IntervalAt(q, n, i) \in Nat /\ i <= IntervalAt(q, n, i) /\ IntervalAt(q, n, i) <= i
    BY <2>1, QueueFacts
  <2>3. E(N) = f.boundary /\ i \in Nat BY FeedFields DEF Queued
  <2> HIDE DEF q, N, i, E
  <2>4. \A y \in Nat : i <= y /\ y <= i => y = i BY <2>3
  <2>5. \A n \in 0..N : E(n) \in Nat /\ b <= E(n) /\ IntervalAt(q, n, i) = i BY <2>2, <2>4
  <2>6. ASSUME NEW n \in 1..N
        PROVE  /\ q[n] \in QueueType
               /\ q[n].interval \in Nat /\ q[n].first \in Nat /\ q[n].last \in Nat
               /\ q[n].interval = i /\ q[n].last <= f.boundary
    <3>1. q[n].interval = i BY <2>2, <2>4
    <3> QED BY <2>2, <3>1
  <2>7. q \in Seq(QueueType) /\ N \in Nat /\ DOMAIN q = 1..N BY <2>2
  <2> QED BY ONLY <2>1, <2>3, <2>5, <2>6, <2>7, Zenon
<1>2. \A n \in 1..N : IsRange(q[n]) /\ q[n].first = E(n - 1) + 1 /\ q[n].first <= q[n].last /\ E(n) = q[n].last
  <2>1. ASSUME NEW n \in 1..N
        PROVE  IsRange(q[n]) /\ q[n].first = E(n - 1) + 1 /\ q[n].first <= q[n].last /\ E(n) = q[n].last
    <3>1. n - 1 \in 0..N /\ n # 0 BY <1>1
    <3>2. IntervalAt(q, n - 1, i) = i /\ q[n].interval = i /\ i \in Nat BY <1>1, <3>1
    <3>3. \/ /\ IsRange(q[n])
             /\ q[n].first = EndAt(q, n - 1, b) + 1 /\ q[n].first <= q[n].last
          \/ q[n].interval = IntervalAt(q, n - 1, i) + 1
      BY <1>1 DEF Queued, Continues
    <3> QED BY <3>1, <3>2, <3>3 DEF EndAt
  <2> QED BY <2>1
<1>3. PICK d : /\ drainPending(f) = d[N]
               /\ d[0] = [f EXCEPT !.pending = <<>>]
               /\ \A n \in 1..N : d[n] = drainOne(d[n - 1], q[n])
  BY <1>1, DrainUnfolds
<1>4. /\ f.oldest \in Nat /\ f.boundary \in 0..MaxSequence /\ b \in Nat /\ h \in Nat /\ lo \in Nat
      /\ MaxSequence \in Nat
  BY FeedFields
<1> HIDE DEF q, N, i, E
<1> DEFINE Fits(n) == /\ PassedOn(d[n], f, l, st)
                      /\ \E t \in 0..MaxSequence :
                           Reaches(l \o d[n].out, i, 0, lo, t) /\ E(n) <= t /\ t <= f.boundary
           T == {n \in Nat : n <= N => Fits(n)}
<1>5. 0 \in T
  <2>1. Updated(d[0], f, f.state, f.replay, <<>>, f.out) BY <1>3, FeedParts, FeedUpdate
  <2>2. PassedOn(d[0], f, l, st) BY <2>1 DEF PassedOn, Updated
  <2>3. E(0) = b BY DEF E, EndAt
  <2>4. Reaches(l \o d[0].out, i, 0, lo, h) BY <2>1 DEF Updated, i
  <2> QED BY <2>2, <2>3, <2>4
<1>6. ASSUME NEW n \in Nat, n \in T PROVE n + 1 \in T
  <2>1. SUFFICES ASSUME n + 1 <= N PROVE Fits(n + 1) BY <1>6
  <2>2. PassedOn(d[n], f, l, st) BY <1>1, <1>6, <2>1
  <2>3. PICK t \in 0..MaxSequence : Reaches(l \o d[n].out, i, 0, lo, t) /\ E(n) <= t /\ t <= f.boundary
    BY <1>1, <1>6, <2>1
  <2> DEFINE p == q[n + 1]
  <2>4. n + 1 \in 1..N /\ n \in 0..N /\ (n + 1) - 1 = n BY <1>1, <2>1
  <2>5. /\ p \in QueueType /\ IsRange(p) /\ p.interval = i
        /\ p.first = E(n) + 1 /\ p.first <= p.last /\ E(n + 1) = p.last /\ p.last <= f.boundary
        /\ p.first \in Nat /\ p.last \in Nat /\ E(n) \in Nat /\ b <= E(n)
    BY <1>1, <1>2, <2>4
  <2>6. d[n + 1] = drainOne(d[n], p) BY <1>3, <2>4
  <2> HIDE DEF p
  <2>7. f.oldest <= p.first /\ lo <= p.first /\ p.first <= t + 1 /\ t \in Nat
    <3>1. t \in Nat /\ lo \in Nat /\ f.oldest \in Nat /\ b \in Nat BY <1>4
    <3>2. f.oldest <= b + 1 /\ lo <= b + 1 OBVIOUS
    <3>3. E(n) <= t BY <2>3
    <3> HIDE DEF E
    <3> QED BY <2>5, <3>1, <3>2, <3>3
  <2>8. /\ PassedOn(d[n + 1], f, l, st)
        /\ Reaches(l \o d[n + 1].out, i, 0, lo, IF i = f.interval /\ p.last > t THEN p.last ELSE t)
    <3>1. 0 \in 0..MaxSequence BY <1>4
    <3> QED BY <1>1, <2>2, <2>3, <2>5, <2>6, <2>7, <3>1, DrainsRange
  <2> DEFINE u == IF p.last > t THEN p.last ELSE t
  <2>9. u \in 0..MaxSequence /\ E(n + 1) <= u /\ u <= f.boundary BY <1>4, <2>3, <2>5, <2>7
  <2>10. Reaches(l \o d[n + 1].out, i, 0, lo, u) BY <2>8 DEF i
  <2> QED BY <2>8, <2>9, <2>10
<1>7. Fits(N)
  <2>1. N \in T
    <3> HIDE DEF T
    <3> QED BY <1>1, <1>5, <1>6, Induction
  <2> QED BY <1>1, <2>1
<1>8. PICK t \in 0..MaxSequence : Reaches(l \o d[N].out, i, 0, lo, t) /\ E(N) <= t /\ t <= f.boundary
  BY <1>7
<1>9. t = f.boundary BY <1>1, <1>4, <1>8
<1> QED BY <1>3, <1>7, <1>8, <1>9 DEF i

\* A replay whose interval was cleared passes over what was committed to that
\* interval meanwhile, passes on every Clear and ends with the new interval.
LEMMA DrainsAcrossClears ==
  ASSUME NEW f \in FeedType, f.state = "live", NEW l \in Seq(PublicationType), NEW st,
         Orderly(l \o f.out, f.interval, st),
         NEW b \in 0..MaxSequence, NEW i \in 1..MaxIntervals, i # f.interval, Queued(f, b, i),
         NEW lo \in 1..MaxSequence + 1, NEW h \in 0..MaxSequence,
         \A n \in DOMAIN f.pending : IsClear(f.pending[n]) => h <= f.pending[n].last,
         Reaches(l \o f.out, i, 0, lo, h)
  PROVE  LET g == drainPending(f) IN
         /\ PassedOn(g, f, l, st)
         /\ \E c \in 0..MaxSequence : Reaches(l \o g.out, f.interval, c, f.oldest, f.boundary)
<1> DEFINE q == f.pending
           N == Len(f.pending)
           j == f.interval
           E(n) == EndAt(f.pending, n, b)
           I(n) == IntervalAt(f.pending, n, i)
<1>1. /\ q \in Seq(QueueType) /\ N \in Nat /\ DOMAIN q = 1..N
      /\ \A n \in 1..N : /\ q[n] \in QueueType
                         /\ q[n].interval \in Nat /\ q[n].first \in Nat /\ q[n].last \in Nat
                         /\ q[n].interval <= j /\ q[n].last <= f.boundary
                         /\ q[n].interval = I(n) /\ q[n].last = E(n)
      /\ \A n \in 0..N : E(n) \in Nat /\ E(n) <= f.boundary /\ I(n) \in Nat /\ i <= I(n) /\ I(n) <= j
      /\ i < j
  <2>1. /\ q \in Seq(QueueType) /\ N \in Nat /\ DOMAIN q = 1..N
        /\ \A n \in 1..N : /\ q[n] \in QueueType
                           /\ q[n].interval \in Nat /\ q[n].first \in Nat /\ q[n].last \in Nat
                           /\ q[n].interval <= j /\ q[n].last <= f.boundary
        /\ \A n \in 0..N : E(n) \in Nat /\ E(n) <= f.boundary /\ I(n) \in Nat /\ i <= I(n) /\ I(n) <= j
        /\ i <= j
    BY QueueFacts
  <2>2. \A n \in 1..N : q[n].interval = I(n) /\ q[n].last = E(n)
    <3>1. \A n \in 1..N : n # 0 BY <2>1
    <3> QED BY <3>1 DEF EndAt, IntervalAt
  <2>3. i \in Nat /\ j \in Nat /\ i # j BY FeedFields
  <2> HIDE DEF q, N, j, E, I
  <2> QED BY <2>1, <2>2, <2>3
<1>2. /\ \A n \in 1..N :
           \/ IsRange(q[n]) /\ I(n) = I(n - 1) /\ q[n].first = E(n - 1) + 1 /\ q[n].first <= q[n].last
           \/ IsClear(q[n]) /\ I(n) = I(n - 1) + 1 /\ E(n) = E(n - 1)
      /\ \A m, n \in 1..N : m < n => I(m) <= I(n) /\ E(m) <= E(n)
      /\ E(N) = f.boundary /\ I(N) = j
      /\ \E n \in 1..N : IsClear(q[n]) /\ q[n].interval = j /\ f.oldest = E(n) + 1
  <2>1. Continues(q, b, i) /\ QueueInOrder(q, b, i) BY DEF Queued
  <2>2. ASSUME NEW n \in 1..N
        PROVE  \/ IsRange(q[n]) /\ I(n) = I(n - 1) /\ q[n].first = E(n - 1) + 1 /\ q[n].first <= q[n].last
               \/ IsClear(q[n]) /\ I(n) = I(n - 1) + 1 /\ E(n) = E(n - 1)
    <3>1. n \in DOMAIN q /\ q[n].interval = I(n) /\ q[n].last = E(n) BY <1>1
    <3> QED BY <2>1, <3>1 DEF Continues
  <2>3. ASSUME NEW m \in 1..N, NEW n \in 1..N, m < n PROVE I(m) <= I(n) /\ E(m) <= E(n)
    <3>1. q[m].interval <= q[n].interval /\ q[m].last <= q[n].last
      BY <1>1, <2>1, <2>3 DEF QueueInOrder
    <3>2. q[m].interval = I(m) /\ q[n].interval = I(n) /\ q[m].last = E(m) /\ q[n].last = E(n)
      BY <1>1
    <3> QED BY <3>1, <3>2
  <2>4. E(N) = f.boundary /\ I(N) = j BY DEF Queued
  <2>5. \E n \in 1..N : IsClear(q[n]) /\ q[n].interval = j /\ f.oldest = E(n) + 1
    <3>1. PICK n \in DOMAIN q : IsClear(q[n]) /\ q[n].interval = j /\ f.oldest = q[n].last + 1
      BY DEF Queued
    <3>2. n \in 1..N /\ q[n].last = E(n) BY <1>1
    <3> QED BY <3>1, <3>2
  <2> QED BY <2>2, <2>3, <2>4, <2>5
<1>3. PICK d : /\ drainPending(f) = d[N]
               /\ d[0] = [f EXCEPT !.pending = <<>>]
               /\ \A n \in 1..N : d[n] = drainOne(d[n - 1], q[n])
  BY <1>1, DrainUnfolds
<1>4. /\ f.oldest \in Nat /\ f.oldest \in 1..MaxSequence + 1 /\ f.boundary \in 0..MaxSequence
      /\ f.boundary \in Nat /\ h \in Nat /\ lo \in Nat
      /\ MaxSequence \in Nat /\ MaxIntervals \in Nat /\ j \in 1..MaxIntervals /\ j \in Nat /\ i \in Nat
      /\ 1 <= i /\ j <= MaxIntervals /\ f.boundary <= MaxSequence
  BY FeedFields
<1>5. \A n \in 1..N : IsClear(q[n]) => h <= E(n) BY <1>1
<1>6. \A n \in 1..N : IsClear(q[n]) /\ I(n) = j => f.oldest = E(n) + 1
  <2>1. PICK m \in 1..N : IsClear(q[m]) /\ q[m].interval = j /\ f.oldest = E(m) + 1 BY <1>2
  <2>2. I(m) = j BY <1>1, <2>1
  <2>3. ASSUME NEW n \in 1..N, NEW k \in 1..N, IsClear(q[n]), I(n) = j, I(k) = j, k < n PROVE FALSE
    <3>1. I(n) = I(n - 1) + 1 BY <1>2, <2>3 DEF IsClear, IsRange
    <3>2. n - 1 \in 1..N /\ (k = n - 1 \/ k < n - 1) BY <1>1, <2>3
    <3>3. n - 1 \in 0..N /\ I(n - 1) \in Nat
      <4>1. n - 1 \in 0..N BY <3>2
      <4> QED BY <1>1, <4>1
    <3>4. I(k) <= I(n - 1) BY <1>2, <2>3, <3>2, <3>3
    <3> QED BY <1>4, <2>3, <3>1, <3>3, <3>4
  <2>4. ASSUME NEW n \in 1..N, IsClear(q[n]), I(n) = j PROVE f.oldest = E(n) + 1
    <3>1. ~(m < n) /\ ~(n < m) BY <2>1, <2>2, <2>3, <2>4
    <3>2. m = n BY <1>1, <3>1
    <3> QED BY <2>1, <3>2
  <2> QED BY <2>4
<1> HIDE DEF q, N, j, E, I
<1> DEFINE Behind(n, c, k, t) == /\ I(n) < j
                                 /\ \A m \in 1..N : m > n /\ IsClear(q[m]) => t <= E(m)
           There(n, c, k, t) == I(n) = j /\ k = f.oldest /\ t = E(n) /\ f.oldest <= E(n) + 1
           Fits(n) == /\ PassedOn(d[n], f, l, st)
                      /\ \E c \in 0..MaxSequence, k \in 1..MaxSequence + 1, t \in 0..MaxSequence :
                           /\ Reaches(l \o d[n].out, I(n), c, k, t)
                           /\ Behind(n, c, k, t) \/ There(n, c, k, t)
           T == {n \in Nat : n <= N => Fits(n)}
<1>7. 0 \in T
  <2>1. Updated(d[0], f, f.state, f.replay, <<>>, f.out) BY <1>3, FeedParts, FeedUpdate
  <2>2. PassedOn(d[0], f, l, st) BY <2>1 DEF PassedOn, Updated
  <2>3. I(0) = i BY DEF I, IntervalAt
  <2>4. Reaches(l \o d[0].out, I(0), 0, lo, h) BY <2>1, <2>3 DEF Updated
  <2>5. Behind(0, 0, lo, h) BY <1>1, <1>5, <2>3
  <2>6. 0 \in 0..MaxSequence BY <1>4
  <2> QED BY <2>2, <2>4, <2>5, <2>6
<1>8. ASSUME NEW n \in Nat, n \in T PROVE n + 1 \in T
  <2>1. SUFFICES ASSUME n + 1 <= N PROVE Fits(n + 1) BY <1>8
  <2>2. PassedOn(d[n], f, l, st) BY <1>1, <1>8, <2>1
  <2>3. PICK c \in 0..MaxSequence, k \in 1..MaxSequence + 1, t \in 0..MaxSequence :
          /\ Reaches(l \o d[n].out, I(n), c, k, t)
          /\ Behind(n, c, k, t) \/ There(n, c, k, t)
    BY <1>1, <1>8, <2>1
  <2> DEFINE p == q[n + 1]
  <2>4. n + 1 \in 1..N /\ n \in 0..N /\ n + 1 \in 0..N /\ (n + 1) - 1 = n BY <1>1, <2>1
  <2>5. /\ p \in QueueType /\ p.interval = I(n + 1) /\ p.last = E(n + 1)
        /\ p.first \in Nat /\ p.last \in Nat /\ p.last <= f.boundary
        /\ I(n) \in Nat /\ I(n + 1) \in Nat /\ i <= I(n) /\ I(n) <= j /\ I(n + 1) <= j
        /\ E(n) \in Nat /\ E(n + 1) \in Nat /\ E(n + 1) <= f.boundary
    BY <1>1, <2>4
  <2>6. d[n + 1] = drainOne(d[n], p) BY <1>3, <2>4
  <2>7. \/ IsRange(p) /\ I(n + 1) = I(n) /\ p.first = E(n) + 1 /\ p.first <= p.last
        \/ IsClear(p) /\ I(n + 1) = I(n) + 1 /\ E(n + 1) = E(n)
    BY <1>2, <2>4
  <2>8. I(n) \in 1..MaxIntervals
    <3>1. \A x \in Nat : i <= x /\ x <= j => x \in 1..MaxIntervals BY <1>4
    <3>2. I(n) \in Nat /\ i <= I(n) /\ I(n) <= j BY <2>5
    <3> QED BY <3>1, <3>2
  <2>13. p.last \in 0..MaxSequence /\ p.last + 1 \in 1..MaxSequence + 1
    <3>1. p.last \in Nat /\ p.last <= f.boundary BY <2>5
    <3> HIDE DEF p
    <3> QED BY <1>4, <3>1
  <2>9. c \in Nat /\ k \in Nat /\ t \in Nat OBVIOUS
  <2>10. \A m \in 1..N : m > n + 1 => m > n BY <1>1
  <2>11. CASE IsRange(p)
    <3>1. I(n + 1) = I(n) /\ p.first = E(n) + 1 /\ p.first <= p.last /\ p.interval = I(n)
      BY <2>5, <2>7, <2>11 DEF IsRange, IsClear
    <3>2. I(n) = j => f.oldest <= p.first /\ k <= p.first /\ p.first <= t + 1 /\ t < p.last
      <4>1. ASSUME I(n) = j PROVE f.oldest <= p.first /\ k <= p.first /\ p.first <= t + 1 /\ t < p.last
        <5>1. There(n, c, k, t) BY <1>4, <2>3, <2>5, <4>1
        <5> QED BY <1>4, <2>5, <2>9, <3>1, <5>1
      <4> QED BY <4>1
    <3>3. /\ PassedOn(d[n + 1], f, l, st)
          /\ Reaches(l \o d[n + 1].out, I(n), c, k, IF I(n) = f.interval /\ p.last > t THEN p.last ELSE t)
      <4>1. I(n) = f.interval => /\ f.oldest <= p.first /\ p.last <= f.boundary /\ p.first <= p.last
                                 /\ k <= p.first /\ p.first <= t + 1
        BY <2>5, <3>1, <3>2 DEF j
      <4> HIDE DEF p
      <4> QED BY <2>2, <2>3, <2>5, <2>6, <2>8, <2>11, <3>1, <4>1, DrainsRange
    <3>4. CASE I(n) = j
      <4>1. p.last > t /\ p.last \in 0..MaxSequence BY <2>13, <3>2, <3>4
      <4>2. Reaches(l \o d[n + 1].out, I(n + 1), c, k, p.last) BY <3>1, <3>3, <3>4, <4>1 DEF j
      <4>3. There(n, c, k, t) BY <1>4, <2>3, <2>5, <3>4
      <4>4. There(n + 1, c, k, p.last) BY <1>4, <2>5, <3>1, <3>4, <4>3
      <4> QED BY <3>3, <4>1, <4>2, <4>4
    <3>5. CASE I(n) # j
      <4>1. Reaches(l \o d[n + 1].out, I(n + 1), c, k, t) BY <3>1, <3>3, <3>5 DEF j
      <4>2. Behind(n, c, k, t) BY <2>3, <3>5
      <4>3. Behind(n + 1, c, k, t) BY <2>10, <3>1, <4>2
      <4> QED BY <3>3, <4>1, <4>3
    <3> QED BY <3>4, <3>5
  <2>12. CASE IsClear(p)
    <3>1. I(n + 1) = I(n) + 1 /\ E(n + 1) = E(n) BY <2>7, <2>12 DEF IsRange, IsClear
    <3>2. Behind(n, c, k, t) BY <1>4, <2>3, <2>5, <3>1
    <3>3. t <= p.last /\ p.interval > I(n)
      <4>1. n + 1 > n OBVIOUS
      <4>2. t <= E(n + 1) BY <2>4, <2>12, <3>2, <4>1
      <4> QED BY <2>5, <3>1, <4>2
    <3>4. /\ PassedOn(d[n + 1], f, l, st)
          /\ Reaches(l \o d[n + 1].out, p.interval, p.last, p.last + 1, p.last)
      <4> HIDE DEF p
      <4> QED BY <2>2, <2>3, <2>5, <2>6, <2>8, <2>12, <3>3, DrainsClear
    <3>5. p.last \in 0..MaxSequence /\ p.last + 1 \in 1..MaxSequence + 1 BY <2>13
    <3>6. Reaches(l \o d[n + 1].out, I(n + 1), p.last, p.last + 1, p.last) BY <2>5, <3>4
    <3>7. CASE I(n + 1) = j
      <4>1. f.oldest = E(n + 1) + 1 BY <1>6, <2>4, <2>12, <3>7
      <4>2. There(n + 1, p.last, p.last + 1, p.last) BY <1>4, <2>5, <3>7, <4>1
      <4> QED BY <3>4, <3>5, <3>6, <4>2
    <3>8. CASE I(n + 1) # j
      <4>1. \A m \in 1..N : m > n + 1 => p.last <= E(m) BY <1>2, <2>4, <2>5
      <4>2. I(n + 1) < j
        <5>1. I(n + 1) \in Nat /\ I(n + 1) <= j BY <2>5
        <5> QED BY <1>4, <3>8, <5>1
      <4>3. Behind(n + 1, p.last, p.last + 1, p.last) BY <4>1, <4>2
      <4> QED BY <3>4, <3>5, <3>6, <4>3
    <3> QED BY <3>7, <3>8
  <2> QED BY <2>7, <2>11, <2>12
<1>9. Fits(N)
  <2>1. N \in T
    <3> HIDE DEF T
    <3> QED BY <1>1, <1>7, <1>8, Induction
  <2> QED BY <1>1, <2>1
<1>10. PICK c \in 0..MaxSequence, k \in 1..MaxSequence + 1, t \in 0..MaxSequence :
         /\ Reaches(l \o d[N].out, I(N), c, k, t)
         /\ Behind(N, c, k, t) \/ There(N, c, k, t)
  BY <1>9
<1>11. k = f.oldest /\ t = f.boundary BY <1>2, <1>4, <1>10
<1> QED BY <1>2, <1>3, <1>9, <1>10, <1>11 DEF j

-----------------------------------------------------------------------------
(* A replay, and its end *)

\* A publication of the feed.
LEMMA PublicationFields ==
  ASSUME NEW type \in PublicationTypes, NEW i \in 1..MaxIntervals,
         NEW first \in 0..MaxSequence, NEW last \in 0..MaxSequence
  PROVE  LET p == Publication(type, i, first, last) IN
         /\ p \in PublicationType
         /\ p.type = type /\ p.interval = i /\ p.first = first /\ p.last = last
  BY DEF Publication, PublicationType

\* What a follow asked for, in numbers.
LEMMA AskedFacts ==
  ASSUME NEW st, Asked(st)
  PROVE  /\ st.oldest \in Nat /\ st.oldest \in 1..MaxSequence + 1
         /\ st.boundary \in Nat /\ st.boundary \in 0..MaxSequence
         /\ st.oldest <= st.boundary + 1 /\ FirstOf(st) \in Nat
<1>1. /\ st.oldest \in 1..MaxSequence + 1 /\ st.boundary \in 0..MaxSequence
      /\ st.after \in Refs \cup {NoRef} /\ st.oldest <= st.boundary + 1 /\ MaxSequence \in Nat
  BY FeedAssumption DEF Asked
<1>2. st.after # NoRef => st.after.sequence \in Nat BY <1>1 DEF Refs
<1> QED BY <1>1, <1>2 DEF FirstOf

\* A feed that loses its observer after a last word.
LEMMA LastWord ==
  ASSUME NEW f \in FeedType, f.state # "none", f.oldest <= f.boundary + 1,
         NEW l \in Seq(PublicationType), NEW st, Orderly(l \o f.out, f.interval, st),
         NEW p \in PublicationType, p.type \in {"replay-failed", "replay-cancelled"}
  PROVE  LET g == unfollow(invoke(f, p)) IN
         g.state = "none" /\ SameRange(g, f) /\ Good(g, l \o g.out, st)
<1> DEFINE a == invoke(f, p)
           g == unfollow(a)
<1>1. /\ a \in FeedType /\ SameRange(a, f) /\ l \o a.out = Append(l \o f.out, p) BY InvokeTells
<1> HIDE DEF a
<1>2. g \in FeedType /\ SameRange(g, a) /\ g.state = "none" /\ Idle(g) /\ g.out = a.out
  BY <1>1, UnfollowFields
<1> HIDE DEF g
<1>3. Orderly(Append(l \o f.out, p), f.interval, st)
  <2>1. ~IsEvidence(p) /\ ~IsClear(p) /\ p.type # "replay-complete" BY DEF IsEvidence, IsClear
  <2>2. f.interval \in 1..MaxIntervals BY FeedFields
  <2> QED BY <2>1, <2>2, TellsNothing
<1>4. SameRange(g, f) BY <1>1, <1>2 DEF SameRange
<1>5. Good(g, l \o g.out, st) BY <1>1, <1>2, <1>3, <1>4 DEF Good, SameRange
<1> QED BY <1>2, <1>4, <1>5 DEF g, a

\* A replay that fails, or is cancelled, leaves what was told as it is.
LEMMA ReplayStops ==
  ASSUME NEW f \in FeedType, f.state # "none", f.oldest <= f.boundary + 1,
         NEW l \in Seq(PublicationType), NEW st, Orderly(l \o f.out, f.interval, st),
         NEW g \in {failCooperativeReplay(f), cancelCooperativeReplay(f)}
  PROVE  g.state = "none" /\ SameRange(g, f) /\ Good(g, l \o g.out, st)
<1>1. f.interval \in 1..MaxIntervals /\ f.boundary \in 0..MaxSequence /\ 0 \in 0..MaxSequence
  BY FeedFields
<1>2. {"replay-failed", "replay-cancelled"} \subseteq PublicationTypes BY DEF PublicationTypes
<1>3. \A type \in {"replay-failed", "replay-cancelled"} :
        LET p == Publication(type, f.interval, 0, f.boundary) IN
        p \in PublicationType /\ p.type = type
  BY <1>1, <1>2, PublicationFields
<1>4. \A type \in {"replay-failed", "replay-cancelled"} :
        LET h == unfollow(invoke(f, Publication(type, f.interval, 0, f.boundary))) IN
        h.state = "none" /\ SameRange(h, f) /\ Good(h, l \o h.out, st)
  <2>1. ASSUME NEW type \in {"replay-failed", "replay-cancelled"},
               NEW p, p = Publication(type, f.interval, 0, f.boundary)
        PROVE  LET h == unfollow(invoke(f, p)) IN
               h.state = "none" /\ SameRange(h, f) /\ Good(h, l \o h.out, st)
    <3>1. p \in PublicationType /\ p.type \in {"replay-failed", "replay-cancelled"}
      BY <1>3, <2>1
    <3> QED BY <3>1, LastWord
  <2> QED BY <2>1
<1> QED BY <1>4 DEF failCooperativeReplay, cancelCooperativeReplay

\* A replay that has told everything that was retained when it was requested,
\* or whose interval was cleared, completes: what was queued is passed on and
\* the observer is live.
LEMMA ReplayFinishes ==
  ASSUME NEW f \in FeedType, f.state = "replaying", f.oldest <= f.boundary + 1,
         NEW l \in Seq(PublicationType), NEW st, Asked(st), Orderly(l \o f.out, f.interval, st),
         ReplayInv(f, l \o f.out, st),
         f.interval # f.replay.interval \/ f.replay.next > f.replay.last
  PROVE  LET g == finishCooperativeReplay(f) IN Good(g, l \o g.out, st)
<1> DEFINE a == [f EXCEPT !.state = "live", !.replay = NoReplay]
           i == f.replay.interval
           p == Publication("replay-complete", i, 0, f.boundary)
           e == invoke(a, p)
           g == drainPending(e)
           L == l \o f.out
<1>0. finishCooperativeReplay(f) = g BY DEF finishCooperativeReplay
<1>1. Updated(a, f, "live", NoReplay, f.pending, f.out) BY FeedParts, FeedUpdate
<1>2. /\ f.interval \in 1..MaxIntervals /\ f.boundary \in 0..MaxSequence /\ f.boundary \in Nat
      /\ f.oldest \in Nat /\ f.interval \in Nat /\ MaxSequence \in Nat /\ MaxIntervals \in Nat
      /\ f.replay.next \in Nat /\ f.replay.last \in Int
      /\ L \in Seq(PublicationType)
  BY FeedFields, ToldInSteps
<1>3. /\ st.oldest \in Nat /\ st.boundary \in Nat /\ st.boundary \in 0..MaxSequence
      /\ st.oldest <= st.boundary + 1 /\ FirstOf(st) \in Nat
  BY AskedFacts
<1>4. i \in 1..MaxIntervals /\ i \in Nat /\ i <= f.interval BY <1>2 DEF ReplayInv
<1>5. Queued(f, st.boundary, i) BY DEF ReplayInv
<1>6. PICK lo \in 1..MaxSequence + 1, h \in 0..MaxSequence :
       /\ Reaches(L, i, 0, lo, h)
       /\ lo <= st.boundary + 1 /\ (lo <= st.oldest \/ lo <= FirstOf(st))
       /\ i = f.interval => /\ f.oldest = st.oldest /\ h = f.oldest + f.replay.next - 1
                            /\ f.replay.last = st.boundary - f.oldest /\ h <= f.boundary
       /\ i # f.interval => \A n \in DOMAIN f.pending : IsClear(f.pending[n]) => h <= f.pending[n].last
  BY DEF ReplayInv
<1>7. /\ p \in PublicationType /\ p.type = "replay-complete" /\ p.interval = i
  <2>1. "replay-complete" \in PublicationTypes /\ 0 \in 0..MaxSequence
    BY <1>2 DEF PublicationTypes
  <2> QED BY <1>2, <1>4, <2>1, PublicationFields
<1>8. i = f.interval => h >= st.boundary
  <2>1. ASSUME i = f.interval PROVE h >= st.boundary
    <3>1. f.replay.next > f.replay.last BY <2>1
    <3>2. h = f.oldest + f.replay.next - 1 /\ f.replay.last = st.boundary - f.oldest
      BY <1>6, <2>1
    <3>3. \A nx \in Nat, la \in Int, ol \in Nat, bo \in Nat :
            nx > la /\ la = bo - ol => ol + nx - 1 >= bo
      OBVIOUS
    <3> QED BY <1>2, <1>3, <3>1, <3>2, <3>3
  <2> QED BY <2>1
<1> HIDE DEF a, i, p, L
<1>9. e \in FeedType /\ SameRange(e, a) /\ e.state = "live" /\ e.replay = NoReplay
      /\ e.pending = f.pending /\ l \o e.out = Append(L, p)
  <2>1. a \in FeedType /\ a.state = "live" /\ a.replay = NoReplay /\ a.pending = f.pending /\ a.out = f.out
    BY <1>1 DEF Updated
  <2>2. a.state # "none" BY <2>1
  <2> QED BY <1>7, <2>1, <2>2, InvokeTells DEF L
<1> HIDE DEF e
<1>10. SameRange(e, f) BY <1>1, <1>9 DEF SameRange, Updated
<1>11. p.interval < f.interval \/ WantedOf(st) \subseteq Told(L)
  <2>1. CASE i # f.interval BY <1>2, <1>4, <1>7, <2>1
  <2>2. CASE i = f.interval
    <3>1. h >= st.boundary /\ h \in Nat /\ lo \in Nat /\ lo > 0 BY <1>8, <2>2
    <3>2. lo..h \subseteq Told(L) BY <1>6 DEF Reaches
    <3>3. ASSUME NEW s \in WantedOf(st) PROVE s \in lo..h
      <4>1. s \in Nat /\ s >= st.oldest /\ s <= st.boundary /\ s >= FirstOf(st)
        BY <1>3 DEF WantedOf
      <4> QED BY <1>3, <1>6, <3>1, <4>1
    <3> QED BY <3>2, <3>3
  <2> QED BY <2>1, <2>2
<1>12. /\ Orderly(Append(L, p), f.interval, st) /\ Reaches(Append(L, p), i, 0, lo, h)
  <2>1. ~IsEvidence(p) /\ ~IsClear(p) /\ Orderly(L, f.interval, st)
    BY <1>7 DEF IsEvidence, IsClear, L
  <2> QED BY <1>2, <1>6, <1>7, <1>11, <2>1, TellsNothing
<1>13. Queued(e, st.boundary, i) BY <1>5, <1>9, <1>10 DEF Queued, SameRange
<1>14. /\ Orderly(l \o e.out, e.interval, st) /\ Reaches(l \o e.out, i, 0, lo, h)
       /\ e.interval = f.interval /\ e.boundary = f.boundary /\ e.oldest = f.oldest
  BY <1>9, <1>10, <1>12 DEF SameRange
<1>15. PassedOn(g, e, l, st) /\ \E c \in 0..MaxSequence, k \in 1..MaxSequence + 1 :
         Reaches(l \o g.out, f.interval, c, k, f.boundary) /\ (k <= f.oldest \/ k <= FirstOf(st))
  <2>1. CASE i = f.interval
    <3>1. /\ e.oldest <= st.boundary + 1 /\ lo <= st.boundary + 1
          /\ st.boundary <= h /\ h <= e.boundary
      BY <1>3, <1>6, <1>8, <1>14, <2>1
    <3>2. Queued(e, st.boundary, e.interval) /\ Reaches(l \o e.out, e.interval, 0, lo, h)
      BY <1>13, <1>14, <2>1
    <3>3. PassedOn(g, e, l, st) /\ Reaches(l \o g.out, e.interval, 0, lo, e.boundary)
      BY <1>3, <1>9, <1>14, <3>1, <3>2, DrainsOneInterval
    <3>4. 0 \in 0..MaxSequence BY <1>2
    <3> QED BY <1>6, <1>14, <2>1, <3>3, <3>4
  <2>2. CASE i # f.interval
    <3>1. \A n \in DOMAIN e.pending : IsClear(e.pending[n]) => h <= e.pending[n].last
      BY <1>6, <1>9, <2>2
    <3>2. PassedOn(g, e, l, st) /\ \E c \in 0..MaxSequence : Reaches(l \o g.out, e.interval, c, e.oldest, e.boundary)
      BY <1>3, <1>4, <1>9, <1>13, <1>14, <2>2, <3>1, DrainsAcrossClears
    <3>3. f.oldest \in 1..MaxSequence + 1 /\ f.oldest <= f.oldest BY FeedFields
    <3> QED BY <1>14, <3>2, <3>3
  <2> QED BY <2>1, <2>2
<1> HIDE DEF g
<1>16. Good(g, l \o g.out, st)
  <2>1. /\ g \in FeedType /\ SameRange(g, e) /\ g.state = "live" /\ g.replay = NoReplay
        /\ g.pending = <<>> /\ Orderly(l \o g.out, e.interval, st)
    BY <1>9, <1>15 DEF PassedOn
  <2>2. g.interval = f.interval /\ g.boundary = f.boundary /\ g.oldest = f.oldest
    BY <1>14, <2>1 DEF SameRange
  <2>3. LiveInv(g, l \o g.out, st) BY <1>15, <2>2 DEF LiveInv
  <2>4. Orderly(l \o g.out, g.interval, st) BY <1>14, <2>1, <2>2
  <2>5. Idle(g) BY <2>1 DEF Idle
  <2>6. g.oldest <= g.boundary + 1 BY <2>2
  <2> QED BY <2>1, <2>3, <2>4, <2>5, <2>6 DEF Good
<1> QED BY <1>0, <1>16

\* The Clears of a queue are those of another.
SameClears(q, r) ==
  /\ \A n \in DOMAIN q : IsClear(q[n]) => n \in DOMAIN r /\ r[n] = q[n]
  /\ \A n \in DOMAIN r : IsClear(r[n]) => n \in DOMAIN q /\ r[n] = q[n]

\* An entry at the end of a queue that it continues.
LEMMA QueueGrows ==
  ASSUME NEW q \in Seq(QueueType), NEW b \in 0..MaxSequence, NEW i \in 1..MaxIntervals,
         Continues(q, b, i), QueueInOrder(q, b, i),
         NEW e \in QueueType,
         \/ /\ IsRange(e) /\ e.interval = IntervalAt(q, Len(q), i)
            /\ e.first = EndAt(q, Len(q), b) + 1 /\ e.first <= e.last
         \/ /\ IsClear(e) /\ e.interval = IntervalAt(q, Len(q), i) + 1
            /\ e.last = EndAt(q, Len(q), b)
  PROVE  LET r == Append(q, e) IN
         /\ r \in Seq(QueueType) /\ Continues(r, b, i) /\ QueueInOrder(r, b, i)
         /\ EndAt(r, Len(r), b) = e.last /\ IntervalAt(r, Len(r), i) = e.interval
         /\ Len(r) \in DOMAIN r /\ r[Len(r)] = e
         /\ \A n \in DOMAIN q : n \in DOMAIN r /\ r[n] = q[n]
         /\ \A n \in DOMAIN r : n \in DOMAIN q \/ r[n] = e
<1> DEFINE r == Append(q, e)
           N == Len(q)
<1>1. /\ r \in Seq(QueueType) /\ N \in Nat /\ Len(r) = N + 1
      /\ DOMAIN q = 1..N /\ DOMAIN r = 1..N + 1
      /\ \A n \in 1..N : r[n] = q[n]
      /\ r[N + 1] = e
  OBVIOUS
<1>2. \A n \in 1..N : q[n].interval \in Nat /\ q[n].first \in Nat /\ q[n].last \in Nat
  <2>1. \A n \in 1..N : q[n] \in QueueType BY <1>1
  <2>2. \A x \in QueueType : x.interval \in Nat /\ x.first \in Nat /\ x.last \in Nat
    BY FeedAssumption DEF QueueType
  <2> QED BY <2>1, <2>2
<1>3. e.interval \in Nat /\ e.first \in Nat /\ e.last \in Nat /\ b \in Nat /\ i \in Nat
  BY FeedAssumption DEF QueueType
<1> HIDE DEF r, N
<1>4. /\ \A n \in 1..N : i <= q[n].interval /\ b <= q[n].last
      /\ \A m, n \in 1..N : m < n => q[m].interval <= q[n].interval /\ q[m].last <= q[n].last
  BY <1>1, <1>2, <1>3 DEF QueueInOrder
<1>5. \A n \in 0..N : EndAt(r, n, b) = EndAt(q, n, b) /\ IntervalAt(r, n, i) = IntervalAt(q, n, i)
  <2>1. ASSUME NEW n \in 0..N PROVE EndAt(r, n, b) = EndAt(q, n, b) /\ IntervalAt(r, n, i) = IntervalAt(q, n, i)
    <3>1. n = 0 \/ n \in 1..N BY <1>1
    <3> QED BY <1>1, <3>1 DEF EndAt, IntervalAt
  <2> QED BY <2>1
<1>6. N # 0 => N \in 1..N /\ EndAt(q, N, b) = q[N].last /\ IntervalAt(q, N, i) = q[N].interval
  BY <1>1 DEF EndAt, IntervalAt
<1>7. N = 0 => EndAt(q, N, b) = b /\ IntervalAt(q, N, i) = i BY DEF EndAt, IntervalAt
<1>8. /\ EndAt(q, N, b) \in Nat /\ IntervalAt(q, N, i) \in Nat
      /\ b <= EndAt(q, N, b) /\ i <= IntervalAt(q, N, i)
      /\ EndAt(q, N, b) <= e.last /\ IntervalAt(q, N, i) <= e.interval
  <2>1. /\ EndAt(q, N, b) \in Nat /\ IntervalAt(q, N, i) \in Nat
        /\ b <= EndAt(q, N, b) /\ i <= IntervalAt(q, N, i)
    <3>1. CASE N = 0 BY <1>3, <1>7, <3>1
    <3>2. CASE N # 0 BY <1>2, <1>3, <1>4, <1>6, <3>2
    <3> QED BY <3>1, <3>2
  <2>2. \/ e.interval = IntervalAt(q, N, i) /\ e.first = EndAt(q, N, b) + 1 /\ e.first <= e.last
        \/ e.interval = IntervalAt(q, N, i) + 1 /\ e.last = EndAt(q, N, b)
    BY DEF N
  <2> DEFINE x == EndAt(q, N, b)
             y == IntervalAt(q, N, i)
  <2> HIDE DEF x, y
  <2>3. x \in Nat /\ y \in Nat /\ (\/ e.interval = y /\ e.first = x + 1 /\ e.first <= e.last
                                   \/ e.interval = y + 1 /\ e.last = x)
    BY <2>1, <2>2 DEF x, y
  <2>4. x <= e.last /\ y <= e.interval BY <1>3, <2>3
  <2> QED BY <2>1, <2>4 DEF x, y
<1>9. \A n \in 1..N : q[n].last <= EndAt(q, N, b) /\ q[n].interval <= IntervalAt(q, N, i)
  <2>1. ASSUME NEW n \in 1..N PROVE q[n].last <= EndAt(q, N, b) /\ q[n].interval <= IntervalAt(q, N, i)
    <3>1. N # 0 /\ N \in 1..N /\ (n = N \/ n < N)
      <4>1. \A k \in Nat : n \in 1..k => k # 0 /\ k \in 1..k /\ (n = k \/ n < k) OBVIOUS
      <4> QED BY <1>1, <4>1
    <3>2. CASE n = N BY <1>2, <1>6, <3>1, <3>2
    <3>3. CASE n < N BY <1>4, <1>6, <3>1, <3>3
    <3> QED BY <3>1, <3>2, <3>3
  <2> QED BY <2>1
<1>10. \A n \in DOMAIN r : n \in 1..N \/ (n = N + 1 /\ r[n] = e) BY <1>1
<1>11. Continues(r, b, i)
  <2>1. SUFFICES ASSUME NEW n \in DOMAIN r
                 PROVE  \/ /\ IsRange(r[n]) /\ r[n].interval = IntervalAt(r, n - 1, i)
                           /\ r[n].first = EndAt(r, n - 1, b) + 1 /\ r[n].first <= r[n].last
                        \/ /\ IsClear(r[n]) /\ r[n].interval = IntervalAt(r, n - 1, i) + 1
                           /\ r[n].last = EndAt(r, n - 1, b)
    BY DEF Continues
  <2>2. CASE n \in 1..N
    <3>1. n \in DOMAIN q /\ r[n] = q[n] /\ n - 1 \in 0..N BY <1>1, <2>2
    <3>2. EndAt(r, n - 1, b) = EndAt(q, n - 1, b) /\ IntervalAt(r, n - 1, i) = IntervalAt(q, n - 1, i)
      BY <1>5, <3>1
    <3> QED BY <3>1, <3>2 DEF Continues
  <2>3. CASE n = N + 1 /\ r[n] = e
    <3>1. n - 1 = N /\ N \in 0..N BY <1>1, <2>3
    <3>2. EndAt(r, n - 1, b) = EndAt(q, N, b) /\ IntervalAt(r, n - 1, i) = IntervalAt(q, N, i)
      BY <1>5, <3>1
    <3> QED BY <2>3, <3>2 DEF N
  <2> QED BY <1>10, <2>2, <2>3
<1>12. QueueInOrder(r, b, i)
  <2>1. ASSUME NEW n \in DOMAIN r PROVE r[n].interval >= i /\ r[n].last >= b
    <3>1. CASE n \in 1..N BY <1>1, <1>2, <1>3, <1>4, <3>1
    <3>2. CASE n = N + 1 /\ r[n] = e BY <1>3, <1>8, <3>2
    <3> QED BY <1>10, <3>1, <3>2
  <2>2. ASSUME NEW m \in DOMAIN r, NEW n \in DOMAIN r, m < n
        PROVE  r[m].interval <= r[n].interval /\ r[m].last <= r[n].last
    <3>1. m \in 1..N /\ r[m] = q[m] BY <1>1, <2>2
    <3>2. CASE n \in 1..N BY <1>1, <1>4, <2>2, <3>1, <3>2
    <3>3. CASE n = N + 1 /\ r[n] = e
      <4>1. q[m].last <= EndAt(q, N, b) /\ q[m].interval <= IntervalAt(q, N, i) BY <1>9, <3>1
      <4>2. q[m].last \in Nat /\ q[m].interval \in Nat BY <1>2, <3>1
      <4> QED BY <1>3, <1>8, <3>1, <3>3, <4>1, <4>2
    <3> QED BY <1>10, <3>2, <3>3
  <2> QED BY <2>1, <2>2 DEF QueueInOrder
<1>13. EndAt(r, Len(r), b) = e.last /\ IntervalAt(r, Len(r), i) = e.interval
  <2>1. Len(r) # 0 /\ r[Len(r)] = e BY <1>1
  <2> QED BY <2>1 DEF EndAt, IntervalAt
<1>14. Len(r) \in DOMAIN r /\ r[Len(r)] = e BY <1>1
<1>15. \A n \in DOMAIN q : n \in DOMAIN r /\ r[n] = q[n] BY <1>1
<1> QED BY <1>1, <1>10, <1>11, <1>12, <1>13, <1>14, <1>15 DEF r

\* A range at the end of a queue that reaches further.
LEMMA QueueWidens ==
  ASSUME NEW q \in Seq(QueueType), NEW b \in 0..MaxSequence, NEW i \in 1..MaxIntervals,
         Continues(q, b, i), QueueInOrder(q, b, i),
         Len(q) # 0, IsRange(q[Len(q)]), NEW t \in 0..MaxSequence, t > q[Len(q)].last
  PROVE  LET r == [q EXCEPT ![Len(q)].last = t] IN
         /\ r \in Seq(QueueType) /\ Continues(r, b, i) /\ QueueInOrder(r, b, i)
         /\ EndAt(r, Len(r), b) = t /\ IntervalAt(r, Len(r), i) = IntervalAt(q, Len(q), i)
         /\ SameClears(q, r)
<1> DEFINE N == Len(q)
           e == [q[N] EXCEPT !.last = t]
           r == [q EXCEPT ![N] = e]
<1>0. r = [q EXCEPT ![Len(q)].last = t] OBVIOUS
<1>1. N \in Nat /\ DOMAIN q = 1..N /\ \A n \in 1..N : q[n] \in QueueType OBVIOUS
<1>2. N \in 1..N BY <1>1
<1>3. q[N] \in QueueType BY <1>1, <1>2
<1>4. /\ e \in QueueType /\ e.interval = q[N].interval /\ e.first = q[N].first /\ e.last = t
      /\ IsRange(e) /\ e.type = q[N].type
  BY <1>3 DEF QueueType, IsRange
<1> HIDE DEF e
<1>5. r \in Seq(QueueType) /\ Len(r) = N /\ DOMAIN r = 1..N BY <1>1, <1>4
<1>6. r[N] = e /\ \A n \in 1..N : n # N => r[n] = q[n] BY <1>1, <1>2
<1> HIDE DEF r
<1>7. \A n \in 1..N : q[n].interval \in Nat /\ q[n].first \in Nat /\ q[n].last \in Nat
  BY <1>1, FeedAssumption DEF QueueType
<1>8. t \in Nat /\ b \in Nat /\ i \in Nat /\ t > q[N].last BY FeedAssumption
<1>9. /\ \A n \in 1..N : i <= q[n].interval /\ b <= q[n].last
      /\ \A m, n \in 1..N : m < n => q[m].interval <= q[n].interval /\ q[m].last <= q[n].last
  BY <1>1, <1>7, <1>8 DEF QueueInOrder
<1> HIDE DEF N
<1>10. \A n \in 1..N : r[n].interval = q[n].interval /\ r[n].first = q[n].first /\ r[n].type = q[n].type
  BY <1>4, <1>6
<1>11. \A n \in 0..N : /\ n # N => EndAt(r, n, b) = EndAt(q, n, b)
                       /\ IntervalAt(r, n, i) = IntervalAt(q, n, i)
  <2>1. ASSUME NEW n \in 0..N
        PROVE  (n # N => EndAt(r, n, b) = EndAt(q, n, b)) /\ IntervalAt(r, n, i) = IntervalAt(q, n, i)
    <3>1. n = 0 \/ n \in 1..N BY <1>1
    <3> QED BY <1>6, <1>10, <3>1 DEF EndAt, IntervalAt
  <2> QED BY <2>1
<1>12. Continues(r, b, i)
  <2>1. SUFFICES ASSUME NEW n \in 1..N
                 PROVE  \/ /\ IsRange(r[n]) /\ r[n].interval = IntervalAt(r, n - 1, i)
                           /\ r[n].first = EndAt(r, n - 1, b) + 1 /\ r[n].first <= r[n].last
                        \/ /\ IsClear(r[n]) /\ r[n].interval = IntervalAt(r, n - 1, i) + 1
                           /\ r[n].last = EndAt(r, n - 1, b)
    BY <1>5 DEF Continues
  <2>2. n - 1 \in 0..N /\ n - 1 # N BY <1>1
  <2>3. EndAt(r, n - 1, b) = EndAt(q, n - 1, b) /\ IntervalAt(r, n - 1, i) = IntervalAt(q, n - 1, i)
    BY <1>11, <2>2
  <2>4. \/ /\ IsRange(q[n]) /\ q[n].interval = IntervalAt(q, n - 1, i)
           /\ q[n].first = EndAt(q, n - 1, b) + 1 /\ q[n].first <= q[n].last
        \/ /\ IsClear(q[n]) /\ q[n].interval = IntervalAt(q, n - 1, i) + 1
           /\ q[n].last = EndAt(q, n - 1, b)
    BY <1>1 DEF Continues
  <2>5. CASE n # N BY <1>6, <2>3, <2>4, <2>5
  <2>6. CASE n = N
    <3>1. IsRange(q[n]) /\ ~IsClear(q[n]) BY <2>6 DEF IsRange, IsClear, N
    <3>2. q[n].first <= q[n].last /\ q[n].last < t /\ q[n].first \in Nat /\ q[n].last \in Nat
      BY <1>7, <1>8, <2>4, <2>6, <3>1
    <3>3. r[n].first <= r[n].last BY <1>4, <1>6, <1>8, <2>6, <3>2
    <3> QED BY <1>10, <2>3, <2>4, <3>1, <3>3 DEF IsRange
  <2> QED BY <2>5, <2>6
<1>13. \A n \in 1..N : r[n].last \in Nat /\ q[n].last <= r[n].last /\ (n # N => r[n].last = q[n].last)
  BY <1>4, <1>6, <1>7, <1>8
<1>14. QueueInOrder(r, b, i)
  <2>1. ASSUME NEW n \in 1..N PROVE r[n].interval >= i /\ r[n].last >= b
    <3>1. /\ q[n].interval \in Nat /\ q[n].last \in Nat /\ i <= q[n].interval /\ b <= q[n].last
          /\ r[n].interval = q[n].interval /\ r[n].last \in Nat /\ q[n].last <= r[n].last
      BY <1>7, <1>9, <1>10, <1>13
    <3> QED BY <1>8, <3>1
  <2>2. ASSUME NEW m \in 1..N, NEW n \in 1..N, m < n
        PROVE  r[m].interval <= r[n].interval /\ r[m].last <= r[n].last
    <3>1. m # N BY <1>1, <2>2
    <3>2. q[m].interval <= q[n].interval /\ q[m].last <= q[n].last BY <1>9, <2>2
    <3>3. /\ q[m].last \in Nat /\ r[m].last = q[m].last /\ q[n].last \in Nat
          /\ r[n].last \in Nat /\ q[n].last <= r[n].last
          /\ r[m].interval = q[m].interval /\ r[n].interval = q[n].interval
      BY <1>7, <1>10, <1>13, <3>1
    <3> QED BY <3>2, <3>3
  <2> QED BY <1>5, <2>1, <2>2 DEF QueueInOrder
<1>15. EndAt(r, Len(r), b) = t /\ IntervalAt(r, Len(r), i) = IntervalAt(q, N, i)
  <2>1. Len(r) = N /\ N # 0 /\ N \in 0..N BY <1>1, <1>5 DEF N
  <2>2. EndAt(r, N, b) = t BY <1>4, <1>6, <2>1 DEF EndAt
  <2> QED BY <1>11, <2>1, <2>2
<1>16. SameClears(q, r)
  <2>1. ~IsClear(q[N]) /\ ~IsClear(r[N]) BY <1>4, <1>6 DEF IsRange, IsClear, N
  <2> QED BY <1>1, <1>5, <1>6, <2>1 DEF SameClears
<1> QED BY <1>0, <1>5, <1>12, <1>14, <1>15, <1>16 DEF N, r, e

\* What a commit during a replay queues: the Clears stay what they are.
LEMMA QueueEvidence ==
  ASSUME NEW f \in FeedType, NEW b \in 0..MaxSequence, NEW i \in 1..MaxIntervals, Queued(f, b, i),
         NEW p \in PublicationType, IsEvidence(p), p.interval = f.interval,
         p.first = f.boundary + 1, p.first <= p.last
  PROVE  LET r == appendPendingReplayRange(f.pending, p) IN
         /\ r \in Seq(QueueType) /\ Continues(r, b, i) /\ QueueInOrder(r, b, i)
         /\ EndAt(r, Len(r), b) = p.last /\ IntervalAt(r, Len(r), i) = f.interval
         /\ SameClears(f.pending, r)
<1> DEFINE q == f.pending
           r == appendPendingReplayRange(q, p)
           N == Len(q)
           e == [p EXCEPT !.type = "committed-range"]
<1>1. /\ q \in Seq(QueueType) /\ N \in Nat /\ DOMAIN q = 1..N
      /\ f.boundary \in Nat /\ f.interval \in Nat /\ MaxSequence \in Nat
  BY FeedFields
<1>2. /\ Continues(q, b, i) /\ QueueInOrder(q, b, i)
      /\ EndAt(q, N, b) = f.boundary /\ IntervalAt(q, N, i) = f.interval
  BY DEF Queued
<1>3. /\ p.type = "committed-evidence" /\ p.last \in 0..MaxSequence /\ p.first \in Nat /\ p.last \in Nat
  BY <1>1 DEF IsEvidence, PublicationType
<1>4. /\ e \in QueueType /\ IsRange(e) /\ e.interval = p.interval /\ e.first = p.first /\ e.last = p.last
      /\ ~IsClear(e)
  BY DEF PublicationType, QueueType, IsRange, IsClear
<1> DEFINE joins == /\ q # <<>> /\ Last(q).type = "committed-range"
                    /\ Last(q).interval = p.interval /\ Last(q).last + 1 = p.first
<1>5. r = IF joins THEN [q EXCEPT ![Len(q)].last = p.last] ELSE Append(q, e)
  BY <1>3 DEF appendPendingReplayRange
<1>6. CASE joins
  <2>1. N # 0 /\ IsRange(q[N]) BY <1>1, <1>6 DEF Last, IsRange
  <2>2. p.last > q[N].last
    <3>1. q[N].last = f.boundary BY <1>2, <2>1 DEF EndAt
    <3> QED BY <1>1, <1>3, <3>1
  <2>3. r = [q EXCEPT ![Len(q)].last = p.last] BY <1>5, <1>6
  <2> HIDE DEF q, r, joins
  <2>4. /\ r \in Seq(QueueType) /\ Continues(r, b, i) /\ QueueInOrder(r, b, i)
        /\ EndAt(r, Len(r), b) = p.last /\ IntervalAt(r, Len(r), i) = IntervalAt(q, Len(q), i)
        /\ SameClears(q, r)
    BY <1>1, <1>2, <1>3, <2>1, <2>2, <2>3, QueueWidens
  <2> QED BY <1>2, <2>4 DEF q, r
<1>7. CASE ~joins
  <2>1. r = Append(q, e) BY <1>5, <1>7
  <2>2. /\ IsRange(e) /\ e.interval = IntervalAt(q, Len(q), i)
        /\ e.first = EndAt(q, Len(q), b) + 1 /\ e.first <= e.last
    BY <1>2, <1>4
  <2> HIDE DEF q, r, joins, e
  <2>3. /\ r \in Seq(QueueType) /\ Continues(r, b, i) /\ QueueInOrder(r, b, i)
        /\ EndAt(r, Len(r), b) = e.last /\ IntervalAt(r, Len(r), i) = e.interval
        /\ \A n \in DOMAIN q : n \in DOMAIN r /\ r[n] = q[n]
        /\ \A n \in DOMAIN r : n \in DOMAIN q \/ r[n] = e
    BY <1>1, <1>2, <1>4, <2>1, <2>2, QueueGrows
  <2>4. SameClears(q, r) BY <1>4, <2>3 DEF SameClears
  <2> QED BY <1>4, <2>3, <2>4 DEF q, r
<1> QED BY <1>6, <1>7

\* A feed whose range, or replay, moves.
CommittedTo(f, x) == [f EXCEPT !.boundary = x, !.out = <<>>]
RetainedFrom(f, y) == [f EXCEPT !.oldest = y]
ClearedTo(f, i, y) == [f EXCEPT !.interval = i, !.oldest = y, !.out = <<>>]
ReplayedTo(f, r) == [f EXCEPT !.replay = r, !.out = <<>>]

\* The same observer, at the same place.
SameSubscription(g, f) == g.state = f.state /\ g.replay = f.replay /\ g.pending = f.pending

\* The fields of such feeds.
LEMMA RangeUpdate ==
  ASSUME NEW f \in FeedType, NEW i \in 1..MaxIntervals, NEW y \in 1..(MaxSequence + 1),
         NEW x \in 0..MaxSequence, NEW r \in ReplayType
  PROVE  /\ LET g == CommittedTo(f, x) IN
            /\ g \in FeedType /\ g.interval = f.interval /\ g.oldest = f.oldest /\ g.boundary = x
            /\ SameSubscription(g, f) /\ g.out = <<>>
         /\ LET g == RetainedFrom(f, y) IN
            /\ g \in FeedType /\ g.interval = f.interval /\ g.oldest = y /\ g.boundary = f.boundary
            /\ SameSubscription(g, f) /\ g.out = f.out
         /\ LET g == ClearedTo(f, i, y) IN
            /\ g \in FeedType /\ g.interval = i /\ g.oldest = y /\ g.boundary = f.boundary
            /\ SameSubscription(g, f) /\ g.out = <<>>
         /\ Updated(ReplayedTo(f, r), f, f.state, r, f.pending, <<>>)
<1> DEFINE I == 1..MaxIntervals
           O == 1..(MaxSequence + 1)
           B == 0..MaxSequence
           S == {"none", "replaying", "live"}
           R == ReplayType
           Q == Seq(QueueType)
           P == Seq(PublicationType)
<1>1. FeedType = [interval : I, oldest : O, boundary : B, state : S, replay : R, pending : Q, out : P]
  BY DEF FeedType, QueueType, PublicationType, ReplayType
<1>2. i \in I /\ y \in O /\ x \in B /\ r \in R /\ <<>> \in P OBVIOUS
<1> HIDE DEF I, O, B, S, R, Q, P
<1>3. LET g == CommittedTo(f, x) IN
      /\ g \in FeedType /\ g.interval = f.interval /\ g.oldest = f.oldest /\ g.boundary = x
      /\ SameSubscription(g, f) /\ g.out = <<>>
  BY <1>1, <1>2 DEF CommittedTo, SameSubscription
<1>4. LET g == RetainedFrom(f, y) IN
      /\ g \in FeedType /\ g.interval = f.interval /\ g.oldest = y /\ g.boundary = f.boundary
      /\ SameSubscription(g, f) /\ g.out = f.out
  BY <1>1, <1>2 DEF RetainedFrom, SameSubscription
<1>5. LET g == ClearedTo(f, i, y) IN
      /\ g \in FeedType /\ g.interval = i /\ g.oldest = y /\ g.boundary = f.boundary
      /\ SameSubscription(g, f) /\ g.out = <<>>
  BY <1>1, <1>2 DEF ClearedTo, SameSubscription
<1>6. Updated(ReplayedTo(f, r), f, f.state, r, f.pending, <<>>)
  BY <1>1, <1>2 DEF ReplayedTo, Updated, SameRange
<1> QED BY <1>3, <1>4, <1>5, <1>6

\* What a commit publishes: the observer is told at once, or the Evidence is
\* queued behind what the replay still has to tell.
LEMMA PublishesEvidence ==
  ASSUME NEW f, NEW l, NEW st, Good(f, l, st), Asked(st),
         NEW g \in FeedType, NEW x \in 0..MaxSequence, x > f.boundary,
         g.interval = f.interval /\ g.oldest = f.oldest /\ g.boundary = x,
         g.state = f.state /\ g.replay = f.replay /\ g.pending = f.pending /\ g.out = <<>>,
         NEW p \in PublicationType, IsEvidence(p), p.interval = f.interval,
         p.first = f.boundary + 1, p.last = x
  PROVE  LET h == publish(g, p) IN Good(h, l \o h.out, st)
<1> DEFINE h == publish(g, p)
<1>1. /\ f \in FeedType /\ f.oldest <= f.boundary + 1 /\ Orderly(l, f.interval, st)
      /\ l \in Seq(PublicationType)
  BY DEF Good, Orderly
<1>2. /\ f.interval \in 1..MaxIntervals /\ f.interval \in Nat /\ f.oldest \in Nat
      /\ f.boundary \in 0..MaxSequence /\ f.boundary \in Nat /\ x \in Nat /\ MaxSequence \in Nat
      /\ g.state \in {"none", "replaying", "live"} /\ p.first \in Nat /\ p.first <= p.last
      /\ f.oldest <= x + 1
  BY <1>1, FeedFields
<1>3. l \o g.out = l /\ l \o <<>> = l BY <1>1, ToldInSteps
<1>4. CASE g.state = "none"
  <2>1. h = g BY <1>4 DEF publish, invoke
  <2>2. Idle(g) BY <1>4 DEF Good, Idle
  <2> QED BY <1>1, <1>2, <1>3, <1>4, <2>1, <2>2 DEF Good
<1>5. CASE g.state = "live"
  <2>1. h = invoke(g, p) BY <1>5 DEF publish
  <2>2. /\ h \in FeedType /\ SameRange(h, g)
        /\ h.state = g.state /\ h.replay = g.replay /\ h.pending = g.pending
        /\ l \o h.out = Append(l, p)
    BY <1>1, <1>3, <1>5, <2>1, InvokeTells
  <2>3. PICK c \in 0..MaxSequence, lo \in 1..MaxSequence + 1 :
          /\ Reaches(l, f.interval, c, lo, f.boundary)
          /\ lo <= f.oldest \/ lo <= FirstOf(st)
    BY <1>5 DEF Good, LiveInv
  <2>4. lo <= p.first /\ p.first <= f.boundary + 1
    <3>1. lo <= f.boundary + 1 BY <2>3 DEF Reaches
    <3> QED BY <1>2, <3>1
  <2>5. /\ Orderly(Append(l, p), f.interval, st)
        /\ Reaches(Append(l, p), f.interval, c, lo, IF p.last > f.boundary THEN p.last ELSE f.boundary)
    BY <1>1, <1>2, <2>3, <2>4, TellsEvidence
  <2>6. Reaches(Append(l, p), f.interval, c, lo, x) BY <2>5
  <2> HIDE DEF h
  <2>7. h.interval = f.interval /\ h.oldest = f.oldest /\ h.boundary = x BY <2>2 DEF SameRange
  <2>8. LiveInv(h, l \o h.out, st) BY <2>2, <2>3, <2>6, <2>7 DEF LiveInv
  <2>9. Idle(h) BY <1>5, <2>2 DEF Good, Idle
  <2> QED BY <1>2, <1>5, <2>2, <2>5, <2>7, <2>8, <2>9 DEF Good, h
<1>6. CASE g.state = "replaying"
  <2> DEFINE r == appendPendingReplayRange(g.pending, p)
             i == f.replay.interval
             b == st.boundary
  <2>1. h = [g EXCEPT !.pending = r] BY <1>6 DEF publish
  <2>2. ReplayInv(f, l, st) BY <1>6 DEF Good
  <2>3. b \in 0..MaxSequence /\ b \in Nat BY AskedFacts
  <2>4. i \in 1..f.interval /\ i \in 1..MaxIntervals /\ Queued(f, b, i)
    <3>1. i \in 1..f.interval /\ Queued(f, b, i) BY <2>2 DEF ReplayInv
    <3>2. MaxIntervals \in Nat /\ f.interval <= MaxIntervals BY <1>1, FeedFields
    <3> QED BY <1>2, <3>1, <3>2
  <2>5. /\ r \in Seq(QueueType) /\ Continues(r, b, i) /\ QueueInOrder(r, b, i)
        /\ EndAt(r, Len(r), b) = x /\ IntervalAt(r, Len(r), i) = f.interval
        /\ SameClears(f.pending, r)
    <3> HIDE DEF i, b
    <3> QED BY <1>1, <1>2, <2>3, <2>4, QueueEvidence
  <2> HIDE DEF r, h, i, b
  <2>6. Updated(h, g, g.state, g.replay, r, g.out)
    <3>1. g.replay \in ReplayType /\ g.out \in Seq(PublicationType) BY FeedParts
    <3> QED BY <2>1, <2>5, <3>1, FeedParts, FeedUpdate
  <2>7. /\ h \in FeedType /\ h.interval = f.interval /\ h.oldest = f.oldest /\ h.boundary = x
        /\ h.state = "replaying" /\ h.replay = f.replay /\ h.pending = r /\ l \o h.out = l
    BY <1>3, <1>6, <2>6 DEF Updated, SameRange
  <2>8. Queued(h, b, i)
    <3>1. i # h.interval => \E n \in DOMAIN r : /\ IsClear(r[n]) /\ r[n].interval = h.interval
                                                 /\ h.oldest = r[n].last + 1
      <4>1. SUFFICES ASSUME i # f.interval
                     PROVE  \E n \in DOMAIN r : /\ IsClear(r[n]) /\ r[n].interval = f.interval
                                                /\ f.oldest = r[n].last + 1
        BY <2>7
      <4>2. PICK n \in DOMAIN f.pending :
              /\ IsClear(f.pending[n]) /\ f.pending[n].interval = f.interval
              /\ f.oldest = f.pending[n].last + 1
        BY <2>4, <4>1 DEF Queued
      <4>3. n \in DOMAIN r /\ r[n] = f.pending[n] BY <2>5, <4>2 DEF SameClears
      <4> QED BY <4>2, <4>3
    <3> QED BY <2>5, <2>7, <3>1 DEF Queued
  <2>9. ReplayInv(h, l \o h.out, st)
    <3>1. PICK lo \in 1..MaxSequence + 1, t \in 0..MaxSequence :
            /\ Reaches(l, i, 0, lo, t)
            /\ lo <= b + 1 /\ (lo <= st.oldest \/ lo <= FirstOf(st))
            /\ i = f.interval => /\ f.oldest = st.oldest /\ t = f.oldest + f.replay.next - 1
                                 /\ f.replay.last = b - f.oldest /\ t <= f.boundary
            /\ i # f.interval => \A n \in DOMAIN f.pending : IsClear(f.pending[n]) => t <= f.pending[n].last
      BY <2>2 DEF ReplayInv, i, b
    <3>2. i = f.interval => t <= x BY <1>2, <3>1
    <3>3. i # f.interval => \A n \in DOMAIN r : IsClear(r[n]) => t <= r[n].last
      BY <2>5, <3>1 DEF SameClears
    <3> QED BY <2>4, <2>7, <2>8, <3>1, <3>2, <3>3 DEF ReplayInv, i, b
  <2> QED BY <1>1, <1>2, <2>7, <2>9 DEF Good, h
<1> QED BY <1>2, <1>4, <1>5, <1>6

\* A retention advance: the observer keeps what it was told, and a replay in
\* progress fails.
LEMMA RetentionAdvances ==
  ASSUME NEW f \in FeedType, NEW l \in Seq(PublicationType), NEW st, Good(f, l \o f.out, st)
  PROVE  LET g == advanceRetentionIfNeeded(f) IN Good(g, l \o g.out, st)
<1> DEFINE y == f.boundary - LowWater + 1
           g == [f EXCEPT !.oldest = y]
           h == IF g.state = "replaying" THEN failCooperativeReplay(g) ELSE g
           p == Publication("retention-advanced", h.interval, OldestRetained(h), h.boundary)
           e == publish(h, p)
<1>1. CASE RetainedLength(f) <= MaxRetained BY <1>1 DEF advanceRetentionIfNeeded
<1>2. CASE ~(RetainedLength(f) <= MaxRetained)
  <2>1. advanceRetentionIfNeeded(f) = e BY <1>2 DEF advanceRetentionIfNeeded
  <2>2. /\ f.boundary \in Nat /\ f.boundary <= MaxSequence /\ f.oldest \in Nat /\ f.oldest >= 1
        /\ f.interval \in 1..MaxIntervals /\ MaxSequence \in Nat
        /\ LowWater \in Nat /\ MaxRetained \in Nat /\ LowWater <= MaxRetained
        /\ f.state \in {"none", "replaying", "live"}
    BY FeedFields, FeedAssumption
  <2>3. f.oldest <= y /\ y \in 1..(MaxSequence + 1) /\ y <= f.boundary + 1 /\ y \in Nat
    BY <1>2, <2>2 DEF RetainedLength
  <2>4. Orderly(l \o f.out, f.interval, st) BY DEF Good
  <2> HIDE DEF y
  <2>5. /\ g \in FeedType /\ g.interval = f.interval /\ g.oldest = y /\ g.boundary = f.boundary
        /\ g.state = f.state /\ g.replay = f.replay /\ g.pending = f.pending /\ g.out = f.out
    <3>1. g = RetainedFrom(f, y) BY DEF RetainedFrom
    <3>2. f.interval \in 1..MaxIntervals /\ f.boundary \in 0..MaxSequence /\ f.replay \in ReplayType
      BY FeedFields, FeedParts
    <3> HIDE DEF g
    <3> QED BY <2>3, <3>1, <3>2, RangeUpdate DEF SameSubscription
  <2> HIDE DEF g
  <2>6. h \in FeedType /\ SameRange(h, g) /\ Good(h, l \o h.out, st) /\ h.state \in {"none", "live"}
    <3>1. CASE g.state = "replaying"
      <4>1. h = failCooperativeReplay(g) BY <3>1
      <4>2. g.state # "none" /\ g.oldest <= g.boundary + 1 /\ Orderly(l \o g.out, g.interval, st)
        BY <2>3, <2>4, <2>5, <3>1
      <4>3. h.state = "none" /\ SameRange(h, g) /\ Good(h, l \o h.out, st)
        BY <2>5, <4>1, <4>2, ReplayStops
      <4> QED BY <4>3 DEF Good
    <3>2. CASE g.state # "replaying"
      <4>1. h = g BY <3>2
      <4>2. g.state = "none" => Idle(g) BY <2>5 DEF Good, Idle
      <4>3. ASSUME g.state = "live" PROVE Idle(g) /\ LiveInv(g, l \o g.out, st)
        <5>1. Idle(g) BY <2>5, <4>3 DEF Good, Idle
        <5>2. PICK c \in 0..MaxSequence, lo \in 1..MaxSequence + 1 :
                /\ Reaches(l \o f.out, f.interval, c, lo, f.boundary)
                /\ lo <= f.oldest \/ lo <= FirstOf(st)
          BY <2>5, <4>3 DEF Good, LiveInv
        <5>3. lo <= y \/ lo <= FirstOf(st) BY <2>2, <2>3, <5>2
        <5> QED BY <2>5, <5>1, <5>2, <5>3 DEF LiveInv
      <4>4. Good(g, l \o g.out, st) BY <2>3, <2>4, <2>5, <3>2, <4>2, <4>3 DEF Good
      <4> QED BY <2>2, <2>5, <3>2, <4>1, <4>4 DEF SameRange
    <3> QED BY <3>1, <3>2
  <2>7. h.interval = f.interval /\ h.oldest = y /\ h.boundary = f.boundary
    BY <2>5, <2>6 DEF SameRange
  <2> HIDE DEF h
  <2>8. p \in PublicationType /\ p.type = "retention-advanced"
    <3>1. OldestRetained(h) \in 0..MaxSequence
      BY <2>2, <2>3, <2>7 DEF OldestRetained, RetainedLength
    <3>2. "retention-advanced" \in PublicationTypes /\ f.boundary \in 0..MaxSequence
      BY <2>2 DEF PublicationTypes
    <3> QED BY <2>2, <2>7, <3>1, <3>2, PublicationFields
  <2> HIDE DEF p
  <2>9. CASE h.state = "none"
    <3>1. e = h BY <2>9 DEF publish, invoke
    <3> QED BY <2>1, <2>6, <3>1
  <2>10. CASE h.state = "live"
    <3>1. e = invoke(h, p) BY <2>10 DEF publish
    <3> HIDE DEF e
    <3>2. /\ e \in FeedType /\ SameRange(e, h)
          /\ e.state = h.state /\ e.replay = h.replay /\ e.pending = h.pending
          /\ l \o e.out = Append(l \o h.out, p)
      <4>1. h.state # "none" BY <2>10
      <4> QED BY <2>6, <2>8, <3>1, <4>1, InvokeTells
    <3>3. e.interval = h.interval /\ e.oldest = h.oldest /\ e.boundary = h.boundary
      BY <3>2 DEF SameRange
    <3>4. /\ Orderly(Append(l \o h.out, p), h.interval, st)
          /\ \A c, lo, t : Reaches(l \o h.out, h.interval, c, lo, t)
                             => Reaches(Append(l \o h.out, p), h.interval, c, lo, t)
      <4>1. ~IsEvidence(p) /\ ~IsClear(p) /\ p.type # "replay-complete" /\ h.interval \in 1..MaxIntervals
            /\ Orderly(l \o h.out, h.interval, st)
        BY <2>2, <2>6, <2>7, <2>8 DEF IsEvidence, IsClear, Good
      <4> QED BY <2>8, <4>1, TellsNothing
    <3>5. LiveInv(e, l \o e.out, st)
      <4>1. PICK c \in 0..MaxSequence, lo \in 1..MaxSequence + 1 :
              /\ Reaches(l \o h.out, h.interval, c, lo, h.boundary)
              /\ lo <= h.oldest \/ lo <= FirstOf(st)
        BY <2>6, <2>10 DEF Good, LiveInv
      <4>2. Reaches(l \o e.out, e.interval, c, lo, e.boundary) BY <3>2, <3>3, <3>4, <4>1
      <4> QED BY <3>3, <4>1, <4>2 DEF LiveInv
    <3>6. Idle(e) BY <2>6, <2>10, <3>2 DEF Good, Idle
    <3>7. e.oldest <= e.boundary + 1 BY <2>3, <2>7, <3>3
    <3> QED BY <2>1, <2>10, <3>2, <3>3, <3>4, <3>5, <3>6, <3>7 DEF Good
  <2> QED BY <2>6, <2>9, <2>10
<1> QED BY <1>1, <1>2

\* A commit tells a live observer, or one that replays in time, of the batch.
LEMMA CommitIsGood ==
  ASSUME NEW f, NEW l, NEW st, Good(f, l, st), Asked(st),
         NEW n \in 1..MaxSequence, f.boundary + n <= MaxSequence
  PROVE  LET g == commitBatch(f, n) IN Good(g, l \o g.out, st)
<1> DEFINE x == f.boundary + n
           a == [f EXCEPT !.boundary = x, !.out = <<>>]
           p == Publication("committed-evidence", f.interval, f.boundary + 1, x)
           h == publish(a, p)
           g == advanceRetentionIfNeeded(h)
<1>1. commitBatch(f, n) = g BY DEF commitBatch
<1>2. f \in FeedType /\ l \in Seq(PublicationType) BY DEF Good, Orderly
<1>3. f.boundary \in Nat /\ n \in Nat /\ n >= 1 /\ MaxSequence \in Nat /\ f.interval \in 1..MaxIntervals
  BY <1>2, FeedFields
<1>4. x \in 0..MaxSequence /\ x > f.boundary /\ f.boundary + 1 \in 0..MaxSequence BY <1>3
<1> HIDE DEF x
<1>5. /\ a \in FeedType /\ a.interval = f.interval /\ a.oldest = f.oldest /\ a.boundary = x
      /\ a.state = f.state /\ a.replay = f.replay /\ a.pending = f.pending /\ a.out = <<>>
  <2>1. a = CommittedTo(f, x) BY DEF CommittedTo
  <2>2. f.interval \in 1..MaxIntervals /\ f.boundary \in 0..MaxSequence /\ f.oldest \in 1..(MaxSequence + 1)
        /\ f.replay \in ReplayType
    BY <1>2, FeedFields, FeedParts
  <2> HIDE DEF a
  <2> QED BY <1>2, <1>4, <2>1, <2>2, RangeUpdate DEF SameSubscription
<1>6. /\ p \in PublicationType /\ IsEvidence(p) /\ p.interval = f.interval
      /\ p.first = f.boundary + 1 /\ p.last = x
  <2>1. "committed-evidence" \in PublicationTypes BY DEF PublicationTypes
  <2> QED BY <1>3, <1>4, <2>1, PublicationFields DEF IsEvidence
<1> HIDE DEF a, p
<1>7. Good(h, l \o h.out, st) BY <1>4, <1>5, <1>6, PublishesEvidence
<1> HIDE DEF h
<1>8. h \in FeedType BY <1>7 DEF Good
<1>9. Good(g, l \o g.out, st) BY <1>2, <1>7, <1>8, RetentionAdvances
<1> QED BY <1>1, <1>9

\* A Clear is told to a live observer, and queued for one that replays.
LEMMA ClearIsGood ==
  ASSUME NEW f, NEW l, NEW st, Good(f, l, st), Asked(st), f.interval < MaxIntervals
  PROVE  LET g == clearInterval(f) IN Good(g, l \o g.out, st)
<1> DEFINE j == f.interval + 1
           y == f.boundary + 1
           a == [f EXCEPT !.interval = j, !.oldest = y, !.out = <<>>]
           p == Publication("interval-cleared", j, 0, f.boundary)
           h == publish(a, p)
<1>1. clearInterval(f) = h BY DEF clearInterval
<1>2. f \in FeedType /\ l \in Seq(PublicationType) /\ Orderly(l, f.interval, st) /\ f.oldest <= f.boundary + 1
  BY DEF Good, Orderly
<1>3. /\ f.boundary \in Nat /\ f.boundary \in 0..MaxSequence /\ f.oldest \in Nat
      /\ f.interval \in 1..MaxIntervals /\ f.interval \in Nat /\ MaxSequence \in Nat /\ MaxIntervals \in Nat
      /\ f.state \in {"none", "replaying", "live"}
  BY <1>2, FeedFields
<1>4. j \in 1..MaxIntervals /\ j \in Nat /\ f.interval < j /\ y \in 1..(MaxSequence + 1) /\ y = f.boundary + 1
      /\ y \in Nat /\ j = f.interval + 1 /\ f.oldest <= y
  BY <1>2, <1>3
<1> HIDE DEF j, y
<1>5. /\ a \in FeedType /\ a.interval = j /\ a.oldest = y /\ a.boundary = f.boundary
      /\ a.state = f.state /\ a.replay = f.replay /\ a.pending = f.pending /\ a.out = <<>>
  <2>1. a = ClearedTo(f, j, y) BY DEF ClearedTo
  <2>2. f.interval \in 1..MaxIntervals /\ f.boundary \in 0..MaxSequence /\ f.oldest \in 1..(MaxSequence + 1)
        /\ f.replay \in ReplayType
    BY <1>2, FeedFields, FeedParts
  <2> HIDE DEF a
  <2> QED BY <1>2, <1>4, <2>1, <2>2, RangeUpdate DEF SameSubscription
<1>6. p \in PublicationType /\ p.type = "interval-cleared" /\ p.interval = j /\ p.last = f.boundary
  <2>1. "interval-cleared" \in PublicationTypes /\ 0 \in 0..MaxSequence
    BY <1>3 DEF PublicationTypes
  <2> QED BY <1>3, <1>4, <2>1, PublicationFields
<1>7. IsClear(p) /\ ~IsEvidence(p) /\ ~IsRange(p) BY <1>6 DEF IsClear, IsEvidence, IsRange
<1>8. Orderly(l, j, st) BY <1>2, <1>3, <1>4, LaterInterval
<1>9. l \o a.out = l /\ l \o <<>> = l BY <1>2, <1>5, ToldInSteps
<1> HIDE DEF a, p
<1>10. CASE f.state = "none"
  <2>1. h = a BY <1>5, <1>10 DEF publish, invoke
  <2>2. Idle(a) BY <1>5, <1>10 DEF Good, Idle
  <2>3. a.oldest <= a.boundary + 1 BY <1>3, <1>4, <1>5
  <2> QED BY <1>1, <1>5, <1>8, <1>9, <1>10, <2>1, <2>2, <2>3 DEF Good
<1>11. CASE f.state = "live"
  <2>1. h = invoke(a, p) BY <1>5, <1>11 DEF publish
  <2> HIDE DEF h
  <2>2. /\ h \in FeedType /\ SameRange(h, a)
        /\ h.state = a.state /\ h.replay = a.replay /\ h.pending = a.pending
        /\ l \o h.out = Append(l, p)
    <3>1. a.state # "none" BY <1>5, <1>11
    <3> QED BY <1>2, <1>5, <1>6, <1>9, <2>1, <3>1, InvokeTells
  <2>3. PICK c \in 0..MaxSequence, lo \in 1..MaxSequence + 1 :
          Reaches(l, f.interval, c, lo, f.boundary)
    BY <1>11 DEF Good, LiveInv
  <2>4. /\ Orderly(Append(l, p), j, st)
        /\ Reaches(Append(l, p), j, f.boundary, f.boundary + 1, f.boundary)
    <3>1. p.interval > f.interval /\ p.last >= f.boundary BY <1>3, <1>4, <1>6
    <3> QED BY <1>3, <1>4, <1>6, <1>7, <1>8, <2>3, <3>1, TellsClear
  <2>5. h.interval = j /\ h.oldest = y /\ h.boundary = f.boundary BY <1>5, <2>2 DEF SameRange
  <2>6. LiveInv(h, l \o h.out, st)
    <3>1. Reaches(l \o h.out, h.interval, f.boundary, y, h.boundary) BY <1>4, <2>2, <2>4, <2>5
    <3>2. y <= h.oldest BY <1>4, <2>5
    <3> QED BY <1>3, <1>4, <3>1, <3>2 DEF LiveInv
  <2>7. Idle(h) BY <1>5, <1>11, <2>2 DEF Good, Idle
  <2>8. h.oldest <= h.boundary + 1 /\ h.state = "live" BY <1>3, <1>4, <1>5, <1>11, <2>2, <2>5
  <2> QED BY <1>1, <2>2, <2>4, <2>5, <2>6, <2>7, <2>8 DEF Good, h
<1>12. CASE f.state = "replaying"
  <2> DEFINE q == f.pending
             r == appendPendingReplayRange(a.pending, p)
             i == f.replay.interval
             b == st.boundary
  <2>1. h = [a EXCEPT !.pending = r] BY <1>5, <1>12 DEF publish
  <2>2. r = Append(q, p) BY <1>5, <1>6 DEF appendPendingReplayRange
  <2>3. b \in 0..MaxSequence /\ b \in Nat BY AskedFacts
  <2>4. i \in 1..f.interval /\ i \in 1..MaxIntervals /\ i \in Nat /\ i <= f.interval /\ Queued(f, b, i)
    <3>1. i \in 1..f.interval /\ Queued(f, b, i) BY <1>12 DEF Good, ReplayInv
    <3> QED BY <1>3, <3>1
  <2> HIDE DEF h, i, b
  <2>5. /\ q \in Seq(QueueType) /\ Continues(q, b, i) /\ QueueInOrder(q, b, i)
        /\ EndAt(q, Len(q), b) = f.boundary /\ IntervalAt(q, Len(q), i) = f.interval
    <3>1. q \in Seq(QueueType) BY <1>2, FeedFields
    <3> QED BY <2>4, <3>1 DEF Queued
  <2>6. p \in QueueType /\ p.interval = IntervalAt(q, Len(q), i) + 1 /\ p.last = EndAt(q, Len(q), b)
    <3>1. p \in QueueType BY <1>6 DEF QueueType, PublicationType
    <3> QED BY <1>4, <1>6, <2>5, <3>1
  <2> HIDE DEF q, r
  <2>7. /\ r \in Seq(QueueType) /\ Continues(r, b, i) /\ QueueInOrder(r, b, i)
        /\ EndAt(r, Len(r), b) = f.boundary /\ IntervalAt(r, Len(r), i) = j
        /\ Len(r) \in DOMAIN r /\ r[Len(r)] = p
        /\ \A n \in DOMAIN q : n \in DOMAIN r /\ r[n] = q[n]
        /\ \A n \in DOMAIN r : n \in DOMAIN q \/ r[n] = p
    BY <1>6, <1>7, <2>2, <2>3, <2>4, <2>5, <2>6, QueueGrows
  <2>8. Updated(h, a, a.state, a.replay, r, a.out)
    <3>1. a.replay \in ReplayType /\ a.out \in Seq(PublicationType) BY <1>5, FeedParts
    <3> QED BY <1>5, <2>1, <2>7, <3>1, FeedParts, FeedUpdate
  <2>9. /\ h \in FeedType /\ h.interval = j /\ h.oldest = y /\ h.boundary = f.boundary
        /\ h.state = "replaying" /\ h.replay = f.replay /\ h.pending = r /\ l \o h.out = l
    BY <1>5, <1>9, <1>12, <2>8 DEF Updated, SameRange
  <2>10. Queued(h, b, i)
    <3>1. \E n \in DOMAIN r : IsClear(r[n]) /\ r[n].interval = j /\ y = r[n].last + 1
      BY <1>4, <1>6, <1>7, <2>7
    <3> QED BY <2>7, <2>9, <3>1 DEF Queued
  <2>11. ReplayInv(h, l \o h.out, st)
    <3>1. PICK lo \in 1..MaxSequence + 1, t \in 0..MaxSequence :
            /\ Reaches(l, i, 0, lo, t)
            /\ lo <= b + 1 /\ (lo <= st.oldest \/ lo <= FirstOf(st))
            /\ i = f.interval => /\ f.oldest = st.oldest /\ t = f.oldest + f.replay.next - 1
                                 /\ f.replay.last = b - f.oldest /\ t <= f.boundary
            /\ i # f.interval => \A n \in DOMAIN f.pending : IsClear(f.pending[n]) => t <= f.pending[n].last
      BY <1>12 DEF Good, ReplayInv, i, b
    <3>2. i # j /\ i \in 1..j BY <1>3, <1>4, <2>4
    <3>3. /\ DOMAIN q = 1..Len(q) /\ Len(q) \in Nat
          /\ \A n \in 1..Len(q) : q[n].interval \in Nat /\ q[n].last \in Nat
                                  /\ q[n].interval <= f.interval /\ q[n].last <= f.boundary
          /\ \A n \in 0..Len(q) : IntervalAt(q, n, i) \in Nat /\ i <= IntervalAt(q, n, i)
      BY <1>2, <2>3, <2>4, QueueFacts DEF q
    <3>4. t <= f.boundary /\ \A n \in DOMAIN q : IsClear(q[n]) => t <= q[n].last
      <4>1. CASE i = f.interval
        <5>1. ASSUME NEW n \in DOMAIN q, IsClear(q[n]) PROVE FALSE
          <6>1. n \in 1..Len(q) /\ n - 1 \in 0..Len(q) BY <3>3
          <6>2. q[n].interval = IntervalAt(q, n - 1, i) + 1
            BY <2>5, <5>1 DEF Continues, IsClear, IsRange
          <6>3. q[n].interval \in Nat /\ q[n].interval <= i /\ IntervalAt(q, n - 1, i) \in Nat
                /\ i <= IntervalAt(q, n - 1, i)
            BY <3>3, <4>1, <6>1
          <6> QED BY <2>4, <6>2, <6>3
        <5> QED BY <3>1, <4>1, <5>1
      <4>2. CASE i # f.interval
        <5>1. PICK n \in DOMAIN q : IsClear(q[n]) BY <2>4, <4>2 DEF Queued, q
        <5>2. t <= q[n].last /\ q[n].last \in Nat /\ q[n].last <= f.boundary
          BY <3>1, <3>3, <4>2, <5>1 DEF q
        <5>3. t <= f.boundary BY <1>3, <5>2
        <5> QED BY <3>1, <4>2, <5>3 DEF q
      <4> QED BY <4>1, <4>2
    <3>5. \A n \in DOMAIN r : IsClear(r[n]) => t <= r[n].last BY <1>6, <2>7, <3>4
    <3>6. /\ h.replay.interval = i /\ h.pending = r /\ h.interval = j /\ l \o h.out = l
          /\ st.boundary = b
      BY <2>9 DEF i, b
    <3>7. \E k \in 1..MaxSequence + 1, u \in 0..MaxSequence :
            /\ Reaches(l \o h.out, i, 0, k, u)
            /\ k <= b + 1 /\ (k <= st.oldest \/ k <= FirstOf(st))
            /\ \A n \in DOMAIN r : IsClear(r[n]) => u <= r[n].last
      BY <3>1, <3>5, <3>6
    <3> QED BY <2>10, <3>2, <3>6, <3>7 DEF ReplayInv
  <2> QED BY <1>1, <1>3, <1>4, <1>8, <2>9, <2>11 DEF Good, h
<1> QED BY <1>3, <1>10, <1>11, <1>12

\* A replay chunk tells what lies behind the last, or ends the replay.
LEMMA ChunkIsGood ==
  ASSUME NEW f, NEW l, NEW st, Good(f, l, st), Asked(st), f.state = "replaying"
  PROVE  LET g == runCooperativeReplayChunk(f) IN Good(g, l \o g.out, st)
<1> DEFINE a == [f EXCEPT !.out = <<>>]
           i == f.replay.interval
           first == f.oldest + f.replay.next
           last == IF first + ChunkSize - 1 < f.boundary THEN first + ChunkSize - 1 ELSE f.boundary
           p == Publication("committed-evidence", i, first, last)
           e == [f EXCEPT !.replay.next = @ + last - first + 1, !.out = <<>>]
           g == IF first <= last THEN invoke(e, p) ELSE a
<1>1. runCooperativeReplayChunk(f) =
        IF f.interval # i THEN finishCooperativeReplay(a)
        ELSE IF g.replay.next <= g.replay.last THEN g ELSE finishCooperativeReplay(g)
  BY DEF runCooperativeReplayChunk
<1>2. /\ f \in FeedType /\ l \in Seq(PublicationType) /\ Orderly(l, f.interval, st)
      /\ f.oldest <= f.boundary + 1 /\ ReplayInv(f, l, st)
  BY DEF Good, Orderly
<1>3. /\ f.boundary \in Nat /\ f.boundary \in 0..MaxSequence /\ f.oldest \in Nat /\ f.oldest >= 1
      /\ f.interval \in 1..MaxIntervals /\ f.interval \in Nat /\ MaxSequence \in Nat /\ MaxIntervals \in Nat
      /\ f.replay.next \in Nat /\ f.replay.last \in Int /\ f.boundary <= MaxSequence
      /\ f.replay.last \in -1..(MaxSequence - 1) /\ f.replay.interval \in 0..MaxIntervals
      /\ f.replay \in ReplayType /\ f.out \in Seq(PublicationType) /\ f.pending \in Seq(QueueType)
      /\ ChunkSize \in Nat /\ ChunkSize >= 1
  BY <1>2, FeedFields, FeedParts, FeedAssumption
<1>4. Updated(a, f, "replaying", f.replay, f.pending, <<>>)
  <2>1. <<>> \in Seq(PublicationType) OBVIOUS
  <2> QED BY <1>2, <1>3, <2>1, FeedParts, FeedUpdate
<1>5. /\ st.boundary \in Nat /\ st.boundary \in 0..MaxSequence /\ st.oldest \in Nat
  BY AskedFacts
<1>6. l \o <<>> = l BY <1>2, ToldInSteps
<1>7. i \in 1..f.interval /\ i \in 1..MaxIntervals /\ Queued(f, st.boundary, i)
  <2>1. i \in 1..f.interval /\ Queued(f, st.boundary, i) BY <1>2 DEF ReplayInv
  <2> QED BY <1>3, <2>1
<1>8. /\ a \in FeedType /\ a.state = "replaying" /\ a.replay = f.replay /\ a.pending = f.pending
      /\ a.interval = f.interval /\ a.oldest = f.oldest /\ a.boundary = f.boundary
      /\ l \o a.out = l
  BY <1>4, <1>6 DEF Updated, SameRange
<1>9. ReplayInv(a, l \o a.out, st) BY <1>2, <1>8 DEF ReplayInv, Queued
<1> HIDE DEF a
<1>10. CASE f.interval # i
  <2>1. a.interval # a.replay.interval /\ a.oldest <= a.boundary + 1 /\ Orderly(l \o a.out, a.interval, st)
    BY <1>2, <1>8, <1>10
  <2>2. LET z == finishCooperativeReplay(a) IN Good(z, l \o z.out, st)
    BY <1>2, <1>8, <1>9, <2>1, ReplayFinishes
  <2> QED BY <1>1, <1>10, <2>2
<1>11. CASE f.interval = i
  <2>1. PICK lo \in 1..MaxSequence + 1, h \in 0..MaxSequence :
         /\ Reaches(l, i, 0, lo, h)
         /\ lo <= st.boundary + 1 /\ (lo <= st.oldest \/ lo <= FirstOf(st))
         /\ f.oldest = st.oldest /\ h = f.oldest + f.replay.next - 1
         /\ f.replay.last = st.boundary - f.oldest /\ h <= f.boundary
    BY <1>2, <1>11 DEF ReplayInv
  <2>2. /\ g \in FeedType /\ g.state = "replaying" /\ g.pending = f.pending
        /\ g.interval = f.interval /\ g.oldest = f.oldest /\ g.boundary = f.boundary
        /\ g.replay.interval = i
        /\ Orderly(l \o g.out, g.interval, st) /\ ReplayInv(g, l \o g.out, st)
    <3>1. CASE ~(first <= last)
      <4>1. g = a BY <3>1
      <4> QED BY <1>2, <1>8, <1>9, <4>1
    <3>2. CASE first <= last
      <4> DEFINE n == f.replay.next + last - first + 1
                 rp == [next |-> n, last |-> f.replay.last, interval |-> i]
      <4>1. /\ first \in Nat /\ last \in Nat /\ first = h + 1 /\ last <= f.boundary
            /\ first >= 1 /\ last \in 0..MaxSequence /\ first \in 0..MaxSequence
            /\ n = last - f.oldest + 1 /\ n \in 0..MaxSequence
        <5>1. /\ f.oldest \in Nat /\ f.oldest >= 1 /\ f.replay.next \in Nat /\ f.boundary \in Nat
              /\ f.boundary <= MaxSequence /\ h = f.oldest + f.replay.next - 1
          BY <1>3, <2>1
        <5>2. /\ first = f.oldest + f.replay.next
              /\ last = IF first + ChunkSize - 1 < f.boundary THEN first + ChunkSize - 1 ELSE f.boundary
              /\ n = f.replay.next + last - first + 1
          OBVIOUS
        <5>3. first <= last BY <3>2
        <5> HIDE DEF first, last, n
        <5>4. f.replay.next = h - f.oldest + 1 /\ h \in Nat BY <5>1
        <5>5. first = h + 1 /\ first \in Nat /\ first >= 1 BY <5>1, <5>2, <5>4
        <5>6. last \in Nat /\ last <= f.boundary
          <6>1. ChunkSize \in Nat /\ ChunkSize >= 1 BY <1>3
          <6>2. f.boundary \in Nat BY <5>1
          <6>3. first + ChunkSize - 1 \in Nat BY <5>5, <6>1
          <6>4. CASE first + ChunkSize - 1 < f.boundary BY <5>2, <6>2, <6>3, <6>4
          <6>5. CASE ~(first + ChunkSize - 1 < f.boundary) BY <5>2, <6>2, <6>5
          <6> QED BY <6>4, <6>5
        <5>7. n = last - f.oldest + 1 BY <5>1, <5>2, <5>4, <5>5, <5>6
        <5>8. MaxSequence \in Nat /\ last <= MaxSequence /\ first <= last
          BY <1>3, <5>1, <5>3, <5>6
        <5>9. last \in 0..MaxSequence /\ first \in 0..MaxSequence BY <5>5, <5>6, <5>8
        <5>10. n \in 0..MaxSequence
          <6>1. last >= f.oldest - 1
            <7>1. h >= f.oldest - 1 /\ h \in Nat BY <5>1, <5>4
            <7> QED BY <5>1, <5>5, <5>6, <5>8, <7>1
          <6>2. \A x \in Nat, y \in Nat : y >= 1 /\ x >= y - 1 /\ x <= MaxSequence => x - y + 1 \in 0..MaxSequence
            BY <5>8
          <6> QED BY <5>1, <5>6, <5>7, <5>8, <6>1, <6>2
        <5> QED BY <5>5, <5>6, <5>7, <5>9, <5>10
      <4>2. e = [f EXCEPT !.replay = rp, !.out = <<>>] /\ rp \in ReplayType
        <5>1. [f.replay EXCEPT !.next = n] = rp
          <6>1. \A m : \A y \in ReplayType : [y EXCEPT !.next = m] = [next |-> m, last |-> y.last, interval |-> y.interval]
            BY DEF ReplayType
          <6> HIDE DEF n
          <6> QED BY <1>3, <6>1
        <5>2. rp \in ReplayType BY <1>3, <4>1 DEF ReplayType
        <5>3. e = [f EXCEPT !.replay = [f.replay EXCEPT !.next = n], !.out = <<>>] OBVIOUS
        <5> QED BY <5>1, <5>2, <5>3
      <4>3. rp.next = last - f.oldest + 1 /\ rp.last = f.replay.last /\ rp.interval = i BY <4>1
      <4> HIDE DEF first, last, n, rp, e
      <4>4. Updated(e, f, f.state, rp, f.pending, <<>>)
        <5>1. e = ReplayedTo(f, rp) BY <4>2 DEF ReplayedTo
        <5>2. /\ f.oldest \in 1..(MaxSequence + 1) /\ f.interval \in 1..MaxIntervals
              /\ f.boundary \in 0..MaxSequence
          BY <1>2, FeedFields
        <5>3. rp \in ReplayType BY <4>2
        <5> QED BY <1>2, <5>1, <5>2, <5>3, RangeUpdate
      <4>5. p \in PublicationType /\ IsEvidence(p) /\ p.interval = i /\ p.first = first /\ p.last = last
        <5>1. "committed-evidence" \in PublicationTypes BY DEF PublicationTypes
        <5> QED BY <1>7, <4>1, <5>1, PublicationFields DEF IsEvidence
      <4> HIDE DEF p, g
      <4>6. g = invoke(e, p) BY <3>2 DEF g
      <4>7. /\ e \in FeedType /\ e.state = "replaying" /\ e.replay = rp /\ e.pending = f.pending
            /\ e.interval = f.interval /\ e.oldest = f.oldest /\ e.boundary = f.boundary
            /\ l \o e.out = l
        BY <1>6, <4>4 DEF Updated, SameRange
      <4>8. /\ g \in FeedType /\ g.state = "replaying" /\ g.replay = rp /\ g.pending = f.pending
            /\ g.interval = f.interval /\ g.oldest = f.oldest /\ g.boundary = f.boundary
            /\ l \o g.out = Append(l, p)
        <5>1. e.state # "none" BY <4>7
        <5>2. /\ g \in FeedType /\ SameRange(g, e)
              /\ g.state = e.state /\ g.replay = e.replay /\ g.pending = e.pending
              /\ l \o g.out = Append(l \o e.out, p)
          BY <1>2, <4>5, <4>6, <4>7, <5>1, InvokeTells
        <5> QED BY <4>7, <5>2 DEF SameRange
      <4>9. /\ Orderly(Append(l, p), f.interval, st)
            /\ Reaches(Append(l, p), i, 0, lo, IF p.last > h THEN p.last ELSE h)
        <5>1. lo <= p.first /\ p.first <= h + 1 /\ p.first <= p.last
          <6>1. lo <= h + 1 BY <2>1 DEF Reaches
          <6> QED BY <3>2, <4>1, <4>5, <6>1
        <5>2. 0 \in 0..MaxSequence BY <1>3
        <5> QED BY <1>2, <1>3, <1>7, <2>1, <4>5, <5>1, <5>2, TellsEvidence
      <4>10. p.last > h BY <3>2, <4>1, <4>5
      <4>11. Reaches(Append(l, p), i, 0, lo, last) BY <4>5, <4>9, <4>10
      <4>12. Queued(g, st.boundary, i) BY <1>7, <4>8 DEF Queued
      <4>13. last = g.oldest + g.replay.next - 1 BY <1>3, <4>1, <4>3, <4>8
      <4>14. g.replay.interval = i /\ g.replay.last = f.replay.last BY <4>3, <4>8
      <4>15. ReplayInv(g, l \o g.out, st)
        <5>1. /\ Reaches(l \o g.out, i, 0, lo, last)
              /\ lo <= st.boundary + 1 /\ (lo <= st.oldest \/ lo <= FirstOf(st))
              /\ g.oldest = st.oldest /\ last = g.oldest + g.replay.next - 1
              /\ g.replay.last = st.boundary - g.oldest /\ last <= g.boundary
          BY <2>1, <4>1, <4>8, <4>11, <4>13, <4>14
        <5>2. i \in 1..g.interval /\ i = g.interval BY <1>7, <1>11, <4>8
        <5> QED BY <4>1, <4>12, <4>14, <5>1, <5>2 DEF ReplayInv
      <4> QED BY <4>8, <4>9, <4>14, <4>15
    <3> QED BY <3>1, <3>2
  <2> HIDE DEF g, i
  <2>3. CASE g.replay.next <= g.replay.last
    <3>1. runCooperativeReplayChunk(f) = g BY <1>1, <1>11, <2>3
    <3>2. g.oldest <= g.boundary + 1 BY <1>2, <2>2
    <3> QED BY <2>2, <3>1, <3>2 DEF Good
  <2>4. CASE ~(g.replay.next <= g.replay.last)
    <3>1. runCooperativeReplayChunk(f) = finishCooperativeReplay(g) BY <1>1, <1>11, <2>4
    <3>2. g.replay.next > g.replay.last
      <4>1. g.replay.next \in Nat /\ g.replay.last \in Int BY <2>2, FeedFields
      <4> QED BY <2>4, <4>1
    <3>3. g.oldest <= g.boundary + 1 BY <1>2, <2>2
    <3> QED BY <1>2, <2>2, <3>1, <3>2, <3>3, ReplayFinishes
  <2> QED BY <2>3, <2>4
<1> QED BY <1>10, <1>11

-----------------------------------------------------------------------------
(* The steps *)

\* Nothing has been told.
LEMMA NothingTold ==
  ASSUME NEW i \in 1..MaxIntervals, NEW st
  PROVE  /\ Orderly(<<>>, i, st)
         /\ \A lo \in 1..MaxSequence + 1 : Reaches(<<>>, i, 0, lo, lo - 1)
<1>1. <<>> \in Seq(PublicationType) /\ DOMAIN (<<>>) = {} OBVIOUS
<1>2. Orderly(<<>>, i, st) BY <1>1 DEF Orderly, InOrder, OnItsSide, Completed
<1>3. Told(<<>>) = {} BY <1>1 DEF Told
<1>4. ASSUME NEW lo \in 1..MaxSequence + 1 PROVE Reaches(<<>>, i, 0, lo, lo - 1)
  <2>1. lo \in Nat /\ 0 < lo BY FeedAssumption
  <2>2. lo..(lo - 1) = {} /\ lo <= (lo - 1) + 1 BY <2>1
  <2> QED BY <1>1, <1>3, <2>1, <2>2 DEF Reaches
<1> QED BY <1>2, <1>4

\* Where a cooperative replay starts: at the Evidence asked for, or behind all
\* that is retained.
LEMMA ReplayStarts ==
  ASSUME NEW b \in FeedType, b.state = "replaying", b.pending = <<>>, b.oldest <= b.boundary + 1,
         NEW after \in Refs \cup {NoRef}, NEW st, Asked(st),
         st.after = after, st.oldest = b.oldest, st.boundary = b.boundary,
         NEW l \in Seq(PublicationType), Orderly(l \o b.out, b.interval, st),
         \A lo \in 1..MaxSequence + 1 : Reaches(l \o b.out, b.interval, 0, lo, lo - 1)
  PROVE  LET g == startCooperativeReplay(b, after) IN Good(g, l \o g.out, st)
<1> DEFINE g == startCooperativeReplay(b, after)
           from == IF after = NoRef THEN OldestRetained(b) ELSE after.sequence + 1
           next == IF from \in b.oldest..b.boundary THEN from - b.oldest ELSE RetainedLength(b)
           r == [next |-> next, last |-> RetainedLength(b) - 1, interval |-> b.interval]
           x == [b EXCEPT !.replay = r]
           p == Publication("replay-started", b.interval, OldestRetained(b), after.sequence)
<1>1. g = IF after # NoRef /\ ~IsResumable(b, after) THEN failCooperativeReplay(b) ELSE invoke(x, p)
  BY DEF startCooperativeReplay
<1>2. /\ b.boundary \in Nat /\ b.boundary <= MaxSequence /\ b.oldest \in Nat /\ b.oldest >= 1
      /\ b.oldest \in 1..MaxSequence + 1 /\ b.boundary \in 0..MaxSequence
      /\ b.interval \in 1..MaxIntervals /\ b.interval \in Nat /\ MaxSequence \in Nat /\ MaxIntervals \in Nat
  BY FeedFields
<1>3. CASE after # NoRef /\ ~IsResumable(b, after)
  <2>1. g = failCooperativeReplay(b) BY <1>1, <1>3
  <2> HIDE DEF g
  <2>2. b.state # "none" OBVIOUS
  <2>3. Good(g, l \o g.out, st) BY <2>1, <2>2, ReplayStops
  <2> QED BY <2>3 DEF g
<1>4. CASE ~(after # NoRef /\ ~IsResumable(b, after))
  <2>1. g = invoke(x, p) BY <1>1, <1>4
  <2>2. after.sequence \in 0..MaxSequence /\ after.sequence \in Nat /\ (after = NoRef => after.sequence = 0)
    BY <1>2 DEF Refs, NoRef
  <2>3. OldestRetained(b) \in 0..MaxSequence /\ RetainedLength(b) = b.boundary - b.oldest + 1
        /\ (RetainedLength(b) > 0 => OldestRetained(b) = b.oldest)
        /\ (~(RetainedLength(b) > 0) => OldestRetained(b) = 0 /\ b.oldest = b.boundary + 1)
    <3> DEFINE R == RetainedLength(b)
    <3>1. R = b.boundary - b.oldest + 1 BY DEF RetainedLength
    <3>2. R \in Nat /\ b.oldest <= b.boundary + 1 BY <1>2, <3>1
    <3>3. OldestRetained(b) = IF R > 0 THEN b.oldest ELSE 0 BY DEF OldestRetained
    <3> HIDE DEF R
    <3>4. CASE R > 0
      <4>1. b.oldest <= b.boundary BY <1>2, <3>1, <3>4
      <4>2. b.oldest \in 0..MaxSequence BY <1>2, <4>1
      <4> QED BY <3>1, <3>2, <3>3, <3>4, <4>2 DEF R
    <3>5. CASE ~(R > 0)
      <4>1. b.oldest = b.boundary + 1 BY <1>2, <3>1, <3>2, <3>5
      <4> QED BY <1>2, <3>1, <3>2, <3>3, <3>5, <4>1 DEF R
    <3> QED BY <3>4, <3>5
  <2>4. /\ next \in Nat /\ b.oldest + next <= b.boundary + 1
        /\ next = 0 \/ b.oldest + next = FirstOf(st)
    <3> DEFINE R == RetainedLength(b)
    <3>1. R \in Nat /\ R = b.boundary - b.oldest + 1 BY <1>2, <2>3
    <3>2. CASE R = 0
      <4>1. ~(from \in b.oldest..b.boundary) BY <1>2, <3>1, <3>2
      <4>2. next = 0 BY <3>2, <4>1
      <4> HIDE DEF next
      <4> QED BY <1>2, <4>2
    <3>3. CASE R # 0 /\ after = NoRef
      <4>1. from = b.oldest BY <2>3, <3>1, <3>3
      <4>2. from \in b.oldest..b.boundary BY <1>2, <3>1, <3>3, <4>1
      <4>3. next = 0 BY <1>2, <4>1, <4>2
      <4> HIDE DEF next
      <4> QED BY <1>2, <4>3
    <3>4. CASE R # 0 /\ after # NoRef
      <4>1. from = after.sequence + 1 /\ FirstOf(st) = after.sequence + 1 BY <3>4 DEF FirstOf
      <4>2. after.sequence \in (b.oldest - 1)..b.boundary BY <1>4, <3>1, <3>4 DEF IsResumable
      <4> HIDE DEF from
      <4>3. from \in Nat /\ b.oldest <= from /\ from <= b.boundary + 1
        <5>1. \A n, i, j \in Nat : n \in (i - 1)..j => n + 1 \in Nat /\ i <= n + 1 /\ n + 1 <= j + 1
          OBVIOUS
        <5> QED BY <1>2, <2>2, <4>1, <4>2, <5>1
      <4>4. next = from - b.oldest
        <5>1. CASE from <= b.boundary
          <6>1. from \in b.oldest..b.boundary BY <1>2, <4>3, <5>1
          <6> QED BY <6>1
        <5>2. CASE ~(from <= b.boundary)
          <6>1. from = b.boundary + 1 /\ ~(from \in b.oldest..b.boundary) BY <1>2, <4>3, <5>2
          <6>2. next = R BY <6>1
          <6> QED BY <1>2, <3>1, <6>1, <6>2
        <5> QED BY <5>1, <5>2
      <4> HIDE DEF next
      <4>5. next \in Nat /\ b.oldest + next = from
        <5>1. \A v \in Nat, y \in Nat : y <= v => v - y \in Nat /\ y + (v - y) = v OBVIOUS
        <5>2. from \in Nat /\ b.oldest \in Nat /\ b.oldest <= from BY <1>2, <4>3
        <5> QED BY <4>4, <5>1, <5>2
      <4> QED BY <4>1, <4>3, <4>5
    <3> QED BY <3>2, <3>3, <3>4
  <2> HIDE DEF from, next
  <2>5. r \in ReplayType
    <3>1. next \in 0..MaxSequence /\ RetainedLength(b) - 1 \in -1..(MaxSequence - 1)
          /\ b.interval \in 0..MaxIntervals
      <4>1. next \in 0..MaxSequence /\ b.interval \in 0..MaxIntervals BY <1>2, <2>4
      <4>2. b.boundary - b.oldest \in -1..(MaxSequence - 1) BY <1>2
      <4>3. RetainedLength(b) - 1 = b.boundary - b.oldest BY <1>2, <2>3
      <4> QED BY <4>1, <4>2, <4>3
    <3> QED BY <3>1 DEF ReplayType
  <2>6. r.next = next /\ r.last = b.boundary - b.oldest /\ r.interval = b.interval BY <1>2, <2>3
  <2> HIDE DEF r
  <2>7. Updated(x, b, b.state, r, b.pending, b.out) BY <2>5, FeedParts, FeedUpdate
  <2>8. /\ x \in FeedType /\ x.interval = b.interval /\ x.oldest = b.oldest /\ x.boundary = b.boundary
        /\ x.state = "replaying" /\ x.replay = r /\ x.pending = <<>> /\ x.out = b.out
    BY <2>7 DEF Updated, SameRange
  <2>9. p \in PublicationType /\ p.type = "replay-started"
    <3>1. "replay-started" \in PublicationTypes BY DEF PublicationTypes
    <3> QED BY <1>2, <2>2, <2>3, <3>1, PublicationFields
  <2> HIDE DEF x, p, g
  <2>10. /\ g \in FeedType /\ SameRange(g, x)
         /\ g.state = x.state /\ g.replay = x.replay /\ g.pending = x.pending
         /\ l \o g.out = Append(l \o x.out, p)
    <3>1. x.state # "none" BY <2>8
    <3> QED BY <2>1, <2>8, <2>9, <3>1, InvokeTells
  <2>11. /\ g.interval = b.interval /\ g.oldest = b.oldest /\ g.boundary = b.boundary
         /\ g.state = "replaying" /\ g.replay = r /\ g.pending = <<>>
         /\ l \o g.out = Append(l \o b.out, p)
    BY <2>8, <2>10 DEF SameRange
  <2>12. /\ Orderly(Append(l \o b.out, p), b.interval, st)
         /\ \A c, lo, h : Reaches(l \o b.out, b.interval, c, lo, h)
                            => Reaches(Append(l \o b.out, p), b.interval, c, lo, h)
    <3>1. ~IsEvidence(p) /\ ~IsClear(p) /\ p.type # "replay-complete"
      BY <2>9 DEF IsEvidence, IsClear
    <3> QED BY <1>2, <2>9, <3>1, TellsNothing
  <2>13. Queued(g, st.boundary, b.interval)
    <3>1. Len(<<>>) = 0 /\ DOMAIN (<<>>) = {} OBVIOUS
    <3> QED BY <2>11, <3>1 DEF Queued, Continues, QueueInOrder, EndAt, IntervalAt
  <2> DEFINE k == b.oldest + next
             h == b.oldest + next - 1
  <2>14. /\ k \in 1..MaxSequence + 1 /\ h \in 0..MaxSequence /\ h = k - 1 /\ h <= b.boundary
         /\ k <= st.boundary + 1 /\ (k <= st.oldest \/ k <= FirstOf(st))
    <3>1. FirstOf(st) \in Nat /\ st.oldest = b.oldest /\ st.boundary = b.boundary BY AskedFacts
    <3>2. next \in Nat /\ k = b.oldest + next /\ h = k - 1 /\ k <= b.boundary + 1
      <4>1. b.oldest \in Nat /\ next \in Nat /\ b.oldest + next <= b.boundary + 1 BY <1>2, <2>4
      <4>2. \A v \in Nat, y \in Nat : v + y - 1 = (v + y) - 1 OBVIOUS
      <4> QED BY <4>1, <4>2
    <3>3. k <= st.oldest \/ k <= FirstOf(st)
      <4>1. CASE next = 0 BY <1>2, <3>1, <4>1
      <4>2. CASE b.oldest + next = FirstOf(st) BY <3>1, <4>2
      <4> QED BY <2>4, <4>1, <4>2
    <3> HIDE DEF k, h
    <3>4. k \in Nat /\ k >= 1 BY <1>2, <3>2
    <3>5. k \in 1..MaxSequence + 1 /\ h \in 0..MaxSequence /\ h <= b.boundary
      <4>1. b.boundary \in Nat /\ b.boundary <= MaxSequence /\ MaxSequence \in Nat BY <1>2
      <4>2. h \in Nat /\ h <= b.boundary BY <3>2, <3>4, <4>1
      <4>3. k <= MaxSequence + 1 BY <3>2, <3>4, <4>1
      <4> QED BY <3>4, <4>1, <4>2, <4>3
    <3> QED BY <3>1, <3>2, <3>3, <3>5
  <2> HIDE DEF k
  <2>15. Reaches(l \o g.out, b.interval, 0, k, h)
    <3>1. Reaches(l \o b.out, b.interval, 0, k, k - 1) BY <2>14
    <3>2. Reaches(l \o g.out, b.interval, 0, k, k - 1) BY <2>11, <2>12, <3>1
    <3> HIDE DEF h
    <3> QED BY <2>14, <3>2
  <2>16. ReplayInv(g, l \o g.out, st)
    <3>1. g.replay.interval = b.interval /\ g.replay.next = next /\ g.replay.last = b.boundary - b.oldest
      BY <2>6, <2>11
    <3>2. b.interval \in 1..g.interval /\ b.interval = g.interval BY <1>2, <2>11
    <3>3. /\ g.oldest = st.oldest /\ h = g.oldest + g.replay.next - 1
          /\ g.replay.last = st.boundary - g.oldest /\ h <= g.boundary
      BY <2>11, <2>14, <3>1
    <3> HIDE DEF h
    <3> QED BY <2>13, <2>14, <2>15, <3>1, <3>2, <3>3 DEF ReplayInv
  <2>17. g.oldest <= g.boundary + 1 BY <2>11
  <2> QED BY <2>10, <2>11, <2>12, <2>16, <2>17 DEF Good, g
<1> QED BY <1>3, <1>4

\* A follow starts from an empty account.
LEMMA FollowIsGood ==
  ASSUME NEW f \in FeedType, f.oldest <= f.boundary + 1,
         NEW after \in Refs \cup {NoRef}, NEW cooperative \in BOOLEAN,
         NEW st, st = [after |-> after, oldest |-> f.oldest, boundary |-> f.boundary,
                       cooperative |-> cooperative]
  PROVE  /\ Asked(st)
         /\ LET g == follow(f, after, cooperative) IN Good(g, g.out, st)
<1> DEFINE s == unfollow(f)
           a == [s EXCEPT !.state = "replaying", !.out = <<>>]
           p == Publication("status", f.interval, 0, f.boundary)
           b == invoke(a, p)
           e == Publication("committed-evidence", f.interval, f.oldest, f.boundary)
           c == IF RetainedLength(f) > 0 THEN invoke(b, e) ELSE b
           d == [c EXCEPT !.state = "live"]
           g == follow(f, after, cooperative)
<1>1. g = IF cooperative THEN startCooperativeReplay(b, after) ELSE drainPending(d)
  BY DEF follow
<1>2. /\ f.boundary \in Nat /\ f.boundary \in 0..MaxSequence /\ f.oldest \in Nat /\ f.oldest >= 1
      /\ f.oldest \in 1..(MaxSequence + 1) /\ f.boundary <= MaxSequence
      /\ f.interval \in 1..MaxIntervals /\ MaxSequence \in Nat /\ 0 \in 0..MaxSequence
  BY FeedFields
<1>3. Asked(st) BY <1>2 DEF Asked
<1>4. st.after = after /\ st.oldest = f.oldest /\ st.boundary = f.boundary OBVIOUS
<1>5. <<>> \in Seq(PublicationType) OBVIOUS
<1>6. /\ s \in FeedType /\ SameRange(s, f) /\ s.replay = NoReplay /\ s.pending = <<>>
  BY UnfollowFields DEF Idle
<1> HIDE DEF s, g
<1>7. Updated(a, s, "replaying", s.replay, s.pending, <<>>) BY <1>5, <1>6, FeedParts, FeedUpdate
<1>8. /\ a \in FeedType /\ SameRange(a, f) /\ a.state = "replaying" /\ a.pending = <<>>
      /\ a.replay = NoReplay /\ a.out = <<>>
  BY <1>6, <1>7 DEF Updated, SameRange
<1>9. p \in PublicationType /\ p.type = "status"
  <2>1. "status" \in PublicationTypes BY DEF PublicationTypes
  <2> QED BY <1>2, <2>1, PublicationFields
<1> HIDE DEF a, p
<1>10. /\ b \in FeedType /\ SameRange(b, a) /\ b.state = "replaying" /\ b.pending = <<>>
       /\ b.replay = NoReplay /\ <<>> \o b.out = Append(<<>> \o a.out, p)
  <2>1. a.state # "none" BY <1>8
  <2> QED BY <1>5, <1>8, <1>9, <2>1, InvokeTells
<1> HIDE DEF b
<1>11. /\ b.interval = f.interval /\ b.oldest = f.oldest /\ b.boundary = f.boundary
       /\ <<>> \o b.out = Append(<<>>, p)
  <2>1. <<>> \o a.out = <<>> BY <1>5, <1>8, ToldInSteps
  <2> QED BY <1>8, <1>10, <2>1 DEF SameRange
<1>12. /\ Orderly(<<>> \o b.out, f.interval, st)
       /\ \A lo \in 1..MaxSequence + 1 : Reaches(<<>> \o b.out, f.interval, 0, lo, lo - 1)
  <2>1. /\ Orderly(<<>>, f.interval, st)
        /\ \A lo \in 1..MaxSequence + 1 : Reaches(<<>>, f.interval, 0, lo, lo - 1)
    BY <1>2, NothingTold
  <2>2. ~IsEvidence(p) /\ ~IsClear(p) /\ p.type # "replay-complete"
    BY <1>9 DEF IsEvidence, IsClear
  <2>3. /\ Orderly(Append(<<>>, p), f.interval, st)
        /\ \A k, lo, h : Reaches(<<>>, f.interval, k, lo, h) => Reaches(Append(<<>>, p), f.interval, k, lo, h)
    BY <1>2, <1>9, <2>1, <2>2, TellsNothing
  <2> QED BY <1>11, <2>1, <2>3
<1>13. CASE cooperative
  <2>1. g = startCooperativeReplay(b, after) BY <1>1, <1>13
  <2>2. LET z == startCooperativeReplay(b, after) IN Good(z, <<>> \o z.out, st)
    BY <1>3, <1>4, <1>5, <1>10, <1>11, <1>12, ReplayStarts
  <2>3. Good(g, <<>> \o g.out, st) BY <2>1, <2>2
  <2>4. <<>> \o g.out = g.out
    <3>1. g.out \in Seq(PublicationType) BY <2>3, FeedParts DEF Good
    <3> QED BY <1>5, <3>1, ToldInSteps
  <2> QED BY <1>3, <2>3, <2>4 DEF g
<1>14. CASE ~cooperative
  <2>1. g = drainPending(d) BY <1>1, <1>14
  <2>2. /\ c \in FeedType /\ c.interval = f.interval /\ c.oldest = f.oldest /\ c.boundary = f.boundary
        /\ c.replay = NoReplay /\ c.pending = <<>>
        /\ Orderly(<<>> \o c.out, f.interval, st)
        /\ Reaches(<<>> \o c.out, f.interval, 0, f.oldest, f.boundary)
    <3>1. CASE RetainedLength(f) > 0
      <4>1. c = invoke(b, e) /\ f.oldest <= f.boundary /\ f.oldest \in 0..MaxSequence
        BY <1>2, <3>1 DEF RetainedLength
      <4>2. e \in PublicationType /\ IsEvidence(e) /\ e.interval = f.interval
            /\ e.first = f.oldest /\ e.last = f.boundary
        <5>1. "committed-evidence" \in PublicationTypes BY DEF PublicationTypes
        <5> QED BY <1>2, <4>1, <5>1, PublicationFields DEF IsEvidence
      <4> HIDE DEF c, e
      <4>3. /\ c \in FeedType /\ SameRange(c, b) /\ c.pending = b.pending /\ c.replay = b.replay
            /\ <<>> \o c.out = Append(<<>> \o b.out, e)
        <5>1. b.state # "none" BY <1>10
        <5> QED BY <1>5, <1>10, <4>1, <4>2, <5>1, InvokeTells
      <4> DEFINE h == f.oldest - 1
      <4>4. h \in 0..MaxSequence /\ f.boundary > h /\ f.oldest = h + 1 /\ h = f.oldest - 1
        BY <1>2, <4>1
      <4>5. Reaches(<<>> \o b.out, f.interval, 0, f.oldest, h) BY <1>2, <1>12
      <4> HIDE DEF h
      <4>6. /\ Orderly(Append(<<>> \o b.out, e), f.interval, st)
            /\ Reaches(Append(<<>> \o b.out, e), f.interval, 0, f.oldest, IF e.last > h THEN e.last ELSE h)
        <5>1. f.oldest <= e.first /\ e.first <= h + 1 /\ e.first <= e.last
          BY <1>2, <4>1, <4>2, <4>4
        <5> QED BY <1>2, <1>12, <4>2, <4>4, <4>5, <5>1, TellsEvidence
      <4>7. Reaches(Append(<<>> \o b.out, e), f.interval, 0, f.oldest, f.boundary)
        BY <4>2, <4>4, <4>6
      <4> QED BY <1>10, <1>11, <4>3, <4>6, <4>7 DEF SameRange
    <3>2. CASE ~(RetainedLength(f) > 0)
      <4>1. c = b /\ f.boundary = f.oldest - 1 BY <1>2, <3>2 DEF RetainedLength
      <4> HIDE DEF c
      <4>2. Reaches(<<>> \o b.out, f.interval, 0, f.oldest, f.oldest - 1) BY <1>2, <1>12
      <4> QED BY <1>10, <1>11, <1>12, <4>1, <4>2
    <3> QED BY <3>1, <3>2
  <2> HIDE DEF c
  <2>3. Updated(d, c, "live", c.replay, c.pending, c.out)
    <3>1. c.out \in Seq(PublicationType) BY <2>2, FeedParts
    <3> QED BY <2>2, <3>1, FeedParts, FeedUpdate
  <2>4. /\ d \in FeedType /\ d.interval = f.interval /\ d.oldest = f.oldest /\ d.boundary = f.boundary
        /\ d.replay = NoReplay /\ d.pending = <<>> /\ d.state = "live" /\ d.out = c.out
    BY <2>2, <2>3 DEF Updated, SameRange
  <2> HIDE DEF d
  <2>5. drainPending(d) = [d EXCEPT !.pending = <<>>]
    <3>1. Len(d.pending) = 0 /\ d.state # "none" BY <2>4
    <3>2. \E w : drainPending(d) = w[Len(d.pending)] /\ w[0] = [d EXCEPT !.pending = <<>>]
      <4>1. Len(d.pending) \in Nat BY <3>1
      <4> QED BY <3>1, <4>1, DrainUnfolds
    <3> QED BY <3>1, <3>2
  <2>6. Updated(g, d, d.state, d.replay, <<>>, d.out) BY <2>1, <2>4, <2>5, FeedParts, FeedUpdate
  <2>7. /\ g \in FeedType /\ g.interval = f.interval /\ g.oldest = f.oldest /\ g.boundary = f.boundary
        /\ g.replay = NoReplay /\ g.pending = <<>> /\ g.state = "live" /\ g.out = c.out
    BY <2>4, <2>6 DEF Updated, SameRange
  <2>8. <<>> \o c.out = g.out
    <3>1. c.out \in Seq(PublicationType) BY <2>2, FeedParts
    <3> QED BY <1>5, <2>7, <3>1, ToldInSteps
  <2>9. LiveInv(g, g.out, st)
    <3>1. Reaches(g.out, g.interval, 0, f.oldest, g.boundary) /\ f.oldest <= g.oldest
      BY <1>2, <2>2, <2>7, <2>8
    <3> QED BY <1>2, <3>1 DEF LiveInv
  <2> QED BY <1>3, <2>2, <2>7, <2>8, <2>9 DEF Good, Idle, g
<1> QED BY <1>13, <1>14

\* An observer that throws, or unsubscribes, at a publication has been told
\* up to there.
LEMMA CutIsGood ==
  ASSUME NEW g, NEW l \in Seq(PublicationType), NEW st, Good(g, l \o g.out, st),
         NEW k \in 1..Len(g.out)
  PROVE  LET h == [unfollow(g) EXCEPT !.out = SubSeq(g.out, 1, k)] IN
         h.out = SubSeq(g.out, 1, k) /\ Good(h, l \o h.out, st)
<1> DEFINE s == unfollow(g)
           o == SubSeq(g.out, 1, k)
           h == [s EXCEPT !.out = o]
           L == l \o g.out
<1>1. g \in FeedType /\ g.oldest <= g.boundary + 1 /\ Orderly(L, g.interval, st) BY DEF Good
<1>2. g.out \in Seq(PublicationType) BY <1>1, FeedParts
<1>3. o \in Seq(PublicationType) /\ Len(l) + k \in 0..Len(L) /\ l \o o = SubSeq(L, 1, Len(l) + k)
  BY <1>2, ToldInSteps
<1>4. s \in FeedType /\ SameRange(s, g) /\ s.state = "none" /\ Idle(s) BY <1>1, UnfollowFields
<1> HIDE DEF o, s, L
<1>5. Updated(h, s, s.state, s.replay, s.pending, o) BY <1>3, <1>4, FeedParts, FeedUpdate
<1>6. Orderly(l \o o, g.interval, st) BY <1>1, <1>3, PrefixInOrder
<1> HIDE DEF h
<1>7. /\ h \in FeedType /\ h.interval = g.interval /\ h.oldest = g.oldest /\ h.boundary = g.boundary
      /\ h.state = "none" /\ Idle(h) /\ h.out = o
  BY <1>4, <1>5 DEF Updated, SameRange, Idle
<1>8. Good(h, l \o h.out, st) BY <1>1, <1>6, <1>7 DEF Good
<1> QED BY <1>7, <1>8 DEF h, s, o

\* What an operation publishes reaches the observer, or a part of it does.
LEMMA DeliverIsGood ==
  ASSUME FollowInv, NEW g, Good(g, ledger \o g.out, asked), Deliver(g), UNCHANGED <<asked, follows>>
  PROVE  FollowInv'
<1>1. ledger \in Seq(PublicationType) BY DEF FollowInv, Good, Orderly
<1>2. CASE feed' = g /\ ledger' = ledger \o g.out BY <1>2 DEF FollowInv
<1>3. CASE \E k \in 1..Len(g.out) : /\ feed' = [unfollow(g) EXCEPT !.out = SubSeq(g.out, 1, k)]
                                    /\ ledger' = ledger \o SubSeq(g.out, 1, k)
  <2>1. PICK k \in 1..Len(g.out) : /\ feed' = [unfollow(g) EXCEPT !.out = SubSeq(g.out, 1, k)]
                                   /\ ledger' = ledger \o SubSeq(g.out, 1, k)
    BY <1>3
  <2>2. feed'.out = SubSeq(g.out, 1, k) /\ Good(feed', ledger \o feed'.out, asked)
    BY <1>1, <2>1, CutIsGood
  <2> QED BY <2>1, <2>2 DEF FollowInv
<1> QED BY <1>2, <1>3 DEF Deliver

\* The feed as an operation takes it up, with nothing told by it yet.
LEMMA QuietIsGood ==
  ASSUME NEW f, NEW l, NEW st, Good(f, l, st) PROVE LET a == [f EXCEPT !.out = <<>>] IN
         /\ l \in Seq(PublicationType) /\ a \in FeedType /\ SameRange(a, f) /\ a.state = f.state
         /\ a.oldest <= a.boundary + 1 /\ Orderly(l \o a.out, a.interval, st) /\ l \o a.out = l
<1> DEFINE a == [f EXCEPT !.out = <<>>]
<1>1. f \in FeedType /\ f.oldest <= f.boundary + 1 /\ Orderly(l, f.interval, st) /\ l \in Seq(PublicationType)
  BY DEF Good, Orderly
<1>2. <<>> \in Seq(PublicationType) OBVIOUS
<1>3. Updated(a, f, f.state, f.replay, f.pending, <<>>) BY <1>1, <1>2, FeedParts, FeedUpdate
<1>4. l \o <<>> = l BY <1>1, ToldInSteps
<1> HIDE DEF a
<1>5. /\ a \in FeedType /\ a.interval = f.interval /\ a.oldest = f.oldest /\ a.boundary = f.boundary
      /\ a.state = f.state /\ a.out = <<>>
  BY <1>3 DEF Updated, SameRange
<1> QED BY <1>1, <1>4, <1>5 DEF a, SameRange

\* The invariant holds when nothing was followed.
LEMMA FollowInvInit == Init => FollowInv
<1> SUFFICES ASSUME Init PROVE FollowInv OBVIOUS
<1>1. /\ MaxSequence \in Nat /\ MaxIntervals \in Nat /\ 1 \in 1..MaxIntervals
      /\ 1 \in 1..(MaxSequence + 1) /\ 0 \in 0..MaxSequence /\ MaxFollows \in Nat
  BY FeedAssumption, FollowsAssumption
<1>2. Asked(asked) BY <1>1 DEF Init, Asked
<1>3. InitialFeed \in FeedType
  <2>1. NoReplay \in ReplayType /\ <<>> \in Seq(QueueType) /\ <<>> \in Seq(PublicationType)
    BY <1>1 DEF NoReplay, ReplayType
  <2> QED BY <1>1, <2>1 DEF InitialFeed, FeedType, ReplayType, QueueType, PublicationType
<1>4. /\ InitialFeed.interval = 1 /\ InitialFeed.oldest = 1 /\ InitialFeed.boundary = 0
      /\ InitialFeed.state = "none" /\ InitialFeed.replay = NoReplay /\ InitialFeed.pending = <<>>
  BY DEF InitialFeed
<1>5. Orderly(<<>>, 1, asked) BY <1>1, NothingTold
<1>6. Good(feed, ledger, asked) BY <1>3, <1>4, <1>5 DEF Init, Good, Idle
<1> QED BY <1>1, <1>2, <1>6 DEF Init, FollowInv

\* A follow of a feed without an observer keeps the invariant.
LEMMA FollowKeeps ==
  ASSUME FollowInv, NEW after \in Refs \cup {NoRef}, NEW cooperative \in BOOLEAN,
         Follow(after, cooperative)
  PROVE  FollowInv'
<1> DEFINE g == follow(feed, after, cooperative)
<1>1. feed \in FeedType /\ feed.oldest <= feed.boundary + 1 BY DEF FollowInv, Good
<1>2. /\ follows < MaxFollows /\ follows' = follows + 1
      /\ asked' = [after |-> after, oldest |-> feed.oldest, boundary |-> feed.boundary,
                   cooperative |-> cooperative]
      /\ \/ feed' = g /\ ledger' = feed'.out
         \/ \E k \in 1..Len(g.out) :
              /\ feed' = [unfollow(g) EXCEPT !.out = SubSeq(@, 1, k)]
              /\ ledger' = feed'.out
  BY DEF Follow
<1>3. follows' \in 0..MaxFollows BY <1>2, FollowsAssumption DEF FollowInv
<1>4. Asked(asked') /\ Good(g, g.out, asked') BY <1>1, <1>2, FollowIsGood
<1> HIDE DEF g
<1>5. CASE feed' = g /\ ledger' = feed'.out BY <1>3, <1>4, <1>5 DEF FollowInv
<1>6. CASE \E k \in 1..Len(g.out) : /\ feed' = [unfollow(g) EXCEPT !.out = SubSeq(@, 1, k)]
                                    /\ ledger' = feed'.out
  <2>1. PICK k \in 1..Len(g.out) : /\ feed' = [unfollow(g) EXCEPT !.out = SubSeq(@, 1, k)]
                                   /\ ledger' = feed'.out
    BY <1>6
  <2>2. g.out \in Seq(PublicationType) /\ <<>> \in Seq(PublicationType) /\ unfollow(g).out = g.out
    <3>1. g \in FeedType BY <1>4 DEF Good
    <3> QED BY <3>1, FeedParts, UnfollowFields
  <2>3. <<>> \o g.out = g.out BY <2>2, ToldInSteps
  <2>4. feed' = [unfollow(g) EXCEPT !.out = SubSeq(g.out, 1, k)] BY <2>1, <2>2
  <2>5. feed'.out = SubSeq(g.out, 1, k) /\ Good(feed', <<>> \o feed'.out, asked')
    <3>1. Good(g, <<>> \o g.out, asked') BY <1>4, <2>3
    <3> QED BY <2>2, <2>4, <3>1, CutIsGood
  <2>6. <<>> \o feed'.out = feed'.out
    <3>1. feed'.out \in Seq(PublicationType) BY <2>5, FeedParts DEF Good
    <3> QED BY <2>2, <3>1, ToldInSteps
  <2> QED BY <1>3, <1>4, <2>1, <2>5, <2>6 DEF FollowInv
<1> QED BY <1>2, <1>5, <1>6

\* Every step keeps the invariant.
LEMMA FollowInvStep == FollowInv /\ [Next]_vars => FollowInv'
<1> SUFFICES ASSUME FollowInv, [Next]_vars PROVE FollowInv' OBVIOUS
<1>1. Good(feed, ledger, asked) /\ Asked(asked) /\ feed \in FeedType BY DEF FollowInv, Good
<1>2. ASSUME NEW after \in KnownRefs, Follow(after, TRUE) PROVE FollowInv'
  <2>1. after \in Refs \cup {NoRef} BY DEF KnownRefs
  <2> QED BY <1>2, <2>1, FollowKeeps
<1>3. ASSUME NEW cooperative \in BOOLEAN, Follow(NoRef, cooperative) PROVE FollowInv'
  BY <1>3, FollowKeeps
<1>4. ASSUME ReplayChunk PROVE FollowInv'
  <2>1. LET g == runCooperativeReplayChunk(feed) IN Good(g, ledger \o g.out, asked)
    BY <1>1, <1>4, ChunkIsGood DEF ReplayChunk
  <2> QED BY <1>4, <2>1, DeliverIsGood DEF ReplayChunk
<1>5. ASSUME NEW n \in 1..MaxSequence, Commit(n) PROVE FollowInv'
  <2>1. LET g == commitBatch(feed, n) IN Good(g, ledger \o g.out, asked)
    BY <1>1, <1>5, CommitIsGood DEF Commit
  <2> QED BY <1>5, <2>1, DeliverIsGood DEF Commit
<1>6. ASSUME Clear PROVE FollowInv'
  <2>1. LET g == clearInterval(feed) IN Good(g, ledger \o g.out, asked)
    BY <1>1, <1>6, ClearIsGood DEF Clear
  <2> QED BY <1>6, <2>1, DeliverIsGood DEF Clear
<1>7. ASSUME Abort PROVE FollowInv'
  <2> DEFINE a == [feed EXCEPT !.out = <<>>]
  <2>1. /\ ledger \in Seq(PublicationType) /\ a \in FeedType /\ a.state = feed.state
        /\ a.oldest <= a.boundary + 1 /\ Orderly(ledger \o a.out, a.interval, asked)
    BY <1>1, QuietIsGood
  <2> HIDE DEF a
  <2>2. a.state # "none" BY <1>7, <2>1 DEF Abort
  <2>3. LET g == cancelCooperativeReplay(a) IN Good(g, ledger \o g.out, asked)
    BY <2>1, <2>2, ReplayStops
  <2>4. Deliver(cancelCooperativeReplay(a)) /\ UNCHANGED <<asked, follows>> BY <1>7 DEF Abort, a
  <2> QED BY <2>3, <2>4, DeliverIsGood
<1>8. ASSUME Unfollow PROVE FollowInv'
  <2> DEFINE s == unfollow(feed)
             h == [s EXCEPT !.out = <<>>]
  <2>1. feed' = h /\ UNCHANGED <<ledger, asked, follows>> BY <1>8 DEF Unfollow
  <2>2. s \in FeedType /\ SameRange(s, feed) /\ s.state = "none" /\ Idle(s)
    BY <1>1, UnfollowFields
  <2> HIDE DEF s
  <2>3. Updated(h, s, s.state, s.replay, s.pending, <<>>)
    <3>1. <<>> \in Seq(PublicationType) OBVIOUS
    <3> QED BY <2>2, <3>1, FeedParts, FeedUpdate
  <2> HIDE DEF h
  <2>4. /\ h \in FeedType /\ h.interval = feed.interval /\ h.oldest = feed.oldest
        /\ h.boundary = feed.boundary /\ h.state = "none" /\ Idle(h)
    BY <2>2, <2>3 DEF Updated, SameRange, Idle
  <2>5. Good(h, ledger, asked) BY <1>1, <2>4 DEF Good
  <2> QED BY <2>1, <2>5 DEF FollowInv
<1>9. CASE UNCHANGED vars BY <1>9 DEF vars, FollowInv
<1> QED BY <1>2, <1>3, <1>4, <1>5, <1>6, <1>7, <1>8, <1>9 DEF Next

\* What the observer has been told, by the names of the model.
LEMMA ToldIsDelivered ==
  ASSUME ledger \in Seq(PublicationType)
  PROVE  /\ DOMAIN ledger = 1..Len(ledger) /\ Len(ledger) \in Nat
         /\ \A k \in DOMAIN ledger : DeliveredBefore(k) = Before(ledger, k)
         /\ DeliveredBefore(Len(ledger) + 1) = Told(ledger)
<1>1. DOMAIN ledger = 1..Len(ledger) /\ Len(ledger) \in Nat OBVIOUS
<1>2. 1..(Len(ledger) + 1 - 1) = DOMAIN ledger BY <1>1
<1>3. DeliveredBefore(Len(ledger) + 1) = Told(ledger) BY <1>2 DEF DeliveredBefore, Told
<1> QED BY <1>1, <1>3 DEF DeliveredBefore, Before

\* The invariant says that what was told is in order.
LEMMA FollowInvOrders == FollowInv => DeliveryIsOrdered
<1> SUFFICES ASSUME FollowInv PROVE DeliveryIsOrdered OBVIOUS
<1>1. /\ feed \in FeedType /\ ledger \in Seq(PublicationType)
      /\ InOrder(ledger) /\ OnItsSide(ledger)
  BY DEF FollowInv, Good, Orderly
<1>2. TypeOK BY <1>1 DEF FollowInv, Asked, TypeOK, PublicationType
<1>3. \A k \in DOMAIN ledger : DeliveredBefore(k) = Before(ledger, k) BY <1>1, ToldIsDelivered
<1>4. DeliveredInOrder
  <2>1. SUFFICES ASSUME NEW k \in DOMAIN ledger,
                        DeliveredBefore(k) # {}, SequencesOf(ledger[k]) \ DeliveredBefore(k) # {}
                 PROVE  LET new == SequencesOf(ledger[k]) \ DeliveredBefore(k) IN
                        /\ Min(new) > Max(DeliveredBefore(k))
                        /\ \/ Min(new) = Max(DeliveredBefore(k)) + 1
                           \/ \E j \in Positions("interval-cleared") : j < k
    BY DEF DeliveredInOrder
  <2>2. LET new == SequencesOf(ledger[k]) \ Before(ledger, k) IN
        /\ Min(new) > Max(Before(ledger, k))
        /\ \/ Min(new) = Max(Before(ledger, k)) + 1
           \/ \E j \in DOMAIN ledger : IsClear(ledger[j]) /\ j < k
    BY <1>1, <1>3, <2>1 DEF InOrder
  <2> QED BY <1>3, <2>1, <2>2 DEF Positions, IsClear
<1>5. EvidenceStaysOnItsSide BY <1>1 DEF EvidenceStaysOnItsSide, OnItsSide, Positions, IsClear
<1> QED BY <1>2, <1>4, <1>5 DEF DeliveryIsOrdered

\* The invariant says that a live observer misses nothing.
LEMMA FollowInvMissesNothing == FollowInv => NothingIsMissed
<1> SUFFICES ASSUME FollowInv PROVE NothingIsMissed OBVIOUS
<1>1. /\ feed \in FeedType /\ ledger \in Seq(PublicationType) /\ Asked(asked)
      /\ Completed(ledger, feed.interval, WantedOf(asked))
      /\ feed.state = "live" => LiveInv(feed, ledger, asked)
  BY DEF FollowInv, Good, Orderly
<1>2. /\ \A k \in DOMAIN ledger : DeliveredBefore(k) = Before(ledger, k)
      /\ DeliveredBefore(Len(ledger) + 1) = Told(ledger)
  BY <1>1, ToldIsDelivered
<1>3. FirstWanted = FirstOf(asked) BY DEF FirstWanted, FirstOf
<1>4. LiveFollowerMissesNothing
  <2>1. SUFFICES ASSUME feed.state = "live",
                        NEW s \in feed.oldest..feed.boundary, s >= FirstOf(asked)
                 PROVE  s \in Told(ledger)
    BY <1>2, <1>3 DEF LiveFollowerMissesNothing
  <2>2. PICK c \in 0..MaxSequence, lo \in 1..MaxSequence + 1 :
          /\ Reaches(ledger, feed.interval, c, lo, feed.boundary)
          /\ lo <= feed.oldest \/ lo <= FirstOf(asked)
    BY <1>1, <2>1 DEF LiveInv
  <2>3. feed.oldest \in Nat /\ feed.boundary \in Nat /\ FirstOf(asked) \in Nat
    BY <1>1, FeedFields, AskedFacts
  <2>4. s \in lo..feed.boundary BY <2>1, <2>2, <2>3
  <2>5. lo..feed.boundary \subseteq Told(ledger) BY <2>2 DEF Reaches
  <2> QED BY <2>4, <2>5
<1>5. CompleteReplayIsComplete
  <2>1. ASSUME NEW k \in Positions("replay-complete"), ~(ledger[k].interval < feed.interval)
        PROVE  {s \in asked.oldest..asked.boundary : s >= FirstWanted} \subseteq DeliveredBefore(k)
    <3>1. k \in DOMAIN ledger /\ ledger[k].type = "replay-complete" BY DEF Positions
    <3>2. WantedOf(asked) \subseteq Before(ledger, k) BY <1>1, <2>1, <3>1 DEF Completed
    <3> QED BY <1>2, <1>3, <3>1, <3>2 DEF WantedOf
  <2> QED BY <2>1 DEF CompleteReplayIsComplete
<1> QED BY <1>4, <1>5 DEF NothingIsMissed

\* The invariant holds in every reachable state.
LEMMA FollowInvHolds == Spec => []FollowInv
  BY FollowInvInit, FollowInvStep, PTL DEF Spec

-----------------------------------------------------------------------------
\* Commits, Clears, retention advances and replays in any order: whoever follows
\* the Event History is told of Evidence in the order of its sequence, once and
\* without a hole, each batch on its own side of every Clear (publish,
\* runCooperativeReplayChunk and drainPending).
THEOREM DeliveryIsOrderedHolds == Spec => []DeliveryIsOrdered
  BY FollowInvHolds, FollowInvOrders, PTL

\* An observer that is live has been told of everything that is retained and that
\* it asked for, also of what was committed while its replay was in progress, and
\* a replay that reports its end has told all that was retained at its start.
THEOREM NothingIsMissedHolds == Spec => []NothingIsMissed
  BY FollowInvHolds, FollowInvMissesNothing, PTL
-----------------------------------------------------------------------------
(* The pipeline: the invariant *)

Phases == {"IDLE", "RECOVERING", "LIVE", "CANCELLED", "FAILED"}
RecoveryType == [active : BOOLEAN, interval : 0..MaxIntervals, evidence : SUBSET Refs]

\* The pipeline as a record of its fields.
PipeType ==
  [phase : Phases, running : BOOLEAN, closed : BOOLEAN, following : BOOLEAN,
   restarting : BOOLEAN, follower : 0..MaxIntervals, interval : 0..MaxIntervals,
   next : 0..(MaxSequence + 1), boundary : Refs \cup {NoRef},
   gaps : SUBSET (1..MaxSequence), failed : Refs \cup {NoRef}, attempts : 0..2,
   live : SUBSET Refs, recovery : RecoveryType,
   applied : Seq(Refs), tries : [Refs -> 0..2]]

\* What was applied is in order.
Follows(e, g) ==
  IF g.interval = e.interval THEN g.sequence = e.sequence + 1
  ELSE g.interval > e.interval /\ g.sequence > e.sequence
Ordered(a) == \A k \in 1..(Len(a) - 1) : Follows(a[k], a[k + 1])

\* What was applied last is the boundary, or a Clear has come since; what the
\* feed f has retained of its interval goes on from there.
Behind(s, f) ==
  /\ s.boundary # NoRef => s.applied # <<>> /\ s.boundary = Last(s.applied)
  /\ s.applied # <<>> =>
       LET a == Last(s.applied) IN
       \/ a.interval < f.interval /\ a.sequence < f.oldest
       \/ /\ a.interval = f.interval /\ a.sequence <= f.boundary /\ f.oldest <= f.boundary
          /\ s.boundary = a

\* Evidence that will not be presented again.
Past(s, f, r) ==
  \/ r.interval < f.interval \/ r.sequence < f.oldest
  \/ s.applied # <<>> /\ r.sequence <= Last(s.applied).sequence

\* The Evidence of the interval of f that the pipeline applies next.
Due(s, f) == Ref(f.interval, IF s.boundary = NoRef THEN f.oldest ELSE s.boundary.sequence + 1)

\* What was presented and may be presented again is what failed last, and next.
Tried(s, f) ==
  \A r \in Refs : s.tries[r] > 0 =>
    Past(s, f, r) \/ (r = s.failed /\ s.tries[r] <= s.attempts /\ r = Due(s, f))

\* What is shown, while a recovery is hidden, is L.
Shows(s, L) == s.phase \in {"RECOVERING", "CANCELLED"} => s.live = L

\* A recovery in progress has projections of its own, and a pipeline that gave
\* up or was closed is not subscribed.
Coherent(s) ==
  /\ s.phase = "RECOVERING" => s.recovery.active
  /\ s.closed \/ s.phase \in {"IDLE", "CANCELLED", "FAILED"} => ~s.following
  /\ s.closed \/ s.phase = "IDLE" => ~s.restarting

\* The part of the invariant that does not depend on a subscription.
Sane(s, f) ==
  /\ s \in PipeType /\ Cardinality(s.gaps) <= MaxGaps
  /\ Ordered(s.applied) /\ Behind(s, f) /\ Tried(s, f) /\ Coherent(s)

\* The subscription is over, for good or until the restart.
LetGo(s) ==
  /\ ~s.following
  /\ s.restarting \/ s.closed \/ s.phase \in {"IDLE", "CANCELLED", "FAILED"}

\* The pipeline takes what it is told, and nothing waits.
Listens(s) == s.following /\ ~s.restarting /\ ~s.closed /\ s.gaps = {}

\* The next Evidence of the interval of f that the pipeline applies is n.
Expects(s, f, n) ==
  /\ Listens(s) /\ s.interval = f.interval
  /\ s.next = n \/ (s.next = 0 /\ s.boundary = NoRef)
  /\ IF s.boundary = NoRef THEN n = f.oldest ELSE s.boundary = Ref(f.interval, n - 1)

\* The pipeline has not heard yet that its interval was cleared.
Outdated(s, f) == Listens(s) /\ (s.boundary # NoRef => s.boundary.interval < f.interval)

\* An entry failed, and those behind it up to q have to wait for the restart.
Stuck(s, f, q) ==
  /\ ~s.following
  /\ s.phase = "FAILED" \/ (s.restarting /\ s.interval = f.interval /\ s.next \in 1..q)

\* The subscription and the pipeline agree.
Agrees(s, f) ==
  \/ LetGo(s)
  \/ f.state = "live" /\ s.phase = "LIVE" /\ Expects(s, f, f.boundary + 1)
  \/ /\ f.state = "replaying" /\ s.phase = "RECOVERING"
     /\ IF f.replay.interval = f.interval THEN Expects(s, f, f.oldest + f.replay.next)
        ELSE Outdated(s, f)

-----------------------------------------------------------------------------
(* The pipeline: what its recursive functions compute *)

\* The member of a set of one.
LEMMA TheOnly == ASSUME NEW x PROVE The({x}) = x
  BY DEF The

\* d holds what has become of the pipeline s after so many entries of p.
IsEntered(d, s, p, bad) ==
  d = [n \in 0..(p.last - p.first + 1) |->
         IF n = 0 THEN s ELSE The({applyEntry(t, Ref(p.interval, p.first + n - 1), bad) : t \in {d[n - 1]}})]

\* Such a function, at each of its arguments.
LEMMA PublicationUnfoldsAt ==
  ASSUME NEW s, NEW p, p.last - p.first + 1 \in Nat, NEW bad, NEW d, IsEntered(d, s, p, bad)
  PROVE  d[0] = s /\ \A n \in 1..(p.last - p.first + 1) : d[n] = applyEntry(d[n - 1], Ref(p.interval, p.first + n - 1), bad)
<1> DEFINE N == (p.last - p.first + 1)
<1>1. d = [n \in 0..N |-> IF n = 0 THEN s ELSE The({applyEntry(t, Ref(p.interval, p.first + n - 1), bad) : t \in {d[n - 1]}})]
  BY DEF IsEntered
<1> HIDE DEF N
<1>2. d[0] = s
  <2>1. 0 \in 0..N BY DEF N
  <2> QED BY <1>1, <2>1
<1>3. ASSUME NEW n \in 1..N PROVE d[n] = applyEntry(d[n - 1], Ref(p.interval, p.first + n - 1), bad)
  <2>1. n \in 0..N /\ n # 0 BY DEF N
  <2>2. d[n] = The({applyEntry(t, Ref(p.interval, p.first + n - 1), bad) : t \in {d[n - 1]}})
    BY <1>1, <2>1
  <2>3. {applyEntry(t, Ref(p.interval, p.first + n - 1), bad) : t \in {d[n - 1]}} = {applyEntry(d[n - 1], Ref(p.interval, p.first + n - 1), bad)}
    OBVIOUS
  <2> QED BY <2>2, <2>3, TheOnly
<1> QED BY <1>2, <1>3 DEF N

\* The recursive definition in applyPublication has a solution.
LEMMA PublicationUnfolds ==
  ASSUME NEW s, NEW p, p.last - p.first + 1 \in Nat, NEW bad
  PROVE  \E d : /\ IsEntered(d, s, p, bad)
                /\ applyPublication(s, p, bad) = d[(p.last - p.first + 1)]
                /\ d[0] = s
                /\ \A n \in 1..(p.last - p.first + 1) : d[n] = applyEntry(d[n - 1], Ref(p.interval, p.first + n - 1), bad)
<1> DEFINE N == (p.last - p.first + 1)
           Solves(d, n) == d[0] = s /\ \A k \in 1..n : d[k] = applyEntry(d[k - 1], Ref(p.interval, p.first + k - 1), bad)
           T == {n \in Nat : n <= N => \E d : Solves(d, n)}
<1> HIDE DEF N
<1>1. 0 \in T
  <2>1. Solves([k \in {0} |-> s], 0) OBVIOUS
  <2> QED BY <2>1
<1>2. ASSUME NEW n \in Nat, n \in T PROVE n + 1 \in T
  <2>1. SUFFICES ASSUME n + 1 <= N PROVE \E d : Solves(d, n + 1) BY <1>2
  <2>2. PICK d : Solves(d, n) BY <1>2, <2>1 DEF N
  <2> DEFINE g == [k \in 0..n + 1 |-> IF k = n + 1 THEN applyEntry(d[n], Ref(p.interval, p.first + (n + 1) - 1), bad) ELSE d[k]]
  <2>3. g[0] = s BY <2>2
  <2>4. ASSUME NEW k \in 1..n + 1 PROVE g[k] = applyEntry(g[k - 1], Ref(p.interval, p.first + k - 1), bad)
    <3>1. CASE k = n + 1
      <4>1. k - 1 = n /\ n \in 0..n + 1 /\ n # n + 1 BY <3>1
      <4>2. g[k] = applyEntry(d[n], Ref(p.interval, p.first + k - 1), bad) /\ g[k - 1] = d[n]
        BY <3>1, <4>1
      <4> QED BY <4>2
    <3>2. CASE k # n + 1
      <4>1. k \in 1..n /\ k - 1 \in 0..n + 1 /\ k - 1 # n + 1 BY <3>2
      <4>2. d[k] = applyEntry(d[k - 1], Ref(p.interval, p.first + k - 1), bad) BY <2>2, <4>1
      <4>3. g[k] = d[k] /\ g[k - 1] = d[k - 1] BY <3>2, <4>1
      <4> QED BY <4>2, <4>3
    <3> QED BY <3>1, <3>2
  <2> QED BY <2>3, <2>4
<1>3. N \in T
  <2> HIDE DEF T
  <2> QED BY <1>1, <1>2, Induction DEF N
<1>4. PICK d : Solves(d, N) BY <1>3 DEF N
<1> DEFINE e == [n \in 0..N |-> d[n]]
           E == CHOOSE x : IsEntered(x, s, p, bad)
<1>5. IsEntered(e, s, p, bad)
  <2>1. ASSUME NEW n \in 0..N
        PROVE  e[n] = IF n = 0 THEN s ELSE The({applyEntry(t, Ref(p.interval, p.first + n - 1), bad) : t \in {e[n - 1]}})
    <3>1. CASE n = 0 BY <1>4, <3>1
    <3>2. CASE n # 0
      <4>1. n \in 1..N /\ n - 1 \in 0..N BY <3>2 DEF N
      <4>2. d[n] = applyEntry(d[n - 1], Ref(p.interval, p.first + n - 1), bad) BY <1>4, <4>1
      <4>3. e[n] = d[n] /\ e[n - 1] = d[n - 1] BY <4>1
      <4> HIDE DEF e
      <4>4. {applyEntry(t, Ref(p.interval, p.first + n - 1), bad) : t \in {e[n - 1]}} = {d[n]}
        BY <4>2, <4>3
      <4> QED BY <3>2, <4>3, <4>4, TheOnly
    <3> QED BY <3>1, <3>2
  <2>2. e = [n \in 0..N |-> IF n = 0 THEN s ELSE The({applyEntry(t, Ref(p.interval, p.first + n - 1), bad) : t \in {e[n - 1]}})]
    BY <2>1
  <2> QED BY <2>2 DEF IsEntered, N
<1>6. IsEntered(E, s, p, bad)
  <2> HIDE DEF e
  <2> QED BY <1>5
<1>8. applyPublication(s, p, bad) = E[N] BY DEF applyPublication, IsEntered, N
<1> HIDE DEF E
<1>9. E[0] = s /\ \A n \in 1..N : E[n] = applyEntry(E[n - 1], Ref(p.interval, p.first + n - 1), bad)
  BY <1>6, PublicationUnfoldsAt DEF N
<1> QED BY <1>6, <1>8, <1>9 DEF N

\* d holds what has become of the pipeline s after so many publications of out.
IsObserved(d, s, out, bad) ==
  d = [n \in 0..Len(out) |->
         IF n = 0 THEN s ELSE The({observer(t, out[n], bad) : t \in {d[n - 1]}})]

\* Such a function, at each of its arguments.
LEMMA ObservedUnfoldsAt ==
  ASSUME NEW s, NEW out, Len(out) \in Nat, NEW bad, NEW d, IsObserved(d, s, out, bad)
  PROVE  d[0] = s /\ \A n \in 1..Len(out) : d[n] = observer(d[n - 1], out[n], bad)
<1> DEFINE N == Len(out)
<1>1. d = [n \in 0..N |-> IF n = 0 THEN s ELSE The({observer(t, out[n], bad) : t \in {d[n - 1]}})]
  BY DEF IsObserved
<1> HIDE DEF N
<1>2. d[0] = s
  <2>1. 0 \in 0..N BY DEF N
  <2> QED BY <1>1, <2>1
<1>3. ASSUME NEW n \in 1..N PROVE d[n] = observer(d[n - 1], out[n], bad)
  <2>1. n \in 0..N /\ n # 0 BY DEF N
  <2>2. d[n] = The({observer(t, out[n], bad) : t \in {d[n - 1]}}) BY <1>1, <2>1
  <2>3. {observer(t, out[n], bad) : t \in {d[n - 1]}} = {observer(d[n - 1], out[n], bad)}
    OBVIOUS
  <2> QED BY <2>2, <2>3, TheOnly
<1> QED BY <1>2, <1>3 DEF N

\* The recursive definition in Observed has a solution.
LEMMA ObservedUnfolds ==
  ASSUME NEW s, NEW out, Len(out) \in Nat, NEW bad PROVE \E d : /\ IsObserved(d, s, out, bad)
                /\ Observed(s, out, bad) = d[Len(out)]
                /\ d[0] = s
                /\ \A n \in 1..Len(out) : d[n] = observer(d[n - 1], out[n], bad)
<1> DEFINE N == Len(out)
           Solves(d, n) == d[0] = s /\ \A k \in 1..n : d[k] = observer(d[k - 1], out[k], bad)
           T == {n \in Nat : n <= N => \E d : Solves(d, n)}
<1> HIDE DEF N
<1>1. 0 \in T
  <2>1. Solves([k \in {0} |-> s], 0) OBVIOUS
  <2> QED BY <2>1
<1>2. ASSUME NEW n \in Nat, n \in T PROVE n + 1 \in T
  <2>1. SUFFICES ASSUME n + 1 <= N PROVE \E d : Solves(d, n + 1) BY <1>2
  <2>2. PICK d : Solves(d, n) BY <1>2, <2>1 DEF N
  <2> DEFINE g == [k \in 0..n + 1 |-> IF k = n + 1 THEN observer(d[n], out[n + 1], bad) ELSE d[k]]
  <2>3. g[0] = s BY <2>2
  <2>4. ASSUME NEW k \in 1..n + 1 PROVE g[k] = observer(g[k - 1], out[k], bad)
    <3>1. CASE k = n + 1
      <4>1. k - 1 = n /\ n \in 0..n + 1 /\ n # n + 1 BY <3>1
      <4>2. g[k] = observer(d[n], out[k], bad) /\ g[k - 1] = d[n] BY <3>1, <4>1
      <4> QED BY <4>2
    <3>2. CASE k # n + 1
      <4>1. k \in 1..n /\ k - 1 \in 0..n + 1 /\ k - 1 # n + 1 BY <3>2
      <4>2. d[k] = observer(d[k - 1], out[k], bad) BY <2>2, <4>1
      <4>3. g[k] = d[k] /\ g[k - 1] = d[k - 1] BY <3>2, <4>1
      <4> QED BY <4>2, <4>3
    <3> QED BY <3>1, <3>2
  <2> QED BY <2>3, <2>4
<1>3. N \in T
  <2> HIDE DEF T
  <2> QED BY <1>1, <1>2, Induction DEF N
<1>4. PICK d : Solves(d, N) BY <1>3 DEF N
<1> DEFINE e == [n \in 0..N |-> d[n]]
           E == CHOOSE x : IsObserved(x, s, out, bad)
<1>5. IsObserved(e, s, out, bad)
  <2>1. ASSUME NEW n \in 0..N
        PROVE  e[n] = IF n = 0 THEN s ELSE The({observer(t, out[n], bad) : t \in {e[n - 1]}})
    <3>1. CASE n = 0 BY <1>4, <3>1
    <3>2. CASE n # 0
      <4>1. n \in 1..N /\ n - 1 \in 0..N BY <3>2 DEF N
      <4>2. d[n] = observer(d[n - 1], out[n], bad) BY <1>4, <4>1
      <4>3. e[n] = d[n] /\ e[n - 1] = d[n - 1] BY <4>1
      <4> HIDE DEF e
      <4>4. {observer(t, out[n], bad) : t \in {e[n - 1]}} = {d[n]} BY <4>2, <4>3
      <4> QED BY <3>2, <4>3, <4>4, TheOnly
    <3> QED BY <3>1, <3>2
  <2>2. e = [n \in 0..N |-> IF n = 0 THEN s ELSE The({observer(t, out[n], bad) : t \in {e[n - 1]}})]
    BY <2>1
  <2> QED BY <2>2 DEF IsObserved, N
<1>6. IsObserved(E, s, out, bad)
  <2> HIDE DEF e
  <2> QED BY <1>5
<1>8. Observed(s, out, bad) = E[N] BY DEF Observed, IsObserved, N
<1> HIDE DEF E
<1>9. E[0] = s /\ \A n \in 1..N : E[n] = observer(E[n - 1], out[n], bad)
  BY <1>6, ObservedUnfoldsAt DEF N
<1> QED BY <1>6, <1>8, <1>9 DEF N

\* No publication changes nothing.
LEMMA ObservedNothing ==
  ASSUME NEW s, NEW out, Len(out) \in Nat, NEW bad
  PROVE  Len(out) = 0 => Observed(s, out, bad) = s
<1>1. PICK d : /\ Observed(s, out, bad) = d[Len(out)] /\ d[0] = s
               /\ \A n \in 1..Len(out) : d[n] = observer(d[n - 1], out[n], bad)
  BY ObservedUnfolds
<1> QED BY <1>1

\* One publication more is one step of the observer more.
LEMMA ObservedAppends ==
  ASSUME NEW s, NEW S, NEW out \in Seq(S), NEW p \in S, NEW bad
  PROVE  Observed(s, Append(out, p), bad) = observer(Observed(s, out, bad), p, bad)
<1> DEFINE more == Append(out, p)
           N == Len(out)
<1>1. N \in Nat /\ Len(more) = N + 1 /\ more[N + 1] = p /\ \A n \in 1..N : more[n] = out[n]
  OBVIOUS
<1> HIDE DEF more
<1>3. PICK d : /\ Observed(s, out, bad) = d[N] /\ d[0] = s
               /\ \A n \in 1..N : d[n] = observer(d[n - 1], out[n], bad)
  BY <1>1, ObservedUnfolds
<1>4. PICK e : /\ Observed(s, more, bad) = e[N + 1] /\ e[0] = s
               /\ \A n \in 1..N + 1 : e[n] = observer(e[n - 1], more[n], bad)
  BY <1>1, ObservedUnfolds
<1> HIDE DEF N
<1> DEFINE T == {n \in Nat : n <= N => d[n] = e[n]}
<1>5. 0 \in T BY <1>3, <1>4
<1>6. ASSUME NEW n \in Nat, n \in T PROVE n + 1 \in T
  <2>1. SUFFICES ASSUME n + 1 <= N PROVE d[n + 1] = e[n + 1] OBVIOUS
  <2>2. n + 1 \in 1..N /\ n + 1 \in 1..N + 1 /\ (n + 1) - 1 = n /\ d[n] = e[n]
    BY <1>1, <1>6, <2>1
  <2>3. d[n + 1] = observer(d[n], out[n + 1], bad) /\ e[n + 1] = observer(e[n], more[n + 1], bad)
    BY <1>3, <1>4, <2>2
  <2> QED BY <1>1, <2>2, <2>3
<1>7. N \in T
  <2> HIDE DEF T
  <2> QED BY <1>1, <1>5, <1>6, Induction
<1>8. e[N + 1] = observer(e[N], p, bad)
  <2>1. N + 1 \in 1..N + 1 /\ (N + 1) - 1 = N BY <1>1
  <2> QED BY <1>1, <1>4, <2>1
<1>9. d[N] = e[N] BY <1>1, <1>7
<1> QED BY <1>3, <1>4, <1>8, <1>9 DEF more

\* A pipeline that is not subscribed does not hear anything.
LEMMA DeafIsUnmoved ==
  ASSUME NEW s, ~s.following, NEW S, NEW out \in Seq(S), NEW bad
  PROVE  Observed(s, out, bad) = s
<1> DEFINE N == Len(out)
<1>1. N \in Nat OBVIOUS
<1>2. PICK d : /\ Observed(s, out, bad) = d[N] /\ d[0] = s
               /\ \A n \in 1..N : d[n] = observer(d[n - 1], out[n], bad)
  BY <1>1, ObservedUnfolds
<1> HIDE DEF N
<1> DEFINE T == {n \in Nat : n <= N => d[n] = s}
<1>3. 0 \in T BY <1>2
<1>4. ASSUME NEW n \in Nat, n \in T PROVE n + 1 \in T
  <2>1. SUFFICES ASSUME n + 1 <= N PROVE d[n + 1] = s OBVIOUS
  <2>2. n + 1 \in 1..N /\ (n + 1) - 1 = n /\ d[n] = s BY <1>1, <1>4, <2>1
  <2>3. d[n + 1] = observer(s, out[n + 1], bad) BY <1>2, <2>2
  <2> QED BY <2>3 DEF observer
<1>5. N \in T
  <2> HIDE DEF T
  <2> QED BY <1>1, <1>3, <1>4, Induction
<1> QED BY <1>1, <1>2, <1>5
-----------------------------------------------------------------------------
(* The fields of the pipeline *)

SameProgress(t, s) ==
  t.interval = s.interval /\ t.next = s.next /\ t.boundary = s.boundary /\ t.gaps = s.gaps
SameAccount(t, s) ==
  t.applied = s.applied /\ t.tries = s.tries /\ t.failed = s.failed /\ t.attempts = s.attempts
SameHold(t, s) == t.closed = s.closed /\ t.following = s.following /\ t.restarting = s.restarting
SameView(t, s) == t.phase = s.phase /\ t.live = s.live /\ t.recovery = s.recovery

\* Each field is of its type.
LEMMA PipeParts ==
  ASSUME NEW s \in PipeType
  PROVE  /\ s.phase \in Phases /\ s.running \in BOOLEAN /\ s.closed \in BOOLEAN
         /\ s.following \in BOOLEAN /\ s.restarting \in BOOLEAN
         /\ s.follower \in 0..MaxIntervals /\ s.interval \in 0..MaxIntervals
         /\ s.next \in 0..(MaxSequence + 1) /\ s.boundary \in Refs \cup {NoRef}
         /\ s.gaps \in SUBSET (1..MaxSequence) /\ s.failed \in Refs \cup {NoRef}
         /\ s.attempts \in 0..2 /\ s.live \in SUBSET Refs /\ s.recovery \in RecoveryType
         /\ s.applied \in Seq(Refs) /\ s.tries \in [Refs -> 0..2]
  BY DEF PipeType
-----------------------------------------------------------------------------
(* The panel's projections, and the phase *)

\* The projections change with the phase, and nothing else does.
LEMMA StateHandled ==
  ASSUME NEW s \in PipeType PROVE LET t == handleFollowerState(s) IN
         /\ t \in PipeType /\ SameProgress(t, s) /\ SameAccount(t, s) /\ SameHold(t, s)
         /\ t.phase = s.phase
         /\ s.phase = "RECOVERING" => t.recovery.active
         /\ s.phase \in {"RECOVERING", "CANCELLED"} => t.live = s.live
<1> DEFINE t == handleFollowerState(s)
           i == IF s.follower # 0 THEN s.follower ELSE s.interval
           fresh == [active |-> TRUE, interval |-> i, evidence |-> {}]
           replaced == s.recovery.interval # 0 /\ i # 0 /\ s.recovery.interval # i
           P == s.phase = "RECOVERING" /\ (~s.recovery.active \/ replaced)
           Q == s.phase = "RECOVERING" /\ s.recovery.active /\ s.recovery.interval = 0
           R == s.phase = "LIVE" /\ s.recovery.active
           S == s.phase \in {"FAILED", "CANCELLED"}
           bound == [s.recovery EXCEPT !.interval = i]
<1>1. /\ s.phase \in Phases /\ s.live \in SUBSET Refs /\ s.recovery \in RecoveryType
      /\ i \in 0..MaxIntervals
  BY PipeParts
<1>2. fresh \in RecoveryType /\ bound \in RecoveryType /\ NoRecovery \in RecoveryType
      /\ bound.active = s.recovery.active /\ s.recovery.evidence \in SUBSET Refs
  BY <1>1, FeedAssumption DEF RecoveryType, NoRecovery
<1>3. t = CASE P -> [s EXCEPT !.recovery = fresh]
            [] Q -> [s EXCEPT !.recovery.interval = i]
            [] R -> [s EXCEPT !.live = s.recovery.evidence, !.recovery = NoRecovery]
            [] S -> [s EXCEPT !.recovery = NoRecovery]
            [] OTHER -> s
  BY DEF handleFollowerState
<1>4. [s EXCEPT !.recovery.interval = i] = [s EXCEPT !.recovery = bound] OBVIOUS
<1>5. fresh.active OBVIOUS
<1>6. P => s.phase = "RECOVERING" /\ ~Q /\ ~R /\ ~S OBVIOUS
<1>7. Q => s.phase = "RECOVERING" /\ s.recovery.active /\ ~R /\ ~S OBVIOUS
<1>8. R => s.phase = "LIVE" /\ ~S OBVIOUS
<1>9. S => s.phase # "RECOVERING" OBVIOUS
<1>10. ~P /\ ~Q /\ ~R /\ ~S => (s.phase = "RECOVERING" => s.recovery.active) OBVIOUS
<1> HIDE DEF t, fresh, bound, i, P, Q, R, S
<1> DEFINE Goal ==
      /\ t \in PipeType /\ SameProgress(t, s) /\ SameAccount(t, s) /\ SameHold(t, s)
      /\ t.phase = s.phase
      /\ s.phase = "RECOVERING" => t.recovery.active
      /\ s.phase \in {"RECOVERING", "CANCELLED"} => t.live = s.live
<1>11. ASSUME P PROVE Goal
  <2>1. t = [s EXCEPT !.recovery = fresh] BY <1>3, <1>11, <1>6
  <2> QED BY <1>1, <1>2, <1>5, <2>1 DEF PipeType, SameProgress, SameAccount, SameHold
<1>12. ASSUME ~P /\ Q PROVE Goal
  <2>1. t = [s EXCEPT !.recovery = bound] BY <1>3, <1>12, <1>7, <1>4
  <2> QED BY <1>1, <1>2, <1>7, <1>12, <2>1 DEF PipeType, SameProgress, SameAccount, SameHold
<1>13. ASSUME ~P /\ ~Q /\ R PROVE Goal
  <2>1. t = [s EXCEPT !.live = s.recovery.evidence, !.recovery = NoRecovery]
    BY <1>3, <1>13, <1>8
  <2>2. s.phase = "LIVE" BY <1>8, <1>13
  <2> QED BY <1>1, <1>2, <2>1, <2>2 DEF PipeType, SameProgress, SameAccount, SameHold
<1>14. ASSUME ~P /\ ~Q /\ ~R /\ S PROVE Goal
  <2>1. t = [s EXCEPT !.recovery = NoRecovery] BY <1>3, <1>14
  <2> QED BY <1>1, <1>2, <1>9, <1>14, <2>1 DEF PipeType, SameProgress, SameAccount, SameHold
<1>15. ASSUME ~P /\ ~Q /\ ~R /\ ~S PROVE Goal
  <2>1. t = s BY <1>3, <1>15
  <2> QED BY <1>10, <1>15, <2>1 DEF SameProgress, SameAccount, SameHold
<1> QED BY <1>11, <1>12, <1>13, <1>14, <1>15 DEF t

\* A change of phase.
LEMMA PhaseSet ==
  ASSUME NEW s \in PipeType, NEW phase \in Phases PROVE LET t == setFollowerPhase(s, phase) IN
         /\ t \in PipeType /\ SameProgress(t, s) /\ SameAccount(t, s) /\ SameHold(t, s)
         /\ t.phase = phase
         /\ phase = "RECOVERING" => t.recovery.active
         /\ phase \in {"RECOVERING", "CANCELLED"} => t.live = s.live
<1> DEFINE u == [s EXCEPT !.phase = phase]
           t == setFollowerPhase(s, phase)
<1>1. t = handleFollowerState(u)
  <2>1. {handleFollowerState(x) : x \in {u}} = {handleFollowerState(u)} OBVIOUS
  <2> QED BY <2>1, TheOnly DEF setFollowerPhase
<1>2. /\ u \in PipeType /\ SameProgress(u, s) /\ SameAccount(u, s) /\ SameHold(u, s)
      /\ u.phase = phase /\ u.live = s.live
  <2>1. s.live \in SUBSET Refs /\ s.recovery \in RecoveryType BY PipeParts
  <2> QED BY <2>1 DEF PipeType, SameProgress, SameAccount, SameHold
<1> HIDE DEF u, t
<1>3. /\ t \in PipeType /\ SameProgress(t, u) /\ SameAccount(t, u) /\ SameHold(t, u)
      /\ t.phase = u.phase
      /\ u.phase = "RECOVERING" => t.recovery.active
      /\ u.phase \in {"RECOVERING", "CANCELLED"} => t.live = u.live
  BY <1>1, <1>2, StateHandled
<1>4. SameProgress(t, s) /\ SameAccount(t, s) /\ SameHold(t, s)
  BY <1>2, <1>3 DEF SameProgress, SameAccount, SameHold
<1> QED BY <1>2, <1>3, <1>4 DEF t

\* Evidence is added to the projections that the phase builds.
LEMMA EvidenceHandled ==
  ASSUME NEW s \in PipeType, NEW e \in Refs PROVE LET t == handleCommittedEvidence(s, e) IN
         /\ t \in PipeType /\ SameProgress(t, s) /\ SameAccount(t, s) /\ SameHold(t, s)
         /\ t.phase = s.phase /\ t.recovery.active = s.recovery.active
         /\ s.recovery.active => t.live = s.live
<1> DEFINE t == handleCommittedEvidence(s, e)
           more == [s.recovery EXCEPT !.evidence = @ \cup {e}]
           wider == s.live \cup {e}
<1>1. s.live \in SUBSET Refs /\ s.recovery \in RecoveryType /\ s.phase \in Phases BY PipeParts
<1>2. wider \in SUBSET Refs BY <1>1
<1>3. more \in RecoveryType /\ more.active = s.recovery.active BY <1>1 DEF RecoveryType
<1>4. s.recovery.active => t = [s EXCEPT !.recovery = more] BY DEF handleCommittedEvidence
<1>5. ~s.recovery.active => t = [s EXCEPT !.live = wider] BY DEF handleCommittedEvidence
<1> HIDE DEF t, more, wider
<1> DEFINE Goal ==
      /\ t \in PipeType /\ SameProgress(t, s) /\ SameAccount(t, s) /\ SameHold(t, s)
      /\ t.phase = s.phase /\ t.recovery.active = s.recovery.active
      /\ s.recovery.active => t.live = s.live
<1>6. ASSUME s.recovery.active PROVE Goal
  BY <1>1, <1>3, <1>4, <1>6 DEF PipeType, SameProgress, SameAccount, SameHold
<1>7. ASSUME ~s.recovery.active PROVE Goal
  BY <1>1, <1>2, <1>5, <1>7 DEF PipeType, SameProgress, SameAccount, SameHold
<1> QED BY <1>6, <1>7 DEF t

-----------------------------------------------------------------------------
(* What keeps the account *)

\* The part of the invariant that is about the account.
LEMMA SaneKept ==
  ASSUME NEW s, NEW f, Sane(s, f), NEW t \in PipeType, SameAccount(t, s), t.boundary = s.boundary,
         Cardinality(t.gaps) <= MaxGaps, Coherent(t)
  PROVE  Sane(t, f)
<1>1. /\ t.applied = s.applied /\ t.tries = s.tries /\ t.failed = s.failed /\ t.attempts = s.attempts
      /\ t.boundary = s.boundary
  BY DEF SameAccount
<1>2. Ordered(t.applied) BY <1>1 DEF Sane
<1>3. Behind(t, f) BY <1>1 DEF Sane, Behind
<1>4. Tried(t, f) BY <1>1 DEF Sane, Tried, Past, Due
<1> QED BY <1>2, <1>3, <1>4 DEF Sane

\* What is retained moves on.
Advances(f, g) ==
  /\ f.interval <= g.interval /\ f.oldest <= g.oldest /\ f.boundary <= g.boundary
  /\ f.interval = g.interval => (f.oldest <= f.boundary => g.oldest <= g.boundary)
  /\ f.interval < g.interval => f.boundary < g.oldest

\* The last of what was applied.
LEMMA LastApplied ==
  ASSUME NEW s \in PipeType, s.applied # <<>> PROVE LET a == Last(s.applied) IN
         /\ a \in Refs /\ a # NoRef /\ a.interval \in Nat /\ a.sequence \in Nat /\ a.sequence >= 1
         /\ Len(s.applied) \in Nat /\ Len(s.applied) >= 1 /\ a = s.applied[Len(s.applied)]
<1>1. s.applied \in Seq(Refs) BY PipeParts
<1>2. Len(s.applied) \in Nat /\ Len(s.applied) >= 1 /\ s.applied[Len(s.applied)] \in Refs
  BY <1>1
<1>3. \A r \in Refs : r # NoRef /\ r.interval \in Nat /\ r.sequence \in Nat /\ r.sequence >= 1
  BY FeedAssumption DEF Refs, NoRef
<1> QED BY <1>2, <1>3 DEF Last

\* A member of Refs.
LEMMA RefFacts ==
  ASSUME NEW r \in Refs
  PROVE  /\ r # NoRef /\ r.interval \in Nat /\ r.sequence \in Nat /\ r.sequence >= 1
         /\ r.interval \in 1..MaxIntervals /\ r.sequence \in 1..MaxSequence
         /\ r = Ref(r.interval, r.sequence)
  BY FeedAssumption DEF Refs, NoRef, Ref

\* Retention, commits and Clears keep the account.
LEMMA SaneAdvances ==
  ASSUME NEW s, NEW f \in FeedType, NEW g \in FeedType, Sane(s, f), Advances(f, g)
  PROVE  Sane(s, g)
<1>1. /\ f.interval \in Nat /\ f.oldest \in Nat /\ f.boundary \in Nat
      /\ g.interval \in Nat /\ g.oldest \in Nat /\ g.boundary \in Nat
  BY FeedFields
<1>2. s \in PipeType /\ Behind(s, f) /\ Tried(s, f) BY DEF Sane
<1>3. Behind(s, g)
  <2>1. SUFFICES ASSUME s.applied # <<>> PROVE LET a == Last(s.applied) IN
                        \/ a.interval < g.interval /\ a.sequence < g.oldest
                        \/ /\ a.interval = g.interval /\ a.sequence <= g.boundary /\ g.oldest <= g.boundary
                           /\ s.boundary = a
    BY <1>2 DEF Behind
  <2> DEFINE a == Last(s.applied)
  <2>2. a.interval \in Nat /\ a.sequence \in Nat BY <1>2, <2>1, LastApplied
  <2>3. \/ a.interval < f.interval /\ a.sequence < f.oldest
        \/ /\ a.interval = f.interval /\ a.sequence <= f.boundary /\ f.oldest <= f.boundary
           /\ s.boundary = a
    BY <1>2, <2>1 DEF Behind
  <2> HIDE DEF a
  <2>4. CASE a.interval < f.interval /\ a.sequence < f.oldest
    BY <1>1, <2>2, <2>4 DEF Advances, a
  <2>5. CASE /\ a.interval = f.interval /\ a.sequence <= f.boundary /\ f.oldest <= f.boundary
             /\ s.boundary = a
    <3>1. CASE f.interval = g.interval BY <1>1, <2>2, <2>5, <3>1 DEF Advances, a
    <3>2. CASE f.interval # g.interval BY <1>1, <2>2, <2>5, <3>2 DEF Advances, a
    <3> QED BY <3>1, <3>2
  <2> QED BY <2>3, <2>4, <2>5
<1>4. Tried(s, g)
  <2>1. SUFFICES ASSUME NEW r \in Refs, s.tries[r] > 0
                 PROVE  Past(s, g, r) \/ (r = s.failed /\ s.tries[r] <= s.attempts /\ r = Due(s, g))
    BY DEF Tried
  <2>2. r.interval \in Nat /\ r.sequence \in Nat BY RefFacts
  <2>3. CASE Past(s, f, r) BY <1>1, <2>2, <2>3 DEF Past, Advances
  <2>4. CASE r = s.failed /\ s.tries[r] <= s.attempts /\ r = Due(s, f)
    <3>1. r.interval = f.interval /\ (s.boundary = NoRef => r.sequence = f.oldest)
      BY <2>4 DEF Due, Ref
    <3>2. CASE f.interval # g.interval BY <1>1, <3>1, <3>2 DEF Past, Advances
    <3>3. CASE f.interval = g.interval /\ s.boundary = NoRef /\ f.oldest # g.oldest
      BY <1>1, <3>1, <3>3 DEF Past, Advances
    <3>4. CASE f.interval = g.interval /\ (s.boundary # NoRef \/ f.oldest = g.oldest)
      BY <2>4, <3>4 DEF Due
    <3> QED BY <3>2, <3>3, <3>4
  <2> QED BY <1>2, <2>1, <2>3, <2>4 DEF Tried
<1> QED BY <1>3, <1>4 DEF Sane

\* What is due has not been applied.
LEMMA DueIsAhead ==
  ASSUME NEW s, NEW f \in FeedType, Sane(s, f), NEW e \in Refs, e = Due(s, f), e.sequence >= f.oldest
  PROVE  /\ e.interval = f.interval /\ ~Past(s, f, e)
         /\ s.applied # <<>> => Last(s.applied).sequence < e.sequence /\ Follows(Last(s.applied), e)
<1>1. f.interval \in Nat /\ f.oldest \in Nat /\ f.boundary \in Nat BY FeedFields
<1>2. s \in PipeType /\ Behind(s, f) BY DEF Sane
<1>3. e.interval = f.interval /\ e.sequence \in Nat /\ e.interval \in Nat
      /\ e.sequence = IF s.boundary = NoRef THEN f.oldest ELSE s.boundary.sequence + 1
  BY RefFacts DEF Due, Ref
<1>4. ASSUME s.applied # <<>>
      PROVE  Last(s.applied).sequence < e.sequence /\ Follows(Last(s.applied), e)
  <2> DEFINE a == Last(s.applied)
  <2>1. a # NoRef /\ a.interval \in Nat /\ a.sequence \in Nat BY <1>2, <1>4, LastApplied
  <2>2. /\ s.boundary # NoRef => s.boundary = a
        /\ \/ a.interval < f.interval /\ a.sequence < f.oldest
           \/ a.interval = f.interval /\ s.boundary = a
    BY <1>2, <1>4 DEF Behind
  <2> HIDE DEF a
  <2>3. CASE s.boundary = NoRef
    <3>1. a.interval < f.interval /\ a.sequence < f.oldest BY <2>1, <2>2, <2>3
    <3> QED BY <1>1, <1>3, <2>1, <2>3, <3>1 DEF Follows, a
  <2>4. CASE s.boundary # NoRef
    <3>1. s.boundary = a /\ e.sequence = a.sequence + 1 BY <1>3, <2>2, <2>4
    <3>2. a.interval < f.interval \/ a.interval = f.interval BY <2>2
    <3> QED BY <1>1, <1>3, <2>1, <3>1, <3>2 DEF Follows, a
  <2> QED BY <2>3, <2>4
<1>5. ~Past(s, f, e)
  <2>1. ~(e.interval < f.interval) /\ ~(e.sequence < f.oldest) BY <1>1, <1>3
  <2>2. s.applied # <<>> => ~(e.sequence <= Last(s.applied).sequence)
    BY <1>2, <1>3, <1>4, LastApplied
  <2> QED BY <2>1, <2>2 DEF Past
<1> QED BY <1>3, <1>4, <1>5
-----------------------------------------------------------------------------
(* One entry *)

\* A pipeline that gives up keeps its account.
LEMMA FollowerFails ==
  ASSUME NEW s, NEW f, Sane(s, f) PROVE LET t == failFollower(s) IN
         /\ Sane(t, f) /\ SameProgress(t, s) /\ SameAccount(t, s)
         /\ ~t.following /\ t.restarting = s.restarting /\ (t.phase = "FAILED" \/ s.closed)
         /\ \A L : Shows(s, L) => Shows(t, L)
<1> DEFINE t == failFollower(s)
           Goal == /\ Sane(t, f) /\ SameProgress(t, s) /\ SameAccount(t, s)
                   /\ ~t.following /\ t.restarting = s.restarting /\ (t.phase = "FAILED" \/ s.closed)
                   /\ \A L : Shows(s, L) => Shows(t, L)
<1>1. s \in PipeType /\ Coherent(s) /\ Cardinality(s.gaps) <= MaxGaps BY DEF Sane
<1>2. ASSUME s.phase = "FAILED" \/ s.closed PROVE Goal
  <2>1. t = s BY <1>2 DEF failFollower
  <2>2. ~s.following BY <1>1, <1>2 DEF Coherent
  <2> HIDE DEF t
  <2> QED BY <1>2, <2>1, <2>2 DEF SameProgress, SameAccount
<1>3. ASSUME ~(s.phase = "FAILED" \/ s.closed) PROVE Goal
  <2> DEFINE u == setFollowerPhase(s, "FAILED")
  <2>1. t = [u EXCEPT !.following = FALSE] BY <1>3 DEF failFollower, unsubscribeCurrent
  <2>2. /\ u \in PipeType /\ SameProgress(u, s) /\ SameAccount(u, s) /\ SameHold(u, s)
        /\ u.phase = "FAILED"
    <3>1. "FAILED" \in Phases BY DEF Phases
    <3> QED BY <1>1, <3>1, PhaseSet
  <2> HIDE DEF t, u
  <2>3. /\ t \in PipeType /\ SameProgress(t, u) /\ SameAccount(t, u)
        /\ t.phase = u.phase /\ ~t.following /\ t.restarting = u.restarting /\ t.closed = u.closed
    BY <2>1, <2>2 DEF PipeType, SameProgress, SameAccount
  <2>4. SameProgress(t, s) /\ SameAccount(t, s) /\ t.restarting = s.restarting /\ t.closed = s.closed
    BY <2>2, <2>3 DEF SameProgress, SameAccount, SameHold
  <2>5. Coherent(t) BY <1>3, <2>2, <2>3, <2>4 DEF Coherent
  <2>6. Sane(t, f) BY <1>1, <2>3, <2>4, <2>5, SaneKept DEF SameProgress
  <2>7. \A L : Shows(t, L) BY <2>2, <2>3 DEF Shows
  <2> QED BY <2>2, <2>3, <2>4, <2>6, <2>7
<1> QED BY <1>2, <1>3 DEF t

\* The phases in which a pipeline is subscribed.
Following == {"RECOVERING", "LIVE"}

\* An entry at which the observer throws: the pipeline restarts behind the
\* entry before it.
LEMMA EntryFails ==
  ASSUME NEW s, NEW f \in FeedType, Sane(s, f), Listens(s), s.phase \in Following,
         NEW e \in Refs, e = Due(s, f), e.sequence >= f.oldest, ~(s.failed = e /\ s.attempts >= 2)
  PROVE  LET t == handleObserverFailure(Presented(s, e), e) IN
         /\ Sane(t, f) /\ SameProgress(t, s)
         /\ ~t.following /\ t.restarting /\ \A L : Shows(s, L) => Shows(t, L)
<1> DEFINE k == IF s.tries[e] < 3 THEN s.tries[e] + 1 ELSE s.tries[e]
           a == IF s.failed = e THEN s.attempts + 1 ELSE 1
           more == [s.tries EXCEPT ![e] = k]
           t == handleObserverFailure(Presented(s, e), e)
<1>1. s \in PipeType /\ Coherent(s) /\ Cardinality(s.gaps) <= MaxGaps /\ Ordered(s.applied)
      /\ Behind(s, f) /\ Tried(s, f)
  BY DEF Sane
<1>2. s.tries \in [Refs -> 0..2] /\ s.attempts \in 0..2 /\ s.tries[e] \in 0..2
  BY <1>1, PipeParts
<1>3. e.interval = f.interval /\ ~Past(s, f, e) BY DueIsAhead
<1>4. s.tries[e] > 0 => s.failed = e /\ s.tries[e] <= s.attempts BY <1>1, <1>3 DEF Tried
<1>5. a \in 1..2 /\ k \in 0..2 /\ k <= a BY <1>2, <1>4
<1>6. more \in [Refs -> 0..2] /\ more[e] = k /\ \A r \in Refs : r # e => more[r] = s.tries[r]
  BY <1>2, <1>5
<1>7. t = [s EXCEPT !.tries = more, !.failed = e, !.attempts = a, !.following = FALSE, !.restarting = TRUE]
  <2> DEFINE u == Presented(s, e)
             w == [u EXCEPT !.failed = e, !.attempts = a]
  <2>1. u = [s EXCEPT !.tries = more] BY DEF Presented
  <2>2. u.failed = s.failed /\ u.attempts = s.attempts BY <2>1, <1>1 DEF PipeType
  <2>3. t = scheduleRestart(w) BY <2>2, <1>5 DEF handleObserverFailure
  <2>4. w = [s EXCEPT !.tries = more, !.failed = e, !.attempts = a] BY <2>1, <1>1 DEF PipeType
  <2> HIDE DEF u
  <2>5. ~w.closed /\ ~w.restarting /\ w.phase = s.phase
    <3> HIDE DEF w, a, more
    <3> QED BY <2>4, <1>1 DEF PipeType, Listens
  <2>6. t = [[w EXCEPT !.following = FALSE] EXCEPT !.restarting = TRUE]
    <3> HIDE DEF w
    <3> QED BY <2>3, <2>5 DEF scheduleRestart, unsubscribeCurrent, Following
  <2> HIDE DEF w, a, more
  <2> QED BY <2>4, <2>6, <1>1 DEF PipeType
<1> HIDE DEF k, a, more, t
<1>8. /\ t \in PipeType /\ SameProgress(t, s) /\ SameView(t, s)
      /\ t.applied = s.applied /\ t.tries = more /\ t.failed = e /\ t.attempts = a
      /\ ~t.following /\ t.restarting /\ t.closed = s.closed
  <2>1. a \in 0..2 /\ e \in Refs \cup {NoRef} BY <1>5
  <2> QED BY <1>1, <1>6, <1>7, <2>1 DEF PipeType, SameProgress, SameView
<1>9. Ordered(t.applied) BY <1>1, <1>8
<1>10. Behind(t, f) BY <1>1, <1>8 DEF Behind, SameProgress
<1>11. Tried(t, f)
  <2>1. SUFFICES ASSUME NEW r \in Refs, t.tries[r] > 0
                 PROVE  Past(t, f, r) \/ (r = t.failed /\ t.tries[r] <= t.attempts /\ r = Due(t, f))
    BY DEF Tried
  <2>2. Due(t, f) = Due(s, f) /\ \A x : Past(t, f, x) = Past(s, f, x)
    BY <1>8 DEF Due, Past, SameProgress
  <2>3. CASE r = e BY <1>5, <1>6, <1>8, <2>2, <2>3
  <2>4. CASE r # e
    <3>1. s.tries[r] > 0 BY <1>6, <1>8, <2>1, <2>4
    <3> QED BY <1>1, <2>2, <2>4, <3>1 DEF Tried
  <2> QED BY <2>3, <2>4
<1>12. Coherent(t) BY <1>1, <1>8 DEF Coherent, SameView, Listens, Following
<1>13. \A L : Shows(s, L) => Shows(t, L) BY <1>8 DEF Shows, SameView
<1>14. Cardinality(t.gaps) <= MaxGaps BY <1>1, <1>8 DEF SameProgress
<1> QED BY <1>8, <1>9, <1>10, <1>11, <1>12, <1>13, <1>14 DEF Sane, t

\* An entry that the observer accepts.
LEMMA EntryApplied ==
  ASSUME NEW s, NEW f \in FeedType, Sane(s, f), s.phase \in Following,
         NEW e \in Refs, e = Due(s, f), e.sequence >= f.oldest, e.sequence <= f.boundary,
         ~(s.failed = e /\ s.attempts >= 2)
  PROVE  LET t == applyOne(s, e) IN
         /\ Sane(t, f) /\ SameHold(t, s) /\ t.phase = s.phase
         /\ t.interval = e.interval /\ t.next = e.sequence + 1 /\ t.boundary = e /\ t.gaps = s.gaps
         /\ \A L : Shows(s, L) => Shows(t, L)
<1> DEFINE k == IF s.tries[e] < 3 THEN s.tries[e] + 1 ELSE s.tries[e]
           more == [s.tries EXCEPT ![e] = k]
           u == Presented(s, e)
           w == handleCommittedEvidence(u, e)
           t == applyOne(s, e)
           longer == Append(s.applied, e)
<1>1. s \in PipeType /\ Coherent(s) /\ Cardinality(s.gaps) <= MaxGaps /\ Ordered(s.applied)
      /\ Behind(s, f) /\ Tried(s, f)
  BY DEF Sane
<1>2. s.tries \in [Refs -> 0..2] /\ s.attempts \in 0..2 /\ s.tries[e] \in 0..2 /\ s.applied \in Seq(Refs)
  BY <1>1, PipeParts
<1>3. /\ e.interval = f.interval /\ ~Past(s, f, e)
      /\ s.applied # <<>> => Last(s.applied).sequence < e.sequence /\ Follows(Last(s.applied), e)
  BY DueIsAhead
<1>4. s.tries[e] <= 1 BY <1>1, <1>2, <1>3 DEF Tried
<1>5. k \in 0..2 BY <1>2, <1>4
<1>6. more \in [Refs -> 0..2] /\ \A r \in Refs : r # e => more[r] = s.tries[r] BY <1>2, <1>5
<1>7. u = [s EXCEPT !.tries = more] BY DEF Presented
<1>8. t = [w EXCEPT !.boundary = e, !.interval = e.interval, !.next = e.sequence + 1, !.applied = Append(@, e)]
  BY DEF applyOne
<1> HIDE DEF k, more, u, w, t, longer
<1>9. /\ u \in PipeType /\ SameProgress(u, s) /\ SameHold(u, s) /\ SameView(u, s)
      /\ u.applied = s.applied /\ u.tries = more /\ u.failed = s.failed /\ u.attempts = s.attempts
  BY <1>1, <1>6, <1>7 DEF PipeType, SameProgress, SameHold, SameView
<1>10. /\ w \in PipeType /\ SameProgress(w, u) /\ SameAccount(w, u) /\ SameHold(w, u)
       /\ w.phase = u.phase /\ w.recovery.active = u.recovery.active
       /\ u.recovery.active => w.live = u.live
  BY <1>9, EvidenceHandled DEF w
<1>11. w.applied = s.applied /\ longer = Append(w.applied, e) /\ longer \in Seq(Refs)
  BY <1>2, <1>9, <1>10 DEF SameAccount, longer
<1>12. e.interval \in 0..MaxIntervals /\ e.sequence + 1 \in 0..(MaxSequence + 1) /\ e \in Refs \cup {NoRef}
       /\ e # NoRef /\ e.sequence \in Nat /\ e.interval \in Nat
  BY RefFacts, FeedAssumption
<1>13. /\ t \in PipeType /\ SameHold(t, w) /\ SameView(t, w)
       /\ t.interval = e.interval /\ t.next = e.sequence + 1 /\ t.boundary = e /\ t.gaps = w.gaps
       /\ t.applied = longer /\ t.tries = w.tries /\ t.failed = w.failed /\ t.attempts = w.attempts
  BY <1>8, <1>10, <1>11, <1>12 DEF PipeType, SameHold, SameView
<1>14. /\ SameHold(t, s) /\ t.phase = s.phase /\ t.gaps = s.gaps
       /\ t.tries = more /\ t.failed = s.failed /\ t.attempts = s.attempts
       /\ t.recovery.active = s.recovery.active
       /\ s.recovery.active => t.live = s.live
  BY <1>9, <1>10, <1>13 DEF SameHold, SameView, SameProgress, SameAccount
<1>15. longer # <<>> /\ Last(longer) = e
  <2>1. \A q \in Seq(Refs) : LET m == Append(q, e) IN m # <<>> /\ m[Len(m)] = e OBVIOUS
  <2> QED BY <1>2, <2>1 DEF longer, Last
<1>16. Ordered(longer)
  <2>1. SUFFICES ASSUME NEW j \in 1..(Len(longer) - 1) PROVE Follows(longer[j], longer[j + 1])
    BY DEF Ordered
  <2> DEFINE n == Len(s.applied)
  <2>2. n \in Nat /\ Len(longer) = n + 1 /\ longer[n + 1] = e /\ \A i \in 1..n : longer[i] = s.applied[i]
    BY <1>2 DEF longer
  <2> HIDE DEF n
  <2>3. j \in 1..n /\ longer[j] = s.applied[j] BY <2>2
  <2>4. CASE j = n
    <3>1. n = Len(s.applied) /\ n >= 1 BY <2>3, <2>4 DEF n
    <3>2. s.applied # <<>> /\ Last(s.applied) = s.applied[n] BY <1>2, <3>1 DEF Last
    <3> QED BY <1>3, <2>2, <2>3, <2>4, <3>2
  <2>5. CASE j # n
    <3>1. j \in 1..(n - 1) /\ j + 1 \in 1..n BY <2>2, <2>3, <2>5
    <3>2. Follows(s.applied[j], s.applied[j + 1]) BY <1>1, <3>1 DEF Ordered, n
    <3> QED BY <2>2, <2>3, <3>1, <3>2
  <2> QED BY <2>4, <2>5
<1>17. Behind(t, f)
  <2>1. f.oldest \in Nat /\ f.boundary \in Nat /\ f.interval \in Nat BY FeedFields
  <2>2. f.oldest <= f.boundary BY <1>12, <2>1
  <2> QED BY <1>3, <1>13, <1>15, <2>2 DEF Behind
<1>18. Tried(t, f)
  <2>1. SUFFICES ASSUME NEW r \in Refs, t.tries[r] > 0 PROVE Past(t, f, r) BY DEF Tried
  <2>2. r.sequence \in Nat /\ r.interval \in Nat BY RefFacts
  <2>3. CASE r = e
    <3>1. r.sequence <= Last(t.applied).sequence BY <1>13, <1>15, <2>2, <2>3
    <3> QED BY <1>13, <1>15, <3>1 DEF Past
  <2>4. CASE r # e
    <3>1. s.tries[r] > 0 BY <1>6, <1>14, <2>1, <2>4
    <3>2. Past(s, f, r) BY <1>1, <2>4, <3>1 DEF Tried
    <3>3. s.applied # <<>> /\ r.sequence <= Last(s.applied).sequence => r.sequence <= e.sequence
      <4>1. s.applied # <<>> => Last(s.applied).sequence \in Nat BY <1>1, LastApplied
      <4> QED BY <1>3, <1>12, <2>2, <4>1
    <3> QED BY <1>13, <1>15, <3>2, <3>3 DEF Past
  <2> QED BY <2>3, <2>4
<1>19. Coherent(t) BY <1>1, <1>14 DEF Coherent, SameHold
<1>20. \A L : Shows(s, L) => Shows(t, L)
  <2>1. s.phase = "RECOVERING" => s.recovery.active BY <1>1 DEF Coherent
  <2> QED BY <1>14, <2>1 DEF Shows, Following
<1> QED BY <1>1, <1>13, <1>14, <1>16, <1>17, <1>18, <1>19, <1>20 DEF Sane, t

\* Without gaps only the entry itself is applied.
LEMMA AppliesOne ==
  ASSUME NEW s \in PipeType, s.gaps = {}, NEW e \in Refs, NEW bad \in Nat
  PROVE  AppliedWithWaiting(s, e, bad) =
           IF bad = e.sequence THEN handleObserverFailure(Presented(s, e), e) ELSE applyOne(s, e)
<1> DEFINE run == {e.sequence} \cup {g \in s.gaps : (e.sequence + 1)..g \subseteq s.gaps}
           done == {g \in run : bad \notin e.sequence..g}
           C == Cardinality(done)
           A == [s EXCEPT !.gaps = @ \ (done \cup {bad})]
           Solves(x) == x = [n \in 0..C |->
             IF n = 0 THEN A
             ELSE The({applyOne(u, Ref(e.interval, e.sequence + n - 1)) : u \in {x[n - 1]}})]
           all == CHOOSE x : Solves(x)
           t == all[C]
<1>1. AppliedWithWaiting(s, e, bad) =
        IF bad \in run THEN handleObserverFailure(Presented(t, Ref(e.interval, bad)), e) ELSE t
  BY DEF AppliedWithWaiting
<1>2. e.sequence \in Nat /\ e = Ref(e.interval, e.sequence) BY RefFacts
<1>3. run = {e.sequence} OBVIOUS
<1>4. e.sequence..e.sequence = {e.sequence} BY <1>2
<1>5. A = s BY DEF PipeType
<1> HIDE DEF A
<1>6. CASE bad = e.sequence
  <2>1. done = {} BY <1>3, <1>4, <1>6
  <2>2. C = 0 BY <2>1, FS_EmptySet
  <2>3. Solves([n \in {0} |-> A]) BY <2>2
  <2>4. Solves(all)
    <3> HIDE DEF Solves
    <3> QED BY <2>3
  <2> HIDE DEF all
  <2>5. all[0] = A
    <3> HIDE DEF done
    <3> QED BY <2>2, <2>4
  <2> QED BY <1>1, <1>2, <1>3, <1>5, <1>6, <2>2, <2>5
<1>7. CASE bad # e.sequence
  <2>1. done = {e.sequence} BY <1>3, <1>4, <1>7
  <2>2. C = 1 BY <2>1, FS_Singleton
  <2> DEFINE B == applyOne(A, e)
             F == [n \in 0..1 |-> IF n = 0 THEN A ELSE B]
  <2>3. Solves(F)
    <3>1. F[0] = A /\ F[1] = B OBVIOUS
    <3> HIDE DEF F, B
    <3>2. {applyOne(u, Ref(e.interval, e.sequence + 1 - 1)) : u \in {F[1 - 1]}} = {B}
      BY <1>2, <3>1 DEF B
    <3>3. \A n \in 0..1 : F[n] = IF n = 0 THEN A
             ELSE The({applyOne(u, Ref(e.interval, e.sequence + n - 1)) : u \in {F[n - 1]}})
      <4>1. The({applyOne(u, Ref(e.interval, e.sequence + 1 - 1)) : u \in {F[1 - 1]}}) = B
        BY <3>2, TheOnly
      <4>2. \A n \in 0..1 : n = 0 \/ n = 1 OBVIOUS
      <4> QED BY <3>1, <4>1, <4>2
    <3>4. F = [n \in 0..1 |-> IF n = 0 THEN A
             ELSE The({applyOne(u, Ref(e.interval, e.sequence + n - 1)) : u \in {F[n - 1]}})]
      BY <3>3 DEF F
    <3> QED BY <2>2, <3>4
  <2> HIDE DEF F
  <2>4. Solves(all)
    <3> HIDE DEF Solves
    <3> QED BY <2>3
  <2> HIDE DEF all
  <2>5. all = [n \in 0..1 |-> IF n = 0 THEN A
             ELSE The({applyOne(u, Ref(e.interval, e.sequence + n - 1)) : u \in {all[n - 1]}})]
    BY <2>2, <2>4
  <2>6. all[0] = A BY <2>5
  <2>7. all[1] = The({applyOne(u, Ref(e.interval, e.sequence + 1 - 1)) : u \in {all[1 - 1]}})
    BY <2>5
  <2>8. {applyOne(u, Ref(e.interval, e.sequence + 1 - 1)) : u \in {all[1 - 1]}} = {applyOne(s, e)}
    BY <1>2, <1>5, <2>6
  <2>9. all[1] = applyOne(s, e) BY <2>7, <2>8, TheOnly
  <2> QED BY <1>1, <1>3, <1>7, <2>2, <2>9
<1> QED BY <1>6, <1>7

\* The entry that is expected next is the one that is due.
LEMMA ExpectsDue ==
  ASSUME NEW s \in PipeType, NEW f \in FeedType, NEW n \in Nat, Expects(s, f, n)
  PROVE  Due(s, f) = Ref(f.interval, n) /\ s.interval # 0 /\ s.interval = f.interval
         /\ (s.next = 0 => n = f.oldest)
<1>1. f.interval \in Nat /\ f.interval # 0 BY FeedFields
<1>2. CASE s.boundary = NoRef BY <1>1, <1>2 DEF Expects, Due
<1>3. CASE s.boundary # NoRef
  <2>1. s.boundary = Ref(f.interval, n - 1) /\ s.boundary.sequence = n - 1
    BY <1>3 DEF Expects, Ref
  <2>2. s.next = n /\ n - 1 >= 1
    <3>1. s.boundary \in Refs BY <1>3, PipeParts
    <3>2. s.boundary.sequence >= 1 BY <3>1, RefFacts
    <3> QED BY <1>3, <2>1, <3>2 DEF Expects
  <2> QED BY <1>1, <1>3, <2>1, <2>2 DEF Expects, Due
<1> QED BY <1>2, <1>3

\* An entry up to the one that is expected: it is passed over, or applied, or
\* fails.
LEMMA EntryTaken ==
  ASSUME NEW s, NEW f \in FeedType, Sane(s, f), s.phase \in Following,
         NEW n \in Nat, Expects(s, f, n),
         NEW q \in f.oldest..f.boundary, q <= n, NEW e, e = Ref(f.interval, q), NEW bad \in Nat
  PROVE  LET t == applyEntry(s, e, bad) IN
         /\ Sane(t, f) /\ \A L : Shows(s, L) => Shows(t, L)
         /\ \/ t.phase = s.phase /\ Expects(t, f, IF q = n THEN n + 1 ELSE n)
            \/ Stuck(t, f, q)
<1> DEFINE t == applyEntry(s, e, bad)
           Goal == /\ Sane(t, f) /\ \A L : Shows(s, L) => Shows(t, L)
                   /\ \/ t.phase = s.phase /\ Expects(t, f, IF q = n THEN n + 1 ELSE n)
                      \/ Stuck(t, f, q)
<1>1. s \in PipeType /\ Coherent(s) /\ Cardinality(s.gaps) <= MaxGaps BY DEF Sane
<1>2. /\ f.interval \in 1..MaxIntervals /\ f.oldest \in Nat /\ f.boundary \in Nat /\ f.oldest >= 1
      /\ f.boundary <= MaxSequence /\ f.interval \in Nat /\ MaxSequence \in Nat
  BY FeedFields
<1>3. q \in Nat /\ q \in 1..MaxSequence /\ q >= f.oldest /\ q <= f.boundary BY <1>2
<1>4. e \in Refs /\ e.interval = f.interval /\ e.sequence = q BY <1>2, <1>3 DEF Refs, Ref
<1>5. /\ Due(s, f) = Ref(f.interval, n) /\ s.interval # 0 /\ s.interval = f.interval
      /\ (s.next = 0 => n = f.oldest)
  BY <1>1, ExpectsDue
<1>6. Listens(s) /\ (s.next = n \/ (s.next = 0 /\ s.boundary = NoRef)) /\ s.phase # "FAILED" /\ s.phase # "CANCELLED"
      /\ s.following /\ ~s.restarting /\ ~s.closed /\ s.gaps = {}
  BY DEF Expects, Listens, Following
<1> HIDE DEF t
<1>7. ASSUME s.failed = e /\ s.attempts >= 2 PROVE Goal
  <2>1. t = failFollower(s) BY <1>6, <1>7 DEF applyEntry, t
  <2>2. /\ Sane(t, f) /\ ~t.following /\ (t.phase = "FAILED" \/ s.closed)
        /\ \A L : Shows(s, L) => Shows(t, L)
    BY <2>1, FollowerFails
  <2> QED BY <1>6, <2>2 DEF Stuck
<1>8. ASSUME ~(s.failed = e /\ s.attempts >= 2) PROVE Goal
  <2> DEFINE u == IF s.next = 0 THEN [s EXCEPT !.next = q] ELSE s
  <2>1. t = IF q < u.next THEN u ELSE IF q > u.next THEN HeldBack(u, e) ELSE AppliedWithWaiting(u, e, bad)
    <3>1. t = applyInOrder(s, e, bad) BY <1>6, <1>8 DEF applyEntry, t
    <3> QED BY <1>4, <1>5, <1>6, <3>1 DEF applyInOrder
  <2>2. s.next = 0 => q = n BY <1>2, <1>3, <1>5
  <2>3. /\ u \in PipeType /\ SameAccount(u, s) /\ SameHold(u, s) /\ SameView(u, s)
        /\ u.interval = s.interval /\ u.boundary = s.boundary /\ u.gaps = s.gaps /\ u.next = n
    <3>1. q \in 0..(MaxSequence + 1) BY <1>2, <1>3
    <3>2. CASE s.next = 0
      <4>1. u = [s EXCEPT !.next = q] /\ q = n BY <2>2, <3>2
      <4> HIDE DEF u
      <4> QED BY <1>1, <3>1, <4>1 DEF PipeType, SameAccount, SameHold, SameView
    <3>3. CASE s.next # 0
      <4>1. u = s /\ s.next = n BY <1>6, <3>3
      <4> HIDE DEF u
      <4> QED BY <1>1, <4>1 DEF SameAccount, SameHold, SameView
    <3> QED BY <3>2, <3>3
  <2> HIDE DEF u
  <2>4. Coherent(u) /\ Listens(u) /\ u.phase = s.phase
    BY <1>1, <1>6, <2>3 DEF Coherent, SameHold, SameView, Listens
  <2>5. Sane(u, f) BY <1>1, <2>3, <2>4, SaneKept
  <2>6. Expects(u, f, n) /\ Due(u, f) = Due(s, f) BY <2>3, <2>4 DEF Expects, Due
  <2>7. \A L : Shows(s, L) => Shows(u, L) BY <2>3 DEF SameView, Shows
  <2>8. ASSUME q < n PROVE Goal
    <3>1. t = u /\ q # n BY <1>3, <2>1, <2>3, <2>8
    <3> QED BY <2>3, <2>5, <2>6, <2>7, <3>1 DEF SameView
  <2>9. ASSUME q = n PROVE Goal
    <3>1. t = AppliedWithWaiting(u, e, bad) BY <1>3, <2>1, <2>3, <2>9
    <3>2. e = Due(u, f) BY <1>5, <2>6, <2>9
    <3>3. u.gaps = {} /\ u.phase \in Following /\ ~(u.failed = e /\ u.attempts >= 2)
      BY <1>6, <1>8, <2>3, <2>4 DEF SameAccount
    <3>4. CASE bad = q
      <4>1. t = handleObserverFailure(Presented(u, e), e)
        BY <1>4, <2>3, <3>1, <3>3, <3>4, AppliesOne
      <4>2. /\ Sane(t, f) /\ SameProgress(t, u)
            /\ ~t.following /\ t.restarting /\ \A L : Shows(u, L) => Shows(t, L)
        BY <1>3, <1>4, <2>4, <2>5, <3>2, <3>3, <4>1, EntryFails
      <4>3. Stuck(t, f, q) BY <1>3, <1>5, <2>3, <2>9, <4>2 DEF Stuck, SameProgress
      <4> QED BY <2>7, <4>2, <4>3
    <3>5. CASE bad # q
      <4>1. t = applyOne(u, e) BY <1>4, <2>3, <3>1, <3>3, <3>5, AppliesOne
      <4>2. /\ Sane(t, f) /\ SameHold(t, u) /\ t.phase = u.phase
            /\ t.interval = e.interval /\ t.next = e.sequence + 1 /\ t.boundary = e /\ t.gaps = u.gaps
            /\ \A L : Shows(u, L) => Shows(t, L)
        BY <1>3, <1>4, <2>5, <3>2, <3>3, <4>1, EntryApplied
      <4>3. Listens(t) BY <2>4, <4>2 DEF Listens, SameHold
      <4>4. e # NoRef /\ q + 1 - 1 = q BY <1>3, <1>4, RefFacts
      <4>5. Expects(t, f, n + 1) BY <1>4, <2>9, <4>2, <4>3, <4>4 DEF Expects
      <4> QED BY <2>4, <2>7, <2>9, <4>2, <4>5
    <3> QED BY <3>4, <3>5
  <2> QED BY <1>3, <2>8, <2>9
<1> QED BY <1>7, <1>8 DEF t

\* The sequences that wait behind a gap are finitely many.
LEMMA GapAdded ==
  ASSUME NEW g \in SUBSET (1..MaxSequence), NEW q, q \notin g
  PROVE  Cardinality(g \cup {q}) = Cardinality(g) + 1 /\ Cardinality(g) \in Nat
<1>1. IsFiniteSet(1..MaxSequence) BY FeedAssumption, FS_Interval
<1>2. IsFiniteSet(g) BY <1>1, FS_Subset
<1> QED BY <1>2, FS_AddElement, FS_CardinalityType

\* Entries behind one that failed wait, or are too many.
LEMMA StuckStays ==
  ASSUME NEW s, NEW f \in FeedType, Sane(s, f), NEW q \in Nat, Stuck(s, f, q),
         q + 1 <= MaxSequence, NEW e, e = Ref(f.interval, q + 1), NEW bad
  PROVE  LET t == applyEntry(s, e, bad) IN
         Sane(t, f) /\ Stuck(t, f, q + 1) /\ \A L : Shows(s, L) => Shows(t, L)
<1> DEFINE t == applyEntry(s, e, bad)
           Goal == Sane(t, f) /\ Stuck(t, f, q + 1) /\ \A L : Shows(s, L) => Shows(t, L)
<1>1. s \in PipeType /\ Coherent(s) /\ Cardinality(s.gaps) <= MaxGaps BY DEF Sane
<1>2. f.interval \in 1..MaxIntervals /\ MaxSequence \in Nat /\ MaxGaps \in Nat
  BY FeedFields, PipelineAssumption
<1>3. e.interval = f.interval /\ e.sequence = q + 1 /\ q + 1 \in 1..MaxSequence BY <1>2 DEF Ref
<1>4. ~s.following /\ (s.phase = "FAILED" \/ (s.restarting /\ s.interval = f.interval /\ s.next \in 1..q))
  BY DEF Stuck
<1>5. Stuck(s, f, q + 1) BY <1>2, <1>4 DEF Stuck
<1> HIDE DEF t
<1>6. ASSUME t = s PROVE Goal BY <1>5, <1>6
<1>7. ASSUME t = failFollower(s), ~s.closed PROVE Goal
  <2>1. /\ Sane(t, f) /\ ~t.following /\ (t.phase = "FAILED" \/ s.closed)
        /\ \A L : Shows(s, L) => Shows(t, L)
    BY <1>7, FollowerFails
  <2> QED BY <1>7, <2>1 DEF Stuck
<1>8. CASE s.phase = "FAILED"
  <2>1. t = s BY <1>8 DEF applyEntry, t
  <2> QED BY <1>6, <2>1 DEF t
<1>9. CASE s.phase # "FAILED"
  <2>1. s.restarting /\ s.interval = f.interval /\ s.next \in 1..q /\ ~s.closed
    BY <1>1, <1>4, <1>9 DEF Coherent
  <2>2. s.interval # 0 /\ s.next # 0 /\ ~(e.sequence < s.next) /\ e.sequence > s.next
    BY <1>2, <1>3, <2>1
  <2>3. CASE s.failed = e /\ s.attempts >= 2
    <3>1. t = failFollower(s) BY <1>9, <2>3 DEF applyEntry, t
    <3> QED BY <1>7, <2>1, <3>1 DEF t
  <2>4. CASE ~(s.failed = e /\ s.attempts >= 2)
    <3>1. t = applyInOrder(s, e, bad) BY <1>9, <2>4 DEF applyEntry, t
    <3>2. CASE s.phase = "CANCELLED"
      <4>1. t = s BY <3>1, <3>2 DEF applyInOrder
      <4> QED BY <1>6, <4>1 DEF t
    <3>3. CASE s.phase # "CANCELLED"
      <4>1. t = HeldBack(s, e) BY <1>3, <1>9, <2>1, <2>2, <3>1, <3>3 DEF applyInOrder
      <4>2. CASE e.sequence \in s.gaps
        <5>1. t = s BY <4>1, <4>2 DEF HeldBack
        <5> QED BY <1>6, <5>1 DEF t
      <4>3. CASE e.sequence \notin s.gaps /\ Cardinality(s.gaps) >= MaxGaps
        <5>1. t = failFollower(s) BY <4>1, <4>3 DEF HeldBack
        <5> QED BY <1>7, <2>1, <5>1 DEF t
      <4>4. CASE e.sequence \notin s.gaps /\ ~(Cardinality(s.gaps) >= MaxGaps)
        <5> DEFINE g == s.gaps \cup {q + 1}
        <5>1. t = [s EXCEPT !.gaps = g] BY <1>3, <4>1, <4>4 DEF HeldBack
        <5>2. s.gaps \in SUBSET (1..MaxSequence) BY <1>1, PipeParts
        <5>3. g \in SUBSET (1..MaxSequence) /\ Cardinality(g) <= MaxGaps
          <6>1. Cardinality(g) = Cardinality(s.gaps) + 1 /\ Cardinality(s.gaps) \in Nat
            BY <1>3, <4>4, <5>2, GapAdded
          <6> QED BY <1>2, <1>3, <4>4, <5>2, <6>1
        <5> HIDE DEF g
        <5>4. /\ t \in PipeType /\ SameAccount(t, s) /\ SameHold(t, s) /\ SameView(t, s)
              /\ t.interval = s.interval /\ t.next = s.next /\ t.boundary = s.boundary /\ t.gaps = g
          BY <1>1, <5>1, <5>3 DEF PipeType, SameAccount, SameHold, SameView
        <5>5. Coherent(t) BY <1>1, <5>4 DEF Coherent, SameHold, SameView
        <5>6. Sane(t, f) BY <5>3, <5>4, <5>5, SaneKept
        <5>7. Stuck(t, f, q + 1) BY <1>5, <5>4 DEF Stuck, SameHold, SameView
        <5>8. \A L : Shows(s, L) => Shows(t, L) BY <5>4 DEF Shows, SameView
        <5> QED BY <5>6, <5>7, <5>8 DEF t
      <4> QED BY <4>2, <4>3, <4>4
    <3> QED BY <3>2, <3>3
  <2> QED BY <2>3, <2>4
<1> QED BY <1>8, <1>9
-----------------------------------------------------------------------------
(* One publication *)

\* The entries of a publication, from a on, are entered one by one.
LEMMA PublicationSteps ==
  ASSUME NEW s, NEW p, NEW i, NEW a, NEW K \in Nat,
         p.interval = i, a = p.first, K = p.last - p.first + 1, NEW bad
  PROVE  \E d : /\ applyPublication(s, p, bad) = d[K] /\ d[0] = s
                /\ \A k \in 1..K : d[k] = applyEntry(d[k - 1], Ref(i, a + k - 1), bad)
<1> DEFINE N == p.last - p.first + 1
<1>1. N \in Nat OBVIOUS
<1>2. \E d : /\ IsEntered(d, s, p, bad)
             /\ applyPublication(s, p, bad) = d[N]
             /\ d[0] = s
             /\ \A n \in 1..N : d[n] = applyEntry(d[n - 1], Ref(p.interval, p.first + n - 1), bad)
  <2>1. ASSUME NEW z, z.last - z.first + 1 \in Nat PROVE \E d : /\ IsEntered(d, s, z, bad)
                      /\ applyPublication(s, z, bad) = d[z.last - z.first + 1]
                      /\ d[0] = s
                      /\ \A n \in 1..(z.last - z.first + 1) :
                           d[n] = applyEntry(d[n - 1], Ref(z.interval, z.first + n - 1), bad)
    BY <2>1, PublicationUnfolds
  <2> QED BY <1>1, <2>1
<1>3. PICK d : /\ IsEntered(d, s, p, bad)
               /\ applyPublication(s, p, bad) = d[N]
               /\ d[0] = s
               /\ \A n \in 1..N : d[n] = applyEntry(d[n - 1], Ref(p.interval, p.first + n - 1), bad)
  BY <1>2
<1> HIDE DEF N
<1>4. K = N BY DEF N
<1> QED BY <1>3, <1>4

\* Evidence that goes on from what is expected, or overlaps it: everything up
\* to its end is applied, or the pipeline lets go.
LEMMA EvidenceTracked ==
  ASSUME NEW s, NEW f \in FeedType, Sane(s, f), s.phase \in Following,
         NEW n \in Nat, Expects(s, f, n), NEW p, p.interval = f.interval,
         p.first \in Nat, p.last \in Nat, f.oldest <= p.first, p.first <= n,
         p.first <= p.last, p.last <= f.boundary, NEW bad \in Nat
  PROVE  LET t == applyPublication(s, p, bad) IN
         /\ Sane(t, f) /\ \A L : Shows(s, L) => Shows(t, L)
         /\ \/ t.phase = s.phase /\ Expects(t, f, IF p.last >= n THEN p.last + 1 ELSE n)
            \/ LetGo(t)
<1> DEFINE K == p.last - p.first + 1
           a == p.first
           M(k) == IF a + k > n THEN a + k ELSE n
<1>1. K \in Nat /\ a \in Nat /\ a <= n /\ M(0) = n OBVIOUS
<1>2. PICK d : /\ applyPublication(s, p, bad) = d[K] /\ d[0] = s
               /\ \A k \in 1..K : d[k] = applyEntry(d[k - 1], Ref(f.interval, a + k - 1), bad)
  <2>1. K \in Nat /\ K = p.last - p.first + 1 /\ a = p.first /\ p.interval = f.interval BY <1>1
  <2>2. ASSUME NEW i, NEW b, NEW N \in Nat, p.interval = i, b = p.first, N = p.last - p.first + 1
        PROVE  \E d : /\ applyPublication(s, p, bad) = d[N] /\ d[0] = s
                      /\ \A k \in 1..N : d[k] = applyEntry(d[k - 1], Ref(i, b + k - 1), bad)
    BY <2>2, PublicationSteps
  <2> HIDE DEF K, a
  <2> QED BY <2>1, <2>2
<1>3. \A k \in Nat : k + 1 <= K => a + k \in f.oldest..f.boundary /\ a + k <= M(k)
  <2>1. f.oldest \in Nat /\ f.boundary \in Nat BY FeedFields
  <2> QED BY <1>1, <2>1
<1>4. \A k \in Nat : M(k) \in Nat /\ M(k + 1) = IF a + k = M(k) THEN M(k) + 1 ELSE M(k) BY <1>1
<1>5. M(K) = IF p.last >= n THEN p.last + 1 ELSE n BY <1>1
<1>6. f.boundary \in Nat /\ f.boundary <= MaxSequence /\ MaxSequence \in Nat BY FeedFields
<1>7. a + K - 1 = p.last BY <1>1
<1> HIDE DEF K, a, M
<1> DEFINE Fits(k) == /\ Sane(d[k], f) /\ \A L : Shows(s, L) => Shows(d[k], L)
                      /\ \/ d[k].phase = s.phase /\ Expects(d[k], f, M(k))
                         \/ Stuck(d[k], f, a + k - 1)
           T == {k \in Nat : k <= K => Fits(k)}
<1>8. 0 \in T BY <1>1, <1>2
<1>9. ASSUME NEW k \in Nat, k \in T PROVE k + 1 \in T
  <2>1. SUFFICES ASSUME k + 1 <= K PROVE Fits(k + 1) OBVIOUS
  <2>2. Fits(k) BY <1>1, <1>9, <2>1
  <2>3. k + 1 \in 1..K /\ (k + 1) - 1 = k /\ a + (k + 1) - 1 = a + k BY <1>1, <2>1
  <2> DEFINE e == Ref(f.interval, a + k)
  <2>4. d[k + 1] = applyEntry(d[k], e, bad) BY <1>2, <2>3
  <2>5. CASE d[k].phase = s.phase /\ Expects(d[k], f, M(k))
    <3>1. a + k \in f.oldest..f.boundary /\ a + k <= M(k) /\ M(k) \in Nat BY <1>3, <1>4, <2>1
    <3>2. d[k].phase \in Following /\ Sane(d[k], f) /\ \A L : Shows(s, L) => Shows(d[k], L)
      BY <2>2, <2>5
    <3> DEFINE x == d[k]
               y == d[k + 1]
               q == a + k
               m == M(k)
    <3>3. /\ x.phase = s.phase /\ Expects(x, f, m) /\ q \in f.oldest..f.boundary /\ q <= m /\ m \in Nat
          /\ x.phase \in Following /\ Sane(x, f) /\ y = applyEntry(x, e, bad) /\ e = Ref(f.interval, q)
      BY <2>4, <2>5, <3>1, <3>2
    <3> HIDE DEF x, y, q, m, e
    <3>4. /\ Sane(y, f) /\ \A L : Shows(x, L) => Shows(y, L)
          /\ \/ y.phase = x.phase /\ Expects(y, f, IF q = m THEN m + 1 ELSE m)
             \/ Stuck(y, f, q)
      BY <3>3, EntryTaken
    <3>5. M(k + 1) = IF q = m THEN m + 1 ELSE m BY <1>4 DEF q, m
    <3>6. \A L : Shows(s, L) => Shows(y, L) BY <3>2, <3>4 DEF x
    <3>7. (y.phase = s.phase /\ Expects(y, f, M(k + 1))) \/ Stuck(y, f, a + (k + 1) - 1)
      <4>1. CASE y.phase = x.phase /\ Expects(y, f, IF q = m THEN m + 1 ELSE m)
        BY <3>3, <3>5, <4>1
      <4>2. CASE Stuck(y, f, q) BY <2>3, <4>2 DEF q
      <4> QED BY <3>4, <4>1, <4>2
    <3> QED BY <3>4, <3>6, <3>7 DEF y
  <2>6. CASE Stuck(d[k], f, a + k - 1)
    <3>1. a + k \in f.oldest..f.boundary /\ f.oldest \in Nat /\ f.oldest >= 1
      BY <1>3, <2>1, FeedFields
    <3>2. a + k - 1 \in Nat /\ (a + k - 1) + 1 = a + k /\ a + k <= MaxSequence
      BY <1>1, <1>6, <3>1
    <3> DEFINE x == d[k]
               y == d[k + 1]
               q == a + k - 1
    <3>3. /\ Stuck(x, f, q) /\ q \in Nat /\ q + 1 <= MaxSequence /\ e = Ref(f.interval, q + 1)
          /\ Sane(x, f) /\ y = applyEntry(x, e, bad)
      BY <2>2, <2>4, <2>6, <3>2
    <3> HIDE DEF x, y, q, e
    <3>4. Sane(y, f) /\ Stuck(y, f, q + 1) /\ \A L : Shows(x, L) => Shows(y, L)
      BY <3>3, StuckStays
    <3>5. Stuck(y, f, a + (k + 1) - 1) BY <2>3, <3>2, <3>4 DEF q
    <3>6. \A L : Shows(s, L) => Shows(y, L) BY <2>2, <3>4 DEF x
    <3> QED BY <3>4, <3>5, <3>6 DEF y
  <2> QED BY <2>2, <2>5, <2>6
<1>10. K \in T
  <2> HIDE DEF T
  <2> QED BY <1>1, <1>8, <1>9, Induction
<1>11. Fits(K) BY <1>1, <1>10
<1>12. \A t : Stuck(t, f, p.last) => LetGo(t) BY DEF Stuck, LetGo
<1> QED BY <1>2, <1>5, <1>7, <1>11, <1>12

\* What the observer makes of each type of publication.
LEMMA ObserverCases ==
  ASSUME NEW s, s.following, ~s.closed, NEW p, NEW bad
  PROVE  /\ p.type \in {"status", "retention-advanced"} => observer(s, p, bad) = s
         /\ p.type = "replay-started" => observer(s, p, bad) = handleReplayStarted(s, p)
         /\ p.type = "replay-complete" => observer(s, p, bad) = handleReplayComplete(s, p)
         /\ p.type = "replay-failed" =>
              observer(s, p, bad) = failFollower([s EXCEPT !.follower = p.interval])
         /\ p.type = "interval-cleared" => observer(s, p, bad) = handleIntervalCleared(s, p)
         /\ p.type = "committed-evidence" => observer(s, p, bad) = applyPublication(s, p, bad)
<1>1. p.type \in {"status", "retention-advanced"} => observer(s, p, bad) = s BY DEF observer
<1>2. p.type = "replay-started" => observer(s, p, bad) = handleReplayStarted(s, p)
  BY DEF observer
<1>3. p.type = "replay-complete" => observer(s, p, bad) = handleReplayComplete(s, p)
  BY DEF observer
<1>4. p.type = "replay-failed" =>
        observer(s, p, bad) = failFollower([s EXCEPT !.follower = p.interval])
  BY DEF observer
<1>5. p.type = "interval-cleared" => observer(s, p, bad) = handleIntervalCleared(s, p)
  BY DEF observer
<1>6. p.type = "committed-evidence" => observer(s, p, bad) = applyPublication(s, p, bad)
  BY DEF observer
<1> QED BY <1>1, <1>2, <1>3, <1>4, <1>5, <1>6

\* The follower identity does not matter to the account.
LEMMA FollowerNamed ==
  ASSUME NEW s, NEW f, Sane(s, f), NEW i \in 0..MaxIntervals
  PROVE  LET t == [s EXCEPT !.follower = i] IN
         /\ Sane(t, f) /\ SameProgress(t, s) /\ SameAccount(t, s) /\ SameHold(t, s) /\ SameView(t, s)
<1> DEFINE t == [s EXCEPT !.follower = i]
<1>1. s \in PipeType /\ Coherent(s) /\ Cardinality(s.gaps) <= MaxGaps BY DEF Sane
<1>2. t \in PipeType /\ SameProgress(t, s) /\ SameAccount(t, s) /\ SameHold(t, s) /\ SameView(t, s)
  BY <1>1 DEF PipeType, SameProgress, SameAccount, SameHold, SameView
<1> HIDE DEF t
<1>3. Coherent(t) /\ t.boundary = s.boundary /\ Cardinality(t.gaps) <= MaxGaps
  BY <1>1, <1>2 DEF Coherent, SameHold, SameView, SameProgress
<1>4. Sane(t, f) BY <1>2, <1>3, SaneKept
<1> QED BY <1>2, <1>4 DEF t

\* A replay that fails ends the subscription.
LEMMA FailureTracked ==
  ASSUME NEW s, NEW f, Sane(s, f), Listens(s), NEW p \in PublicationType,
         p.type = "replay-failed", NEW bad
  PROVE  LET t == observer(s, p, bad) IN
         Sane(t, f) /\ LetGo(t) /\ \A L : Shows(s, L) => Shows(t, L)
<1> DEFINE u == [s EXCEPT !.follower = p.interval]
           t == observer(s, p, bad)
<1>1. t = failFollower(u) BY ObserverCases DEF Listens
<1>2. p.interval \in 0..MaxIntervals BY FeedAssumption DEF PublicationType
<1>3. Sane(u, f) /\ SameHold(u, s) /\ SameView(u, s) BY <1>2, FollowerNamed
<1> HIDE DEF u, t
<1>4. /\ Sane(t, f) /\ ~t.following /\ (t.phase = "FAILED" \/ u.closed)
      /\ \A L : Shows(u, L) => Shows(t, L)
  BY <1>1, <1>3, FollowerFails
<1>5. t.phase = "FAILED" BY <1>3, <1>4 DEF SameHold, Listens
<1>6. \A L : Shows(s, L) => Shows(t, L) BY <1>5 DEF Shows
<1> QED BY <1>4, <1>5, <1>6 DEF LetGo, t

\* A replay that completes makes the pipeline live.
LEMMA CompletionTracked ==
  ASSUME NEW s, NEW f, Sane(s, f), Listens(s), NEW p \in PublicationType,
         p.type = "replay-complete", NEW bad
  PROVE  LET t == observer(s, p, bad) IN
         /\ Sane(t, f) /\ t.phase = "LIVE" /\ \A L : Shows(t, L)
         /\ \A n : Expects(s, f, n) => Expects(t, f, n)
         /\ Outdated(s, f) => Outdated(t, f)
<1> DEFINE u == [s EXCEPT !.follower = p.interval]
           t == observer(s, p, bad)
<1>1. t = setFollowerPhase(u, "LIVE")
  <2>1. t = handleReplayComplete(s, p) BY ObserverCases DEF Listens
  <2> QED BY <2>1 DEF handleReplayComplete, Listens
<1>2. p.interval \in 0..MaxIntervals /\ "LIVE" \in Phases
  BY FeedAssumption DEF PublicationType, Phases
<1>3. Sane(u, f) /\ SameProgress(u, s) /\ SameAccount(u, s) /\ SameHold(u, s) /\ SameView(u, s)
  BY <1>2, FollowerNamed
<1> HIDE DEF u, t
<1>4. u \in PipeType /\ Coherent(u) /\ Cardinality(u.gaps) <= MaxGaps BY <1>3 DEF Sane
<1>5. /\ t \in PipeType /\ SameProgress(t, u) /\ SameAccount(t, u) /\ SameHold(t, u)
      /\ t.phase = "LIVE"
  BY <1>1, <1>2, <1>4, PhaseSet
<1>6. Coherent(t) BY <1>3, <1>5 DEF Coherent, SameHold, Listens
<1>7. Sane(t, f) BY <1>3, <1>4, <1>5, <1>6, SaneKept DEF SameProgress
<1>8. SameProgress(t, s) /\ SameHold(t, s) BY <1>3, <1>5 DEF SameProgress, SameHold
<1>9. Listens(t) BY <1>8 DEF Listens, SameProgress, SameHold
<1>10. \A n : Expects(s, f, n) => Expects(t, f, n) BY <1>8, <1>9 DEF Expects, SameProgress
<1>11. Outdated(s, f) => Outdated(t, f) BY <1>8, <1>9 DEF Outdated, SameProgress
<1>12. \A L : Shows(t, L) BY <1>5 DEF Shows
<1> QED BY <1>5, <1>7, <1>10, <1>11, <1>12 DEF t

\* A Clear: what comes next belongs to the new interval.
LEMMA ClearTracked ==
  ASSUME NEW s, NEW f \in FeedType, Sane(s, f), Outdated(s, f), NEW p \in PublicationType,
         p.type = "interval-cleared", p.interval = f.interval => p.last + 1 = f.oldest, NEW bad
  PROVE  LET t == observer(s, p, bad) IN
         /\ Sane(t, f) /\ t.phase = "LIVE" /\ \A L : Shows(t, L)
         /\ IF p.interval = f.interval THEN Expects(t, f, f.oldest) ELSE Outdated(t, f)
<1> DEFINE j == p.interval
           x == IF p.last # 0 THEN p.last + 1
                ELSE IF s.boundary # NoRef THEN s.boundary.sequence + 1 ELSE 0
           u == [resetAppliedProgress(s, NoRef, j) EXCEPT !.next = x]
           w == setFollowerPhase(u, "LIVE")
           t == observer(s, p, bad)
<1>1. t = [w EXCEPT !.live = {}, !.recovery = NoRecovery]
  <2>1. t = handleIntervalCleared(s, p)
    <3>1. s.following /\ ~s.closed BY DEF Outdated, Listens
    <3> HIDE DEF w
    <3> QED BY <3>1, ObserverCases
  <2>2. handleIntervalCleared(s, p) = resetCoherentStateAfterClear(w)
    BY Zenon DEF handleIntervalCleared
  <2> HIDE DEF t, w
  <2> QED BY <2>1, <2>2 DEF resetCoherentStateAfterClear
<1>2. s \in PipeType /\ Coherent(s) /\ Ordered(s.applied) /\ Behind(s, f) /\ Tried(s, f)
  BY DEF Sane
<1>3. j \in 0..MaxIntervals /\ p.last \in 0..MaxSequence /\ p.last \in Nat /\ MaxSequence \in Nat
  BY FeedAssumption DEF PublicationType
<1>4. s.boundary # NoRef => s.boundary.sequence \in 1..MaxSequence
  <2>1. s.boundary \in Refs \cup {NoRef} BY <1>2, PipeParts
  <2> QED BY <2>1, RefFacts
<1>5. x \in 0..(MaxSequence + 1) BY <1>3, <1>4
<1>6. f.oldest \in Nat /\ f.oldest >= 1 /\ f.interval \in Nat BY FeedFields
<1>7. s.applied # <<>> =>
        LET a == Last(s.applied) IN
        /\ a.interval < f.interval /\ a.sequence < f.oldest /\ a.sequence \in Nat /\ a.sequence >= 1
  <2>1. SUFFICES ASSUME s.applied # <<>> PROVE LET a == Last(s.applied) IN
                        /\ a.interval < f.interval /\ a.sequence < f.oldest
                        /\ a.sequence \in Nat /\ a.sequence >= 1
    OBVIOUS
  <2> DEFINE a == Last(s.applied)
  <2>2. a # NoRef /\ a.interval \in Nat /\ a.sequence \in Nat /\ a.sequence >= 1
    BY <1>2, <2>1, LastApplied
  <2>3. \/ a.interval < f.interval /\ a.sequence < f.oldest
        \/ a.interval = f.interval /\ s.boundary = a
    BY <1>2, <2>1 DEF Behind
  <2> HIDE DEF a
  <2>4. ~(a.interval = f.interval /\ s.boundary = a)
    <3>1. s.boundary # NoRef => s.boundary.interval < f.interval BY DEF Outdated
    <3> QED BY <1>6, <2>2, <3>1
  <2> QED BY <2>2, <2>3, <2>4 DEF a
<1>8. s.boundary # NoRef => s.applied # <<>> /\ s.boundary = Last(s.applied) BY <1>2 DEF Behind
<1>9. j = f.interval => x \in {0, f.oldest}
  <2>1. CASE p.last # 0 BY <2>1
  <2>2. CASE p.last = 0 /\ j = f.interval
    <3>1. f.oldest = 1 BY <2>2
    <3>2. s.boundary = NoRef BY <1>7, <1>8, <3>1
    <3> QED BY <2>2, <3>2
  <2> QED BY <2>1, <2>2
<1> HIDE DEF x
<1>10. /\ u \in PipeType /\ SameAccount(u, s) /\ SameHold(u, s)
       /\ u.boundary = NoRef /\ u.gaps = {} /\ u.interval = j /\ u.next = x
  <2>1. u = [s EXCEPT !.gaps = {}, !.follower = j, !.boundary = NoRef, !.interval = j, !.next = x]
    BY <1>2 DEF resetAppliedProgress, PipeType
  <2> HIDE DEF u, j
  <2> QED BY <1>2, <1>3, <1>5, <2>1 DEF PipeType, SameAccount, SameHold
<1>11. /\ w \in PipeType /\ SameProgress(w, u) /\ SameAccount(w, u) /\ SameHold(w, u) /\ w.phase = "LIVE"
  <2>1. "LIVE" \in Phases BY DEF Phases
  <2> HIDE DEF u
  <2> QED BY <1>10, <2>1, PhaseSet
<1> HIDE DEF u, w, t
<1>12. NoRecovery \in RecoveryType BY FeedAssumption DEF NoRecovery, RecoveryType
<1>13. /\ t \in PipeType /\ SameProgress(t, w) /\ SameAccount(t, w) /\ SameHold(t, w) /\ t.phase = "LIVE"
  BY <1>1, <1>11, <1>12 DEF PipeType, SameProgress, SameAccount, SameHold
<1>14. /\ t.applied = s.applied /\ t.tries = s.tries /\ t.failed = s.failed /\ t.attempts = s.attempts
       /\ t.boundary = NoRef /\ t.gaps = {} /\ t.interval = j /\ t.next = x
       /\ t.closed = s.closed /\ t.following = s.following /\ t.restarting = s.restarting
  BY <1>10, <1>11, <1>13 DEF SameAccount, SameProgress, SameHold
<1> HIDE DEF j
<1>15. Listens(t) /\ Coherent(t) BY <1>13, <1>14 DEF Listens, Outdated, Coherent
<1>16. Behind(t, f) BY <1>7, <1>14 DEF Behind
<1>17. Tried(t, f)
  <2>1. SUFFICES ASSUME NEW r \in Refs, t.tries[r] > 0
                 PROVE  Past(t, f, r) \/ (r = t.failed /\ t.tries[r] <= t.attempts /\ r = Due(t, f))
    BY DEF Tried
  <2>2. Past(t, f, r) = Past(s, f, r) BY <1>14 DEF Past
  <2>3. CASE Past(s, f, r) BY <2>2, <2>3
  <2>4. CASE r = s.failed /\ s.tries[r] <= s.attempts /\ r = Due(s, f)
    <3>1. CASE s.boundary = NoRef BY <1>14, <2>4, <3>1 DEF Due
    <3>2. CASE s.boundary # NoRef
      <4>1. r = Ref(f.interval, s.boundary.sequence + 1) /\ r.sequence = s.boundary.sequence + 1
        BY <2>4, <3>2 DEF Due, Ref
      <4>2. s.boundary.sequence \in Nat /\ s.boundary.sequence < f.oldest BY <1>7, <1>8, <3>2
      <4>3. CASE s.boundary.sequence + 1 = f.oldest BY <1>14, <2>4, <4>1, <4>3 DEF Due
      <4>4. CASE s.boundary.sequence + 1 # f.oldest
        <5>1. r.sequence < f.oldest BY <1>6, <4>1, <4>2, <4>4
        <5> QED BY <5>1 DEF Past
      <4> QED BY <4>3, <4>4
    <3> QED BY <3>1, <3>2
  <2> QED BY <1>2, <1>14, <2>1, <2>3, <2>4 DEF Tried
<1>18. Sane(t, f)
  <2>1. Cardinality({}) <= MaxGaps BY FS_EmptySet, PipelineAssumption
  <2> QED BY <1>2, <1>13, <1>14, <1>15, <1>16, <1>17, <2>1 DEF Sane
<1>19. IF j = f.interval THEN Expects(t, f, f.oldest) ELSE Outdated(t, f)
  BY <1>9, <1>14, <1>15 DEF Expects, Outdated
<1>20. \A L : Shows(t, L) BY <1>13 DEF Shows
<1> QED BY <1>13, <1>18, <1>19, <1>20 DEF t, j
-----------------------------------------------------------------------------
(* What a run of the History makes of the pipeline *)

\* The observer hears what it is called back with.
LEMMA Hears ==
  ASSUME NEW f \in FeedType, f.state # "none", NEW p \in PublicationType, NEW s, NEW bad
  PROVE  LET g == invoke(f, p) IN
         /\ Updated(g, f, f.state, f.replay, f.pending, Append(f.out, p))
         /\ Observed(s, g.out, bad) = observer(Observed(s, f.out, bad), p, bad)
<1> DEFINE o == Append(f.out, p)
           g == invoke(f, p)
<1>1. g = [f EXCEPT !.out = o] BY DEF invoke
<1>2. f.out \in Seq(PublicationType) /\ o \in Seq(PublicationType) BY FeedParts
<1>3. Observed(s, o, bad) = observer(Observed(s, f.out, bad), p, bad) BY <1>2, ObservedAppends
<1> HIDE DEF o, g
<1>4. Updated([f EXCEPT !.out = o], f, f.state, f.replay, f.pending, o)
  BY <1>2, FeedParts, FeedUpdate
<1> QED BY <1>1, <1>3, <1>4 DEF Updated, o, g

\* A pipeline that let go stays as it is.
LEMMA DeafStays ==
  ASSUME NEW s, LetGo(s), NEW p, NEW bad PROVE observer(s, p, bad) = s
  BY DEF LetGo, observer

\* The invariant is about the range that is retained.
LEMMA RangeOnly ==
  ASSUME NEW f, NEW g, SameRange(g, f), NEW s
  PROVE  /\ Sane(s, f) => Sane(s, g)
         /\ \A n : Expects(s, f, n) => Expects(s, g, n)
         /\ Outdated(s, f) => Outdated(s, g)
<1>1. g.interval = f.interval /\ g.oldest = f.oldest /\ g.boundary = f.boundary BY DEF SameRange
<1>2. Behind(s, f) => Behind(s, g) BY <1>1 DEF Behind
<1>3. Tried(s, f) => Tried(s, g) BY <1>1 DEF Tried, Past, Due
<1>4. Sane(s, f) => Sane(s, g) BY <1>2, <1>3 DEF Sane
<1>5. \A n : Expects(s, f, n) => Expects(s, g, n) BY <1>1 DEF Expects
<1>6. Outdated(s, f) => Outdated(s, g) BY <1>1 DEF Outdated
<1> QED BY <1>4, <1>5, <1>6

\* The pipeline t agrees with the feed g, and shows what u showed.
Tracks(t, g, u) == Sane(t, g) /\ Agrees(t, g) /\ \A L : Shows(u, L) => Shows(t, L)

\* A retention advance: a live pipeline is not affected, a replay fails.
LEMMA RetentionTracked ==
  ASSUME NEW f \in FeedType, f.oldest <= f.boundary + 1, LowWater # 0, NEW s, NEW bad,
         NEW u, u = Observed(s, f.out, bad), Sane(u, f), Agrees(u, f)
  PROVE  LET g == advanceRetentionIfNeeded(f) IN Tracks(Observed(s, g.out, bad), g, u)
<1> DEFINE y == f.boundary - LowWater + 1
           g == [f EXCEPT !.oldest = y]
           h == IF g.state = "replaying" THEN failCooperativeReplay(g) ELSE g
           p == Publication("retention-advanced", h.interval, OldestRetained(h), h.boundary)
           e == publish(h, p)
<1>1. CASE RetainedLength(f) <= MaxRetained BY <1>1 DEF advanceRetentionIfNeeded, Tracks
<1>2. CASE ~(RetainedLength(f) <= MaxRetained)
  <2>1. advanceRetentionIfNeeded(f) = e BY <1>2 DEF advanceRetentionIfNeeded
  <2>2. /\ f.boundary \in Nat /\ f.boundary <= MaxSequence /\ f.oldest \in Nat /\ f.oldest >= 1
        /\ f.interval \in 1..MaxIntervals /\ f.interval \in Nat /\ MaxSequence \in Nat
        /\ LowWater \in Nat /\ LowWater >= 1 /\ MaxRetained \in Nat /\ LowWater <= MaxRetained
        /\ f.state \in {"none", "replaying", "live"}
    BY FeedFields, FeedAssumption
  <2>3. f.oldest <= y /\ y \in 1..(MaxSequence + 1) /\ y <= f.boundary /\ y \in Nat /\ f.oldest <= f.boundary
    BY <1>2, <2>2 DEF RetainedLength
  <2> HIDE DEF y
  <2>4. /\ g \in FeedType /\ g.interval = f.interval /\ g.oldest = y /\ g.boundary = f.boundary
        /\ g.state = f.state /\ g.replay = f.replay /\ g.pending = f.pending /\ g.out = f.out
    <3>1. g = RetainedFrom(f, y) BY DEF RetainedFrom
    <3>2. f.interval \in 1..MaxIntervals /\ f.boundary \in 0..MaxSequence /\ f.replay \in ReplayType
      BY FeedFields, FeedParts
    <3> HIDE DEF g
    <3> QED BY <2>3, <3>1, <3>2, RangeUpdate DEF SameSubscription
  <2> HIDE DEF g
  <2>5. Sane(u, g)
    <3>1. Advances(f, g) BY <2>2, <2>3, <2>4 DEF Advances
    <3> QED BY <2>4, <3>1, SaneAdvances
  <2>6. CASE g.state = "none"
    <3>1. e = g BY <2>6 DEF publish, invoke
    <3>2. LetGo(u) BY <2>4, <2>6 DEF Agrees
    <3>3. Observed(s, e.out, bad) = u BY <2>4, <3>1
    <3> QED BY <2>1, <2>5, <3>1, <3>2, <3>3 DEF Tracks, Agrees
  <2>7. CASE g.state = "live"
    <3>1. h = g BY <2>7
    <3> HIDE DEF h
    <3>2. p \in PublicationType /\ p.type = "retention-advanced"
      <4>1. OldestRetained(h) \in 0..MaxSequence
        BY <2>2, <2>3, <2>4, <3>1 DEF OldestRetained, RetainedLength
      <4>2. "retention-advanced" \in PublicationTypes /\ f.boundary \in 0..MaxSequence
        BY <2>2 DEF PublicationTypes
      <4> QED BY <2>2, <2>4, <3>1, <4>1, <4>2, PublicationFields
    <3> HIDE DEF p
    <3>3. e = invoke(g, p) BY <2>7, <3>1 DEF publish
    <3> HIDE DEF e
    <3>4. /\ Updated(e, g, g.state, g.replay, g.pending, Append(g.out, p))
          /\ Observed(s, e.out, bad) = observer(u, p, bad)
      <4>1. g.state # "none" /\ u = Observed(s, g.out, bad) BY <2>4, <2>7
      <4> QED BY <2>4, <3>2, <3>3, <4>1, Hears
    <3>5. e.state = "live" /\ SameRange(e, g) BY <2>7, <3>4 DEF Updated
    <3>6. observer(u, p, bad) = u
      <4>1. CASE LetGo(u) BY <4>1, DeafStays
      <4>2. CASE ~LetGo(u)
        <5>1. Listens(u) BY <4>2 DEF Agrees, Expects, Outdated
        <5> QED BY <3>2, <5>1, ObserverCases DEF Listens
      <4> QED BY <4>1, <4>2
    <3>7. Agrees(u, e)
      <4>1. CASE LetGo(u) BY <4>1 DEF Agrees
      <4>2. CASE ~LetGo(u)
        <5>1. u.phase = "LIVE" /\ Expects(u, f, f.boundary + 1) BY <2>4, <2>7, <4>2 DEF Agrees
        <5>2. u.boundary # NoRef BY <2>2, <2>3, <5>1 DEF Expects
        <5>3. Expects(u, g, f.boundary + 1) BY <2>4, <5>1, <5>2 DEF Expects
        <5>4. Expects(u, e, f.boundary + 1) /\ e.boundary = f.boundary
          BY <2>4, <3>5, <5>3, RangeOnly DEF SameRange
        <5> QED BY <3>5, <5>1, <5>4 DEF Agrees
      <4> QED BY <4>1, <4>2
    <3>8. Sane(u, e) BY <2>5, <3>5, RangeOnly
    <3> QED BY <2>1, <3>4, <3>6, <3>7, <3>8 DEF Tracks
  <2>8. CASE g.state = "replaying"
    <3> DEFINE r == Publication("replay-failed", g.interval, 0, g.boundary)
               v == invoke(g, r)
    <3>1. h = unfollow(v) BY <2>8 DEF failCooperativeReplay
    <3> HIDE DEF h
    <3>2. r \in PublicationType /\ r.type = "replay-failed"
      <4>1. "replay-failed" \in PublicationTypes /\ f.boundary \in 0..MaxSequence /\ 0 \in 0..MaxSequence
        BY <2>2 DEF PublicationTypes
      <4> QED BY <2>2, <2>4, <4>1, PublicationFields
    <3> HIDE DEF r
    <3>3. /\ Updated(v, g, g.state, g.replay, g.pending, Append(g.out, r))
          /\ Observed(s, v.out, bad) = observer(u, r, bad)
      <4>1. g.state # "none" /\ u = Observed(s, g.out, bad) BY <2>4, <2>8
      <4> QED BY <2>4, <3>2, <4>1, Hears
    <3> HIDE DEF v
    <3>4. h \in FeedType /\ SameRange(h, v) /\ h.state = "none" /\ h.out = v.out /\ SameRange(v, g)
      BY <3>1, <3>3, UnfollowFields DEF Updated
    <3>5. e = h BY <3>4 DEF publish, invoke
    <3> DEFINE t == observer(u, r, bad)
    <3>6. Sane(t, g) /\ LetGo(t) /\ \A L : Shows(u, L) => Shows(t, L)
      <4>1. CASE LetGo(u)
        <5>1. t = u BY <4>1, DeafStays
        <5> QED BY <2>5, <4>1, <5>1
      <4>2. CASE ~LetGo(u)
        <5>1. Listens(u) BY <4>2 DEF Agrees, Expects, Outdated
        <5> QED BY <2>5, <3>2, <5>1, FailureTracked
      <4> QED BY <4>1, <4>2
    <3> HIDE DEF t, e
    <3>7. Sane(t, h)
      <4>1. SameRange(h, g) BY <3>4 DEF SameRange
      <4> QED BY <3>6, <4>1, RangeOnly
    <3>8. Observed(s, e.out, bad) = t BY <3>3, <3>4, <3>5 DEF t
    <3> QED BY <2>1, <3>5, <3>6, <3>7, <3>8 DEF Tracks, Agrees
  <2> QED BY <2>2, <2>4, <2>6, <2>7, <2>8
<1> QED BY <1>1, <1>2

\* A run of the History that starts from f, which the pipeline s agrees with.
RunsOn(s, f) ==
  /\ f \in FeedType /\ f.oldest <= f.boundary + 1 /\ Sane(s, f) /\ Agrees(s, f)

\* What is queued is a queue.
LEMMA QueueTyped ==
  ASSUME NEW q \in Seq(QueueType), NEW p \in PublicationType
  PROVE  appendPendingReplayRange(q, p) \in Seq(QueueType)
<1> DEFINE r == [p EXCEPT !.type = "committed-range"]
           N == Len(q)
           w == [q[N] EXCEPT !.last = p.last]
<1>1. p \in QueueType /\ r \in QueueType BY DEF PublicationType, QueueType, PublicationTypes
<1>2. N \in Nat /\ (q # <<>> => N \in 1..N /\ q[N] \in QueueType) OBVIOUS
<1>3. q # <<>> => w \in QueueType
  <2>1. p.last \in 0..MaxSequence BY DEF PublicationType
  <2> HIDE DEF N
  <2> QED BY <1>2, <2>1 DEF QueueType
<1>4. [q EXCEPT ![N].last = p.last] = [q EXCEPT ![N] = w] OBVIOUS
<1> HIDE DEF r, w
<1>5. Append(q, p) \in Seq(QueueType) /\ Append(q, r) \in Seq(QueueType) BY <1>1
<1>6. q # <<>> => [q EXCEPT ![N] = w] \in Seq(QueueType) BY <1>2, <1>3
<1> QED BY <1>4, <1>5, <1>6 DEF appendPendingReplayRange, r, N

\* A commit: a live pipeline applies the batch, or lets go of it.
LEMMA CommitTracked ==
  ASSUME NEW s, NEW f, RunsOn(s, f), LowWater # 0, NEW n \in 1..MaxSequence,
         f.boundary + n <= MaxSequence, NEW bad \in Nat
  PROVE  LET g == commitBatch(f, n) IN Tracks(Observed(s, g.out, bad), g, s)
<1> DEFINE x == f.boundary + n
           a == [f EXCEPT !.boundary = x, !.out = <<>>]
           p == Publication("committed-evidence", f.interval, f.boundary + 1, x)
           h == publish(a, p)
           g == advanceRetentionIfNeeded(h)
           u == Observed(s, h.out, bad)
<1>1. commitBatch(f, n) = g BY DEF commitBatch
<1>2. f \in FeedType /\ f.oldest <= f.boundary + 1 /\ Sane(s, f) /\ Agrees(s, f) BY DEF RunsOn
<1>3. /\ f.boundary \in Nat /\ n \in Nat /\ n >= 1 /\ MaxSequence \in Nat /\ f.interval \in 1..MaxIntervals
      /\ f.interval \in Nat /\ f.oldest \in Nat /\ f.state \in {"none", "replaying", "live"}
  BY <1>2, FeedFields
<1>4. x \in 0..MaxSequence /\ x > f.boundary /\ f.boundary + 1 \in 0..MaxSequence /\ x \in Nat
      /\ f.oldest <= x /\ f.oldest <= x + 1 /\ f.boundary + 1 <= x
  BY <1>2, <1>3
<1> HIDE DEF x
<1>5. /\ a \in FeedType /\ a.interval = f.interval /\ a.oldest = f.oldest /\ a.boundary = x
      /\ a.state = f.state /\ a.replay = f.replay /\ a.pending = f.pending /\ a.out = <<>>
  <2>1. a = CommittedTo(f, x) BY DEF CommittedTo
  <2>2. f.interval \in 1..MaxIntervals /\ f.boundary \in 0..MaxSequence /\ f.oldest \in 1..(MaxSequence + 1)
        /\ f.replay \in ReplayType
    BY <1>2, FeedFields, FeedParts
  <2> HIDE DEF a
  <2> QED BY <1>2, <1>4, <2>1, <2>2, RangeUpdate DEF SameSubscription
<1>6. /\ p \in PublicationType /\ IsEvidence(p) /\ p.interval = f.interval
      /\ p.first = f.boundary + 1 /\ p.last = x
  <2>1. "committed-evidence" \in PublicationTypes BY DEF PublicationTypes
  <2> QED BY <1>3, <1>4, <2>1, PublicationFields DEF IsEvidence
<1> HIDE DEF a, p
<1>7. Sane(s, a)
  <2>1. Advances(f, a) BY <1>2, <1>3, <1>4, <1>5 DEF Advances
  <2> QED BY <1>2, <1>5, <2>1, SaneAdvances
<1>8. Observed(s, a.out, bad) = s
  <2>1. Len(a.out) = 0 /\ Len(a.out) \in Nat BY <1>5
  <2> QED BY <2>1, ObservedNothing
<1>9. h \in FeedType /\ h.oldest <= h.boundary + 1 /\ Tracks(u, h, s)
  <2>1. CASE a.state = "none"
    <3>1. h = a BY <2>1 DEF publish, invoke
    <3>2. LetGo(s) BY <1>2, <1>5, <2>1 DEF Agrees
    <3>3. u = s BY <1>8, <3>1
    <3> QED BY <1>4, <1>5, <1>7, <3>1, <3>2, <3>3 DEF Tracks, Agrees
  <2>2. CASE a.state = "live"
    <3>1. h = invoke(a, p) BY <2>2 DEF publish
    <3> HIDE DEF h, u
    <3>2. /\ Updated(h, a, a.state, a.replay, a.pending, Append(a.out, p))
          /\ Observed(s, h.out, bad) = observer(s, p, bad)
      <4>1. a.state # "none" BY <2>2
      <4>2. /\ Updated(h, a, a.state, a.replay, a.pending, Append(a.out, p))
            /\ Observed(s, h.out, bad) = observer(Observed(s, a.out, bad), p, bad)
        BY <1>5, <1>6, <3>1, <4>1, Hears
      <4> QED BY <1>8, <4>2
    <3>3. h \in FeedType /\ SameRange(h, a) /\ h.state = "live" BY <2>2, <3>2 DEF Updated
    <3>4. CASE LetGo(s)
      <4>1. u = s BY <3>2, <3>4, DeafStays DEF u
      <4>2. Sane(u, h) BY <1>7, <3>3, <4>1, RangeOnly
      <4> QED BY <1>4, <1>5, <3>3, <3>4, <4>1, <4>2 DEF Tracks, Agrees, SameRange
    <3>5. CASE ~LetGo(s)
      <4>1. s.phase = "LIVE" /\ Expects(s, f, f.boundary + 1)
        BY <1>2, <1>5, <2>2, <3>5 DEF Agrees
      <4>2. Expects(s, a, f.boundary + 1) /\ Listens(s) BY <1>5, <4>1 DEF Expects
      <4>3. u = applyPublication(s, p, bad)
        <5>1. s.following /\ ~s.closed /\ p.type = "committed-evidence"
          BY <1>6, <4>2 DEF Listens, IsEvidence
        <5>2. observer(s, p, bad) = applyPublication(s, p, bad) BY <5>1 DEF observer
        <5> QED BY <3>2, <5>2 DEF u
      <4>4. /\ Sane(u, a) /\ \A L : Shows(s, L) => Shows(u, L)
            /\ \/ u.phase = s.phase /\ Expects(u, a, IF p.last >= f.boundary + 1 THEN p.last + 1 ELSE f.boundary + 1)
               \/ LetGo(u)
        <5> DEFINE m == f.boundary + 1
        <5>1. /\ m \in Nat /\ p.interval = a.interval /\ p.first = m /\ p.last = x /\ p.first \in Nat
              /\ p.last \in Nat /\ a.oldest <= p.first /\ p.first <= m /\ p.first <= p.last
              /\ p.last <= a.boundary
          BY <1>2, <1>3, <1>4, <1>5, <1>6
        <5>2. s.phase \in Following /\ Expects(s, a, m) BY <4>1, <4>2 DEF Following
        <5> HIDE DEF m
        <5>3. /\ Sane(u, a) /\ \A L : Shows(s, L) => Shows(u, L)
              /\ \/ u.phase = s.phase /\ Expects(u, a, IF p.last >= m THEN p.last + 1 ELSE m)
                 \/ LetGo(u)
          BY <1>5, <1>7, <4>3, <5>1, <5>2, EvidenceTracked
        <5> QED BY <5>3 DEF m
      <4>5. (u.phase = "LIVE" /\ Expects(u, a, x + 1)) \/ LetGo(u) BY <1>4, <1>6, <4>1, <4>4
      <4>6. Sane(u, h) /\ (Expects(u, a, x + 1) => Expects(u, h, x + 1)) /\ h.boundary = x
        BY <1>5, <3>3, <4>4, RangeOnly DEF SameRange
      <4>7. Agrees(u, h) BY <3>3, <4>5, <4>6 DEF Agrees
      <4> QED BY <1>4, <1>5, <3>3, <4>4, <4>6, <4>7 DEF Tracks, SameRange
    <3> QED BY <3>4, <3>5
  <2>3. CASE a.state = "replaying"
    <3> DEFINE q == appendPendingReplayRange(a.pending, p)
    <3>1. h = [a EXCEPT !.pending = q] BY <2>3 DEF publish
    <3>2. q \in Seq(QueueType) BY <1>5, <1>6, FeedParts, QueueTyped
    <3> HIDE DEF q, h, u
    <3>3. Updated(h, a, a.state, a.replay, q, a.out) BY <1>5, <3>1, <3>2, FeedParts, FeedUpdate
    <3>4. /\ h \in FeedType /\ SameRange(h, a) /\ h.state = "replaying" /\ h.replay = f.replay
          /\ h.out = a.out /\ h.interval = f.interval /\ h.oldest = f.oldest /\ h.boundary = x
      BY <1>5, <2>3, <3>3 DEF Updated, SameRange
    <3>5. u = s BY <1>8, <3>4 DEF u
    <3>6. Sane(s, h) BY <1>7, <3>4, RangeOnly
    <3>7. Agrees(s, h)
      <4>1. CASE LetGo(s) BY <4>1 DEF Agrees
      <4>2. CASE ~LetGo(s)
        <5>1. /\ s.phase = "RECOVERING"
              /\ IF f.replay.interval = f.interval THEN Expects(s, f, f.oldest + f.replay.next) ELSE Outdated(s, f)
          BY <1>2, <1>5, <2>3, <4>2 DEF Agrees
        <5>2. IF h.replay.interval = h.interval THEN Expects(s, h, h.oldest + h.replay.next) ELSE Outdated(s, h)
          BY <3>4, <5>1 DEF Expects, Outdated
        <5> QED BY <3>4, <5>1, <5>2 DEF Agrees
      <4> QED BY <4>1, <4>2
    <3> QED BY <1>4, <3>4, <3>5, <3>6, <3>7 DEF Tracks
  <2> QED BY <1>3, <1>5, <2>1, <2>2, <2>3
<1> HIDE DEF h
<1>10. Tracks(Observed(s, g.out, bad), g, u) BY <1>9, RetentionTracked DEF Tracks
<1> HIDE DEF g, u
<1>11. Tracks(Observed(s, g.out, bad), g, s) BY <1>9, <1>10 DEF Tracks
<1> QED BY <1>1, <1>11

\* A Clear: a live pipeline starts on the new interval, one that recovers does
\* not hear of it yet.
LEMMA ClearRunTracked ==
  ASSUME NEW s, NEW f, RunsOn(s, f), f.interval < MaxIntervals, NEW bad,
         f.state = "replaying" => f.replay.interval \in 1..f.interval
  PROVE  LET g == clearInterval(f) IN Tracks(Observed(s, g.out, bad), g, s)
<1> DEFINE j == f.interval + 1
           y == f.boundary + 1
           a == [f EXCEPT !.interval = j, !.oldest = y, !.out = <<>>]
           p == Publication("interval-cleared", j, 0, f.boundary)
           h == publish(a, p)
           u == Observed(s, h.out, bad)
<1>1. clearInterval(f) = h BY DEF clearInterval
<1>2. f \in FeedType /\ f.oldest <= f.boundary + 1 /\ Sane(s, f) /\ Agrees(s, f) BY DEF RunsOn
<1>3. /\ f.boundary \in Nat /\ f.boundary \in 0..MaxSequence /\ f.oldest \in Nat
      /\ f.interval \in 1..MaxIntervals /\ f.interval \in Nat /\ MaxSequence \in Nat /\ MaxIntervals \in Nat
      /\ f.state \in {"none", "replaying", "live"}
  BY <1>2, FeedFields
<1>4. j \in 1..MaxIntervals /\ j \in Nat /\ f.interval < j /\ y \in 1..(MaxSequence + 1) /\ y = f.boundary + 1
      /\ y \in Nat /\ j = f.interval + 1 /\ f.oldest <= y /\ f.boundary < y
  BY <1>2, <1>3
<1> HIDE DEF j, y
<1>5. /\ a \in FeedType /\ a.interval = j /\ a.oldest = y /\ a.boundary = f.boundary
      /\ a.state = f.state /\ a.replay = f.replay /\ a.pending = f.pending /\ a.out = <<>>
  <2>1. a = ClearedTo(f, j, y) BY DEF ClearedTo
  <2>2. f.boundary \in 0..MaxSequence /\ f.replay \in ReplayType BY <1>2, FeedFields, FeedParts
  <2> HIDE DEF a
  <2> QED BY <1>2, <1>4, <2>1, <2>2, RangeUpdate DEF SameSubscription
<1>6. p \in PublicationType /\ p.type = "interval-cleared" /\ p.interval = j /\ p.last = f.boundary
  <2>1. "interval-cleared" \in PublicationTypes /\ 0 \in 0..MaxSequence
    BY <1>3 DEF PublicationTypes
  <2> QED BY <1>3, <1>4, <2>1, PublicationFields
<1> HIDE DEF a, p
<1>7. Sane(s, a)
  <2>1. Advances(f, a) BY <1>3, <1>4, <1>5 DEF Advances
  <2> QED BY <1>2, <1>5, <2>1, SaneAdvances
<1>8. Observed(s, a.out, bad) = s
  <2>1. Len(a.out) = 0 /\ Len(a.out) \in Nat BY <1>5
  <2> QED BY <2>1, ObservedNothing
<1>9. CASE a.state = "none"
  <2>1. h = a BY <1>9 DEF publish, invoke
  <2>2. LetGo(s) BY <1>2, <1>5, <1>9 DEF Agrees
  <2>3. u = s BY <1>8, <2>1
  <2> QED BY <1>1, <1>7, <2>1, <2>2, <2>3 DEF Tracks, Agrees
<1>10. CASE a.state = "live"
  <2>1. h = invoke(a, p) BY <1>10 DEF publish
  <2> HIDE DEF h, u
  <2>2. /\ Updated(h, a, a.state, a.replay, a.pending, Append(a.out, p))
        /\ Observed(s, h.out, bad) = observer(s, p, bad)
    <3>1. a.state # "none" BY <1>10
    <3>2. /\ Updated(h, a, a.state, a.replay, a.pending, Append(a.out, p))
          /\ Observed(s, h.out, bad) = observer(Observed(s, a.out, bad), p, bad)
      BY <1>5, <1>6, <2>1, <3>1, Hears
    <3> QED BY <1>8, <3>2
  <2>3. h \in FeedType /\ SameRange(h, a) /\ h.state = "live" BY <1>10, <2>2 DEF Updated
  <2>4. CASE LetGo(s)
    <3>1. u = s BY <2>2, <2>4, DeafStays DEF u
    <3>2. Sane(u, h) BY <1>7, <2>3, <3>1, RangeOnly
    <3> QED BY <1>1, <2>4, <3>1, <3>2 DEF Tracks, Agrees, u
  <2>5. CASE ~LetGo(s)
    <3>1. Expects(s, f, f.boundary + 1) BY <1>2, <1>5, <1>10, <2>5 DEF Agrees
    <3>2. Outdated(s, a)
      <4>1. Listens(s) /\ (s.boundary # NoRef => s.boundary = Ref(f.interval, (f.boundary + 1) - 1))
        BY <3>1 DEF Expects
      <4>2. s.boundary # NoRef => s.boundary.interval = f.interval BY <4>1 DEF Ref
      <4> QED BY <1>4, <1>5, <4>1, <4>2 DEF Outdated
    <3>3. u = observer(s, p, bad) BY <2>2 DEF u
    <3>4. /\ Sane(u, a) /\ u.phase = "LIVE" /\ \A L : Shows(u, L)
          /\ IF p.interval = a.interval THEN Expects(u, a, a.oldest) ELSE Outdated(u, a)
      <4>1. p.interval = a.interval => p.last + 1 = a.oldest BY <1>4, <1>5, <1>6
      <4> QED BY <1>5, <1>6, <1>7, <3>2, <3>3, <4>1, ClearTracked
    <3>5. Expects(u, a, f.boundary + 1) BY <1>4, <1>5, <1>6, <3>4
    <3>6. Sane(u, h) /\ Expects(u, h, f.boundary + 1) /\ h.boundary = f.boundary
      BY <1>5, <2>3, <3>4, <3>5, RangeOnly DEF SameRange
    <3>7. Agrees(u, h) BY <2>3, <3>4, <3>6 DEF Agrees
    <3> QED BY <1>1, <3>4, <3>6, <3>7 DEF Tracks, u
  <2> QED BY <2>4, <2>5
<1>11. CASE a.state = "replaying"
  <2> DEFINE q == appendPendingReplayRange(a.pending, p)
  <2>1. h = [a EXCEPT !.pending = q] BY <1>11 DEF publish
  <2>2. q \in Seq(QueueType) BY <1>5, <1>6, FeedParts, QueueTyped
  <2> HIDE DEF q, h, u
  <2>3. Updated(h, a, a.state, a.replay, q, a.out) BY <1>5, <2>1, <2>2, FeedParts, FeedUpdate
  <2>4. /\ h \in FeedType /\ SameRange(h, a) /\ h.state = "replaying" /\ h.replay = f.replay
        /\ h.out = a.out /\ h.interval = j
    BY <1>5, <1>11, <2>3 DEF Updated, SameRange
  <2>5. u = s BY <1>8, <2>4 DEF u
  <2>6. Sane(s, h) BY <1>7, <2>4, RangeOnly
  <2>7. Agrees(s, h)
    <3>1. CASE LetGo(s) BY <3>1 DEF Agrees
    <3>2. CASE ~LetGo(s)
      <4>1. /\ s.phase = "RECOVERING"
            /\ IF f.replay.interval = f.interval THEN Expects(s, f, f.oldest + f.replay.next) ELSE Outdated(s, f)
        BY <1>2, <1>5, <1>11, <3>2 DEF Agrees
      <4>2. Listens(s) /\ (s.boundary # NoRef => s.boundary.interval < j)
        <5>1. CASE f.replay.interval = f.interval
          <6>1. Listens(s) /\ (s.boundary # NoRef => s.boundary.interval = f.interval)
            BY <4>1, <5>1 DEF Expects, Ref
          <6> QED BY <1>4, <6>1
        <5>2. CASE f.replay.interval # f.interval
          <6>1. Listens(s) /\ (s.boundary # NoRef => s.boundary.interval < f.interval)
            BY <4>1, <5>2 DEF Outdated
          <6>2. s \in PipeType /\ (s.boundary # NoRef => s.boundary \in Refs)
            BY <1>2, PipeParts DEF Sane
          <6>3. s.boundary # NoRef => s.boundary.interval \in Nat BY <6>2, RefFacts
          <6> QED BY <1>3, <1>4, <6>1, <6>3
        <5> QED BY <5>1, <5>2
      <4>3. h.replay.interval # h.interval BY <1>3, <1>4, <1>5, <1>11, <2>4
      <4>4. Outdated(s, h) BY <2>4, <4>2 DEF Outdated
      <4> QED BY <2>4, <4>1, <4>3, <4>4 DEF Agrees
    <3> QED BY <3>1, <3>2
  <2> QED BY <1>1, <2>5, <2>6, <2>7 DEF Tracks, u
<1> QED BY <1>3, <1>5, <1>9, <1>10, <1>11

\* A replay that starts goes on behind what was applied.
LEMMA StartedTracked ==
  ASSUME NEW u, NEW f \in FeedType, f.oldest <= f.boundary + 1, Sane(u, f), Listens(u),
         u.phase = "RECOVERING", u.boundary # NoRef => IsResumable(f, u.boundary),
         NEW p \in PublicationType, p.type = "replay-started", p.interval = f.interval,
         p.first = OldestRetained(f), p.last = u.boundary.sequence, NEW bad,
         NEW from, from = IF u.boundary = NoRef THEN OldestRetained(f) ELSE u.boundary.sequence + 1,
         NEW next, next = IF from \in f.oldest..f.boundary THEN from - f.oldest ELSE RetainedLength(f)
  PROVE  LET t == observer(u, p, bad) IN
         /\ Sane(t, f) /\ t.phase = "RECOVERING" /\ Expects(t, f, f.oldest + next)
         /\ \A L : Shows(u, L) => Shows(t, L)
<1> DEFINE b == u.boundary
           x == IF b = NoRef THEN p.first ELSE p.last + 1
           w == [u EXCEPT !.gaps = {}, !.follower = p.interval, !.boundary = b,
                          !.interval = p.interval, !.next = x]
           t == observer(u, p, bad)
<1>1. u \in PipeType /\ Coherent(u) /\ Behind(u, f) /\ u.gaps = {} BY DEF Sane, Listens
<1>2. /\ f.oldest \in Nat /\ f.oldest >= 1 /\ f.boundary \in Nat /\ f.boundary <= MaxSequence
      /\ MaxSequence \in Nat /\ f.interval \in 1..MaxIntervals /\ f.interval \in Nat
  BY FeedFields
<1>3. b \in Refs \cup {NoRef} /\ u.live \in SUBSET Refs BY <1>1, PipeParts
<1>4. b # NoRef => /\ b = Ref(f.interval, b.sequence) /\ b.sequence \in Nat /\ b.sequence >= 1
                   /\ f.oldest - 1 <= b.sequence /\ b.sequence <= f.boundary /\ f.oldest <= f.boundary
  <2>1. SUFFICES ASSUME b # NoRef
                 PROVE  /\ b = Ref(f.interval, b.sequence) /\ b.sequence \in Nat /\ b.sequence >= 1
                        /\ f.oldest - 1 <= b.sequence /\ b.sequence <= f.boundary /\ f.oldest <= f.boundary
    OBVIOUS
  <2>2. b \in Refs BY <1>3, <2>1
  <2>3. b.interval = f.interval /\ (RetainedLength(f) > 0 => b.sequence \in (f.oldest - 1)..f.boundary)
    BY <2>1 DEF IsResumable
  <2>4. u.applied # <<>> /\ b = Last(u.applied) BY <1>1, <2>1 DEF Behind
  <2>5. f.oldest <= f.boundary BY <1>1, <1>2, <2>3, <2>4 DEF Behind
  <2>6. RetainedLength(f) > 0 BY <1>2, <2>5 DEF RetainedLength
  <2>7. b = Ref(b.interval, b.sequence) /\ b.sequence \in Nat /\ b.sequence >= 1
    BY <2>2, RefFacts
  <2>8. b.sequence \in (f.oldest - 1)..f.boundary BY <2>3, <2>6
  <2> HIDE DEF b
  <2> QED BY <1>2, <2>3, <2>5, <2>7, <2>8
<1>5. b = NoRef => p.last = 0 BY DEF NoRef
<1>6. b # NoRef => p.last # 0 /\ p.last = b.sequence BY <1>4
<1>7. t = setFollowerPhase(w, "RECOVERING")
  <2> DEFINE after == IF p.last = 0 THEN NoRef ELSE Ref(p.interval, p.last)
             nx == IF after = NoRef THEN p.first ELSE p.last + 1
             v == [resetAppliedProgress(u, after, p.interval) EXCEPT !.next = nx]
  <2>1. t = handleReplayStarted(u, p) BY ObserverCases DEF Listens
  <2>2. handleReplayStarted(u, p) = setFollowerPhase(v, "RECOVERING")
    BY Zenon DEF handleReplayStarted
  <2>3. after = b BY <1>4, <1>5, <1>6
  <2>4. (IF b = NoRef THEN p.interval ELSE b.interval) = p.interval BY <1>4 DEF Ref
  <2> HIDE DEF after, b
  <2>5. v = w
    <3>1. nx = x BY <2>3
    <3>2. v = [u EXCEPT !.gaps = {}, !.follower = p.interval, !.boundary = b,
                          !.interval = IF b = NoRef THEN p.interval ELSE b.interval, !.next = nx]
      BY <1>1, <2>3 DEF resetAppliedProgress, PipeType
    <3> HIDE DEF nx, x
    <3> QED BY <2>4, <3>1, <3>2
  <2> HIDE DEF t, v, w
  <2> QED BY <2>1, <2>2, <2>5
<1>8. x \in 0..(MaxSequence + 1) /\ p.interval \in 0..MaxIntervals BY <1>2 DEF PublicationType
<1>9. /\ x = f.oldest + next \/ (x = 0 /\ b = NoRef)
      /\ IF b = NoRef THEN f.oldest + next = f.oldest ELSE b = Ref(f.interval, (f.oldest + next) - 1)
      /\ f.oldest + next \in Nat
  <2>1. CASE b = NoRef
    <3>1. from = OldestRetained(f) /\ x = OldestRetained(f) BY <2>1
    <3>2. next = 0 /\ (x = f.oldest \/ x = 0) BY <1>2, <3>1 DEF OldestRetained, RetainedLength
    <3> QED BY <1>2, <2>1, <3>2
  <2>2. CASE b # NoRef
    <3>1. from = b.sequence + 1 /\ x = b.sequence + 1 BY <1>6, <2>2
    <3> DEFINE q == b.sequence
    <3>2. q \in Nat /\ f.oldest - 1 <= q /\ q <= f.boundary /\ from = q + 1 /\ b = Ref(f.interval, q)
      BY <1>4, <2>2, <3>1
    <3> HIDE DEF q, b
    <3>3. f.oldest + next = q + 1
      <4>1. CASE q + 1 <= f.boundary
        <5>1. from \in f.oldest..f.boundary BY <1>2, <3>2, <4>1
        <5>2. next = from - f.oldest BY <5>1
        <5> QED BY <1>2, <3>2, <5>2
      <4>2. CASE ~(q + 1 <= f.boundary)
        <5>1. q = f.boundary /\ from \notin f.oldest..f.boundary BY <1>2, <3>2, <4>2
        <5>2. next = f.boundary - f.oldest + 1 BY <5>1 DEF RetainedLength
        <5> QED BY <1>2, <5>1, <5>2
      <4> QED BY <4>1, <4>2
    <3>4. (f.oldest + next) - 1 = q /\ q + 1 \in Nat BY <3>2, <3>3
    <3>5. x = f.oldest + next BY <3>1, <3>3 DEF q
    <3> QED BY <2>2, <3>2, <3>3, <3>4, <3>5
  <2> QED BY <2>1, <2>2
<1> HIDE DEF x, b
<1>10. /\ w \in PipeType /\ SameAccount(w, u) /\ SameHold(w, u) /\ w.live = u.live
       /\ w.boundary = b /\ w.gaps = {} /\ w.interval = f.interval /\ w.next = x
  BY <1>1, <1>3, <1>8 DEF PipeType, SameAccount, SameHold
<1> HIDE DEF w, t
<1>11. /\ t \in PipeType /\ SameProgress(t, w) /\ SameAccount(t, w) /\ SameHold(t, w)
       /\ t.phase = "RECOVERING" /\ t.recovery.active /\ t.live = w.live
  <2>1. "RECOVERING" \in Phases BY DEF Phases
  <2> QED BY <1>7, <1>10, <2>1, PhaseSet
<1>12. SameAccount(t, u) /\ SameHold(t, u) /\ t.boundary = b /\ t.gaps = {} /\ t.interval = f.interval /\ t.next = x
       /\ t.live = u.live
  BY <1>10, <1>11 DEF SameAccount, SameHold, SameProgress
<1>13. Listens(t) /\ Coherent(t) BY <1>11, <1>12 DEF Listens, Coherent, SameHold
<1>14. Sane(t, f)
  <2>1. Cardinality(t.gaps) <= MaxGaps BY <1>12, FS_EmptySet, PipelineAssumption
  <2>2. t.boundary = u.boundary BY <1>12 DEF b
  <2> QED BY <1>11, <1>12, <1>13, <2>1, <2>2, SaneKept
<1>15. Expects(t, f, f.oldest + next) BY <1>9, <1>12, <1>13 DEF Expects
<1>16. \A L : Shows(u, L) => Shows(t, L) BY <1>12 DEF Shows
<1> QED BY <1>11, <1>14, <1>15, <1>16 DEF t

\* A follow: the pipeline recovers from its boundary, or is told that it cannot.
LEMMA FollowTracked ==
  ASSUME NEW u, NEW f \in FeedType, f.oldest <= f.boundary + 1, Sane(u, f), Listens(u),
         u.phase = "RECOVERING", NEW bad
  PROVE  LET g == follow(f, u.boundary, TRUE) IN Tracks(Observed(u, g.out, bad), g, u)
<1> DEFINE after == u.boundary
           o == unfollow(f)
           a == [o EXCEPT !.state = "replaying", !.out = <<>>]
           p == Publication("status", f.interval, 0, f.boundary)
           b == invoke(a, p)
           from == IF after = NoRef THEN OldestRetained(b) ELSE after.sequence + 1
           next == IF from \in b.oldest..b.boundary THEN from - b.oldest ELSE RetainedLength(b)
           r == [next |-> next, last |-> RetainedLength(b) - 1, interval |-> b.interval]
           x == [b EXCEPT !.replay = r]
           q == Publication("replay-started", b.interval, OldestRetained(b), after.sequence)
           e == Publication("replay-failed", b.interval, 0, b.boundary)
           g == follow(f, after, TRUE)
<1>1. g = IF after # NoRef /\ ~IsResumable(b, after) THEN unfollow(invoke(b, e)) ELSE invoke(x, q)
  BY DEF follow, startCooperativeReplay, failCooperativeReplay
<1>2. /\ f.boundary \in Nat /\ f.boundary \in 0..MaxSequence /\ f.oldest \in Nat /\ f.oldest >= 1
      /\ f.boundary <= MaxSequence
      /\ f.interval \in 1..MaxIntervals /\ MaxSequence \in Nat /\ 0 \in 0..MaxSequence
  BY FeedFields
<1>3. u \in PipeType /\ after \in Refs \cup {NoRef} BY PipeParts DEF Sane
<1>4. /\ o \in FeedType /\ SameRange(o, f) /\ o.replay = NoReplay /\ o.pending = <<>>
  BY UnfollowFields DEF Idle
<1> HIDE DEF o, g, after
<1>5. Updated(a, o, "replaying", o.replay, o.pending, <<>>)
  <2>1. <<>> \in Seq(PublicationType) OBVIOUS
  <2> QED BY <1>4, <2>1, FeedParts, FeedUpdate
<1>6. /\ a \in FeedType /\ SameRange(a, f) /\ a.state = "replaying" /\ a.out = <<>>
  BY <1>4, <1>5 DEF Updated, SameRange
<1>7. p \in PublicationType /\ p.type = "status"
  <2>1. "status" \in PublicationTypes BY DEF PublicationTypes
  <2> QED BY <1>2, <2>1, PublicationFields
<1> HIDE DEF a, p
<1>8. Observed(u, a.out, bad) = u
  <2>1. Len(a.out) = 0 /\ Len(a.out) \in Nat BY <1>6
  <2> QED BY <2>1, ObservedNothing
<1>9. /\ Updated(b, a, a.state, a.replay, a.pending, Append(a.out, p))
      /\ Observed(u, b.out, bad) = observer(Observed(u, a.out, bad), p, bad)
  <2>1. a.state # "none" BY <1>6
  <2> QED BY <1>6, <1>7, <2>1, Hears
<1> HIDE DEF b
<1>10. Observed(u, b.out, bad) = u
  <2>1. observer(u, p, bad) = u
    <3>1. u.following /\ ~u.closed /\ p.type \in {"status", "retention-advanced"}
      BY <1>7 DEF Listens
    <3> QED BY <3>1 DEF observer
  <2> QED BY <1>8, <1>9, <2>1
<1>11. /\ b \in FeedType /\ b.state = "replaying" /\ SameRange(b, f)
       /\ b.interval = f.interval /\ b.oldest = f.oldest /\ b.boundary = f.boundary
  BY <1>6, <1>9 DEF Updated, SameRange
<1>12. Sane(u, b) BY <1>11, RangeOnly
<1>13. CASE after # NoRef /\ ~IsResumable(b, after)
  <2> DEFINE v == invoke(b, e)
             t == observer(u, e, bad)
  <2>1. g = unfollow(v) BY <1>1, <1>13
  <2>2. e \in PublicationType /\ e.type = "replay-failed"
    <3>1. "replay-failed" \in PublicationTypes BY DEF PublicationTypes
    <3> QED BY <1>2, <1>11, <3>1, PublicationFields
  <2> HIDE DEF e
  <2>3. /\ Updated(v, b, b.state, b.replay, b.pending, Append(b.out, e))
        /\ Observed(u, v.out, bad) = observer(Observed(u, b.out, bad), e, bad)
    <3>1. b.state # "none" BY <1>11
    <3> QED BY <1>11, <2>2, <3>1, Hears
  <2> HIDE DEF v
  <2>4. g \in FeedType /\ SameRange(g, v) /\ g.out = v.out /\ SameRange(v, b)
    BY <2>1, <2>3, UnfollowFields DEF Updated
  <2>5. Sane(t, b) /\ LetGo(t) /\ \A L : Shows(u, L) => Shows(t, L)
    BY <1>12, <2>2, FailureTracked
  <2> HIDE DEF t
  <2>6. Sane(t, g)
    <3>1. SameRange(g, b) BY <2>4 DEF SameRange
    <3> QED BY <2>5, <3>1, RangeOnly
  <2>7. Observed(u, g.out, bad) = t BY <1>10, <2>3, <2>4 DEF t
  <2> QED BY <2>5, <2>6, <2>7 DEF Tracks, Agrees, g, after
<1>14. CASE ~(after # NoRef /\ ~IsResumable(b, after))
  <2> DEFINE t == observer(u, q, bad)
  <2>1. g = invoke(x, q) BY <1>1, <1>14
  <2>2. OldestRetained(b) \in 0..MaxSequence /\ after.sequence \in 0..MaxSequence
    <3>1. OldestRetained(b) \in 0..MaxSequence BY <1>2, <1>11 DEF OldestRetained, RetainedLength
    <3>2. after.sequence \in 0..MaxSequence BY <1>2, <1>3 DEF Refs, NoRef
    <3> QED BY <3>1, <3>2
  <2>3. /\ q \in PublicationType /\ q.type = "replay-started" /\ q.interval = b.interval
        /\ q.first = OldestRetained(b) /\ q.last = after.sequence
    <3>1. "replay-started" \in PublicationTypes BY DEF PublicationTypes
    <3> QED BY <1>2, <1>11, <2>2, <3>1, PublicationFields
  <2>4. /\ Sane(t, b) /\ t.phase = "RECOVERING" /\ Expects(t, b, b.oldest + next)
        /\ \A L : Shows(u, L) => Shows(t, L)
    <3>1. after # NoRef => IsResumable(b, after) BY <1>14
    <3>2. from = IF after = NoRef THEN OldestRetained(b) ELSE after.sequence + 1 OBVIOUS
    <3>3. next = IF from \in b.oldest..b.boundary THEN from - b.oldest ELSE RetainedLength(b)
      OBVIOUS
    <3>4. b.oldest <= b.boundary + 1 BY <1>11
    <3> HIDE DEF q, from, next
    <3> QED BY <1>11, <1>12, <2>3, <3>1, <3>2, <3>3, <3>4, StartedTracked DEF after
  <2>5. next \in 0..MaxSequence /\ RetainedLength(b) - 1 \in -1..(MaxSequence - 1) /\ next \in Nat
    <3>1. /\ b.oldest \in Nat /\ b.oldest >= 1 /\ b.boundary \in Nat /\ b.boundary <= MaxSequence
          /\ MaxSequence \in Nat /\ b.oldest <= b.boundary + 1
      BY <1>2, <1>11
    <3>2. RetainedLength(b) \in 0..MaxSequence /\ RetainedLength(b) - 1 \in -1..(MaxSequence - 1)
      BY <3>1 DEF RetainedLength
    <3>3. from \in b.oldest..b.boundary => from - b.oldest \in 0..MaxSequence
      <4> HIDE DEF from
      <4> QED BY <3>1
    <3> HIDE DEF from
    <3> QED BY <3>1, <3>2, <3>3
  <2> HIDE DEF q, from, next, t
  <2>6. r \in ReplayType /\ r.interval = b.interval /\ r.next = next
    <3>1. b.interval \in 0..MaxIntervals BY <1>2, <1>11
    <3> QED BY <2>5, <3>1 DEF ReplayType
  <2> HIDE DEF r
  <2>7. Updated(x, b, b.state, r, b.pending, b.out) BY <1>11, <2>6, FeedParts, FeedUpdate
  <2> HIDE DEF x
  <2>8. /\ Updated(g, x, x.state, x.replay, x.pending, Append(x.out, q))
        /\ Observed(u, g.out, bad) = observer(Observed(u, x.out, bad), q, bad)
    <3>1. x \in FeedType /\ x.state # "none" BY <1>11, <2>7 DEF Updated
    <3> QED BY <2>1, <2>3, <3>1, Hears
  <2>9. /\ SameRange(g, b) /\ g.state = "replaying" /\ g.replay = r /\ x.out = b.out
        /\ g.interval = b.interval /\ g.oldest = b.oldest
    BY <1>11, <2>7, <2>8 DEF Updated, SameRange
  <2>10. Observed(u, g.out, bad) = t BY <1>10, <2>8, <2>9 DEF t
  <2>11. Sane(t, g) /\ Expects(t, g, g.oldest + g.replay.next) BY <2>4, <2>6, <2>9, RangeOnly
  <2>12. Agrees(t, g) BY <2>4, <2>6, <2>9, <2>11 DEF Agrees
  <2> QED BY <2>4, <2>10, <2>11, <2>12 DEF Tracks, g, after
<1> QED BY <1>13, <1>14
-----------------------------------------------------------------------------
(* The end of a replay *)

\* Only one queued Clear leads to the current interval.
LEMMA LastClear ==
  ASSUME NEW f \in FeedType, NEW b \in 0..MaxSequence, NEW i \in 1..MaxIntervals, Queued(f, b, i),
         NEW n \in 1..Len(f.pending), IsClear(f.pending[n]), f.pending[n].interval = f.interval
  PROVE  f.oldest = f.pending[n].last + 1
<1> DEFINE q == f.pending
           N == Len(f.pending)
<1>1. /\ DOMAIN q = 1..N /\ N \in Nat /\ f.interval \in Nat
      /\ \A k \in 1..N : q[k].interval \in Nat
      /\ \A k \in 0..N : IntervalAt(q, k, i) \in Nat /\ i <= IntervalAt(q, k, i)
  <2>1. f.interval \in Nat BY FeedFields
  <2> QED BY <2>1, QueueFacts
<1>2. Continues(q, b, i) /\ QueueInOrder(q, b, i) BY DEF Queued
<1>3. \A k \in 1..N : IsClear(q[k]) => q[k].interval = IntervalAt(q, k - 1, i) + 1
  BY <1>1, <1>2 DEF Continues, IsClear, IsRange
<1>4. ASSUME NEW k \in 1..N, NEW m \in 1..N, k < m, IsClear(q[m]) PROVE q[k].interval < q[m].interval
  <2>1. m - 1 \in 1..N /\ m - 1 # 0 /\ (k = m - 1 \/ k < m - 1) BY <1>4
  <2>2. q[m].interval = q[m - 1].interval + 1 BY <1>3, <1>4, <2>1 DEF IntervalAt
  <2>3. q[k].interval <= q[m - 1].interval
    <3>1. CASE k = m - 1 BY <1>1, <3>1
    <3>2. CASE k < m - 1 BY <1>1, <1>2, <2>1, <3>2 DEF QueueInOrder
    <3> QED BY <2>1, <3>1, <3>2
  <2>4. q[k].interval \in Nat /\ q[m - 1].interval \in Nat BY <1>1, <2>1
  <2> QED BY <2>2, <2>3, <2>4
<1>5. i # f.interval
  <2>1. q[n].interval = IntervalAt(q, n - 1, i) + 1 /\ n - 1 \in 0..N BY <1>1, <1>3
  <2>2. IntervalAt(q, n - 1, i) \in Nat /\ i <= IntervalAt(q, n - 1, i) BY <1>1, <2>1
  <2> HIDE DEF q, N
  <2> QED BY <2>1, <2>2 DEF q
<1>6. PICK m \in 1..N : /\ IsClear(q[m]) /\ q[m].interval = f.interval /\ f.oldest = q[m].last + 1
  BY <1>1, <1>5 DEF Queued
<1> HIDE DEF q, N
<1>7. n \in 1..N /\ IsClear(q[n]) /\ q[n].interval = f.interval BY DEF q, N
<1>8. ~(n < m)
  <2>1. n < m => q[n].interval < q[m].interval BY <1>4, <1>6, <1>7
  <2> QED BY <1>1, <1>6, <1>7, <2>1
<1>9. ~(m < n)
  <2>1. m < n => q[m].interval < q[n].interval BY <1>4, <1>6, <1>7
  <2> QED BY <1>1, <1>6, <1>7, <2>1
<1>10. m = n BY <1>1, <1>8, <1>9
<1> QED BY <1>6, <1>10 DEF q

\* The pipeline t, which was live or let go, has been passed on what was queued
\* up to k in interval j, by the feed g; f is the feed before.
Passed(t, g, f, j, k) ==
  /\ g \in FeedType /\ SameRange(g, f) /\ g.pending = <<>> /\ Sane(t, f)
  /\ \/ LetGo(t)
     \/ /\ g.state = "live" /\ t.phase = "LIVE"
        /\ IF j = f.interval
             THEN \E m \in Nat : /\ k <= m /\ m <= f.boundary /\ f.oldest <= k + 1
                                 /\ Expects(t, f, m + 1)
             ELSE Outdated(t, f)

\* What one queued entry comes to.
LEMMA DrainShapes ==
  ASSUME NEW g \in FeedType, g.state # "none", NEW p \in QueueType, IsRange(p) \/ IsClear(p)
  PROVE  \/ drainOne(g, p) = g
         \/ \E r \in PublicationType : drainOne(g, p) = invoke(g, r)
         \/ \E r \in PublicationType : r.type = "replay-failed" /\ drainOne(g, p) = unfollow(invoke(g, r))
<1> DEFINE e == [p EXCEPT !.type = "committed-evidence"]
           r == Publication("replay-failed", g.interval, 0, g.boundary)
<1>1. r \in PublicationType /\ r.type = "replay-failed"
  <2>1. g.interval \in 1..MaxIntervals /\ g.boundary \in 0..MaxSequence /\ 0 \in 0..MaxSequence
    BY FeedFields
  <2>2. "replay-failed" \in PublicationTypes BY DEF PublicationTypes
  <2> QED BY <2>1, <2>2, PublicationFields
<1>2. e \in PublicationType BY DEF QueueType, PublicationType, PublicationTypes
<1>3. CASE ~IsRange(p)
  <2>1. p \in PublicationType BY <1>3 DEF IsClear, QueueType, PublicationType, PublicationTypes
  <2>2. drainOne(g, p) = invoke(g, p) BY <1>3 DEF drainOne, IsRange
  <2> QED BY <2>1, <2>2
<1>4. CASE IsRange(p) /\ (p.interval # g.interval \/ RetainedLength(g) = 0)
  BY <1>4 DEF drainOne, IsRange
<1>5. CASE IsRange(p) /\ ~(p.interval # g.interval \/ RetainedLength(g) = 0) /\ (p.first < g.oldest \/ p.last > g.boundary)
  <2>1. drainOne(g, p) = failCooperativeReplay(g) BY <1>5 DEF drainOne, IsRange
  <2>2. drainOne(g, p) = unfollow(invoke(g, r)) BY <2>1 DEF failCooperativeReplay
  <2> HIDE DEF r
  <2> QED BY <1>1, <2>2
<1>6. CASE IsRange(p) /\ ~(p.interval # g.interval \/ RetainedLength(g) = 0) /\ ~(p.first < g.oldest \/ p.last > g.boundary)
  <2>1. drainOne(g, p) = invoke(g, e) BY <1>6 DEF drainOne, IsRange
  <2> HIDE DEF e
  <2> QED BY <1>2, <2>1
<1> QED BY <1>3, <1>4, <1>5, <1>6

\* Whatever one entry comes to, a pipeline that let go does not hear it.
LEMMA DrainUnheard ==
  ASSUME NEW g \in FeedType, g.pending = <<>>, NEW p \in QueueType, IsRange(p) \/ IsClear(p),
         NEW s, NEW bad, NEW u, LetGo(u)
  PROVE  LET d == drainOne(g, p) IN
         /\ d \in FeedType /\ SameRange(d, g) /\ d.pending = <<>>
         /\ Observed(s, g.out, bad) = u => Observed(s, d.out, bad) = u
<1> DEFINE d == drainOne(g, p)
<1>0. SameRange(g, g) BY DEF SameRange
<1>1. CASE g.state = "none"
  <2>1. d = g BY <1>1 DEF drainOne
  <2> QED BY <1>0, <2>1
<1>2. CASE g.state # "none"
  <2>1. ASSUME NEW r \in PublicationType PROVE LET v == invoke(g, r) IN
               /\ v \in FeedType /\ SameRange(v, g) /\ v.pending = <<>>
               /\ Observed(s, g.out, bad) = u => Observed(s, v.out, bad) = u
    <3> DEFINE v == invoke(g, r)
    <3>1. /\ Updated(v, g, g.state, g.replay, g.pending, Append(g.out, r))
          /\ Observed(s, v.out, bad) = observer(Observed(s, g.out, bad), r, bad)
      BY <1>2, Hears
    <3>2. observer(u, r, bad) = u BY DeafStays
    <3> HIDE DEF v
    <3> QED BY <3>1, <3>2 DEF Updated, v
  <2>2. CASE d = g BY <1>0, <2>2
  <2>3. CASE \E r \in PublicationType : d = invoke(g, r)
    <3>1. PICK r \in PublicationType : d = invoke(g, r) BY <2>3
    <3> HIDE DEF d
    <3> QED BY <2>1, <3>1 DEF d
  <2>4. CASE \E r \in PublicationType : r.type = "replay-failed" /\ d = unfollow(invoke(g, r))
    <3>1. PICK r \in PublicationType : d = unfollow(invoke(g, r)) BY <2>4
    <3> DEFINE v == invoke(g, r)
    <3>2. /\ v \in FeedType /\ SameRange(v, g)
          /\ Observed(s, g.out, bad) = u => Observed(s, v.out, bad) = u
      BY <2>1
    <3> HIDE DEF d, v
    <3>3. d \in FeedType /\ SameRange(d, v) /\ d.pending = <<>> /\ d.out = v.out
      BY <3>1, <3>2, UnfollowFields DEF Idle, v
    <3> QED BY <3>2, <3>3 DEF SameRange, d
  <2> QED BY <1>2, <2>2, <2>3, <2>4, DrainShapes
<1> QED BY <1>1, <1>2

\* The queued entry p goes on from k in interval j, towards f.
Leads(p, f, j, k) ==
  /\ p.interval <= f.interval /\ p.last <= f.boundary
  /\ \/ IsRange(p) /\ p.interval = j /\ p.first = k + 1 /\ p.first <= p.last
     \/ IsClear(p) /\ p.interval = j + 1 /\ p.last = k
  /\ IsClear(p) /\ p.interval = f.interval => f.oldest = p.last + 1

\* A queued entry is passed on to a pipeline that is live, or that let go.
LEMMA DrainTracked ==
  ASSUME NEW f \in FeedType, NEW g, NEW u, NEW j \in Nat, NEW k \in Nat, Passed(u, g, f, j, k),
         NEW p \in QueueType, Leads(p, f, j, k), NEW s, NEW bad, bad \in Nat
  PROVE  LET d == drainOne(g, p)
             t == Observed(s, d.out, bad)
         IN  u = Observed(s, g.out, bad) =>
               Passed(t, d, f, p.interval, p.last) /\ \A L : Shows(u, L) => Shows(t, L)
<1> DEFINE d == drainOne(g, p)
           t == Observed(s, d.out, bad)
           Goal == u = Observed(s, g.out, bad) =>
                     Passed(t, d, f, p.interval, p.last) /\ \A L : Shows(u, L) => Shows(t, L)
<1>0. /\ p.interval <= f.interval /\ p.last <= f.boundary
      /\ \/ IsRange(p) /\ p.interval = j /\ p.first = k + 1 /\ p.first <= p.last
         \/ IsClear(p) /\ p.interval = j + 1 /\ p.last = k
      /\ IsClear(p) /\ p.interval = f.interval => f.oldest = p.last + 1
  BY DEF Leads
<1>1. g \in FeedType /\ SameRange(g, f) /\ g.pending = <<>> /\ Sane(u, f) /\ (IsRange(p) \/ IsClear(p))
  BY <1>0 DEF Passed
<1>2. /\ f.oldest \in Nat /\ f.oldest >= 1 /\ f.boundary \in Nat /\ f.interval \in Nat
      /\ p.interval \in Nat /\ p.first \in Nat /\ p.last \in Nat /\ f.interval \in 1..MaxIntervals
      /\ g.interval = f.interval /\ g.oldest = f.oldest /\ g.boundary = f.boundary
  BY <1>1, FeedFields DEF SameRange, QueueType
<1>3. ASSUME LetGo(u) PROVE Goal
  <2>1. /\ d \in FeedType /\ SameRange(d, g) /\ d.pending = <<>>
        /\ Observed(s, g.out, bad) = u => t = u
    <3>1. g \in FeedType /\ g.pending = <<>> /\ (IsRange(p) \/ IsClear(p)) /\ LetGo(u)
      BY <1>1, <1>3
    <3> QED BY <3>1, DrainUnheard
  <2>2. SameRange(d, f) BY <1>1, <2>1 DEF SameRange
  <2> HIDE DEF d, t
  <2>3. Passed(u, d, f, p.interval, p.last) BY <1>1, <1>3, <2>1, <2>2 DEF Passed
  <2> QED BY <2>1, <2>3
<1>4. ASSUME ~LetGo(u) PROVE Goal
  <2>1. /\ g.state = "live" /\ u.phase = "LIVE"
        /\ IF j = f.interval
             THEN \E m \in Nat : /\ k <= m /\ m <= f.boundary /\ f.oldest <= k + 1
                                 /\ Expects(u, f, m + 1)
             ELSE Outdated(u, f)
    BY <1>4 DEF Passed
  <2>2. ASSUME NEW r \in PublicationType PROVE LET v == invoke(g, r) IN
               /\ v \in FeedType /\ SameRange(v, f) /\ v.state = "live" /\ v.pending = <<>>
               /\ Observed(s, v.out, bad) = observer(Observed(s, g.out, bad), r, bad)
    <3> DEFINE v == invoke(g, r)
    <3>1. /\ Updated(v, g, g.state, g.replay, g.pending, Append(g.out, r))
          /\ Observed(s, v.out, bad) = observer(Observed(s, g.out, bad), r, bad)
      <4>1. g.state # "none" BY <2>1
      <4>2. g \in FeedType BY <1>1
      <4> QED BY <4>1, <4>2, Hears
    <3> HIDE DEF v
    <3> QED BY <1>1, <2>1, <3>1 DEF Updated, SameRange, v
  <2>3. ASSUME IsClear(p) /\ p.interval = j + 1 /\ p.last = k PROVE Goal
    <3>1. p \in PublicationType /\ p.type = "interval-cleared"
      BY <2>3 DEF IsClear, QueueType, PublicationType, PublicationTypes
    <3>2. d = invoke(g, p) BY <2>1, <3>1 DEF drainOne
    <3> HIDE DEF d
    <3>3. /\ d \in FeedType /\ SameRange(d, f) /\ d.state = "live" /\ d.pending = <<>>
          /\ t = observer(Observed(s, g.out, bad), p, bad)
      BY <2>2, <3>1, <3>2
    <3> DEFINE w == observer(u, p, bad)
    <3>4. j # f.interval /\ Outdated(u, f) BY <1>0, <1>2, <2>1, <2>3
    <3>5. /\ Sane(w, f) /\ w.phase = "LIVE" /\ \A L : Shows(w, L)
          /\ IF p.interval = f.interval THEN Expects(w, f, f.oldest) ELSE Outdated(w, f)
      <4>1. p.interval = f.interval => p.last + 1 = f.oldest BY <1>0, <1>2, <2>3
      <4> QED BY <1>1, <3>1, <3>4, <4>1, ClearTracked
    <3> HIDE DEF w, t
    <3>6. Passed(w, d, f, p.interval, p.last)
      <4>1. CASE p.interval = f.interval
        <5>1. f.oldest = p.last + 1 /\ Expects(w, f, p.last + 1) BY <1>0, <2>3, <3>5, <4>1
        <5>2. p.last \in Nat /\ p.last <= p.last /\ p.last <= f.boundary /\ f.oldest <= p.last + 1
          BY <1>0, <1>2, <5>1
        <5>3. \E m \in Nat : /\ p.last <= m /\ m <= f.boundary /\ f.oldest <= p.last + 1
                             /\ Expects(w, f, m + 1)
          BY <5>1, <5>2
        <5> QED BY <3>3, <3>5, <4>1, <5>3 DEF Passed
      <4>2. CASE p.interval # f.interval BY <3>3, <3>5, <4>2 DEF Passed
      <4> QED BY <4>1, <4>2
    <3> QED BY <3>3, <3>5, <3>6 DEF w
  <2>4. ASSUME IsRange(p) /\ p.interval = j /\ p.first = k + 1 /\ p.first <= p.last PROVE Goal
    <3>1. CASE p.interval # f.interval
      <4>1. d = g BY <1>2, <2>1, <2>4, <3>1 DEF drainOne, IsRange
      <4>2. Outdated(u, f) BY <2>1, <2>4, <3>1
      <4> HIDE DEF d
      <4>3. Passed(u, d, f, p.interval, p.last) BY <1>1, <2>1, <3>1, <4>1, <4>2 DEF Passed
      <4> QED BY <4>1, <4>3
    <3>2. CASE p.interval = f.interval
      <4> DEFINE e == [p EXCEPT !.type = "committed-evidence"]
      <4>1. PICK m \in Nat : /\ k <= m /\ m <= f.boundary /\ f.oldest <= k + 1 /\ Expects(u, f, m + 1)
        BY <2>1, <2>4, <3>2
      <4>2. /\ e \in PublicationType /\ e.type = "committed-evidence" /\ e.interval = f.interval
            /\ e.first = p.first /\ e.last = p.last
        BY <3>2 DEF QueueType, PublicationType, PublicationTypes
      <4>3. d = invoke(g, e)
        <5>1. f.oldest <= p.first /\ p.first <= p.last BY <1>2, <2>4, <4>1
        <5>2. ~(p.first < g.oldest) /\ ~(p.last > g.boundary) /\ RetainedLength(g) # 0
          BY <1>0, <1>2, <5>1 DEF RetainedLength
        <5> QED BY <1>2, <2>1, <2>4, <3>2, <5>2 DEF drainOne, IsRange
      <4> HIDE DEF d, e
      <4>4. /\ d \in FeedType /\ SameRange(d, f) /\ d.state = "live" /\ d.pending = <<>>
            /\ t = observer(Observed(s, g.out, bad), e, bad)
        BY <2>2, <4>2, <4>3
      <4> DEFINE w == observer(u, e, bad)
                 n == m + 1
      <4>5. w = applyPublication(u, e, bad)
        <5>1. u.following /\ ~u.closed BY <4>1 DEF Expects, Listens
        <5> QED BY <4>2, <5>1 DEF observer
      <4>6. n \in Nat /\ e.first \in Nat /\ e.last \in Nat /\ f.oldest <= e.first /\ e.first <= n
            /\ e.first <= e.last /\ e.last <= f.boundary /\ u.phase \in Following /\ Expects(u, f, n)
        BY <1>0, <1>2, <2>1, <2>4, <4>1, <4>2 DEF Following
      <4> HIDE DEF w, t, n
      <4>7. /\ Sane(w, f) /\ \A L : Shows(u, L) => Shows(w, L)
            /\ \/ w.phase = u.phase /\ Expects(w, f, IF e.last >= n THEN e.last + 1 ELSE n)
               \/ LetGo(w)
        BY <1>1, <4>2, <4>5, <4>6, EvidenceTracked
      <4>8. Passed(w, d, f, p.interval, p.last)
        <5>1. CASE LetGo(w) BY <4>4, <4>7, <5>1 DEF Passed
        <5>2. CASE ~LetGo(w)
          <6> DEFINE x == IF e.last >= n THEN e.last ELSE m
          <6>1. /\ x \in Nat /\ p.last <= x /\ x <= f.boundary /\ f.oldest <= p.last + 1
                /\ x + 1 = IF e.last >= n THEN e.last + 1 ELSE n
            BY <1>0, <1>2, <2>4, <4>1, <4>2, <4>6 DEF n
          <6> HIDE DEF x
          <6>2. w.phase = "LIVE" /\ Expects(w, f, x + 1) BY <2>1, <4>7, <5>2, <6>1
          <6>3. \E y \in Nat : /\ p.last <= y /\ y <= f.boundary /\ f.oldest <= p.last + 1
                               /\ Expects(w, f, y + 1)
            BY <6>1, <6>2
          <6> QED BY <3>2, <4>4, <4>7, <6>2, <6>3 DEF Passed
        <5> QED BY <5>1, <5>2
      <4> QED BY <4>4, <4>7, <4>8 DEF w
    <3> QED BY <3>1, <3>2
  <2> HIDE DEF Goal
  <2> QED BY <1>0, <2>3, <2>4
<1> HIDE DEF Goal
<1>5. Goal BY <1>3, <1>4
<1> QED BY <1>5 DEF Goal

\* The replay of f, whose follow found everything up to b, is on its way there.
Replays(f, b) ==
  /\ f.state = "replaying" /\ f.oldest <= f.boundary + 1
  /\ f.replay.interval \in 1..MaxIntervals /\ f.replay.interval <= f.interval
  /\ Queued(f, b, f.replay.interval)
  /\ f.replay.interval = f.interval => /\ f.oldest <= b + 1 /\ f.replay.last = b - f.oldest
                                       /\ f.oldest + f.replay.next - 1 <= f.boundary

\* Each entry of a queue leads on.
LEMMA QueueLeads ==
  ASSUME NEW f \in FeedType, NEW b \in 0..MaxSequence, NEW i \in 1..MaxIntervals, Queued(f, b, i),
         NEW n \in Nat, n + 1 \in 1..Len(f.pending)
  PROVE  LET q == f.pending
             p == q[n + 1]
         IN  /\ p \in QueueType /\ Leads(p, f, IntervalAt(q, n, i), EndAt(q, n, b))
             /\ IntervalAt(q, n + 1, i) = p.interval /\ EndAt(q, n + 1, b) = p.last
             /\ IntervalAt(q, n, i) \in Nat /\ EndAt(q, n, b) \in Nat
<1> DEFINE q == f.pending
           N == Len(f.pending)
           p == q[n + 1]
           j == IntervalAt(q, n, i)
           k == EndAt(q, n, b)
<1>1. /\ DOMAIN q = 1..N /\ N \in Nat /\ n + 1 \in 1..N /\ n \in 0..N /\ (n + 1) - 1 = n /\ n + 1 # 0
  <2>1. N \in Nat /\ DOMAIN q = 1..N BY QueueFacts
  <2> HIDE DEF q
  <2> QED BY <2>1
<1>2. /\ p \in QueueType /\ p.interval <= f.interval /\ p.last <= f.boundary
      /\ j \in Nat /\ k \in Nat
  <2>1. \A m \in 1..N : q[m] \in QueueType /\ q[m].interval <= f.interval /\ q[m].last <= f.boundary
    BY QueueFacts
  <2>2. \A m \in 0..N : IntervalAt(q, m, i) \in Nat /\ EndAt(q, m, b) \in Nat BY QueueFacts
  <2> HIDE DEF q, N
  <2> QED BY <1>1, <2>1, <2>2
<1>3. \/ IsRange(p) /\ p.interval = j /\ p.first = k + 1 /\ p.first <= p.last
      \/ IsClear(p) /\ p.interval = j + 1 /\ p.last = k
  <2>1. Continues(q, b, i) BY DEF Queued
  <2> HIDE DEF q, N
  <2> QED BY <1>1, <2>1 DEF Continues
<1>4. IsClear(p) /\ p.interval = f.interval => f.oldest = p.last + 1 BY <1>1, LastClear
<1>5. IntervalAt(q, n + 1, i) = p.interval /\ EndAt(q, n + 1, b) = p.last
  <2> HIDE DEF q
  <2> QED BY <1>1 DEF IntervalAt, EndAt
<1> HIDE DEF q, p, j, k
<1>6. Leads(p, f, j, k) BY <1>2, <1>3, <1>4 DEF Leads
<1> QED BY <1>2, <1>5, <1>6 DEF q, p, j, k

\* A replay that ends: the pipeline is live, and is told what was queued.
LEMMA FinishTracked ==
  ASSUME NEW f \in FeedType, NEW b \in 0..MaxSequence, Replays(f, b),
         f.replay.interval = f.interval => f.replay.next > f.replay.last,
         NEW s, NEW bad \in Nat, NEW u, Sane(u, f), Agrees(u, f)
  PROVE  LET g == finishCooperativeReplay(f) IN
         u = Observed(s, f.out, bad) => Tracks(Observed(s, g.out, bad), g, u)
<1> DEFINE a == [f EXCEPT !.state = "live", !.replay = NoReplay]
           i == f.replay.interval
           q == f.pending
           N == Len(f.pending)
           p == Publication("replay-complete", i, 0, f.boundary)
           e == invoke(a, p)
           g == drainPending(e)
           w == observer(u, p, bad)
<1>0. finishCooperativeReplay(f) = g BY DEF finishCooperativeReplay
<1>1. Updated(a, f, "live", NoReplay, f.pending, f.out) BY FeedParts, FeedUpdate
<1>2. /\ f.interval \in 1..MaxIntervals /\ f.boundary \in 0..MaxSequence /\ f.boundary \in Nat
      /\ f.oldest \in Nat /\ f.oldest >= 1 /\ f.interval \in Nat /\ MaxSequence \in Nat
      /\ f.replay.next \in Nat /\ f.replay.last \in Int /\ b \in Nat /\ 0 \in 0..MaxSequence
  BY FeedFields
<1>3. f.state = "replaying" /\ i \in 1..MaxIntervals /\ i <= f.interval /\ i \in Nat /\ Queued(f, b, i)
  BY DEF Replays
<1>4. /\ q \in Seq(QueueType) /\ N \in Nat
      /\ EndAt(q, N, b) = f.boundary /\ IntervalAt(q, N, i) = f.interval
  <2>1. q \in Seq(QueueType) /\ N \in Nat BY <1>3, QueueFacts
  <2> QED BY <1>3, <2>1 DEF Queued
<1>5. /\ p \in PublicationType /\ p.type = "replay-complete"
  <2>1. "replay-complete" \in PublicationTypes BY DEF PublicationTypes
  <2> QED BY <1>2, <1>3, <2>1, PublicationFields
<1>6. IF i = f.interval
        THEN \E m \in Nat : b <= m /\ m <= f.boundary /\ f.oldest <= b + 1 /\ m + 1 = f.oldest + f.replay.next
        ELSE TRUE
  <2>1. CASE i = f.interval
    <3>1. /\ f.oldest <= b + 1 /\ f.replay.last = b - f.oldest
          /\ f.oldest + f.replay.next - 1 <= f.boundary /\ f.replay.next > f.replay.last
      BY <2>1 DEF Replays
    <3> DEFINE m == f.oldest + f.replay.next - 1
    <3>2. m \in Nat /\ b <= m /\ m <= f.boundary /\ m + 1 = f.oldest + f.replay.next
      BY <1>2, <3>1
    <3> HIDE DEF m
    <3> QED BY <2>1, <3>1, <3>2
  <2>2. CASE i # f.interval BY <2>2
  <2> QED BY <2>1, <2>2
<1>7. /\ Sane(w, f) /\ \A L : Shows(u, L) => Shows(w, L)
      /\ \/ LetGo(w)
         \/ /\ w.phase = "LIVE"
            /\ IF i = f.interval
                 THEN \E m \in Nat : b <= m /\ m <= f.boundary /\ f.oldest <= b + 1 /\ Expects(w, f, m + 1)
                 ELSE Outdated(w, f)
  <2>1. CASE LetGo(u)
    <3>1. w = u BY <2>1, DeafStays
    <3> QED BY <2>1, <3>1
  <2>2. CASE ~LetGo(u)
    <3>1. IF i = f.interval THEN Expects(u, f, f.oldest + f.replay.next) ELSE Outdated(u, f)
      BY <1>3, <2>2 DEF Agrees
    <3>2. Listens(u) BY <3>1 DEF Expects, Outdated
    <3> HIDE DEF p
    <3>3. /\ Sane(w, f) /\ w.phase = "LIVE" /\ \A L : Shows(w, L)
          /\ \A n : Expects(u, f, n) => Expects(w, f, n)
          /\ Outdated(u, f) => Outdated(w, f)
      BY <1>5, <3>2, CompletionTracked
    <3> HIDE DEF w, i
    <3>4. CASE i = f.interval
      <4>1. PICK m \in Nat : b <= m /\ m <= f.boundary /\ f.oldest <= b + 1 /\ m + 1 = f.oldest + f.replay.next
        BY <1>6, <3>4
      <4>2. Expects(w, f, m + 1) BY <3>1, <3>3, <3>4, <4>1
      <4> QED BY <3>3, <3>4, <4>1, <4>2
    <3>5. CASE i # f.interval BY <3>1, <3>3, <3>5
    <3> QED BY <3>4, <3>5
  <2> QED BY <2>1, <2>2
<1> HIDE DEF a, p, w, i
<1>8. /\ Updated(e, a, a.state, a.replay, a.pending, Append(a.out, p))
      /\ Observed(s, e.out, bad) = observer(Observed(s, a.out, bad), p, bad)
  <2>1. a \in FeedType /\ a.state # "none" BY <1>1 DEF Updated
  <2> QED BY <1>5, <2>1, Hears
<1> HIDE DEF e
<1>9. /\ e \in FeedType /\ SameRange(e, f) /\ e.state = "live" /\ e.pending = q
      /\ u = Observed(s, f.out, bad) => Observed(s, e.out, bad) = w
  <2>1. a.out = f.out BY <1>1 DEF Updated
  <2>2. u = Observed(s, f.out, bad) => Observed(s, e.out, bad) = w BY <1>8, <2>1 DEF w
  <2> QED BY <1>1, <1>8, <2>2 DEF Updated, SameRange
<1>10. PICK d : /\ g = d[N] /\ d[0] = [e EXCEPT !.pending = <<>>]
                /\ \A n \in 1..N : d[n] = drainOne(d[n - 1], q[n])
  <2>1. Len(e.pending) = N /\ e.pending = q /\ e.state # "none" /\ Len(e.pending) \in Nat
    BY <1>4, <1>9
  <2>2. \E d : /\ drainPending(e) = d[Len(e.pending)]
               /\ d[0] = [e EXCEPT !.pending = <<>>]
               /\ \A n \in 1..Len(e.pending) : d[n] = drainOne(d[n - 1], e.pending[n])
    BY <2>1, DrainUnfolds
  <2> HIDE DEF q, N
  <2> QED BY <2>1, <2>2
<1> HIDE DEF g
<1> DEFINE t(n) == Observed(s, d[n].out, bad)
           Fits(n) == /\ Passed(t(n), d[n], f, IntervalAt(q, n, i), EndAt(q, n, b))
                      /\ \A L : Shows(u, L) => Shows(t(n), L)
           T == {n \in Nat : n <= N => Fits(n)}
<1>11. SUFFICES ASSUME u = Observed(s, f.out, bad) PROVE Tracks(Observed(s, g.out, bad), g, u)
  BY <1>0
<1>12. 0 \in T
  <2> DEFINE z == [e EXCEPT !.pending = <<>>]
  <2>1. Updated(z, e, e.state, e.replay, <<>>, e.out) BY <1>9, FeedParts, FeedUpdate
  <2>2. d[0] = z BY <1>10
  <2> HIDE DEF z
  <2>3. z \in FeedType /\ SameRange(z, f) /\ z.pending = <<>> /\ z.state = "live" /\ z.out = e.out
    BY <1>9, <2>1 DEF Updated, SameRange
  <2>4. t(0) = w BY <1>9, <1>11, <2>2, <2>3
  <2>5. IntervalAt(q, 0, i) = i /\ EndAt(q, 0, b) = b BY DEF IntervalAt, EndAt
  <2>6. Passed(w, z, f, i, b) BY <1>7, <2>3 DEF Passed
  <2>7. Fits(0)
    <3> HIDE DEF t
    <3> QED BY <1>7, <2>2, <2>4, <2>5, <2>6
  <2> HIDE DEF Fits
  <2> QED BY <2>7
<1>13. ASSUME NEW n \in Nat, n \in T PROVE n + 1 \in T
  <2>1. SUFFICES ASSUME n + 1 <= N PROVE Fits(n + 1) OBVIOUS
  <2>2. Fits(n) BY <1>4, <1>13, <2>1
  <2>3. n + 1 \in 1..N /\ (n + 1) - 1 = n BY <1>4, <2>1
  <2> DEFINE x == d[n]
             y == t(n)
             c == q[n + 1]
             j == IntervalAt(q, n, i)
             k == EndAt(q, n, b)
  <2>4. d[n + 1] = drainOne(x, c) BY <1>10, <2>3
  <2>5. /\ c \in QueueType /\ Leads(c, f, j, k) /\ j \in Nat /\ k \in Nat
        /\ IntervalAt(q, n + 1, i) = c.interval /\ EndAt(q, n + 1, b) = c.last
    <3>1. n + 1 \in 1..Len(f.pending) BY <2>3
    <3> QED BY <1>3, <3>1, QueueLeads
  <2>6. Passed(y, x, f, j, k) /\ \A L : Shows(u, L) => Shows(y, L) BY <2>2
  <2> DEFINE v == Observed(s, drainOne(x, c).out, bad)
  <2>7. y = Observed(s, x.out, bad) OBVIOUS
  <2>8. t(n + 1) = v BY <2>4
  <2> HIDE DEF x, y, c, j, k
  <2>9. Passed(v, drainOne(x, c), f, c.interval, c.last) /\ \A L : Shows(y, L) => Shows(v, L)
    <3>1. y = Observed(s, x.out, bad) =>
            Passed(v, drainOne(x, c), f, c.interval, c.last) /\ \A L : Shows(y, L) => Shows(v, L)
      <4>1. /\ Passed(y, x, f, j, k) /\ c \in QueueType /\ Leads(c, f, j, k) /\ j \in Nat /\ k \in Nat
        BY <2>5, <2>6
      <4> QED BY <4>1, DrainTracked
    <3> QED BY <2>7, <3>1
  <2> HIDE DEF t, v
  <2>10. \A L : Shows(u, L) => Shows(v, L) BY <2>6, <2>9
  <2> QED BY <2>4, <2>5, <2>8, <2>9, <2>10
<1>14. N \in T
  <2> HIDE DEF T
  <2> QED BY <1>4, <1>12, <1>13, Induction
<1>15. Fits(N) BY <1>4, <1>14
<1> DEFINE z == Observed(s, g.out, bad)
<1>16. Passed(z, g, f, f.interval, f.boundary) /\ \A L : Shows(u, L) => Shows(z, L)
  BY <1>4, <1>10, <1>15
<1> HIDE DEF z
<1>17. Sane(z, g) /\ SameRange(g, f) BY <1>16, RangeOnly DEF Passed
<1>18. Agrees(z, g)
  <2>1. CASE LetGo(z) BY <2>1 DEF Agrees
  <2>2. CASE ~LetGo(z)
    <3>1. /\ g.state = "live" /\ z.phase = "LIVE"
          /\ \E m \in Nat : f.boundary <= m /\ m <= f.boundary /\ Expects(z, f, m + 1)
      BY <1>16, <2>2 DEF Passed
    <3>2. Expects(z, f, f.boundary + 1)
      <4>1. PICK m \in Nat : f.boundary <= m /\ m <= f.boundary /\ Expects(z, f, m + 1) BY <3>1
      <4>2. m = f.boundary BY <1>2, <4>1
      <4> QED BY <4>1, <4>2
    <3>3. Expects(z, g, f.boundary + 1) /\ g.boundary = f.boundary
      BY <1>17, <3>2, RangeOnly DEF SameRange
    <3> QED BY <3>1, <3>3 DEF Agrees
  <2> QED BY <2>1, <2>2
<1> QED BY <1>16, <1>17, <1>18 DEF Tracks, z

\* A replay that is in progress is on its way to what its follow found.
LEMMA ReplaysFacts ==
  ASSUME NEW f, NEW l, NEW st, Good(f, l, st), Asked(st), f.state = "replaying"
  PROVE  st.boundary \in 0..MaxSequence /\ Replays(f, st.boundary)
<1> DEFINE i == f.replay.interval
           b == st.boundary
<1>1. f \in FeedType /\ f.oldest <= f.boundary + 1 /\ ReplayInv(f, l, st) BY DEF Good
<1>2. /\ f.interval \in 1..MaxIntervals /\ f.interval \in Nat /\ MaxIntervals \in Nat
  BY <1>1, FeedFields
<1>3. b \in 0..MaxSequence /\ b \in Nat /\ st.oldest \in Nat /\ st.oldest <= b + 1 BY AskedFacts
<1>4. i \in 1..f.interval /\ Queued(f, b, i) BY <1>1 DEF ReplayInv
<1>5. i = f.interval => /\ f.oldest = st.oldest /\ f.replay.last = b - f.oldest
                        /\ f.oldest + f.replay.next - 1 <= f.boundary
  BY <1>1 DEF ReplayInv
<1> HIDE DEF i, b
<1>6. i \in 1..MaxIntervals /\ i <= f.interval BY <1>2, <1>4
<1>7. i = f.interval => f.oldest <= b + 1 BY <1>3, <1>5
<1> QED BY <1>1, <1>3, <1>4, <1>5, <1>6, <1>7 DEF Replays, i, b

\* Whether they agree is about the subscription and the range.
LEMMA AgreesMoves ==
  ASSUME NEW f, NEW g, SameRange(g, f), g.state = f.state, g.replay = f.replay, NEW s, Agrees(s, f)
  PROVE  Agrees(s, g)
<1>1. /\ \A n : Expects(s, f, n) => Expects(s, g, n)
      /\ Outdated(s, f) => Outdated(s, g)
  BY RangeOnly
<1>2. g.interval = f.interval /\ g.oldest = f.oldest /\ g.boundary = f.boundary BY DEF SameRange
<1> QED BY <1>1, <1>2 DEF Agrees

\* The feed as a run of the History takes it up.
LEMMA QuietTracked ==
  ASSUME NEW s, NEW f, RunsOn(s, f), NEW bad PROVE LET a == [f EXCEPT !.out = <<>>] IN
         /\ RunsOn(s, a) /\ Updated(a, f, f.state, f.replay, f.pending, <<>>)
         /\ Observed(s, a.out, bad) = s
         /\ \A b : Replays(f, b) => Replays(a, b)
<1> DEFINE a == [f EXCEPT !.out = <<>>]
<1>1. f \in FeedType /\ f.oldest <= f.boundary + 1 /\ Sane(s, f) /\ Agrees(s, f) BY DEF RunsOn
<1>2. Updated(a, f, f.state, f.replay, f.pending, <<>>) BY <1>1, FeedParts, FeedUpdate
<1> HIDE DEF a
<1>3. /\ a \in FeedType /\ SameRange(a, f) /\ a.state = f.state /\ a.replay = f.replay
      /\ a.pending = f.pending /\ a.out = <<>>
  BY <1>2 DEF Updated
<1>4. a.interval = f.interval /\ a.oldest = f.oldest /\ a.boundary = f.boundary
  BY <1>3 DEF SameRange
<1>5. Sane(s, a) /\ Agrees(s, a) BY <1>1, <1>3, RangeOnly, AgreesMoves
<1>6. Observed(s, a.out, bad) = s
  <2>1. Len(<<>>) \in Nat /\ Len(<<>>) = 0 OBVIOUS
  <2> QED BY <1>3, <2>1, ObservedNothing
<1>7. \A b : Replays(f, b) => Replays(a, b) BY <1>3, <1>4 DEF Replays, Queued
<1>8. RunsOn(s, a) BY <1>1, <1>3, <1>4, <1>5 DEF RunsOn
<1> QED BY <1>2, <1>6, <1>7, <1>8 DEF a

\* The feed f whose replay moves from first on to last.
MovedOn(f, first, last) == [f EXCEPT !.replay.next = @ + last - first + 1, !.out = <<>>]

\* A chunk that is told: what the pipeline expects next is what comes behind it.
LEMMA ChunkTold ==
  ASSUME NEW s, NEW f, RunsOn(s, f), NEW b \in 0..MaxSequence, Replays(f, b),
         f.replay.interval = f.interval, NEW bad \in Nat,
         NEW first, first = f.oldest + f.replay.next, NEW last \in Nat, first <= last, last <= f.boundary,
         NEW e, e = MovedOn(f, first, last),
         NEW p, p = Publication("committed-evidence", f.interval, first, last)
  PROVE  LET g == invoke(e, p) IN
         /\ g \in FeedType /\ Replays(g, b) /\ g.replay.interval = g.interval
         /\ Tracks(Observed(s, g.out, bad), g, s)
<1> DEFINE i == f.interval
           n == f.replay.next + last - first + 1
           rp == [next |-> n, last |-> f.replay.last, interval |-> i]
           g == invoke(e, p)
           t == Observed(s, g.out, bad)
<1>1. f \in FeedType /\ f.oldest <= f.boundary + 1 /\ Sane(s, f) /\ Agrees(s, f) BY DEF RunsOn
<1>2. /\ f.boundary \in Nat /\ f.boundary \in 0..MaxSequence /\ f.oldest \in Nat /\ f.oldest >= 1
      /\ i \in 1..MaxIntervals /\ i \in Nat /\ MaxSequence \in Nat /\ f.boundary <= MaxSequence
      /\ f.replay.next \in Nat /\ f.replay \in ReplayType /\ f.oldest \in 1..(MaxSequence + 1)
      /\ f.replay.last \in -1..(MaxSequence - 1) /\ i \in 0..MaxIntervals
  BY <1>1, FeedFields, FeedParts
<1>3. /\ f.state = "replaying" /\ Queued(f, b, i) /\ f.oldest <= b + 1 /\ f.replay.last = b - f.oldest
  BY DEF Replays
<1>4. /\ first \in Nat /\ f.oldest <= first /\ first \in 0..MaxSequence /\ last \in 0..MaxSequence
      /\ n \in 0..MaxSequence /\ f.oldest + n = last + 1
  <2>1. first \in Nat /\ f.oldest <= first BY <1>2
  <2>2. f.oldest + n = last + 1 /\ n = last + 1 - f.oldest /\ last <= MaxSequence BY <1>2, <2>1
  <2> HIDE DEF n
  <2>3. n \in 0..MaxSequence BY <1>2, <2>1, <2>2
  <2> QED BY <1>2, <2>1, <2>2, <2>3
<1>5. e = ReplayedTo(f, rp) /\ rp \in ReplayType /\ rp.next = n /\ rp.last = f.replay.last /\ rp.interval = i
  <2>1. [f.replay EXCEPT !.next = n] = rp
    <3>1. \A m : \A y \in ReplayType : [y EXCEPT !.next = m] = [next |-> m, last |-> y.last, interval |-> y.interval]
      BY DEF ReplayType
    <3> HIDE DEF n
    <3> QED BY <1>2, <3>1
  <2>2. rp \in ReplayType
    <3> HIDE DEF n
    <3> QED BY <1>2, <1>4 DEF ReplayType
  <2>3. e = [f EXCEPT !.replay = [f.replay EXCEPT !.next = n], !.out = <<>>] BY DEF MovedOn
  <2>4. rp.next = n /\ rp.last = f.replay.last /\ rp.interval = i OBVIOUS
  <2> HIDE DEF rp, n
  <2> QED BY <2>1, <2>2, <2>3, <2>4 DEF ReplayedTo
<1> HIDE DEF n, rp, i
<1>6. Updated(e, f, f.state, rp, f.pending, <<>>)
  <2>1. i \in 1..MaxIntervals /\ f.boundary \in 0..MaxSequence /\ f.oldest \in 1..(MaxSequence + 1)
    BY <1>2
  <2>2. Updated(ReplayedTo(f, rp), f, f.state, rp, f.pending, <<>>)
    BY <1>1, <1>5, <2>1, RangeUpdate
  <2> QED BY <1>5, <2>2
<1>7. /\ p \in PublicationType /\ p.type = "committed-evidence" /\ p.interval = i
      /\ p.first = first /\ p.last = last
  <2>1. "committed-evidence" \in PublicationTypes BY DEF PublicationTypes
  <2>2. p = Publication("committed-evidence", i, first, last) BY DEF i
  <2> QED BY <1>2, <1>4, <2>1, <2>2, PublicationFields
<1>8. e \in FeedType /\ e.state = "replaying" /\ SameRange(e, f) /\ e.replay = rp /\ e.pending = f.pending
      /\ e.out = <<>>
  BY <1>3, <1>6 DEF Updated
<1>9. Observed(s, e.out, bad) = s
  <2>1. Len(<<>>) \in Nat /\ Len(<<>>) = 0 OBVIOUS
  <2> QED BY <1>8, <2>1, ObservedNothing
<1>10. /\ Updated(g, e, e.state, e.replay, e.pending, Append(e.out, p))
       /\ Observed(s, g.out, bad) = observer(Observed(s, e.out, bad), p, bad)
  <2>1. e \in FeedType /\ e.state # "none" /\ p \in PublicationType BY <1>7, <1>8
  <2> HIDE DEF g, t
  <2>2. /\ Updated(invoke(e, p), e, e.state, e.replay, e.pending, Append(e.out, p))
        /\ Observed(s, invoke(e, p).out, bad) = observer(Observed(s, e.out, bad), p, bad)
    BY <2>1, Hears
  <2> QED BY <2>2 DEF g
<1>11. t = observer(s, p, bad) BY <1>9, <1>10
<1> HIDE DEF g, t
<1>12. /\ g \in FeedType /\ g.state = "replaying" /\ g.replay = rp /\ g.pending = f.pending
       /\ g.interval = f.interval /\ g.oldest = f.oldest /\ g.boundary = f.boundary
  BY <1>8, <1>10 DEF Updated, SameRange
<1>13. Replays(g, b) /\ g.replay.interval = g.interval
  <2>1. g.replay.interval = i /\ g.interval = i /\ i \in 1..MaxIntervals /\ i <= i
    BY <1>2, <1>5, <1>12 DEF i
  <2>2. Queued(g, b, i) BY <1>3, <1>12 DEF Queued
  <2>3. g.oldest <= b + 1 /\ g.replay.last = b - g.oldest /\ g.oldest <= g.boundary + 1
    BY <1>1, <1>3, <1>5, <1>12
  <2>4. g.oldest + g.replay.next - 1 <= g.boundary
    <3>1. g.oldest + g.replay.next = last + 1 BY <1>4, <1>5, <1>12
    <3>2. g.oldest \in Nat /\ g.replay.next \in Nat /\ g.boundary \in Nat /\ last <= g.boundary
      BY <1>2, <1>4, <1>5, <1>12
    <3> QED BY <3>1, <3>2
  <2> QED BY <1>12, <2>1, <2>2, <2>3, <2>4 DEF Replays
<1>14. /\ Sane(t, f) /\ \A L : Shows(s, L) => Shows(t, L)
       /\ LetGo(t) \/ (t.phase = "RECOVERING" /\ Expects(t, f, last + 1))
  <2>1. CASE LetGo(s)
    <3>1. t = s BY <1>11, <2>1, DeafStays
    <3> QED BY <1>1, <2>1, <3>1
  <2>2. CASE ~LetGo(s)
    <3>1. s.phase = "RECOVERING" /\ Expects(s, f, first) BY <1>1, <1>3, <2>2 DEF Agrees
    <3>2. t = applyPublication(s, p, bad)
      <4>1. s.following /\ ~s.closed BY <3>1 DEF Expects, Listens
      <4>2. p.type = "committed-evidence" BY <1>7
      <4>3. observer(s, p, bad) = applyPublication(s, p, bad) BY <4>1, <4>2 DEF observer
      <4> QED BY <1>11, <4>3
    <3>3. /\ Sane(t, f) /\ \A L : Shows(s, L) => Shows(t, L)
          /\ \/ t.phase = s.phase /\ Expects(t, f, IF p.last >= first THEN p.last + 1 ELSE first)
             \/ LetGo(t)
      <4>1. s.phase \in Following BY <3>1 DEF Following
      <4>2. p.interval = f.interval /\ p.first \in Nat /\ p.last \in Nat /\ f.oldest <= p.first
            /\ p.first <= first /\ p.first <= p.last /\ p.last <= f.boundary
        BY <1>4, <1>7 DEF i
      <4>3. Expects(s, f, first) /\ first \in Nat /\ f \in FeedType /\ Sane(s, f)
        BY <1>1, <1>4, <3>1
      <4> QED BY <3>2, <4>1, <4>2, <4>3, EvidenceTracked
    <3>4. p.last >= first /\ p.last = last BY <1>4, <1>7
    <3> QED BY <3>1, <3>3, <3>4
  <2> QED BY <2>1, <2>2
<1>15. SameRange(g, f) BY <1>12 DEF SameRange
<1>16. Sane(t, g) BY <1>14, <1>15, RangeOnly
<1>17. Agrees(t, g)
  <2>1. CASE LetGo(t) BY <2>1 DEF Agrees
  <2>2. CASE ~LetGo(t)
    <3>1. t.phase = "RECOVERING" /\ Expects(t, g, last + 1) BY <1>14, <1>15, <2>2, RangeOnly
    <3>2. g.oldest + g.replay.next = last + 1 BY <1>4, <1>5, <1>12
    <3> QED BY <1>12, <1>13, <3>1, <3>2 DEF Agrees
  <2> QED BY <2>1, <2>2
<1> QED BY <1>12, <1>13, <1>14, <1>16, <1>17 DEF Tracks, g, t

\* A replay chunk: the pipeline goes on, or what was recovered is complete.
LEMMA ChunkTracked ==
  ASSUME NEW s, NEW f, RunsOn(s, f), NEW b \in 0..MaxSequence, Replays(f, b), NEW bad \in Nat
  PROVE  LET g == runCooperativeReplayChunk(f) IN Tracks(Observed(s, g.out, bad), g, s)
<1> DEFINE a == [f EXCEPT !.out = <<>>]
           i == f.replay.interval
           first == f.oldest + f.replay.next
           last == IF first + ChunkSize - 1 < f.boundary THEN first + ChunkSize - 1 ELSE f.boundary
           p == Publication("committed-evidence", f.interval, first, last)
           e == [f EXCEPT !.replay.next = @ + last - first + 1, !.out = <<>>]
           g == IF first <= last THEN invoke(e, p) ELSE a
           z == runCooperativeReplayChunk(f)
<1>1. z = IF f.interval # i THEN finishCooperativeReplay(a)
          ELSE IF g.replay.next <= g.replay.last THEN g ELSE finishCooperativeReplay(g)
  BY DEF runCooperativeReplayChunk
<1>2. /\ RunsOn(s, a) /\ Replays(a, b) /\ Observed(s, a.out, bad) = s
      /\ Updated(a, f, f.state, f.replay, f.pending, <<>>)
  BY QuietTracked
<1>3. /\ f \in FeedType /\ f.boundary \in Nat /\ f.oldest \in Nat /\ f.replay.next \in Nat
      /\ ChunkSize \in Nat /\ ChunkSize >= 1
  <2>1. f \in FeedType BY DEF RunsOn
  <2> QED BY <2>1, FeedFields, FeedAssumption
<1>4. first \in Nat /\ last \in Nat /\ last <= f.boundary
  <2>1. first \in Nat BY <1>3
  <2> DEFINE y == first + ChunkSize - 1
             h == f.boundary
  <2>2. last = IF y < h THEN y ELSE h OBVIOUS
  <2>3. y \in Nat /\ h \in Nat
    <3> HIDE DEF first
    <3> QED BY <1>3, <2>1
  <2> HIDE DEF first, last, y, h
  <2>4. last \in Nat /\ last <= h BY <2>2, <2>3
  <2> QED BY <2>1, <2>4 DEF h
<1>5. a \in FeedType /\ Sane(s, a) /\ Agrees(s, a) /\ a.replay.interval = i /\ a.interval = f.interval
  BY <1>2 DEF RunsOn, Updated, SameRange
<1> HIDE DEF a, last
<1>6. CASE f.interval # i
  <2>1. a.replay.interval = a.interval => a.replay.next > a.replay.last BY <1>5, <1>6
  <2>2. a \in FeedType /\ Sane(s, a) /\ Agrees(s, a) /\ Replays(a, b) BY <1>2, <1>5
  <2>3. LET y == finishCooperativeReplay(a) IN
        s = Observed(s, a.out, bad) => Tracks(Observed(s, y.out, bad), y, s)
    BY <2>1, <2>2, FinishTracked
  <2>4. z = finishCooperativeReplay(a) BY <1>1, <1>6
  <2> HIDE DEF z
  <2> QED BY <1>2, <2>3, <2>4 DEF z
<1>7. CASE f.interval = i
  <2> DEFINE t == Observed(s, g.out, bad)
  <2>1. /\ g \in FeedType /\ Replays(g, b) /\ g.replay.interval = g.interval /\ Tracks(t, g, s)
    <3>1. CASE first <= last
      <4>1. g = invoke(e, p) BY <3>1
      <4> HIDE DEF g
      <4>2. LET y == invoke(e, p) IN
            /\ y \in FeedType /\ Replays(y, b) /\ y.replay.interval = y.interval
            /\ Tracks(Observed(s, y.out, bad), y, s)
        <5>1. f.replay.interval = f.interval /\ first = f.oldest + f.replay.next BY <1>7
        <5>2. e = MovedOn(f, first, last) BY DEF MovedOn
        <5>3. p = Publication("committed-evidence", f.interval, first, last) OBVIOUS
        <5> HIDE DEF i, first, e, p, z
        <5>4. /\ RunsOn(s, f) /\ b \in 0..MaxSequence /\ Replays(f, b) /\ bad \in Nat
              /\ last \in Nat /\ first <= last /\ last <= f.boundary
          BY <1>4, <3>1
        <5> QED BY <5>1, <5>2, <5>3, <5>4, ChunkTold
      <4> HIDE DEF e, p
      <4> QED BY <4>1, <4>2
    <3>2. CASE ~(first <= last)
      <4>1. g = a BY <3>2
      <4> HIDE DEF g
      <4>2. Tracks(s, a, s) BY <1>5 DEF Tracks
      <4> QED BY <1>2, <1>5, <1>7, <4>1, <4>2
    <3> QED BY <3>1, <3>2
  <2> HIDE DEF g
  <2>2. CASE g.replay.next <= g.replay.last
    <3>1. z = g BY <1>1, <1>7, <2>2
    <3> HIDE DEF z
    <3> QED BY <2>1, <3>1 DEF z
  <2>3. CASE ~(g.replay.next <= g.replay.last)
    <3>1. z = finishCooperativeReplay(g) BY <1>1, <1>7, <2>3
    <3>2. g.replay.interval = g.interval => g.replay.next > g.replay.last
      <4>1. g.replay.next \in Int /\ g.replay.last \in Int BY <2>1, FeedFields
      <4> QED BY <2>3, <4>1
    <3>3. t = Observed(s, g.out, bad) OBVIOUS
    <3> HIDE DEF t, z
    <3>4. g \in FeedType /\ Replays(g, b) /\ Sane(t, g) /\ Agrees(t, g) /\ \A L : Shows(s, L) => Shows(t, L)
      BY <2>1 DEF Tracks
    <3>5. LET y == finishCooperativeReplay(g) IN
          t = Observed(s, g.out, bad) => Tracks(Observed(s, y.out, bad), y, t)
      <4>1. g \in FeedType /\ Replays(g, b) /\ Sane(t, g) /\ Agrees(t, g) BY <3>4
      <4> QED BY <3>2, <4>1, FinishTracked
    <3>6. Tracks(Observed(s, z.out, bad), z, t) BY <3>1, <3>3, <3>5
    <3>7. Tracks(Observed(s, z.out, bad), z, s) BY <3>4, <3>6 DEF Tracks
    <3> QED BY <3>7 DEF z
  <2> QED BY <2>2, <2>3
<1> QED BY <1>6, <1>7

-----------------------------------------------------------------------------
(* The steps of the pipeline *)

\* The feed between two runs, and the pipeline that follows it.
Steady(f, s) ==
  /\ f.out = <<>> /\ \E l, st : Asked(st) /\ Good(f, l, st)
  /\ Sane(s, f) /\ Agrees(s, f) /\ (s.following <=> f.state # "none")

\* The inductive invariant.
PipeInv == restarts \in 0..MaxRestarts /\ Steady(feed, pipe)

\* What the feed is good for does not depend on what a run has published.
LEMMA GoodBetweenRuns ==
  ASSUME NEW f, NEW l, NEW st, Good(f, l, st) PROVE LET a == [f EXCEPT !.out = <<>>]
             d == unfollow(a)
         IN  /\ a.out = <<>> /\ SameRange(a, f) /\ a.state = f.state /\ a.replay = f.replay
             /\ d.out = <<>> /\ SameRange(d, f) /\ d.state = "none"
             /\ Good(a, l, st) /\ Good(d, l, st)
<1> DEFINE a == [f EXCEPT !.out = <<>>]
           d == unfollow(a)
<1>1. f \in FeedType /\ f.oldest <= f.boundary + 1 /\ Orderly(l, f.interval, st) BY DEF Good
<1>2. Updated(a, f, f.state, f.replay, f.pending, <<>>) BY <1>1, FeedParts, FeedUpdate
<1> HIDE DEF a
<1>3. /\ a \in FeedType /\ a.interval = f.interval /\ a.oldest = f.oldest /\ a.boundary = f.boundary
      /\ a.state = f.state /\ a.replay = f.replay /\ a.pending = f.pending /\ a.out = <<>>
  BY <1>2 DEF Updated, SameRange
<1>4. d \in FeedType /\ SameRange(d, a) /\ d.state = "none" /\ Idle(d) /\ d.out = <<>>
  BY <1>3, UnfollowFields
<1> HIDE DEF d
<1>5. d.interval = f.interval /\ d.oldest = f.oldest /\ d.boundary = f.boundary
  BY <1>3, <1>4 DEF SameRange
<1>6. Idle(f) => Idle(a) BY <1>3 DEF Idle
<1>7. LiveInv(f, l, st) => LiveInv(a, l, st) BY <1>3 DEF LiveInv
<1>8. ReplayInv(f, l, st) => ReplayInv(a, l, st) BY <1>3 DEF ReplayInv, Queued
<1>9. Good(a, l, st)
  <2>1. a.oldest <= a.boundary + 1 /\ Orderly(l, a.interval, st) BY <1>1, <1>3
  <2>2. /\ f.state = "none" => Idle(f)
        /\ f.state = "live" => Idle(f) /\ LiveInv(f, l, st)
        /\ f.state = "replaying" => ReplayInv(f, l, st)
    BY DEF Good
  <2> QED BY <1>3, <1>6, <1>7, <1>8, <2>1, <2>2 DEF Good
<1>10. Good(d, l, st) BY <1>1, <1>4, <1>5 DEF Good
<1> QED BY <1>3, <1>4, <1>5, <1>9, <1>10 DEF a, d, SameRange

\* A pipeline that hears something of its feed is subscribed to it.
LEMMA FollowsOrLetGo ==
  ASSUME NEW s, NEW f, Agrees(s, f)
  PROVE  /\ ~s.following => LetGo(s)
         /\ s.following => /\ ~LetGo(s) /\ f.state # "none"
                           /\ \/ f.state = "live" /\ s.phase = "LIVE"
                              \/ f.state = "replaying" /\ s.phase = "RECOVERING"
<1>1. (\A n : Expects(s, f, n) => s.following) /\ (Outdated(s, f) => s.following)
  BY DEF Expects, Outdated, Listens
<1>2. LetGo(s) => ~s.following BY DEF LetGo
<1> QED BY <1>1, <1>2 DEF Agrees

\* A pipeline that let go during a run is not subscribed after it.
LEMMA AttachedSteady ==
  ASSUME NEW g, \E l, st : Asked(st) /\ Good(g, l, st), NEW t, Sane(t, g), Agrees(t, g)
  PROVE  Steady(Attached([g EXCEPT !.out = <<>>], t), t)
<1> DEFINE a == [g EXCEPT !.out = <<>>]
           d == unfollow(a)
<1>1. PICK l, st : Asked(st) /\ Good(g, l, st) OBVIOUS
<1>2. /\ a.out = <<>> /\ SameRange(a, g) /\ a.state = g.state /\ a.replay = g.replay
      /\ d.out = <<>> /\ SameRange(d, g) /\ d.state = "none"
      /\ Good(a, l, st) /\ Good(d, l, st)
  BY <1>1, GoodBetweenRuns
<1>3. Attached(a, t) = IF t.following THEN a ELSE d BY DEF Attached
<1> HIDE DEF a, d
<1>4. CASE t.following
  <2>1. g.state # "none" BY <1>4, FollowsOrLetGo
  <2>2. Sane(t, a) /\ Agrees(t, a) BY <1>2, RangeOnly, AgreesMoves
  <2>3. Steady(a, t) BY <1>1, <1>2, <1>4, <2>1, <2>2 DEF Steady
  <2> QED BY <1>3, <1>4, <2>3 DEF a
<1>5. CASE ~t.following
  <2>1. LetGo(t) BY <1>5, FollowsOrLetGo
  <2>2. Sane(t, d) /\ Agrees(t, d) BY <1>2, <2>1, RangeOnly DEF Agrees
  <2>3. Steady(d, t) BY <1>1, <1>2, <1>5, <2>2 DEF Steady
  <2> QED BY <1>3, <1>5, <2>3 DEF a
<1> QED BY <1>4, <1>5

\* A run of the History, and what comes of it.
LEMMA RunKeeps ==
  ASSUME NEW g, NEW s, Runs(g, s), \E l, st : Asked(st) /\ Good(g, l, st),
         NEW u, \A bad \in Nat : Tracks(Observed(s, g.out, bad), g, u)
  PROVE  Steady(feed', pipe') /\ \A L : Shows(u, L) => Shows(pipe', L)
<1>1. MaxSequence \in Nat BY FeedAssumption
<1>2. PICK bad \in 0..MaxSequence :
        /\ pipe' = Observed(s, g.out, bad)
        /\ feed' = Attached([g EXCEPT !.out = <<>>], pipe')
  BY DEF Runs
<1>3. bad \in Nat BY <1>1
<1>4. Tracks(pipe', g, u) BY <1>2, <1>3
<1>5. Sane(pipe', g) /\ Agrees(pipe', g) /\ \A L : Shows(u, L) => Shows(pipe', L)
  BY <1>4 DEF Tracks
<1>6. Steady(Attached([g EXCEPT !.out = <<>>], pipe'), pipe') BY <1>5, AttachedSteady
<1> QED BY <1>2, <1>5, <1>6

\* A pipeline that lets go, and unsubscribes.
LEMMA LeavesSteady ==
  ASSUME NEW f, NEW s, Steady(f, s), NEW t, Sane(t, f), LetGo(t) PROVE Steady(unfollow(f), t)
<1> DEFINE d == unfollow(f)
<1>1. PICK l, st : Asked(st) /\ Good(f, l, st) BY DEF Steady
<1>2. f \in FeedType /\ f.oldest <= f.boundary + 1 /\ Orderly(l, f.interval, st) /\ f.out = <<>>
  BY <1>1 DEF Good, Steady
<1>3. d \in FeedType /\ SameRange(d, f) /\ d.state = "none" /\ Idle(d) /\ d.out = <<>>
  BY <1>2, UnfollowFields
<1> HIDE DEF d
<1>4. d.interval = f.interval /\ d.oldest = f.oldest /\ d.boundary = f.boundary
  BY <1>3 DEF SameRange
<1>5. Good(d, l, st) BY <1>2, <1>3, <1>4 DEF Good
<1>6. Sane(t, d) /\ Agrees(t, d) /\ ~t.following BY <1>3, RangeOnly DEF Agrees, LetGo
<1>7. Steady(d, t) BY <1>1, <1>3, <1>5, <1>6 DEF Steady
<1> QED BY <1>7 DEF d

\* The pipeline as it subscribes: it recovers from its boundary, and what it
\* shows stays.
LEMMA Prepares ==
  ASSUME NEW s, NEW f, Sane(s, f), ~s.closed, ~s.restarting
  PROVE  LET t == setFollowerPhase(resetAppliedProgress(s, s.boundary, s.follower), "RECOVERING")
             u == [t EXCEPT !.following = TRUE]
         IN  /\ Sane(u, f) /\ Listens(u) /\ u.phase = "RECOVERING" /\ u.boundary = s.boundary
             /\ u.live = s.live
<1> DEFINE b == s.boundary
           r == resetAppliedProgress(s, b, s.follower)
           t == setFollowerPhase(r, "RECOVERING")
           u == [t EXCEPT !.following = TRUE]
           i == IF b = NoRef THEN s.follower ELSE b.interval
           n == IF b = NoRef THEN 0 ELSE b.sequence + 1
<1>1. s \in PipeType /\ MaxGaps \in Nat /\ MaxSequence \in Nat /\ MaxIntervals \in Nat
  BY FeedAssumption, PipelineAssumption DEF Sane
<1>2. b \in Refs \cup {NoRef} /\ s.follower \in 0..MaxIntervals BY <1>1, PipeParts
<1>3. i \in 0..MaxIntervals /\ n \in 0..(MaxSequence + 1)
  <2>1. CASE b = NoRef BY <1>1, <1>2, <2>1
  <2>2. CASE b # NoRef
    <3>1. b.interval \in 1..MaxIntervals /\ b.sequence \in 1..MaxSequence
      BY <1>2, <2>2, RefFacts
    <3> HIDE DEF b
    <3> QED BY <1>1, <2>2, <3>1
  <2> QED BY <2>1, <2>2
<1>4. r = [s EXCEPT !.gaps = {}, !.follower = s.follower, !.boundary = b, !.interval = i, !.next = n]
  BY DEF resetAppliedProgress
<1> HIDE DEF i, n, r
<1>5. /\ r \in PipeType /\ SameAccount(r, s) /\ SameHold(r, s) /\ r.live = s.live
      /\ r.gaps = {} /\ r.boundary = b
  BY <1>1, <1>2, <1>3, <1>4 DEF PipeType, SameAccount, SameHold
<1>6. /\ t \in PipeType /\ SameProgress(t, r) /\ SameAccount(t, r) /\ SameHold(t, r)
      /\ t.phase = "RECOVERING" /\ t.recovery.active /\ t.live = r.live
  <2>1. "RECOVERING" \in Phases BY DEF Phases
  <2> QED BY <1>5, <2>1, PhaseSet
<1> HIDE DEF t
<1>7. /\ u \in PipeType /\ SameProgress(u, t) /\ SameAccount(u, t)
      /\ u.closed = t.closed /\ u.restarting = t.restarting /\ u.following
      /\ u.phase = t.phase /\ u.recovery = t.recovery /\ u.live = t.live
  BY <1>6 DEF PipeType, SameProgress, SameAccount
<1> HIDE DEF u
<1>8. SameAccount(u, s) /\ u.boundary = s.boundary /\ u.gaps = {} /\ ~u.closed /\ ~u.restarting
      /\ u.phase = "RECOVERING" /\ u.recovery.active /\ u.live = s.live
  BY <1>5, <1>6, <1>7 DEF SameAccount, SameProgress, SameHold, b
<1>9. Cardinality(u.gaps) <= MaxGaps
  <2>1. Cardinality({}) = 0 BY FS_EmptySet
  <2> QED BY <1>1, <1>8, <2>1
<1>10. Coherent(u) BY <1>8 DEF Coherent
<1>11. Sane(u, f) BY <1>7, <1>8, <1>9, <1>10, SaneKept
<1>12. Listens(u) BY <1>7, <1>8 DEF Listens
<1> QED BY <1>8, <1>11, <1>12 DEF u, t, r, b

\* A pipeline that subscribes follows its feed from then on.
LEMMA StartFollowingKeeps ==
  ASSUME NEW s, Sane(s, feed), ~s.closed, ~s.restarting, startFollowing(s),
         feed \in FeedType, feed.oldest <= feed.boundary + 1
  PROVE  Steady(feed', pipe') /\ Shows(pipe', s.live)
<1> DEFINE u == [setFollowerPhase(resetAppliedProgress(s, s.boundary, s.follower), "RECOVERING")
                   EXCEPT !.following = TRUE]
           g == follow(feed, s.boundary, TRUE)
<1>1. Runs(g, u) BY DEF startFollowing
<1>2. /\ Sane(u, feed) /\ Listens(u) /\ u.phase = "RECOVERING" /\ u.boundary = s.boundary
      /\ u.live = s.live
  BY Prepares
<1> HIDE DEF u
<1>3. ASSUME NEW bad \in Nat PROVE Tracks(Observed(u, g.out, bad), g, u)
  <2>1. LET h == follow(feed, u.boundary, TRUE) IN Tracks(Observed(u, h.out, bad), h, u)
    BY <1>2, FollowTracked
  <2> QED BY <1>2, <2>1
<1>4. \E l, st : Asked(st) /\ Good(g, l, st)
  <2> DEFINE st == [after |-> s.boundary, oldest |-> feed.oldest, boundary |-> feed.boundary,
                    cooperative |-> TRUE]
  <2>1. s.boundary \in Refs \cup {NoRef} /\ TRUE \in BOOLEAN BY PipeParts DEF Sane
  <2>2. Asked(st) /\ Good(g, g.out, st) BY <2>1, FollowIsGood
  <2> QED BY <2>2
<1> HIDE DEF g
<1>5. Steady(feed', pipe') /\ \A L : Shows(u, L) => Shows(pipe', L)
  BY <1>1, <1>3, <1>4, RunKeeps
<1>6. Shows(u, s.live) BY <1>2 DEF Shows
<1> QED BY <1>5, <1>6

\* What is shown by a pipeline now, while a recovery is hidden, is shown next.
StaysHidden == Shows(pipe', pipe.live)

\* The invariant holds before the pipeline starts.
LEMMA PipeInvInit == PipelineInit => PipeInv
<1> SUFFICES ASSUME PipelineInit PROVE PipeInv OBVIOUS
<1>1. /\ MaxSequence \in Nat /\ MaxIntervals \in Nat /\ 1 \in 1..MaxIntervals /\ MaxRestarts \in Nat
      /\ MaxGaps \in Nat /\ 1 \in 1..(MaxSequence + 1) /\ 0 \in 0..MaxSequence
  BY FeedAssumption, PipelineAssumption
<1>2. InitialFeed \in FeedType
  <2>1. NoReplay \in ReplayType /\ <<>> \in Seq(QueueType) /\ <<>> \in Seq(PublicationType)
    BY <1>1 DEF NoReplay, ReplayType
  <2> QED BY <1>1, <2>1 DEF InitialFeed, FeedType, ReplayType, QueueType, PublicationType
<1>3. /\ feed.interval = 1 /\ feed.oldest = 1 /\ feed.boundary = 0 /\ feed.out = <<>>
      /\ feed.state = "none" /\ feed.replay = NoReplay /\ feed.pending = <<>> /\ feed \in FeedType
  BY <1>2 DEF InitialFeed, PipelineInit
<1>4. \E l, st : Asked(st) /\ Good(feed, l, st)
  <2> DEFINE st == [after |-> NoRef, oldest |-> 1, boundary |-> 0, cooperative |-> FALSE]
  <2>1. Asked(st) BY <1>1 DEF Asked
  <2>2. Orderly(<<>>, 1, st) BY <1>1, NothingTold
  <2> HIDE DEF st
  <2>3. Good(feed, <<>>, st) BY <1>3, <2>2 DEF Good, Idle
  <2> QED BY <2>1, <2>3
<1>5. pipe = IdlePipe BY DEF PipelineInit
<1>6. pipe \in PipeType
  <2>1. "IDLE" \in Phases /\ NoRecovery \in RecoveryType /\ [r \in Refs |-> 0] \in [Refs -> 0..2]
    <3>1. 0 \in 0..MaxIntervals /\ {} \in SUBSET Refs /\ FALSE \in BOOLEAN /\ 0 \in 0..2 BY <1>1
    <3>2. NoRecovery \in RecoveryType BY <3>1 DEF NoRecovery, RecoveryType
    <3>3. [r \in Refs |-> 0] \in [Refs -> 0..2] BY <3>1
    <3> QED BY <3>2, <3>3 DEF Phases
  <2>2. <<>> \in Seq(Refs) OBVIOUS
  <2> QED BY <1>1, <1>5, <2>1, <2>2 DEF IdlePipe, PipeType
<1>7. /\ pipe.phase = "IDLE" /\ ~pipe.following /\ ~pipe.restarting /\ pipe.gaps = {}
      /\ pipe.boundary = NoRef /\ pipe.applied = <<>> /\ pipe.tries = [r \in Refs |-> 0]
  BY <1>5 DEF IdlePipe
<1>8. Sane(pipe, feed)
  <2>1. Cardinality(pipe.gaps) <= MaxGaps BY <1>1, <1>7, FS_EmptySet
  <2>2. Ordered(pipe.applied) BY <1>7 DEF Ordered
  <2>3. Behind(pipe, feed) BY <1>7 DEF Behind
  <2>4. Tried(pipe, feed) BY <1>7 DEF Tried
  <2>5. Coherent(pipe) BY <1>7 DEF Coherent
  <2> QED BY <1>6, <2>1, <2>2, <2>3, <2>4, <2>5 DEF Sane
<1>9. Agrees(pipe, feed) BY <1>7 DEF Agrees, LetGo
<1>10. restarts \in 0..MaxRestarts BY <1>1 DEF PipelineInit
<1> QED BY <1>3, <1>4, <1>7, <1>8, <1>9, <1>10 DEF PipeInv, Steady

\* What the invariant says of the feed.
LEMMA PipeInvFeed ==
  ASSUME PipeInv
  PROVE  feed \in FeedType /\ feed.oldest <= feed.boundary + 1 /\ RunsOn(pipe, feed)
<1>1. PICK l, st : Asked(st) /\ Good(feed, l, st) BY DEF PipeInv, Steady
<1>2. feed \in FeedType /\ feed.oldest <= feed.boundary + 1 BY <1>1 DEF Good
<1> QED BY <1>2 DEF PipeInv, Steady, RunsOn

\* The pipeline starts, or restarts after an entry failed.
LEMMA StartKeeps == PipeInv /\ (start \/ RestartMicrotask) => PipeInv' /\ StaysHidden
<1> SUFFICES ASSUME PipeInv, start \/ RestartMicrotask PROVE PipeInv' /\ StaysHidden OBVIOUS
<1>1. feed \in FeedType /\ feed.oldest <= feed.boundary + 1 BY PipeInvFeed
<1>2. Sane(pipe, feed) /\ pipe \in PipeType /\ Coherent(pipe) /\ Cardinality(pipe.gaps) <= MaxGaps
  BY DEF PipeInv, Steady, Sane
<1>3. restarts' \in 0..MaxRestarts BY DEF PipeInv, start, RestartMicrotask
<1>4. CASE start
  <2> DEFINE s == [pipe EXCEPT !.running = TRUE]
  <2>1. ~pipe.closed /\ pipe.phase = "IDLE" /\ startFollowing(s) BY <1>4 DEF start
  <2>2. ~pipe.restarting BY <1>2, <2>1 DEF Coherent
  <2>3. /\ s \in PipeType /\ SameProgress(s, pipe) /\ SameAccount(s, pipe) /\ SameHold(s, pipe)
        /\ SameView(s, pipe)
    BY <1>2 DEF PipeType, SameProgress, SameAccount, SameHold, SameView
  <2> HIDE DEF s
  <2>4. Coherent(s) BY <1>2, <2>3 DEF Coherent, SameHold, SameView
  <2>5. Sane(s, feed) BY <1>2, <2>3, <2>4, SaneKept DEF SameProgress
  <2>6. ~s.closed /\ ~s.restarting /\ s.live = pipe.live
    BY <2>1, <2>2, <2>3 DEF SameHold, SameView
  <2>7. Steady(feed', pipe') /\ Shows(pipe', s.live)
    BY <1>1, <2>1, <2>5, <2>6, StartFollowingKeeps
  <2> QED BY <1>3, <2>6, <2>7 DEF PipeInv, StaysHidden
<1>5. CASE RestartMicrotask
  <2> DEFINE s == [pipe EXCEPT !.restarting = FALSE]
  <2>1. pipe.restarting /\ startFollowing(s) BY <1>5 DEF RestartMicrotask
  <2>2. ~pipe.closed BY <1>2, <2>1 DEF Coherent
  <2>3. /\ s \in PipeType /\ SameProgress(s, pipe) /\ SameAccount(s, pipe) /\ SameView(s, pipe)
        /\ s.closed = pipe.closed /\ s.following = pipe.following /\ ~s.restarting
    BY <1>2 DEF PipeType, SameProgress, SameAccount, SameView
  <2> HIDE DEF s
  <2>4. Coherent(s) BY <1>2, <2>3 DEF Coherent, SameView
  <2>5. Sane(s, feed) BY <1>2, <2>3, <2>4, SaneKept DEF SameProgress
  <2>6. ~s.closed /\ ~s.restarting /\ s.live = pipe.live BY <2>2, <2>3 DEF SameView
  <2>7. Steady(feed', pipe') /\ Shows(pipe', s.live)
    BY <1>1, <2>1, <2>5, <2>6, StartFollowingKeeps
  <2> QED BY <1>3, <2>6, <2>7 DEF PipeInv, StaysHidden
<1> QED BY <1>4, <1>5

\* The panel asks for a restart: what failed before may be tried again.
LEMMA RestartKeeps == PipeInv /\ restart => PipeInv' /\ StaysHidden
<1> SUFFICES ASSUME PipeInv, restart PROVE PipeInv' /\ StaysHidden OBVIOUS
<1> DEFINE z == [r \in Refs |-> 0]
           v == [pipe EXCEPT !.following = FALSE]
           t == [v EXCEPT !.running = TRUE, !.failed = NoRef, !.attempts = 0, !.restarting = TRUE, !.tries = z]
<1>1. /\ Steady(feed, pipe) /\ Sane(pipe, feed) /\ pipe \in PipeType /\ Coherent(pipe)
      /\ Cardinality(pipe.gaps) <= MaxGaps /\ Ordered(pipe.applied) /\ Behind(pipe, feed)
  BY DEF PipeInv, Steady, Sane
<1>2. restarts' \in 0..MaxRestarts BY PipelineAssumption DEF PipeInv, restart
<1>3. /\ ~pipe.closed /\ pipe.phase # "IDLE" /\ feed' = unfollow(feed) /\ pipe' = t
  BY DEF restart, unsubscribeCurrent
<1>4. z \in [Refs -> 0..2] /\ \A r \in Refs : z[r] = 0 OBVIOUS
<1> HIDE DEF z
<1>5. /\ v \in PipeType /\ SameProgress(v, pipe) /\ SameView(v, pipe) /\ v.applied = pipe.applied
      /\ v.closed = pipe.closed /\ ~v.following
  BY <1>1 DEF PipeType, SameProgress, SameView
<1> HIDE DEF v
<1>6. /\ t \in PipeType /\ SameProgress(t, v) /\ SameView(t, v) /\ t.applied = v.applied
      /\ t.closed = v.closed /\ ~t.following /\ t.restarting /\ t.tries = z
  <2> DEFINE n == NoRef
             N == Refs \cup {NoRef}
             Z == [Refs -> 0..2]
  <2>1. n \in N /\ 0 \in 0..2 /\ TRUE \in BOOLEAN /\ z \in Z BY <1>4
  <2>2. PipeType = [phase : Phases, running : BOOLEAN, closed : BOOLEAN, following : BOOLEAN,
                    restarting : BOOLEAN, follower : 0..MaxIntervals, interval : 0..MaxIntervals,
                    next : 0..(MaxSequence + 1), boundary : N,
                    gaps : SUBSET (1..MaxSequence), failed : N, attempts : 0..2,
                    live : SUBSET Refs, recovery : RecoveryType,
                    applied : Seq(Refs), tries : Z]
    BY DEF PipeType
  <2>3. t = [v EXCEPT !.running = TRUE, !.failed = n, !.attempts = 0, !.restarting = TRUE, !.tries = z]
    OBVIOUS
  <2> HIDE DEF t, n, N, Z
  <2> QED BY <1>5, <2>1, <2>2, <2>3 DEF SameProgress, SameView
<1> HIDE DEF t
<1>7. /\ t.applied = pipe.applied /\ t.boundary = pipe.boundary /\ t.gaps = pipe.gaps
      /\ t.phase = pipe.phase /\ t.recovery = pipe.recovery /\ t.live = pipe.live /\ t.closed = pipe.closed
  BY <1>5, <1>6 DEF SameProgress, SameView
<1>8. Coherent(t) BY <1>1, <1>3, <1>6, <1>7 DEF Coherent
<1>9. Tried(t, feed) BY <1>4, <1>6 DEF Tried
<1>10. Ordered(t.applied) /\ Behind(t, feed) /\ Cardinality(t.gaps) <= MaxGaps
  BY <1>1, <1>7 DEF Behind
<1>11. Sane(t, feed) BY <1>6, <1>8, <1>9, <1>10 DEF Sane
<1>12. LetGo(t) BY <1>6 DEF LetGo
<1>13. Steady(unfollow(feed), t) BY <1>1, <1>11, <1>12, LeavesSteady
<1>14. Shows(t, pipe.live) BY <1>7 DEF Shows
<1> QED BY <1>2, <1>3, <1>13, <1>14 DEF PipeInv, StaysHidden

\* The panel cancels a recovery, or closes the pipeline.
LEMMA LeavingKeeps == PipeInv /\ (cancelRecovery \/ close) => PipeInv' /\ StaysHidden
<1> SUFFICES ASSUME PipeInv, cancelRecovery \/ close PROVE PipeInv' /\ StaysHidden OBVIOUS
<1> DEFINE v == [pipe EXCEPT !.following = FALSE]
<1>1. /\ Steady(feed, pipe) /\ Sane(pipe, feed) /\ pipe \in PipeType /\ Coherent(pipe)
      /\ Cardinality(pipe.gaps) <= MaxGaps
  BY DEF PipeInv, Steady, Sane
<1>2. /\ restarts' \in 0..MaxRestarts /\ ~pipe.restarting /\ ~pipe.closed /\ feed' = unfollow(feed)
  BY DEF PipeInv, cancelRecovery, close
<1>3. /\ v \in PipeType /\ SameProgress(v, pipe) /\ SameAccount(v, pipe) /\ SameView(v, pipe)
      /\ v.closed = pipe.closed /\ v.restarting = pipe.restarting /\ ~v.following
  BY <1>1 DEF PipeType, SameProgress, SameAccount, SameView
<1> DEFINE Left(t) == Sane(t, feed) /\ LetGo(t) /\ Shows(t, pipe.live)
<1>4. CASE cancelRecovery
  <2> DEFINE w == [v EXCEPT !.running = FALSE]
             t == setFollowerPhase(w, "CANCELLED")
  <2>1. pipe' = t BY <1>4 DEF cancelRecovery, unsubscribeCurrent
  <2> HIDE DEF v
  <2>2. /\ w \in PipeType /\ SameProgress(w, v) /\ SameAccount(w, v) /\ SameHold(w, v) /\ SameView(w, v)
    BY <1>3 DEF PipeType, SameProgress, SameAccount, SameHold, SameView
  <2> HIDE DEF w
  <2>3. /\ t \in PipeType /\ SameProgress(t, w) /\ SameAccount(t, w) /\ SameHold(t, w)
        /\ t.phase = "CANCELLED" /\ t.live = w.live
    <3>1. "CANCELLED" \in Phases BY DEF Phases
    <3> QED BY <2>2, <3>1, PhaseSet
  <2> HIDE DEF t
  <2>4. /\ SameAccount(t, pipe) /\ t.boundary = pipe.boundary /\ t.gaps = pipe.gaps
        /\ t.live = pipe.live /\ ~t.following /\ ~t.restarting /\ ~t.closed
    BY <1>2, <1>3, <2>2, <2>3 DEF SameAccount, SameProgress, SameHold, SameView
  <2>5. Coherent(t) BY <2>3, <2>4 DEF Coherent
  <2>6. Left(t)
    <3>1. Sane(t, feed) BY <1>1, <2>3, <2>4, <2>5, SaneKept
    <3> QED BY <2>3, <2>4, <3>1 DEF LetGo, Shows
  <2> QED BY <2>1, <2>6, <1>1, <1>2, LeavesSteady DEF PipeInv, StaysHidden
<1>5. CASE close
  <2> DEFINE t == [v EXCEPT !.closed = TRUE, !.running = FALSE]
  <2>1. pipe' = t BY <1>5 DEF close, unsubscribeCurrent
  <2> HIDE DEF v
  <2>2. /\ t \in PipeType /\ SameProgress(t, v) /\ SameAccount(t, v) /\ SameView(t, v)
        /\ t.closed /\ t.restarting = v.restarting /\ t.following = v.following
    BY <1>3 DEF PipeType, SameProgress, SameAccount, SameView
  <2> HIDE DEF t
  <2>3. /\ SameAccount(t, pipe) /\ t.boundary = pipe.boundary /\ t.gaps = pipe.gaps /\ t.phase = pipe.phase
        /\ t.recovery = pipe.recovery /\ t.live = pipe.live /\ ~t.following /\ ~t.restarting /\ t.closed
    BY <1>2, <1>3, <2>2 DEF SameAccount, SameProgress, SameView
  <2>4. Coherent(t) BY <1>1, <2>3 DEF Coherent
  <2>5. Left(t)
    <3>1. Sane(t, feed) BY <1>1, <2>2, <2>3, <2>4, SaneKept
    <3> QED BY <2>3, <3>1 DEF LetGo, Shows
  <2> QED BY <2>1, <2>5, <1>1, <1>2, LeavesSteady DEF PipeInv, StaysHidden
<1> QED BY <1>4, <1>5

\* The History goes on: it replays a chunk, commits or clears.
LEMMA HistoryKeeps ==
  ASSUME LowWater # 0, PipeInv,
         HistoryReplays \/ HistoryClears \/ \E n \in 1..MaxSequence : HistoryCommits(n)
  PROVE  PipeInv' /\ StaysHidden
<1>1. PICK l, st : Asked(st) /\ Good(feed, l, st) BY DEF PipeInv, Steady
<1>2. /\ RunsOn(pipe, feed) /\ Steady(feed, pipe) /\ feed \in FeedType
      /\ feed.state = "replaying" => st.boundary \in 0..MaxSequence /\ Replays(feed, st.boundary)
  BY <1>1, PipeInvFeed, ReplaysFacts DEF PipeInv
<1>3. restarts' \in 0..MaxRestarts BY DEF PipeInv, HistoryReplays, HistoryClears, HistoryCommits
<1>4. Shows(pipe, pipe.live) BY DEF Shows
<1>5. ASSUME NEW g, Runs(g, pipe), Good(g, l \o g.out, st),
             \A bad \in Nat : Tracks(Observed(pipe, g.out, bad), g, pipe)
      PROVE  PipeInv' /\ StaysHidden
  <2>1. \E m, sx : Asked(sx) /\ Good(g, m, sx) BY <1>1, <1>5
  <2>2. Steady(feed', pipe') /\ \A L : Shows(pipe, L) => Shows(pipe', L) BY <1>5, <2>1, RunKeeps
  <2> QED BY <1>3, <1>4, <2>2 DEF PipeInv, StaysHidden
<1>6. CASE HistoryReplays
  <2> DEFINE g == runCooperativeReplayChunk(feed)
  <2>1. feed.state = "replaying" /\ Runs(g, pipe) BY <1>6 DEF HistoryReplays
  <2>2. Good(g, l \o g.out, st) BY <1>1, <2>1, ChunkIsGood
  <2>3. \A bad \in Nat : Tracks(Observed(pipe, g.out, bad), g, pipe) BY <1>2, <2>1, ChunkTracked
  <2> HIDE DEF g
  <2> QED BY <1>5, <2>1, <2>2, <2>3
<1>7. CASE HistoryClears
  <2> DEFINE g == clearInterval(feed)
  <2>1. feed.interval < MaxIntervals /\ Runs(g, pipe) BY <1>7 DEF HistoryClears
  <2>2. Good(g, l \o g.out, st) BY <1>1, <2>1, ClearIsGood
  <2>3. feed.state = "replaying" => feed.replay.interval \in 1..feed.interval
    BY <1>1 DEF Good, ReplayInv
  <2>4. \A bad \in Nat : Tracks(Observed(pipe, g.out, bad), g, pipe)
    BY <1>2, <2>1, <2>3, ClearRunTracked
  <2> HIDE DEF g
  <2> QED BY <1>5, <2>1, <2>2, <2>4
<1>8. CASE \E n \in 1..MaxSequence : HistoryCommits(n)
  <2>1. PICK n \in 1..MaxSequence : HistoryCommits(n) BY <1>8
  <2> DEFINE g == commitBatch(feed, n)
  <2>2. feed.boundary + n <= MaxSequence /\ Runs(g, pipe) BY <2>1 DEF HistoryCommits
  <2>3. Good(g, l \o g.out, st) BY <1>1, <2>2, CommitIsGood
  <2>4. \A bad \in Nat : Tracks(Observed(pipe, g.out, bad), g, pipe)
    BY <1>2, <2>2, CommitTracked
  <2> HIDE DEF g
  <2> QED BY <1>5, <2>2, <2>3, <2>4
<1> QED BY <1>6, <1>7, <1>8

\* Every step keeps the invariant, and a recovery hidden.
LEMMA PipeInvStep ==
  ASSUME LowWater # 0 PROVE PipeInv /\ [PipelineNext]_pipelineVars =>
           PipeInv' /\ (StaysHidden \/ UNCHANGED pipelineVars)
<1> SUFFICES ASSUME PipeInv, [PipelineNext]_pipelineVars
             PROVE  PipeInv' /\ (StaysHidden \/ UNCHANGED pipelineVars)
  OBVIOUS
<1>1. CASE PipelineNext
  BY <1>1, StartKeeps, RestartKeeps, LeavingKeeps, HistoryKeeps DEF PipelineNext
<1>2. CASE UNCHANGED pipelineVars
  <2>1. feed' = feed /\ pipe' = pipe /\ restarts' = restarts BY <1>2 DEF pipelineVars
  <2>2. PipeInv' BY <2>1 DEF PipeInv
  <2> QED BY <1>2, <2>2
<1> QED BY <1>1, <1>2

\* A pipeline that agrees with its feed reports what is so.
LEMMA PipeInvIsTruthful == PipeInv => FollowerIsTruthful
<1> SUFFICES ASSUME PipeInv PROVE FollowerIsTruthful OBVIOUS
<1>1. /\ Sane(pipe, feed) /\ Agrees(pipe, feed) /\ (pipe.following <=> feed.state # "none")
      /\ feed.out = <<>> /\ restarts \in 0..MaxRestarts /\ feed \in FeedType
  BY PipeInvFeed DEF PipeInv, Steady
<1>2. /\ pipe \in PipeType /\ Cardinality(pipe.gaps) <= MaxGaps /\ Ordered(pipe.applied) /\ Coherent(pipe)
  BY <1>1 DEF Sane
<1>3. PipelineTypeOK
  <2>1. /\ pipe.recovery.active \in BOOLEAN /\ pipe.recovery.interval \in 0..MaxIntervals
        /\ pipe.recovery.evidence \subseteq Refs
    BY <1>2, PipeParts DEF RecoveryType
  <2>2. pipe.attempts \in 0..3 /\ pipe.tries \in [Refs -> 0..3]
    <3>1. 0..2 \subseteq 0..3 OBVIOUS
    <3> QED BY <1>2, <3>1, PipeParts
  <2>3. pipe.phase \in {"IDLE", "RECOVERING", "LIVE", "CANCELLED", "FAILED"}
    BY <1>2, PipeParts DEF Phases
  <2> QED BY <1>1, <1>2, <2>1, <2>2, <2>3, PipeParts DEF PipelineTypeOK
<1>4. AppliedInOrder
  <2>1. \A r \in Refs : pipe.tries[r] <= 2
    <3>1. \A r \in Refs : pipe.tries[r] \in 0..2 BY <1>2, PipeParts
    <3> QED BY <3>1
  <2> QED BY <1>2, <2>1 DEF AppliedInOrder, Ordered, Follows
<1>5. LiveIsCurrent
  <2> SUFFICES ASSUME Running PROVE /\ feed.state # "none" <=> pipe.phase \in {"RECOVERING", "LIVE"}
                                    /\ pipe.phase = "LIVE" =>
                                         /\ pipe.interval \in {0, feed.interval}
                                         /\ pipe.boundary = NoRef => Committed = {}
                                         /\ pipe.boundary # NoRef => pipe.boundary = Ref(feed.interval, feed.boundary)
                                         /\ pipe.next \in {0, feed.boundary + 1}
    BY DEF LiveIsCurrent
  <2>1. ~pipe.restarting /\ ~pipe.closed BY DEF Running
  <2>2. pipe.following <=> pipe.phase \in {"RECOVERING", "LIVE"}
    <3>1. CASE pipe.following BY <1>1, <3>1, FollowsOrLetGo
    <3>2. CASE ~pipe.following
      <4>1. LetGo(pipe) BY <1>1, <3>2, FollowsOrLetGo
      <4>2. pipe.phase \in {"IDLE", "CANCELLED", "FAILED"} BY <2>1, <4>1 DEF LetGo
      <4> QED BY <3>2, <4>2
    <3> QED BY <3>1, <3>2
  <2>3. ASSUME pipe.phase = "LIVE"
        PROVE  /\ pipe.interval \in {0, feed.interval}
               /\ pipe.boundary = NoRef => Committed = {}
               /\ pipe.boundary # NoRef => pipe.boundary = Ref(feed.interval, feed.boundary)
               /\ pipe.next \in {0, feed.boundary + 1}
    <3>1. pipe.following BY <2>2, <2>3
    <3>2. ~LetGo(pipe) BY <1>1, <3>1, FollowsOrLetGo
    <3>3. Expects(pipe, feed, feed.boundary + 1) BY <1>1, <2>3, <3>2 DEF Agrees
    <3>4. feed.boundary \in Nat /\ feed.oldest \in Nat /\ (feed.boundary + 1) - 1 = feed.boundary
      BY <1>1, FeedFields
    <3>5. pipe.boundary = NoRef => Committed = {}
      <4>1. pipe.boundary = NoRef => feed.oldest = feed.boundary + 1 BY <3>3 DEF Expects
      <4> QED BY <3>4, <4>1 DEF Committed
    <3>6. pipe.boundary # NoRef => pipe.boundary = Ref(feed.interval, feed.boundary)
      BY <3>3, <3>4 DEF Expects
    <3>7. pipe.interval = feed.interval /\ (pipe.next = feed.boundary + 1 \/ pipe.next = 0)
      BY <3>3 DEF Expects
    <3> QED BY <3>5, <3>6, <3>7
  <2> QED BY <1>1, <2>2, <2>3
<1> QED BY <1>3, <1>4, <1>5 DEF FollowerIsTruthful

\* The invariant of the pipeline: when a retention advance leaves something, as
\* it does in the code (rollingLowWater), the pipeline agrees with its feed.
LEMMA PipeInvHolds ==
  ASSUME LowWater # 0 PROVE PipelineSpec => []PipeInv
<1>1. PipelineInit => PipeInv BY PipeInvInit
<1>2. PipeInv /\ [PipelineNext]_pipelineVars => PipeInv' BY PipeInvStep
<1> QED BY <1>1, <1>2, PTL DEF PipelineSpec

\* The follower applies each entry once and in order, presents a failing one
\* no more than twice, and what it reports of itself is so: every commit,
\* Clear, retention advance, replay chunk and restart included.
THEOREM FollowerIsTruthfulHolds ==
  ASSUME LowWater # 0 PROVE PipelineSpec => []FollowerIsTruthful
<1>1. PipelineSpec => []PipeInv BY PipeInvHolds
<1>2. PipeInv => FollowerIsTruthful BY PipeInvIsTruthful
<1> QED BY <1>1, <1>2, PTL

\* The panel never shows a recovery that is in progress or was cancelled.
THEOREM RecoveryStaysHidden ==
  ASSUME LowWater # 0 PROVE PipelineSpec => RecoveryIsHidden
<1> DEFINE Hidden == pipe.phase = "RECOVERING" /\ pipe'.phase \in {"RECOVERING", "CANCELLED"}
                       => pipe'.live = pipe.live
<1>1. PipelineSpec => []PipeInv BY PipeInvHolds
<1>2. PipeInv /\ [PipelineNext]_pipelineVars => [Hidden]_pipelineVars
  <2>1. StaysHidden => Hidden BY DEF StaysHidden, Shows
  <2> QED BY <2>1, PipeInvStep
<1>3. PipelineSpec => [][Hidden]_pipelineVars
  <2> HIDE DEF Hidden
  <2> QED BY <1>1, <1>2, PTL DEF PipelineSpec
<1> QED BY <1>3 DEF RecoveryIsHidden
=============================================================================
