------------------- MODULE TopologyAndDiagnosticsProofs -------------------
(***************************************************************************)
(* Theorems about what the panel keeps beside the Evidence, for every      *)
(* value of the constants.                                                 *)
(*                                                                         *)
(* DiagnosticObservations: the journal of observations, what is stored of  *)
(* it, and what a subscriber hears.                                        *)
(*                                                                         *)
(* TopologySync: neither property is inductive, since both compare what    *)
(* the panel shows with the committed Evidence and what the pages have     *)
(* captured.  What connects them are the captures and frames on their way: *)
(* the captures of a page arrive and are committed in sequence, after all  *)
(* that the panel has heard of the page (QueueInSequence, WireInSequence), *)
(* a synchronization is committed once (OfferedOnce), and the projection   *)
(* shows what was committed of its page (Shows).                           *)
(*                                                                         *)
(* Diagnostics: that the panel, the projections and the journal agree once *)
(* the queue is empty is not inductive either, since a change is presented *)
(* at once and journaled later.  DiagnosticsInv says in every state what   *)
(* the journal will say when it has met the queue (WillBeActive,           *)
(* WillBeKnown, WillBeLatest), and that the panel, the projections and the *)
(* runtime's conditions agree with that; each record of an observation or  *)
(* of a resolution keeps it, and so does executing the head of the queue.  *)
(***************************************************************************)
EXTENDS DiagnosticObservations, TopologySync, Diagnostics, FiniteSetTheorems, WellFoundedInduction, TLAPS

\* What every state of a journal satisfies, in memory, stored or pending.
Sound(j) == IsJournal(j) /\ Hydratable(j) /\ RecordsChanges(j)

\* The journal n shows nothing else than j where both show something, and its
\* boundary is not before the one of j.
Extends(j, n) ==
  /\ n.interval > j.interval \/ (n.interval = j.interval /\ n.sequence >= j.sequence)
  /\ \A k \in DOMAIN j.records, m \in DOMAIN n.records :
       j.records[k].interval = n.records[m].interval
         /\ j.records[k].sequence = n.records[m].sequence =>
           j.records[k] = n.records[m]

\* Two states that are alike but for whether the journal is closed.
Alike(a, b) ==
  /\ a.interval = b.interval /\ a.sequence = b.sequence
  /\ a.retainedThrough = b.retainedThrough /\ a.records = b.records /\ a.current = b.current

\* The observation that a commit records, and n, which is j with it and
\* without its s oldest observations.
EventOf(j, id, state, content) ==
  [id |-> id, interval |-> j.interval, sequence |-> j.sequence + 1,
   state |-> state, content |-> content]
Records(j, e, n, s) ==
  /\ n = [interval |-> j.interval, sequence |-> j.sequence + 1,
          retainedThrough |-> j.retainedThrough + s, records |-> n.records,
          current |-> [i \in Identities(j) \cup {e.id} |->
                         IF i = e.id THEN e ELSE j.current[i]],
          closed |-> j.closed]
  /\ n.records \in Seq(Observations)
  /\ Len(n.records) = Len(j.records) + 1 - s /\ Len(n.records) <= MaxRetained
  /\ Len(n.records) + Cardinality(Identities(j) \cup {e.id}) <= MaxBytes
  /\ \A i \in 1 .. Len(n.records) :
       n.records[i] = IF i + s <= Len(j.records) THEN j.records[i + s] ELSE e
-----------------------------------------------------------------------------
\* A sum determines the other summand.
LEMMA Cancel ==
  ASSUME NEW r \in Nat, NEW k \in Nat, NEW s \in Nat, NEW i \in Nat, r + k = (r + s) + i
  PROVE  k = i + s
OBVIOUS

\* A place behind the first one, in what is left of a list.
LEMMA Between ==
  ASSUME NEW d \in Int, NEW f \in Nat, NEW l \in Nat, NEW s \in Nat, NEW b \in Nat,
         d \in f .. l, d # f, b + s = l + 1
  PROVE  d \in f + 1 .. l /\ d - s < b
OBVIOUS

\* What SubSeq leaves when the first d entries are cut off.
LEMMA Suffix ==
  ASSUME NEW sq \in Seq(Observations), NEW l \in Nat, NEW d \in Nat, d <= l, Len(sq) = l
  PROVE  LET cut == SubSeq(sq, d + 1, l)
         IN  /\ cut \in Seq(Observations) /\ Len(cut) = l - d
             /\ DOMAIN cut = 1 .. l - d
             /\ \A i \in 1 .. l - d : cut[i] = sq[i + d]
OBVIOUS

\* What has to go fits in the list, and what is left fits the capacities.
LEMMA SurplusFacts ==
  ASSUME NEW candidate \in Seq(Observations), NEW current,
         IsFiniteSet(DOMAIN current), Cardinality(DOMAIN current) <= MaxBytes
  PROVE  /\ Surplus(candidate, current) \in 0 .. Len(candidate)
         /\ Len(candidate) - Surplus(candidate, current) <= MaxRetained
         /\ Len(candidate) - Surplus(candidate, current) + Cardinality(DOMAIN current) <= MaxBytes
<1>1. Cardinality(DOMAIN current) \in Nat BY FS_CardinalityType
<1>2. Len(candidate) \in Nat OBVIOUS
<1> QED BY <1>1, <1>2, JournalAssumption DEF Surplus, Larger

\* A recorded event is an observation.
LEMMA EventType ==
  ASSUME NEW j, IsJournal(j), NEW id \in Ids,
         NEW state \in {"observed", "active", "resolved"}, NEW content \in Contents
  PROVE  EventOf(j, id, state, content) \in Observations
BY DEF IsJournal, EventOf, Observations

\* A commit drops the oldest observations, as many as the capacities demand,
\* and moves the retained boundary past them.
LEMMA CommittedRecords ==
  ASSUME NEW j, Sound(j), NEW id \in Ids,
         NEW state \in {"observed", "active", "resolved"}, NEW content \in Contents,
         ~exhausted(Identities(j) \cup {id})
  PROVE  \E s \in 0 .. Len(j.records) + 1 :
           Records(j, EventOf(j, id, state, content), Committed(j, id, state, content), s)
<1> DEFINE e == EventOf(j, id, state, content)
           current == [i \in Identities(j) \cup {id} |-> IF i = id THEN e ELSE j.current[i]]
           candidate == Append(j.records, e)
           s == Surplus(candidate, current)
           kept == retainDiagnosticCapacity(candidate, current, j.retainedThrough)
           n == Committed(j, id, state, content)
<1>1. e \in Observations /\ e.id = id /\ e.sequence = j.sequence + 1
  BY EventType DEF Sound, EventOf
<1>2. /\ j.records \in Seq(Observations) /\ candidate \in Seq(Observations)
      /\ Len(candidate) = Len(j.records) + 1
      /\ \A i \in 1 .. Len(candidate) :
           candidate[i] = IF i <= Len(j.records) THEN j.records[i] ELSE e
  BY <1>1 DEF Sound, IsJournal
<1>3. /\ DOMAIN current = Identities(j) \cup {id}
      /\ IsFiniteSet(DOMAIN current)
      /\ Cardinality(DOMAIN current) \in Nat /\ Cardinality(DOMAIN current) <= MaxBytes
  <2>1. DOMAIN current = Identities(j) \cup {id} OBVIOUS
  <2>2. IsFiniteSet(Identities(j) \cup {id}) BY FS_AddElement DEF Sound, IsJournal
  <2>3. Cardinality(Identities(j) \cup {id}) \in Nat BY <2>2, FS_CardinalityType
  <2>4. Cardinality(Identities(j) \cup {id}) <= MaxBytes
    BY <2>3, JournalAssumption DEF exhausted
  <2> QED BY <2>1, <2>2, <2>3, <2>4
<1> HIDE DEF current
<1>4. /\ s \in 0 .. Len(candidate)
      /\ Len(candidate) - s <= MaxRetained
      /\ Len(candidate) - s + Cardinality(DOMAIN current) <= MaxBytes
  BY <1>2, <1>3, SurplusFacts
<1>5. /\ j.retainedThrough \in Nat /\ j.sequence \in Nat
      /\ Len(j.records) = j.sequence - j.retainedThrough
      /\ \A i \in 1 .. Len(j.records) : j.records[i].sequence = j.retainedThrough + i
  BY <1>2 DEF Sound, IsJournal, Hydratable
<1> HIDE DEF candidate, s, e, kept, n
<1>6. \A i \in 1 .. Len(candidate) : candidate[i].sequence = j.retainedThrough + i
  <2> TAKE i \in 1 .. Len(candidate)
  <2>1. CASE i <= Len(j.records) BY <2>1, <1>2, <1>5
  <2>2. CASE ~(i <= Len(j.records))
    <3>1. candidate[i] = e BY <2>2, <1>2
    <3>2. i = Len(j.records) + 1 BY <2>2, <1>2
    <3>3. j.retainedThrough + i = j.sequence + 1 BY <3>2, <1>5
    <3> QED BY <3>1, <3>3, <1>1
  <2> QED BY <2>1, <2>2
<1>7. kept.retainedThrough = j.retainedThrough + s
  <2>1. kept.retainedThrough =
          IF s = 0 THEN j.retainedThrough ELSE Larger(j.retainedThrough, candidate[s].sequence)
    BY DEF retainDiagnosticCapacity, s, kept
  <2>2. s # 0 => candidate[s].sequence = j.retainedThrough + s BY <1>4, <1>6, <1>2
  <2> QED BY <2>1, <2>2, <1>4, <1>5, <1>2 DEF Larger
<1>8. kept.records = SubSeq(candidate, s + 1, Len(candidate))
  BY DEF retainDiagnosticCapacity, s, kept
<1>9. /\ kept.records \in Seq(Observations)
      /\ Len(kept.records) = Len(candidate) - s
      /\ \A i \in 1 .. Len(kept.records) : kept.records[i] = candidate[i + s]
  BY <1>8, <1>4, <1>2
<1>10. n = [interval |-> j.interval, sequence |-> j.sequence + 1,
            retainedThrough |-> j.retainedThrough + s, records |-> kept.records,
            current |-> current, closed |-> j.closed]
  <2>1. n = [j EXCEPT !.sequence = @ + 1, !.current = current,
                      !.records = kept.records, !.retainedThrough = kept.retainedThrough]
    BY DEF Committed, EventOf, e, candidate, current, n, kept
  <2>2. j = [interval |-> j.interval, sequence |-> j.sequence,
             retainedThrough |-> j.retainedThrough, records |-> j.records,
             current |-> j.current, closed |-> j.closed]
    BY DEF Sound, IsJournal
  <2> QED BY <2>1, <2>2, <1>7
<1>11. /\ Len(n.records) = Len(j.records) + 1 - s /\ Len(n.records) <= MaxRetained
       /\ Len(n.records) + Cardinality(Identities(j) \cup {e.id}) <= MaxBytes
  BY <1>1, <1>2, <1>3, <1>4, <1>9, <1>10
<1>12. \A i \in 1 .. Len(n.records) :
         n.records[i] = IF i + s <= Len(j.records) THEN j.records[i + s] ELSE e
  <2> TAKE i \in 1 .. Len(n.records)
  <2>1. n.records = kept.records BY <1>10
  <2>2. i + s \in 1 .. Len(candidate) BY <2>1, <1>2, <1>4, <1>9
  <2>3. n.records[i] = candidate[i + s] BY <2>1, <1>9
  <2> QED BY <2>2, <2>3, <1>2
<1>13. current = [i \in Identities(j) \cup {e.id} |-> IF i = e.id THEN e ELSE j.current[i]]
  BY <1>1 DEF current
<1>14. Records(j, e, n, s) BY <1>9, <1>10, <1>11, <1>12, <1>13 DEF Records
<1>15. s \in 0 .. Len(j.records) + 1 BY <1>2, <1>4
<1> QED BY <1>14, <1>15 DEF n, e

\* The numbers of a commit: q is the boundary, r the retained boundary and l
\* the number of observations before it, m their number after it.
Numbered(j, n, s, q, r, l, m) ==
  /\ q \in Nat /\ r \in Nat /\ l \in Nat /\ m \in Nat /\ s \in Nat
  /\ l = q - r /\ s <= l + 1 /\ m = l + 1 - s
  /\ j.sequence = q /\ j.retainedThrough = r /\ Len(j.records) = l
  /\ n.sequence = q + 1 /\ n.retainedThrough = r + s /\ Len(n.records) = m
  /\ DOMAIN j.records = 1 .. l /\ DOMAIN n.records = 1 .. m

\* The numbers of a commit fit together.
LEMMA Numbers ==
  ASSUME NEW j, Sound(j), NEW e \in Observations, NEW n, NEW s \in 0 .. Len(j.records) + 1,
         Records(j, e, n, s)
  PROVE  \E q, r, l, m : Numbered(j, n, s, q, r, l, m)
<1>1. /\ j.sequence \in Nat /\ j.retainedThrough \in Nat /\ Len(j.records) \in Nat
      /\ DOMAIN j.records = 1 .. Len(j.records)
  BY DEF Sound, IsJournal
<1>2. Len(j.records) = j.sequence - j.retainedThrough BY DEF Sound, Hydratable
<1>3. s \in Nat /\ s <= Len(j.records) + 1 BY <1>1
<1>4. /\ Len(n.records) \in Nat /\ DOMAIN n.records = 1 .. Len(n.records)
      /\ Len(n.records) = Len(j.records) + 1 - s
      /\ n.sequence = j.sequence + 1 /\ n.retainedThrough = j.retainedThrough + s
  BY DEF Records
<1>5. Numbered(j, n, s, j.sequence, j.retainedThrough, Len(j.records), Len(n.records))
  BY <1>1, <1>2, <1>3, <1>4 DEF Numbered
<1> QED BY <1>5

\* A commit with room for its identity leaves a journal that can be opened.
LEMMA RecordsHydratable ==
  ASSUME NEW j, Sound(j), NEW e \in Observations, NEW n, NEW s \in 0 .. Len(j.records) + 1,
         e.interval = j.interval, e.sequence = j.sequence + 1,
         ~exhausted(Identities(j) \cup {e.id}), Records(j, e, n, s)
  PROVE  IsJournal(n) /\ Hydratable(n)
<1>1. /\ j.interval \in Nat /\ j.closed \in BOOLEAN /\ j.records \in Seq(Observations)
      /\ Identities(j) \subseteq Ids /\ IsFiniteSet(Identities(j))
      /\ j.current \in [Identities(j) -> Observations]
  BY DEF Sound, IsJournal
<1>2. /\ n.interval = j.interval /\ n.closed = j.closed
      /\ n.current = [i \in Identities(j) \cup {e.id} |-> IF i = e.id THEN e ELSE j.current[i]]
      /\ Identities(n) = Identities(j) \cup {e.id}
      /\ n.records \in Seq(Observations)
  BY DEF Records, Identities
<1>3. e.id \in Ids BY DEF Observations
<1>p. PICK q, r, l, m : Numbered(j, n, s, q, r, l, m) BY Numbers
<1>n. /\ j.sequence = q /\ j.retainedThrough = r /\ Len(j.records) = l
      /\ n.sequence = q + 1 /\ n.retainedThrough = r + s /\ Len(n.records) = m
      /\ DOMAIN j.records = 1 .. l /\ DOMAIN n.records = 1 .. m
  BY <1>p DEF Numbered
<1>m. /\ q \in Nat /\ r \in Nat /\ l \in Nat /\ m \in Nat /\ s \in Nat
      /\ l = q - r /\ s <= l + 1 /\ m = l + 1 - s
  BY <1>p DEF Numbered
<1>4. IsJournal(n)
  <2>1. n = [interval |-> n.interval, sequence |-> n.sequence,
             retainedThrough |-> n.retainedThrough, records |-> n.records,
             current |-> n.current, closed |-> n.closed]
    BY DEF Records
  <2>2. r + s \in Nat /\ q + 1 \in Nat BY <1>n, <1>m
  <2>3. IsFiniteSet(Identities(j) \cup {e.id}) BY <1>1, FS_AddElement
  <2>4. n.current \in [Identities(n) -> Observations] BY <1>1, <1>2
  <2>5. n.retainedThrough \in Nat /\ n.sequence \in Nat BY <1>n, <2>2
  <2> QED BY <1>1, <1>2, <1>3, <2>1, <2>3, <2>4, <2>5 DEF IsJournal
<1>6. /\ n.retainedThrough <= n.sequence
      /\ Len(n.records) = n.sequence - n.retainedThrough
  BY <1>n, <1>m
<1>7. /\ Len(n.records) <= MaxRetained
      /\ Len(n.records) + Cardinality(Identities(n)) <= MaxBytes
      /\ Cardinality(Identities(n)) <= MaxIdentities
  BY <1>2, JournalAssumption, <1>4, FS_CardinalityType DEF Records, exhausted, IsJournal
<1>8. ASSUME NEW i \in DOMAIN n.records
      PROVE  /\ n.records[i].interval = n.interval
             /\ n.records[i].sequence = n.retainedThrough + i
             /\ n.records[i].id \in Identities(n)
             /\ n.current[n.records[i].id].sequence >= n.records[i].sequence
  <2>1. i \in Nat /\ 1 <= i /\ i <= m BY <1>n, <1>m
  <2>2. i + s \in Nat /\ 1 <= i + s /\ i + s <= l + 1 /\ r + (i + s) = (r + s) + i
        /\ (r + s) + i <= q + 1
    BY <1>n, <1>m, <2>1
  <2>3. n.records[i] = IF i + s <= l THEN j.records[i + s] ELSE e BY <1>n, <2>1 DEF Records
  <2>4. CASE i + s <= l
    <3> DEFINE old == j.records[i + s]
    <3>1. n.records[i] = old /\ i + s \in DOMAIN j.records BY <2>2, <2>3, <2>4, <1>n, <1>m
    <3>2. /\ old.interval = j.interval /\ old.sequence = r + (i + s)
          /\ old.id \in Identities(j) /\ j.current[old.id].sequence >= old.sequence
      BY <3>1, <1>n DEF Sound, Hydratable
    <3> HIDE DEF old
    <3>3. n.current[old.id].sequence >= old.sequence
      <4>1. CASE old.id = e.id
        <5>1. n.current[old.id].sequence = q + 1 BY <4>1, <1>2, <1>n, <1>m
        <5>2. old.sequence = (r + s) + i BY <3>2, <2>2
        <5>3. q + 1 >= (r + s) + i BY <2>2, <1>n, <1>m
        <5> QED BY <5>1, <5>2, <5>3
      <4>2. CASE old.id # e.id BY <4>2, <3>2, <1>2
      <4> QED BY <4>1, <4>2
    <3>4. n.records[i].sequence = n.retainedThrough + i BY <3>1, <3>2, <2>2, <1>n, <1>m
    <3> QED BY <3>1, <3>2, <3>3, <3>4, <1>2
  <2>5. CASE i + s > l
    <3>1. n.records[i] = e BY <2>3, <2>1, <2>5, <1>m
    <3>2. q + 1 = (r + s) + i BY <2>1, <2>2, <2>5, <1>n, <1>m
    <3>3. e.sequence = n.retainedThrough + i /\ e.sequence >= e.sequence BY <3>2, <1>n, <1>m
    <3>4. n.current[e.id] = e /\ e.id \in Identities(n) BY <1>2
    <3> QED BY <3>1, <3>3, <3>4, <1>2
  <2> QED BY <2>2, <2>4, <2>5, <1>n, <1>m
<1>9. ASSUME NEW id \in Identities(n)
      PROVE  /\ n.current[id].id = id /\ n.current[id].interval = n.interval
             /\ n.current[id].sequence <= n.sequence
             /\ n.current[id].sequence > n.retainedThrough =>
                  n.records[n.current[id].sequence - n.retainedThrough] = n.current[id]
  <2>1. CASE id = e.id
    <3>1. n.current[id] = e /\ e.sequence = q + 1 BY <2>1, <1>2, <1>n, <1>m
    <3>2. q + 1 > r + s => n.records[(q + 1) - (r + s)] = e
      <4> SUFFICES ASSUME q + 1 > r + s PROVE n.records[(q + 1) - (r + s)] = e OBVIOUS
      <4>1. (q + 1) - (r + s) = m /\ m \in 1 .. m /\ ~(m + s <= l) BY <1>n, <1>m
      <4>2. n.records[m] = IF m + s <= l THEN j.records[m + s] ELSE e BY <1>n, <4>1 DEF Records
      <4> QED BY <4>1, <4>2
    <3>3. q + 1 <= q + 1 BY <1>n, <1>m
    <3> QED BY <3>1, <3>2, <3>3, <2>1, <1>2, <1>n, <1>m
  <2>2. CASE id # e.id
    <3> DEFINE latest == j.current[id]
    <3>1. id \in Identities(j) /\ n.current[id] = latest BY <2>2, <1>2
    <3>2. /\ latest.id = id /\ latest.interval = j.interval /\ latest.sequence <= q
          /\ latest.sequence > r => j.records[latest.sequence - r] = latest
      BY <3>1, <1>n DEF Sound, Hydratable
    <3>3. latest.sequence \in Nat BY <3>1, <1>1 DEF Observations
    <3> HIDE DEF latest
    <3>4. PICK k \in Nat : latest.sequence = k BY <3>3
    <3>5. k > r + s => n.records[k - (r + s)] = latest
      <4> SUFFICES ASSUME k > r + s PROVE n.records[k - (r + s)] = latest OBVIOUS
      <4>1. k <= q BY <3>2, <3>4
      <4>2. /\ k - (r + s) \in 1 .. m /\ (k - (r + s)) + s = k - r
            /\ k - r <= l /\ k > r
        BY <4>1, <1>n, <1>m
      <4>3. n.records[k - (r + s)] =
              IF (k - (r + s)) + s <= l THEN j.records[(k - (r + s)) + s] ELSE e
        BY <1>n, <4>2 DEF Records
      <4> QED BY <4>2, <4>3, <3>2, <3>4
    <3>6. k <= q + 1 BY <3>2, <3>4, <1>n, <1>m
    <3> QED BY <3>1, <3>2, <3>4, <3>5, <3>6, <1>2, <1>n, <1>m
  <2> QED BY <2>1, <2>2
<1>10. Hydratable(n) BY <1>6, <1>7, <1>8, <1>9 DEF Hydratable
<1> QED BY <1>4, <1>10

\* The observation e is a change of what the journal j holds of its identity.
Changes(j, e) ==
  e.id \in Identities(j) =>
    LET latest == j.current[e.id]
    IN  /\ latest.state # "observed"
        /\ latest.state = "resolved" => e.state = "active"
        /\ latest.state = e.state => latest.content # e.content

\* A commit of a change follows, of its identity, what the journal holds of it:
\* the latest observation is the last one retained.
LEMMA RecordsChange ==
  ASSUME NEW j, Sound(j), NEW e \in Observations, NEW n, NEW s \in 0 .. Len(j.records) + 1,
         Changes(j, e), Records(j, e, n, s)
  PROVE  RecordsChanges(n)
<1>p. PICK q, r, l, m : Numbered(j, n, s, q, r, l, m) BY Numbers
<1>n. /\ j.sequence = q /\ j.retainedThrough = r /\ Len(j.records) = l
      /\ n.sequence = q + 1 /\ n.retainedThrough = r + s /\ Len(n.records) = m
      /\ DOMAIN j.records = 1 .. l /\ DOMAIN n.records = 1 .. m
  BY <1>p DEF Numbered
<1>m. /\ q \in Nat /\ r \in Nat /\ l \in Nat /\ m \in Nat /\ s \in Nat
      /\ l = q - r /\ s <= l + 1 /\ m = l + 1 - s
  BY <1>p DEF Numbered
<1>r. \A i \in 1 .. m : n.records[i] = IF i + s <= l THEN j.records[i + s] ELSE e
  BY <1>n DEF Records
<1> SUFFICES ASSUME NEW a \in DOMAIN n.records, NEW b \in DOMAIN n.records, a < b,
                    n.records[a].id = n.records[b].id,
                    \A k \in a + 1 .. b - 1 : n.records[k].id # n.records[a].id
             PROVE  /\ n.records[a].state # "observed"
                    /\ n.records[a].state = "resolved" => n.records[b].state = "active"
                    /\ n.records[a].state = n.records[b].state =>
                         n.records[a].content # n.records[b].content
  BY DEF RecordsChanges
<1>1. /\ a \in Nat /\ b \in Nat /\ 1 <= a /\ a < b /\ b <= m
      /\ a \in 1 .. m /\ a + s <= l /\ a + s \in 1 .. l
  BY <1>m, <1>n
<1>2. n.records[a] = j.records[a + s] BY <1>1, <1>r
<1>3. \A k \in (a + s) + 1 .. l : k - s < b => j.records[k].id # j.records[a + s].id
  <2> SUFFICES ASSUME NEW k \in (a + s) + 1 .. l, k - s < b
               PROVE  j.records[k].id # j.records[a + s].id
    OBVIOUS
  <2>1. k - s \in a + 1 .. b - 1 /\ k - s \in 1 .. m /\ (k - s) + s = k /\ k <= l BY <1>1, <1>m
  <2>2. n.records[k - s] = j.records[k] BY <2>1, <1>r
  <2> QED BY <2>1, <2>2, <1>2
<1>4. CASE b + s <= l
  <2>n. b \in 1 .. m /\ a + s \in 1 .. l /\ b + s \in 1 .. l /\ a + s < b + s
    BY <1>1, <1>4, <1>m
  <2>1. n.records[b] = j.records[b + s] BY <2>n, <1>4, <1>r
  <2>2. \A k \in (a + s) + 1 .. (b + s) - 1 : j.records[k].id # j.records[a + s].id
    <3> TAKE k \in (a + s) + 1 .. (b + s) - 1
    <3>1. k \in (a + s) + 1 .. l /\ k - s < b BY <1>1, <1>4, <1>m
    <3> QED BY <3>1, <1>3
  <2>3. RecordsChanges(j) BY DEF Sound
  <2>4. a + s \in DOMAIN j.records /\ b + s \in DOMAIN j.records /\ a + s < b + s BY <2>n, <1>n
  <2>5. j.records[a + s].id = j.records[b + s].id BY <2>1, <1>2
  <2>6. /\ j.records[a + s].state # "observed"
        /\ j.records[a + s].state = "resolved" => j.records[b + s].state = "active"
        /\ j.records[a + s].state = j.records[b + s].state =>
             j.records[a + s].content # j.records[b + s].content
    BY <2>2, <2>3, <2>4, <2>5 DEF RecordsChanges
  <2> QED BY <2>1, <2>6, <1>2
<1>5. CASE b + s > l
  <2>1. b \in 1 .. m /\ ~(b + s <= l) /\ b + s = l + 1 BY <1>1, <1>5, <1>m
  <2>e. n.records[b] = e BY <2>1, <1>r
  <2> DEFINE earlier == j.records[a + s]
             latest == j.current[e.id]
  <2>n. j.sequence = q /\ j.retainedThrough = r /\ a + s \in DOMAIN j.records
    BY <1>1, <1>n, <1>m
  <2>2. /\ e.id \in Identities(j) /\ earlier.id = e.id
        /\ earlier.sequence = r + (a + s) /\ latest.sequence >= earlier.sequence
    <3>1. earlier.id = e.id BY <2>e, <1>2
    <3>2. /\ earlier.sequence = j.retainedThrough + (a + s) /\ earlier.id \in Identities(j)
          /\ j.current[earlier.id].sequence >= earlier.sequence
      BY <2>n DEF Sound, Hydratable
    <3> QED BY <3>1, <3>2, <2>n
  <2>3. /\ latest.id = e.id /\ latest.sequence <= q
        /\ latest.sequence > r => j.records[latest.sequence - r] = latest
    BY <2>2, <2>n DEF Sound, Hydratable
  <2>4. latest.sequence \in Nat BY <2>2 DEF Sound, IsJournal, Observations
  <2> HIDE DEF earlier, latest
  <2>5. PICK c \in Nat : latest.sequence = c BY <2>4
  <2>6. c >= r + (a + s) /\ c <= q BY <2>2, <2>3, <2>5
  <2>7. c > r /\ c - r \in a + s .. l BY <2>6, <1>1, <1>m
  <2>8. j.records[c - r].id = earlier.id BY <2>2, <2>3, <2>5, <2>7
  <2>9. c - r = a + s
    <3> SUFFICES ASSUME c - r # a + s PROVE FALSE OBVIOUS
    <3>1. c - r \in (a + s) + 1 .. l /\ (c - r) - s < b
      <4>1. c - r \in Int BY <1>m
      <4>2. a + s \in Nat BY <1>1, <1>m
      <4> QED BY <4>1, <4>2, <2>1, <2>7, <1>1, <1>m, Between
    <3> QED BY <3>1, <2>8, <1>3 DEF earlier
  <2>10. earlier = latest BY <2>3, <2>5, <2>7, <2>9 DEF earlier
  <2> QED BY <2>e, <2>2, <2>10, <1>2 DEF Changes, earlier, latest
<1>6. b + s <= l \/ b + s > l BY <1>1, <1>m
<1> QED BY <1>4, <1>5, <1>6

\* A commit shows what was shown before it, and one observation more.
LEMMA RecordsExtend ==
  ASSUME NEW j, Sound(j), NEW e \in Observations, NEW n, NEW s \in 0 .. Len(j.records) + 1,
         Records(j, e, n, s), Hydratable(n)
  PROVE  Extends(j, n)
<1>p. PICK q, r, l, m : Numbered(j, n, s, q, r, l, m) BY Numbers
<1>n. /\ j.sequence = q /\ j.retainedThrough = r /\ Len(j.records) = l
      /\ n.sequence = q + 1 /\ n.retainedThrough = r + s /\ Len(n.records) = m
      /\ DOMAIN j.records = 1 .. l /\ DOMAIN n.records = 1 .. m
  BY <1>p DEF Numbered
<1>m. /\ q \in Nat /\ r \in Nat /\ l \in Nat /\ m \in Nat /\ s \in Nat
      /\ l = q - r /\ s <= l + 1 /\ m = l + 1 - s
  BY <1>p DEF Numbered
<1>1. n.interval = j.interval BY DEF Records
<1>3. q + 1 >= q BY <1>m
<1>2. ASSUME NEW k \in DOMAIN j.records, NEW i \in DOMAIN n.records,
             j.records[k].sequence = n.records[i].sequence
      PROVE  j.records[k] = n.records[i]
  <2>1. j.records[k].sequence = r + k /\ n.records[i].sequence = (r + s) + i
    BY <1>n DEF Sound, Hydratable
  <2>2. k = i + s /\ k <= l
    <3>1. k \in Nat /\ k <= l /\ i \in Nat BY <1>n
    <3>2. r + k = (r + s) + i BY <2>1, <1>2
    <3>3. r \in Nat /\ s \in Nat BY <1>m
    <3>4. k = i + s BY <3>1, <3>2, <3>3, Cancel
    <3> QED BY <3>1, <3>4
  <2>3. n.records[i] = IF i + s <= l THEN j.records[i + s] ELSE e BY <1>n DEF Records
  <2> QED BY <2>2, <2>3
<1> QED BY <1>1, <1>2, <1>3, <1>n DEF Extends
-----------------------------------------------------------------------------
\* A condition is active or resolved; only an occurrence is observed.
StatesFit(j) ==
  \A id \in Identities(j) \cap ConditionIds : j.current[id].state \in {"active", "resolved"}

\* What a mutation that is neither deduplicated nor rejected leaves.
LEMMA MutatedSound ==
  ASSUME NEW j, Sound(j), StatesFit(j), NEW mutation \in Observes \cup Resolutions,
         Commits(j, mutation), ~Rejects(j, mutation)
  PROVE  LET n == Mutated(j, mutation)
         IN  Sound(n) /\ StatesFit(n) /\ Extends(j, n)
<1> DEFINE id == mutation.id
           state == StateAfter(mutation)
           e == EventOf(j, id, state, mutation.content)
           n == Mutated(j, mutation)
<1>1. /\ id \in Ids /\ mutation.content \in Contents
      /\ state \in {"observed", "active", "resolved"}
      /\ id \in ConditionIds => state \in {"active", "resolved"}
  BY ObservationsAssumption DEF Observes, Resolutions, Ids, StateAfter
<1>2. ~exhausted(Identities(j) \cup {id}) BY DEF Rejects
<1>3. n = Committed(j, id, state, mutation.content) BY DEF Mutated
<1>4. /\ e \in Observations /\ e.id = id /\ e.state = state /\ e.content = mutation.content
      /\ e.interval = j.interval /\ e.sequence = j.sequence + 1
  BY <1>1, EventType DEF Sound, EventOf
<1>5. PICK s \in 0 .. Len(j.records) + 1 : Records(j, e, n, s)
  BY <1>1, <1>2, <1>3, CommittedRecords
<1>6. Changes(j, e)
  <2> SUFFICES ASSUME id \in Identities(j) PROVE LET latest == j.current[id]
                      IN  /\ latest.state # "observed"
                          /\ latest.state = "resolved" => state = "active"
                          /\ latest.state = state => latest.content # mutation.content
    BY <1>4 DEF Changes
  <2>1. CASE mutation.op = "resolve"
    <3>1. j.current[id].state = "active" BY <2>1 DEF Commits
    <3>2. state = "resolved" BY <2>1 DEF StateAfter
    <3> QED BY <3>1, <3>2
  <2>2. CASE mutation.op # "resolve"
    <3>1. /\ ~mutation.occurrence
          /\ ~(j.current[id].state = "active" /\ j.current[id].content = mutation.content)
      BY <2>2 DEF Commits
    <3>2. state = "active" /\ id \in ConditionIds
      BY <2>2, <3>1 DEF StateAfter, Observes, Resolutions
    <3>3. j.current[id].state \in {"active", "resolved"} BY <3>2 DEF StatesFit
    <3> QED BY <3>1, <3>2, <3>3
  <2> QED BY <2>1, <2>2
<1> HIDE DEF e, n, id, state
<1>7. IsJournal(n) /\ Hydratable(n) BY <1>2, <1>4, <1>5, RecordsHydratable
<1>8. RecordsChanges(n) BY <1>4, <1>5, <1>6, RecordsChange
<1>9. Extends(j, n) BY <1>4, <1>5, <1>7, RecordsExtend
<1>10. StatesFit(n)
  <2>1. n.current = [i \in Identities(j) \cup {e.id} |-> IF i = e.id THEN e ELSE j.current[i]]
    BY <1>5 DEF Records
  <2>2. \A i \in Identities(n) : n.current[i] = IF i = e.id THEN e ELSE j.current[i]
    BY <2>1 DEF Identities
  <2>3. Identities(n) = Identities(j) \cup {e.id} BY <2>1 DEF Identities
  <2> QED BY <2>2, <2>3, <1>1, <1>4 DEF StatesFit
<1> QED BY <1>7, <1>8, <1>9, <1>10 DEF Sound, n

\* A discard drops the oldest observations and nothing of the identities.
LEMMA DiscardedSound ==
  ASSUME NEW j, Sound(j), StatesFit(j), NEW boundary \in Nat, boundary <= j.sequence
  PROVE  LET n == Discarded(j, boundary)
         IN  Sound(n) /\ StatesFit(n) /\ Extends(j, n)
<1> DEFINE n == Discarded(j, boundary)
           through == Larger(j.retainedThrough, boundary)
<1>j. /\ j = [interval |-> j.interval, sequence |-> j.sequence,
               retainedThrough |-> j.retainedThrough, records |-> j.records,
               current |-> j.current, closed |-> j.closed]
      /\ j.interval \in Nat /\ j.sequence \in Nat /\ j.retainedThrough \in Nat
      /\ j.records \in Seq(Observations) /\ j.closed \in BOOLEAN
      /\ Identities(j) \subseteq Ids /\ IsFiniteSet(Identities(j))
      /\ j.current \in [Identities(j) -> Observations]
  BY DEF Sound, IsJournal
<1>h. j.retainedThrough <= j.sequence /\ Len(j.records) = j.sequence - j.retainedThrough
  BY DEF Sound, Hydratable
<1>1. PICK q, r, l, d :
        /\ q \in Nat /\ r \in Nat /\ l \in Nat /\ d \in Nat /\ l = q - r /\ d <= l
        /\ j.sequence = q /\ j.retainedThrough = r /\ Len(j.records) = l /\ through = r + d
  <2>1. /\ through - j.retainedThrough \in Nat
        /\ through - j.retainedThrough <= j.sequence - j.retainedThrough
        /\ through = j.retainedThrough + (through - j.retainedThrough)
    BY <1>j, <1>h DEF Larger
  <2>2. j.sequence - j.retainedThrough \in Nat BY <1>j, <1>h
  <2> QED BY <2>1, <2>2, <1>j, <1>h
<1>m. q \in Nat /\ r \in Nat /\ l \in Nat /\ d \in Nat /\ l = q - r /\ d <= l BY <1>1
<1> DEFINE cut == SubSeq(j.records, (through - j.retainedThrough) + 1, Len(j.records))
<1>2. n = [interval |-> j.interval, sequence |-> j.sequence, retainedThrough |-> through,
           records |-> cut, current |-> j.current, closed |-> j.closed]
  <2>1. n = [j EXCEPT !.retainedThrough = through, !.records = cut] BY DEF Discarded
  <2> HIDE DEF n, through, cut
  <2> QED BY <2>1, <1>j
<1>3. (through - j.retainedThrough) + 1 = d + 1 BY <1>1, <1>m
<1>4. n.records = SubSeq(j.records, d + 1, l) BY <1>1, <1>2, <1>3
<1>5. /\ n.records \in Seq(Observations) /\ Len(n.records) = l - d
      /\ DOMAIN n.records = 1 .. l - d
      /\ \A i \in 1 .. l - d : n.records[i] = j.records[i + d]
  <2> DEFINE rest == SubSeq(j.records, d + 1, l)
  <2>1. j.records \in Seq(Observations) /\ Len(j.records) = l BY <1>j, <1>1
  <2>2. /\ rest \in Seq(Observations) /\ Len(rest) = l - d
        /\ DOMAIN rest = 1 .. l - d
        /\ \A i \in 1 .. l - d : rest[i] = j.records[i + d]
    BY <1>m, <2>1, Suffix
  <2>3. n.records = rest BY <1>4
  <2> HIDE DEF rest, n
  <2> QED BY <2>2, <2>3
<1>6. /\ n = [interval |-> n.interval, sequence |-> n.sequence,
               retainedThrough |-> n.retainedThrough, records |-> n.records,
               current |-> n.current, closed |-> n.closed]
      /\ n.interval = j.interval /\ n.sequence = q /\ n.retainedThrough = r + d
      /\ n.current = j.current /\ n.closed = j.closed /\ Identities(n) = Identities(j)
  BY <1>1, <1>2 DEF Identities
<1> HIDE DEF n, through
<1>7. DOMAIN j.records = 1 .. l BY <1>j, <1>1
<1>8. IsJournal(n) BY <1>m, <1>5, <1>6, <1>j DEF IsJournal
<1>9. \A i \in 1 .. l - d : i + d \in 1 .. l /\ r + (i + d) = (r + d) + i BY <1>m
<1>10. Hydratable(n)
  <2>1. n.retainedThrough <= n.sequence /\ Len(n.records) = n.sequence - n.retainedThrough
    BY <1>5, <1>6, <1>m
  <2>2. /\ Len(n.records) <= MaxRetained /\ Cardinality(Identities(n)) <= MaxIdentities
        /\ Len(n.records) + Cardinality(Identities(n)) <= MaxBytes
    <3>1. /\ l <= MaxRetained /\ Cardinality(Identities(j)) <= MaxIdentities
          /\ l + Cardinality(Identities(j)) <= MaxBytes
      BY <1>1 DEF Sound, Hydratable
    <3>2. Cardinality(Identities(j)) \in Nat BY <1>j, FS_CardinalityType
    <3>3. l - d <= MaxRetained /\ (l - d) + Cardinality(Identities(j)) <= MaxBytes
      BY <3>1, <3>2, <1>m, JournalAssumption
    <3> QED BY <3>1, <3>3, <1>5, <1>6
  <2>3. ASSUME NEW i \in DOMAIN n.records
        PROVE  /\ n.records[i].interval = n.interval
               /\ n.records[i].sequence = n.retainedThrough + i
               /\ n.records[i].id \in Identities(n)
               /\ n.current[n.records[i].id].sequence >= n.records[i].sequence
    <3>1. n.records[i] = j.records[i + d] /\ i + d \in DOMAIN j.records
          /\ r + (i + d) = (r + d) + i
      BY <1>5, <1>7, <1>9
    <3>2. /\ j.records[i + d].interval = j.interval
          /\ j.records[i + d].sequence = j.retainedThrough + (i + d)
          /\ j.records[i + d].id \in Identities(j)
          /\ j.current[j.records[i + d].id].sequence >= j.records[i + d].sequence
      BY <3>1 DEF Sound, Hydratable
    <3> QED BY <3>1, <3>2, <1>1, <1>6
  <2>4. ASSUME NEW id \in Identities(n)
        PROVE  /\ n.current[id].id = id /\ n.current[id].interval = n.interval
               /\ n.current[id].sequence <= n.sequence
               /\ n.current[id].sequence > n.retainedThrough =>
                    n.records[n.current[id].sequence - n.retainedThrough] = n.current[id]
    <3> DEFINE latest == j.current[id]
    <3>1. id \in Identities(j) /\ n.current[id] = latest BY <1>6
    <3>2. /\ latest.id = id /\ latest.interval = j.interval /\ latest.sequence <= q
          /\ latest.sequence > r => j.records[latest.sequence - r] = latest
      BY <3>1, <1>1 DEF Sound, Hydratable
    <3>3. latest.sequence \in Nat BY <3>1, <1>j DEF Observations
    <3> HIDE DEF latest
    <3>4. PICK c \in Nat : latest.sequence = c BY <3>3
    <3>5. c > r + d => n.records[c - (r + d)] = latest
      <4> SUFFICES ASSUME c > r + d PROVE n.records[c - (r + d)] = latest OBVIOUS
      <4>1. c <= q BY <3>2, <3>4
      <4>2. c - (r + d) \in 1 .. l - d /\ (c - (r + d)) + d = c - r /\ c > r BY <4>1, <1>m
      <4>3. n.records[c - (r + d)] = j.records[(c - (r + d)) + d] BY <4>2, <1>5
      <4> QED BY <4>2, <4>3, <3>2, <3>4
    <3> QED BY <3>1, <3>2, <3>4, <3>5, <1>6
  <2> QED BY <2>1, <2>2, <2>3, <2>4 DEF Hydratable
<1>11. RecordsChanges(n)
  <2> SUFFICES ASSUME NEW a \in DOMAIN n.records, NEW b \in DOMAIN n.records, a < b,
                      n.records[a].id = n.records[b].id,
                      \A k \in a + 1 .. b - 1 : n.records[k].id # n.records[a].id
               PROVE  /\ n.records[a].state # "observed"
                      /\ n.records[a].state = "resolved" => n.records[b].state = "active"
                      /\ n.records[a].state = n.records[b].state =>
                           n.records[a].content # n.records[b].content
    BY DEF RecordsChanges
  <2>1. a \in 1 .. l - d /\ b \in 1 .. l - d BY <1>5
  <2>2. /\ n.records[a] = j.records[a + d] /\ n.records[b] = j.records[b + d]
        /\ a + d \in DOMAIN j.records /\ b + d \in DOMAIN j.records
    BY <2>1, <1>5, <1>7, <1>9
  <2>3. a + d < b + d BY <2>1, <1>m
  <2>4. \A k \in (a + d) + 1 .. (b + d) - 1 : j.records[k].id # j.records[a + d].id
    <3> TAKE k \in (a + d) + 1 .. (b + d) - 1
    <3>1. k - d \in a + 1 .. b - 1 /\ k - d \in 1 .. l - d /\ (k - d) + d = k BY <2>1, <1>m
    <3>2. n.records[k - d] = j.records[k] BY <3>1, <1>5
    <3> QED BY <3>1, <3>2, <2>2
  <2>5. RecordsChanges(j) BY DEF Sound
  <2>6. /\ j.records[a + d].state # "observed"
        /\ j.records[a + d].state = "resolved" => j.records[b + d].state = "active"
        /\ j.records[a + d].state = j.records[b + d].state =>
             j.records[a + d].content # j.records[b + d].content
    BY <2>2, <2>3, <2>4, <2>5 DEF RecordsChanges
  <2> QED BY <2>2, <2>6
<1>12. StatesFit(n) BY <1>6 DEF StatesFit
<1>13. Extends(j, n)
  <2>1. ASSUME NEW k \in DOMAIN j.records, NEW i \in DOMAIN n.records,
               j.records[k].sequence = n.records[i].sequence
        PROVE  j.records[k] = n.records[i]
    <3>1. j.records[k].sequence = r + k /\ n.records[i].sequence = (r + d) + i
      BY <1>1, <1>6, <1>10 DEF Sound, Hydratable
    <3>2. k \in Nat /\ i \in Nat /\ n.records[i] = j.records[i + d] BY <1>5, <1>7
    <3>3. r + k = (r + d) + i BY <2>1, <3>1
    <3>4. k = i + d BY <3>2, <3>3, <1>m, Cancel
    <3> QED BY <3>2, <3>4
  <2>2. q >= q BY <1>m
  <2> QED BY <2>1, <2>2, <1>1, <1>6 DEF Extends
<1> QED BY <1>8, <1>10, <1>11, <1>12, <1>13 DEF Sound, n

\* A journal without observations, in the interval it is in.
LEMMA EmptySound ==
  ASSUME NEW j, j.interval \in Nat, j.closed \in BOOLEAN,
         j = [interval |-> j.interval, sequence |-> 0, retainedThrough |-> 0,
              records |-> <<>>, current |-> <<>>, closed |-> j.closed]
  PROVE  Sound(j) /\ StatesFit(j)
<1>1. /\ j.sequence = 0 /\ j.retainedThrough = 0 /\ j.records = <<>> /\ j.current = <<>> OBVIOUS
<1>2. Identities(j) = {} BY <1>1 DEF Identities
<1>3. IsFiniteSet(Identities(j)) /\ Cardinality(Identities(j)) = 0 BY <1>2, FS_EmptySet
<1>4. IsJournal(j)
  <2>1. j.current \in [Identities(j) -> Observations] BY <1>1, <1>2
  <2>2. j.records \in Seq(Observations) BY <1>1
  <2> QED BY <1>1, <1>2, <1>3, <2>1, <2>2 DEF IsJournal
<1>5. Hydratable(j) BY <1>1, <1>2, <1>3, JournalAssumption DEF Hydratable
<1>6. RecordsChanges(j) /\ StatesFit(j) BY <1>1, <1>2 DEF RecordsChanges, StatesFit
<1> QED BY <1>4, <1>5, <1>6 DEF Sound

\* A Clear begins an interval of its own.
LEMMA ClearedSound ==
  ASSUME NEW j, Sound(j) PROVE LET n == Cleared(j)
         IN  Sound(n) /\ StatesFit(n) /\ Extends(j, n)
<1> DEFINE n == Cleared(j)
<1>1. /\ j = [interval |-> j.interval, sequence |-> j.sequence,
               retainedThrough |-> j.retainedThrough, records |-> j.records,
               current |-> j.current, closed |-> j.closed]
      /\ j.interval \in Nat /\ j.closed \in BOOLEAN
  BY DEF Sound, IsJournal
<1>2. n = [interval |-> j.interval + 1, sequence |-> 0, retainedThrough |-> 0,
           records |-> <<>>, current |-> <<>>, closed |-> j.closed]
  <2>1. n = [j EXCEPT !.interval = @ + 1, !.sequence = 0, !.retainedThrough = 0,
                      !.records = <<>>, !.current = <<>>]
    BY DEF Cleared
  <2> HIDE DEF n
  <2> QED BY <2>1, <1>1
<1> HIDE DEF n
<1>3. n.interval \in Nat /\ n.interval > j.interval /\ n.closed = j.closed BY <1>1, <1>2
<1>4. Sound(n) /\ StatesFit(n) BY <1>1, <1>2, <1>3, EmptySound
<1>5. n.records = <<>> BY <1>2
<1>6. Extends(j, n) BY <1>3, <1>5 DEF Extends
<1> QED BY <1>4, <1>6 DEF n

\* What a journal shows does not depend on whether it is closed.
LEMMA ClosedSound ==
  ASSUME NEW j, Sound(j), StatesFit(j) PROVE LET n == Closed(j)
         IN  Sound(n) /\ StatesFit(n) /\ Alike(n, j)
<1> DEFINE n == Closed(j)
<1>1. j = [interval |-> j.interval, sequence |-> j.sequence,
           retainedThrough |-> j.retainedThrough, records |-> j.records,
           current |-> j.current, closed |-> j.closed]
  BY DEF Sound, IsJournal
<1>2. n = [interval |-> j.interval, sequence |-> j.sequence,
           retainedThrough |-> j.retainedThrough, records |-> j.records,
           current |-> j.current, closed |-> TRUE]
  <2>1. n = [j EXCEPT !.closed = TRUE] BY DEF Closed
  <2> HIDE DEF n
  <2> QED BY <2>1, <1>1
<1> HIDE DEF n
<1>3. /\ Alike(n, j) /\ n.closed = TRUE /\ Identities(n) = Identities(j)
      /\ n = [interval |-> n.interval, sequence |-> n.sequence,
              retainedThrough |-> n.retainedThrough, records |-> n.records,
              current |-> n.current, closed |-> n.closed]
  BY <1>2 DEF Alike, Identities
<1>4. IsJournal(n) BY <1>3 DEF Sound, IsJournal, Alike
<1>5. Hydratable(n) BY <1>3 DEF Sound, Hydratable, Alike
<1>6. RecordsChanges(n) BY <1>3 DEF Sound, RecordsChanges, Alike
<1>7. StatesFit(n) BY <1>3 DEF StatesFit, Alike
<1> QED BY <1>3, <1>4, <1>5, <1>6, <1>7 DEF Sound, n
-----------------------------------------------------------------------------
\* The inductive invariant: what is in memory, stored and pending is sound, the
\* next state of a running operation extends what is in memory, and the
\* database holds the one or the other.
IInv ==
  /\ Sound(journal) /\ StatesFit(journal)
  /\ Sound(stored) /\ StatesFit(stored)
  /\ Sound(pending) /\ StatesFit(pending)
  /\ persisting \in {"idle", "writing", "written"}
  /\ IF persisting = "written" THEN stored = pending ELSE Alike(stored, journal)
  /\ persisting # "idle" => Extends(journal, pending)

\* A state extends the ones that it is alike.
LEMMA AlikeSteps ==
  ASSUME NEW j, Sound(j), NEW n, Alike(n, j) PROVE Extends(j, n)
<1>1. j.interval \in Nat /\ j.sequence \in Nat /\ DOMAIN j.records = 1 .. Len(j.records)
  BY DEF Sound, IsJournal
<1>2. \A k \in DOMAIN j.records : j.records[k].sequence = j.retainedThrough + k
  BY DEF Sound, Hydratable
<1>3. ASSUME NEW k \in DOMAIN j.records, NEW i \in DOMAIN j.records,
             j.records[k].sequence = j.records[i].sequence
      PROVE  j.records[k] = j.records[i]
  <2>1. j.retainedThrough + k = j.retainedThrough + i BY <1>2, <1>3
  <2>2. j.retainedThrough \in Nat /\ k \in Nat /\ i \in Nat BY <1>1 DEF Sound, IsJournal
  <2>3. k = i BY <2>1, <2>2
  <2> QED BY <2>3
<1> QED BY <1>1, <1>3 DEF Alike, Extends

\* An empty journal, stored as it is, satisfies the invariant.
LEMMA Initially == Init => IInv
<1> SUFFICES ASSUME Init PROVE IInv OBVIOUS
<1>1. Sound(emptyPersistedState) /\ StatesFit(emptyPersistedState)
  BY EmptySound DEF emptyPersistedState
<1> QED BY <1>1 DEF Init, IInv, Alike

\* What an operation persists.
LEMMA PersistStep ==
  ASSUME IInv, NEW next, Sound(next), StatesFit(next), Extends(journal, next), Persist(next)
  PROVE  IInv'
<1>1. /\ journal' = journal /\ stored' = stored /\ pending' = next
      /\ persisting = "idle" /\ persisting' = "writing"
  BY DEF Persist
<1>2. Alike(stored, journal) /\ Sound(journal) /\ StatesFit(journal) /\ Sound(stored) /\ StatesFit(stored)
  BY <1>1 DEF IInv
<1> QED BY <1>1, <1>2 DEF IInv

\* Every step keeps the invariant.
LEMMA Inductive == IInv /\ [Next]_vars => IInv'
<1> SUFFICES ASSUME IInv, [Next]_vars PROVE IInv' OBVIOUS
<1>1. ASSUME NEW mutation \in Observes \cup Resolutions, Mutate(mutation) PROVE IInv'
  BY <1>1, PersistStep, MutatedSound DEF Mutate, IInv
<1>2. ASSUME NEW boundary \in 0 .. journal.sequence, Discard(boundary) PROVE IInv'
  <2>1. boundary \in Nat /\ boundary <= journal.sequence BY <1>2 DEF Discard
  <2>2. LET n == Discarded(journal, boundary)
        IN  Sound(n) /\ StatesFit(n) /\ Extends(journal, n)
    BY <2>1, DiscardedSound DEF IInv
  <2> QED BY <1>2, <2>2, PersistStep DEF Discard
<1>3. CASE Clear BY <1>3, PersistStep, ClearedSound DEF Clear, IInv
<1>4. CASE WriteCompletes BY <1>4 DEF WriteCompletes, IInv
<1>5. CASE WriteAborts BY <1>5 DEF WriteAborts, IInv
<1>6. CASE Settle BY <1>6 DEF IInv, Alike, Settle
<1>7. CASE Close
  <2>1. Sound(Closed(journal)) /\ StatesFit(Closed(journal)) /\ Alike(Closed(journal), journal)
    BY ClosedSound DEF IInv
  <2>2. journal' = Closed(journal) /\ stored' = stored /\ pending' = pending
        /\ persisting' = persisting /\ persisting = "idle"
    BY <1>7 DEF Close
  <2>3. Alike(stored, journal) BY <2>2 DEF IInv
  <2>4. Alike(stored, Closed(journal)) BY <2>1, <2>3 DEF Alike
  <2> QED BY <2>1, <2>2, <2>4 DEF IInv
<1>8. CASE Reopen
  <2>1. Opened(stored) = stored BY DEF Opened, IInv, Sound
  <2>2. journal' = stored /\ pending' = stored /\ stored' = stored /\ persisting' = "idle"
    BY <1>8, <2>1 DEF Reopen
  <2> QED BY <2>2 DEF IInv, Alike
<1>9. CASE UNCHANGED <<journal, stored, persisting, pending>> BY <1>9 DEF IInv
<1> QED
  BY <1>1, <1>2, <1>3, <1>4, <1>5, <1>6, <1>7, <1>8, <1>9 DEF Next, vars, Subscribe, Unsubscribe

\* The invariant holds in every reachable state.
LEMMA Invariance == Spec => []IInv
BY Initially, Inductive, PTL DEF Spec
-----------------------------------------------------------------------------
\* Whatever is evicted, discarded or cleared, and wherever the panel goes away,
\* the journal and what is stored can be opened again, every observation in
\* them records a change, and a range that is called complete is answered in
\* full (diagnostic-observation.ts, hydratePersistedState, observe,
\* retainDiagnosticCapacity and query).
THEOREM SoundJournal == Spec => []JournalIsSound
<1>1. IInv => JournalIsSound
  <2> SUFFICES ASSUME IInv, NEW after \in 0 .. journal.sequence,
                      NEW through \in 0 .. journal.sequence,
                      queryStatus(journal, after, through) = "complete"
               PROVE  {r.sequence : r \in queryResult(journal, after, through)} = after + 1 .. through
    BY DEF JournalIsSound, IInv, Sound
  <2>1. /\ after \in Nat /\ through \in Nat /\ after <= through /\ through <= journal.sequence
        /\ after >= journal.retainedThrough
    BY DEF queryStatus, IInv, Sound, IsJournal
  <2>2. /\ journal.sequence \in Nat /\ journal.retainedThrough \in Nat
        /\ Len(journal.records) = journal.sequence - journal.retainedThrough
        /\ DOMAIN journal.records = 1 .. Len(journal.records)
        /\ \A i \in DOMAIN journal.records :
             journal.records[i].sequence = journal.retainedThrough + i
    BY DEF IInv, Sound, IsJournal, Hydratable
  <2>3. ASSUME NEW r \in queryResult(journal, after, through)
        PROVE  r.sequence \in after + 1 .. through
    <3>1. r \in Range(journal.records) /\ after < r.sequence /\ r.sequence <= through
      BY DEF queryResult
    <3>2. PICK i \in DOMAIN journal.records : r = journal.records[i] BY <3>1 DEF Range
    <3>3. r.sequence \in Int BY <2>2, <3>2
    <3> QED BY <2>1, <3>1, <3>3
  <2>4. ASSUME NEW k \in after + 1 .. through
        PROVE  \E r \in queryResult(journal, after, through) : r.sequence = k
    <3> DEFINE i == k - journal.retainedThrough
    <3>1. i \in DOMAIN journal.records /\ journal.retainedThrough + i = k BY <2>1, <2>2
    <3>2. journal.records[i].sequence = k BY <2>2, <3>1
    <3>3. journal.records[i] \in Range(journal.records) BY <3>1 DEF Range
    <3>4. after < k /\ k <= through BY <2>1
    <3>5. journal.records[i] \in queryResult(journal, after, through)
      BY <3>2, <3>3, <3>4 DEF queryResult
    <3> QED BY <3>2, <3>5
  <2> QED BY <2>3, <2>4
<1> QED BY <1>1, Invariance, PTL

\* No step takes back what the journal has shown: its boundary never moves back,
\* and no two different observations ever stand at one boundary, a panel that
\* goes away while it persists included (diagnostic-observation.ts).
THEOREM RecordedFinal == Spec => RecordedIsFinal
<1> DEFINE Final ==
      /\ \/ journal'.interval > journal.interval
         \/ journal'.interval = journal.interval /\ journal'.sequence >= journal.sequence
      /\ \A earlier \in Range(journal.records), later \in Range(journal'.records) :
           earlier.interval = later.interval /\ earlier.sequence = later.sequence =>
             earlier = later
<1>1. ASSUME Extends(journal, journal') PROVE Final BY <1>1 DEF Extends, Range
<1>2. ASSUME IInv, Next, journal' # journal PROVE Extends(journal, journal')
  <2>1. CASE Settle BY <2>1, <1>2 DEF Settle, IInv
  <2>2. CASE Close BY <2>2, AlikeSteps, <1>2, ClosedSound DEF Close, IInv
  <2>3. CASE Reopen
    <3>1. journal' = stored BY <2>3, <1>2 DEF Reopen, Opened, IInv, Sound
    <3>2. CASE persisting = "written" BY <1>2, <3>1, <3>2 DEF IInv
    <3>3. CASE persisting # "written" BY <1>2, <3>1, <3>3, AlikeSteps DEF IInv
    <3> QED BY <3>2, <3>3
  <2> QED BY <1>2, <2>1, <2>2, <2>3 DEF Next, Mutate, Discard, Clear, Persist, WriteCompletes,
    WriteAborts, Subscribe, Unsubscribe
<1>3. IInv /\ [Next]_vars => [Final]_vars
  <2> SUFFICES ASSUME IInv, Next PROVE Final \/ UNCHANGED vars BY DEF vars
  <2>1. CASE journal' = journal BY <2>1, <1>1, AlikeSteps DEF IInv, Alike
  <2>2. CASE journal' # journal BY <2>2, <1>1, <1>2
  <2> QED BY <2>1, <2>2
<1> QED BY <1>3, Invariance, PTL DEF Spec, RecordedIsFinal
-----------------------------------------------------------------------------
(* The subscriber *)

\* Induction over the natural numbers, for a set instead of a predicate.
LEMMA Induction ==
  ASSUME NEW T, 0 \in T, \A n \in Nat : n \in T => n + 1 \in T PROVE \A n \in Nat : n \in T
<1> DEFINE Less == {ss \in Nat \X Nat : ss[1] < ss[2]}
           Missing == {n \in Nat : n \notin T}
<1>1. IsWellFoundedOn(Less, Nat) BY NatLessThanWellFounded DEF OpToRel
<1>2. SUFFICES ASSUME Missing # {} PROVE FALSE OBVIOUS
<1>3. PICK m \in Missing : \A n \in Missing : <<n, m>> \notin Less
  <2>1. Missing \subseteq Nat OBVIOUS
  <2> HIDE DEF Less, Missing
  <2> QED BY <1>1, <1>2, <2>1, WFMin, Zenon
<1>4. m \in Nat \ {0} /\ m - 1 \in Nat OBVIOUS
<1>5. m - 1 \in T
  <2>1. <<m - 1, m>> \in Less BY <1>4
  <2> QED BY <1>3, <1>4, <2>1
<1> QED BY <1>4, <1>5

\* got is what the loop of subscribe has passed on after so many records.
Passes(got, records, after) ==
  got = [n \in 0 .. Len(records) |->
           IF n = 0 THEN <<>>
           ELSE IF records[n].sequence > after THEN Append(got[n - 1], records[n].sequence)
           ELSE got[n - 1]]

\* What is passed on of contiguous records is contiguous: the numbers behind the
\* named boundary, or behind what is no longer retained.
Contiguous(s, b, n) ==
  /\ s \in Seq(Int) /\ Len(s) = n
  /\ \A i \in 1 .. n : s[i] = b + i

\* One more record, at r + n.
LEMMA PassesOne ==
  ASSUME NEW r \in Nat, NEW after \in Nat, NEW n \in Nat, NEW s,
         Contiguous(s, Larger(after, r), Larger(0, r + n - Larger(after, r)))
  PROVE  Contiguous(IF r + n + 1 > after THEN Append(s, r + n + 1) ELSE s,
                    Larger(after, r), Larger(0, r + (n + 1) - Larger(after, r)))
<1> DEFINE b == Larger(after, r)
           k == Larger(0, r + n - b)
<1>1. b \in Nat /\ b >= r /\ b >= after /\ b \in {after, r} BY DEF Larger
<1>2. k \in Nat BY <1>1 DEF Larger
<1>3. s \in Seq(Int) /\ Len(s) = k /\ \A i \in 1 .. k : s[i] = b + i BY DEF Contiguous
<1>4. CASE r + n + 1 > after
  <2>1. b <= r + n /\ k = r + n - b BY <1>1, <1>4 DEF Larger
  <2>2. Larger(0, r + (n + 1) - b) = k + 1 /\ r + n + 1 = b + (k + 1) BY <1>1, <2>1 DEF Larger
  <2> HIDE DEF b, k
  <2> DEFINE t == Append(s, r + n + 1)
  <2>3. t \in Seq(Int) /\ Len(t) = k + 1 /\ t[k + 1] = b + (k + 1) /\ \A i \in 1 .. k : t[i] = s[i]
    BY <1>2, <1>3, <2>2
  <2>4. \A i \in 1 .. k + 1 : t[i] = b + i
    <3> HIDE DEF t
    <3>1. \A i \in 1 .. k + 1 : i = k + 1 \/ i \in 1 .. k BY <1>2
    <3> QED BY <1>3, <2>3, <3>1
  <2>5. Contiguous(t, b, k + 1) BY <2>3, <2>4 DEF Contiguous
  <2> QED BY <1>4, <2>2, <2>5 DEF b
<1>5. CASE ~(r + n + 1 > after) BY <1>5, <1>1 DEF Larger
<1> QED BY <1>4, <1>5

\* What subscribe passes on of a sound journal: all that is retained behind the
\* named boundary.
LEMMA ReplayedIsContiguous ==
  ASSUME NEW j, Sound(j), NEW after \in Nat, after <= j.sequence
  PROVE  Contiguous(Replayed(j.records, after), Larger(after, j.retainedThrough),
                    j.sequence - Larger(after, j.retainedThrough))
<1> DEFINE q == j.records
           N == Len(q)
           r == j.retainedThrough
           b == Larger(after, r)
           At(s, n) == Contiguous(s, b, Larger(0, r + n - b))
           Solves(d, n) == /\ d[0] = <<>>
                           /\ \A k \in 1 .. n : d[k] = IF q[k].sequence > after
                                                       THEN Append(d[k - 1], q[k].sequence) ELSE d[k - 1]
           Next1(n, s) == IF q[n].sequence > after THEN Append(s, q[n].sequence) ELSE s
           T == {n \in Nat : n <= N => \E d : Solves(d, n)}
<1>0. /\ r \in Nat /\ N \in Nat /\ j.sequence \in Nat /\ r + N = j.sequence
      /\ \A k \in 1 .. N : q[k].sequence = r + k
  BY DEF Sound, IsJournal, Hydratable
<1> HIDE DEF q, N, r
<1>1. 0 \in T
  <2>1. Solves([k \in {0} |-> <<>>], 0) OBVIOUS
  <2> QED BY <2>1
<1>2. ASSUME NEW n \in Nat, n \in T PROVE n + 1 \in T
  <2>1. SUFFICES ASSUME n + 1 <= N PROVE \E d : Solves(d, n + 1) BY <1>2
  <2>2. PICK d : Solves(d, n) BY <1>0, <1>2, <2>1
  <2> DEFINE g == [k \in 0 .. n + 1 |-> IF k = n + 1 THEN Next1(n + 1, d[n]) ELSE d[k]]
  <2> HIDE DEF Next1
  <2>3. g[0] = <<>> BY <2>2
  <2>4. ASSUME NEW k \in 1 .. n + 1 PROVE g[k] = Next1(k, g[k - 1])
    <3>1. CASE k = n + 1
      <4>1. k - 1 = n /\ n \in 0 .. n + 1 /\ n # n + 1 BY <3>1
      <4>2. g[k] = Next1(k, d[n]) /\ g[k - 1] = d[n] BY <3>1, <4>1
      <4> QED BY <4>2
    <3>2. CASE k # n + 1
      <4>1. k \in 1 .. n /\ k - 1 \in 0 .. n + 1 /\ k - 1 # n + 1 BY <3>2
      <4>2. d[k] = Next1(k, d[k - 1]) BY <2>2, <4>1 DEF Next1
      <4>3. g[k] = d[k] /\ g[k - 1] = d[k - 1] BY <3>2, <4>1
      <4> QED BY <4>2, <4>3
    <3> QED BY <3>1, <3>2
  <2>5. Solves(g, n + 1) BY <2>3, <2>4 DEF Next1
  <2> QED BY <2>5
<1>3. N \in T
  <2> HIDE DEF T
  <2> QED BY <1>0, <1>1, <1>2, Induction
<1>4. PICK d : Solves(d, N) BY <1>0, <1>3
<1> DEFINE e == [n \in 0 .. N |-> d[n]]
           E == CHOOSE x : Passes(x, q, after)
<1>5. Passes(e, q, after)
  <2> HIDE DEF Next1
  <2>1. ASSUME NEW n \in 0 .. N PROVE e[n] = IF n = 0 THEN <<>> ELSE Next1(n, e[n - 1])
    <3>1. CASE n = 0 BY <1>4, <3>1
    <3>2. CASE n # 0
      <4>1. n \in 1 .. N /\ n - 1 \in 0 .. N BY <1>0, <3>2
      <4>2. d[n] = Next1(n, d[n - 1]) BY <1>4, <4>1 DEF Next1
      <4>3. e[n] = d[n] /\ e[n - 1] = d[n - 1] BY <4>1
      <4> QED BY <3>2, <4>2, <4>3
    <3> QED BY <3>1, <3>2
  <2>2. e = [n \in 0 .. N |-> IF n = 0 THEN <<>> ELSE Next1(n, e[n - 1])] BY <2>1
  <2> QED BY <2>2 DEF Passes, N, Next1
<1>6. Passes(E, q, after)
  <2> HIDE DEF e
  <2> QED BY <1>5
<1>7. E = [n \in 0 .. N |-> IF n = 0 THEN <<>> ELSE Next1(n, E[n - 1])]
  <2> HIDE DEF E
  <2> QED BY <1>6 DEF Passes, N, Next1
<1>8. Replayed(q, after) = E[N] BY DEF Replayed, Passes, N
<1> HIDE DEF E
<1>9. At(E[0], 0)
  <2>1. E[0] = <<>> BY <1>7, <1>0
  <2>2. Larger(0, r + 0 - b) = 0 BY <1>0 DEF Larger
  <2> QED BY <2>1, <2>2 DEF Contiguous
<1>10. ASSUME NEW n \in Nat, n + 1 <= N, At(E[n], n) PROVE At(E[n + 1], n + 1)
  <2>1. n + 1 \in 0 .. N /\ n + 1 # 0 /\ n + 1 \in 1 .. N /\ (n + 1) - 1 = n BY <1>0, <1>10
  <2>2. E[n + 1] = Next1(n + 1, E[n]) BY <1>7, <2>1
  <2>3. q[n + 1].sequence = r + n + 1 BY <1>0, <2>1
  <2>4. E[n + 1] = IF r + n + 1 > after THEN Append(E[n], r + n + 1) ELSE E[n] BY <2>2, <2>3
  <2> QED BY <1>0, <1>10, <2>4, PassesOne
<1> DEFINE U == {n \in Nat : n <= N => At(E[n], n)}
<1>11. N \in U
  <2>1. 0 \in U BY <1>9
  <2>2. ASSUME NEW n \in Nat, n \in U PROVE n + 1 \in U
    <3> HIDE DEF At
    <3> QED BY <1>0, <1>10, <2>2
  <2> HIDE DEF U
  <2> QED BY <1>0, <2>1, <2>2, Induction
<1>12. Larger(0, r + N - b) = j.sequence - b BY <1>0 DEF Larger
<1>13. At(E[N], N) BY <1>0, <1>11
<1> QED BY <1>8, <1>12, <1>13 DEF q, r

\* What a subscriber may be told.
Tells == SUBSET {"cleared", "unavailable", "retention-gap", "closed"}

\* The record of a subscriber.
FeedRecords ==
  [subscribed : BOOLEAN, interval : Nat, after : Nat, got : Seq(Int), told : Tells]

\* The invariant of the subscriber: its interval is one that the journal has
\* reached, and what it got ends at the journal's boundary.
FeedInv ==
  /\ feed \in FeedRecords
  /\ feed.subscribed =>
       /\ feed.interval <= journal.interval
       /\ IF feed.interval # journal.interval THEN "cleared" \in feed.told
          ELSE /\ Contiguous(feed.got, journal.sequence - Len(feed.got), Len(feed.got))
               /\ Len(feed.got) < journal.sequence - feed.after => "retention-gap" \in feed.told

\* A running operation adds at most one observation to the interval.
AddsOne ==
  persisting # "idle" /\ pending.interval = journal.interval =>
    pending.sequence \in {journal.sequence, journal.sequence + 1}

\* A mutation adds one observation, a discard none, and a Clear begins anew.
LEMMA AddsOneStep == IInv /\ AddsOne /\ [Next]_vars => AddsOne'
<1> SUFFICES ASSUME IInv, AddsOne, [Next]_vars PROVE AddsOne' OBVIOUS
<1>0. IsJournal(journal) BY DEF IInv, Sound
<1>1. ASSUME NEW mutation \in Observes \cup Resolutions, Mutate(mutation) PROVE AddsOne'
  BY <1>0, <1>1 DEF AddsOne, Mutate, Persist, Mutated, Committed, IsJournal
<1>2. ASSUME NEW boundary \in 0 .. journal.sequence, Discard(boundary) PROVE AddsOne'
  BY <1>0, <1>2 DEF AddsOne, Discard, Persist, Discarded, IsJournal
<1>3. CASE Clear BY <1>0, <1>3 DEF AddsOne, Clear, Persist, Cleared, IsJournal
<1>4. CASE WriteCompletes BY <1>4 DEF WriteCompletes, AddsOne
<1>5. CASE WriteAborts \/ Settle \/ Reopen BY <1>5 DEF WriteAborts, Settle, Reopen, AddsOne
<1>6. CASE Close BY <1>6 DEF Close, AddsOne
<1>7. CASE UNCHANGED <<journal, stored, persisting, pending>> BY <1>7 DEF AddsOne
<1> QED BY <1>1, <1>2, <1>3, <1>4, <1>5, <1>6, <1>7 DEF Next, vars, Subscribe, Unsubscribe

\* g is the subscriber f with other things told and got.
Account(g, f, s, n, t) ==
  /\ g \in FeedRecords /\ g.subscribed = s /\ g.got = n /\ g.told = t
  /\ g.interval = f.interval /\ g.after = f.after

\* The fields of a subscriber that is told, or passed, something more.
LEMMA FeedFields ==
  ASSUME NEW f \in FeedRecords, NEW t \in Tells, NEW g \in Seq(Int)
  PROVE  /\ Account([f EXCEPT !.told = t, !.got = g], f, f.subscribed, g, t)
         /\ Account([f EXCEPT !.told = t], f, f.subscribed, f.got, t)
         /\ Account([f EXCEPT !.subscribed = FALSE, !.told = t], f, FALSE, f.got, t)
<1> DEFINE N == Nat
           Q == Seq(Int)
           T == Tells
           B == BOOLEAN
<1>1. FeedRecords = [subscribed : B, interval : N, after : N, got : Q, told : T]
  BY DEF FeedRecords
<1>2. t \in T /\ g \in Q /\ FALSE \in B OBVIOUS
<1> HIDE DEF N, Q, T, B
<1>3. Account([f EXCEPT !.told = t, !.got = g], f, f.subscribed, g, t) BY <1>1, <1>2 DEF Account
<1>4. Account([f EXCEPT !.told = t], f, f.subscribed, f.got, t) BY <1>1, <1>2 DEF Account
<1>5. Account([f EXCEPT !.subscribed = FALSE, !.told = t], f, FALSE, f.got, t)
  BY <1>1, <1>2 DEF Account
<1> QED BY <1>3, <1>4, <1>5

\* What a settled operation publishes keeps the subscriber's account.
LEMMA SettleFeed ==
  ASSUME IInv, AddsOne, FeedInv, Settle PROVE FeedInv'
<1>1. journal' = pending /\ feed' = Published(pending) /\ persisting # "idle" BY DEF Settle
<1>2. /\ journal.interval \in Nat /\ journal.sequence \in Nat
      /\ pending.interval \in Nat /\ pending.sequence \in Nat
      /\ pending.interval > journal.interval \/ pending.interval = journal.interval
  BY <1>1 DEF IInv, Sound, IsJournal, Extends
<1>3. CASE ~feed.subscribed BY <1>1, <1>3 DEF Published, FeedInv
<1> SUFFICES ASSUME feed.subscribed PROVE FeedInv' BY <1>3
<1>4. /\ feed \in FeedRecords /\ feed.told \in Tells /\ feed.got \in Seq(Int)
      /\ feed.interval \in Nat /\ feed.interval <= journal.interval /\ feed.after \in Nat
  BY DEF FeedInv, FeedRecords
<1>5. CASE pending.interval # journal.interval
  <2> DEFINE t == feed.told \cup {"cleared"}
  <2>1. feed' = [feed EXCEPT !.told = t] BY <1>1, <1>5 DEF Published
  <2>2. t \in Tells /\ "cleared" \in t BY <1>4 DEF Tells
  <2> HIDE DEF t
  <2>3. Account(feed', feed, feed.subscribed, feed.got, t) BY <1>4, <2>1, <2>2, FeedFields
  <2>4. feed.interval # pending.interval /\ feed.interval <= pending.interval
    BY <1>2, <1>4, <1>5
  <2> QED BY <1>1, <2>2, <2>3, <2>4 DEF FeedInv, Account
<1>6. CASE pending.interval = journal.interval /\ feed.interval # journal.interval
  BY <1>1, <1>6 DEF FeedInv, Published
<1>7. CASE pending.interval = journal.interval /\ feed.interval = journal.interval
  <2> DEFINE t == IF feed.after < pending.retainedThrough THEN feed.told \cup {"retention-gap"} ELSE feed.told
             g == IF pending.sequence > journal.sequence THEN Append(feed.got, pending.sequence) ELSE feed.got
             n == Len(feed.got)
  <2>1. feed' = [feed EXCEPT !.told = t, !.got = g] BY <1>1, <1>7 DEF Published
  <2>3. feed.told \subseteq t OBVIOUS
  <2>4. /\ feed.got \in Seq(Int) /\ n \in Nat
        /\ \A i \in 1 .. n : feed.got[i] = journal.sequence - n + i
        /\ n < journal.sequence - feed.after => "retention-gap" \in feed.told
    BY <1>7 DEF FeedInv, Contiguous
  <2>5. pending.sequence \in {journal.sequence, journal.sequence + 1} BY <1>1, <1>7 DEF AddsOne
  <2>6. /\ Contiguous(g, pending.sequence - Len(g), Len(g))
        /\ Len(g) < pending.sequence - feed.after => "retention-gap" \in feed.told
    <3>1. CASE pending.sequence = journal.sequence BY <2>4, <3>1, <1>2 DEF Contiguous
    <3>2. CASE pending.sequence = journal.sequence + 1
      <4> HIDE DEF n
      <4>1. g = Append(feed.got, pending.sequence) BY <1>2, <3>2
      <4>2. g \in Seq(Int) /\ Len(g) = n + 1 /\ g[n + 1] = pending.sequence /\ \A i \in 1 .. n : g[i] = feed.got[i]
        BY <1>2, <2>4, <4>1 DEF n
      <4> HIDE DEF g
      <4>3. pending.sequence - (n + 1) = journal.sequence - n BY <1>2, <2>4, <3>2
      <4>4. ASSUME NEW i \in 1 .. n + 1 PROVE g[i] = journal.sequence - n + i
        <5>1. i = n + 1 \/ i \in 1 .. n BY <2>4
        <5>2. CASE i = n + 1 BY <1>2, <2>4, <3>2, <4>2, <5>2
        <5> QED BY <2>4, <4>2, <5>1, <5>2
      <4>5. Contiguous(g, pending.sequence - Len(g), Len(g)) BY <4>2, <4>3, <4>4 DEF Contiguous
      <4>6. Len(g) < pending.sequence - feed.after => n < journal.sequence - feed.after
        BY <1>2, <1>4, <2>4, <3>2, <4>2
      <4> QED BY <2>4, <4>5, <4>6
    <3> QED BY <2>5, <3>1, <3>2
  <2>7. t \in Tells /\ g \in Seq(Int) BY <1>4, <2>6 DEF Tells, Contiguous
  <2> HIDE DEF t, g
  <2>8. Account(feed', feed, feed.subscribed, g, t) BY <1>4, <2>1, <2>7, FeedFields
  <2> QED BY <1>1, <1>4, <1>7, <2>3, <2>6, <2>8 DEF FeedInv, Account
<1> QED BY <1>5, <1>6, <1>7

\* Nobody has subscribed.
LEMMA NobodyFacts == Nobody \in FeedRecords /\ ~Nobody.subscribed /\ <<>> \in Seq(Int)
<1>1. 1 \in Nat /\ 0 \in Nat /\ <<>> \in Seq(Int) /\ {} \in Tells /\ FALSE \in BOOLEAN
  BY DEF Tells
<1> QED BY <1>1 DEF Nobody, FeedRecords

\* A subscription begins with all that is retained behind the named boundary.
LEMMA SubscribeFeed ==
  ASSUME IInv, FeedInv, NEW interval \in 1 .. journal.interval, NEW after \in 0 .. MaxSequence,
         Subscribe(interval, after)
  PROVE  FeedInv'
<1>0. journal' = journal BY DEF Subscribe
<1>a. Nobody \in FeedRecords /\ ~Nobody.subscribed /\ <<>> \in Seq(Int) BY NobodyFacts
<1>1. ASSUME NEW t \in Tells, feed' = [Nobody EXCEPT !.told = t] PROVE FeedInv'
  BY <1>a, <1>1, FeedFields DEF FeedInv, Account
<1>2. CASE interval = journal.interval /\ ~(after > journal.sequence)
  <2> DEFINE g == Replayed(journal.records, after)
             t == IF after < journal.retainedThrough THEN {"retention-gap"} ELSE {}
             m == Larger(after, journal.retainedThrough)
  <2>1. /\ interval = journal.interval /\ ~(after > journal.sequence)
        /\ feed' = [subscribed |-> TRUE, interval |-> interval, after |-> after, got |-> g, told |-> t]
    BY <1>2 DEF Subscribe
  <2>2. /\ journal.interval \in Nat /\ journal.sequence \in Nat /\ journal.retainedThrough \in Nat
        /\ journal.retainedThrough <= journal.sequence /\ Sound(journal)
    BY DEF IInv, Sound, IsJournal, Hydratable
  <2>3. after \in Nat /\ after <= journal.sequence BY <2>1, <2>2, ObservationsAssumption
  <2>4. Contiguous(g, m, journal.sequence - m) BY <2>2, <2>3, ReplayedIsContiguous
  <2>5. m \in Nat /\ m <= journal.sequence BY <2>2, <2>3 DEF Larger
  <2>6. Len(g) = journal.sequence - m BY <2>4 DEF Contiguous
  <2>7. Contiguous(g, journal.sequence - Len(g), Len(g)) BY <2>4, <2>6, <2>2, <2>5
  <2>8. Len(g) < journal.sequence - after => "retention-gap" \in t
    <3>1. SUFFICES ASSUME journal.sequence - m < journal.sequence - after PROVE "retention-gap" \in t
      BY <2>6
    <3>2. after < journal.retainedThrough BY <2>2, <2>3, <2>5, <3>1 DEF Larger
    <3> QED BY <3>2
  <2>9. g \in Seq(Int) /\ t \in Tells BY <2>4 DEF Contiguous, Tells
  <2> HIDE DEF g, t
  <2>10. feed' \in FeedRecords BY <2>1, <2>2, <2>3, <2>9 DEF FeedRecords
  <2> QED BY <1>0, <2>1, <2>2, <2>3, <2>7, <2>8, <2>10 DEF FeedInv
<1>3. CASE ~(interval = journal.interval /\ ~(after > journal.sequence))
  <2> DEFINE t == IF interval # journal.interval THEN {"cleared"} ELSE {"unavailable"}
  <2>1. feed' = [Nobody EXCEPT !.told = t] /\ t \in Tells BY <1>3 DEF Subscribe, Tells
  <2> HIDE DEF t
  <2> QED BY <1>1, <2>1
<1> QED BY <1>2, <1>3

\* Every step keeps the subscriber's invariant.
LEMMA FeedStep == IInv /\ AddsOne /\ FeedInv /\ [Next]_vars => FeedInv'
<1> SUFFICES ASSUME IInv, AddsOne, FeedInv, [Next]_vars PROVE FeedInv' OBVIOUS
<1>1. CASE UNCHANGED <<journal, feed>> BY <1>1 DEF FeedInv
<1>2. CASE Settle BY <1>2, SettleFeed
<1>3. CASE Close
  <2> DEFINE t == IF feed.subscribed THEN feed.told \cup {"closed"} ELSE feed.told
  <2>1. feed' = [feed EXCEPT !.subscribed = FALSE, !.told = t] BY <1>3 DEF Close
  <2>2. feed \in FeedRecords /\ t \in Tells /\ <<>> \in Seq(Int)
    BY DEF FeedInv, FeedRecords, Tells
  <2> HIDE DEF t
  <2>3. Account(feed', feed, FALSE, feed.got, t) BY <2>1, <2>2, FeedFields
  <2> QED BY <2>3 DEF FeedInv, Account
<1>4. ASSUME NEW interval \in 1 .. journal.interval, NEW after \in 0 .. MaxSequence,
             Subscribe(interval, after)
      PROVE  FeedInv'
  BY <1>4, SubscribeFeed
<1>5. CASE Unsubscribe \/ Reopen BY <1>5, NobodyFacts DEF Unsubscribe, Reopen, FeedInv
<1> QED BY <1>1, <1>2, <1>3, <1>4, <1>5 DEF Next, vars, Mutate, Discard, Clear, Persist,
  WriteCompletes, WriteAborts

\* A subscriber that is told neither of a gap nor of a Clear has received every
\* observation since the boundary it named, once and in order, up to the last one
\* that is committed (diagnostic-observation.ts, subscribe and commit).
THEOREM FeedTruthful == Spec => []FeedIsTruthful
<1>1. Init => FeedInv /\ AddsOne BY NobodyFacts DEF Init, FeedInv, AddsOne
<1>2. FeedInv => FeedIsTruthful
  <2> SUFFICES ASSUME FeedInv, feed.subscribed, feed.interval = journal.interval
               PROVE  \A i \in DOMAIN feed.got : feed.got[i] = journal.sequence - Len(feed.got) + i
    BY DEF FeedInv, FeedIsTruthful
  <2>1. Contiguous(feed.got, journal.sequence - Len(feed.got), Len(feed.got)) BY DEF FeedInv
  <2>2. DOMAIN feed.got = 1 .. Len(feed.got) BY <2>1 DEF Contiguous
  <2> QED BY <2>1, <2>2 DEF Contiguous
<1> QED BY <1>1, <1>2, AddsOneStep, FeedStep, Invariance, PTL DEF Spec
-----------------------------------------------------------------------------
(* The topology: the invariant *)

ProjectionType ==
  [page : 0 .. MaxPages, state : [Entities -> Cutoffs],
   acceptedCutoff : Cutoffs \cup {NoGeneration}, appliedLive : SUBSET Cutoffs,
   completed : SUBSET Cutoffs, retained : SUBSET Cutoffs, retired : SUBSET Pages]
StageType == [begin : Seq(Messages), chunks : {0, 1}, observations : SUBSET Cutoffs]

\* Entries that the history may commit, and what is true of an entry when the
\* pages have captured l.
IsEvidence(x) == x.kind \in {"capture", "checkpoint"}
IsCapture(x, p) == x.kind = "capture" /\ x.page = p
IsCheckpoint(x, p) == x.kind = "checkpoint" /\ x.page = p

WellFormed(x, l) ==
  /\ x \in Entry
  /\ IsEvidence(x) => /\ x.page \in Pages /\ x.sequence <= Len(l[x.page])
                      /\ x.observations \subseteq 1 .. Len(l[x.page])
  /\ x.kind = "capture" => x.sequence > 0
  /\ x.kind # "checkpoint" => x.observations = {}

\* A message of something that its page has captured.
SoundMessage(w, l) ==
  w \in Messages /\ w.sequence <= Len(l[w.page]) /\ (w.type = "capture" => w.sequence > 0)

SoundStage(st, l) ==
  IF st.begin = <<>> THEN st = NoStage
  ELSE /\ Len(st.begin) = 1 /\ SoundMessage(st.begin[1], l) /\ st.begin[1].type = "begin"
       /\ st.observations \subseteq 1 .. Len(l[st.begin[1].page])

\* What is on its way, waits, is committed and staged is true of the pages.
AllWellFormed ==
  /\ \A i \in DOMAIN wire : SoundMessage(wire[i], log)
  /\ \A i \in DOMAIN queue : WellFormed(queue[i], log)
  /\ \A i \in DOMAIN committed : WellFormed(committed[i], log) /\ IsEvidence(committed[i])
  /\ SoundStage(stagedSync, log)

\* The observations that an entry brings to its page, and those of page p that
\* the panel has heard of and not forgotten.
Observed(x) == (IF x.kind = "capture" THEN {x.sequence} ELSE {}) \cup x.observations
ObservedIn(C, p) == UNION {Observed(C[i]) : i \in {j \in DOMAIN C : C[j].page = p}}
WaitingIn(q, p) == UNION {q[i].observations : i \in {j \in DOMAIN q : q[j].page = p}}
StagedOf(st, p) == IF st.begin # <<>> /\ st.begin[1].page = p THEN st.observations ELSE {}
Heard(C, q, st, p) == ObservedIn(C, p) \cup WaitingIn(q, p) \cup StagedOf(st, p)

\* The captures of a page come in sequence, after all that was heard of it.
QueueInSequence(q, C, st) ==
  \A i \in DOMAIN q : q[i].kind = "capture" =>
    /\ \A n \in Heard(C, q, st, q[i].page) : n < q[i].sequence
    /\ \A j \in DOMAIN q : i < j /\ IsCapture(q[j], q[i].page) => q[i].sequence < q[j].sequence

IsCaptured(w, p) == w.type = "capture" /\ w.page = p
WireInSequence(w, q, C, st) ==
  \A i \in DOMAIN w : w[i].type = "capture" =>
    /\ \A n \in Heard(C, q, st, w[i].page) : n < w[i].sequence
    /\ \A j \in DOMAIN q : IsCapture(q[j], w[i].page) => q[j].sequence < w[i].sequence
    /\ \A j \in DOMAIN w : i < j /\ IsCaptured(w[j], w[i].page) => w[i].sequence < w[j].sequence

\* A synchronization waits or is committed once, and is taken to be offered.
IsSync(x) == x.kind = "checkpoint" \/ (x.kind = "gap" /\ x.page # 0)
SyncOf(x) == <<x.page, x.sequence>>
OfferedOnce(q, C, offered) ==
  /\ \A i \in DOMAIN q : IsSync(q[i]) =>
       /\ SyncOf(q[i]) \in offered
       /\ \A j \in DOMAIN q : i # j /\ IsSync(q[j]) => SyncOf(q[i]) # SyncOf(q[j])
  /\ \A i \in DOMAIN C : C[i].kind = "checkpoint" =>
       /\ SyncOf(C[i]) \in offered
       /\ \A j \in DOMAIN q : IsSync(q[j]) => SyncOf(C[i]) # SyncOf(q[j])
       /\ \A j \in DOMAIN C : i # j /\ C[j].kind = "checkpoint" => SyncOf(C[i]) # SyncOf(C[j])

\* The projection pr is on the page that came last into C.
FollowsPages(pr, C) ==
  /\ pr.page \in Pages /\ pr.page \notin pr.retired
  /\ \A i \in DOMAIN C : C[i].page \in pr.retired \cup {pr.page}
  /\ \A q \in pr.retired :
       \E i \in DOMAIN C : C[i].page = q /\ \A j \in DOMAIN C : C[j].page = pr.page => i < j
OnLatestPage(pr, C) ==
  IF C = <<>> THEN pr = NoProjection
  ELSE FollowsPages(pr, C) /\ \E i \in DOMAIN C : C[i].page = pr.page

\* The last of the first n captures in l of page p that is about entity e.
LastOf(l, p, n, e) == Max({0} \cup {i \in 1 .. n : l[p][i] = e})

\* What C says of entity e of page p, of whose checkpoints the latest is at "cutoff".
SaidBy(x, cutoff) == IF x.kind = "capture" \/ x.sequence = cutoff THEN Observed(x) ELSE {}
Says(C, l, p, cutoff, e) ==
  {n \in UNION {SaidBy(C[i], cutoff) : i \in {j \in DOMAIN C : C[j].page = p}} : l[p][n] = e}
  \cup {LastOf(l, p, n, e) : n \in {cutoff} \ {NoGeneration}}

\* The projection pr shows what C says of its page.
Shows(pr, C, l) ==
  /\ pr.acceptedCutoff # NoGeneration =>
       \E i \in DOMAIN C : IsCheckpoint(C[i], pr.page) /\ C[i].sequence = pr.acceptedCutoff
  /\ \A i \in DOMAIN C : IsCheckpoint(C[i], pr.page) => C[i].sequence <= pr.acceptedCutoff
  /\ \A n \in pr.completed : \E i \in DOMAIN C : IsCheckpoint(C[i], pr.page) /\ C[i].sequence = n
  /\ \A n \in pr.retained : \E i \in DOMAIN C : IsCapture(C[i], pr.page) /\ C[i].sequence = n
  /\ \A i \in DOMAIN C : IsCapture(C[i], pr.page) /\ C[i].sequence > pr.acceptedCutoff =>
       C[i].sequence \in pr.retained
  /\ pr.appliedLive \subseteq ObservedIn(C, pr.page)
  /\ \A e \in Entities : /\ pr.state[e] \in {0} \cup Says(C, l, pr.page, pr.acceptedCutoff, e)
                         /\ \A n \in Says(C, l, pr.page, pr.acceptedCutoff, e) : n <= pr.state[e]

\* The gaps that wait; what they, registrations and stages have to do with a basis.
GapsIn(q) == {i \in DOMAIN q : q[i].kind = "gap"}
GapsAgree ==
  /\ evidenceGapGeneration = gaps
  /\ gaps + Cardinality(GapsIn(queue)) <= refused
  /\ \A s \in Syncs : topologySyncGapGenerations[s] <= begun[s] /\ begun[s] <= gaps
  /\ stagedSync.begin # <<>> =>
       <<stagedSync.begin[1].page, stagedSync.begin[1].sequence>> \in activeTopologyStagingSyncIds
RequestsAgree == requests <= breaks + (IF registered THEN 1 ELSE 0)

\* A basis that is claimed rests on a checkpoint.
BasisRests ==
  topologyBasisRecovery # NoSync =>
    /\ currentPageEpoch = topologyBasisRecovery[1] /\ begun[topologyBasisRecovery] = gaps
    /\ \E i \in DOMAIN committed : /\ IsCheckpoint(committed[i], topologyBasisRecovery[1])
                                   /\ committed[i].sequence = topologyBasisRecovery[2]
                                   /\ committed[i].coverage = "complete"

TopologyInv ==
  /\ TopologyTypeOK /\ AllWellFormed
  /\ QueueInSequence(queue, committed, stagedSync)
  /\ WireInSequence(wire, queue, committed, stagedSync)
  /\ OfferedOnce(queue, committed, offeredTopologyCheckpointSyncIds)
  /\ OnLatestPage(projection, committed)
  /\ committed # <<>> => Shows(projection, committed, log)
  /\ GapsAgree /\ RequestsAgree /\ BasisRests
-----------------------------------------------------------------------------
(* Sequences and greatest elements *)

LEMMA Extremes ==
  ASSUME NEW S \in SUBSET Nat
  PROVE  /\ \A x \in S : (\A y \in S : x <= y) => Min(S) = x
         /\ \A x \in S : (\A y \in S : x >= y) => Max(S) = x
         /\ \A h \in Nat : S # {} /\ (\A y \in S : y <= h) =>
              Max(S) \in S /\ Max(S) <= h /\ \A y \in S : y <= Max(S)
<1>1. ASSUME NEW x \in S, \A y \in S : x <= y PROVE Min(S) = x
  <2>1. \A z \in S : (\A y \in S : z <= y) => z = x BY <1>1
  <2> QED BY <1>1, <2>1 DEF Min
<1>2. ASSUME NEW x \in S, \A y \in S : x >= y PROVE Max(S) = x
  <2>1. \A z \in S : (\A y \in S : z >= y) => z = x BY <1>2
  <2> QED BY <1>2, <2>1 DEF Max
<1>3. ASSUME NEW h \in Nat, S # {}, \A y \in S : y <= h
      PROVE  Max(S) \in S /\ Max(S) <= h /\ \A y \in S : y <= Max(S)
  <2>1. \E x \in S : \A y \in S : x >= y
    <3> DEFINE D == {n \in Nat : (\E x \in S : x >= h - n) => \E x \in S : \A y \in S : x >= y}
    <3>1. 0 \in D
      <4>1. ASSUME NEW x \in S, x >= h - 0 PROVE \A y \in S : x >= y BY <1>3, <4>1
      <4> QED BY <4>1
    <3>2. ASSUME NEW n \in Nat, n \in D PROVE n + 1 \in D
      <4>1. ASSUME NEW x \in S, x >= h - (n + 1), ~(\E y \in S : y >= h - n)
            PROVE  \A y \in S : x >= y
        BY <4>1
      <4> QED BY <3>2, <4>1
    <3>3. h \in D
      <4> HIDE DEF D
      <4> QED BY <3>1, <3>2, Induction
    <3>4. \E x \in S : x >= h - h
      <4>1. PICK x \in S : TRUE BY <1>3
      <4> QED BY <4>1
    <3> QED BY <3>3, <3>4
  <2>2. PICK x \in S : \A y \in S : x >= y BY <2>1
  <2>3. Max(S) = x BY <1>2, <2>2
  <2> QED BY <1>3, <2>2, <2>3
<1> QED BY <1>1, <1>2, <1>3

LEMMA GreaterOf ==
  ASSUME NEW i \in Int, NEW j \in Int, i <= j PROVE Max({i, j}) = j
<1>1. \A x \in {i, j} : (\A y \in {i, j} : x >= y) => x = j OBVIOUS
<1>2. j \in {i, j} /\ \A y \in {i, j} : j >= y OBVIOUS
<1> QED BY <1>1, <1>2 DEF Max

LEMMA AppendIs ==
  ASSUME NEW T, NEW s \in Seq(T), NEW x \in T
  PROVE  /\ Append(s, x) \in Seq(T) /\ Append(s, x) # <<>>
         /\ DOMAIN Append(s, x) = DOMAIN s \cup {Len(s) + 1}
         /\ Append(s, x)[Len(s) + 1] = x
         /\ \A i \in DOMAIN s : Append(s, x)[i] = s[i] /\ i \in Nat /\ i < Len(s) + 1
         /\ Len(s) \in Nat
PROOF OBVIOUS

LEMMA TailIs ==
  ASSUME NEW T, NEW s \in Seq(T), s # <<>>
  PROVE  /\ Tail(s) \in Seq(T) /\ Head(s) = s[1] /\ s[1] \in T /\ 1 \in DOMAIN s
         /\ \A i \in DOMAIN Tail(s) : i \in Nat /\ i >= 1 /\ i + 1 \in DOMAIN s /\ Tail(s)[i] = s[i + 1]
         /\ \A i \in DOMAIN s : i \in Nat /\ i >= 1 /\ (i # 1 => i - 1 \in DOMAIN Tail(s))
PROOF OBVIOUS

LEMMA ConcatIs ==
  ASSUME NEW T, NEW u \in Seq(T), NEW v \in Seq(T)
  PROVE  /\ u \o v \in Seq(T) /\ Len(u \o v) = Len(u) + Len(v)
         /\ \A i \in 1 .. Len(u \o v) : (u \o v)[i] = IF i <= Len(u) THEN u[i] ELSE v[i - Len(u)]
PROOF OBVIOUS

LEMMA WithoutIs ==
  ASSUME NEW T, NEW s \in Seq(T), NEW k \in 1 .. Len(s)
  PROVE  LET r == SubSeq(s, 1, k - 1) \o SubSeq(s, k + 1, Len(s))
         IN  /\ r \in Seq(T)
             /\ \A i \in DOMAIN r : /\ i \in Nat
                                    /\ (IF i < k THEN i ELSE i + 1) \in DOMAIN s
                                    /\ r[i] = s[IF i < k THEN i ELSE i + 1]
<1> DEFINE u == SubSeq(s, 1, k - 1)
           v == SubSeq(s, k + 1, Len(s))
           r == u \o v
<1>1. u \in Seq(T) /\ Len(u) = k - 1 /\ \A i \in 1 .. k - 1 : u[i] = s[i] OBVIOUS
<1>2. v \in Seq(T) /\ Len(v) = Len(s) - k /\ \A i \in 1 .. Len(s) - k : v[i] = s[k + i] OBVIOUS
<1>3. r \in Seq(T) /\ Len(r) = Len(u) + Len(v)
      /\ \A i \in 1 .. Len(r) : r[i] = IF i <= Len(u) THEN u[i] ELSE v[i - Len(u)]
  <2> HIDE DEF u, v
  <2> QED BY <1>1, <1>2, ConcatIs
<1> HIDE DEF u, v, r
<1>4. DOMAIN r = 1 .. Len(s) - 1 BY <1>1, <1>2, <1>3
<1>5. ASSUME NEW i \in DOMAIN r, i < k PROVE i \in DOMAIN s /\ r[i] = s[i]
  <2>1. i \in 1 .. k - 1 /\ i \in 1 .. Len(r) /\ i \in 1 .. Len(s)
    BY <1>1, <1>2, <1>3, <1>4, <1>5
  <2> QED BY <1>1, <1>3, <2>1
<1>6. ASSUME NEW i \in DOMAIN r, ~(i < k) PROVE i + 1 \in DOMAIN s /\ r[i] = s[i + 1]
  <2>1. i \in k .. Len(s) - 1 BY <1>4, <1>6
  <2>2. r[i] = v[i - (k - 1)]
    <3>1. Len(u) = k - 1 /\ Len(r) = Len(s) - 1 /\ Len(s) \in Nat BY <1>1, <1>2, <1>3
    <3>2. i \in 1 .. Len(r) /\ ~(i <= Len(u)) BY <2>1, <3>1
    <3> QED BY <1>3, <3>1, <3>2
  <2>3. i - (k - 1) \in 1 .. Len(s) - k /\ k + (i - (k - 1)) = i + 1 BY <2>1
  <2> QED BY <1>2, <2>1, <2>2, <2>3
<1>7. \A i \in DOMAIN r : /\ i \in Nat
                          /\ (IF i < k THEN i ELSE i + 1) \in DOMAIN s
                          /\ r[i] = s[IF i < k THEN i ELSE i + 1]
  BY <1>4, <1>5, <1>6
<1> QED BY <1>3, <1>7 DEF u, v, r
-----------------------------------------------------------------------------
(* What the Evidence says *)

LEMMA LastOfIs ==
  ASSUME NEW l, NEW p, NEW e, NEW n \in Cutoffs
  PROVE  /\ LastOf(l, p, n, e) \in 0 .. n
         /\ LastOf(l, p, n, e) # 0 => l[p][LastOf(l, p, n, e)] = e
         /\ \A i \in 1 .. n : l[p][i] = e => i <= LastOf(l, p, n, e)
<1> DEFINE S == {0} \cup {i \in 1 .. n : l[p][i] = e}
<1>0. n \in Nat BY TopologySyncAssumption DEF Cutoffs
<1>1. S \in SUBSET Nat /\ S # {} /\ \A y \in S : y <= n BY <1>0
<1>2. Max(S) \in S /\ \A y \in S : y <= Max(S)
  <2> HIDE DEF S
  <2> QED BY <1>0, <1>1, Extremes
<1>3. LastOf(l, p, n, e) = Max(S) BY DEF LastOf
<1> QED BY <1>0, <1>1, <1>2, <1>3

LEMMA LastOfGrows ==
  ASSUME NEW l, NEW p, NEW e, NEW k \in Cutoffs, NEW n \in Cutoffs, k <= n
  PROVE  LastOf(l, p, k, e) <= LastOf(l, p, n, e)
<1>0. n \in Nat /\ k \in Nat BY TopologySyncAssumption DEF Cutoffs
<1>1. LastOf(l, p, n, e) \in 0 .. n /\ \A i \in 1 .. n : l[p][i] = e => i <= LastOf(l, p, n, e)
  BY LastOfIs
<1>2. LastOf(l, p, k, e) \in 0 .. k /\ (LastOf(l, p, k, e) # 0 => l[p][LastOf(l, p, k, e)] = e)
  BY LastOfIs
<1> QED BY <1>0, <1>1, <1>2

\* What an entry adds to what is observed of its page, and to what is said of it.
LEMMA AppendObserves ==
  ASSUME NEW C \in Seq(Entry), NEW x \in Entry, NEW p
  PROVE  ObservedIn(Append(C, x), p) = ObservedIn(C, p) \cup (IF x.page = p THEN Observed(x) ELSE {})
<1> DEFINE D == Append(C, x)
           S(s) == {i \in DOMAIN s : s[i].page = p}
<1>1. /\ DOMAIN D = DOMAIN C \cup {Len(C) + 1} /\ D[Len(C) + 1] = x
      /\ \A i \in DOMAIN C : D[i] = C[i]
  BY AppendIs
<1>2. S(D) = S(C) \cup (IF x.page = p THEN {Len(C) + 1} ELSE {})
  <2> HIDE DEF D
  <2> QED BY <1>1
<1> HIDE DEF D
<1>3. \A n : n \in ObservedIn(D, p) <=> \E i \in S(D) : n \in Observed(D[i]) BY DEF ObservedIn
<1>4. \A n : n \in ObservedIn(C, p) <=> \E i \in S(C) : n \in Observed(C[i]) BY DEF ObservedIn
<1>5. \A i \in S(C) : D[i] = C[i] BY <1>1
<1>6. ObservedIn(D, p) = ObservedIn(C, p) \cup (IF x.page = p THEN Observed(x) ELSE {})
  <2> HIDE DEF S
  <2> QED BY <1>1, <1>2, <1>3, <1>4, <1>5
<1> QED BY <1>6 DEF D

LEMMA AppendSays ==
  ASSUME NEW C \in Seq(Entry), NEW x \in Entry, NEW p, NEW l, NEW k, NEW e
  PROVE  Says(Append(C, x), l, p, k, e) =
           Says(C, l, p, k, e) \cup (IF x.page = p THEN {n \in SaidBy(x, k) : l[p][n] = e} ELSE {})
<1> DEFINE D == Append(C, x)
           S(s) == {i \in DOMAIN s : s[i].page = p}
<1>1. /\ DOMAIN D = DOMAIN C \cup {Len(C) + 1} /\ D[Len(C) + 1] = x
      /\ \A i \in DOMAIN C : D[i] = C[i]
  BY AppendIs
<1>2. S(D) = S(C) \cup (IF x.page = p THEN {Len(C) + 1} ELSE {})
  <2> HIDE DEF D
  <2> QED BY <1>1
<1> HIDE DEF D
<1>3. ASSUME NEW s, NEW n
      PROVE  n \in Says(s, l, p, k, e) <=> \/ (\E i \in S(s) : n \in SaidBy(s[i], k)) /\ l[p][n] = e
                                          \/ n \in {LastOf(l, p, j, e) : j \in {k} \ {NoGeneration}}
  BY DEF Says
<1>4. \A i \in S(C) : D[i] = C[i] BY <1>1
<1> HIDE DEF S
<1>5. ASSUME NEW n PROVE (\E i \in S(D) : n \in SaidBy(D[i], k))
               <=> (\E i \in S(C) : n \in SaidBy(C[i], k)) \/ (x.page = p /\ n \in SaidBy(x, k))
  BY <1>1, <1>2, <1>4
<1>6. Says(D, l, p, k, e) =
        Says(C, l, p, k, e) \cup (IF x.page = p THEN {n \in SaidBy(x, k) : l[p][n] = e} ELSE {})
  BY <1>3, <1>5
<1> QED BY <1>6 DEF D
-----------------------------------------------------------------------------
(* The projection *)

LEMMA TopologyNumbers == MaxCaptures \in Nat /\ MaxPages \in Nat /\ NoGeneration \notin Cutoffs
                  /\ Cutoffs \subseteq Nat /\ Pages \subseteq Nat /\ 0 \notin Pages /\ 0 \in Cutoffs
PROOF BY TopologySyncAssumption DEF Cutoffs, Pages, NoGeneration

\* An activated page is the one that came last, and shows what is known of it.
LEMMA Activated ==
  ASSUME NEW C \in Seq(Entry), NEW pr \in ProjectionType, NEW p \in Pages, p \notin pr.retired,
         OnLatestPage(pr, C), C # <<>> => Shows(pr, C, log)
  PROVE  LET a == activatePage(pr, p)
         IN  /\ a \in ProjectionType /\ a.page = p
             /\ FollowsPages(a, C) /\ Shows(a, C, log)
<1> DEFINE a == activatePage(pr, p)
<1>1. CASE pr.page = p
  <2>1. C # <<>> BY <1>1, TopologyNumbers DEF OnLatestPage, NoProjection
  <2>2. a = pr BY <1>1 DEF activatePage
  <2> QED BY <1>1, <2>1, <2>2 DEF OnLatestPage
<1>2. CASE pr.page # p
  <2>1. a = [NoProjection EXCEPT !.page = p, !.retired = pr.retired \cup ({pr.page} \ {0})]
    BY <1>2 DEF activatePage
  <2>2. pr.page \in 0 .. MaxPages /\ pr.retired \in SUBSET Pages BY DEF ProjectionType
  <2>3. /\ a.page = p /\ a.retired = pr.retired \cup ({pr.page} \ {0}) /\ a.state = Nothing
        /\ a.acceptedCutoff = NoGeneration /\ a.appliedLive = {} /\ a.completed = {} /\ a.retained = {}
    BY <2>1 DEF NoProjection
  <2>4. a \in ProjectionType
    <3>1. pr.retired \cup ({pr.page} \ {0}) \in SUBSET Pages /\ p \in 0 .. MaxPages
      BY <2>2, TopologySyncAssumption DEF Pages
    <3>2. Nothing \in [Entities -> Cutoffs] BY TopologyNumbers DEF Nothing
    <3> QED BY <2>1, <3>1, <3>2 DEF ProjectionType, NoProjection
  <2>5. \A i \in DOMAIN C : C[i].page \in a.retired /\ C[i].page # p
    <3>1. ASSUME NEW i \in DOMAIN C PROVE C[i].page \in a.retired /\ C[i].page # p
      <4>1. C # <<>> BY <3>1
      <4>2. C[i].page \in pr.retired \cup {pr.page} /\ pr.page \in Pages
        BY <4>1 DEF OnLatestPage, FollowsPages
      <4> QED BY <1>2, <2>3, <4>2, TopologyNumbers
    <3> QED BY <3>1
  <2>6. FollowsPages(a, C)
    <3>1. p \notin a.retired BY <1>2, <2>3
    <3>2. ASSUME NEW q \in a.retired PROVE \E i \in DOMAIN C : C[i].page = q
      <4>1. CASE C = <<>> BY <2>3, <3>2, <4>1 DEF OnLatestPage, NoProjection
      <4>2. CASE C # <<>> BY <2>3, <3>2, <4>2 DEF OnLatestPage, FollowsPages
      <4> QED BY <4>1, <4>2
    <3> QED BY <2>3, <2>5, <3>1, <3>2 DEF FollowsPages
  <2>7. Shows(a, C, log)
    <3>1. \A e \in Entities : a.state[e] = 0 BY <2>3 DEF Nothing
    <3>2. \A e \in Entities : Says(C, log, a.page, a.acceptedCutoff, e) = {}
      BY <2>3, <2>5 DEF Says
    <3> QED BY <2>3, <2>5, <3>1, <3>2 DEF Shows, IsCheckpoint, IsCapture
  <2> QED BY <2>3, <2>4, <2>6, <2>7
<1> QED BY <1>1, <1>2

\* An entry of the page that is active keeps it the last one.
LEMMA EntryFollows ==
  ASSUME NEW C \in Seq(Entry), NEW a, NEW b, NEW x \in Entry,
         FollowsPages(a, C), x.page = a.page, b.page = a.page, b.retired = a.retired
  PROVE  OnLatestPage(b, Append(C, x))
<1> DEFINE D == Append(C, x)
<1>1. /\ D # <<>> /\ DOMAIN D = DOMAIN C \cup {Len(C) + 1} /\ D[Len(C) + 1] = x
      /\ \A i \in DOMAIN C : D[i] = C[i] /\ i < Len(C) + 1
  BY AppendIs
<1> HIDE DEF D
<1>2. FollowsPages(b, D)
  <2>1. \A q \in b.retired :
          \E i \in DOMAIN D : D[i].page = q /\ \A j \in DOMAIN D : D[j].page = b.page => i < j
    <3>1. TAKE q \in b.retired
    <3>2. PICK i \in DOMAIN C : C[i].page = q /\ \A j \in DOMAIN C : C[j].page = a.page => i < j
      BY <3>1 DEF FollowsPages
    <3>3. \A j \in DOMAIN D : D[j].page = b.page => i < j BY <1>1, <3>2
    <3> QED BY <1>1, <3>2, <3>3
  <2> QED BY <1>1, <2>1 DEF FollowsPages
<1> QED BY <1>1, <1>2 DEF OnLatestPage, D

\* One of a page that is retired changes nothing.
LEMMA RetiredEntry ==
  ASSUME NEW C \in Seq(Entry), NEW pr, NEW x \in Entry, x.page \in pr.retired,
         OnLatestPage(pr, C), C # <<>> => Shows(pr, C, log)
  PROVE  OnLatestPage(pr, Append(C, x)) /\ Shows(pr, Append(C, x), log)
<1> DEFINE D == Append(C, x)
<1>1. /\ D # <<>> /\ DOMAIN D = DOMAIN C \cup {Len(C) + 1} /\ D[Len(C) + 1] = x
      /\ \A i \in DOMAIN C : D[i] = C[i] /\ i < Len(C) + 1
  BY AppendIs
<1>2. C # <<>> BY DEF OnLatestPage, NoProjection
<1>3. x.page # pr.page BY <1>2 DEF OnLatestPage, FollowsPages
<1>0. \A S : S \cup {} = S OBVIOUS
<1>4. ObservedIn(D, pr.page) = ObservedIn(C, pr.page)
  <2>1. ObservedIn(D, pr.page) = ObservedIn(C, pr.page) \cup (IF x.page = pr.page THEN Observed(x) ELSE {})
    BY AppendObserves
  <2>2. (IF x.page = pr.page THEN Observed(x) ELSE {}) = {} BY <1>3
  <2> QED BY <1>0, <2>1, <2>2
<1>5. \A k, e : Says(D, log, pr.page, k, e) = Says(C, log, pr.page, k, e)
  <2>1. TAKE k, e
  <2>2. Says(D, log, pr.page, k, e) =
          Says(C, log, pr.page, k, e) \cup (IF x.page = pr.page THEN {n \in SaidBy(x, k) : log[pr.page][n] = e} ELSE {})
    BY AppendSays
  <2>3. (IF x.page = pr.page THEN {n \in SaidBy(x, k) : log[pr.page][n] = e} ELSE {}) = {}
    BY <1>3
  <2> QED BY <1>0, <2>2, <2>3
<1> HIDE DEF D
<1>6. OnLatestPage(pr, D)
  <2>1. FollowsPages(pr, C) /\ \E i \in DOMAIN C : C[i].page = pr.page BY <1>2 DEF OnLatestPage
  <2>2. FollowsPages(pr, D) BY <1>1, <1>3, <2>1 DEF FollowsPages
  <2> QED BY <1>1, <2>1, <2>2 DEF OnLatestPage
<1>7. Shows(pr, D, log)
  <2>1. Shows(pr, C, log) BY <1>2
  <2>2. \A i \in DOMAIN D : D[i].page = pr.page => i \in DOMAIN C /\ D[i] = C[i] BY <1>1, <1>3
  <2>3. \A i \in DOMAIN C : i \in DOMAIN D /\ D[i] = C[i] BY <1>1
  <2> QED BY <1>4, <1>5, <2>1, <2>2, <2>3 DEF Shows, IsCheckpoint, IsCapture
<1> QED BY <1>6, <1>7 DEF D

\* A committed capture of the active page, which comes after all that was heard.
LEMMA CaptureShows ==
  ASSUME NEW C \in Seq(Entry), NEW a \in ProjectionType, NEW x \in Entry,
         WellFormed(x, log), IsCapture(x, a.page), Shows(a, C, log),
         \A n \in ObservedIn(C, a.page) : n \in Nat /\ n < x.sequence,
         log[a.page][x.sequence] \in Entities
  PROVE  LET b == applyCommittedCapture(a, x.sequence)
         IN  /\ b \in ProjectionType /\ b.page = a.page /\ b.retired = a.retired
             /\ Shows(b, Append(C, x), log)
<1> DEFINE n == x.sequence
           p == a.page
           cutoff == a.acceptedCutoff
           r == [a EXCEPT !.retained = @ \cup {n}]
           b == applyLive(r, n)
           D == Append(C, x)
<1>0. b = applyCommittedCapture(a, x.sequence) BY DEF applyCommittedCapture
<1>1. n \in Cutoffs /\ n \in Nat /\ n > 0 /\ x.page = p /\ x.kind = "capture" /\ Observed(x) = {n}
  BY TopologyNumbers DEF WellFormed, IsCapture, Observed, Entry
<1>2. /\ r \in ProjectionType /\ r.page = p /\ r.retired = a.retired /\ r.state = a.state
      /\ r.acceptedCutoff = cutoff /\ r.appliedLive = a.appliedLive /\ r.completed = a.completed
      /\ r.retained = a.retained \cup {n}
  BY <1>1 DEF ProjectionType
<1>3. n \notin a.appliedLive
  <2>1. a.appliedLive \subseteq ObservedIn(C, p) BY DEF Shows
  <2>2. \A k \in ObservedIn(C, p) : k # n BY <1>1
  <2> QED BY <2>1, <2>2
<1>4. cutoff \in Cutoffs \cup {NoGeneration} /\ cutoff \in Int /\ (cutoff # NoGeneration => cutoff \in Nat)
  <2>1. cutoff \in Cutoffs \cup {NoGeneration} BY DEF ProjectionType
  <2>2. NoGeneration \in Int BY DEF NoGeneration
  <2>3. cutoff \in Cutoffs => cutoff \in Nat /\ cutoff \in Int
    BY TopologySyncAssumption DEF Cutoffs
  <2> QED BY <2>1, <2>2, <2>3
<1>5. b = IF n <= cutoff THEN r ELSE [r EXCEPT !.state[log[p][n]] = n, !.appliedLive = @ \cup {n}]
  BY <1>2, <1>3 DEF applyLive
<1>6. /\ b \in ProjectionType /\ b.page = p /\ b.retired = a.retired /\ b.acceptedCutoff = cutoff
      /\ b.completed = a.completed /\ b.retained = a.retained \cup {n}
      /\ b.appliedLive \subseteq a.appliedLive \cup {n}
      /\ b.state = IF n <= cutoff THEN a.state ELSE [a.state EXCEPT ![log[p][n]] = n]
  <2> HIDE DEF r
  <2>1. CASE n <= cutoff BY <1>2, <1>5, <2>1
  <2>2. CASE ~(n <= cutoff)
    <3>1. b = [r EXCEPT !.state[log[p][n]] = n, !.appliedLive = @ \cup {n}] BY <1>5, <2>2
    <3> HIDE DEF b
    <3>2. [a.state EXCEPT ![log[p][n]] = n] \in [Entities -> Cutoffs] BY <1>1 DEF ProjectionType
    <3>3. b.state = [a.state EXCEPT ![log[p][n]] = n] /\ b.appliedLive = a.appliedLive \cup {n}
      BY <1>2, <3>1 DEF ProjectionType
    <3> QED BY <1>1, <1>2, <2>2, <3>1, <3>2, <3>3 DEF ProjectionType
  <2> QED BY <2>1, <2>2
<1> HIDE DEF b, r
<1>7. ObservedIn(D, p) = ObservedIn(C, p) \cup {n} BY <1>1, AppendObserves
<1>8. \A e : Says(D, log, p, cutoff, e) = Says(C, log, p, cutoff, e) \cup (IF log[p][n] = e THEN {n} ELSE {})
  <2>1. TAKE e
  <2>2. SaidBy(x, cutoff) = {n} BY <1>1 DEF SaidBy
  <2>3. {k \in SaidBy(x, cutoff) : log[p][k] = e} = IF log[p][n] = e THEN {n} ELSE {} BY <2>2
  <2> QED BY <1>1, <2>3, AppendSays
<1>9. /\ DOMAIN D = DOMAIN C \cup {Len(C) + 1} /\ D[Len(C) + 1] = x
      /\ \A i \in DOMAIN C : D[i] = C[i] /\ i < Len(C) + 1
  BY AppendIs
<1> HIDE DEF D
<1>10. ASSUME NEW e \in Entities
       PROVE  /\ b.state[e] \in {0} \cup Says(D, log, p, cutoff, e)
              /\ \A k \in Says(D, log, p, cutoff, e) : k <= b.state[e]
  <2>1. /\ a.state[e] \in {0} \cup Says(C, log, p, cutoff, e) /\ a.state[e] \in Nat
        /\ \A k \in Says(C, log, p, cutoff, e) : k <= a.state[e]
    BY TopologyNumbers DEF Shows, ProjectionType
  <2>2. CASE log[p][n] # e BY <1>8, <2>1, <2>2, <1>6 DEF ProjectionType
  <2>3. CASE log[p][n] = e /\ n <= cutoff
    <3>1. cutoff # NoGeneration /\ cutoff \in Cutoffs BY <1>1, <1>4, <2>3 DEF NoGeneration
    <3>2. LastOf(log, p, cutoff, e) \in Says(C, log, p, cutoff, e) BY <3>1 DEF Says
    <3>3. n <= LastOf(log, p, cutoff, e) /\ LastOf(log, p, cutoff, e) \in Nat
      BY <2>3, <3>1, LastOfIs, <1>1, <1>4
    <3>4. b.state[e] = a.state[e] BY <1>6, <2>3
    <3> QED BY <1>1, <1>8, <2>1, <2>3, <3>2, <3>3, <3>4
  <2>4. CASE log[p][n] = e /\ ~(n <= cutoff)
    <3>1. b.state[e] = n BY <1>6, <2>4 DEF ProjectionType
    <3>2. \A k \in Says(C, log, p, cutoff, e) : k <= n
      <4>1. ASSUME NEW k \in Says(C, log, p, cutoff, e) PROVE k <= n
        <5>1. CASE k \in ObservedIn(C, p) BY <1>1, <5>1
        <5>2. CASE cutoff # NoGeneration /\ k = LastOf(log, p, cutoff, e)
          BY <1>1, <2>4, <1>4, <5>2, LastOfIs
        <5>3. k \in ObservedIn(C, p) \/ (cutoff # NoGeneration /\ k = LastOf(log, p, cutoff, e))
          BY <4>1 DEF Says, SaidBy, ObservedIn
        <5> QED BY <5>1, <5>2, <5>3
      <4> QED BY <4>1
    <3> QED BY <1>1, <1>8, <2>4, <3>1, <3>2
  <2> QED BY <2>2, <2>3, <2>4
<1>11. Shows(b, D, log)
  <2>1. \A i \in DOMAIN D : IsCheckpoint(D[i], p) => i \in DOMAIN C /\ IsCheckpoint(C[i], p) /\ D[i] = C[i]
    BY <1>1, <1>9 DEF IsCheckpoint
  <2>2. \A i \in DOMAIN C : i \in DOMAIN D /\ D[i] = C[i] BY <1>9
  <2>3. \A i \in DOMAIN D : IsCapture(D[i], p) => D[i].sequence = n \/ (i \in DOMAIN C /\ D[i] = C[i])
    BY <1>9
  <2>4. IsCapture(D[Len(C) + 1], p) /\ Len(C) + 1 \in DOMAIN D BY <1>1, <1>9 DEF IsCapture
  <2>5. /\ b.acceptedCutoff # NoGeneration =>
             \E i \in DOMAIN D : IsCheckpoint(D[i], p) /\ D[i].sequence = b.acceptedCutoff
        /\ \A i \in DOMAIN D : IsCheckpoint(D[i], p) => D[i].sequence <= b.acceptedCutoff
        /\ \A k \in b.completed : \E i \in DOMAIN D : IsCheckpoint(D[i], p) /\ D[i].sequence = k
    BY <1>6, <2>1, <2>2 DEF Shows
  <2>6. \A k \in b.retained : \E i \in DOMAIN D : IsCapture(D[i], p) /\ D[i].sequence = k
    BY <1>6, <1>9, <2>2, <2>4 DEF Shows
  <2>7. \A i \in DOMAIN D : IsCapture(D[i], p) /\ D[i].sequence > b.acceptedCutoff =>
          D[i].sequence \in b.retained
    BY <1>6, <2>3 DEF Shows
  <2>8. b.appliedLive \subseteq ObservedIn(D, p) BY <1>6, <1>7 DEF Shows
  <2> QED BY <1>6, <1>10, <2>5, <2>6, <2>7, <2>8 DEF Shows
<1> QED BY <1>0, <1>6, <1>11 DEF D

\* A committed checkpoint of the active page, whose synchronization is not committed yet.
LEMMA CheckpointShows ==
  ASSUME NEW C \in Seq(Entry), NEW a \in ProjectionType, NEW x \in Entry,
         WellFormed(x, log), IsCheckpoint(x, a.page), Shows(a, C, log),
         \A i \in DOMAIN C : WellFormed(C[i], log) /\ IsEvidence(C[i]),
         \A i \in DOMAIN C : IsCheckpoint(C[i], a.page) => C[i].sequence # x.sequence
  PROVE  LET b == applyCommittedCheckpoint(a, x)
         IN  /\ b \in ProjectionType /\ b.page = a.page /\ b.retired = a.retired
             /\ Shows(b, Append(C, x), log)
<1> DEFINE n == x.sequence
           p == a.page
           cutoff == a.acceptedCutoff
           later == {k \in a.retained : k > n}
           fresh == {k \in x.observations \cup later : k > n}
           b == applyCommittedCheckpoint(a, x)
           D == Append(C, x)
<1>1. /\ n \in Cutoffs /\ n \in Nat /\ x.page = p /\ x.kind = "checkpoint" /\ Observed(x) = x.observations
      /\ p \in Pages /\ x.observations \subseteq 1 .. Len(log[p]) /\ x.observations \subseteq Cutoffs
  BY TopologyNumbers DEF WellFormed, IsCheckpoint, Observed, IsEvidence, Entry
<1>2. cutoff \in Cutoffs \cup {NoGeneration} /\ cutoff \in Int /\ (cutoff # NoGeneration => cutoff \in Nat)
  <2>1. cutoff \in Cutoffs \cup {NoGeneration} BY DEF ProjectionType
  <2>2. NoGeneration \in Int BY DEF NoGeneration
  <2>3. cutoff \in Cutoffs => cutoff \in Nat /\ cutoff \in Int
    BY TopologySyncAssumption DEF Cutoffs
  <2> QED BY <2>1, <2>2, <2>3
<1>3. n # cutoff /\ n \notin a.completed BY <1>1, TopologyNumbers DEF Shows
<1>4. Begins(a, x) <=> n > cutoff BY <1>1, <1>2, <1>3 DEF Begins
<1>5. ObservedIn(D, p) = ObservedIn(C, p) \cup x.observations BY <1>1, AppendObserves
<1>6. /\ DOMAIN D = DOMAIN C \cup {Len(C) + 1} /\ D[Len(C) + 1] = x
      /\ \A i \in DOMAIN C : D[i] = C[i] /\ i < Len(C) + 1
  BY AppendIs
<1>7. \A k, e : Says(D, log, p, k, e) = Says(C, log, p, k, e) \cup {j \in SaidBy(x, k) : log[p][j] = e}
  <2>1. TAKE k, e
  <2> QED BY <1>1, AppendSays
<1> HIDE DEF D, b
<1>8. CASE ~(n > cutoff)
  <2>1. b = a /\ n < cutoff BY <1>1, <1>2, <1>3, <1>4, <1>8 DEF b, applyCommittedCheckpoint
  <2>2. \A e : Says(D, log, p, cutoff, e) = Says(C, log, p, cutoff, e)
    <3> TAKE e
    <3>1. SaidBy(x, cutoff) = {} BY <1>1, <1>3 DEF SaidBy
    <3>2. {j \in SaidBy(x, cutoff) : log[p][j] = e} = {} BY <3>1
    <3>4. Says(D, log, p, cutoff, e) = Says(C, log, p, cutoff, e) \cup {j \in SaidBy(x, cutoff) : log[p][j] = e}
      BY <1>7
    <3> QED BY <3>2, <3>4
  <2>3. /\ \A i \in DOMAIN D : i = Len(C) + 1 \/ (i \in DOMAIN C /\ D[i] = C[i])
        /\ \A i \in DOMAIN C : i \in DOMAIN D /\ D[i] = C[i]
    BY <1>6
  <2>4. Shows(a, D, log)
    <3>1. /\ cutoff # NoGeneration => \E i \in DOMAIN D : IsCheckpoint(D[i], p) /\ D[i].sequence = cutoff
          /\ \A i \in DOMAIN D : IsCheckpoint(D[i], p) => D[i].sequence <= cutoff
          /\ \A k \in a.completed : \E i \in DOMAIN D : IsCheckpoint(D[i], p) /\ D[i].sequence = k
      BY <1>1, <1>2, <1>6, <2>1, <2>3 DEF Shows
    <3>2. /\ \A k \in a.retained : \E i \in DOMAIN D : IsCapture(D[i], p) /\ D[i].sequence = k
          /\ \A i \in DOMAIN D : IsCapture(D[i], p) /\ D[i].sequence > cutoff => D[i].sequence \in a.retained
      BY <1>1, <1>6, <2>3 DEF Shows, IsCapture
    <3>3. a.appliedLive \subseteq ObservedIn(D, p) BY <1>5 DEF Shows
    <3>4. \A e \in Entities : /\ a.state[e] \in {0} \cup Says(D, log, p, cutoff, e)
                             /\ \A k \in Says(D, log, p, cutoff, e) : k <= a.state[e]
      BY <2>2 DEF Shows
    <3> QED BY <3>1, <3>2, <3>3, <3>4 DEF Shows
  <2> QED BY <2>1, <2>4 DEF b, D
<1>9. CASE n > cutoff
  <2> DEFINE c == [complete(a, x) EXCEPT !.retained = later]
  <2>1. b = Replay(c, x.observations \cup later) BY <1>4, <1>9 DEF b, applyCommittedCheckpoint
  <2>2. /\ c.page = p /\ c.state = [e \in Entities |-> LastOf(log, p, n, e)] /\ c.acceptedCutoff = n
        /\ c.appliedLive = {} /\ c.completed = a.completed \cup {n} /\ c.retained = later
        /\ c.retired = a.retired
        /\ c = [a EXCEPT !.state = c.state, !.acceptedCutoff = n, !.appliedLive = {},
                        !.completed = a.completed \cup {n}, !.retained = later]
    <3>1. RecordsAt(p, n) = [e \in Entities |-> LastOf(log, p, n, e)] BY DEF RecordsAt, LastOf
    <3>2. Max({cutoff, n}) = n
      <4>1. cutoff \in Int /\ n \in Int /\ cutoff <= n BY <1>1, <1>2, <1>9
      <4> HIDE DEF cutoff, n
      <4> QED BY <4>1, GreaterOf
    <3> QED BY <1>1, <3>1, <3>2 DEF complete, ProjectionType
  <2>3. \A e \in Entities : LastOf(log, p, n, e) \in Cutoffs /\ LastOf(log, p, n, e) \in Nat
    <3>1. TAKE e \in Entities
    <3>2. LastOf(log, p, n, e) \in 0 .. n BY <1>1, LastOfIs
    <3> QED BY <1>1, <3>2, TopologyNumbers DEF Cutoffs
  <2>4. fresh \subseteq Cutoffs /\ later \subseteq a.retained /\ a.retained \subseteq Cutoffs
    BY <1>1 DEF ProjectionType
  <2> HIDE DEF c
  <2> DEFINE About(e) == {LastOf(log, p, n, e)} \cup {k \in fresh : log[p][k] = e}
  <2>5. b = [c EXCEPT !.state = [e \in Entities |-> Max(About(e))], !.appliedLive = fresh]
    <3> DEFINE F == {k \in x.observations \cup later : k > c.acceptedCutoff /\ k \notin c.appliedLive}
    <3>1. F = fresh /\ c.appliedLive \cup fresh = fresh BY <2>2
    <3>2. b = [c EXCEPT !.state = [e \in Entities |-> Max({c.state[e]} \cup {k \in F : log[c.page][k] = e})],
                        !.appliedLive = @ \cup F]
      <4> HIDE DEF later
      <4> QED BY <2>1 DEF Replay
    <3> HIDE DEF F
    <3>3. \A e \in Entities : {c.state[e]} \cup {k \in F : log[c.page][k] = e} = About(e)
      BY <2>2, <3>1
    <3> HIDE DEF fresh, later, About
    <3> QED BY <3>1, <3>2, <3>3
  <2>6. \A e \in Entities : /\ Max(About(e)) \in About(e) /\ Max(About(e)) \in Cutoffs
                           /\ \A k \in About(e) : k <= Max(About(e))
    <3>1. TAKE e \in Entities
    <3>2. About(e) \in SUBSET Nat /\ About(e) # {} /\ About(e) \subseteq Cutoffs
      BY <2>3, <2>4, TopologyNumbers
    <3>3. \A k \in About(e) : k <= MaxCaptures BY <3>2, TopologyNumbers DEF Cutoffs
    <3> HIDE DEF About
    <3> QED BY <3>2, <3>3, Extremes, TopologyNumbers
  <2> HIDE DEF About
  <2>7. /\ b \in ProjectionType /\ b.page = p /\ b.retired = a.retired /\ b.acceptedCutoff = n
        /\ b.completed = a.completed \cup {n} /\ b.retained = later /\ b.appliedLive = fresh
        /\ \A e \in Entities : b.state[e] = Max(About(e))
    <3>1. [e \in Entities |-> Max(About(e))] \in [Entities -> Cutoffs] BY <2>6
    <3>2. b = [a EXCEPT !.state = [e \in Entities |-> Max(About(e))], !.acceptedCutoff = n,
                        !.appliedLive = fresh, !.completed = a.completed \cup {n}, !.retained = later]
      <4> HIDE DEF fresh, later
      <4> QED BY <2>2, <2>5 DEF ProjectionType
    <3>3. fresh \in SUBSET Cutoffs /\ later \in SUBSET Cutoffs /\ a.completed \cup {n} \in SUBSET Cutoffs
      BY <1>1, <2>4 DEF ProjectionType
    <3> HIDE DEF fresh, later
    <3> QED BY <1>1, <3>1, <3>2, <3>3 DEF ProjectionType
  <2>8. SaidBy(x, n) = x.observations BY <1>1 DEF SaidBy
  <2>9. /\ \A i \in DOMAIN D : i = Len(C) + 1 \/ (i \in DOMAIN C /\ D[i] = C[i])
        /\ \A i \in DOMAIN C : i \in DOMAIN D /\ D[i] = C[i]
    BY <1>6
  <2>10. \A k \in later : \E i \in DOMAIN C : IsCapture(C[i], p) /\ C[i].sequence = k
    BY <2>4 DEF Shows
  <2>11. \A i \in DOMAIN C : IsCapture(C[i], p) /\ C[i].sequence > n => C[i].sequence \in later
    <3>1. TAKE i \in DOMAIN C
    <3>2. C[i].sequence \in Nat BY TopologyNumbers, <3>1 DEF Entry, WellFormed
    <3>3. C[i].sequence > n => C[i].sequence > cutoff BY <1>1, <1>2, <1>9, <3>2
    <3> QED BY <3>1, <3>3 DEF Shows
  <2>12. ASSUME NEW e \in Entities
         PROVE  /\ b.state[e] \in {0} \cup Says(D, log, p, n, e)
                /\ \A k \in Says(D, log, p, n, e) : k <= b.state[e]
    <3>1. LastOf(log, p, n, e) \in Says(C, log, p, n, e) BY <1>1, TopologyNumbers DEF Says
    <3>2. \A k \in later : log[p][k] = e => k \in Says(C, log, p, n, e)
      <4>1. TAKE k \in later
      <4>2. PICK i \in DOMAIN C : IsCapture(C[i], p) /\ C[i].sequence = k BY <2>10, <4>1
      <4>3. k \in SaidBy(C[i], n) /\ C[i].page = p BY <4>2 DEF SaidBy, Observed, IsCapture
      <4> QED BY <4>3 DEF Says
    <3>3. About(e) \subseteq Says(D, log, p, n, e) BY <1>7, <2>8, <3>1, <3>2 DEF About
    <3>4. ASSUME NEW k \in Says(D, log, p, n, e) PROVE k <= b.state[e]
      <4>0. b.state[e] = Max(About(e)) /\ b.state[e] \in Nat /\ LastOf(log, p, n, e) <= b.state[e]
        <5>1. LastOf(log, p, n, e) \in About(e) BY DEF About
        <5> QED BY <2>6, <2>7, <5>1, TopologyNumbers
      <4>1. CASE k = LastOf(log, p, n, e) BY <4>0, <4>1
      <4>2. CASE k \in 1 .. n /\ log[p][k] = e BY <1>1, <2>3, <4>0, <4>2, LastOfIs
      <4>3. CASE k \in fresh /\ log[p][k] = e BY <2>6, <4>0, <4>3 DEF About
      <4>4. \/ k = LastOf(log, p, n, e)
            \/ k \in x.observations /\ log[p][k] = e
            \/ \E i \in DOMAIN C : C[i].page = p /\ k \in SaidBy(C[i], n) /\ log[p][k] = e
        BY <1>7, <2>8, <3>4 DEF Says
      <4>5. CASE k \in x.observations /\ log[p][k] = e
        BY <1>1, <4>2, <4>3, <4>5, TopologyNumbers
      <4>6. ASSUME NEW i \in DOMAIN C, C[i].page = p, k \in SaidBy(C[i], n), log[p][k] = e
            PROVE  k <= b.state[e]
        <5>1. /\ C[i].kind = "capture" /\ C[i].observations = {} /\ k = C[i].sequence
              /\ k \in Nat /\ k >= 1
          <6>1. WellFormed(C[i], log) /\ IsEvidence(C[i]) OBVIOUS
          <6>2. C[i].kind = "capture" BY <4>6, <6>1 DEF SaidBy, IsEvidence, IsCheckpoint
          <6>3. C[i].sequence \in Nat BY <6>1, TopologyNumbers DEF WellFormed, Entry
          <6> QED BY <4>6, <6>1, <6>2, <6>3 DEF WellFormed, SaidBy, Observed
        <5>2. CASE k > n BY <2>11, <4>3, <4>6, <5>1, <5>2 DEF IsCapture
        <5>3. CASE ~(k > n) BY <1>1, <4>2, <4>6, <5>1, <5>3
        <5> QED BY <5>2, <5>3
      <4> QED BY <4>1, <4>4, <4>5, <4>6
    <3>5. b.state[e] \in About(e) BY <2>6, <2>7
    <3> QED BY <3>3, <3>4, <3>5
  <2>13. Shows(b, D, log)
    <3>1. IsCheckpoint(D[Len(C) + 1], p) /\ Len(C) + 1 \in DOMAIN D /\ D[Len(C) + 1].sequence = n
      BY <1>1, <1>6 DEF IsCheckpoint
    <3>2. \A i \in DOMAIN D : IsCheckpoint(D[i], p) => D[i].sequence <= n
      <4>1. TAKE i \in DOMAIN D
      <4>2. CASE i \in DOMAIN C /\ D[i] = C[i]
        <5>1. C[i].sequence \in Nat BY TopologyNumbers, <4>2 DEF Entry, WellFormed
        <5>2. IsCheckpoint(C[i], p) => C[i].sequence <= cutoff BY <4>2 DEF Shows
        <5> QED BY <1>1, <1>2, <1>9, <4>2, <5>1, <5>2
      <4> QED BY <1>1, <2>9, <3>1, <4>2
    <3>3. \A k \in b.completed : \E i \in DOMAIN D : IsCheckpoint(D[i], p) /\ D[i].sequence = k
      BY <2>7, <2>9, <3>1 DEF Shows
    <3>4. \A k \in b.retained : \E i \in DOMAIN D : IsCapture(D[i], p) /\ D[i].sequence = k
      BY <2>7, <2>9, <2>10
    <3>5. \A i \in DOMAIN D : IsCapture(D[i], p) /\ D[i].sequence > n => D[i].sequence \in b.retained
      BY <1>6, <2>7, <2>9, <2>11, <1>1 DEF IsCapture
    <3>6. b.appliedLive \subseteq ObservedIn(D, p)
      <4>1. \A k \in later : k \in ObservedIn(C, p)
        <5>1. TAKE k \in later
        <5>2. PICK i \in DOMAIN C : IsCapture(C[i], p) /\ C[i].sequence = k BY <2>10, <5>1
        <5> QED BY <5>2 DEF ObservedIn, Observed, IsCapture
      <4> QED BY <1>5, <2>7, <4>1
    <3> HIDE DEF later, fresh
    <3> QED BY <2>7, <2>12, <3>1, <3>2, <3>3, <3>4, <3>5, <3>6 DEF Shows
  <2> QED BY <2>7, <2>13 DEF b, D
<1> QED BY <1>8, <1>9

\* Evidence that is committed becomes visible, and keeps the last page active.
LEMMA IngestedShows ==
  ASSUME projection \in ProjectionType, committed \in Seq(Entry), log \in [Pages -> Seq(Entities)],
         OnLatestPage(projection, committed), committed # <<>> => Shows(projection, committed, log),
         \A i \in DOMAIN committed : WellFormed(committed[i], log) /\ IsEvidence(committed[i]),
         NEW x \in Entry, WellFormed(x, log), IsEvidence(x),
         x.kind = "capture" => \A n \in ObservedIn(committed, x.page) : n \in Nat /\ n < x.sequence,
         x.kind = "checkpoint" =>
           \A i \in DOMAIN committed : IsCheckpoint(committed[i], x.page) => committed[i].sequence # x.sequence
  PROVE  /\ Ingested(x) \in ProjectionType
         /\ OnLatestPage(Ingested(x), Append(committed, x))
         /\ Shows(Ingested(x), Append(committed, x), log)
<1>1. CASE x.page \in projection.retired BY <1>1, RetiredEntry DEF Ingested
<1>2. CASE x.page \notin projection.retired
  <2> DEFINE a == activatePage(projection, x.page)
  <2>0. x.page \in Pages BY DEF WellFormed
  <2>1. a \in ProjectionType /\ a.page = x.page /\ FollowsPages(a, committed) /\ Shows(a, committed, log)
    BY <1>2, <2>0, Activated
  <2> HIDE DEF a
  <2>2. CASE x.kind = "capture"
    <3>1. Ingested(x) = applyCommittedCapture(a, x.sequence) BY <1>2, <2>2 DEF Ingested, a
    <3>2. log[a.page][x.sequence] \in Entities
      <4>1. log[x.page] \in Seq(Entities) /\ x.sequence \in Nat /\ x.sequence > 0 /\ x.sequence <= Len(log[x.page])
        BY <2>0, <2>2, TopologyNumbers DEF WellFormed, Entry
      <4> QED BY <2>1, <4>1
    <3>3. LET b == applyCommittedCapture(a, x.sequence)
          IN  /\ b \in ProjectionType /\ b.page = a.page /\ b.retired = a.retired
              /\ Shows(b, Append(committed, x), log)
      BY <2>1, <2>2, <3>2, CaptureShows DEF IsCapture
    <3> QED BY <2>1, <3>1, <3>3, EntryFollows
  <2>3. CASE x.kind = "checkpoint"
    <3>1. Ingested(x) = applyCommittedCheckpoint(a, x) BY <1>2, <2>3 DEF Ingested, a
    <3>2. LET b == applyCommittedCheckpoint(a, x)
          IN  /\ b \in ProjectionType /\ b.page = a.page /\ b.retired = a.retired
              /\ Shows(b, Append(committed, x), log)
      BY <2>1, <2>3, CheckpointShows DEF IsCheckpoint
    <3> QED BY <2>1, <3>1, <3>2, EntryFollows
  <2> QED BY <2>2, <2>3 DEF IsEvidence
<1> QED BY <1>1, <1>2
-----------------------------------------------------------------------------
(* The order of captures *)

\* The captures that wait in q are captures of r in the same order, the i-th the g[i]-th;
\* and so are those on their way in w.
QueueSelects(g, q, r) ==
  \A i \in DOMAIN q : q[i].kind = "capture" =>
    /\ g[i] \in DOMAIN r /\ q[i] = r[g[i]]
    /\ \A j \in DOMAIN q : q[j].kind = "capture" /\ i < j => g[i] < g[j]
WireSelects(g, w, r) ==
  \A i \in DOMAIN w : w[i].type = "capture" =>
    /\ g[i] \in DOMAIN r /\ w[i] = r[g[i]]
    /\ \A j \in DOMAIN w : w[j].type = "capture" /\ i < j => g[i] < g[j]

\* Whoever has heard no more, and waits for no other captures, hears them in sequence.
LEMMA QueueStaysInSequence ==
  ASSUME NEW q, NEW C, NEW st, NEW q2, NEW C2, NEW st2, NEW g,
         QueueInSequence(q, C, st), QueueSelects(g, q2, q),
         \A p : Heard(C2, q2, st2, p) \subseteq Heard(C, q, st, p)
  PROVE  QueueInSequence(q2, C2, st2)
<1>1. ASSUME NEW i \in DOMAIN q2, q2[i].kind = "capture"
      PROVE  /\ \A n \in Heard(C2, q2, st2, q2[i].page) : n < q2[i].sequence
             /\ \A j \in DOMAIN q2 : i < j /\ IsCapture(q2[j], q2[i].page) => q2[i].sequence < q2[j].sequence
  <2>1. g[i] \in DOMAIN q /\ q2[i] = q[g[i]] BY <1>1 DEF QueueSelects
  <2>2. \A n \in Heard(C2, q2, st2, q2[i].page) : n < q2[i].sequence
    BY <1>1, <2>1 DEF QueueInSequence
  <2>3. ASSUME NEW j \in DOMAIN q2, i < j, IsCapture(q2[j], q2[i].page)
        PROVE  q2[i].sequence < q2[j].sequence
    BY <1>1, <2>1, <2>3 DEF QueueInSequence, IsCapture, QueueSelects
  <2> QED BY <2>2, <2>3
<1> QED BY <1>1 DEF QueueInSequence

LEMMA WireStaysInSequence ==
  ASSUME NEW w, NEW q, NEW C, NEW st, NEW w2, NEW q2, NEW C2, NEW st2, NEW g, NEW h,
         WireInSequence(w, q, C, st), WireSelects(h, w2, w), QueueSelects(g, q2, q),
         \A p : Heard(C2, q2, st2, p) \subseteq Heard(C, q, st, p)
  PROVE  WireInSequence(w2, q2, C2, st2)
<1>1. ASSUME NEW i \in DOMAIN w2, w2[i].type = "capture"
      PROVE  /\ \A n \in Heard(C2, q2, st2, w2[i].page) : n < w2[i].sequence
             /\ \A j \in DOMAIN q2 : IsCapture(q2[j], w2[i].page) => q2[j].sequence < w2[i].sequence
             /\ \A j \in DOMAIN w2 : i < j /\ IsCaptured(w2[j], w2[i].page) => w2[i].sequence < w2[j].sequence
  <2>1. h[i] \in DOMAIN w /\ w2[i] = w[h[i]] BY <1>1 DEF WireSelects
  <2>2. \A n \in Heard(C2, q2, st2, w2[i].page) : n < w2[i].sequence
    BY <1>1, <2>1 DEF WireInSequence
  <2>3. ASSUME NEW j \in DOMAIN w2, i < j, IsCaptured(w2[j], w2[i].page)
        PROVE  w2[i].sequence < w2[j].sequence
    BY <1>1, <2>1, <2>3 DEF WireInSequence, IsCaptured, WireSelects
  <2>4. ASSUME NEW j \in DOMAIN q2, IsCapture(q2[j], w2[i].page)
        PROVE  q2[j].sequence < w2[i].sequence
    BY <1>1, <2>1, <2>4 DEF WireInSequence, IsCapture, QueueSelects
  <2> QED BY <2>2, <2>3, <2>4
<1> QED BY <1>1 DEF WireInSequence

\* What is left when something was added that is no capture, or taken away.
LEMMA QueueAppends ==
  ASSUME NEW q \in Seq(Entry), NEW x \in Entry, x.kind # "capture"
  PROVE  \E g : QueueSelects(g, Append(q, x), q)
<1> DEFINE g == [i \in DOMAIN Append(q, x) |-> i]
<1>1. /\ DOMAIN Append(q, x) = DOMAIN q \cup {Len(q) + 1} /\ Append(q, x)[Len(q) + 1] = x
      /\ \A i \in DOMAIN q : Append(q, x)[i] = q[i]
  BY AppendIs
<1>2. QueueSelects(g, Append(q, x), q) BY <1>1 DEF QueueSelects
<1> QED BY <1>2

LEMMA QueueDrops ==
  ASSUME NEW q \in Seq(Entry), q # <<>> PROVE \E g : QueueSelects(g, Tail(q), q)
<1> DEFINE g == [i \in DOMAIN Tail(q) |-> i + 1]
<1>1. \A i \in DOMAIN Tail(q) : i \in Nat /\ i + 1 \in DOMAIN q /\ Tail(q)[i] = q[i + 1]
  BY TailIs
<1>2. \A i \in DOMAIN Tail(q) : g[i] = i + 1 OBVIOUS
<1> HIDE DEF g
<1>3. \A i, j \in DOMAIN Tail(q) : i < j => g[i] < g[j] BY <1>1, <1>2
<1>4. QueueSelects(g, Tail(q), q) BY <1>1, <1>2, <1>3 DEF QueueSelects
<1> QED BY <1>4

LEMMA QueueKeeps == \A q : \E g : QueueSelects(g, q, q)
<1> TAKE q
<1> DEFINE g == [i \in DOMAIN q |-> i]
<1>1. QueueSelects(g, q, q) BY DEF QueueSelects
<1> QED BY <1>1

LEMMA WireKeeps == \A w : \E h : WireSelects(h, w, w)
<1> TAKE w
<1> DEFINE h == [i \in DOMAIN w |-> i]
<1>1. WireSelects(h, w, w) BY DEF WireSelects
<1> QED BY <1>1

LEMMA WireDrops ==
  ASSUME NEW w \in Seq(Messages), NEW k \in 1 .. Len(w)
  PROVE  LET r == SubSeq(w, 1, k - 1) \o SubSeq(w, k + 1, Len(w))
         IN  \E h : WireSelects(h, r, w)
<1> DEFINE r == SubSeq(w, 1, k - 1) \o SubSeq(w, k + 1, Len(w))
           h == [i \in DOMAIN r |-> IF i < k THEN i ELSE i + 1]
<1>1. \A i \in DOMAIN r : /\ i \in Nat /\ (IF i < k THEN i ELSE i + 1) \in DOMAIN w
                         /\ r[i] = w[IF i < k THEN i ELSE i + 1]
  BY WithoutIs
<1>2. \A i \in DOMAIN r : h[i] = IF i < k THEN i ELSE i + 1 OBVIOUS
<1> HIDE DEF h, r
<1>3. \A i, j \in DOMAIN r : i < j => h[i] < h[j] BY <1>1, <1>2
<1>4. WireSelects(h, r, w) BY <1>1, <1>2, <1>3 DEF WireSelects
<1> QED BY <1>4 DEF r

LEMMA WireCuts ==
  ASSUME NEW w \in Seq(Messages), NEW k \in 0 .. Len(w)
  PROVE  \E h : WireSelects(h, SubSeq(w, 1, k), w)
<1> DEFINE h == [i \in 1 .. k |-> i]
<1>1. DOMAIN SubSeq(w, 1, k) = 1 .. k /\ \A i \in 1 .. k : i \in DOMAIN w /\ SubSeq(w, 1, k)[i] = w[i]
  OBVIOUS
<1>2. WireSelects(h, SubSeq(w, 1, k), w) BY <1>1 DEF WireSelects
<1> QED BY <1>2

\* Frames are no captures.
LEMMA WireGrows ==
  ASSUME NEW w \in Seq(Messages), NEW v \in Seq(Messages), \A i \in DOMAIN v : v[i].type # "capture"
  PROVE  \E h : WireSelects(h, w \o v, w)
<1> DEFINE h == [i \in DOMAIN (w \o v) |-> i]
<1>1. /\ w \o v \in Seq(Messages) /\ Len(w \o v) = Len(w) + Len(v)
      /\ \A i \in 1 .. Len(w \o v) : (w \o v)[i] = IF i <= Len(w) THEN w[i] ELSE v[i - Len(w)]
  BY ConcatIs
<1>2. DOMAIN (w \o v) = 1 .. Len(w \o v) /\ DOMAIN w = 1 .. Len(w) /\ DOMAIN v = 1 .. Len(v)
      /\ Len(w) \in Nat /\ Len(v) \in Nat
  BY <1>1
<1>3. \A i \in DOMAIN (w \o v) : (w \o v)[i].type = "capture" => i \in DOMAIN w /\ (w \o v)[i] = w[i]
  <2>1. TAKE i \in DOMAIN (w \o v)
  <2>2. CASE i <= Len(w) BY <1>1, <1>2, <2>1, <2>2
  <2>3. CASE ~(i <= Len(w)) BY <1>1, <1>2, <2>1, <2>3
  <2> QED BY <2>2, <2>3
<1>4. WireSelects(h, w \o v, w) BY <1>3 DEF WireSelects
<1> QED BY <1>4

\* What is heard of when an entry is added, and when the first is taken away.
LEMMA WaitingAppends ==
  ASSUME NEW q \in Seq(Entry), NEW x \in Entry, NEW p
  PROVE  \A n \in WaitingIn(Append(q, x), p) : n \in WaitingIn(q, p) \/ (x.page = p /\ n \in x.observations)
<1>1. /\ DOMAIN Append(q, x) = DOMAIN q \cup {Len(q) + 1} /\ Append(q, x)[Len(q) + 1] = x
      /\ \A i \in DOMAIN q : Append(q, x)[i] = q[i]
  BY AppendIs
<1>2. ASSUME NEW n \in WaitingIn(Append(q, x), p)
      PROVE  n \in WaitingIn(q, p) \/ (x.page = p /\ n \in x.observations)
  <2>1. PICK i \in DOMAIN Append(q, x) : Append(q, x)[i].page = p /\ n \in Append(q, x)[i].observations
    BY <1>2 DEF WaitingIn
  <2>2. CASE i \in DOMAIN q BY <2>2, <1>1, <2>1 DEF WaitingIn
  <2> QED BY <1>1, <2>1, <2>2
<1> QED BY <1>2

LEMMA WaitingDrops ==
  ASSUME NEW q \in Seq(Entry), q # <<>>, NEW p
  PROVE  /\ WaitingIn(Tail(q), p) \subseteq WaitingIn(q, p)
         /\ Head(q).page = p => Head(q).observations \subseteq WaitingIn(q, p)
<1>1. /\ Head(q) = q[1] /\ 1 \in DOMAIN q
      /\ \A i \in DOMAIN Tail(q) : i + 1 \in DOMAIN q /\ Tail(q)[i] = q[i + 1]
  BY TailIs
<1>2. ASSUME NEW n \in WaitingIn(Tail(q), p) PROVE n \in WaitingIn(q, p)
  <2>1. PICK i \in DOMAIN Tail(q) : Tail(q)[i].page = p /\ n \in Tail(q)[i].observations
    BY <1>2 DEF WaitingIn
  <2>2. i + 1 \in DOMAIN q /\ q[i + 1].page = p /\ n \in q[i + 1].observations BY <1>1, <2>1
  <2> QED BY <2>2 DEF WaitingIn
<1>3. Head(q).page = p => Head(q).observations \subseteq WaitingIn(q, p) BY <1>1 DEF WaitingIn
<1> QED BY <1>2, <1>3

\* Nothing was heard of that the page has not captured.
LEMMA HeardIsCaptured ==
  ASSUME AllWellFormed, NEW p \in Pages, log \in [Pages -> Seq(Entities)]
  PROVE  \A n \in Heard(committed, queue, stagedSync, p) : n \in Nat /\ n <= Len(log[p])
<1>0. log[p] \in Seq(Entities) /\ Len(log[p]) \in Nat OBVIOUS
<1>1. ASSUME NEW x, WellFormed(x, log), x.page = p
      PROVE  \A n \in Observed(x) : n \in Nat /\ n <= Len(log[p])
  <2>1. CASE IsEvidence(x) BY <1>0, <1>1, <2>1, TopologyNumbers DEF Observed, WellFormed, Entry
  <2>2. CASE ~IsEvidence(x) BY <1>1, <2>2 DEF WellFormed, Observed, IsEvidence
  <2> QED BY <2>1, <2>2
<1>2. ASSUME NEW n \in ObservedIn(committed, p) PROVE n \in Nat /\ n <= Len(log[p])
  <2>1. PICK i \in DOMAIN committed : committed[i].page = p /\ n \in Observed(committed[i])
    BY <1>2 DEF ObservedIn
  <2> QED BY <1>1, <2>1 DEF AllWellFormed
<1>3. ASSUME NEW n \in WaitingIn(queue, p) PROVE n \in Nat /\ n <= Len(log[p])
  <2>1. PICK i \in DOMAIN queue : queue[i].page = p /\ n \in queue[i].observations
    BY <1>3 DEF WaitingIn
  <2> QED BY <1>1, <2>1 DEF AllWellFormed, Observed
<1>4. ASSUME NEW n \in StagedOf(stagedSync, p) PROVE n \in Nat /\ n <= Len(log[p])
  BY <1>0, <1>4 DEF AllWellFormed, SoundStage, StagedOf
<1> QED BY <1>2, <1>3, <1>4 DEF Heard
-----------------------------------------------------------------------------
(* Synchronizations and gaps *)

LEMMA OnceAppends ==
  ASSUME NEW q \in Seq(Entry), NEW C, NEW o, NEW o2, NEW x \in Entry,
         OfferedOnce(q, C, o), o \subseteq o2, IsSync(x) => SyncOf(x) \notin o /\ SyncOf(x) \in o2
  PROVE  OfferedOnce(Append(q, x), C, o2)
<1> DEFINE r == Append(q, x)
<1>1. /\ DOMAIN r = DOMAIN q \cup {Len(q) + 1} /\ r[Len(q) + 1] = x
      /\ \A i \in DOMAIN q : r[i] = q[i] /\ i # Len(q) + 1
  BY AppendIs
<1> HIDE DEF r
<1>2. ASSUME NEW i \in DOMAIN r, IsSync(r[i])
      PROVE  SyncOf(r[i]) \in o2 /\ \A j \in DOMAIN r : i # j /\ IsSync(r[j]) => SyncOf(r[i]) # SyncOf(r[j])
  BY <1>1, <1>2 DEF OfferedOnce
<1>3. ASSUME NEW i \in DOMAIN C, C[i].kind = "checkpoint"
      PROVE  /\ SyncOf(C[i]) \in o2
             /\ \A j \in DOMAIN r : IsSync(r[j]) => SyncOf(C[i]) # SyncOf(r[j])
             /\ \A j \in DOMAIN C : i # j /\ C[j].kind = "checkpoint" => SyncOf(C[i]) # SyncOf(C[j])
  BY <1>1, <1>3 DEF OfferedOnce
<1> QED BY <1>2, <1>3 DEF OfferedOnce, r

\* The first entry goes; its synchronization may be offered again.
LEMMA OnceDrops ==
  ASSUME NEW q \in Seq(Entry), q # <<>>, NEW C, NEW o, NEW o2, OfferedOnce(q, C, o),
         \A t \in o : t \in o2 \/ (IsSync(Head(q)) /\ t = SyncOf(Head(q)))
  PROVE  OfferedOnce(Tail(q), C, o2)
<1> DEFINE r == Tail(q)
<1>1. /\ Head(q) = q[1] /\ 1 \in DOMAIN q
      /\ \A i \in DOMAIN r : i \in Nat /\ i >= 1 /\ i + 1 \in DOMAIN q /\ r[i] = q[i + 1]
  BY TailIs
<1> HIDE DEF r
<1>2. \A i \in DOMAIN r : i + 1 # 1 /\ \A j \in DOMAIN r : i # j => i + 1 # j + 1 BY <1>1
<1>3. ASSUME NEW i \in DOMAIN r, IsSync(r[i])
      PROVE  SyncOf(r[i]) \in o2 /\ \A j \in DOMAIN r : i # j /\ IsSync(r[j]) => SyncOf(r[i]) # SyncOf(r[j])
  <2>1. i + 1 \in DOMAIN q /\ r[i] = q[i + 1] BY <1>1
  <2>2. SyncOf(r[i]) \in o /\ (IsSync(Head(q)) => SyncOf(r[i]) # SyncOf(Head(q)))
    BY <1>1, <1>2, <1>3, <2>1 DEF OfferedOnce
  <2> QED BY <1>1, <1>2, <1>3, <2>1, <2>2 DEF OfferedOnce
<1>4. ASSUME NEW i \in DOMAIN C, C[i].kind = "checkpoint"
      PROVE  /\ SyncOf(C[i]) \in o2
             /\ \A j \in DOMAIN r : IsSync(r[j]) => SyncOf(C[i]) # SyncOf(r[j])
             /\ \A j \in DOMAIN C : i # j /\ C[j].kind = "checkpoint" => SyncOf(C[i]) # SyncOf(C[j])
  BY <1>1, <1>4 DEF OfferedOnce
<1> QED BY <1>3, <1>4 DEF OfferedOnce, r

\* The first entry, which is Evidence, is committed.
LEMMA OnceCommits ==
  ASSUME NEW q \in Seq(Entry), q # <<>>, NEW C \in Seq(Entry), NEW o, NEW o2, OfferedOnce(q, C, o),
         o \subseteq o2
  PROVE  OfferedOnce(Tail(q), Append(C, Head(q)), o2)
<1> DEFINE r == Tail(q)
           D == Append(C, Head(q))
<1>1. /\ Head(q) = q[1] /\ 1 \in DOMAIN q /\ Head(q) \in Entry
      /\ \A i \in DOMAIN r : i \in Nat /\ i >= 1 /\ i + 1 \in DOMAIN q /\ r[i] = q[i + 1]
  BY TailIs
<1>2. /\ DOMAIN D = DOMAIN C \cup {Len(C) + 1} /\ D[Len(C) + 1] = Head(q)
      /\ \A i \in DOMAIN C : D[i] = C[i] /\ i # Len(C) + 1
  BY <1>1, AppendIs
<1>3. OfferedOnce(r, C, o2) BY OnceDrops
<1> HIDE DEF r, D
<1>4. \A i \in DOMAIN r : i + 1 # 1 BY <1>1
<1>5. Head(q).kind = "checkpoint" =>
        /\ SyncOf(Head(q)) \in o2
        /\ \A j \in DOMAIN r : IsSync(r[j]) => SyncOf(Head(q)) # SyncOf(r[j])
        /\ \A j \in DOMAIN C : C[j].kind = "checkpoint" => SyncOf(Head(q)) # SyncOf(C[j])
  BY <1>1, <1>4 DEF OfferedOnce, IsSync
<1>6. ASSUME NEW i \in DOMAIN D, D[i].kind = "checkpoint"
      PROVE  /\ SyncOf(D[i]) \in o2
             /\ \A j \in DOMAIN r : IsSync(r[j]) => SyncOf(D[i]) # SyncOf(r[j])
             /\ \A j \in DOMAIN D : i # j /\ D[j].kind = "checkpoint" => SyncOf(D[i]) # SyncOf(D[j])
  BY <1>2, <1>3, <1>5, <1>6 DEF OfferedOnce
<1> QED BY <1>3, <1>6 DEF OfferedOnce, r, D

LEMMA GapsAppend ==
  ASSUME NEW q \in Seq(Entry), NEW x \in Entry
  PROVE  /\ Cardinality(GapsIn(q)) \in Nat
         /\ Cardinality(GapsIn(Append(q, x))) = Cardinality(GapsIn(q)) + (IF x.kind = "gap" THEN 1 ELSE 0)
<1>1. /\ DOMAIN Append(q, x) = DOMAIN q \cup {Len(q) + 1} /\ Append(q, x)[Len(q) + 1] = x
      /\ \A i \in DOMAIN q : Append(q, x)[i] = q[i] /\ i # Len(q) + 1
  BY AppendIs
<1>2. IsFiniteSet(GapsIn(q)) /\ Cardinality(GapsIn(q)) \in Nat
  <2>1. IsFiniteSet(1 .. Len(q)) BY FS_Interval
  <2>2. GapsIn(q) \in SUBSET (1 .. Len(q)) BY DEF GapsIn
  <2> QED BY <2>1, <2>2, FS_Subset, FS_CardinalityType
<1>3. CASE x.kind = "gap"
  <2>1. GapsIn(Append(q, x)) = GapsIn(q) \cup {Len(q) + 1} /\ Len(q) + 1 \notin GapsIn(q)
    BY <1>1, <1>3 DEF GapsIn
  <2> QED BY <1>2, <1>3, <2>1, FS_AddElement
<1>4. CASE x.kind # "gap"
  <2>1. GapsIn(Append(q, x)) = GapsIn(q) BY <1>1, <1>4 DEF GapsIn
  <2> QED BY <1>2, <1>4, <2>1
<1> QED BY <1>3, <1>4

LEMMA GapsDrop ==
  ASSUME NEW q \in Seq(Entry), q # <<>>
  PROVE  Cardinality(GapsIn(Tail(q))) + (IF Head(q).kind = "gap" THEN 1 ELSE 0) <= Cardinality(GapsIn(q))
<1> DEFINE R == GapsIn(q) \ {1}
           T == GapsIn(Tail(q))
           f == [i \in R |-> i - 1]
<1>1. /\ Head(q) = q[1] /\ 1 \in DOMAIN q
      /\ \A i \in DOMAIN Tail(q) : i \in Nat /\ i >= 1 /\ i + 1 \in DOMAIN q /\ Tail(q)[i] = q[i + 1]
      /\ \A i \in DOMAIN q : i \in Nat /\ i >= 1 /\ (i # 1 => i - 1 \in DOMAIN Tail(q))
  BY TailIs
<1>2. IsFiniteSet(GapsIn(q)) /\ Cardinality(GapsIn(q)) \in Nat
  <2>1. IsFiniteSet(1 .. Len(q)) BY FS_Interval
  <2>2. GapsIn(q) \in SUBSET (1 .. Len(q)) BY DEF GapsIn
  <2> QED BY <2>1, <2>2, FS_Subset, FS_CardinalityType
<1>3. /\ IsFiniteSet(R)
      /\ Cardinality(R) = IF 1 \in GapsIn(q) THEN Cardinality(GapsIn(q)) - 1 ELSE Cardinality(GapsIn(q))
  BY <1>2, FS_RemoveElement
<1>4. 1 \in GapsIn(q) <=> Head(q).kind = "gap" BY <1>1 DEF GapsIn
<1>5. \A i \in R : i \in DOMAIN q /\ i # 1 /\ q[i].kind = "gap" /\ i - 1 \in DOMAIN Tail(q) /\ (i - 1) + 1 = i
  BY <1>1 DEF GapsIn
<1>6. \A i \in R : f[i] \in T BY <1>1, <1>5 DEF GapsIn
<1>7. \A j \in T : \E i \in R : f[i] = j
  <2>1. TAKE j \in T
  <2>2. j \in DOMAIN Tail(q) /\ Tail(q)[j].kind = "gap" BY <2>1 DEF GapsIn
  <2>3. j + 1 \in R /\ (j + 1) - 1 = j BY <1>1, <2>2 DEF GapsIn
  <2> QED BY <2>3
<1>8. f \in Surjection(R, T)
  <2>1. f \in [R -> T] BY <1>6
  <2> HIDE DEF f, R, T
  <2> QED BY <1>7, <2>1 DEF Surjection
<1>9. Cardinality(T) <= Cardinality(R) /\ IsFiniteSet(T)
  <2> HIDE DEF f, R, T
  <2> QED BY <1>3, <1>8, FS_Surjection
<1>10. Cardinality(T) \in Nat /\ Cardinality(R) \in Nat BY <1>3, <1>9, FS_CardinalityType
<1> HIDE DEF R, f
<1> QED BY <1>2, <1>3, <1>4, <1>9, <1>10
-----------------------------------------------------------------------------
(* The initial state *)

LEMMA TopologyInitInv == TopologyInit => TopologyInv
<1> SUFFICES ASSUME TopologyInit PROVE TopologyInv OBVIOUS
<1>1. /\ wire = <<>> /\ queue = <<>> /\ committed = <<>> /\ stagedSync = NoStage
      /\ projection = NoProjection /\ topologyBasisRecovery = NoSync
  BY DEF TopologyInit
<1>2. TopologyTypeOK
  <2>1. NoProjection \in ProjectionType
    BY TopologyNumbers DEF NoProjection, ProjectionType, Nothing
  <2>2. NoStage \in StageType BY DEF NoStage, StageType
  <2>3. /\ log \in [Pages -> Seq(Entities)] /\ \A p \in Pages : Len(log[p]) <= MaxCaptures
        /\ page \in Pages
    BY TopologyNumbers, TopologySyncAssumption DEF TopologyInit, Pages
  <2>4. MaxGaps \in Nat /\ MaxBreaks \in Nat /\ MaxClears \in Nat /\ MaxPages \in Nat
    BY TopologySyncAssumption
  <2>9. registered \in BOOLEAN BY DEF TopologyInit
  <2>5. /\ requests \in 0 .. MaxBreaks + 1 /\ breaks \in 0 .. MaxBreaks
        /\ refused \in 0 .. MaxGaps /\ clears \in 0 .. MaxClears
        /\ currentPageEpoch \in 0 .. MaxPages /\ evidenceGapGeneration \in 0 .. MaxGaps /\ gaps \in 0 .. refused
    BY <2>4 DEF TopologyInit
  <2>6. /\ topologySyncGapGenerations \in [Syncs -> {NoGeneration} \cup 0 .. MaxGaps]
        /\ begun \in [Syncs -> {NoGeneration} \cup 0 .. MaxGaps]
        /\ activeTopologyStagingSyncIds \subseteq Syncs /\ offeredTopologyCheckpointSyncIds \subseteq Syncs
        /\ topologyBasisRecovery \in Syncs \cup {NoSync}
    BY DEF TopologyInit
  <2>7. wire \in Seq(Messages) /\ queue \in Seq(Entry) /\ committed \in Seq(Entry)
    BY DEF TopologyInit
  <2>8. stagedSync \in StageType /\ projection \in ProjectionType BY <1>1, <2>1, <2>2
  <2> QED BY <2>3, <2>5, <2>6, <2>7, <2>8, <2>9 DEF TopologyTypeOK, ProjectionType, StageType
<1>3. AllWellFormed /\ QueueInSequence(queue, committed, stagedSync)
      /\ WireInSequence(wire, queue, committed, stagedSync)
      /\ OfferedOnce(queue, committed, offeredTopologyCheckpointSyncIds)
  BY <1>1 DEF AllWellFormed, QueueInSequence, WireInSequence, OfferedOnce, SoundStage, NoStage
<1>4. GapsAgree /\ RequestsAgree
  <2>1. Cardinality(GapsIn(queue)) = 0 BY FS_EmptySet, <1>1 DEF GapsIn
  <2> QED BY <1>1, <2>1 DEF TopologyInit, GapsAgree, RequestsAgree, NoStage, NoGeneration
<1> QED BY <1>1, <1>2, <1>3, <1>4 DEF TopologyInv, OnLatestPage, BasisRests
-----------------------------------------------------------------------------
(* The page and the bridge *)

\* What the pages l have captured stays when they capture more.
Grows(l, l2) ==
  \A p \in Pages : Len(l[p]) <= Len(l2[p]) /\ \A n \in 1 .. Len(l[p]) : l2[p][n] = l[p][n]

LEMMA GrownLog ==
  ASSUME NEW l \in [Pages -> Seq(Entities)], NEW l2 \in [Pages -> Seq(Entities)], Grows(l, l2)
  PROVE  /\ \A x : WellFormed(x, l) => WellFormed(x, l2)
         /\ \A w : SoundMessage(w, l) => SoundMessage(w, l2)
         /\ \A st : SoundStage(st, l) => SoundStage(st, l2)
<1>1. \A p \in Pages : /\ Len(l[p]) \in Nat /\ Len(l2[p]) \in Nat /\ Len(l[p]) <= Len(l2[p])
                       /\ 1 .. Len(l[p]) \subseteq 1 .. Len(l2[p])
  <2>1. TAKE p \in Pages
  <2>2. Len(l[p]) \in Nat /\ Len(l2[p]) \in Nat OBVIOUS
  <2> QED BY <2>2 DEF Grows
<1>2. \A x : WellFormed(x, l) => WellFormed(x, l2)
  <2>1. SUFFICES ASSUME NEW x, WellFormed(x, l) PROVE WellFormed(x, l2) OBVIOUS
  <2>2. x \in Entry /\ x.sequence \in Nat BY <2>1, TopologyNumbers DEF WellFormed, Entry
  <2>3. IsEvidence(x) => /\ x.page \in Pages /\ x.sequence <= Len(l2[x.page])
                         /\ x.observations \subseteq 1 .. Len(l2[x.page])
    BY <1>1, <2>1, <2>2 DEF WellFormed
  <2> QED BY <2>1, <2>2, <2>3 DEF WellFormed
<1>3. \A w : SoundMessage(w, l) => SoundMessage(w, l2)
  <2>1. SUFFICES ASSUME NEW w, SoundMessage(w, l) PROVE SoundMessage(w, l2) OBVIOUS
  <2>2. w.page \in Pages /\ w.sequence \in Nat
    BY <2>1, TopologyNumbers DEF SoundMessage, Messages
  <2> QED BY <1>1, <2>1, <2>2 DEF SoundMessage
<1>4. \A st : SoundStage(st, l) => SoundStage(st, l2)
  <2>1. SUFFICES ASSUME NEW st, SoundStage(st, l) PROVE SoundStage(st, l2) OBVIOUS
  <2>2. CASE st.begin = <<>> BY <2>1, <2>2 DEF SoundStage
  <2>3. CASE st.begin # <<>> BY <1>1, <2>1, <2>3, <1>3 DEF SoundStage, SoundMessage, Messages
  <2> QED BY <2>2, <2>3
<1> QED BY <1>2, <1>3, <1>4

LEMMA ShowsGrown ==
  ASSUME NEW l \in [Pages -> Seq(Entities)], NEW l2 \in [Pages -> Seq(Entities)], Grows(l, l2),
         NEW C \in Seq(Entry), NEW pr \in ProjectionType, pr.page \in Pages, Shows(pr, C, l),
         \A i \in DOMAIN C : WellFormed(C[i], l) /\ IsEvidence(C[i])
  PROVE  Shows(pr, C, l2)
<1> DEFINE p == pr.page
           k == pr.acceptedCutoff
<1>1. /\ Len(l[p]) \in Nat /\ \A n \in 1 .. Len(l[p]) : l2[p][n] = l[p][n] BY DEF Grows
<1>2. \A i \in DOMAIN C : C[i].page = p => \A n \in SaidBy(C[i], k) : n \in 1 .. Len(l[p])
  <2>1. TAKE i \in DOMAIN C
  <2>2. SUFFICES ASSUME C[i].page = p PROVE \A n \in SaidBy(C[i], k) : n \in 1 .. Len(l[p])
    OBVIOUS
  <2>3. WellFormed(C[i], l) /\ IsEvidence(C[i]) BY <2>1
  <2>4. /\ C[i].sequence \in Nat /\ C[i].sequence <= Len(l[p]) /\ C[i].observations \subseteq 1 .. Len(l[p])
        /\ C[i].kind = "capture" => C[i].sequence > 0
    BY <2>2, <2>3, TopologyNumbers DEF WellFormed, Entry
  <2> QED BY <1>1, <2>4 DEF SaidBy, Observed
<1>3. k # NoGeneration => k \in Cutoffs /\ k \in Nat /\ k <= Len(l[p])
  <2>1. SUFFICES ASSUME k # NoGeneration PROVE k \in Cutoffs /\ k \in Nat /\ k <= Len(l[p])
    OBVIOUS
  <2>2. PICK i \in DOMAIN C : IsCheckpoint(C[i], p) /\ C[i].sequence = k BY <2>1 DEF Shows
  <2>3. WellFormed(C[i], l) /\ IsEvidence(C[i]) OBVIOUS
  <2> QED BY <2>2, <2>3, TopologyNumbers DEF WellFormed, Entry, IsCheckpoint
<1>4. ASSUME NEW e PROVE Says(C, l2, p, k, e) = Says(C, l, p, k, e)
  <2> DEFINE A(m) == {n \in UNION {SaidBy(C[i], k) : i \in {j \in DOMAIN C : C[j].page = p}} : m[p][n] = e}
             B(m) == {LastOf(m, p, n, e) : n \in {k} \ {NoGeneration}}
  <2>1. A(l2) = A(l) BY <1>1, <1>2
  <2>2. B(l2) = B(l)
    <3>1. ASSUME k # NoGeneration PROVE LastOf(l2, p, k, e) = LastOf(l, p, k, e)
      <4>1. 1 .. k \subseteq 1 .. Len(l[p]) BY <1>1, <1>3, <3>1
      <4>2. {i \in 1 .. k : l2[p][i] = e} = {i \in 1 .. k : l[p][i] = e} BY <1>1, <4>1
      <4> QED BY <4>2 DEF LastOf
    <3> QED BY <3>1
  <2>3. Says(C, l, p, k, e) = A(l) \cup B(l) /\ Says(C, l2, p, k, e) = A(l2) \cup B(l2)
    BY DEF Says
  <2> HIDE DEF A, B
  <2> QED BY <2>1, <2>2, <2>3
<1> QED BY <1>4 DEF Shows

\* Before the bound, a page can capture more.
LEMMA Room ==
  ASSUME Cardinality(Captured) < MaxCaptures, NEW p \in Pages, log \in [Pages -> Seq(Entities)]
  PROVE  Len(log[p]) < MaxCaptures
<1>1. SUFFICES ASSUME Len(log[p]) >= MaxCaptures PROVE FALSE BY TopologyNumbers
<1> DEFINE S == {c \in Captured : c[1] = p}
           g == [c \in S |-> c[2]]
<1>2. IsFiniteSet(Captured)
  <2>1. IsFiniteSet(Pages) /\ IsFiniteSet(Cutoffs)
    BY TopologyNumbers, FS_Interval DEF Pages, Cutoffs
  <2>2. IsFiniteSet(Pages \X Cutoffs) BY <2>1, FS_Product
  <2>3. Captured \in SUBSET (Pages \X Cutoffs) BY DEF Captured
  <2> QED BY <2>2, <2>3, FS_Subset
<1>3. IsFiniteSet(S) /\ Cardinality(S) <= Cardinality(Captured) BY <1>2, FS_Subset
<1> DEFINE T == {g[c] : c \in S}
<1>4. \A n \in 1 .. MaxCaptures : n \in T
  <2>1. TAKE n \in 1 .. MaxCaptures
  <2>2. n \in Cutoffs /\ n \in 1 .. Len(log[p]) BY <1>1, <2>1, TopologyNumbers DEF Cutoffs
  <2>3. <<p, n>> \in Captured BY <2>2 DEF Captured
  <2>4. <<p, n>> \in S /\ g[<<p, n>>] = n BY <2>3
  <2> QED BY <2>4
<1>5. g \in Surjection(S, T) BY DEF Surjection
<1>6. IsFiniteSet(T) /\ Cardinality(T) <= Cardinality(S)
  <2> HIDE DEF g, S, T
  <2> QED BY <1>3, <1>5, FS_Surjection
<1>7. Cardinality(1 .. MaxCaptures) = MaxCaptures /\ Cardinality(1 .. MaxCaptures) <= Cardinality(T)
  <2>1. Cardinality(1 .. MaxCaptures) = MaxCaptures BY TopologyNumbers, FS_Interval
  <2>2. 1 .. MaxCaptures \in SUBSET T BY <1>4
  <2> HIDE DEF T
  <2> QED BY <1>6, <2>1, <2>2, FS_Subset
<1>8. Cardinality(T) \in Nat /\ Cardinality(S) \in Nat /\ Cardinality(Captured) \in Nat
  <2> HIDE DEF T, S
  <2> QED BY <1>2, <1>3, <1>6, FS_CardinalityType
<1> HIDE DEF T, S
<1> QED BY <1>3, <1>6, <1>7, <1>8, TopologyNumbers

LEMMA EmitKeeps ==
  ASSUME TopologyInv, emit PROVE TopologyInv'
<1> DEFINE n == Len(log[page]) + 1
           m == [type |-> "capture", page |-> page, sequence |-> n, coverage |-> "complete", chunks |-> 0]
<1>1. /\ page \in Pages /\ log \in [Pages -> Seq(Entities)] /\ log[page] \in Seq(Entities)
      /\ Len(log[page]) \in Nat /\ n \in Nat /\ n > 0 /\ n <= MaxCaptures /\ wire \in Seq(Messages)
  <2>1. page \in Pages /\ log \in [Pages -> Seq(Entities)] /\ wire \in Seq(Messages)
    BY DEF TopologyInv, TopologyTypeOK
  <2>2. Len(log[page]) < MaxCaptures BY <2>1, Room DEF emit
  <2>3. Len(log[page]) \in Nat BY <2>1
  <2> QED BY <2>1, <2>2, <2>3, TopologyNumbers
<1>2. PICK e \in Entities : log' = [log EXCEPT ![page] = Append(@, e)] BY DEF emit
<1>3. /\ log' \in [Pages -> Seq(Entities)] /\ Grows(log, log') /\ Len(log'[page]) = n
      /\ \A p \in Pages : Len(log'[p]) <= MaxCaptures
  <2>1. \A p \in Pages : log'[p] = IF p = page THEN Append(log[page], e) ELSE log[p]
    BY <1>1, <1>2
  <2>2. /\ Append(log[page], e) \in Seq(Entities) /\ Len(Append(log[page], e)) = n
        /\ \A k \in 1 .. Len(log[page]) : Append(log[page], e)[k] = log[page][k]
    BY <1>1
  <2>3. log' \in [Pages -> Seq(Entities)] BY <1>1, <1>2, <2>2
  <2>4. \A p \in Pages : Len(log[p]) <= MaxCaptures /\ Len(log[p]) \in Nat
    BY <1>1 DEF TopologyInv, TopologyTypeOK
  <2>5. Grows(log, log')
    <3>1. ASSUME NEW p \in Pages
          PROVE  Len(log[p]) <= Len(log'[p]) /\ \A k \in 1 .. Len(log[p]) : log'[p][k] = log[p][k]
      <4>1. CASE p = page
        <5>1. log'[p] = Append(log[page], e) BY <2>1, <4>1
        <5>2. n = Len(log[page]) + 1 OBVIOUS
        <5> HIDE DEF n
        <5> QED BY <1>1, <2>2, <4>1, <5>1, <5>2
      <4>2. CASE p # page BY <2>1, <2>4, <4>2
      <4> QED BY <4>1, <4>2
    <3> QED BY <3>1 DEF Grows
  <2> QED BY <1>1, <2>1, <2>2, <2>3, <2>4, <2>5
<1>4. m \in Messages /\ SoundMessage(m, log')
  <2>1. n \in Cutoffs /\ "complete" \in Coverages BY <1>1, TopologySyncAssumption DEF Cutoffs
  <2>2. m \in Messages BY <1>1, <2>1 DEF Messages
  <2> QED BY <1>1, <1>3, <2>2 DEF SoundMessage
<1>5. /\ wire' = wire \/ wire' = Append(wire, m)
      /\ UNCHANGED <<page, registered, requests, breaks, historyVars, stagedSync, projection, runtimeVars,
                     ghostVars>>
  BY <1>1 DEF emit, Sent
<1>6. UNCHANGED <<page, registered, requests, breaks, queue, committed, refused, clears, stagedSync, projection,
                  currentPageEpoch, evidenceGapGeneration, topologySyncGapGenerations,
                  activeTopologyStagingSyncIds, offeredTopologyCheckpointSyncIds, topologyBasisRecovery,
                  gaps, begun>>
  BY <1>5 DEF historyVars, runtimeVars, ghostVars
<1> HIDE DEF m, n
<1>7. /\ Append(wire, m) \in Seq(Messages) /\ DOMAIN Append(wire, m) = DOMAIN wire \cup {Len(wire) + 1}
      /\ Append(wire, m)[Len(wire) + 1] = m
      /\ \A i \in DOMAIN wire : Append(wire, m)[i] = wire[i] /\ i \in Nat /\ i < Len(wire) + 1
      /\ Len(wire) \in Nat
  BY <1>1, <1>4, AppendIs
<1>8. wire' \in Seq(Messages) BY <1>1, <1>5, <1>7
<1>9. TopologyTypeOK' BY <1>3, <1>6, <1>8 DEF TopologyInv, TopologyTypeOK
<1>10. AllWellFormed'
  <2>1. /\ \A x : WellFormed(x, log) => WellFormed(x, log')
        /\ \A w : SoundMessage(w, log) => SoundMessage(w, log')
        /\ \A st : SoundStage(st, log) => SoundStage(st, log')
    BY <1>1, <1>3, GrownLog
  <2>2. \A i \in DOMAIN wire' : SoundMessage(wire'[i], log')
    BY <1>4, <1>5, <1>7, <2>1 DEF TopologyInv, AllWellFormed
  <2> QED BY <1>6, <2>1, <2>2 DEF TopologyInv, AllWellFormed
<1>11. WireInSequence(wire', queue, committed, stagedSync)
  <2>1. CASE wire' = wire BY <2>1 DEF TopologyInv
  <2>2. CASE wire' = Append(wire, m)
    <3>1. m.type = "capture" /\ m.page = page /\ m.sequence = n BY DEF m
    <3>2. \A k \in Heard(committed, queue, stagedSync, page) : k < n
      BY <1>1, HeardIsCaptured DEF n, TopologyInv
    <3>3. \A j \in DOMAIN queue : IsCapture(queue[j], page) => queue[j].sequence < n
      <4>1. TAKE j \in DOMAIN queue
      <4>2. WellFormed(queue[j], log) BY <4>1 DEF TopologyInv, AllWellFormed
      <4>3. queue[j].sequence \in Nat BY <4>2, TopologyNumbers DEF WellFormed, Entry
      <4>4. IsCapture(queue[j], page) => queue[j].sequence <= Len(log[page])
        BY <4>2 DEF WellFormed, IsCapture, IsEvidence
      <4> QED BY <1>1, <4>3, <4>4 DEF n
    <3>4. \A j \in DOMAIN wire : IsCaptured(wire[j], page) => wire[j].sequence < n
      <4>1. TAKE j \in DOMAIN wire
      <4>2. SoundMessage(wire[j], log) BY <4>1 DEF TopologyInv, AllWellFormed
      <4>3. wire[j].sequence \in Nat BY <4>2, TopologyNumbers DEF SoundMessage, Messages
      <4>4. IsCaptured(wire[j], page) => wire[j].sequence <= Len(log[page])
        BY <4>2 DEF SoundMessage, IsCaptured
      <4> QED BY <1>1, <4>3, <4>4 DEF n
    <3>5. ASSUME NEW i \in DOMAIN wire', wire'[i].type = "capture"
          PROVE  /\ \A k \in Heard(committed, queue, stagedSync, wire'[i].page) : k < wire'[i].sequence
                 /\ \A j \in DOMAIN queue : IsCapture(queue[j], wire'[i].page) =>
                      queue[j].sequence < wire'[i].sequence
                 /\ \A j \in DOMAIN wire' : i < j /\ IsCaptured(wire'[j], wire'[i].page) =>
                      wire'[i].sequence < wire'[j].sequence
      <4>1. CASE i \in DOMAIN wire
        <5>1. wire'[i] = wire[i] BY <1>7, <2>2, <4>1
        <5>2. \A j \in DOMAIN wire' : i < j /\ IsCaptured(wire'[j], wire'[i].page) =>
                wire'[i].sequence < wire'[j].sequence
          <6>1. TAKE j \in DOMAIN wire'
          <6>2. CASE j \in DOMAIN wire
            BY <1>7, <2>2, <3>5, <4>1, <5>1, <6>2 DEF TopologyInv, WireInSequence
          <6>3. CASE j = Len(wire) + 1
            BY <1>7, <2>2, <3>1, <3>4, <3>5, <4>1, <5>1, <6>3 DEF IsCaptured
          <6> QED BY <1>7, <2>2, <6>1, <6>2, <6>3
        <5> QED BY <3>5, <4>1, <5>1, <5>2 DEF TopologyInv, WireInSequence
      <4>2. CASE i = Len(wire) + 1
        <5>1. wire'[i] = m BY <1>7, <2>2, <4>2
        <5>2. \A j \in DOMAIN wire' : ~(i < j) BY <1>7, <2>2, <4>2
        <5> QED BY <3>1, <3>2, <3>3, <5>1, <5>2
      <4> QED BY <1>7, <2>2, <3>5, <4>1, <4>2
    <3> QED BY <3>5 DEF WireInSequence
  <2> QED BY <1>5, <2>1, <2>2
<1>12. committed # <<>> => Shows(projection, committed, log')
  <2>1. SUFFICES ASSUME committed # <<>> PROVE Shows(projection, committed, log') OBVIOUS
  <2>2. projection.page \in Pages BY <2>1 DEF TopologyInv, OnLatestPage, FollowsPages
  <2>3. projection \in ProjectionType /\ committed \in Seq(Entry)
    BY DEF TopologyInv, TopologyTypeOK, ProjectionType
  <2>4. Shows(projection, committed, log)
        /\ \A i \in DOMAIN committed : WellFormed(committed[i], log) /\ IsEvidence(committed[i])
    BY <2>1 DEF TopologyInv, AllWellFormed
  <2> QED BY <1>1, <1>3, <2>2, <2>3, <2>4, ShowsGrown
<1> QED BY <1>6, <1>9, <1>10, <1>11, <1>12 DEF TopologyInv, GapsAgree, RequestsAgree, BasisRests

\* A frame that the page sends is true of it, and changes no order of captures.
LEMMA EmitCheckpointKeeps ==
  ASSUME TopologyInv, emitAbsoluteTopologyCheckpoint PROVE TopologyInv'
<1>1. /\ page \in Pages /\ log \in [Pages -> Seq(Entities)] /\ wire \in Seq(Messages)
      /\ Len(log[page]) \in Nat /\ Len(log[page]) <= MaxCaptures
  BY DEF TopologyInv, TopologyTypeOK
<1>2. UNCHANGED <<page, log, registered, breaks, queue, committed, refused, clears, stagedSync, projection,
                  currentPageEpoch, evidenceGapGeneration, topologySyncGapGenerations,
                  activeTopologyStagingSyncIds, offeredTopologyCheckpointSyncIds, topologyBasisRecovery,
                  gaps, begun>>
      /\ requests > 0 /\ requests' = requests - 1
  BY DEF emitAbsoluteTopologyCheckpoint, pageVars, historyVars, runtimeVars, ghostVars
<1>3. PICK v \in Seq(Messages) : /\ wire' = wire \/ wire' = wire \o v
                                 /\ \A i \in DOMAIN v : v[i].type # "capture" /\ SoundMessage(v[i], log)
  <2> DEFINE frame(type, coverage, chunks) ==
               [type |-> type, page |-> page, sequence |-> Len(log[page]), coverage |-> coverage, chunks |-> chunks]
  <2>1. PICK coverage \in Coverages, chunks \in {0, 1} :
          wire' = Sent(IF chunks = 0 THEN <<frame("begin", coverage, chunks), frame("complete", coverage, chunks)>>
                       ELSE <<frame("begin", coverage, chunks), frame("chunk", coverage, chunks),
                              frame("complete", coverage, chunks)>>)
    BY DEF emitAbsoluteTopologyCheckpoint
  <2>2. \A type \in {"begin", "chunk", "complete"} :
          LET f == frame(type, coverage, chunks)
          IN  f \in Messages /\ f.type # "capture" /\ SoundMessage(f, log)
    <3>1. TAKE type \in {"begin", "chunk", "complete"}
    <3>2. Len(log[page]) \in Cutoffs BY <1>1, TopologyNumbers DEF Cutoffs
    <3> QED BY <1>1, <3>2 DEF Messages, SoundMessage
  <2> HIDE DEF frame
  <2> DEFINE v == IF chunks = 0 THEN <<frame("begin", coverage, chunks), frame("complete", coverage, chunks)>>
                  ELSE <<frame("begin", coverage, chunks), frame("chunk", coverage, chunks),
                         frame("complete", coverage, chunks)>>
  <2>3. v \in Seq(Messages) /\ \A i \in DOMAIN v : v[i].type # "capture" /\ SoundMessage(v[i], log)
    <3>1. CASE chunks = 0 BY <2>2, <3>1
    <3>2. CASE chunks # 0 BY <2>2, <3>2
    <3> QED BY <3>1, <3>2
  <2>4. wire' = wire \/ wire' = wire \o v BY <2>1 DEF Sent
  <2> QED BY <2>3, <2>4
<1>4. wire' \in Seq(Messages) /\ \A i \in DOMAIN wire' : SoundMessage(wire'[i], log)
  <2>1. CASE wire' = wire BY <1>1, <2>1 DEF TopologyInv, AllWellFormed
  <2>2. CASE wire' = wire \o v
    <3>1. /\ wire' \in Seq(Messages) /\ Len(wire') = Len(wire) + Len(v) /\ Len(wire) \in Nat /\ Len(v) \in Nat
          /\ \A i \in 1 .. Len(wire') : wire'[i] = IF i <= Len(wire) THEN wire[i] ELSE v[i - Len(wire)]
      BY <1>1, <2>2, ConcatIs
    <3>2. \A i \in 1 .. Len(wire') : i \in DOMAIN wire \/ (~(i <= Len(wire)) /\ i - Len(wire) \in DOMAIN v)
      BY <1>1, <3>1
    <3>3. \A i \in DOMAIN wire : i <= Len(wire) /\ SoundMessage(wire[i], log)
      BY <1>1 DEF TopologyInv, AllWellFormed
    <3>4. \A i \in 1 .. Len(wire') : SoundMessage(wire'[i], log) BY <1>3, <3>1, <3>2, <3>3
    <3> QED BY <3>1, <3>4
  <2> QED BY <1>3, <2>1, <2>2
<1>5. WireInSequence(wire', queue, committed, stagedSync)
  <2>1. \E h : WireSelects(h, wire', wire)
    <3>1. CASE wire' = wire BY <3>1, WireKeeps
    <3>2. CASE wire' = wire \o v BY <1>1, <1>3, <3>2, WireGrows
    <3> QED BY <1>3, <3>1, <3>2
  <2>2. \E g : QueueSelects(g, queue, queue) BY QueueKeeps
  <2> QED BY <2>1, <2>2, WireStaysInSequence DEF TopologyInv
<1>6. TopologyTypeOK'
  <2>1. requests' \in 0 .. MaxBreaks + 1
    BY <1>2, TopologySyncAssumption DEF TopologyInv, TopologyTypeOK
  <2> QED BY <1>2, <1>4, <2>1 DEF TopologyInv, TopologyTypeOK
<1>7. RequestsAgree'
  BY <1>2, TopologySyncAssumption DEF TopologyInv, RequestsAgree, TopologyTypeOK
<1>8. AllWellFormed' BY <1>2, <1>4 DEF TopologyInv, AllWellFormed
<1> QED BY <1>2, <1>5, <1>6, <1>7, <1>8 DEF TopologyInv, GapsAgree, BasisRests

\* The page reloads, the panel registers, and its connection ends.
LEMMA PageAndConnectionKeep ==
  ASSUME TopologyInv, PageReloads \/ registerPanel \/ ConnectionEnds PROVE TopologyInv'
<1>1. /\ requests \in Nat /\ breaks \in Nat /\ breaks <= MaxBreaks /\ registered \in BOOLEAN
      /\ MaxBreaks \in Nat /\ MaxPages \in Nat /\ page \in Pages /\ wire \in Seq(Messages)
  BY TopologySyncAssumption DEF TopologyInv, TopologyTypeOK
<1>2. UNCHANGED <<log, queue, committed, refused, clears, stagedSync, projection,
                  currentPageEpoch, evidenceGapGeneration, topologySyncGapGenerations,
                  activeTopologyStagingSyncIds, offeredTopologyCheckpointSyncIds, topologyBasisRecovery,
                  gaps, begun>>
  BY DEF PageReloads, registerPanel, ConnectionEnds, pageVars, historyVars, runtimeVars, ghostVars
<1>3. page' \in Pages
  BY <1>1, TopologyNumbers DEF PageReloads, registerPanel, ConnectionEnds, pageVars, Pages
<1>4. \E n \in 0 .. Len(wire) : wire' = SubSeq(wire, 1, n)
  BY <1>1 DEF PageReloads, registerPanel, ConnectionEnds
<1>5. wire' \in Seq(Messages) /\ \A i \in DOMAIN wire' : i \in DOMAIN wire /\ wire'[i] = wire[i]
  BY <1>1, <1>4
<1>6. WireInSequence(wire', queue, committed, stagedSync)
  <2>1. \E h : WireSelects(h, wire', wire) BY <1>1, <1>4, WireCuts
  <2>2. \E g : QueueSelects(g, queue, queue) BY QueueKeeps
  <2> QED BY <2>1, <2>2, WireStaysInSequence DEF TopologyInv
<1>8. breaks' \in 0 .. MaxBreaks /\ registered' \in BOOLEAN /\ requests' \in Nat
      /\ requests' <= breaks' + (IF registered' THEN 1 ELSE 0) /\ requests' <= breaks' + 1
  <2>1. requests <= breaks + (IF registered THEN 1 ELSE 0) BY DEF TopologyInv, RequestsAgree
  <2>2. CASE PageReloads BY <1>1, <2>2 DEF PageReloads
  <2>3. CASE registerPanel BY <1>1, <2>1, <2>3 DEF registerPanel
  <2>4. CASE ConnectionEnds
    <3>1. registered /\ registered' = FALSE /\ breaks < MaxBreaks /\ breaks' = breaks + 1 /\ requests' = requests
      BY <2>4 DEF ConnectionEnds
    <3>2. requests <= breaks + 1 BY <2>1, <3>1
    <3>3. /\ breaks' \in 0 .. MaxBreaks /\ requests' <= breaks' + 0
          /\ requests' <= breaks' + 1 /\ requests' \in Nat
      BY <1>1, <3>1, <3>2
    <3> QED BY <3>1, <3>3
  <2> QED BY <2>2, <2>3, <2>4
<1>9. requests' \in 0 .. MaxBreaks + 1 /\ RequestsAgree'
  <2>1. requests' <= MaxBreaks + 1
    <3>1. requests' <= breaks' + 1 /\ breaks' \in 0 .. MaxBreaks /\ requests' \in Nat BY <1>8
    <3>2. MaxBreaks \in Nat BY <1>1
    <3>3. \A r, b \in Int, c \in Nat : b \in 0 .. c /\ r <= b + 1 => r <= c + 1 OBVIOUS
    <3>4. requests' \in Int /\ breaks' \in Int BY <3>1
    <3> QED BY <3>1, <3>2, <3>3, <3>4
  <2>2. RequestsAgree' BY <1>8 DEF RequestsAgree
  <2>3. MaxBreaks \in Nat /\ requests' \in Nat BY <1>1, <1>8
  <2>4. requests' \in 0 .. MaxBreaks + 1 BY <2>1, <2>3
  <2> QED BY <2>2, <2>4
<1>10. TopologyTypeOK' BY <1>2, <1>3, <1>5, <1>8, <1>9 DEF TopologyInv, TopologyTypeOK
<1>11. AllWellFormed' BY <1>2, <1>5 DEF TopologyInv, AllWellFormed
<1> QED BY <1>2, <1>6, <1>9, <1>10, <1>11 DEF TopologyInv, GapsAgree, BasisRests
-----------------------------------------------------------------------------
(* The panel receives *)

\* What the history takes of the panel's candidates.
QueueIsKept(q, o, r) ==
  /\ q \in Seq(Entry) /\ \A i \in DOMAIN q : WellFormed(q[i], log)
  /\ \E g : QueueSelects(g, q, queue)
  /\ OfferedOnce(q, committed, o)
  /\ r \in 0 .. MaxGaps /\ refused <= r /\ gaps + Cardinality(GapsIn(q)) <= r

LEMMA QueueUnchanged ==
  ASSUME TopologyInv PROVE QueueIsKept(queue, offeredTopologyCheckpointSyncIds, refused)
<1>1. \E g : QueueSelects(g, queue, queue) BY QueueKeeps
<1>2. refused \in Int BY TopologySyncAssumption DEF TopologyInv, TopologyTypeOK
<1> QED BY <1>1, <1>2 DEF TopologyInv, TopologyTypeOK, AllWellFormed, GapsAgree, QueueIsKept

LEMMA QueueTakes ==
  ASSUME TopologyInv, NEW x, WellFormed(x, log), x.kind # "capture", NEW o,
         offeredTopologyCheckpointSyncIds \subseteq o,
         IsSync(x) => SyncOf(x) \notin offeredTopologyCheckpointSyncIds /\ SyncOf(x) \in o,
         x.kind = "gap" => refused < MaxGaps
  PROVE  QueueIsKept(Append(queue, x), o, IF x.kind = "gap" THEN refused + 1 ELSE refused)
<1> DEFINE q == Append(queue, x)
           r == IF x.kind = "gap" THEN refused + 1 ELSE refused
<1>1. queue \in Seq(Entry) /\ x \in Entry BY DEF TopologyInv, TopologyTypeOK, WellFormed
<1>2. /\ q \in Seq(Entry) /\ DOMAIN q = DOMAIN queue \cup {Len(queue) + 1} /\ q[Len(queue) + 1] = x
      /\ \A i \in DOMAIN queue : q[i] = queue[i]
  BY <1>1, AppendIs
<1>3. \E g : QueueSelects(g, q, queue) BY <1>1, QueueAppends
<1>4. OfferedOnce(q, committed, o) BY <1>1, OnceAppends DEF TopologyInv
<1>5. /\ Cardinality(GapsIn(queue)) \in Nat
      /\ Cardinality(GapsIn(q)) = Cardinality(GapsIn(queue)) + (IF x.kind = "gap" THEN 1 ELSE 0)
  BY <1>1, GapsAppend
<1> HIDE DEF q
<1>6. /\ refused \in Nat /\ MaxGaps \in Nat /\ refused <= MaxGaps /\ gaps \in Nat
      /\ gaps + Cardinality(GapsIn(queue)) <= refused
  BY TopologySyncAssumption DEF TopologyInv, GapsAgree, TopologyTypeOK
<1>7. r \in 0 .. MaxGaps /\ refused <= r /\ gaps + Cardinality(GapsIn(q)) <= r BY <1>5, <1>6
<1>8. \A i \in DOMAIN q : WellFormed(q[i], log) BY <1>2 DEF TopologyInv, AllWellFormed
<1> QED BY <1>2, <1>3, <1>4, <1>7, <1>8 DEF QueueIsKept, q

\* What a frame does to the stage and to the registrations of synchronizations.
FrameDone ==
  /\ QueueIsKept(queue', offeredTopologyCheckpointSyncIds', refused')
  /\ stagedSync' \in StageType /\ SoundStage(stagedSync', log)
  /\ \A p : Heard(committed, queue', stagedSync', p) \subseteq Heard(committed, queue, stagedSync, p)
  /\ offeredTopologyCheckpointSyncIds' \subseteq Syncs /\ activeTopologyStagingSyncIds' \subseteq Syncs
  /\ topologySyncGapGenerations' \in [Syncs -> {NoGeneration} \cup 0 .. MaxGaps]
  /\ begun' \in [Syncs -> {NoGeneration} \cup 0 .. MaxGaps]
  /\ \A s \in Syncs : /\ topologySyncGapGenerations'[s] <= begun'[s] /\ begun'[s] <= gaps
                      /\ begun'[s] = begun[s] \/ begun'[s] = gaps
  /\ stagedSync'.begin # <<>> =>
       <<stagedSync'.begin[1].page, stagedSync'.begin[1].sequence>> \in activeTopologyStagingSyncIds'

\* What the state says of synchronizations, in the form that the frames need.
LEMMA Registrations ==
  ASSUME TopologyInv
  PROVE  /\ queue \in Seq(Entry) /\ stagedSync \in StageType /\ SoundStage(stagedSync, log)
         /\ offeredTopologyCheckpointSyncIds \subseteq Syncs /\ activeTopologyStagingSyncIds \subseteq Syncs
         /\ topologySyncGapGenerations \in [Syncs -> {NoGeneration} \cup 0 .. MaxGaps]
         /\ begun \in [Syncs -> {NoGeneration} \cup 0 .. MaxGaps]
         /\ gaps \in Nat /\ gaps \in 0 .. MaxGaps /\ evidenceGapGeneration = gaps
         /\ \A s \in Syncs : topologySyncGapGenerations[s] <= begun[s] /\ begun[s] <= gaps
         /\ stagedSync.begin # <<>> =>
              <<stagedSync.begin[1].page, stagedSync.begin[1].sequence>> \in activeTopologyStagingSyncIds
         /\ stagedSync.begin = <<>> <=> stagedSync = NoStage
<1>1. refused \in 0 .. MaxGaps /\ gaps \in 0 .. refused /\ MaxGaps \in Nat
  BY TopologySyncAssumption DEF TopologyInv, TopologyTypeOK
<1>2. gaps \in Nat /\ gaps \in 0 .. MaxGaps BY <1>1
<1>3. stagedSync.begin = <<>> <=> stagedSync = NoStage
  BY DEF TopologyInv, AllWellFormed, SoundStage, NoStage
<1> QED BY <1>2, <1>3 DEF TopologyInv, TopologyTypeOK, StageType, AllWellFormed, GapsAgree

\* A stage that begins has observed nothing; its synchronization is registered.
LEMMA BeginDone ==
  ASSUME TopologyInv, NEW m, SoundMessage(m, log), stageBegin(m) PROVE FrameDone
<1> DEFINE sync == <<m.page, m.sequence>>
           accepted == stagedSync = NoStage \/ stagedSync.begin = <<m>>
           starts == accepted /\ sync \notin activeTopologyStagingSyncIds
<1>1. m \in Messages /\ sync \in Syncs /\ m.type = "begin"
  BY DEF SoundMessage, Messages, Syncs, stageBegin
<1>2. QueueIsKept(queue', offeredTopologyCheckpointSyncIds', refused') /\ queue' = queue
      /\ offeredTopologyCheckpointSyncIds' = offeredTopologyCheckpointSyncIds
  <2>1. UNCHANGED <<queue, refused, offeredTopologyCheckpointSyncIds>> BY DEF stageBegin
  <2>2. QueueIsKept(queue, offeredTopologyCheckpointSyncIds, refused) BY QueueUnchanged
  <2> QED BY <2>1, <2>2
<1>3. /\ stagedSync' = IF stagedSync = NoStage THEN [NoStage EXCEPT !.begin = <<m>>] ELSE stagedSync
      /\ begun' = IF stagedSync = NoStage THEN [begun EXCEPT ![sync] = gaps] ELSE begun
      /\ activeTopologyStagingSyncIds' =
           IF starts THEN activeTopologyStagingSyncIds \cup {sync} ELSE activeTopologyStagingSyncIds
      /\ topologySyncGapGenerations' =
           IF starts THEN [topologySyncGapGenerations EXCEPT ![sync] = evidenceGapGeneration]
           ELSE topologySyncGapGenerations
  BY DEF stageBegin
<1> DEFINE opened == [NoStage EXCEPT !.begin = <<m>>]
<1>4. /\ opened.begin = <<m>> /\ opened \in StageType /\ SoundStage(opened, log)
      /\ \A p : StagedOf(opened, p) = {}
  <2>1. <<m>> \in Seq(Messages) /\ <<m>> # <<>> /\ Len(<<m>>) = 1 /\ <<m>>[1] = m BY <1>1
  <2>2. opened.begin = <<m>> /\ opened.observations = {} /\ opened \in StageType
    BY <2>1 DEF NoStage, StageType
  <2> HIDE DEF opened
  <2> QED BY <1>1, <2>1, <2>2 DEF SoundStage, StagedOf
<1>5. stagedSync' = IF stagedSync = NoStage THEN opened ELSE stagedSync BY <1>3, <1>4
<1>6. stagedSync' \in StageType /\ SoundStage(stagedSync', log) BY <1>4, <1>5, Registrations
<1>7. \A p : Heard(committed, queue', stagedSync', p) \subseteq Heard(committed, queue, stagedSync, p)
  BY <1>2, <1>4, <1>5 DEF Heard
<1>8. stagedSync.begin = <<m>> => ~starts
  <2>1. SUFFICES ASSUME stagedSync.begin = <<m>> PROVE sync \in activeTopologyStagingSyncIds
    OBVIOUS
  <2>2. stagedSync.begin # <<>> /\ stagedSync.begin[1] = m BY <2>1
  <2> QED BY <2>2, Registrations
<1>9. /\ topologySyncGapGenerations' \in [Syncs -> {NoGeneration} \cup 0 .. MaxGaps]
      /\ begun' \in [Syncs -> {NoGeneration} \cup 0 .. MaxGaps]
      /\ activeTopologyStagingSyncIds' \subseteq Syncs
  <2> HIDE DEF sync, starts
  <2> QED BY <1>1, <1>3, Registrations
<1>10. \A s \in Syncs : /\ topologySyncGapGenerations'[s] <= begun'[s] /\ begun'[s] <= gaps
                        /\ begun'[s] = begun[s] \/ begun'[s] = gaps
  <2>1. TAKE s \in Syncs
  <2>2. begun'[s] = IF stagedSync = NoStage /\ s = sync THEN gaps ELSE begun[s]
    BY <1>1, <1>3, Registrations
  <2>3. topologySyncGapGenerations'[s] = IF starts /\ s = sync THEN gaps ELSE topologySyncGapGenerations[s]
    BY <1>1, <1>3, Registrations
  <2>4. starts => stagedSync = NoStage BY <1>8
  <2>5. topologySyncGapGenerations[s] <= begun[s] /\ begun[s] <= gaps /\ begun[s] \in Int
        /\ topologySyncGapGenerations[s] \in Int /\ gaps \in Int
    <3>1. NoGeneration \in Int BY DEF NoGeneration
    <3>2. {NoGeneration} \cup 0 .. MaxGaps \subseteq Int BY <3>1
    <3> QED BY <3>2, Registrations
  <2> HIDE DEF starts, sync
  <2> QED BY <2>2, <2>3, <2>4, <2>5
<1>11. stagedSync'.begin # <<>> =>
         <<stagedSync'.begin[1].page, stagedSync'.begin[1].sequence>> \in activeTopologyStagingSyncIds'
  <2>1. CASE stagedSync = NoStage BY <1>3, <1>5, <2>1
  <2>2. CASE stagedSync # NoStage BY Registrations, <1>3, <2>2
  <2> QED BY <2>1, <2>2
<1> QED BY <1>2, <1>6, <1>7, <1>9, <1>10, <1>11, Registrations DEF FrameDone

LEMMA ChunkDone ==
  ASSUME TopologyInv, NEW m, stageChunk(m) PROVE FrameDone
<1>1. /\ stagedSync' = IF FrameOf(stagedSync.begin, m) THEN [stagedSync EXCEPT !.chunks = 1] ELSE stagedSync
      /\ UNCHANGED <<queue, refused, begun, activeTopologyStagingSyncIds, topologySyncGapGenerations,
                     offeredTopologyCheckpointSyncIds>>
  BY DEF stageChunk
<1>2. QueueIsKept(queue', offeredTopologyCheckpointSyncIds', refused') BY <1>1, QueueUnchanged
<1>3. /\ stagedSync' \in StageType /\ stagedSync'.begin = stagedSync.begin
      /\ stagedSync'.observations = stagedSync.observations
      /\ stagedSync.begin = <<>> => stagedSync' = stagedSync
  BY <1>1, Registrations DEF StageType, FrameOf
<1>4. SoundStage(stagedSync', log) BY <1>3, Registrations DEF SoundStage
<1>5. \A p : Heard(committed, queue', stagedSync', p) \subseteq Heard(committed, queue, stagedSync, p)
  <2>1. queue' = queue BY <1>1
  <2>2. \A p : StagedOf(stagedSync', p) = StagedOf(stagedSync, p) BY <1>3 DEF StagedOf
  <2> QED BY <2>1, <2>2 DEF Heard
<1>6. /\ offeredTopologyCheckpointSyncIds' \subseteq Syncs /\ activeTopologyStagingSyncIds' \subseteq Syncs
      /\ topologySyncGapGenerations' \in [Syncs -> {NoGeneration} \cup 0 .. MaxGaps]
      /\ begun' \in [Syncs -> {NoGeneration} \cup 0 .. MaxGaps]
  BY <1>1, Registrations
<1> QED BY <1>1, <1>2, <1>3, <1>4, <1>5, <1>6, Registrations DEF FrameDone

\* The stage that ends hands what it observed to its candidate, or forgets it.
LEMMA CompleteDone ==
  ASSUME TopologyInv, NEW m, SoundMessage(m, log), stageComplete(m) PROVE FrameDone
<1> DEFINE sync == <<m.page, m.sequence>>
           staged == FrameOf(stagedSync.begin, m)
           candidate == staged /\ Encodes(m)
           o == offeredTopologyCheckpointSyncIds
<1>1. m \in Messages /\ sync \in Syncs /\ m.page \in Pages /\ m.sequence \in Cutoffs /\ m.coverage \in Coverages
  BY DEF SoundMessage, Messages, Syncs
<1>2. /\ stagedSync' = IF staged THEN NoStage ELSE stagedSync
      /\ activeTopologyStagingSyncIds' =
           IF candidate THEN activeTopologyStagingSyncIds \ {sync} ELSE activeTopologyStagingSyncIds
      /\ IF candidate /\ sync \notin o
         THEN /\ offeredTopologyCheckpointSyncIds' = o \cup {sync}
              /\ Offered("checkpoint", m.page, m.sequence, m.coverage, stagedSync.observations)
         ELSE UNCHANGED <<queue, refused, offeredTopologyCheckpointSyncIds>>
      /\ topologySyncGapGenerations' =
           IF candidate THEN topologySyncGapGenerations
           ELSE [topologySyncGapGenerations EXCEPT ![sync] = NoGeneration]
      /\ begun' = begun
  BY DEF stageComplete
<1>3. staged => /\ stagedSync.begin # <<>> /\ stagedSync.begin[1].page = m.page
                /\ stagedSync.begin[1].sequence = m.sequence
  BY <1>1 DEF FrameOf, Messages
<1> DEFINE Fits == /\ QueueIsKept(queue', offeredTopologyCheckpointSyncIds', refused')
                   /\ \A p, n : n \in WaitingIn(queue', p) =>
                        n \in WaitingIn(queue, p) \/ (staged /\ n \in StagedOf(stagedSync, p))
                   /\ offeredTopologyCheckpointSyncIds' \subseteq Syncs
<1>4. ASSUME candidate, sync \notin o PROVE Fits
  <2>1. offeredTopologyCheckpointSyncIds' = o \cup {sync}
        /\ Offered("checkpoint", m.page, m.sequence, m.coverage, stagedSync.observations)
    BY <1>2, <1>4
  <2>2. stagedSync.observations \subseteq 1 .. Len(log[m.page]) /\ stagedSync.observations \in SUBSET Cutoffs
    BY <1>3, <1>4, Registrations DEF SoundStage, StageType
  <2> DEFINE c == [kind |-> "checkpoint", page |-> m.page, sequence |-> m.sequence, coverage |-> m.coverage,
                   observations |-> stagedSync.observations]
             g == [kind |-> "gap", page |-> m.page, sequence |-> m.sequence, coverage |-> "complete",
                   observations |-> {}]
  <2>3. WellFormed(c, log) /\ WellFormed(g, log)
    <3>1. m.page \in 0 .. MaxPages /\ "complete" \in Coverages
      BY <1>1, TopologySyncAssumption DEF Pages
    <3>2. c \in Entry /\ g \in Entry BY <1>1, <2>2, <3>1 DEF Entry
    <3> QED BY <1>1, <2>2, <3>2 DEF WellFormed, IsEvidence, SoundMessage
  <2>4. SyncOf(c) = sync /\ SyncOf(g) = sync BY DEF SyncOf
  <2>5. \A x \in {c, g} : /\ x.page = m.page /\ x.observations \subseteq stagedSync.observations
                          /\ x.kind # "capture"
    OBVIOUS
  <2>6. PICK x \in {c, g} :
          /\ queue' = Append(queue, x)
          /\ x.kind = "gap" => refused < MaxGaps
          /\ refused' = IF x.kind = "gap" THEN refused + 1 ELSE refused
    <3>1. CASE queue' = Append(queue, c) /\ refused' = refused BY <3>1
    <3>2. CASE queue' = Append(queue, g) /\ refused < MaxGaps /\ refused' = refused + 1 BY <3>2
    <3>3. \/ queue' = Append(queue, c) /\ refused' = refused
          \/ queue' = Append(queue, g) /\ refused < MaxGaps /\ refused' = refused + 1
      BY <2>1 DEF Offered
    <3> QED BY <3>1, <3>2, <3>3
  <2> HIDE DEF c, g
  <2>7. QueueIsKept(queue', offeredTopologyCheckpointSyncIds', refused')
    <3>1. WellFormed(x, log) /\ SyncOf(x) = sync /\ x.kind # "capture" BY <2>3, <2>4, <2>5
    <3>2. o \subseteq o \cup {sync} /\ sync \in o \cup {sync} OBVIOUS
    <3>3. QueueIsKept(Append(queue, x), o \cup {sync}, IF x.kind = "gap" THEN refused + 1 ELSE refused)
      <4> HIDE DEF sync
      <4> QED BY <1>4, <2>6, <3>1, <3>2, QueueTakes
    <3> QED BY <2>1, <2>6, <3>3
  <2>8. \A p, n : n \in WaitingIn(queue', p) =>
          n \in WaitingIn(queue, p) \/ (staged /\ n \in StagedOf(stagedSync, p))
    <3>1. TAKE p, n
    <3>2. x \in Entry /\ queue \in Seq(Entry) BY <2>3, Registrations DEF WellFormed
    <3>3. \A k \in WaitingIn(Append(queue, x), p) : k \in WaitingIn(queue, p) \/ (x.page = p /\ k \in x.observations)
      BY <3>2, WaitingAppends
    <3>4. x.page = p /\ n \in x.observations => n \in StagedOf(stagedSync, p)
      BY <1>3, <1>4, <2>5 DEF StagedOf
    <3> QED BY <1>4, <2>6, <3>3, <3>4
  <2>9. offeredTopologyCheckpointSyncIds' \subseteq Syncs BY <1>1, <2>1, Registrations
  <2> QED BY <2>7, <2>8, <2>9
<1>5. ASSUME ~(candidate /\ sync \notin o) PROVE Fits
  <2>1. UNCHANGED <<queue, refused, offeredTopologyCheckpointSyncIds>> BY <1>2, <1>5
  <2>2. QueueIsKept(queue', offeredTopologyCheckpointSyncIds', refused') BY <2>1, QueueUnchanged
  <2> QED BY <2>1, <2>2, Registrations
<1>6. Fits BY <1>4, <1>5
<1>7. \A p : Heard(committed, queue', stagedSync', p) \subseteq Heard(committed, queue, stagedSync, p)
  <2>1. TAKE p
  <2>2. StagedOf(stagedSync', p) \subseteq StagedOf(stagedSync, p) BY <1>2 DEF StagedOf, NoStage
  <2>3. \A n : n \in WaitingIn(queue', p) => n \in WaitingIn(queue, p) \/ n \in StagedOf(stagedSync, p)
    BY <1>6
  <2> QED BY <2>2, <2>3 DEF Heard
<1>8. /\ stagedSync' \in StageType /\ SoundStage(stagedSync', log)
      /\ stagedSync'.begin # <<>> => stagedSync' = stagedSync /\ ~staged
  <2>1. NoStage \in StageType /\ SoundStage(NoStage, log) /\ NoStage.begin = <<>>
    BY DEF NoStage, StageType, SoundStage
  <2> QED BY <1>2, <2>1, Registrations
<1>9. stagedSync'.begin # <<>> =>
        <<stagedSync'.begin[1].page, stagedSync'.begin[1].sequence>> \in activeTopologyStagingSyncIds'
  BY <1>2, <1>8, Registrations
<1>10. /\ topologySyncGapGenerations' \in [Syncs -> {NoGeneration} \cup 0 .. MaxGaps]
       /\ activeTopologyStagingSyncIds' \subseteq Syncs
  <2> HIDE DEF sync, candidate
  <2> QED BY <1>1, <1>2, Registrations
<1>11. \A s \in Syncs : topologySyncGapGenerations'[s] <= begun'[s]
  <2>1. TAKE s \in Syncs
  <2>2. topologySyncGapGenerations'[s] = topologySyncGapGenerations[s]
        \/ topologySyncGapGenerations'[s] = NoGeneration
    BY <1>1, <1>2, Registrations
  <2>3. topologySyncGapGenerations[s] <= begun[s] /\ begun[s] \in {NoGeneration} \cup 0 .. MaxGaps
    BY Registrations
  <2>4. NoGeneration <= begun[s] BY <2>3 DEF NoGeneration
  <2> QED BY <1>2, <2>2, <2>3, <2>4
<1> QED BY <1>2, <1>6, <1>7, <1>8, <1>9, <1>10, <1>11, Registrations DEF FrameDone

\* What the panel receives leaves the messages behind it in their order.
LEMMA WireAfter ==
  ASSUME TopologyInv, NEW i \in 1 .. Len(wire), Receive(i)
  PROVE  /\ wire \in Seq(Messages) /\ wire' \in Seq(Messages) /\ wire[i] \in Messages /\ SoundMessage(wire[i], log)
         /\ \A j \in DOMAIN wire' : /\ j \in Nat /\ (IF j < i THEN j ELSE j + 1) \in DOMAIN wire
                                    /\ wire'[j] = wire[IF j < i THEN j ELSE j + 1]
         /\ \A j \in DOMAIN wire' : SoundMessage(wire'[j], log)
         /\ \E h : WireSelects(h, wire', wire)
         /\ page' = page /\ log' = log /\ registered' = registered /\ requests' = requests
         /\ breaks' = breaks /\ projection' = projection
<1>1. wire \in Seq(Messages) /\ \A j \in DOMAIN wire : SoundMessage(wire[j], log)
  BY DEF TopologyInv, TopologyTypeOK, AllWellFormed
<1>2. wire' = SubSeq(wire, 1, i - 1) \o SubSeq(wire, i + 1, Len(wire)) BY DEF Receive
<1>3. /\ wire' \in Seq(Messages)
      /\ \A j \in DOMAIN wire' : /\ j \in Nat /\ (IF j < i THEN j ELSE j + 1) \in DOMAIN wire
                                 /\ wire'[j] = wire[IF j < i THEN j ELSE j + 1]
  BY <1>1, <1>2, WithoutIs
<1>4. \E h : WireSelects(h, wire', wire) BY <1>1, <1>2, WireDrops
<1>5. /\ page' = page /\ log' = log /\ registered' = registered /\ requests' = requests
      /\ breaks' = breaks /\ projection' = projection
  BY DEF Receive, pageVars
<1>6. wire[i] \in Messages /\ SoundMessage(wire[i], log) BY <1>1
<1> QED BY <1>1, <1>3, <1>4, <1>5, <1>6

LEMMA FrameKeeps ==
  ASSUME TopologyInv, NEW i \in 1 .. Len(wire), Receive(i), applyTopologySyncFrame(wire[i])
  PROVE  TopologyInv'
<1> DEFINE m == wire[i]
<1>1. /\ m \in Messages /\ SoundMessage(m, log) /\ m.page \in Pages
      /\ wire' \in Seq(Messages) /\ \A j \in DOMAIN wire' : SoundMessage(wire'[j], log)
      /\ page' = page /\ log' = log /\ registered' = registered /\ requests' = requests
      /\ breaks' = breaks /\ projection' = projection
  BY WireAfter DEF Messages
<1>2. FrameDone BY <1>1, BeginDone, ChunkDone, CompleteDone DEF applyTopologySyncFrame
<1>3. /\ currentPageEpoch' = m.page /\ topologyBasisRecovery' = ObservedBasis(m.page)
      /\ committed' = committed /\ clears' = clears /\ evidenceGapGeneration' = evidenceGapGeneration
      /\ gaps' = gaps
  BY DEF applyTopologySyncFrame
<1>4. /\ queue' \in Seq(Entry) /\ \A j \in DOMAIN queue' : WellFormed(queue'[j], log)
      /\ \E g : QueueSelects(g, queue', queue)
      /\ OfferedOnce(queue', committed, offeredTopologyCheckpointSyncIds')
      /\ refused' \in 0 .. MaxGaps /\ refused <= refused' /\ gaps + Cardinality(GapsIn(queue')) <= refused'
  BY <1>2 DEF FrameDone, QueueIsKept
<1>5. /\ stagedSync' \in StageType /\ SoundStage(stagedSync', log)
      /\ \A p : Heard(committed, queue', stagedSync', p) \subseteq Heard(committed, queue, stagedSync, p)
      /\ offeredTopologyCheckpointSyncIds' \subseteq Syncs /\ activeTopologyStagingSyncIds' \subseteq Syncs
      /\ topologySyncGapGenerations' \in [Syncs -> {NoGeneration} \cup 0 .. MaxGaps]
      /\ begun' \in [Syncs -> {NoGeneration} \cup 0 .. MaxGaps]
      /\ \A s \in Syncs : /\ topologySyncGapGenerations'[s] <= begun'[s] /\ begun'[s] <= gaps
                          /\ begun'[s] = begun[s] \/ begun'[s] = gaps
      /\ stagedSync'.begin # <<>> =>
           <<stagedSync'.begin[1].page, stagedSync'.begin[1].sequence>> \in activeTopologyStagingSyncIds'
  BY <1>2 DEF FrameDone
<1> HIDE DEF m
<1>6. \/ topologyBasisRecovery' = NoSync
      \/ topologyBasisRecovery' = topologyBasisRecovery /\ topologyBasisRecovery[1] = m.page
  BY <1>3 DEF ObservedBasis
<1>7. TopologyTypeOK'
  <2>2. currentPageEpoch' \in 0 .. MaxPages /\ topologyBasisRecovery' \in Syncs \cup {NoSync}
    BY <1>1, <1>3, <1>6 DEF TopologyInv, TopologyTypeOK, Pages
  <2>3. gaps' \in 0 .. refused'
    BY <1>3, <1>4, TopologySyncAssumption DEF TopologyInv, TopologyTypeOK
  <2> QED BY <1>1, <1>3, <1>4, <1>5, <2>2, <2>3 DEF TopologyInv, TopologyTypeOK, StageType
<1>8. AllWellFormed' BY <1>1, <1>3, <1>4, <1>5 DEF TopologyInv, AllWellFormed
<1>9. QueueInSequence(queue', committed, stagedSync') /\ WireInSequence(wire', queue', committed, stagedSync')
  <2>1. PICK g : QueueSelects(g, queue', queue) BY <1>4
  <2>2. PICK h : WireSelects(h, wire', wire) BY WireAfter
  <2>3. QueueInSequence(queue, committed, stagedSync) /\ WireInSequence(wire, queue, committed, stagedSync)
    BY DEF TopologyInv
  <2>4. QueueInSequence(queue', committed, stagedSync')
    BY <1>5, <2>1, <2>3, QueueStaysInSequence
  <2>5. WireInSequence(wire', queue', committed, stagedSync')
    BY <1>5, <2>1, <2>2, <2>3, WireStaysInSequence
  <2> QED BY <2>4, <2>5
<1>10. GapsAgree' BY <1>3, <1>4, <1>5 DEF TopologyInv, GapsAgree
<1>11. BasisRests'
  <2>1. SUFFICES ASSUME topologyBasisRecovery' # NoSync PROVE BasisRests' BY DEF BasisRests
  <2>2. topologyBasisRecovery' = topologyBasisRecovery /\ topologyBasisRecovery[1] = m.page
    BY <1>6, <2>1
  <2>3. topologyBasisRecovery \in Syncs BY <2>1, <2>2 DEF TopologyInv, TopologyTypeOK
  <2>4. begun[topologyBasisRecovery] = gaps BY <2>1, <2>2 DEF TopologyInv, BasisRests
  <2>5. begun'[topologyBasisRecovery] = gaps BY <1>5, <2>3, <2>4
  <2> QED BY <1>3, <2>1, <2>2, <2>5 DEF TopologyInv, BasisRests
<1> QED BY <1>1, <1>3, <1>4, <1>7, <1>8, <1>9, <1>10, <1>11 DEF TopologyInv, RequestsAgree

\* A capture that is taken follows those that were heard of, and comes before those
\* that are still on their way.
LEMMA IngestKeeps ==
  ASSUME TopologyInv, NEW i \in 1 .. Len(wire), Receive(i), ingestCaptureMessage(wire[i])
  PROVE  TopologyInv'
<1> DEFINE m == wire[i]
           c == [kind |-> "capture", page |-> m.page, sequence |-> m.sequence, coverage |-> "complete",
                 observations |-> {}]
           g == [kind |-> "gap", page |-> 0, sequence |-> 0, coverage |-> "complete", observations |-> {}]
<1>1. /\ m \in Messages /\ SoundMessage(m, log) /\ m.page \in Pages /\ m.sequence \in Cutoffs /\ m.sequence \in Nat
      /\ wire \in Seq(Messages) /\ wire' \in Seq(Messages) /\ \A j \in DOMAIN wire' : SoundMessage(wire'[j], log)
      /\ page' = page /\ log' = log /\ registered' = registered /\ requests' = requests
      /\ breaks' = breaks /\ projection' = projection
  BY WireAfter, TopologyNumbers DEF Messages
<1>2. /\ UNCHANGED <<committed, clears, stagedSync, currentPageEpoch, evidenceGapGeneration,
                     topologySyncGapGenerations, activeTopologyStagingSyncIds,
                     offeredTopologyCheckpointSyncIds, topologyBasisRecovery, gaps, begun>>
      /\ m.type = "capture"
  BY DEF ingestCaptureMessage, runtimeVars, ghostVars
<1>3. WellFormed(c, log) /\ WellFormed(g, log)
  <2>1. m.page \in 0 .. MaxPages /\ 0 \in 0 .. MaxPages /\ "complete" \in Coverages
    BY <1>1, TopologySyncAssumption DEF Pages
  <2>2. c \in Entry /\ g \in Entry BY <1>1, <2>1, TopologyNumbers DEF Entry
  <2> QED BY <1>1, <1>2, <2>2 DEF WellFormed, IsEvidence, SoundMessage
<1>4. \/ queue' = Append(queue, c) /\ refused' = refused
      \/ queue' = Append(queue, g) /\ refused < MaxGaps /\ refused' = refused + 1
  BY DEF ingestCaptureMessage, Offered
<1>5. c.kind = "capture" /\ c.page = m.page /\ c.sequence = m.sequence /\ c.observations = {}
      /\ g.kind = "gap" /\ g.page = 0 /\ g.observations = {}
  OBVIOUS
<1> HIDE DEF c, g
<1>6. queue \in Seq(Entry) /\ c \in Entry /\ g \in Entry
  BY <1>3 DEF TopologyInv, TopologyTypeOK, WellFormed
<1>7. \A p : Heard(committed, queue', stagedSync, p) \subseteq Heard(committed, queue, stagedSync, p)
  <2>1. TAKE p
  <2>2. \A x \in {c, g} : \A n \in WaitingIn(Append(queue, x), p) : n \in WaitingIn(queue, p)
    <3>1. TAKE x \in {c, g}
    <3>2. x \in Entry /\ x.observations = {} BY <1>5, <1>6
    <3>3. \A n \in WaitingIn(Append(queue, x), p) : n \in WaitingIn(queue, p) \/ (x.page = p /\ n \in x.observations)
      BY <1>6, <3>2, WaitingAppends
    <3> QED BY <3>2, <3>3
  <2>3. WaitingIn(queue', p) \subseteq WaitingIn(queue, p) BY <1>4, <2>2
  <2> QED BY <2>3 DEF Heard
<1> DEFINE Kept == /\ queue' \in Seq(Entry) /\ \A j \in DOMAIN queue' : WellFormed(queue'[j], log)
                   /\ OfferedOnce(queue', committed, offeredTopologyCheckpointSyncIds)
                   /\ refused' \in 0 .. MaxGaps /\ refused <= refused'
                   /\ gaps + Cardinality(GapsIn(queue')) <= refused'
                   /\ QueueInSequence(queue', committed, stagedSync)
                   /\ WireInSequence(wire', queue', committed, stagedSync)
<1>8. ASSUME queue' = Append(queue, g), refused < MaxGaps, refused' = refused + 1 PROVE Kept
  <2>1. QueueIsKept(queue', offeredTopologyCheckpointSyncIds, refused')
    <3>1. ~IsSync(g) /\ g.kind = "gap" /\ g.kind # "capture" BY <1>5 DEF IsSync
    <3>2. QueueIsKept(Append(queue, g), offeredTopologyCheckpointSyncIds,
                      IF g.kind = "gap" THEN refused + 1 ELSE refused)
      BY <1>3, <1>8, <3>1, QueueTakes
    <3> QED BY <1>8, <3>1, <3>2
  <2>2. PICK f : QueueSelects(f, queue', queue) BY <2>1 DEF QueueIsKept
  <2>3. PICK h : WireSelects(h, wire', wire) BY WireAfter
  <2>4. QueueInSequence(queue, committed, stagedSync) /\ WireInSequence(wire, queue, committed, stagedSync)
    BY DEF TopologyInv
  <2>5. QueueInSequence(queue', committed, stagedSync) BY <1>7, <2>2, <2>4, QueueStaysInSequence
  <2>6. WireInSequence(wire', queue', committed, stagedSync)
    BY <1>7, <2>2, <2>3, <2>4, WireStaysInSequence
  <2> QED BY <2>1, <2>5, <2>6 DEF QueueIsKept
<1>9. ASSUME queue' = Append(queue, c), refused' = refused PROVE Kept
  <2>1. /\ queue' \in Seq(Entry) /\ DOMAIN queue' = DOMAIN queue \cup {Len(queue) + 1}
        /\ queue'[Len(queue) + 1] = c
        /\ \A j \in DOMAIN queue : queue'[j] = queue[j] /\ j \in Nat /\ j < Len(queue) + 1
        /\ Len(queue) \in Nat
    BY <1>6, <1>9, AppendIs
  <2>2. \A j \in DOMAIN queue' : WellFormed(queue'[j], log)
    BY <1>3, <2>1 DEF TopologyInv, AllWellFormed
  <2>3. OfferedOnce(queue', committed, offeredTopologyCheckpointSyncIds)
    <3>1. ~IsSync(c) BY <1>5 DEF IsSync
    <3>2. OfferedOnce(queue, committed, offeredTopologyCheckpointSyncIds) BY DEF TopologyInv
    <3> QED BY <1>6, <1>9, <3>1, <3>2, OnceAppends
  <2>4. /\ refused' \in 0 .. MaxGaps /\ refused <= refused'
        /\ gaps + Cardinality(GapsIn(queue')) <= refused'
    <3>1. Cardinality(GapsIn(queue')) = Cardinality(GapsIn(queue)) + 0 /\ Cardinality(GapsIn(queue)) \in Nat
      BY <1>5, <1>6, <1>9, GapsAppend
    <3>2. QueueIsKept(queue, offeredTopologyCheckpointSyncIds, refused) BY QueueUnchanged
    <3> QED BY <1>9, <3>1, <3>2 DEF QueueIsKept
  <2>5. /\ \A n \in Heard(committed, queue, stagedSync, m.page) : n < m.sequence
        /\ \A j \in DOMAIN queue : IsCapture(queue[j], m.page) => queue[j].sequence < m.sequence
        /\ \A j \in DOMAIN wire : i < j /\ IsCaptured(wire[j], m.page) => m.sequence < wire[j].sequence
    BY <1>2, <1>1 DEF TopologyInv, WireInSequence
  <2>6. QueueInSequence(queue', committed, stagedSync)
    <3>1. ASSUME NEW j \in DOMAIN queue', queue'[j].kind = "capture"
          PROVE  /\ \A n \in Heard(committed, queue', stagedSync, queue'[j].page) : n < queue'[j].sequence
                 /\ \A k \in DOMAIN queue' : j < k /\ IsCapture(queue'[k], queue'[j].page) =>
                      queue'[j].sequence < queue'[k].sequence
      <4>1. CASE j \in DOMAIN queue
        <5>1. queue'[j] = queue[j] /\ queue[j].kind = "capture" /\ IsCapture(queue[j], queue[j].page)
          BY <2>1, <3>1, <4>1 DEF IsCapture
        <5>2. /\ \A n \in Heard(committed, queue, stagedSync, queue[j].page) : n < queue[j].sequence
              /\ \A k \in DOMAIN queue : j < k /\ IsCapture(queue[k], queue[j].page) =>
                   queue[j].sequence < queue[k].sequence
          BY <4>1, <5>1 DEF TopologyInv, QueueInSequence
        <5>3. IsCapture(c, queue[j].page) => queue[j].sequence < c.sequence
          BY <1>5, <2>5, <4>1, <5>1 DEF IsCapture
        <5> QED BY <1>7, <2>1, <5>1, <5>2, <5>3
      <4>2. CASE j = Len(queue) + 1 BY <1>5, <1>7, <2>5, <2>1, <4>2
      <4> QED BY <2>1, <4>1, <4>2
    <3> QED BY <3>1 DEF QueueInSequence
  <2>7. WireInSequence(wire', queue', committed, stagedSync)
    <3>1. ASSUME NEW j \in DOMAIN wire', wire'[j].type = "capture"
          PROVE  \E k \in DOMAIN wire : /\ wire'[j] = wire[k]
                                        /\ k = (IF j < i THEN j ELSE j + 1)
                                        /\ IsCaptured(wire[k], m.page) => i < k
      <4>1. PICK k \in DOMAIN wire : k = (IF j < i THEN j ELSE j + 1) /\ wire'[j] = wire[k] /\ j \in Nat
        BY WireAfter
      <4>2. k < i => k \in 1 .. i - 1 /\ i # 1 BY <1>1, <4>1
      <4>3. k < i => wire[k].type # "capture" BY <1>2, <4>2 DEF Receive, Deliverable
      <4>4. k # i BY <4>1
      <4> QED BY <3>1, <4>1, <4>3, <4>4
    <3>2. ASSUME NEW j \in DOMAIN wire', wire'[j].type = "capture"
          PROVE  /\ \A n \in Heard(committed, queue', stagedSync, wire'[j].page) : n < wire'[j].sequence
                 /\ \A k \in DOMAIN queue' : IsCapture(queue'[k], wire'[j].page) =>
                      queue'[k].sequence < wire'[j].sequence
                 /\ \A k \in DOMAIN wire' : j < k /\ IsCaptured(wire'[k], wire'[j].page) =>
                      wire'[j].sequence < wire'[k].sequence
      <4>1. PICK l \in DOMAIN wire : /\ wire'[j] = wire[l] /\ l = (IF j < i THEN j ELSE j + 1)
                                     /\ IsCaptured(wire[l], m.page) => i < l
        BY <3>1, <3>2
      <4>2. /\ \A n \in Heard(committed, queue, stagedSync, wire[l].page) : n < wire[l].sequence
            /\ \A k \in DOMAIN queue : IsCapture(queue[k], wire[l].page) => queue[k].sequence < wire[l].sequence
            /\ \A k \in DOMAIN wire : l < k /\ IsCaptured(wire[k], wire[l].page) =>
                 wire[l].sequence < wire[k].sequence
        BY <3>2, <4>1 DEF TopologyInv, WireInSequence
      <4>3. IsCapture(c, wire[l].page) => c.sequence < wire[l].sequence
        BY <1>5, <2>5, <3>2, <4>1 DEF IsCapture, IsCaptured
      <4>4. \A k \in DOMAIN queue' : IsCapture(queue'[k], wire[l].page) => queue'[k].sequence < wire[l].sequence
        BY <2>1, <4>2, <4>3
      <4>5. ASSUME NEW k \in DOMAIN wire', j < k, IsCaptured(wire'[k], wire[l].page)
            PROVE  wire[l].sequence < wire'[k].sequence
        <5>1. PICK l2 \in DOMAIN wire : wire'[k] = wire[l2] /\ l2 = (IF k < i THEN k ELSE k + 1)
          BY <3>1, <4>5 DEF IsCaptured
        <5>2. j \in Nat /\ k \in Nat BY WireAfter
        <5>3. l < l2 BY <4>1, <4>5, <5>1, <5>2
        <5> QED BY <4>2, <4>5, <5>1, <5>3
      <4> QED BY <1>7, <4>1, <4>2, <4>4, <4>5
    <3> QED BY <3>2 DEF WireInSequence
  <2> QED BY <2>1, <2>2, <2>3, <2>4, <2>6, <2>7
<1>10. Kept BY <1>4, <1>8, <1>9
<1>11. TopologyTypeOK'
  <2>1. gaps' \in 0 .. refused'
    <3>1. gaps \in 0 .. refused /\ refused \in 0 .. MaxGaps BY DEF TopologyInv, TopologyTypeOK
    <3> QED BY <1>2, <1>10, <3>1, TopologySyncAssumption
  <2> QED BY <1>1, <1>2, <1>10, <2>1 DEF TopologyInv, TopologyTypeOK
<1>12. AllWellFormed' BY <1>1, <1>2, <1>10 DEF TopologyInv, AllWellFormed
<1>13. GapsAgree' BY <1>2, <1>10 DEF TopologyInv, GapsAgree
<1> QED BY <1>1, <1>2, <1>10, <1>11, <1>12, <1>13 DEF TopologyInv, RequestsAgree, BasisRests
-----------------------------------------------------------------------------
(* The history decides *)

\* The entry that is decided, and those behind it.
LEMMA DecidedEntry ==
  ASSUME TopologyInv, Decide
  PROVE  /\ queue \in Seq(Entry) /\ queue # <<>> /\ queue' = Tail(queue) /\ queue' \in Seq(Entry)
         /\ Head(queue) = queue[1] /\ 1 \in DOMAIN queue /\ Head(queue) \in Entry /\ WellFormed(Head(queue), log)
         /\ \A i \in DOMAIN queue' : /\ i \in Nat /\ i >= 1 /\ i + 1 \in DOMAIN queue /\ queue'[i] = queue[i + 1]
                                     /\ WellFormed(queue'[i], log)
         /\ \E g : QueueSelects(g, queue', queue)
         /\ \E h : WireSelects(h, wire, wire)
         /\ gaps \in Nat /\ refused \in 0 .. MaxGaps /\ MaxGaps \in Nat /\ Cardinality(GapsIn(queue')) \in Nat
         /\ gaps + Cardinality(GapsIn(queue')) + (IF Head(queue).kind = "gap" THEN 1 ELSE 0) <= refused
         /\ UNCHANGED <<page, log, registered, requests, wire, breaks, refused>>
<1>1. /\ queue \in Seq(Entry) /\ queue # <<>> /\ queue' = Tail(queue)
      /\ UNCHANGED <<page, log, registered, requests, wire, breaks, refused>>
  BY DEF TopologyInv, TopologyTypeOK, Decide, pageVars, bridgeVars
<1>2. /\ queue' \in Seq(Entry) /\ Head(queue) = queue[1] /\ queue[1] \in Entry /\ 1 \in DOMAIN queue
      /\ \A i \in DOMAIN queue' : i \in Nat /\ i >= 1 /\ i + 1 \in DOMAIN queue /\ queue'[i] = queue[i + 1]
  BY <1>1, TailIs
<1>3. \A i \in DOMAIN queue : WellFormed(queue[i], log) BY DEF TopologyInv, AllWellFormed
<1>4. \E g : QueueSelects(g, queue', queue) BY <1>1, QueueDrops
<1>5. \E h : WireSelects(h, wire, wire) BY WireKeeps
<1>6. /\ gaps \in Nat /\ refused \in 0 .. MaxGaps /\ MaxGaps \in Nat
      /\ gaps + Cardinality(GapsIn(queue)) <= refused
  BY TopologySyncAssumption DEF TopologyInv, GapsAgree, TopologyTypeOK
<1>7. /\ Cardinality(GapsIn(queue)) \in Nat /\ Cardinality(GapsIn(queue')) \in Nat
      /\ Cardinality(GapsIn(queue')) + (IF Head(queue).kind = "gap" THEN 1 ELSE 0) <= Cardinality(GapsIn(queue))
  <2>1. Head(queue) \in Entry BY <1>2
  <2>2. Cardinality(GapsIn(queue)) \in Nat /\ Cardinality(GapsIn(queue')) \in Nat
    BY <1>1, <1>2, <2>1, GapsAppend
  <2> QED BY <1>1, <2>2, GapsDrop
<1>8. gaps + Cardinality(GapsIn(queue')) + (IF Head(queue).kind = "gap" THEN 1 ELSE 0) <= refused
  <2> DEFINE k == IF Head(queue).kind = "gap" THEN 1 ELSE 0
  <2>1. k \in Nat /\ Cardinality(GapsIn(queue')) + k <= Cardinality(GapsIn(queue)) /\ refused \in Nat
    BY <1>6, <1>7
  <2> HIDE DEF k
  <2>2. gaps + Cardinality(GapsIn(queue')) + k <= refused BY <1>6, <1>7, <2>1
  <2> QED BY <2>2 DEF k
<1> QED BY <1>1, <1>2, <1>3, <1>4, <1>5, <1>6, <1>7, <1>8

\* Committed Evidence keeps the projection true to what is committed.
LEMMA CommittedShows ==
  ASSUME TopologyInv, Decide, IsEvidence(Head(queue)) PROVE LET x == Head(queue)
             D == Append(committed, x)
         IN  /\ Ingested(x) \in ProjectionType /\ OnLatestPage(Ingested(x), D) /\ Shows(Ingested(x), D, log)
             /\ D \in Seq(Entry) /\ \A i \in DOMAIN D : WellFormed(D[i], log) /\ IsEvidence(D[i])
             /\ \A i \in DOMAIN committed : i \in DOMAIN D /\ D[i] = committed[i]
             /\ Len(committed) + 1 \in DOMAIN D /\ D[Len(committed) + 1] = x
             /\ \A o : offeredTopologyCheckpointSyncIds \subseteq o => OfferedOnce(queue', D, o)
             /\ \A p : ObservedIn(D, p) = ObservedIn(committed, p) \cup (IF x.page = p THEN Observed(x) ELSE {})
<1> DEFINE x == Head(queue)
           D == Append(committed, x)
<1>1. /\ queue \in Seq(Entry) /\ queue # <<>> /\ queue' = Tail(queue) /\ x = queue[1] /\ 1 \in DOMAIN queue
      /\ x \in Entry /\ WellFormed(x, log)
  BY DecidedEntry
<1>2. /\ projection \in ProjectionType /\ committed \in Seq(Entry) /\ log \in [Pages -> Seq(Entities)]
      /\ OnLatestPage(projection, committed) /\ (committed # <<>> => Shows(projection, committed, log))
      /\ \A i \in DOMAIN committed : WellFormed(committed[i], log) /\ IsEvidence(committed[i])
  BY DEF TopologyInv, TopologyTypeOK, ProjectionType, AllWellFormed
<1>3. x.kind = "capture" => \A n \in ObservedIn(committed, x.page) : n \in Nat /\ n < x.sequence
  <2>1. SUFFICES ASSUME x.kind = "capture" PROVE \A n \in ObservedIn(committed, x.page) : n \in Nat /\ n < x.sequence
    OBVIOUS
  <2>2. \A n \in Heard(committed, queue, stagedSync, x.page) : n < x.sequence
    BY <1>1, <2>1 DEF TopologyInv, QueueInSequence
  <2>3. x.page \in Pages BY <1>1 DEF WellFormed
  <2>4. \A n \in Heard(committed, queue, stagedSync, x.page) : n \in Nat
    BY <1>2, <2>3, HeardIsCaptured DEF TopologyInv
  <2> QED BY <2>2, <2>4 DEF Heard
<1>4. x.kind = "checkpoint" =>
        \A i \in DOMAIN committed : IsCheckpoint(committed[i], x.page) => committed[i].sequence # x.sequence
  <2>1. SUFFICES ASSUME x.kind = "checkpoint", NEW i \in DOMAIN committed, IsCheckpoint(committed[i], x.page)
                 PROVE  committed[i].sequence # x.sequence
    OBVIOUS
  <2>2. SyncOf(committed[i]) # SyncOf(x)
    BY <1>1, <2>1 DEF TopologyInv, OfferedOnce, IsSync, IsCheckpoint
  <2> QED BY <2>1, <2>2 DEF SyncOf, IsCheckpoint
<1> HIDE DEF x
<1>5. Ingested(x) \in ProjectionType /\ OnLatestPage(Ingested(x), D) /\ Shows(Ingested(x), D, log)
  BY <1>1, <1>2, <1>3, <1>4, IngestedShows DEF x
<1>6. /\ D \in Seq(Entry) /\ DOMAIN D = DOMAIN committed \cup {Len(committed) + 1} /\ D[Len(committed) + 1] = x
      /\ \A i \in DOMAIN committed : D[i] = committed[i]
  BY <1>1, <1>2, AppendIs
<1>7. \A i \in DOMAIN D : WellFormed(D[i], log) /\ IsEvidence(D[i]) BY <1>1, <1>2, <1>6 DEF x
<1>8. ASSUME NEW o, offeredTopologyCheckpointSyncIds \subseteq o PROVE OfferedOnce(queue', D, o)
  BY <1>1, <1>2, <1>8, OnceCommits DEF TopologyInv, x
<1>9. \A p : ObservedIn(D, p) = ObservedIn(committed, p) \cup (IF x.page = p THEN Observed(x) ELSE {})
  BY <1>1, <1>2, AppendObserves
<1> QED BY <1>5, <1>6, <1>7, <1>8, <1>9 DEF x

\* What is heard of after a commit was waiting, or is the capture that is committed.
LEMMA CommittedHeard ==
  ASSUME TopologyInv, Decide, IsEvidence(Head(queue)), NEW p, NEW n, NEW st,
         n \in Heard(Append(committed, Head(queue)), queue', st, p)
  PROVE  \/ n \in Heard(committed, queue, stagedSync, p)
         \/ n \in StagedOf(st, p)
         \/ Head(queue).kind = "capture" /\ Head(queue).page = p /\ n = Head(queue).sequence
<1> DEFINE x == Head(queue)
<1>1. queue \in Seq(Entry) /\ queue # <<>> /\ queue' = Tail(queue) /\ WellFormed(x, log)
  BY DecidedEntry
<1>2. WaitingIn(queue', p) \subseteq WaitingIn(queue, p) /\ (x.page = p => x.observations \subseteq WaitingIn(queue, p))
  BY <1>1, WaitingDrops
<1>3. ObservedIn(Append(committed, x), p) = ObservedIn(committed, p) \cup (IF x.page = p THEN Observed(x) ELSE {})
  BY CommittedShows
<1>4. \/ n \in ObservedIn(committed, p) \/ (x.page = p /\ n \in Observed(x))
      \/ n \in WaitingIn(queue, p) \/ n \in StagedOf(st, p)
  BY <1>2, <1>3 DEF Heard
<1>5. x.page = p /\ n \in Observed(x) =>
        n \in WaitingIn(queue, p) \/ (x.kind = "capture" /\ x.page = p /\ n = x.sequence)
  BY <1>2 DEF Observed
<1> QED BY <1>4, <1>5 DEF Heard

\* The order of captures after a commit.
LEMMA CommittedInSequence ==
  ASSUME TopologyInv, Decide, IsEvidence(Head(queue)), NEW st,
         \A p : \A n \in StagedOf(st, p) :
           \/ n \in StagedOf(stagedSync, p)
           \/ Head(queue).kind = "capture" /\ Head(queue).page = p /\ n = Head(queue).sequence
  PROVE  LET D == Append(committed, Head(queue))
         IN  QueueInSequence(queue', D, st) /\ WireInSequence(wire, queue', D, st)
<1> DEFINE x == Head(queue)
           D == Append(committed, x)
<1>1. /\ queue \in Seq(Entry) /\ queue # <<>> /\ queue' = Tail(queue) /\ x = queue[1] /\ 1 \in DOMAIN queue
      /\ \A i \in DOMAIN queue' : i \in Nat /\ i >= 1 /\ i + 1 \in DOMAIN queue /\ queue'[i] = queue[i + 1]
  BY DecidedEntry
<1> HIDE DEF x
<1>2. ASSUME NEW p, NEW n \in Heard(D, queue', st, p)
      PROVE  \/ n \in Heard(committed, queue, stagedSync, p)
             \/ x.kind = "capture" /\ x.page = p /\ n = x.sequence
  BY <1>2, CommittedHeard DEF Heard, x
<1>3. QueueInSequence(queue, committed, stagedSync) /\ WireInSequence(wire, queue, committed, stagedSync)
  BY DEF TopologyInv
<1>4. ASSUME NEW i \in DOMAIN queue', queue'[i].kind = "capture"
      PROVE  /\ \A n \in Heard(D, queue', st, queue'[i].page) : n < queue'[i].sequence
             /\ \A j \in DOMAIN queue' : i < j /\ IsCapture(queue'[j], queue'[i].page) =>
                  queue'[i].sequence < queue'[j].sequence
  <2> DEFINE y == queue'[i]
  <2>1. y = queue[i + 1] /\ i + 1 \in DOMAIN queue /\ 1 < i + 1 /\ IsCapture(y, y.page) /\ y.kind = "capture"
    BY <1>1, <1>4 DEF IsCapture
  <2> HIDE DEF y
  <2>2. \A n \in Heard(committed, queue, stagedSync, y.page) : n < y.sequence
    BY <1>3, <2>1 DEF QueueInSequence
  <2>3. x.kind = "capture" /\ x.page = y.page => x.sequence < y.sequence
    BY <1>1, <1>3, <2>1 DEF QueueInSequence
  <2>4. ASSUME NEW j \in DOMAIN queue', i < j, IsCapture(queue'[j], y.page) PROVE y.sequence < queue'[j].sequence
    <3>1. j + 1 \in DOMAIN queue /\ queue'[j] = queue[j + 1] /\ i + 1 < j + 1 BY <1>1, <2>4
    <3> QED BY <1>3, <2>1, <2>4, <3>1 DEF QueueInSequence
  <2>5. \A n \in Heard(D, queue', st, y.page) : n < y.sequence BY <1>2, <2>2, <2>3
  <2> QED BY <2>4, <2>5 DEF y
<1>5. ASSUME NEW i \in DOMAIN wire, wire[i].type = "capture"
      PROVE  /\ \A n \in Heard(D, queue', st, wire[i].page) : n < wire[i].sequence
             /\ \A j \in DOMAIN queue' : IsCapture(queue'[j], wire[i].page) => queue'[j].sequence < wire[i].sequence
             /\ \A j \in DOMAIN wire : i < j /\ IsCaptured(wire[j], wire[i].page) =>
                  wire[i].sequence < wire[j].sequence
  <2>1. /\ \A n \in Heard(committed, queue, stagedSync, wire[i].page) : n < wire[i].sequence
        /\ \A j \in DOMAIN queue : IsCapture(queue[j], wire[i].page) => queue[j].sequence < wire[i].sequence
        /\ \A j \in DOMAIN wire : i < j /\ IsCaptured(wire[j], wire[i].page) => wire[i].sequence < wire[j].sequence
    BY <1>3, <1>5 DEF WireInSequence
  <2>2. x.kind = "capture" /\ x.page = wire[i].page => x.sequence < wire[i].sequence
    BY <1>1, <2>1 DEF IsCapture
  <2> QED BY <1>1, <1>2, <2>1, <2>2
<1>6. QueueInSequence(queue', D, st) BY <1>4 DEF QueueInSequence
<1>7. WireInSequence(wire, queue', D, st) BY <1>5 DEF WireInSequence
<1> QED BY <1>6, <1>7 DEF x

LEMMA CommitCaptureKeeps ==
  ASSUME TopologyInv, Decide, commitCapture, begun' = begun PROVE TopologyInv'
<1> DEFINE x == Head(queue)
           D == Append(committed, x)
<1>1. /\ x.kind = "capture" /\ projection' = Ingested(x) /\ stagedSync' = StagedObservations(x)
      /\ currentPageEpoch' = x.page /\ topologyBasisRecovery' = ObservedBasis(x.page) /\ committed' = D
      /\ UNCHANGED <<clears, evidenceGapGeneration, topologySyncGapGenerations, activeTopologyStagingSyncIds,
                     offeredTopologyCheckpointSyncIds, gaps>>
  BY DEF commitCapture
<1>2. /\ queue' \in Seq(Entry) /\ WellFormed(x, log) /\ IsEvidence(x)
      /\ \A i \in DOMAIN queue' : WellFormed(queue'[i], log)
      /\ gaps \in Nat /\ refused \in 0 .. MaxGaps /\ Cardinality(GapsIn(queue')) \in Nat
      /\ gaps + Cardinality(GapsIn(queue')) <= refused
      /\ UNCHANGED <<page, log, registered, requests, wire, breaks, refused>>
  <2>1. (IF x.kind = "gap" THEN 1 ELSE 0) = 0 BY <1>1
  <2>2. gaps \in Nat /\ Cardinality(GapsIn(queue')) \in Nat
        /\ gaps + Cardinality(GapsIn(queue')) + (IF x.kind = "gap" THEN 1 ELSE 0) <= refused
    BY DecidedEntry
  <2>3. gaps + Cardinality(GapsIn(queue')) <= refused BY <2>1, <2>2
  <2> QED BY <1>1, <2>2, <2>3, DecidedEntry DEF IsEvidence
<1>3. /\ Ingested(x) \in ProjectionType /\ OnLatestPage(Ingested(x), D) /\ Shows(Ingested(x), D, log)
      /\ D \in Seq(Entry) /\ \A i \in DOMAIN D : WellFormed(D[i], log) /\ IsEvidence(D[i])
      /\ \A i \in DOMAIN committed : i \in DOMAIN D /\ D[i] = committed[i]
      /\ OfferedOnce(queue', D, offeredTopologyCheckpointSyncIds)
  BY <1>2, CommittedShows
<1>4. /\ x.page \in Pages /\ x.page \in 0 .. MaxPages /\ x.sequence \in Cutoffs
      /\ x.sequence \in 1 .. Len(log[x.page])
  <2>1. x.page \in Pages /\ x.sequence \in Cutoffs /\ x.sequence > 0 /\ x.sequence <= Len(log[x.page])
    BY <1>1, <1>2 DEF WellFormed, Entry
  <2>2. Len(log[x.page]) \in Nat BY <2>1 DEF TopologyInv, TopologyTypeOK
  <2>3. x.sequence \in Nat BY <2>1, TopologyNumbers
  <2>4. x.page \in 0 .. MaxPages BY <2>1, TopologyNumbers DEF Pages
  <2> HIDE DEF x
  <2> QED BY <2>1, <2>2, <2>3, <2>4
<1> HIDE DEF x, D
<1>5. /\ stagedSync' \in StageType /\ SoundStage(stagedSync', log) /\ stagedSync'.begin = stagedSync.begin
      /\ \A p : \A n \in StagedOf(stagedSync', p) :
           n \in StagedOf(stagedSync, p) \/ (x.kind = "capture" /\ x.page = p /\ n = x.sequence)
  <2>1. stagedSync \in StageType /\ SoundStage(stagedSync, log) /\ (stagedSync.begin = <<>> <=> stagedSync = NoStage)
    BY Registrations
  <2>2. CASE stagedSync' = stagedSync BY <2>1, <2>2
  <2>3. CASE /\ stagedSync # NoStage /\ x.page = stagedSync.begin[1].page
             /\ stagedSync' = [stagedSync EXCEPT !.observations = @ \cup {x.sequence}]
    <3>1. /\ stagedSync' \in StageType /\ stagedSync'.begin = stagedSync.begin
          /\ stagedSync'.observations = stagedSync.observations \cup {x.sequence}
      BY <1>4, <2>1, <2>3 DEF StageType
    <3>2. stagedSync.begin # <<>> BY <2>1, <2>3
    <3>3. SoundStage(stagedSync', log) BY <1>4, <2>1, <2>3, <3>1, <3>2 DEF SoundStage
    <3>4. \A p : \A n \in StagedOf(stagedSync', p) :
            n \in StagedOf(stagedSync, p) \/ (x.kind = "capture" /\ x.page = p /\ n = x.sequence)
      BY <1>1, <2>3, <3>1 DEF StagedOf, x
    <3> QED BY <3>1, <3>3, <3>4
  <2> QED BY <1>1, <2>2, <2>3 DEF StagedObservations
<1>6. QueueInSequence(queue', D, stagedSync') /\ WireInSequence(wire, queue', D, stagedSync')
  BY <1>2, <1>5, CommittedInSequence DEF x, D
<1>7. \/ topologyBasisRecovery' = NoSync
      \/ topologyBasisRecovery' = topologyBasisRecovery /\ topologyBasisRecovery[1] = x.page
  BY <1>1 DEF ObservedBasis
<1>8. TopologyTypeOK'
  BY <1>1, <1>2, <1>3, <1>4, <1>5, <1>7 DEF TopologyInv, TopologyTypeOK, StageType,
     ProjectionType
<1>9. AllWellFormed' BY <1>1, <1>2, <1>3, <1>5 DEF TopologyInv, AllWellFormed
<1>10. GapsAgree' BY <1>1, <1>2, <1>5 DEF TopologyInv, GapsAgree
<1>11. BasisRests'
  <2>1. SUFFICES ASSUME topologyBasisRecovery' # NoSync PROVE BasisRests' BY DEF BasisRests
  <2>2. topologyBasisRecovery' = topologyBasisRecovery /\ topologyBasisRecovery[1] = x.page
    BY <1>7, <2>1
  <2> QED BY <1>1, <1>3, <2>1, <2>2 DEF TopologyInv, BasisRests
<1> QED BY <1>1, <1>2, <1>3, <1>6, <1>8, <1>9, <1>10, <1>11 DEF TopologyInv, RequestsAgree

\* A checkpoint whose synchronization began after the latest gap restores the basis.
LEMMA CommitCheckpointKeeps ==
  ASSUME TopologyInv, Decide, commitCheckpoint, begun' = begun PROVE TopologyInv'
<1> DEFINE x == Head(queue)
           D == Append(committed, x)
           sync == <<x.page, x.sequence>>
           o == offeredTopologyCheckpointSyncIds \cup {sync}
<1>1. /\ x.kind = "checkpoint" /\ projection' = Ingested(x) /\ committed' = D
      /\ offeredTopologyCheckpointSyncIds' = o
      /\ UNCHANGED <<clears, stagedSync, currentPageEpoch, evidenceGapGeneration, activeTopologyStagingSyncIds, gaps>>
  BY DEF commitCheckpoint
<1>2. /\ \/ topologySyncGapGenerations' = topologySyncGapGenerations
         \/ topologySyncGapGenerations' = [topologySyncGapGenerations EXCEPT ![sync] = NoGeneration]
      /\ \/ topologyBasisRecovery' = topologyBasisRecovery
         \/ topologyBasisRecovery' = sync /\ RestoresBasis(x, topologySyncGapGenerations[sync])
  BY DEF commitCheckpoint
<1>3. /\ queue' \in Seq(Entry) /\ WellFormed(x, log) /\ IsEvidence(x)
      /\ \A i \in DOMAIN queue' : WellFormed(queue'[i], log)
      /\ gaps \in Nat /\ refused \in 0 .. MaxGaps /\ Cardinality(GapsIn(queue')) \in Nat
      /\ gaps + Cardinality(GapsIn(queue')) <= refused
      /\ UNCHANGED <<page, log, registered, requests, wire, breaks, refused>>
  <2>1. (IF x.kind = "gap" THEN 1 ELSE 0) = 0 BY <1>1
  <2>2. gaps \in Nat /\ Cardinality(GapsIn(queue')) \in Nat
        /\ gaps + Cardinality(GapsIn(queue')) + (IF x.kind = "gap" THEN 1 ELSE 0) <= refused
    BY DecidedEntry
  <2>3. gaps + Cardinality(GapsIn(queue')) <= refused BY <2>1, <2>2
  <2> QED BY <1>1, <2>2, <2>3, DecidedEntry DEF IsEvidence
<1>4. /\ Ingested(x) \in ProjectionType /\ OnLatestPage(Ingested(x), D) /\ Shows(Ingested(x), D, log)
      /\ D \in Seq(Entry) /\ \A i \in DOMAIN D : WellFormed(D[i], log) /\ IsEvidence(D[i])
      /\ \A i \in DOMAIN committed : i \in DOMAIN D /\ D[i] = committed[i]
      /\ Len(committed) + 1 \in DOMAIN D /\ D[Len(committed) + 1] = x
      /\ OfferedOnce(queue', D, o)
  <2>1. offeredTopologyCheckpointSyncIds \subseteq o OBVIOUS
  <2> HIDE DEF o
  <2> QED BY <1>3, <2>1, CommittedShows
<1>5. x.page \in Pages /\ x.sequence \in Cutoffs /\ sync \in Syncs
  BY <1>3 DEF WellFormed, Entry, Syncs
<1>6. QueueInSequence(queue', D, stagedSync) /\ WireInSequence(wire, queue', D, stagedSync)
  BY <1>3, CommittedInSequence
<1> HIDE DEF x, D
<1>7. /\ topologySyncGapGenerations' \in [Syncs -> {NoGeneration} \cup 0 .. MaxGaps]
      /\ \A s \in Syncs : topologySyncGapGenerations'[s] <= begun[s] /\ begun[s] <= gaps
      /\ o \subseteq Syncs
  <2>1. topologySyncGapGenerations' \in [Syncs -> {NoGeneration} \cup 0 .. MaxGaps]
    <3> HIDE DEF sync
    <3> QED BY <1>2, <1>5, Registrations
  <2>2. ASSUME NEW s \in Syncs PROVE topologySyncGapGenerations'[s] <= begun[s] /\ begun[s] <= gaps
    <3>1. topologySyncGapGenerations'[s] = topologySyncGapGenerations[s]
          \/ topologySyncGapGenerations'[s] = NoGeneration
      <4> HIDE DEF sync
      <4> QED BY <1>2, <1>5, Registrations
    <3>2. topologySyncGapGenerations[s] <= begun[s] /\ begun[s] <= gaps /\ begun[s] \in {NoGeneration} \cup 0 .. MaxGaps
      BY Registrations
    <3>3. NoGeneration <= begun[s] BY <3>2 DEF NoGeneration
    <3> QED BY <3>1, <3>2, <3>3
  <2>3. o \subseteq Syncs BY <1>5, Registrations
  <2> QED BY <2>1, <2>2, <2>3
<1>8. TopologyTypeOK'
  <2>1. topologyBasisRecovery' \in Syncs \cup {NoSync}
    <3>1. topologyBasisRecovery \in Syncs \cup {NoSync} BY DEF TopologyInv, TopologyTypeOK
    <3> HIDE DEF sync
    <3> QED BY <1>2, <1>5, <3>1
  <2> HIDE DEF sync, o
  <2> QED BY <1>1, <1>3, <1>4, <1>5, <1>7, <2>1 DEF TopologyInv, TopologyTypeOK, ProjectionType
<1>9. AllWellFormed' BY <1>1, <1>3, <1>4 DEF TopologyInv, AllWellFormed
<1>10. GapsAgree'
  <2> HIDE DEF sync, o
  <2> QED BY <1>1, <1>3, <1>7 DEF TopologyInv, GapsAgree
<1>11. BasisRests'
  <2>1. CASE topologyBasisRecovery' = topologyBasisRecovery
    BY <1>1, <1>4, <2>1 DEF TopologyInv, BasisRests
  <2>2. CASE topologyBasisRecovery' = sync /\ RestoresBasis(x, topologySyncGapGenerations[sync])
    <3>1. /\ x.coverage = "complete" /\ topologySyncGapGenerations[sync] = evidenceGapGeneration
          /\ currentPageEpoch = x.page
      BY <2>2 DEF RestoresBasis
    <3>2. begun[sync] = gaps
      <4>1. topologySyncGapGenerations[sync] = gaps /\ topologySyncGapGenerations[sync] <= begun[sync]
            /\ begun[sync] <= gaps /\ begun[sync] \in {NoGeneration} \cup 0 .. MaxGaps /\ gaps \in Nat
        <5> HIDE DEF sync
        <5> QED BY <1>5, <3>1, Registrations
      <4>2. begun[sync] \in Int BY <4>1 DEF NoGeneration
      <4> QED BY <4>1, <4>2
    <3>3. /\ IsCheckpoint(D[Len(committed) + 1], x.page) /\ D[Len(committed) + 1].sequence = x.sequence
          /\ D[Len(committed) + 1].coverage = "complete" /\ Len(committed) + 1 \in DOMAIN D
      BY <1>1, <1>4, <3>1 DEF IsCheckpoint
    <3>4. topologyBasisRecovery'[1] = x.page /\ topologyBasisRecovery'[2] = x.sequence BY <2>2
    <3> QED BY <1>1, <2>2, <3>1, <3>2, <3>3, <3>4 DEF BasisRests
  <2> QED BY <1>2, <2>1, <2>2
<1> QED BY <1>1, <1>3, <1>4, <1>6, <1>8, <1>9, <1>10, <1>11 DEF TopologyInv, RequestsAgree

\* After a gap no basis is claimed, and every synchronization that began is older.
LEMMA PublishGapKeeps ==
  ASSUME TopologyInv, Decide, publishGap, begun' = begun PROVE TopologyInv'
<1> DEFINE x == Head(queue)
           sync == <<x.page, x.sequence>>
           o == offeredTopologyCheckpointSyncIds \ {sync}
<1>1. /\ x.kind = "gap" /\ gaps' = gaps + 1 /\ evidenceGapGeneration' = evidenceGapGeneration + 1
      /\ topologyBasisRecovery' = NoSync /\ offeredTopologyCheckpointSyncIds' = o
      /\ topologySyncGapGenerations' =
           IF x.page = 0 THEN topologySyncGapGenerations
           ELSE [topologySyncGapGenerations EXCEPT ![sync] = NoGeneration]
      /\ UNCHANGED <<committed, clears, stagedSync, projection, currentPageEpoch, activeTopologyStagingSyncIds>>
  BY DEF publishGap
<1>2. /\ queue \in Seq(Entry) /\ queue # <<>> /\ queue' = Tail(queue) /\ queue' \in Seq(Entry) /\ x \in Entry
      /\ \A i \in DOMAIN queue' : WellFormed(queue'[i], log)
      /\ gaps \in Nat /\ refused \in 0 .. MaxGaps /\ MaxGaps \in Nat /\ Cardinality(GapsIn(queue')) \in Nat
      /\ gaps' + Cardinality(GapsIn(queue')) <= refused
      /\ UNCHANGED <<page, log, registered, requests, wire, breaks, refused>>
  <2>1. (IF x.kind = "gap" THEN 1 ELSE 0) = 1 BY <1>1
  <2>2. /\ gaps \in Nat /\ Cardinality(GapsIn(queue')) \in Nat /\ refused \in 0 .. MaxGaps /\ MaxGaps \in Nat
        /\ gaps + Cardinality(GapsIn(queue')) + (IF x.kind = "gap" THEN 1 ELSE 0) <= refused
    BY DecidedEntry
  <2>3. gaps + Cardinality(GapsIn(queue')) + 1 <= refused BY <2>1, <2>2
  <2>4. gaps' + Cardinality(GapsIn(queue')) <= refused BY <1>1, <2>2, <2>3
  <2> QED BY <2>2, <2>4, DecidedEntry
<1>3. OfferedOnce(queue', committed, o)
  <2>1. \A t \in offeredTopologyCheckpointSyncIds : t \in o \/ (IsSync(x) /\ t = SyncOf(x))
    <3>1. TAKE t \in offeredTopologyCheckpointSyncIds
    <3>2. t \in Syncs BY Registrations
    <3>3. t = sync => x.page # 0 BY <3>2, TopologyNumbers DEF Syncs
    <3> QED BY <1>1, <3>3 DEF IsSync, SyncOf
  <2> HIDE DEF o
  <2>2. OfferedOnce(queue, committed, offeredTopologyCheckpointSyncIds) BY DEF TopologyInv
  <2> QED BY <1>2, <2>1, <2>2, OnceDrops
<1> HIDE DEF x
<1>4. /\ topologySyncGapGenerations' \in [Syncs -> {NoGeneration} \cup 0 .. MaxGaps]
      /\ \A s \in Syncs : topologySyncGapGenerations'[s] <= begun[s] /\ begun[s] <= gaps'
      /\ o \subseteq Syncs
  <2>1. topologySyncGapGenerations' \in [Syncs -> {NoGeneration} \cup 0 .. MaxGaps]
    <3> HIDE DEF sync
    <3> QED BY <1>1, Registrations
  <2>2. ASSUME NEW s \in Syncs PROVE topologySyncGapGenerations'[s] <= begun[s] /\ begun[s] <= gaps'
    <3>1. topologySyncGapGenerations'[s] = topologySyncGapGenerations[s]
          \/ topologySyncGapGenerations'[s] = NoGeneration
      <4> HIDE DEF sync
      <4> QED BY <1>1, Registrations
    <3>2. topologySyncGapGenerations[s] <= begun[s] /\ begun[s] <= gaps /\ begun[s] \in {NoGeneration} \cup 0 .. MaxGaps
      BY Registrations
    <3>3. NoGeneration <= begun[s] /\ begun[s] \in Int BY <3>2 DEF NoGeneration
    <3> QED BY <1>1, <1>2, <3>1, <3>2, <3>3
  <2>3. o \subseteq Syncs BY Registrations
  <2> QED BY <2>1, <2>2, <2>3
<1>5. QueueInSequence(queue', committed, stagedSync) /\ WireInSequence(wire, queue', committed, stagedSync)
  <2>1. PICK g : QueueSelects(g, queue', queue) BY DecidedEntry
  <2>2. PICK h : WireSelects(h, wire, wire) BY DecidedEntry
  <2>3. QueueInSequence(queue, committed, stagedSync) /\ WireInSequence(wire, queue, committed, stagedSync)
    BY DEF TopologyInv
  <2>4. \A p : Heard(committed, queue', stagedSync, p) \subseteq Heard(committed, queue, stagedSync, p)
    <3>1. TAKE p
    <3>2. WaitingIn(queue', p) \subseteq WaitingIn(queue, p) BY <1>2, WaitingDrops
    <3> QED BY <3>2 DEF Heard
  <2>5. QueueInSequence(queue', committed, stagedSync) BY <2>1, <2>3, <2>4, QueueStaysInSequence
  <2>6. WireInSequence(wire, queue', committed, stagedSync)
    BY <2>1, <2>2, <2>3, <2>4, WireStaysInSequence
  <2> QED BY <2>5, <2>6
<1>6. TopologyTypeOK'
  <2>1. gaps' \in 0 .. refused' /\ evidenceGapGeneration' \in 0 .. MaxGaps
    BY <1>1, <1>2, Registrations
  <2> HIDE DEF sync, o
  <2> QED BY <1>1, <1>2, <1>4, <2>1 DEF TopologyInv, TopologyTypeOK
<1>7. AllWellFormed' BY <1>1, <1>2 DEF TopologyInv, AllWellFormed
<1>8. GapsAgree'
  <2> HIDE DEF sync, o
  <2> QED BY <1>1, <1>2, <1>4 DEF TopologyInv, GapsAgree
<1>9. BasisRests' BY <1>1 DEF BasisRests
<1> QED BY <1>1, <1>2, <1>3, <1>5, <1>6, <1>7, <1>8, <1>9 DEF TopologyInv, RequestsAgree

\* A Clear forgets what was committed and staged; what is offered later still waits.
LEMMA ClearKeeps ==
  ASSUME TopologyInv, Decide, clearInterval PROVE TopologyInv'
<1>1. /\ Head(queue).kind = "clear" /\ committed' = <<>> /\ stagedSync' = NoStage /\ projection' = NoProjection
      /\ evidenceGapGeneration' = 0 /\ topologyBasisRecovery' = NoSync
      /\ topologySyncGapGenerations' = [s \in Syncs |-> NoGeneration]
      /\ gaps' = 0 /\ begun' = [s \in Syncs |-> NoGeneration]
      /\ UNCHANGED <<clears, currentPageEpoch, activeTopologyStagingSyncIds, offeredTopologyCheckpointSyncIds>>
  BY DEF clearInterval
<1>2. /\ queue \in Seq(Entry) /\ queue # <<>> /\ queue' = Tail(queue) /\ queue' \in Seq(Entry)
      /\ \A i \in DOMAIN queue' : WellFormed(queue'[i], log)
      /\ refused \in 0 .. MaxGaps /\ MaxGaps \in Nat /\ Cardinality(GapsIn(queue')) \in Nat
      /\ Cardinality(GapsIn(queue')) <= refused
      /\ UNCHANGED <<page, log, registered, requests, wire, breaks, refused>>
  <2>1. /\ gaps \in Nat /\ Cardinality(GapsIn(queue')) \in Nat /\ refused \in 0 .. MaxGaps /\ MaxGaps \in Nat
        /\ gaps + Cardinality(GapsIn(queue')) + (IF Head(queue).kind = "gap" THEN 1 ELSE 0) <= refused
    BY DecidedEntry
  <2>2. (IF Head(queue).kind = "gap" THEN 1 ELSE 0) = 0 BY <1>1
  <2>3. Cardinality(GapsIn(queue')) <= refused BY <2>1, <2>2
  <2> QED BY <2>1, <2>3, DecidedEntry
<1>3. OfferedOnce(queue', <<>>, offeredTopologyCheckpointSyncIds)
  BY <1>2, OnceDrops DEF TopologyInv, OfferedOnce
<1>4. NoStage \in StageType /\ SoundStage(NoStage, log) /\ NoStage.begin = <<>> /\ NoProjection \in ProjectionType
  BY TopologyNumbers DEF NoStage, StageType, SoundStage, NoProjection, ProjectionType, Nothing
<1>5. QueueInSequence(queue', <<>>, NoStage) /\ WireInSequence(wire, queue', <<>>, NoStage)
  <2>1. PICK g : QueueSelects(g, queue', queue) BY DecidedEntry
  <2>2. PICK h : WireSelects(h, wire, wire) BY DecidedEntry
  <2>3. QueueInSequence(queue, committed, stagedSync) /\ WireInSequence(wire, queue, committed, stagedSync)
    BY DEF TopologyInv
  <2>4. \A p : Heard(<<>>, queue', NoStage, p) \subseteq Heard(committed, queue, stagedSync, p)
    <3>1. TAKE p
    <3>2. WaitingIn(queue', p) \subseteq WaitingIn(queue, p) BY <1>2, WaitingDrops
    <3>3. ObservedIn(<<>>, p) = {} /\ StagedOf(NoStage, p) = {} BY <1>4 DEF ObservedIn, StagedOf
    <3> QED BY <3>2, <3>3 DEF Heard
  <2>5. QueueInSequence(queue', <<>>, NoStage) BY <2>1, <2>3, <2>4, QueueStaysInSequence
  <2>6. WireInSequence(wire, queue', <<>>, NoStage)
    BY <2>1, <2>2, <2>3, <2>4, WireStaysInSequence
  <2> QED BY <2>5, <2>6
<1>6. TopologyTypeOK'
  <2>1. gaps' \in 0 .. refused' /\ evidenceGapGeneration' \in 0 .. MaxGaps BY <1>1, <1>2
  <2>2. /\ topologySyncGapGenerations' \in [Syncs -> {NoGeneration} \cup 0 .. MaxGaps]
        /\ begun' \in [Syncs -> {NoGeneration} \cup 0 .. MaxGaps]
    BY <1>1
  <2>3. committed' \in Seq(Entry) BY <1>1
  <2> QED BY <1>1, <1>2, <1>4, <2>1, <2>2, <2>3 DEF TopologyInv, TopologyTypeOK, StageType, ProjectionType
<1>7. AllWellFormed' BY <1>1, <1>2, <1>4 DEF TopologyInv, AllWellFormed
<1>8. GapsAgree'
  <2>1. gaps' + Cardinality(GapsIn(queue')) <= refused' BY <1>1, <1>2
  <2>2. \A s \in Syncs : topologySyncGapGenerations'[s] <= begun'[s] /\ begun'[s] <= gaps'
    BY <1>1 DEF NoGeneration
  <2> QED BY <1>1, <1>4, <2>1, <2>2 DEF GapsAgree
<1> QED
  BY <1>1, <1>2, <1>3, <1>5, <1>6, <1>7, <1>8 DEF TopologyInv, RequestsAgree, BasisRests, OnLatestPage

\* A Clear waits behind what was offered before.
LEMMA RequestClearKeeps ==
  ASSUME TopologyInv, requestClear PROVE TopologyInv'
<1> DEFINE x == [kind |-> "clear", page |-> 0, sequence |-> 0, coverage |-> "complete", observations |-> {}]
<1>1. /\ clears < MaxClears /\ clears' = clears + 1 /\ queue' = Append(queue, x)
      /\ UNCHANGED <<page, log, registered, requests, wire, breaks, committed, refused, stagedSync, projection,
                     currentPageEpoch, evidenceGapGeneration, topologySyncGapGenerations,
                     activeTopologyStagingSyncIds, offeredTopologyCheckpointSyncIds, topologyBasisRecovery,
                     gaps, begun>>
  BY DEF requestClear, pageVars, bridgeVars, runtimeVars, ghostVars
<1>2. x \in Entry /\ WellFormed(x, log) /\ ~IsSync(x) /\ x.kind = "clear" /\ x.observations = {}
  <2>1. 0 \in 0 .. MaxPages /\ "complete" \in Coverages BY TopologySyncAssumption
  <2>2. x \in Entry BY <2>1, TopologyNumbers DEF Entry
  <2> QED BY <2>2 DEF WellFormed, IsEvidence, IsSync
<1> HIDE DEF x
<1>3. QueueIsKept(queue', offeredTopologyCheckpointSyncIds, refused) BY <1>1, <1>2, QueueTakes
<1>4. \A p : Heard(committed, queue', stagedSync, p) \subseteq Heard(committed, queue, stagedSync, p)
  <2>1. TAKE p
  <2>2. queue \in Seq(Entry) BY Registrations
  <2>3. \A n \in WaitingIn(Append(queue, x), p) : n \in WaitingIn(queue, p) \/ (x.page = p /\ n \in x.observations)
    BY <1>2, <2>2, WaitingAppends
  <2>4. WaitingIn(queue', p) \subseteq WaitingIn(queue, p) BY <1>1, <1>2, <2>3
  <2> QED BY <2>4 DEF Heard
<1>5. QueueInSequence(queue', committed, stagedSync) /\ WireInSequence(wire, queue', committed, stagedSync)
  <2>1. PICK g : QueueSelects(g, queue', queue) BY <1>3 DEF QueueIsKept
  <2>2. PICK h : WireSelects(h, wire, wire) BY WireKeeps
  <2>3. QueueInSequence(queue, committed, stagedSync) /\ WireInSequence(wire, queue, committed, stagedSync)
    BY DEF TopologyInv
  <2>4. QueueInSequence(queue', committed, stagedSync) BY <1>4, <2>1, <2>3, QueueStaysInSequence
  <2>5. WireInSequence(wire, queue', committed, stagedSync)
    BY <1>4, <2>1, <2>2, <2>3, WireStaysInSequence
  <2> QED BY <2>4, <2>5
<1>6. TopologyTypeOK'
  <2>1. clears' \in 0 .. MaxClears
    BY <1>1, TopologySyncAssumption DEF TopologyInv, TopologyTypeOK
  <2> QED BY <1>1, <1>3, <2>1 DEF TopologyInv, TopologyTypeOK, QueueIsKept
<1>7. AllWellFormed' BY <1>1, <1>3 DEF TopologyInv, AllWellFormed, QueueIsKept
<1>8. GapsAgree' BY <1>1, <1>3 DEF TopologyInv, GapsAgree, QueueIsKept
<1> QED BY <1>1, <1>3, <1>5, <1>6, <1>7, <1>8 DEF TopologyInv, RequestsAgree, BasisRests, QueueIsKept

LEMMA TopologyInvHolds == TopologySpec => []TopologyInv
<1>1. TopologyInv /\ [TopologyNext]_topologyVars => TopologyInv'
  <2>1. SUFFICES ASSUME TopologyInv, [TopologyNext]_topologyVars PROVE TopologyInv' OBVIOUS
  <2>2. CASE emit BY <2>1, <2>2, EmitKeeps
  <2>3. CASE emitAbsoluteTopologyCheckpoint BY <2>1, <2>3, EmitCheckpointKeeps
  <2>4. CASE PageReloads \/ registerPanel \/ ConnectionEnds BY <2>1, <2>4, PageAndConnectionKeep
  <2>5. ASSUME NEW i \in 1 .. Len(wire), Receive(i) PROVE TopologyInv'
    BY <2>1, <2>5, IngestKeeps, FrameKeeps DEF Receive
  <2>6. CASE Decide
    BY <2>1, <2>6, CommitCaptureKeeps, CommitCheckpointKeeps, PublishGapKeeps, ClearKeeps DEF
       Decide
  <2>7. CASE requestClear BY <2>1, <2>7, RequestClearKeeps
  <2>8. CASE UNCHANGED topologyVars
    BY <2>1, <2>8 DEF topologyVars, pageVars, bridgeVars, historyVars, runtimeVars, ghostVars, TopologyInv,
       TopologyTypeOK, AllWellFormed, GapsAgree, RequestsAgree, BasisRests
  <2> QED BY <2>1, <2>2, <2>3, <2>4, <2>5, <2>6, <2>7, <2>8 DEF TopologyNext
<1> QED BY <1>1, TopologyInitInv, PTL DEF TopologySpec
-----------------------------------------------------------------------------
(* What the panel shows *)

LEMMA GreatestIs ==
  ASSUME NEW S \in SUBSET Int, NEW x \in S, \A y \in S : x >= y PROVE Max(S) = x
<1>1. \A z \in S : (\A y \in S : z >= y) => z = x OBVIOUS
<1> QED BY <1>1 DEF Max

LEMMA LeastIs ==
  ASSUME NEW S \in SUBSET Nat, S # {} PROVE Min(S) \in S /\ \A y \in S : Min(S) <= y
<1> DEFINE Less == {ss \in Nat \X Nat : ss[1] < ss[2]}
<1>1. IsWellFoundedOn(Less, Nat) BY NatLessThanWellFounded DEF OpToRel
<1>2. PICK x \in S : \A y \in S : <<y, x>> \notin Less
  <2> HIDE DEF Less
  <2> QED BY <1>1, WFMin, Zenon
<1>3. \A y \in S : x <= y
  <2>1. TAKE y \in S
  <2>2. <<y, x>> \notin Less /\ x \in Nat /\ y \in Nat BY <1>2
  <2> QED BY <2>2
<1>4. Min(S) = x BY <1>3, Extremes
<1> QED BY <1>3, <1>4

\* The page of the projection is the one that came last.
LEMMA LatestIs ==
  ASSUME TopologyInv, committed # <<>> PROVE LatestPage = projection.page
<1> DEFINE At(p) == {i \in 1 .. Len(committed) : committed[i].page = p}
           First(p) == Min(At(p))
           Seen == {committed[i].page : i \in 1 .. Len(committed)}
           p == projection.page
<1>1. /\ FollowsPages(projection, committed) /\ \E i \in DOMAIN committed : committed[i].page = p
      /\ committed \in Seq(Entry)
  BY DEF TopologyInv, TopologyTypeOK, OnLatestPage
<1>2. DOMAIN committed = 1 .. Len(committed) BY <1>1
<1>3. \A q \in Seen : /\ First(q) \in At(q) /\ First(q) \in Nat /\ \A i \in At(q) : First(q) <= i
  <2>1. TAKE q \in Seen
  <2>2. At(q) \in SUBSET Nat /\ At(q) # {} BY <2>1
  <2> HIDE DEF At
  <2> QED BY <2>2, LeastIs
<1>4. p \in Seen BY <1>1, <1>2
<1>5. \A q \in Seen : q # p => First(q) < First(p)
  <2>1. SUFFICES ASSUME NEW q \in Seen, q # p PROVE First(q) < First(p) OBVIOUS
  <2>2. q \in projection.retired
    <3>1. PICK i \in 1 .. Len(committed) : committed[i].page = q BY <2>1
    <3>2. i \in DOMAIN committed BY <1>2, <3>1
    <3> QED BY <1>1, <2>1, <3>1, <3>2 DEF FollowsPages
  <2>3. PICK i \in DOMAIN committed : committed[i].page = q /\ \A j \in DOMAIN committed : committed[j].page = p => i < j
    BY <1>1, <2>2 DEF FollowsPages
  <2>4. i \in At(q) /\ i \in Nat BY <1>2, <2>3
  <2>5. First(p) \in DOMAIN committed /\ committed[First(p)].page = p BY <1>2, <1>3, <1>4
  <2> HIDE DEF First, At, Seen
  <2> QED BY <1>3, <1>4, <2>1, <2>3, <2>4, <2>5
<1> HIDE DEF First
<1>6. \A q \in Seen : First(q) <= First(p)
  <2>1. TAKE q \in Seen
  <2>2. CASE q = p BY <1>3, <1>4, <2>2
  <2>3. CASE q # p BY <1>3, <1>4, <1>5, <2>1, <2>3
  <2> QED BY <2>2, <2>3
<1>7. \A q \in Seen : (\A r \in Seen : First(r) <= First(q)) => q = p
  <2>1. SUFFICES ASSUME NEW q \in Seen, \A r \in Seen : First(r) <= First(q), q # p PROVE FALSE
    OBVIOUS
  <2>2. First(p) <= First(q) /\ First(q) < First(p) /\ First(q) \in Nat /\ First(p) \in Nat
    BY <1>3, <1>4, <1>5, <2>1
  <2> QED BY <2>2
<1> DEFINE L == CHOOSE q \in Seen : \A r \in Seen : First(r) <= First(q)
<1>8. L = p
  <2> HIDE DEF Seen
  <2> QED BY <1>4, <1>6, <1>7
<1>9. LatestPage = L BY DEF LatestPage, First
<1> QED BY <1>8, <1>9

\* The topology is true to the committed Evidence.
LEMMA CommittedTopology ==
  ASSUME TopologyInv PROVE TopologyIsCommitted
<1>1. CASE committed = <<>>
  BY <1>1 DEF TopologyInv, OnLatestPage, TopologyIsCommitted, NoProjection
<1>2. CASE committed # <<>>
  <2> DEFINE p == projection.page
             k == projection.acceptedCutoff
             ofPage == {committed[i] : i \in {j \in 1 .. Len(committed) : committed[j].page = p}}
             captures == {c.sequence : c \in {d \in ofPage : d.kind = "capture"}}
             cutoffs == {c.sequence : c \in {d \in ofPage : d.kind = "checkpoint"}}
             latest == {c \in ofPage : c.kind = "checkpoint" /\ c.sequence = k}
             Said(e) == {n \in captures \cup UNION {c.observations : c \in latest} : log[p][n] = e}
                          \cup {RecordsAt(p, c.sequence)[e] : c \in latest}
  <2>1. /\ Shows(projection, committed, log) /\ projection \in ProjectionType /\ committed \in Seq(Entry)
        /\ \A i \in DOMAIN committed : WellFormed(committed[i], log) /\ IsEvidence(committed[i])
        /\ DOMAIN committed = 1 .. Len(committed)
    BY <1>2 DEF TopologyInv, TopologyTypeOK, ProjectionType, AllWellFormed
  <2>2. k \in Cutoffs \cup {NoGeneration} /\ projection.state \in [Entities -> Cutoffs]
    BY <2>1 DEF ProjectionType
  <2>3. /\ \A x \in ofPage : x.page = p /\ \E i \in DOMAIN committed : x = committed[i]
        /\ \A i \in DOMAIN committed : committed[i].page = p => committed[i] \in ofPage
    BY <2>1
  <2> HIDE DEF ofPage
  <2>4. \A x \in ofPage : /\ WellFormed(x, log) /\ IsEvidence(x) /\ x.page = p /\ x.sequence \in Nat
                          /\ x.sequence \in Cutoffs
    <3>1. TAKE x \in ofPage
    <3>2. WellFormed(x, log) /\ IsEvidence(x) /\ x.page = p BY <2>1, <2>3
    <3> QED BY <3>2, TopologyNumbers DEF WellFormed, Entry
  <2>10. k \in Int /\ k >= NoGeneration
    <3>1. CASE k = NoGeneration BY <3>1 DEF NoGeneration
    <3>2. CASE k \in Cutoffs
      <4>1. k \in Nat BY <3>2, TopologyNumbers
      <4> QED BY <4>1 DEF NoGeneration
    <3> QED BY <2>2, <3>1, <3>2
  <2>5. Max({NoGeneration} \cup cutoffs) = k
    <3>1. {NoGeneration} \cup cutoffs \in SUBSET Int BY <2>4 DEF NoGeneration
    <3>2. k \in {NoGeneration} \cup cutoffs
      <4>1. SUFFICES ASSUME k # NoGeneration PROVE k \in cutoffs OBVIOUS
      <4>2. PICK i \in DOMAIN committed : IsCheckpoint(committed[i], p) /\ committed[i].sequence = k
        BY <2>1, <4>1 DEF Shows
      <4>3. committed[i] \in ofPage /\ committed[i].kind = "checkpoint"
        BY <2>3, <4>2 DEF IsCheckpoint
      <4> QED BY <4>2, <4>3
    <3>3. \A y \in {NoGeneration} \cup cutoffs : k >= y
      <4>1. \A y \in cutoffs : k >= y
        <5>1. TAKE y \in cutoffs
        <5>2. PICK x \in ofPage : x.kind = "checkpoint" /\ x.sequence = y BY <5>1
        <5>3. PICK i \in DOMAIN committed : x = committed[i] BY <2>3, <5>2
        <5>4. y <= k BY <2>1, <2>4, <5>2, <5>3 DEF Shows, IsCheckpoint
        <5>5. k \in Int /\ y \in Int BY <2>4, <2>10, <5>2
        <5> QED BY <5>4, <5>5
      <4>2. k >= NoGeneration BY <2>10
      <4> QED BY <4>1, <4>2
    <3> HIDE DEF cutoffs
    <3> QED BY <3>1, <3>2, <3>3, GreatestIs
  <2>6. ASSUME NEW e \in Entities PROVE Said(e) = Says(committed, log, p, k, e)
    <3> DEFINE A == {n \in captures \cup UNION {c.observations : c \in latest} : log[p][n] = e}
               B == {RecordsAt(p, c.sequence)[e] : c \in latest}
               A2 == {n \in UNION {SaidBy(committed[i], k) : i \in {j \in DOMAIN committed : committed[j].page = p}} :
                        log[p][n] = e}
               B2 == {LastOf(log, p, n, e) : n \in {k} \ {NoGeneration}}
    <3>1. A = A2
      <4>1. ASSUME NEW n PROVE n \in captures \cup UNION {c.observations : c \in latest}
                                 <=> \E x \in ofPage : n \in SaidBy(x, k)
        <5>1. \A x \in ofPage : x.kind = "capture" => SaidBy(x, k) = {x.sequence}
          BY <2>4 DEF SaidBy, Observed, WellFormed
        <5>2. \A x \in ofPage : x.kind = "checkpoint" =>
                SaidBy(x, k) = IF x.sequence = k THEN x.observations ELSE {}
          BY DEF SaidBy, Observed
        <5>3. \A x \in ofPage : x.kind = "capture" \/ x.kind = "checkpoint"
          BY <2>4 DEF IsEvidence
        <5>4. n \in captures <=> \E x \in ofPage : x.kind = "capture" /\ n = x.sequence OBVIOUS
        <5>5. n \in UNION {c.observations : c \in latest}
                <=> \E x \in ofPage : x.kind = "checkpoint" /\ x.sequence = k /\ n \in x.observations
          OBVIOUS
        <5> HIDE DEF captures, latest
        <5> QED BY <5>1, <5>2, <5>3, <5>4, <5>5
      <4>2. ASSUME NEW n PROVE (\E x \in ofPage : n \in SaidBy(x, k))
                     <=> n \in UNION {SaidBy(committed[i], k) : i \in {j \in DOMAIN committed : committed[j].page = p}}
        <5>1. (\E x \in ofPage : n \in SaidBy(x, k))
                => \E i \in DOMAIN committed : committed[i].page = p /\ n \in SaidBy(committed[i], k)
          BY <2>3
        <5>2. (\E i \in DOMAIN committed : committed[i].page = p /\ n \in SaidBy(committed[i], k))
                => \E x \in ofPage : n \in SaidBy(x, k)
          BY <2>3
        <5> QED BY <5>1, <5>2
      <4> HIDE DEF captures, latest
      <4> QED BY <4>1, <4>2
    <3>2. B = B2
      <4>1. k # NoGeneration <=> latest # {}
        <5>1. ASSUME k # NoGeneration PROVE latest # {}
          <6>1. PICK i \in DOMAIN committed : IsCheckpoint(committed[i], p) /\ committed[i].sequence = k
            BY <2>1, <5>1 DEF Shows
          <6>2. committed[i] \in latest BY <2>3, <6>1 DEF IsCheckpoint
          <6> QED BY <6>2
        <5>2. ASSUME latest # {} PROVE k # NoGeneration BY <2>4, TopologyNumbers, <5>2
        <5> QED BY <5>1, <5>2
      <4>2. RecordsAt(p, k)[e] = LastOf(log, p, k, e) BY DEF RecordsAt, LastOf
      <4>3. \A c \in latest : c.sequence = k OBVIOUS
      <4> HIDE DEF latest
      <4>4. B = IF latest # {} THEN {RecordsAt(p, k)[e]} ELSE {} BY <4>3
      <4>5. B2 = IF k # NoGeneration THEN {LastOf(log, p, k, e)} ELSE {} OBVIOUS
      <4> QED BY <4>1, <4>2, <4>4, <4>5
    <3>3. Said(e) = A \cup B /\ Says(committed, log, p, k, e) = A2 \cup B2 BY DEF Says
    <3> HIDE DEF A, A2, B, B2, Said
    <3> QED BY <3>1, <3>2, <3>3
  <2>7. ASSUME NEW e \in Entities PROVE projection.state[e] = Max({0} \cup Said(e))
    <3> DEFINE S == {0} \cup Said(e)
    <3>0. Said(e) = Says(committed, log, p, k, e) BY <2>6
    <3> HIDE DEF Said
    <3>1. projection.state[e] \in S /\ \A n \in Said(e) : n <= projection.state[e]
      BY <2>1, <3>0 DEF Shows
    <3>2. projection.state[e] \in Nat BY <2>2, TopologyNumbers
    <3>3. Said(e) \in SUBSET Nat
      <4>1. ASSUME NEW n \in Says(committed, log, p, k, e) PROVE n \in Nat
        <5>1. CASE k # NoGeneration /\ n = LastOf(log, p, k, e)
          <6>1. k \in Cutoffs /\ LastOf(log, p, k, e) \in 0 .. k BY <2>2, <5>1, LastOfIs
          <6> QED BY <5>1, <6>1, TopologyNumbers
        <5>2. ASSUME NEW i \in DOMAIN committed, n \in Observed(committed[i]) PROVE n \in Nat
          BY <5>2, TopologyNumbers, <2>1 DEF Observed, WellFormed, Entry
        <5>3. \/ k # NoGeneration /\ n = LastOf(log, p, k, e)
              \/ \E i \in DOMAIN committed : n \in Observed(committed[i])
          BY <4>1 DEF Says, SaidBy
        <5> QED BY <5>1, <5>2, <5>3
      <4> QED BY <3>0, <4>1
    <3>4. S \in SUBSET Int /\ \A y \in S : projection.state[e] >= y
      <4>1. \A y \in S : y \in Nat /\ y <= projection.state[e] BY <3>1, <3>2, <3>3
      <4>2. \A y \in Nat : y <= projection.state[e] => projection.state[e] >= y BY <3>2
      <4> HIDE DEF S
      <4> QED BY <4>1, <4>2
    <3>5. Max(S) = projection.state[e]
      <4> HIDE DEF S
      <4> QED BY <3>1, <3>4, GreatestIs
    <3> QED BY <3>5
  <2>8. LatestPage = p BY <1>2, LatestIs
  <2>9. TopologyIsCommitted
          <=> /\ projection.page = LatestPage
              /\ \A e \in Entities : projection.state[e] = Max({0} \cup Said(e))
    <3> DEFINE ofLatest == {committed[i] : i \in {j \in 1 .. Len(committed) : committed[j].page = LatestPage}}
               capturesOf == {c.sequence : c \in {d \in ofLatest : d.kind = "capture"}}
               cutoff == Max({NoGeneration} \cup {c.sequence : c \in {d \in ofLatest : d.kind = "checkpoint"}})
               latestOf == {c \in ofLatest : c.kind = "checkpoint" /\ c.sequence = cutoff}
               SaidOf(e) == {n \in capturesOf \cup UNION {c.observations : c \in latestOf} : log[LatestPage][n] = e}
                              \cup {RecordsAt(LatestPage, c.sequence)[e] : c \in latestOf}
    <3>1. TopologyIsCommitted
            <=> /\ projection.page = LatestPage
                /\ \A e \in Entities : projection.state[e] = Max({0} \cup SaidOf(e))
      BY <1>2 DEF TopologyIsCommitted
    <3>2. ofLatest = ofPage BY <2>8 DEF ofPage
    <3> HIDE DEF ofLatest
    <3>3. cutoff = k /\ capturesOf = captures BY <2>5, <3>2
    <3> HIDE DEF cutoff, capturesOf, captures
    <3>4. latestOf = latest BY <3>2, <3>3
    <3> HIDE DEF latestOf, latest
    <3>5. \A e \in Entities : SaidOf(e) = Said(e) BY <2>8, <3>3, <3>4
    <3> HIDE DEF SaidOf, Said
    <3> QED BY <3>1, <3>5
  <2> HIDE DEF Said
  <2> QED BY <2>7, <2>8, <2>9
<1> QED BY <1>1, <1>2

\* The topology contains the records of every checkpoint of its page.
LEMMA BasisIsShown ==
  ASSUME TopologyInv PROVE BasisIsTrue
<1> DEFINE p == topologyBasisRecovery[1]
           cutoff == topologyBasisRecovery[2]
<1>1. SUFFICES ASSUME topologyBasisRecovery # NoSync PROVE BasisIsTrue BY DEF BasisIsTrue
<1>2. /\ currentPageEpoch = p /\ begun[topologyBasisRecovery] = gaps
      /\ \E i \in DOMAIN committed : /\ IsCheckpoint(committed[i], p)
                                     /\ committed[i].sequence = cutoff
                                     /\ committed[i].coverage = "complete"
  BY <1>1 DEF TopologyInv, BasisRests
<1>3. PICK i \in DOMAIN committed : /\ IsCheckpoint(committed[i], p)
                                    /\ committed[i].sequence = cutoff
                                    /\ committed[i].coverage = "complete"
  BY <1>2
<1>4. /\ committed \in Seq(Entry) /\ i \in 1 .. Len(committed) /\ committed # <<>> /\ committed[i] \in Entry
      /\ cutoff \in Cutoffs
  <2>1. committed \in Seq(Entry) BY DEF TopologyInv, TopologyTypeOK
  <2>2. i \in 1 .. Len(committed) /\ committed # <<>> /\ committed[i] \in Entry BY <1>3, <2>1
  <2>3. committed[i].sequence \in Cutoffs BY <2>2 DEF Entry
  <2> QED BY <1>3, <2>1, <2>2, <2>3
<1> HIDE DEF p, cutoff
<1>5. projection.page = p => \A e \in Entities : projection.state[e] >= RecordsAt(p, cutoff)[e]
  <2>1. SUFFICES ASSUME projection.page = p, NEW e \in Entities
                 PROVE  projection.state[e] >= RecordsAt(p, cutoff)[e]
    OBVIOUS
  <2> DEFINE k == projection.acceptedCutoff
  <2>2. Shows(projection, committed, log) /\ projection \in ProjectionType
    BY <1>4 DEF TopologyInv, TopologyTypeOK, ProjectionType
  <2>3. cutoff <= k /\ k \in Cutoffs \cup {NoGeneration}
    BY <1>3, <2>1, <2>2 DEF Shows, ProjectionType
  <2>4. k # NoGeneration /\ k \in Cutoffs BY <1>4, <2>3, TopologyNumbers DEF NoGeneration
  <2>5. LastOf(log, p, k, e) \in Says(committed, log, p, k, e) BY <2>4 DEF Says
  <2>6. LastOf(log, p, k, e) <= projection.state[e] BY <2>1, <2>2, <2>5 DEF Shows
  <2>7. /\ LastOf(log, p, cutoff, e) <= LastOf(log, p, k, e)
        /\ LastOf(log, p, cutoff, e) \in 0 .. cutoff /\ LastOf(log, p, k, e) \in 0 .. k
    BY <1>4, <2>3, <2>4, LastOfGrows, LastOfIs
  <2>8. RecordsAt(p, cutoff)[e] = LastOf(log, p, cutoff, e) BY DEF RecordsAt, LastOf
  <2>9. projection.state[e] \in Nat /\ cutoff \in Nat /\ k \in Nat
    BY <1>4, <2>2, <2>4, TopologyNumbers DEF ProjectionType
  <2>10. projection.state[e] >= LastOf(log, p, cutoff, e)
    <3> HIDE DEF k
    <3> QED BY <2>6, <2>7, <2>9
  <2> QED BY <2>8, <2>10
<1> QED BY <1>2, <1>3, <1>4, <1>5 DEF BasisIsTrue, IsCheckpoint, p, cutoff

\* The topology that a panel shows is what the committed Evidence of the interval
\* says of the page that came last, whatever was refused, cleared, lost or overtaken.
THEOREM ProjectionHolds == TopologySpec => []ProjectionIsTrue
<1>1. TopologyInv => ProjectionIsTrue BY CommittedTopology DEF ProjectionIsTrue, TopologyInv
<1> QED BY <1>1, TopologyInvHolds, PTL

\* A panel claims a restored basis only on a committed COMPLETE checkpoint that no
\* gap follows and whose records it shows.
THEOREM BasisHolds == TopologySpec => []BasisIsTrue
<1>1. TopologyInv => BasisIsTrue BY BasisIsShown
<1> QED BY <1>1, TopologyInvHolds, PTL
-----------------------------------------------------------------------------
(* Diagnostics                                                             *)

\* What is queued: mutations that the runtime can propose.
IsMutation(m) ==
  /\ m \in [op : {"observe", "resolve", "clear"}, id : IdType, content : Nat, occurrence : BOOLEAN]
  /\ m.op = "observe" => m.occurrence = (m.id.code \in Occurrences)
  /\ m.op = "resolve" => m.id.code \notin Occurrences
  /\ m.op = "clear" => m.id = NoId
Entries == {e \in [change : [op : {"observe", "resolve", "clear"}, id : IdType, content : Nat,
                              occurrence : BOOLEAN], advisory : BOOLEAN] : IsMutation(e.change)}

\* Something holds once the queue q is executed: the last entry of q that is
\* in A makes it so and none in B follows, or it holds now and none in B comes.
Settles(q, A, B, now) ==
  \/ \E i \in DOMAIN q : q[i] \in A /\ \A k \in DOMAIN q : k > i => q[k] \notin B
  \/ now /\ \A k \in DOMAIN q : q[k] \notin B

Clearing == {e \in Entries : e.change.op = "clear"}
Observing(id) == {e \in Entries : e.change.op = "observe" /\ e.change.id = id}
Touching(id) == {e \in Entries : e.change.op = "clear" \/ e.change.id = id}
Changing(id) == {e \in Entries : e.change.op # "clear" /\ e.change.id = id}
OfItem(id) == id.code \in ItemConditions
ChangingItem == {e \in Entries : e.change.op = "clear" \/ OfItem(e.change.id)}

\* When the queue q has met the journal j: the condition "id" is active, the
\* observation "id" is journaled, and "id" is the last of the conditions of
\* the item's snapshot that changed.
WillBeActive(q, j, id) == Settles(q, Observing(id), Touching(id), id \in ActiveIn(j))
WillBeKnown(q, j, id) == Settles(q, Observing(id), Clearing, id \in Identities(j))
WillBeLatest(q, j, id) == Settles(q, Changing(id), ChangingItem, IsLatestOfItem(j, id))

\* Every change of a condition of the item that is queued since the last Clear
\* takes effect: what is
\* resolved is active then, and what is observed is active only if it is the
\* last that changed.
TakesEffect(m, q, j) ==
  OfItem(m.id) =>
    /\ m.op = "resolve" => WillBeActive(q, j, m.id)
    /\ m.op = "observe" /\ WillBeActive(q, j, m.id) => WillBeLatest(q, j, m.id)
Before(q, i) == [k \in 1 .. i - 1 |-> q[k]]
AllTakeEffect(q, j) ==
  \A i \in DOMAIN q :
    (\A k \in DOMAIN q : k > i => q[k] \notin Clearing) =>
      TakesEffect(q[i].change, Before(q, i), j)

\* An identity still fits in the journal when the queue has met it, unless a
\* mutation of the current interval was rejected.
WillHaveRoom(q, j) == HasRoom(j) \/ \E i \in DOMAIN q : q[i] \in Clearing

\* c is the condition that is held of the item's snapshot and n the Evidence
\* that is applied.
ItemAgrees(q, j, c, n) ==
  /\ AllTakeEffect(q, j)
  /\ c # NoId => OfItem(c) /\ WillBeLatest(q, j, c)
  /\ \A id \in IdType : OfItem(id) /\ WillBeActive(q, j, id) =>
       /\ id.at <= n
       /\ WillBeLatest(q, j, id) \/ id.affected = "item" => id = c

Agreement(q, j, shown, held, act) ==
  /\ \A id \in Range(shown) :
       IF id.code \in Occurrences THEN WillBeKnown(q, j, id) ELSE WillBeActive(q, j, id)
  /\ \A id \in held : WillBeActive(q, j, id)
  /\ \A id \in IdType : id.code \in RuntimeConditions =>
       (WillBeActive(q, j, id) <=> id \in act)

\* What is presented, held and active agrees with the journal that has met
\* the queue, if there is room in it; "since" counts the recoveries, which
\* build the projections anew.
Agrees(q, j, shown, held, c, act, since, n) ==
  WillHaveRoom(q, j) =>
    Agreement(q, j, shown, held, act) /\ (since = 0 => ItemAgrees(q, j, c, n))

\* The journal.
IsObservations(j) ==
  /\ j = [interval |-> j.interval, sequence |-> j.sequence, retainedThrough |-> j.retainedThrough,
          records |-> j.records, current |-> j.current, closed |-> j.closed]
  /\ j.interval \in Nat \ {0} /\ j.sequence \in Nat /\ j.closed \in BOOLEAN
  /\ Identities(j) \subseteq IdType /\ IsFiniteSet(Identities(j))
  /\ \A id \in Identities(j) :
       /\ j.current[id].sequence \in 1 .. j.sequence
       /\ j.current[id].state \in
            IF id.code \in Occurrences THEN {"observed"} ELSE {"active", "resolved"}
  /\ \A a, b \in Identities(j) : j.current[a].sequence = j.current[b].sequence => a = b

\* A projection, and the conditions that the runtime may record.
ItemIds == {id \in IdType : OfItem(id) /\ id.of = 0 /\ (id.affected = "item" => id.at = 0)}
Producers ==
  [known : BOOLEAN, phase : {"none", "snapshot", "complete", "live"},
   snapshotCondition : ItemIds \cup {NoId}, established : BOOLEAN,
   coverage : [status : Checkpoints \cup {"none"}, at : 0 .. MaxLog],
   reducerCondition : {id \in IdType : id.code = "reducer-incomplete"} \cup {NoId},
   subscription : {"absent", "pending", "established"},
   recovering : BOOLEAN, lint : {id \in IdType : id.code = "not-established"} \cup {NoId}]
Projections ==
  {p \in Producers : ~p.known => p.snapshotCondition.affected # "item"}
RuntimeIds == {id \in IdType : id.code \in RuntimeConditions}
AtMostOne(ids) == \A a, b \in ids : a = b
OneOfEachCode(ids) == \A a, b \in ids : a.code = b.code => a = b

Fits(shown) == Len(shown) <= PresentationLimit /\ IsInjective(shown)

ClearsIn(q) == Cardinality({i \in DOMAIN q : q[i] \in Clearing})

\* The types, and how far the follower is.
DiagnosticsBasics ==
  /\ evidence \in Seq(Kinds) /\ Len(evidence) <= MaxLog
  /\ applied \in 0 .. Len(evidence) /\ diagnosticEvidenceSequence \in 0 .. Len(evidence)
  /\ phase \in {"live", "recovering"}
  /\ phase = "live" => applied = Len(evidence) /\ recovery = NoProducer
  /\ phase = "recovering" => recovery \in Projections /\ recoveries > 0
  /\ producer \in Projections
  /\ disconnected \in BOOLEAN /\ pageKnown \in BOOLEAN /\ failed \in BOOLEAN
  /\ footer \subseteq RuntimeConditions
  /\ IsObservations(observations) /\ failed = observations.closed
  /\ resets \in 0 .. MaxResets /\ recoveries \in 0 .. MaxRecoveries /\ toggles \in 0 .. MaxToggles

\* The inductive invariant: what is presented, held and active agrees with
\* the journal that has met the queue.
DiagnosticsInv ==
  /\ DiagnosticsBasics
  /\ activeRuntime \subseteq RuntimeIds /\ OneOfEachCode(activeRuntime)
  /\ presentations \in Seq(IdType) /\ Fits(presentations)
  /\ dismissed \subseteq RuntimeConditions /\ DismissalsEnd
  /\ mutations \in Seq(Entries) /\ (failed => mutations = <<>>)
  /\ observations.interval + ClearsIn(mutations) <= resets + 1
  /\ ~failed => Agrees(mutations, observations, presentations, HeldBy(Current),
                       Current.snapshotCondition, activeRuntime, recoveries, applied)

\* s is a state of the queue and of what is presented that agrees with the
\* journal, in which at most k Clears are queued or done.
States == [queue : Seq(Entries), presentations : Seq(IdType),
           activeRuntime : SUBSET RuntimeIds, dismissed : SUBSET RuntimeConditions]
Coherent(s, held, c, act, n, k) ==
  /\ s \in States /\ Fits(s.presentations) /\ (failed => s.queue = <<>>)
  /\ observations.interval + ClearsIn(s.queue) <= k
  /\ ~failed => Agrees(s.queue, observations, s.presentations, held, c, act, recoveries, n)


\* What s may be when an observation, or a resolution, was recorded.
WithObservation(s, id, x) ==
  {queued([s EXCEPT !.presentations = rememberPresentation(@, id)], Observe(id, x), advisory) :
     advisory \in BOOLEAN}
WithResolution(s, id, x) ==
  {queued([s EXCEPT !.presentations = forgetPresentation(@, id)], Resolve(id, x), advisory) :
     advisory \in BOOLEAN}

NoneOfRuntime(ids) == ids \cap RuntimeIds = {}
RuntimeOnly(ids) == ids \subseteq RuntimeIds /\ OneOfEachCode(ids)
DismissalsFit(s) == s.dismissed \subseteq CodesOf(s.activeRuntime)
SameRuntime(s, t) == s.activeRuntime = t.activeRuntime /\ s.dismissed = t.dismissed
Paired(r) == r = [p |-> r.p, s |-> r.s]
SameProjection(r, t) == r.p = t.p

\* r holds a projection and a state that agrees with it; the runtime's own
\* conditions and the dismissals are those of s.
Fine(r, n, s, k) ==
  /\ Paired(r) /\ r.p \in Projections
  /\ Coherent(r.s, HeldBy(r.p), r.p.snapshotCondition, s.activeRuntime, n, k)
  /\ r.s.activeRuntime = s.activeRuntime /\ r.s.dismissed = s.dismissed

\* A condition that may be resolved when "held" is held, c of the item.
Resolvable(id, held, c) ==
  /\ id # NoId => id \in held /\ id.code \notin Occurrences /\ id.code \notin RuntimeConditions
  /\ OfItem(id) => id = c

\* An observation of id that the agreement admits, and what is held of the
\* item, held at all and active after it, and after a resolution.
Admits(s, id, c, n) ==
  ~failed /\ recoveries = 0 /\ OfItem(id) /\ WillHaveRoom(s.queue, observations) =>
    /\ id.at <= n
    /\ WillBeActive(s.queue, observations, id) => id = c
    /\ \A i \in IdType :
         OfItem(i) /\ WillBeActive(s.queue, observations, i) /\ i.affected = "item" => i = id
ObserveChanges(id, held, c, act, held2, c2, act2) ==
  /\ held2 \subseteq held \cup {id}
  /\ c2 = IF OfItem(id) THEN id ELSE c
  /\ act2 = IF id.code \in RuntimeConditions THEN act \cup {id} ELSE act
ResolveChanges(id, held, c, act, held2, c2, act2) ==
  /\ held2 \subseteq held \ {id}
  /\ c2 = IF OfItem(id) THEN NoId ELSE c
  /\ act2 = act \ {id}
  /\ OfItem(id) => id = c /\ id \in held

Holds(p, held, c) == HeldBy(p) \subseteq held /\ p.snapshotCondition = c

\* A snapshot drops the dismissals of conditions that do not hold.
Trimmed(s, desired) == [s EXCEPT !.dismissed = @ \cap CodesOf(desired)]
-----------------------------------------------------------------------------
\* A queue with one entry more.
LEMMA QueueGrows ==
  ASSUME NEW q \in Seq(Entries), NEW e \in Entries
  PROVE  /\ Append(q, e) \in Seq(Entries)
         /\ DOMAIN q = 1 .. Len(q) /\ DOMAIN Append(q, e) = 1 .. Len(q) + 1 /\ Len(q) \in Nat
         /\ \A i \in 1 .. Len(q) : Append(q, e)[i] = q[i]
         /\ Append(q, e)[Len(q) + 1] = e
OBVIOUS

\* A queue without its first entry.
LEMMA QueueShrinks ==
  ASSUME NEW q \in Seq(Entries), q # <<>>
  PROVE  /\ Tail(q) \in Seq(Entries) /\ Head(q) = q[1] /\ q[1] \in Entries
         /\ Len(q) \in Nat /\ Len(q) >= 1
         /\ DOMAIN q = 1 .. Len(q) /\ DOMAIN Tail(q) = 1 .. Len(q) - 1
         /\ \A i \in 1 .. Len(q) - 1 : Tail(q)[i] = q[i + 1]
OBVIOUS

\* An entry that is queued decides what it concerns.
LEMMA SettlesGrows ==
  ASSUME NEW q \in Seq(Entries), NEW e \in Entries, NEW A, NEW B, NEW now
  PROVE  Settles(Append(q, e), A, B, now) <=> e \in A \/ (e \notin B /\ Settles(q, A, B, now))
<1> DEFINE Q == Append(q, e)
           n == Len(q)
<1>1. /\ DOMAIN q = 1 .. n /\ DOMAIN Q = 1 .. n + 1 /\ n \in Nat
      /\ \A i \in 1 .. n : Q[i] = q[i]
      /\ Q[n + 1] = e
  BY QueueGrows
<1> HIDE DEF Q, n
<1>2. /\ n + 1 \in DOMAIN Q /\ \A i \in 1 .. n : i \in DOMAIN Q /\ n + 1 > i
      /\ \A k \in DOMAIN Q : ~(k > n + 1) /\ (k # n + 1 => k \in 1 .. n)
  BY <1>1
<1>3. (\A k \in DOMAIN Q : Q[k] \notin B) <=> e \notin B /\ \A k \in DOMAIN q : q[k] \notin B
  BY <1>1, <1>2
<1>4. ASSUME NEW i \in 1 .. n PROVE (\A k \in DOMAIN Q : k > i => Q[k] \notin B)
               <=> e \notin B /\ \A k \in DOMAIN q : k > i => q[k] \notin B
  BY <1>1, <1>2
<1>5. (\E i \in DOMAIN Q : Q[i] \in A /\ \A k \in DOMAIN Q : k > i => Q[k] \notin B)
        <=> \/ e \in A
            \/ e \notin B /\ \E i \in DOMAIN q : q[i] \in A /\ \A k \in DOMAIN q : k > i => q[k] \notin B
  BY <1>1, <1>2, <1>4
<1> QED BY <1>3, <1>5 DEF Settles, Q

\* The first entry is executed: what holds then is what it made of what held.
LEMMA SettlesShrinks ==
  ASSUME NEW q \in Seq(Entries), q # <<>>, NEW A, NEW B, NEW now, NEW later,
         (\A k \in DOMAIN Tail(q) : Tail(q)[k] \notin B) =>
           (later <=> Head(q) \in A \/ (Head(q) \notin B /\ now))
  PROVE  Settles(Tail(q), A, B, later) <=> Settles(q, A, B, now)
<1> DEFINE t == Tail(q)
           n == Len(q)
<1>1. /\ Head(q) = q[1] /\ DOMAIN q = 1 .. n /\ DOMAIN t = 1 .. n - 1 /\ n \in Nat /\ n >= 1
      /\ \A i \in 1 .. n - 1 : t[i] = q[i + 1]
  BY QueueShrinks
<1> HIDE DEF t, n
<1>2. /\ 1 \in DOMAIN q /\ \A i \in 1 .. n - 1 : i + 1 \in 1 .. n /\ i + 1 > 1
      /\ \A k \in 1 .. n : k # 1 => k - 1 \in 1 .. n - 1 /\ (k - 1) + 1 = k
      /\ \A i, k \in 1 .. n - 1 : k > i <=> k + 1 > i + 1
      /\ \A k \in 1 .. n : k > 1 <=> k # 1
  BY <1>1
<1>3. (\A k \in DOMAIN q : k > 1 => q[k] \notin B) <=> \A k \in DOMAIN t : t[k] \notin B
  <2>1. ASSUME \A k \in DOMAIN q : k > 1 => q[k] \notin B, NEW k \in DOMAIN t
        PROVE  t[k] \notin B
    BY <2>1, <1>1, <1>2
  <2>2. ASSUME \A k \in DOMAIN t : t[k] \notin B, NEW k \in DOMAIN q, k > 1 PROVE q[k] \notin B
    BY <2>2, <1>1, <1>2
  <2> QED BY <2>1, <2>2
<1>4. ASSUME NEW i \in 1 .. n - 1 PROVE (\A k \in DOMAIN q : k > i + 1 => q[k] \notin B)
               <=> \A k \in DOMAIN t : k > i => t[k] \notin B
  <2>1. ASSUME \A k \in DOMAIN q : k > i + 1 => q[k] \notin B, NEW k \in DOMAIN t, k > i
        PROVE  t[k] \notin B
    BY <2>1, <1>1, <1>2
  <2>2. ASSUME \A k \in DOMAIN t : k > i => t[k] \notin B, NEW k \in DOMAIN q, k > i + 1
        PROVE  q[k] \notin B
    <3>1. k # 1 /\ k \in Int /\ i \in Int BY <2>2, <1>1
    <3>2. k - 1 \in DOMAIN t /\ t[k - 1] = q[k] /\ k - 1 > i BY <3>1, <2>2, <1>1, <1>2
    <3> QED BY <3>2, <2>2
  <2> QED BY <2>1, <2>2
<1>5. (\A k \in DOMAIN q : q[k] \notin B) <=> q[1] \notin B /\ \A k \in DOMAIN t : t[k] \notin B
  BY <1>1, <1>2, <1>3
<1>6. (\E i \in DOMAIN q : q[i] \in A /\ \A k \in DOMAIN q : k > i => q[k] \notin B)
        <=> \/ q[1] \in A /\ \A k \in DOMAIN t : t[k] \notin B
            \/ \E i \in DOMAIN t : t[i] \in A /\ \A k \in DOMAIN t : k > i => t[k] \notin B
  <2>1. ASSUME NEW i \in DOMAIN q, q[i] \in A, \A k \in DOMAIN q : k > i => q[k] \notin B
        PROVE  \/ q[1] \in A /\ \A k \in DOMAIN t : t[k] \notin B
               \/ \E m \in DOMAIN t : t[m] \in A /\ \A k \in DOMAIN t : k > m => t[k] \notin B
    <3>1. CASE i = 1 BY <3>1, <2>1, <1>3
    <3>2. CASE i # 1
      <4>1. i - 1 \in DOMAIN t /\ t[i - 1] = q[i] /\ (i - 1) + 1 = i BY <3>2, <2>1, <1>1, <1>2
      <4>2. \A k \in DOMAIN t : k > i - 1 => t[k] \notin B BY <4>1, <2>1, <1>4, <1>1
      <4> QED BY <4>1, <4>2, <2>1
    <3> QED BY <3>1, <3>2
  <2>2. ASSUME NEW i \in DOMAIN t, t[i] \in A, \A k \in DOMAIN t : k > i => t[k] \notin B
        PROVE  \E m \in DOMAIN q : q[m] \in A /\ \A k \in DOMAIN q : k > m => q[k] \notin B
    <3>1. i \in 1 .. n - 1 /\ i + 1 \in DOMAIN q /\ q[i + 1] \in A BY <2>2, <1>1, <1>2
    <3>2. \A k \in DOMAIN q : k > i + 1 => q[k] \notin B BY <3>1, <2>2, <1>4
    <3> QED BY <3>1, <3>2
  <2>3. ASSUME q[1] \in A, \A k \in DOMAIN t : t[k] \notin B
        PROVE  \E m \in DOMAIN q : q[m] \in A /\ \A k \in DOMAIN q : k > m => q[k] \notin B
    BY <2>3, <1>2, <1>3
  <2> QED BY <2>1, <2>2, <2>3
<1> QED BY <1>1, <1>5, <1>6 DEF Settles, t


\* What an entry that is queued makes of a condition, of an observation, and
\* of what changed last.
LEMMA EntryDecides ==
  ASSUME NEW q \in Seq(Entries), NEW e \in Entries, NEW j, NEW id
  PROVE  /\ WillBeActive(Append(q, e), j, id) <=>
              IF e.change.op # "clear" /\ e.change.id # id THEN WillBeActive(q, j, id)
              ELSE e.change.op = "observe"
         /\ WillBeKnown(Append(q, e), j, id) <=>
              \/ e.change.op = "observe" /\ e.change.id = id
              \/ e.change.op # "clear" /\ WillBeKnown(q, j, id)
         /\ OfItem(id) =>
              (WillBeLatest(Append(q, e), j, id) <=>
                 /\ e.change.op # "clear"
                 /\ IF OfItem(e.change.id) THEN e.change.id = id ELSE WillBeLatest(q, j, id))
<1>1. e.change.op = "observe" => e.change.op # "clear" OBVIOUS
<1>2. /\ e \in Observing(id) <=> e.change.op = "observe" /\ e.change.id = id
      /\ e \in Touching(id) <=> e.change.op = "clear" \/ e.change.id = id
      /\ e \in Clearing <=> e.change.op = "clear"
      /\ e \in Changing(id) <=> e.change.op # "clear" /\ e.change.id = id
      /\ e \in ChangingItem <=> e.change.op = "clear" \/ OfItem(e.change.id)
  BY DEF Observing, Touching, Clearing, Changing, ChangingItem
<1>3. WillBeActive(Append(q, e), j, id) <=>
        e \in Observing(id) \/ (e \notin Touching(id) /\ WillBeActive(q, j, id))
  BY SettlesGrows DEF WillBeActive
<1>4. WillBeKnown(Append(q, e), j, id) <=>
        e \in Observing(id) \/ (e \notin Clearing /\ WillBeKnown(q, j, id))
  BY SettlesGrows DEF WillBeKnown
<1>5. WillBeLatest(Append(q, e), j, id) <=>
        e \in Changing(id) \/ (e \notin ChangingItem /\ WillBeLatest(q, j, id))
  BY SettlesGrows DEF WillBeLatest
<1>6. ASSUME OfItem(id) PROVE WillBeLatest(Append(q, e), j, id) <=>
               /\ e.change.op # "clear"
               /\ IF OfItem(e.change.id) THEN e.change.id = id ELSE WillBeLatest(q, j, id)
  <2>1. CASE e.change.id = id BY <2>1, <1>2, <1>5, <1>6
  <2>2. CASE e.change.id # id BY <2>2, <1>2, <1>5
  <2> QED BY <2>1, <2>2
<1>7. WillBeActive(Append(q, e), j, id) <=>
        IF e.change.op # "clear" /\ e.change.id # id THEN WillBeActive(q, j, id)
        ELSE e.change.op = "observe"
  BY <1>1, <1>2, <1>3
<1>8. WillBeKnown(Append(q, e), j, id) <=>
        \/ e.change.op = "observe" /\ e.change.id = id
        \/ e.change.op # "clear" /\ WillBeKnown(q, j, id)
  BY <1>2, <1>4
<1> QED BY <1>6, <1>7, <1>8

\* The journal j2 is what the entry e makes of the journal j.
Meets(e, j, j2) ==
  /\ \A id \in IdType :
       /\ id \in Identities(j2) <=>
            \/ e.change.op = "observe" /\ e.change.id = id
            \/ e.change.op # "clear" /\ id \in Identities(j)
       /\ id.code \notin Occurrences =>
            (id \in ActiveIn(j2) <=>
               IF e.change.op # "clear" /\ e.change.id # id THEN id \in ActiveIn(j)
               ELSE e.change.op = "observe")
  /\ TakesEffect(e.change, <<>>, j) =>
       \A id \in IdType : OfItem(id) =>
         (IsLatestOfItem(j2, id) <=>
            /\ e.change.op # "clear"
            /\ IF OfItem(e.change.id) THEN e.change.id = id ELSE IsLatestOfItem(j, id))

\* What is settled does not change when the first entry of the queue is
\* executed, unless a Clear is queued, which settles it.
LEMMA HeadDecides ==
  ASSUME NEW q \in Seq(Entries), q # <<>>, NEW j, NEW j2, NEW id \in IdType,
         (\A k \in DOMAIN Tail(q) : Tail(q)[k] \notin Clearing) => Meets(Head(q), j, j2)
  PROVE  /\ id.code \notin Occurrences =>
              (WillBeActive(Tail(q), j2, id) <=> WillBeActive(q, j, id))
         /\ WillBeKnown(Tail(q), j2, id) <=> WillBeKnown(q, j, id)
         /\ /\ OfItem(id)
            /\ (\A k \in DOMAIN Tail(q) : Tail(q)[k] \notin Clearing) =>
                 TakesEffect(Head(q).change, <<>>, j)
            => (WillBeLatest(Tail(q), j2, id) <=> WillBeLatest(q, j, id))
<1> DEFINE e == Head(q)
           t == Tail(q)
<1>1. e \in Entries /\ t \in Seq(Entries) /\ \A k \in DOMAIN t : t[k] \in Entries
  BY QueueShrinks
<1> HIDE DEF e, t
<1>2. /\ e \in Observing(id) <=> e.change.op = "observe" /\ e.change.id = id
      /\ e \in Touching(id) <=> e.change.op = "clear" \/ e.change.id = id
      /\ e \in Clearing <=> e.change.op = "clear"
      /\ e \in Changing(id) <=> e.change.op # "clear" /\ e.change.id = id
      /\ e \in ChangingItem <=> e.change.op = "clear" \/ OfItem(e.change.id)
  BY <1>1 DEF Observing, Touching, Clearing, Changing, ChangingItem
<1>3. Clearing \subseteq Touching(id) /\ Clearing \subseteq ChangingItem
  BY DEF Clearing, Touching, ChangingItem
<1>4. (\A k \in DOMAIN t : t[k] \notin Clearing) => Meets(e, j, j2) BY DEF e, t
<1>5. ASSUME id.code \notin Occurrences
      PROVE  WillBeActive(t, j2, id) <=> WillBeActive(q, j, id)
  <2>1. ASSUME \A k \in DOMAIN t : t[k] \notin Touching(id)
        PROVE  id \in ActiveIn(j2) <=> e \in Observing(id) \/ (e \notin Touching(id) /\ id \in ActiveIn(j))
    <3>1. Meets(e, j, j2) BY <2>1, <1>3, <1>4
    <3>2. id \in ActiveIn(j2) <=>
            IF e.change.op # "clear" /\ e.change.id # id THEN id \in ActiveIn(j)
            ELSE e.change.op = "observe"
      BY <3>1, <1>5 DEF Meets
    <3> QED BY <3>2, <1>2
  <2> QED BY <2>1, SettlesShrinks DEF WillBeActive, e, t
<1>6. WillBeKnown(t, j2, id) <=> WillBeKnown(q, j, id)
  <2>1. ASSUME \A k \in DOMAIN t : t[k] \notin Clearing
        PROVE  id \in Identities(j2) <=> e \in Observing(id) \/ (e \notin Clearing /\ id \in Identities(j))
    BY <2>1, <1>2, <1>4 DEF Meets
  <2> QED BY <2>1, SettlesShrinks DEF WillBeKnown, e, t
<1>7. ASSUME OfItem(id),
             (\A k \in DOMAIN t : t[k] \notin Clearing) => TakesEffect(e.change, <<>>, j)
      PROVE  WillBeLatest(t, j2, id) <=> WillBeLatest(q, j, id)
  <2>1. ASSUME \A k \in DOMAIN t : t[k] \notin ChangingItem PROVE IsLatestOfItem(j2, id) <=>
                 e \in Changing(id) \/ (e \notin ChangingItem /\ IsLatestOfItem(j, id))
    <3>1. Meets(e, j, j2) /\ TakesEffect(e.change, <<>>, j) BY <2>1, <1>3, <1>4, <1>7
    <3>2. IsLatestOfItem(j2, id) <=>
            /\ e.change.op # "clear"
            /\ IF OfItem(e.change.id) THEN e.change.id = id ELSE IsLatestOfItem(j, id)
      BY <3>1, <1>7 DEF Meets
    <3>3. CASE e.change.id = id BY <3>2, <3>3, <1>2, <1>7
    <3>4. CASE e.change.id # id BY <3>2, <3>4, <1>2
    <3> QED BY <3>3, <3>4
  <2> QED BY <2>1, SettlesShrinks DEF WillBeLatest, e, t
<1> QED BY <1>5, <1>6, <1>7 DEF e, t
-----------------------------------------------------------------------------
\* What a commit leaves in the journal.
LEMMA CommitsTo ==
  ASSUME NEW j, IsObservations(j), NEW id \in IdType, NEW state, NEW content
  PROVE  LET n == Committed(j, id, state, content)
         IN  /\ n = [interval |-> n.interval, sequence |-> n.sequence,
                     retainedThrough |-> n.retainedThrough, records |-> n.records,
                     current |-> n.current, closed |-> n.closed]
             /\ n.interval = j.interval /\ n.sequence = j.sequence + 1 /\ n.closed = j.closed
             /\ Identities(n) = Identities(j) \cup {id}
             /\ n.current[id].sequence = j.sequence + 1 /\ n.current[id].state = state
             /\ \A i \in Identities(j) : i # id => n.current[i] = j.current[i]
<1> DEFINE event == [id |-> id, interval |-> j.interval, sequence |-> j.sequence + 1,
                     state |-> state, content |-> content]
           current == [i \in Identities(j) \cup {id} |-> IF i = id THEN event ELSE j.current[i]]
           kept == retainDiagnosticCapacity(Append(j.records, event), current, j.retainedThrough)
           n == Committed(j, id, state, content)
<1>1. n = [j EXCEPT !.sequence = @ + 1, !.current = current,
                    !.records = kept.records, !.retainedThrough = kept.retainedThrough]
  BY DEF Committed
<1>2. event.sequence = j.sequence + 1 /\ event.state = state OBVIOUS
<1>3. /\ DOMAIN current = Identities(j) \cup {id} /\ current[id] = event
      /\ \A i \in Identities(j) : i # id => current[i] = j.current[i]
  OBVIOUS
<1> HIDE DEF event, current, kept, n
<1>4. j = [interval |-> j.interval, sequence |-> j.sequence, retainedThrough |-> j.retainedThrough,
           records |-> j.records, current |-> j.current, closed |-> j.closed]
  BY DEF IsObservations
<1>5. n = [interval |-> j.interval, sequence |-> j.sequence + 1,
           retainedThrough |-> kept.retainedThrough, records |-> kept.records,
           current |-> current, closed |-> j.closed]
  BY <1>1, <1>4
<1>6. /\ n = [interval |-> n.interval, sequence |-> n.sequence,
              retainedThrough |-> n.retainedThrough, records |-> n.records,
              current |-> n.current, closed |-> n.closed]
      /\ n.interval = j.interval /\ n.sequence = j.sequence + 1 /\ n.closed = j.closed
      /\ n.current = current
  BY <1>5
<1> QED BY <1>2, <1>3, <1>6 DEF Identities, n

\* A journal that an observation or a resolution was committed to is one.
LEMMA CommittedIsObservations ==
  ASSUME NEW j, IsObservations(j), NEW id \in IdType, NEW state, NEW content,
         state \in IF id.code \in Occurrences THEN {"observed"} ELSE {"active", "resolved"}
  PROVE  IsObservations(Committed(j, id, state, content))
<1> DEFINE n == Committed(j, id, state, content)
<1>1. /\ n = [interval |-> n.interval, sequence |-> n.sequence,
              retainedThrough |-> n.retainedThrough, records |-> n.records,
              current |-> n.current, closed |-> n.closed]
      /\ n.interval = j.interval /\ n.sequence = j.sequence + 1 /\ n.closed = j.closed
      /\ Identities(n) = Identities(j) \cup {id}
      /\ n.current[id].sequence = j.sequence + 1 /\ n.current[id].state = state
      /\ \A i \in Identities(j) : i # id => n.current[i] = j.current[i]
  BY CommitsTo
<1> HIDE DEF n
<1>2. /\ j.interval \in Nat \ {0} /\ j.sequence \in Nat /\ j.closed \in BOOLEAN
      /\ Identities(j) \subseteq IdType /\ IsFiniteSet(Identities(j))
      /\ \A i \in Identities(j) :
           /\ j.current[i].sequence \in 1 .. j.sequence
           /\ j.current[i].state \in
                IF i.code \in Occurrences THEN {"observed"} ELSE {"active", "resolved"}
      /\ \A a, b \in Identities(j) : j.current[a].sequence = j.current[b].sequence => a = b
  BY DEF IsObservations
<1>3. IsFiniteSet(Identities(n)) /\ Identities(n) \subseteq IdType BY <1>1, <1>2, FS_AddElement
<1>4. ASSUME NEW i \in Identities(n)
      PROVE  /\ n.current[i].sequence \in 1 .. n.sequence
             /\ n.current[i].state \in
                  IF i.code \in Occurrences THEN {"observed"} ELSE {"active", "resolved"}
  <2>1. CASE i = id BY <2>1, <1>1, <1>2
  <2>2. CASE i # id BY <1>1, <1>2, <2>2, <1>4
  <2> QED BY <2>1, <2>2
<1>5. ASSUME NEW a \in Identities(n), NEW b \in Identities(n),
             n.current[a].sequence = n.current[b].sequence
      PROVE  a = b
  <2>1. CASE a # id /\ b # id BY <2>1, <1>1, <1>2, <1>5
  <2>2. \A i \in Identities(n) : i # id => n.current[i].sequence # j.sequence + 1
    <3> TAKE i \in Identities(n)
    <3> HAVE i # id
    <3>1. n.current[i].sequence \in 1 .. j.sequence BY <1>1, <1>2
    <3> QED BY <3>1, <1>2
  <2>3. CASE a = id \/ b = id BY <2>2, <2>3, <1>1, <1>5
  <2> QED BY <2>1, <2>3
<1>6. n.interval \in Nat \ {0} /\ n.sequence \in Nat /\ n.closed \in BOOLEAN BY <1>1, <1>2
<1> QED BY <1>1, <1>3, <1>4, <1>5, <1>6 DEF IsObservations, n

\* The change of the condition of an item that is committed is the latest.
LEMMA CommitIsLatest ==
  ASSUME NEW j, IsObservations(j), NEW id \in IdType, NEW state, NEW content,
         NEW i \in IdType, OfItem(i)
  PROVE  IsLatestOfItem(Committed(j, id, state, content), i) <=>
           IF OfItem(id) THEN id = i ELSE IsLatestOfItem(j, i)
<1> DEFINE n == Committed(j, id, state, content)
<1>1. /\ Identities(n) = Identities(j) \cup {id}
      /\ n.current[id].sequence = j.sequence + 1
      /\ \A k \in Identities(j) : k # id => n.current[k] = j.current[k]
  BY CommitsTo
<1>2. /\ j.sequence \in Nat
      /\ \A k \in Identities(j) : j.current[k].sequence \in 1 .. j.sequence
  BY DEF IsObservations
<1> HIDE DEF n
<1>3. \A k \in Identities(n) : n.current[k].sequence \in Nat /\ n.current[k].sequence <= j.sequence + 1
                                 /\ (k # id => n.current[k].sequence < j.sequence + 1)
  <2> TAKE k \in Identities(n)
  <2>1. CASE k = id BY <2>1, <1>1, <1>2
  <2>2. CASE k # id BY <1>2, <2>2, <1>1
  <2> QED BY <2>1, <2>2
<1>4. CASE OfItem(id)
  <2>1. IsLatestOfItem(n, id) BY <1>1, <1>3, <1>4 DEF IsLatestOfItem, OfItem
  <2>2. ASSUME IsLatestOfItem(n, i), i # id PROVE FALSE
    <3>1. n.current[id].sequence <= n.current[i].sequence /\ i \in Identities(n)
      BY <2>2, <1>1, <1>4 DEF IsLatestOfItem, OfItem
    <3>2. n.current[i].sequence \in Nat /\ n.current[i].sequence < j.sequence + 1
      BY <3>1, <2>2, <1>3
    <3> QED BY <3>1, <3>2, <1>1, <1>2
  <2> QED BY <2>1, <2>2, <1>4 DEF n
<1>5. CASE ~OfItem(id)
  <2>1. \A k \in IdType : OfItem(k) =>
          (k \in Identities(n) <=> k \in Identities(j)) /\ (k \in Identities(j) => n.current[k] = j.current[k])
    BY <1>1, <1>5
  <2>2. Identities(n) \subseteq IdType /\ Identities(j) \subseteq IdType
    BY <1>1 DEF IsObservations
  <2> QED BY <2>1, <2>2, <1>5 DEF IsLatestOfItem, OfItem, n
<1> QED BY <1>4, <1>5

\* What executing an entry, for which there is room, makes of the journal.
LEMMA MutationMeets ==
  ASSUME NEW j, IsObservations(j), NEW e \in Entries,
         e.change.op # "clear", ~Rejects(j, e.change)
  PROVE  /\ Meets(e, j, Mutated(j, e.change)) /\ IsObservations(Mutated(j, e.change))
         /\ Mutated(j, e.change).closed = j.closed
         /\ Mutated(j, e.change).interval = j.interval
         /\ Identities(j) \subseteq Identities(Mutated(j, e.change))
<1> DEFINE m == e.change
           id == e.change.id
           state == StateAfter(m)
           n == Mutated(j, m)
<1>0. /\ m.op \in {"observe", "resolve"} /\ id \in IdType /\ m.occurrence \in BOOLEAN
      /\ m.op = "observe" => (m.occurrence <=> id.code \in Occurrences)
      /\ m.op = "resolve" => id.code \notin Occurrences
  BY DEF Entries, IsMutation
<1>1. n = IF Commits(j, m) THEN Committed(j, id, state, m.content) ELSE j BY DEF Mutated
<1>2. /\ state = "resolved" <=> m.op = "resolve"
      /\ m.op = "observe" => state = IF id.code \in Occurrences THEN "observed" ELSE "active"
  BY <1>0 DEF StateAfter
<1>3. state \in IF id.code \in Occurrences THEN {"observed"} ELSE {"active", "resolved"}
  BY <1>0, <1>2
<1>4. Commits(j, m) <=>
        IF id \notin Identities(j) THEN m.op = "observe"
        ELSE IF m.op = "resolve" THEN j.current[id].state = "active"
        ELSE ~m.occurrence /\ ~(j.current[id].state = "active" /\ j.current[id].content = m.content)
  BY DEF Commits
<1>5. /\ Identities(j) \subseteq IdType
      /\ \A i \in Identities(j) : j.current[i].state \in
           IF i.code \in Occurrences THEN {"observed"} ELSE {"active", "resolved"}
  BY DEF IsObservations
<1> HIDE DEF m, id, state, n
<1>6. CASE Commits(j, m)
  <2>1. n = Committed(j, id, state, m.content) BY <1>1, <1>6
  <2>2. /\ n.interval = j.interval /\ n.closed = j.closed
        /\ Identities(n) = Identities(j) \cup {id}
        /\ n.current[id].state = state
        /\ \A i \in Identities(j) : i # id => n.current[i] = j.current[i]
    BY <2>1, <1>0, CommitsTo
  <2>3. IsObservations(n) BY <2>1, <1>0, <1>3, CommittedIsObservations
  <2>4. m.op = "resolve" => id \in Identities(j) BY <1>0, <1>4, <1>6
  <2>5. ASSUME NEW i \in IdType
        PROVE  /\ i \in Identities(n) <=> (m.op = "observe" /\ id = i) \/ i \in Identities(j)
               /\ i.code \notin Occurrences =>
                    (i \in ActiveIn(n) <=> IF id # i THEN i \in ActiveIn(j) ELSE m.op = "observe")
    <3>1. i \in Identities(n) <=> (m.op = "observe" /\ id = i) \/ i \in Identities(j)
      BY <2>2, <2>4, <1>0
    <3>2. CASE id # i BY <3>1, <3>2, <2>2 DEF ActiveIn
    <3>3. CASE id = i BY <3>1, <3>3, <2>2, <1>0, <1>2 DEF ActiveIn
    <3> QED BY <3>1, <3>2, <3>3
  <2>6. ASSUME NEW i \in IdType, OfItem(i)
        PROVE  IsLatestOfItem(n, i) <=> IF OfItem(id) THEN id = i ELSE IsLatestOfItem(j, i)
    BY <2>1, <2>6, <1>0, CommitIsLatest
  <2>7. m.op # "clear" BY <1>0
  <2>8. Meets(e, j, n) BY <2>5, <2>6, <2>7 DEF Meets, m, id
  <2> QED BY <2>2, <2>3, <2>8 DEF n, m
<1>7. CASE ~Commits(j, m)
  <2>1. n = j BY <1>1, <1>7
  <2>2. m.op = "observe" => id \in Identities(j) BY <1>4, <1>7
  <2>3. id.code \notin Occurrences => (id \in ActiveIn(j) <=> m.op = "observe")
    <3>1. CASE m.op = "resolve" BY <3>1, <1>4, <1>7 DEF ActiveIn
    <3>2. CASE m.op = "observe" BY <3>2, <2>2, <1>0, <1>4, <1>7 DEF ActiveIn
    <3> QED BY <3>1, <3>2, <1>0
  <2>4. ASSUME TakesEffect(m, <<>>, j), NEW i \in IdType, OfItem(i)
        PROVE  IsLatestOfItem(j, i) <=> IF OfItem(id) THEN id = i ELSE IsLatestOfItem(j, i)
    <3>1. ASSUME OfItem(id) PROVE IsLatestOfItem(j, id)
      <4>1. id.code \notin Occurrences BY <3>1 DEF OfItem, ItemConditions, Occurrences
      <4>2. WillBeActive(<<>>, j, id) <=> id \in ActiveIn(j) BY DEF WillBeActive, Settles
      <4>3. WillBeLatest(<<>>, j, id) <=> IsLatestOfItem(j, id) BY DEF WillBeLatest, Settles
      <4>4. m.id = id BY DEF m, id
      <4>5. m.op = "observe" BY <4>1, <4>2, <4>4, <2>3, <2>4, <3>1, <1>0 DEF TakesEffect
      <4> QED BY <4>1, <4>2, <4>3, <4>4, <4>5, <2>3, <2>4, <3>1 DEF TakesEffect
    <3>2. ASSUME IsLatestOfItem(j, id), IsLatestOfItem(j, i), OfItem(id) PROVE i = id
      <4>1. /\ i \in Identities(j) /\ id \in Identities(j)
            /\ j.current[i].sequence <= j.current[id].sequence
            /\ j.current[id].sequence <= j.current[i].sequence
        BY <3>2, <2>4 DEF IsLatestOfItem, OfItem
      <4>2. j.current[i].sequence \in Nat /\ j.current[id].sequence \in Nat
        BY <4>1 DEF IsObservations
      <4> QED BY <4>1, <4>2 DEF IsObservations
    <3> QED BY <3>1, <3>2
  <2>5. ASSUME NEW i \in IdType
        PROVE  /\ i \in Identities(j) <=> (m.op = "observe" /\ id = i) \/ i \in Identities(j)
               /\ i.code \notin Occurrences =>
                    (i \in ActiveIn(j) <=> IF id # i THEN i \in ActiveIn(j) ELSE m.op = "observe")
    BY <2>2, <2>3
  <2>6. m.op # "clear" BY <1>0
  <2>7. Meets(e, j, n) BY <2>1, <2>4, <2>5, <2>6 DEF Meets, m, id
  <2> QED BY <2>1, <2>7 DEF n, m
<1> QED BY <1>6, <1>7

\* What a Clear makes of the journal.
LEMMA ClearMeets ==
  ASSUME NEW j, IsObservations(j), NEW e \in Entries, e.change.op = "clear"
  PROVE  /\ Meets(e, j, Cleared(j)) /\ IsObservations(Cleared(j))
         /\ Cleared(j).closed = j.closed /\ Cleared(j).interval = j.interval + 1
<1>1. j = [interval |-> j.interval, sequence |-> j.sequence, retainedThrough |-> j.retainedThrough,
           records |-> j.records, current |-> j.current, closed |-> j.closed]
  BY DEF IsObservations
<1>2. Cleared(j) = [interval |-> j.interval + 1, sequence |-> 0, retainedThrough |-> 0,
                    records |-> <<>>, current |-> <<>>, closed |-> j.closed]
  <2>1. Cleared(j) = [j EXCEPT !.interval = @ + 1, !.sequence = 0, !.retainedThrough = 0,
                               !.records = <<>>, !.current = <<>>]
    BY DEF Cleared
  <2> QED BY <2>1, <1>1
<1> DEFINE n == Cleared(j)
<1>c. /\ n = [interval |-> n.interval, sequence |-> n.sequence,
              retainedThrough |-> n.retainedThrough, records |-> n.records,
              current |-> n.current, closed |-> n.closed]
      /\ n.interval = j.interval + 1 /\ n.sequence = 0 /\ n.current = <<>> /\ n.closed = j.closed
  BY <1>2
<1>d. DOMAIN <<>> = {} OBVIOUS
<1>3. Identities(Cleared(j)) = {} /\ ActiveIn(Cleared(j)) = {}
  BY <1>c, <1>d DEF Identities, ActiveIn
<1>4. \A id : ~IsLatestOfItem(Cleared(j), id) BY <1>3 DEF IsLatestOfItem
<1>5. Meets(e, j, Cleared(j)) BY <1>3, <1>4 DEF Meets
<1>6. /\ j.interval + 1 \in Nat \ {0} /\ 0 \in Nat /\ j.closed \in BOOLEAN
      /\ {} \subseteq IdType /\ IsFiniteSet({})
  BY FS_EmptySet DEF IsObservations
<1>7. IsObservations(Cleared(j)) BY <1>c, <1>3, <1>6 DEF IsObservations
<1> QED BY <1>c, <1>5, <1>7
-----------------------------------------------------------------------------
\* The entries before the last one of a longer queue, and those of a shorter.
LEMMA BeforeGrows ==
  ASSUME NEW q \in Seq(Entries), NEW e \in Entries
  PROVE  /\ Before(Append(q, e), Len(q) + 1) = q
         /\ \A i \in DOMAIN q : Before(Append(q, e), i) = Before(q, i)
<1> DEFINE Q == Append(q, e)
           n == Len(q)
<1>1. /\ DOMAIN q = 1 .. n /\ DOMAIN Q = 1 .. n + 1 /\ n \in Nat
      /\ \A i \in 1 .. n : Q[i] = q[i]
      /\ Q[n + 1] = e
  BY QueueGrows
<1>2. q = [i \in 1 .. n |-> q[i]] OBVIOUS
<1> HIDE DEF Q, n
<1>3. Before(Q, n + 1) = q
  <2>1. (n + 1) - 1 = n BY <1>1
  <2>2. [k \in 1 .. n |-> Q[k]] = [k \in 1 .. n |-> q[k]] BY <1>1
  <2> QED BY <2>1, <2>2, <1>2 DEF Before
<1>4. ASSUME NEW i \in DOMAIN q PROVE Before(Q, i) = Before(q, i) BY <1>1, <1>4 DEF Before
<1> QED BY <1>3, <1>4 DEF Q, n

\* What is before an entry of a queue, without the head.
LEMMA BeforeShrinks ==
  ASSUME NEW q \in Seq(Entries), q # <<>>
  PROVE  /\ Before(q, 1) = <<>>
         /\ \A i \in DOMAIN Tail(q) :
              /\ Before(q, i + 1) \in Seq(Entries) /\ Before(q, i + 1) # <<>>
              /\ Head(Before(q, i + 1)) = Head(q)
              /\ Tail(Before(q, i + 1)) = Before(Tail(q), i)
              /\ DOMAIN Before(Tail(q), i) = 1 .. i - 1
              /\ \A k \in 1 .. i - 1 : Before(Tail(q), i)[k] = Tail(q)[k]
<1> DEFINE t == Tail(q)
           n == Len(q)
<1>1. /\ Head(q) = q[1] /\ DOMAIN q = 1 .. n /\ DOMAIN t = 1 .. n - 1 /\ n \in Nat /\ n >= 1
      /\ \A i \in 1 .. n - 1 : t[i] = q[i + 1]
      /\ \A i \in 1 .. n : q[i] \in Entries
  BY QueueShrinks
<1> HIDE DEF t, n
<1>2. Before(q, 1) = <<>> BY DEF Before
<1>3. ASSUME NEW i \in DOMAIN t
      PROVE  /\ Before(q, i + 1) \in Seq(Entries) /\ Before(q, i + 1) # <<>>
             /\ Head(Before(q, i + 1)) = Head(q)
             /\ Tail(Before(q, i + 1)) = Before(t, i)
             /\ DOMAIN Before(t, i) = 1 .. i - 1
             /\ \A k \in 1 .. i - 1 : Before(t, i)[k] = t[k]
  <2>1. /\ i \in Nat /\ i >= 1 /\ (i + 1) - 1 = i /\ i - 1 \in Nat
        /\ \A k \in 1 .. i : k \in 1 .. n
        /\ \A k \in 1 .. i - 1 : k \in 1 .. n - 1 /\ k + 1 \in 1 .. i
    BY <1>1, <1>3
  <2> DEFINE b == Before(q, i + 1)
  <2>2. b = [k \in 1 .. i |-> q[k]] BY <2>1 DEF Before
  <2>a. b \in [1 .. i -> Entries] BY <2>1, <2>2, <1>1
  <2>3. b \in Seq(Entries) /\ Len(b) = i /\ DOMAIN b = 1 .. i BY <2>1, <2>a
  <2>4. b # <<>> /\ Head(b) = b[1] /\ b[1] = q[1] BY <2>1, <2>2, <2>3
  <2>5. Tail(b) = [k \in 1 .. i - 1 |-> b[k + 1]] BY <2>1, <2>3, <2>4
  <2>6. \A k \in 1 .. i - 1 : b[k + 1] = t[k] BY <2>1, <2>2, <1>1
  <2>7. Tail(b) = Before(t, i) BY <2>5, <2>6 DEF Before
  <2> HIDE DEF b
  <2>8. DOMAIN Before(t, i) = 1 .. i - 1 /\ \A k \in 1 .. i - 1 : Before(t, i)[k] = t[k]
    BY DEF Before
  <2> QED BY <2>3, <2>4, <2>7, <2>8, <1>1 DEF b
<1> QED BY <1>2, <1>3 DEF t

\* A queue whose changes take effect, one that takes effect added.
LEMMA EffectGrows ==
  ASSUME NEW q \in Seq(Entries), NEW e \in Entries, NEW j,
         e.change.op = "clear" \/ (AllTakeEffect(q, j) /\ TakesEffect(e.change, q, j))
  PROVE  AllTakeEffect(Append(q, e), j)
<1> DEFINE Q == Append(q, e)
           n == Len(q)
<1>1. /\ DOMAIN q = 1 .. n /\ DOMAIN Q = 1 .. n + 1 /\ n \in Nat
      /\ \A i \in 1 .. n : Q[i] = q[i]
      /\ Q[n + 1] = e
  BY QueueGrows
<1>2. Before(Q, n + 1) = q /\ \A i \in DOMAIN q : Before(Q, i) = Before(q, i) BY BeforeGrows
<1> HIDE DEF Q, n
<1>3. SUFFICES ASSUME NEW i \in DOMAIN Q, \A k \in DOMAIN Q : k > i => Q[k] \notin Clearing
               PROVE  TakesEffect(Q[i].change, Before(Q, i), j)
  BY DEF AllTakeEffect, Q
<1>4. CASE i = n + 1
  <2>1. CASE e.change.op = "clear"
    BY <1>1, <1>4, <2>1 DEF TakesEffect, Entries, IsMutation, OfItem, ItemConditions, NoId
  <2>2. CASE e.change.op # "clear" BY <2>2, <1>1, <1>2, <1>4
  <2> QED BY <2>1, <2>2
<1>5. CASE i # n + 1
  <2>1. i \in DOMAIN q /\ i \in 1 .. n /\ n + 1 \in DOMAIN Q /\ n + 1 > i BY <1>1, <1>3, <1>5
  <2>2. e.change.op # "clear" BY <2>1, <1>1, <1>3 DEF Clearing
  <2>3. \A k \in DOMAIN q : k > i => q[k] \notin Clearing BY <1>1, <1>3
  <2> QED BY <2>1, <2>2, <2>3, <1>1, <1>2 DEF AllTakeEffect
<1> QED BY <1>4, <1>5

\* They take effect when the first one is executed.
LEMMA EffectShrinks ==
  ASSUME NEW q \in Seq(Entries), q # <<>>, NEW j, NEW j2, AllTakeEffect(q, j),
         (\A k \in DOMAIN Tail(q) : Tail(q)[k] \notin Clearing) => Meets(Head(q), j, j2)
  PROVE  /\ AllTakeEffect(Tail(q), j2)
         /\ (\A k \in DOMAIN Tail(q) : Tail(q)[k] \notin Clearing) =>
              TakesEffect(Head(q).change, <<>>, j)
<1> DEFINE t == Tail(q)
           n == Len(q)
<1>1. /\ Head(q) = q[1] /\ DOMAIN q = 1 .. n /\ DOMAIN t = 1 .. n - 1 /\ n \in Nat /\ n >= 1
      /\ \A i \in 1 .. n - 1 : t[i] = q[i + 1] /\ i + 1 \in 1 .. n
      /\ \A i \in 1 .. n : q[i] \in Entries
      /\ \A k \in 1 .. n : k > 1 => k - 1 \in 1 .. n - 1 /\ (k - 1) + 1 = k
  BY QueueShrinks
<1>2. /\ Before(q, 1) = <<>>
      /\ \A i \in DOMAIN t :
           /\ Before(q, i + 1) \in Seq(Entries) /\ Before(q, i + 1) # <<>>
           /\ Head(Before(q, i + 1)) = Head(q)
           /\ Tail(Before(q, i + 1)) = Before(t, i)
           /\ DOMAIN Before(t, i) = 1 .. i - 1
           /\ \A k \in 1 .. i - 1 : Before(t, i)[k] = t[k]
  BY BeforeShrinks
<1> HIDE DEF t, n
<1>3. ASSUME \A k \in DOMAIN t : t[k] \notin Clearing PROVE TakesEffect(Head(q).change, <<>>, j)
  <2>1. ASSUME NEW k \in DOMAIN q, k > 1 PROVE q[k] \notin Clearing BY <1>3, <2>1, <1>1
  <2>2. 1 \in DOMAIN q BY <1>1
  <2> QED BY <2>1, <2>2, <1>1, <1>2 DEF AllTakeEffect
<1>4. ASSUME NEW i \in DOMAIN t, \A k \in DOMAIN t : k > i => t[k] \notin Clearing
      PROVE  TakesEffect(t[i].change, Before(t, i), j2)
  <2>1. /\ i \in 1 .. n - 1 /\ i + 1 \in DOMAIN q /\ t[i] = q[i + 1] /\ i \in Nat /\ i + 1 > 1
        /\ q[i + 1] \in Entries
    BY <1>1, <1>4
  <2>2. ASSUME NEW k \in DOMAIN q, k > i + 1 PROVE q[k] \notin Clearing
    BY <1>4, <2>1, <2>2, <1>1
  <2> DEFINE b == Before(q, i + 1)
             m == t[i].change
  <2>3. TakesEffect(m, b, j) BY <2>1, <2>2 DEF AllTakeEffect
  <2>4. b \in Seq(Entries) /\ b # <<>> /\ Head(b) = Head(q) /\ Tail(b) = Before(t, i) BY <1>2
  <2> HIDE DEF b
  <2>5. CASE m.op = "clear"
    BY <2>1, <2>5 DEF TakesEffect, Entries, IsMutation, OfItem, ItemConditions, NoId
  <2>6. CASE m.op # "clear"
    <3>1. ASSUME \A k \in DOMAIN Tail(b) : Tail(b)[k] \notin Clearing
          PROVE  \A k \in DOMAIN t : t[k] \notin Clearing
      <4> SUFFICES ASSUME NEW k \in DOMAIN t, k <= i PROVE t[k] \notin Clearing BY <1>1, <1>4
      <4>1. CASE k = i BY <4>1, <2>6 DEF Clearing
      <4>2. CASE k # i
        <5>1. k \in 1 .. i - 1 BY <4>2, <2>1, <1>1
        <5> QED BY <5>1, <3>1, <2>4, <1>2
      <4> QED BY <4>1, <4>2
    <3>2. (\A k \in DOMAIN Tail(b) : Tail(b)[k] \notin Clearing) => Meets(Head(b), j, j2)
      BY <3>1, <2>4 DEF t
    <3>3. (\A k \in DOMAIN Tail(b) : Tail(b)[k] \notin Clearing)
            => TakesEffect(Head(b).change, <<>>, j)
      BY <3>1, <2>4, <1>3
    <3>4. ASSUME OfItem(m.id)
          PROVE  /\ WillBeActive(Tail(b), j2, m.id) <=> WillBeActive(b, j, m.id)
                 /\ WillBeLatest(Tail(b), j2, m.id) <=> WillBeLatest(b, j, m.id)
      <4>1. m.id \in IdType BY <2>1 DEF Entries
      <4>2. m.id.code \notin Occurrences BY <3>4 DEF OfItem, ItemConditions, Occurrences
      <4> QED BY <4>1, <4>2, <3>2, <3>3, <3>4, <2>4, HeadDecides
    <3> QED BY <3>4, <2>3, <2>4 DEF TakesEffect
  <2> QED BY <2>5, <2>6
<1> QED BY <1>3, <1>4 DEF AllTakeEffect, t
-----------------------------------------------------------------------------
\* An observation that is queued keeps the agreement: its condition is
\* presented, held or active from then on.  A condition of the item may be
\* active already only if it is the one that is held.
LEMMA ObserveKeeps ==
  ASSUME NEW q \in Seq(Entries), NEW e \in Entries, NEW j, NEW shown, NEW shown2,
         NEW held, NEW held2, NEW c, NEW c2, NEW act, NEW act2, NEW since,
         NEW n \in Nat, NEW n2 \in Nat, n <= n2, e.change.op = "observe",
         Agrees(q, j, shown, held, c, act, since, n),
         Range(shown2) \subseteq Range(shown) \cup {e.change.id},
         held2 \subseteq held \cup {e.change.id},
         c2 = IF OfItem(e.change.id) THEN e.change.id ELSE c,
         act2 = IF e.change.id.code \in RuntimeConditions THEN act \cup {e.change.id} ELSE act,
         since = 0 /\ OfItem(e.change.id) /\ WillHaveRoom(q, j) =>
           /\ e.change.id.at <= n2
           /\ WillBeActive(q, j, e.change.id) => e.change.id = c
           /\ \A i \in IdType : OfItem(i) /\ WillBeActive(q, j, i) /\ i.affected = "item" =>
                i = e.change.id
  PROVE  Agrees(Append(q, e), j, shown2, held2, c2, act2, since, n2)
<1> DEFINE Q == Append(q, e)
           id == e.change.id
<1>1. e.change.op = "observe" /\ e.change.op # "clear" /\ id \in IdType BY DEF Entries
<1>2. \A i : /\ WillBeActive(Q, j, i) <=> IF id # i THEN WillBeActive(q, j, i) ELSE TRUE
             /\ WillBeKnown(Q, j, i) <=> id = i \/ WillBeKnown(q, j, i)
             /\ OfItem(i) =>
                  (WillBeLatest(Q, j, i) <=> IF OfItem(id) THEN id = i ELSE WillBeLatest(q, j, i))
  BY <1>1, EntryDecides
<1>3. WillHaveRoom(Q, j) => WillHaveRoom(q, j) BY QueueGrows, <1>1 DEF WillHaveRoom, Clearing
<1> SUFFICES ASSUME WillHaveRoom(q, j)
             PROVE  Agreement(Q, j, shown2, held2, act2) /\ (since = 0 => ItemAgrees(Q, j, c2, n2))
  BY <1>3 DEF Agrees
<1>4. Agreement(q, j, shown, held, act) /\ (since = 0 => ItemAgrees(q, j, c, n)) BY DEF Agrees
<1>5. Agreement(Q, j, shown2, held2, act2)
  <2>1. ASSUME NEW i \in Range(shown2)
        PROVE  IF i.code \in Occurrences THEN WillBeKnown(Q, j, i) ELSE WillBeActive(Q, j, i)
    BY <2>1, <1>2, <1>4 DEF Agreement
  <2>2. ASSUME NEW i \in held2 PROVE WillBeActive(Q, j, i) BY <2>2, <1>2, <1>4 DEF Agreement
  <2>3. ASSUME NEW i \in IdType, i.code \in RuntimeConditions
        PROVE  WillBeActive(Q, j, i) <=> i \in act2
    BY <2>3, <1>2, <1>4 DEF Agreement
  <2> QED BY <2>1, <2>2, <2>3 DEF Agreement
<1>6. ASSUME since = 0 PROVE ItemAgrees(Q, j, c2, n2)
  <2>1. /\ AllTakeEffect(q, j)
        /\ c # NoId => OfItem(c) /\ WillBeLatest(q, j, c)
        /\ \A i \in IdType : OfItem(i) /\ WillBeActive(q, j, i) =>
             i.at <= n /\ (WillBeLatest(q, j, i) \/ i.affected = "item" => i = c)
    BY <1>4, <1>6 DEF ItemAgrees
  <2>2. OfItem(id) /\ WillBeActive(q, j, id) => WillBeLatest(q, j, id)
    BY <2>1, <1>6 DEF OfItem, ItemConditions, NoId
  <2>3. AllTakeEffect(Q, j) BY <2>1, <2>2, <1>1, EffectGrows DEF TakesEffect
  <2>4. c2 # NoId => OfItem(c2) /\ WillBeLatest(Q, j, c2) BY <2>1, <1>2
  <2>5. ASSUME NEW i \in IdType, OfItem(i), WillBeActive(Q, j, i)
        PROVE  i.at <= n2 /\ (WillBeLatest(Q, j, i) \/ i.affected = "item" => i = c2)
    <3>1. CASE i = id BY <3>1, <2>5, <1>6
    <3>2. CASE i # id
      <4>1. WillBeActive(q, j, i) BY <3>2, <2>5, <1>2
      <4>2. i.at \in Nat /\ i.at <= n2 BY <4>1, <2>1, <2>5, DiagnosticsAssumption DEF IdType
      <4> QED BY <3>2, <4>1, <4>2, <2>1, <2>5, <1>2, <1>6
    <3> QED BY <3>1, <3>2
  <2> QED BY <2>3, <2>4, <2>5 DEF ItemAgrees
<1> QED BY <1>5, <1>6

\* A resolution that is queued keeps it: its condition is no longer presented,
\* held or active.
LEMMA ResolveKeeps ==
  ASSUME NEW q \in Seq(Entries), NEW e \in Entries, NEW j, NEW shown, NEW shown2,
         NEW held, NEW held2, NEW c, NEW c2, NEW act, NEW act2, NEW since,
         NEW n \in Nat, e.change.op = "resolve",
         Agrees(q, j, shown, held, c, act, since, n),
         Range(shown2) \subseteq Range(shown) \ {e.change.id},
         held2 \subseteq held \ {e.change.id},
         c2 = IF OfItem(e.change.id) THEN NoId ELSE c,
         act2 = act \ {e.change.id},
         OfItem(e.change.id) => e.change.id = c /\ e.change.id \in held
  PROVE  Agrees(Append(q, e), j, shown2, held2, c2, act2, since, n)
<1> DEFINE Q == Append(q, e)
           id == e.change.id
<1>1. e.change.op = "resolve" /\ e.change.op # "clear" /\ e.change.op # "observe" /\ id \in IdType
  BY DEF Entries
<1>2. \A i : /\ WillBeActive(Q, j, i) <=> id # i /\ WillBeActive(q, j, i)
             /\ WillBeKnown(Q, j, i) <=> WillBeKnown(q, j, i)
             /\ OfItem(i) =>
                  (WillBeLatest(Q, j, i) <=> IF OfItem(id) THEN id = i ELSE WillBeLatest(q, j, i))
  BY <1>1, EntryDecides
<1>3. WillHaveRoom(Q, j) => WillHaveRoom(q, j) BY QueueGrows, <1>1 DEF WillHaveRoom, Clearing
<1> SUFFICES ASSUME WillHaveRoom(q, j)
             PROVE  Agreement(Q, j, shown2, held2, act2) /\ (since = 0 => ItemAgrees(Q, j, c2, n))
  BY <1>3 DEF Agrees
<1>4. Agreement(q, j, shown, held, act) /\ (since = 0 => ItemAgrees(q, j, c, n)) BY DEF Agrees
<1>5. Agreement(Q, j, shown2, held2, act2)
  <2>1. ASSUME NEW i \in Range(shown2)
        PROVE  IF i.code \in Occurrences THEN WillBeKnown(Q, j, i) ELSE WillBeActive(Q, j, i)
    BY <2>1, <1>2, <1>4 DEF Agreement
  <2>2. ASSUME NEW i \in held2 PROVE WillBeActive(Q, j, i) BY <2>2, <1>2, <1>4 DEF Agreement
  <2>3. ASSUME NEW i \in IdType, i.code \in RuntimeConditions
        PROVE  WillBeActive(Q, j, i) <=> i \in act2
    BY <2>3, <1>2, <1>4 DEF Agreement
  <2> QED BY <2>1, <2>2, <2>3 DEF Agreement
<1>6. ASSUME since = 0 PROVE ItemAgrees(Q, j, c2, n)
  <2>1. /\ AllTakeEffect(q, j)
        /\ c # NoId => OfItem(c) /\ WillBeLatest(q, j, c)
        /\ \A i \in IdType : OfItem(i) /\ WillBeActive(q, j, i) =>
             i.at <= n /\ (WillBeLatest(q, j, i) \/ i.affected = "item" => i = c)
    BY <1>4, <1>6 DEF ItemAgrees
  <2>2. OfItem(id) => WillBeActive(q, j, id) BY <1>4 DEF Agreement
  <2>3. AllTakeEffect(Q, j) BY <2>1, <2>2, <1>1, EffectGrows DEF TakesEffect
  <2>4. c2 # NoId => OfItem(c2) /\ WillBeLatest(Q, j, c2) BY <2>1, <1>2
  <2>5. ASSUME NEW i \in IdType, OfItem(i), WillBeActive(Q, j, i)
        PROVE  i.at <= n /\ (WillBeLatest(Q, j, i) \/ i.affected = "item" => i = c2)
    BY <2>1, <2>5, <1>2
  <2> QED BY <2>3, <2>4, <2>5 DEF ItemAgrees
<1> QED BY <1>5, <1>6

\* Less may be presented and held, and more Evidence applied.
LEMMA LessAgrees ==
  ASSUME NEW q, NEW j, NEW shown, NEW shown2, NEW held, NEW held2, NEW c, NEW act,
         NEW since, NEW n \in Nat, NEW n2 \in Nat, n <= n2,
         Agrees(q, j, shown, held, c, act, since, n),
         \A id \in Range(shown2) : id \in Range(shown) \/ (id \in act /\ id \in RuntimeIds),
         held2 \subseteq held
  PROVE  Agrees(q, j, shown2, held2, c, act, since, n2)
<1> SUFFICES ASSUME WillHaveRoom(q, j)
             PROVE  Agreement(q, j, shown2, held2, act) /\ (since = 0 => ItemAgrees(q, j, c, n2))
  BY DEF Agrees
<1>1. Agreement(q, j, shown, held, act) /\ (since = 0 => ItemAgrees(q, j, c, n)) BY DEF Agrees
<1>2. \A id \in RuntimeIds : id \in IdType /\ id.code \notin Occurrences /\ id.code \in RuntimeConditions
  BY DEF RuntimeIds, RuntimeConditions, Occurrences
<1>3. Agreement(q, j, shown2, held2, act) BY <1>1, <1>2 DEF Agreement
<1>4. \A id \in IdType : id.at \in Nat BY DiagnosticsAssumption DEF IdType
<1>5. \A id \in IdType : id.at <= n => id.at <= n2 BY <1>4
<1>6. ItemAgrees(q, j, c, n) => ItemAgrees(q, j, c, n2) BY <1>5 DEF ItemAgrees
<1> QED BY <1>1, <1>3, <1>6

\* After a Clear there is nothing that could agree or not.
LEMMA ClearAgrees ==
  ASSUME NEW q \in Seq(Entries), NEW e \in Entries, NEW j, NEW since, e.change.op = "clear"
  PROVE  Agrees(Append(q, e), j, <<>>, {}, NoId, {}, since, 0)
<1> DEFINE Q == Append(q, e)
<1>1. \A i : ~WillBeActive(Q, j, i) BY EntryDecides
<1>2. AllTakeEffect(Q, j) BY EffectGrows
<1>3. Range(<<>>) = {} BY DEF Range
<1> QED BY <1>1, <1>2, <1>3 DEF Agrees, Agreement, ItemAgrees

\* The agreement stays when the first entry is executed.
LEMMA ExecuteKeeps ==
  ASSUME NEW q \in Seq(Entries), q # <<>>, NEW j, NEW j2, NEW shown \in Seq(IdType),
         NEW held, NEW c \in IdType, NEW act, NEW since, NEW n,
         Agrees(q, j, shown, held, c, act, since, n),
         held \subseteq {id \in IdType : id.code \notin Occurrences},
         WillHaveRoom(Tail(q), j2) => WillHaveRoom(q, j),
         WillHaveRoom(Tail(q), j2) /\ (\A k \in DOMAIN Tail(q) : Tail(q)[k] \notin Clearing) =>
           Meets(Head(q), j, j2)
  PROVE  Agrees(Tail(q), j2, shown, held, c, act, since, n)
<1> DEFINE t == Tail(q)
<1> SUFFICES ASSUME WillHaveRoom(t, j2)
             PROVE  Agreement(t, j2, shown, held, act) /\ (since = 0 => ItemAgrees(t, j2, c, n))
  BY DEF Agrees
<1>1. Agreement(q, j, shown, held, act) /\ (since = 0 => ItemAgrees(q, j, c, n)) BY DEF Agrees
<1>2. (\A k \in DOMAIN t : t[k] \notin Clearing) => Meets(Head(q), j, j2) OBVIOUS
<1>3. \A id \in IdType :
        /\ id.code \notin Occurrences => (WillBeActive(t, j2, id) <=> WillBeActive(q, j, id))
        /\ WillBeKnown(t, j2, id) <=> WillBeKnown(q, j, id)
  BY <1>2, HeadDecides
<1>4. Range(shown) \subseteq IdType BY DEF Range
<1>5. Agreement(t, j2, shown, held, act)
  BY <1>1, <1>3, <1>4 DEF Agreement, RuntimeConditions, Occurrences
<1>6. ASSUME since = 0 PROVE ItemAgrees(t, j2, c, n)
  <2>1. /\ AllTakeEffect(q, j)
        /\ c # NoId => OfItem(c) /\ WillBeLatest(q, j, c)
        /\ \A i \in IdType : OfItem(i) /\ WillBeActive(q, j, i) =>
             i.at <= n /\ (WillBeLatest(q, j, i) \/ i.affected = "item" => i = c)
    BY <1>1, <1>6 DEF ItemAgrees
  <2>2. /\ AllTakeEffect(t, j2)
        /\ (\A k \in DOMAIN t : t[k] \notin Clearing) => TakesEffect(Head(q).change, <<>>, j)
    BY <2>1, <1>2, EffectShrinks
  <2>3. \A id \in IdType : OfItem(id) =>
          /\ WillBeLatest(t, j2, id) <=> WillBeLatest(q, j, id)
          /\ WillBeActive(t, j2, id) <=> WillBeActive(q, j, id)
    BY <2>2, <1>2, <1>3, HeadDecides DEF OfItem, ItemConditions, Occurrences
  <2> QED BY <2>1, <2>2, <2>3 DEF ItemAgrees
<1> QED BY <1>5, <1>6
-----------------------------------------------------------------------------
\* The Clears of a queue are counted as they come and as they go.
LEMMA ClearsCount ==
  ASSUME NEW q \in Seq(Entries)
  PROVE  /\ ClearsIn(q) \in Nat /\ ClearsIn(<<>>) = 0
         /\ \A e \in Entries : ClearsIn(Append(q, e)) =
              IF e.change.op = "clear" THEN ClearsIn(q) + 1 ELSE ClearsIn(q)
         /\ q # <<>> => ClearsIn(q) =
              IF Head(q).change.op = "clear" THEN ClearsIn(Tail(q)) + 1 ELSE ClearsIn(Tail(q))
<1> DEFINE n == Len(q)
           S == {i \in DOMAIN q : q[i] \in Clearing}
<1>1. DOMAIN q = 1 .. n /\ n \in Nat OBVIOUS
<1>2. IsFiniteSet(S) /\ Cardinality(S) \in Nat
  <2>1. IsFiniteSet(1 .. n) /\ S \in SUBSET (1 .. n) BY <1>1, FS_Interval
  <2>2. IsFiniteSet(S) BY <2>1, FS_Subset
  <2> QED BY <2>2, FS_CardinalityType
<1>3. ClearsIn(<<>>) = 0 BY FS_EmptySet DEF ClearsIn
<1> HIDE DEF n
<1>4. ASSUME NEW e \in Entries PROVE ClearsIn(Append(q, e)) =
               IF e.change.op = "clear" THEN ClearsIn(q) + 1 ELSE ClearsIn(q)
  <2> DEFINE Q == Append(q, e)
  <2>1. /\ DOMAIN Q = 1 .. n + 1 /\ Q[n + 1] = e /\ \A i \in 1 .. n : Q[i] = q[i]
    BY QueueGrows DEF n
  <2> HIDE DEF Q
  <2>2. {i \in DOMAIN Q : Q[i] \in Clearing} = IF e \in Clearing THEN S \cup {n + 1} ELSE S
    <3>1. \A i \in DOMAIN Q : i = n + 1 \/ i \in 1 .. n BY <2>1, <1>1
    <3>2. \A i \in 1 .. n : i \in DOMAIN Q /\ i # n + 1 BY <2>1, <1>1
    <3>3. n + 1 \in DOMAIN Q BY <2>1, <1>1
    <3> QED BY <3>1, <3>2, <3>3, <2>1, <1>1
  <2>3. n + 1 \notin S BY <1>1
  <2>4. e \in Clearing <=> e.change.op = "clear" BY DEF Clearing
  <2>5. Cardinality(S \cup {n + 1}) = Cardinality(S) + 1 BY <1>2, <2>3, FS_AddElement
  <2> HIDE DEF S
  <2>6. CASE e.change.op = "clear" BY <2>2, <2>4, <2>5, <2>6 DEF ClearsIn, Q, S
  <2>7. CASE e.change.op # "clear" BY <2>2, <2>4, <2>7 DEF ClearsIn, Q, S
  <2> QED BY <2>6, <2>7
<1>5. ASSUME q # <<>> PROVE ClearsIn(q) =
               IF Head(q).change.op = "clear" THEN ClearsIn(Tail(q)) + 1 ELSE ClearsIn(Tail(q))
  <2> DEFINE t == Tail(q)
             T == {i \in DOMAIN t : t[i] \in Clearing}
             later == {i \in S : i # 1}
             f == [i \in T |-> i + 1]
  <2>1. /\ Head(q) = q[1] /\ q[1] \in Entries /\ n >= 1 /\ DOMAIN t = 1 .. n - 1
        /\ \A i \in 1 .. n - 1 : t[i] = q[i + 1] /\ i \in Nat /\ i + 1 \in 1 .. n /\ i + 1 # 1
        /\ \A i \in 1 .. n : i # 1 => i - 1 \in 1 .. n - 1 /\ (i - 1) + 1 = i
    BY <1>5, QueueShrinks DEF n
  <2> HIDE DEF t
  <2>2. f \in Bijection(T, later)
    <3>1. f \in [T -> later] BY <2>1, <1>1
    <3>2. \A a, b \in T : f[a] = f[b] => a = b BY <2>1
    <3>3. \A i \in later : \E k \in T : f[k] = i
      <4> TAKE i \in later
      <4>1. i - 1 \in DOMAIN t /\ t[i - 1] = q[i] /\ (i - 1) + 1 = i BY <2>1, <1>1
      <4>2. i - 1 \in T /\ f[i - 1] = i BY <4>1
      <4> QED BY <4>2
    <3> QED BY <3>1, <3>2, <3>3 DEF Bijection, Injection, Surjection, IsInjective
  <2>3. IsFiniteSet(1 .. n - 1) /\ T \in SUBSET (1 .. n - 1) BY <2>1, <1>1, FS_Interval
  <2>4. IsFiniteSet(T) BY <2>3, FS_Subset
  <2>5. IsFiniteSet(later) /\ Cardinality(later) = Cardinality(T)
    BY <2>2, <2>4, FS_Bijection DEF ExistsBijection
  <2>6. q[1] \in Clearing <=> Head(q).change.op = "clear" BY <2>1 DEF Clearing
  <2>7. S = IF q[1] \in Clearing THEN later \cup {1} ELSE later BY <2>1, <1>1
  <2>8. Cardinality(later \cup {1}) = Cardinality(later) + 1 BY <2>5, FS_AddElement
  <2> HIDE DEF S, T, later
  <2>9. CASE Head(q).change.op = "clear" BY <2>5, <2>6, <2>7, <2>8, <2>9 DEF ClearsIn, S, T, t
  <2>10. CASE Head(q).change.op # "clear" BY <2>5, <2>6, <2>7, <2>10 DEF ClearsIn, S, T, t
  <2> QED BY <2>9, <2>10
<1> QED BY <1>2, <1>3, <1>4, <1>5 DEF ClearsIn

\* What is remembered is presented, once, and within the limit.
LEMMA RememberFits ==
  ASSUME NEW shown \in Seq(IdType), Fits(shown), NEW id \in IdType
  PROVE  LET more == rememberPresentation(shown, id)
         IN  more \in Seq(IdType) /\ Fits(more) /\ Range(more) \subseteq Range(shown) \cup {id}
<1> DEFINE kept == IF Contains(shown, id) THEN shown ELSE Append(shown, id)
           l == Len(kept)
           m == Larger(1, l - PresentationLimit + 1)
           more == SubSeq(kept, m, l)
<1>1. /\ kept \in Seq(IdType) /\ l \in Nat /\ DOMAIN kept = 1 .. l
      /\ \A i \in 1 .. l : kept[i] \in Range(shown) \cup {id}
      /\ \A a, b \in 1 .. l : kept[a] = kept[b] => a = b
  <2>1. CASE Contains(shown, id) BY <2>1 DEF Fits, IsInjective, Range
  <2>2. CASE ~Contains(shown, id)
    <3>1. /\ kept \in Seq(IdType) /\ l = Len(shown) + 1 /\ l \in Nat /\ DOMAIN kept = 1 .. l
          /\ \A i \in 1 .. Len(shown) : kept[i] = shown[i]
          /\ kept[Len(shown) + 1] = id /\ Len(shown) \in Nat /\ DOMAIN shown = 1 .. Len(shown)
      BY <2>2
    <3>2. \A i \in 1 .. Len(shown) : kept[i] # id BY <2>2, <3>1 DEF Contains
    <3> HIDE DEF kept, l
    <3>3. \A i \in 1 .. l : i = Len(shown) + 1 \/ i \in 1 .. Len(shown) BY <3>1
    <3>4. \A a, b \in 1 .. Len(shown) : shown[a] = shown[b] => a = b
      BY <3>1 DEF Fits, IsInjective
    <3>5. ASSUME NEW a \in 1 .. l, NEW b \in 1 .. l, kept[a] = kept[b] PROVE a = b
      BY <3>1, <3>2, <3>3, <3>4, <3>5
    <3>6. \A i \in 1 .. l : kept[i] \in Range(shown) \cup {id} BY <3>1, <3>3 DEF Range
    <3> QED BY <3>1, <3>5, <3>6
  <2> QED BY <2>1, <2>2
<1> HIDE DEF kept, l
<1>2. /\ m \in Nat /\ m >= 1 /\ l - m + 1 <= PresentationLimit /\ PresentationLimit \in Nat
      /\ m <= l + 1 /\ l - m + 1 \in Nat
  BY <1>1, DiagnosticsAssumption DEF Larger
<1> HIDE DEF m
<1>3. /\ more \in Seq(IdType) /\ Len(more) = l - m + 1 /\ DOMAIN more = 1 .. l - m + 1
      /\ \A i \in 1 .. l - m + 1 : more[i] = kept[i + m - 1]
  BY <1>1, <1>2
<1>4. \A i \in 1 .. l - m + 1 : i + m - 1 \in 1 .. l BY <1>1, <1>2
<1> HIDE DEF more
<1>5. ASSUME NEW a \in 1 .. l - m + 1, NEW b \in 1 .. l - m + 1, more[a] = more[b] PROVE a = b
  BY <1>2, <1>1, <1>3, <1>4, <1>5
<1>6. Fits(more) BY <1>2, <1>3, <1>5 DEF Fits, IsInjective
<1>7. Range(more) \subseteq Range(shown) \cup {id} BY <1>1, <1>3, <1>4 DEF Range
<1>8. more = rememberPresentation(shown, id) BY DEF rememberPresentation, more, m, l, kept
<1> QED BY <1>3, <1>6, <1>7, <1>8

\* What is left of a list without its d-th entry.
LEMMA WithoutOne ==
  ASSUME NEW s \in Seq(IdType), NEW l \in Nat, Len(s) = l, NEW d \in Nat, d >= 1, d <= l
  PROVE  LET less == SubSeq(s, 1, d - 1) \o SubSeq(s, d + 1, l)
         IN  /\ less \in Seq(IdType) /\ Len(less) = l - 1
             /\ \A i \in 1 .. l - 1 : less[i] = IF i <= d - 1 THEN s[i] ELSE s[i + 1]
<1> DEFINE front == SubSeq(s, 1, d - 1)
           back == SubSeq(s, d + 1, l)
<1>1. /\ front \in Seq(IdType) /\ Len(front) = d - 1
      /\ \A i \in 1 .. d - 1 : front[i] = s[i]
  OBVIOUS
<1>2. back \in Seq(IdType) /\ Len(back) = l - d /\ \A i \in 1 .. l - d : back[i] = s[i + d]
  OBVIOUS
<1> HIDE DEF front, back
<1>s. front \in Seq(IdType) /\ back \in Seq(IdType) BY <1>1, <1>2
<1>3. /\ front \o back \in Seq(IdType) /\ Len(front \o back) = Len(front) + Len(back)
      /\ \A i \in 1 .. Len(front) + Len(back) :
           (front \o back)[i] = IF i <= Len(front) THEN front[i] ELSE back[i - Len(front)]
  BY <1>s
<1>4. ASSUME NEW i \in 1 .. l - 1
      PROVE  (front \o back)[i] = IF i <= d - 1 THEN s[i] ELSE s[i + 1]
  <2>1. i \in 1 .. Len(front) + Len(back) BY <1>1, <1>2
  <2>2. CASE i <= d - 1 BY <2>1, <2>2, <1>1, <1>3
  <2>3. CASE ~(i <= d - 1)
    <3>1. i - (d - 1) \in 1 .. l - d /\ (i - (d - 1)) + d = i + 1 BY <2>3
    <3>2. (front \o back)[i] = back[i - Len(front)] BY <2>1, <2>3, <1>1, <1>3
    <3>3. back[i - (d - 1)] = s[(i - (d - 1)) + d] BY <3>1, <1>2
    <3>4. (front \o back)[i] = s[i + 1] BY <3>1, <3>2, <3>3, <1>1
    <3> QED BY <2>3, <3>4
  <2> QED BY <2>2, <2>3
<1>5. Len(front \o back) = l - 1 BY <1>1, <1>2, <1>3
<1> QED BY <1>3, <1>4, <1>5 DEF front, back

\* What is forgotten is no longer presented.
LEMMA ForgetFits ==
  ASSUME NEW shown \in Seq(IdType), Fits(shown), NEW id
  PROVE  LET less == forgetPresentation(shown, id)
         IN  less \in Seq(IdType) /\ Fits(less) /\ Range(less) \subseteq Range(shown) \ {id}
<1> DEFINE l == Len(shown)
<1>1. l \in Nat /\ DOMAIN shown = 1 .. l /\ \A i \in 1 .. l : shown[i] \in IdType OBVIOUS
<1>2. \A a, b \in 1 .. l : shown[a] = shown[b] => a = b BY <1>1 DEF Fits, IsInjective
<1>3. CASE ~Contains(shown, id) BY <1>3, <1>1 DEF forgetPresentation, Contains, Range
<1>4. CASE Contains(shown, id)
  <2> DEFINE d == CHOOSE i \in DOMAIN shown : shown[i] = id
             less == SubSeq(shown, 1, d - 1) \o SubSeq(shown, d + 1, l)
  <2>1. d \in 1 .. l /\ shown[d] = id BY <1>1, <1>4 DEF Contains
  <2>2. forgetPresentation(shown, id) = less BY <1>4 DEF forgetPresentation, RemoveAt
  <2> HIDE DEF d
  <2>3. d \in Nat /\ d >= 1 /\ d <= l BY <2>1, <1>1
  <2>5. /\ less \in Seq(IdType) /\ Len(less) = l - 1
        /\ \A i \in 1 .. l - 1 : less[i] = IF i <= d - 1 THEN shown[i] ELSE shown[i + 1]
    BY <2>3, <1>1, WithoutOne
  <2> HIDE DEF less
  <2>6. DOMAIN less = 1 .. l - 1 BY <2>5
  <2>7. ASSUME NEW i \in 1 .. l - 1
        PROVE  /\ less[i] = shown[IF i <= d - 1 THEN i ELSE i + 1]
               /\ (IF i <= d - 1 THEN i ELSE i + 1) \in 1 .. l
               /\ (IF i <= d - 1 THEN i ELSE i + 1) # d
    BY <2>3, <2>5, <1>1
  <2>8. ASSUME NEW a \in 1 .. l - 1, NEW b \in 1 .. l - 1, less[a] = less[b] PROVE a = b
    BY <2>3, <1>1, <2>7, <2>8, <1>2
  <2>9. Fits(less) BY <2>5, <2>6, <2>8, <1>1, DiagnosticsAssumption DEF Fits, IsInjective
  <2>10. \A i \in DOMAIN less : less[i] \in Range(shown) \ {id}
    <3> TAKE i \in DOMAIN less
    <3>1. PICK k \in 1 .. l : less[i] = shown[k] /\ k # d BY <2>6, <2>7
    <3> QED BY <3>1, <2>1, <1>1, <1>2 DEF Range
  <2> QED BY <2>2, <2>5, <2>9, <2>10 DEF Range
<1> QED BY <1>3, <1>4
-----------------------------------------------------------------------------
\* An observation may be queued.
LEMMA ObservationIsEntry ==
  ASSUME NEW id \in IdType, NEW x \in Nat, NEW advisory \in BOOLEAN
  PROVE  LET e == [change |-> Observe(id, x), advisory |-> advisory]
         IN  e \in Entries /\ e.change.op = "observe" /\ e.change.id = id
<1> DEFINE o == id.code \in Occurrences
           m == [op |-> "observe", id |-> id, content |-> x, occurrence |-> o]
           e == [change |-> m, advisory |-> advisory]
<1>1. o \in BOOLEAN /\ (id.code \in Occurrences) = o OBVIOUS
<1> HIDE DEF o
<1>2. /\ m \in [op : {"observe", "resolve", "clear"}, id : IdType, content : Nat, occurrence : BOOLEAN]
      /\ m.op = "observe" /\ m.id = id /\ m.occurrence = o
  BY <1>1
<1>3. Observe(id, x) = m BY <1>1 DEF Observe, o
<1> HIDE DEF m
<1>4. IsMutation(m)
  <2>1. m.occurrence = (m.id.code \in Occurrences) BY <1>1, <1>2, Zenon
  <2> QED BY <2>1, <1>2 DEF IsMutation
<1>5. e.change = m OBVIOUS
<1>6. e \in [change : [op : {"observe", "resolve", "clear"}, id : IdType, content : Nat,
                              occurrence : BOOLEAN], advisory : BOOLEAN]
  BY <1>2
<1>7. e \in Entries BY <1>4, <1>5, <1>6 DEF Entries
<1> QED BY <1>2, <1>3, <1>5, <1>7

\* An observation is recorded: presented and queued.
LEMMA ObserveRecorded ==
  ASSUME NEW s, NEW held, NEW held2, NEW c, NEW c2, NEW act, NEW act2, NEW n \in Nat,
         NEW n2 \in Nat, NEW k \in Nat, NEW id \in IdType, NEW x \in Nat, NEW s2 \in WithObservation(s, id, x),
         Coherent(s, held, c, act, n, k), n <= n2, observations.interval \in Nat,
         ObserveChanges(id, held, c, act, held2, c2, act2), Admits(s, id, c, n2)
  PROVE  /\ Coherent(s2, held2, c2, act2, n2, k)
         /\ s2.activeRuntime = s.activeRuntime /\ s2.dismissed = s.dismissed
<1>0. PICK advisory \in BOOLEAN :
        s2 = queued([s EXCEPT !.presentations = rememberPresentation(@, id)],
                    Observe(id, x), advisory)
  BY DEF WithObservation
<1> DEFINE more == rememberPresentation(s.presentations, id)
           e == [change |-> Observe(id, x), advisory |-> advisory]
           q == Append(s.queue, e)
           s1 == [s EXCEPT !.presentations = more]
<1>1. /\ s \in States /\ Fits(s.presentations) /\ (failed => s.queue = <<>>)
      /\ observations.interval + ClearsIn(s.queue) <= k
      /\ s.queue \in Seq(Entries) /\ s.presentations \in Seq(IdType)
  BY DEF Coherent, States
<1>2. more \in Seq(IdType) /\ Fits(more) /\ Range(more) \subseteq Range(s.presentations) \cup {id}
  BY <1>1, RememberFits
<1>3. /\ e \in Entries /\ e.change.op = "observe" /\ e.change.id = id BY ObservationIsEntry
<1>4. s2 = IF failed THEN s1 ELSE [s1 EXCEPT !.queue = Append(s1.queue, e)] BY <1>0 DEF queued
<1> HIDE DEF more, e
<1>5. /\ s1 \in States /\ s1.queue = s.queue /\ s1.presentations = more
      /\ s1.activeRuntime = s.activeRuntime /\ s1.dismissed = s.dismissed
  BY <1>1, <1>2 DEF States
<1> HIDE DEF s1
<1>6. CASE failed BY <1>1, <1>2, <1>4, <1>5, <1>6 DEF Coherent
<1>7. CASE ~failed
  <2>1. q \in Seq(Entries) BY <1>1, <1>3
  <2> HIDE DEF q
  <2>2. /\ s2 \in States /\ s2.queue = q /\ s2.presentations = more
        /\ s2.activeRuntime = s.activeRuntime /\ s2.dismissed = s.dismissed
    BY <2>1, <1>4, <1>5, <1>7 DEF States, q
  <2>3. ClearsIn(q) = ClearsIn(s.queue) BY <1>1, <1>3, ClearsCount DEF q
  <2>4. Agrees(s.queue, observations, s.presentations, held, c, act, recoveries, n)
    BY <1>7 DEF Coherent
  <2>6. recoveries = 0 /\ OfItem(e.change.id) /\ WillHaveRoom(s.queue, observations) =>
          /\ e.change.id.at <= n2
          /\ WillBeActive(s.queue, observations, e.change.id) => e.change.id = c
          /\ \A i \in IdType :
               OfItem(i) /\ WillBeActive(s.queue, observations, i) /\ i.affected = "item" =>
                 i = e.change.id
    BY <1>3, <1>7 DEF Admits
  <2>7. /\ Range(more) \subseteq Range(s.presentations) \cup {e.change.id}
        /\ held2 \subseteq held \cup {e.change.id}
        /\ c2 = IF OfItem(e.change.id) THEN e.change.id ELSE c
        /\ act2 = IF e.change.id.code \in RuntimeConditions THEN act \cup {e.change.id} ELSE act
    BY <1>2, <1>3 DEF ObserveChanges
  <2>8. Agrees(q, observations, more, held2, c2, act2, recoveries, n2)
    BY <2>4, <2>6, <2>7, <1>1, <1>3, ObserveKeeps DEF q
  <2> QED BY <2>2, <2>3, <2>8, <1>1, <1>2, <1>7 DEF Coherent
<1> QED BY <1>6, <1>7

\* A resolution is recorded: forgotten and queued.
LEMMA ResolveRecorded ==
  ASSUME NEW s, NEW held, NEW held2, NEW c, NEW c2, NEW act, NEW act2, NEW n \in Nat,
         NEW k \in Nat, NEW id \in IdType, NEW x \in Nat, NEW s2 \in WithResolution(s, id, x),
         Coherent(s, held, c, act, n, k), observations.interval \in Nat,
         id.code \notin Occurrences, ResolveChanges(id, held, c, act, held2, c2, act2)
  PROVE  /\ Coherent(s2, held2, c2, act2, n, k)
         /\ s2.activeRuntime = s.activeRuntime /\ s2.dismissed = s.dismissed
<1>0. PICK advisory \in BOOLEAN :
        s2 = queued([s EXCEPT !.presentations = forgetPresentation(@, id)],
                    Resolve(id, x), advisory)
  BY DEF WithResolution
<1> DEFINE less == forgetPresentation(s.presentations, id)
           e == [change |-> Resolve(id, x), advisory |-> advisory]
           q == Append(s.queue, e)
           s1 == [s EXCEPT !.presentations = less]
<1>1. /\ s \in States /\ Fits(s.presentations) /\ (failed => s.queue = <<>>)
      /\ observations.interval + ClearsIn(s.queue) <= k
      /\ s.queue \in Seq(Entries) /\ s.presentations \in Seq(IdType)
  BY DEF Coherent, States
<1>2. less \in Seq(IdType) /\ Fits(less) /\ Range(less) \subseteq Range(s.presentations) \ {id}
  BY <1>1, ForgetFits
<1>3. /\ e \in Entries /\ e.change.op = "resolve" /\ e.change.id = id
  BY DEF Entries, IsMutation, Resolve
<1>4. s2 = IF failed THEN s1 ELSE [s1 EXCEPT !.queue = Append(s1.queue, e)] BY <1>0 DEF queued
<1> HIDE DEF less, e
<1>5. /\ s1 \in States /\ s1.queue = s.queue /\ s1.presentations = less
      /\ s1.activeRuntime = s.activeRuntime /\ s1.dismissed = s.dismissed
  BY <1>1, <1>2 DEF States
<1> HIDE DEF s1
<1>6. CASE failed BY <1>1, <1>2, <1>4, <1>5, <1>6 DEF Coherent
<1>7. CASE ~failed
  <2>1. q \in Seq(Entries) BY <1>1, <1>3
  <2> HIDE DEF q
  <2>2. /\ s2 \in States /\ s2.queue = q /\ s2.presentations = less
        /\ s2.activeRuntime = s.activeRuntime /\ s2.dismissed = s.dismissed
    BY <2>1, <1>4, <1>5, <1>7 DEF States, q
  <2>3. ClearsIn(q) = ClearsIn(s.queue) BY <1>1, <1>3, ClearsCount DEF q
  <2>4. Agrees(s.queue, observations, s.presentations, held, c, act, recoveries, n)
    BY <1>7 DEF Coherent
  <2>5. Agrees(q, observations, less, held2, c2, act2, recoveries, n)
    BY <2>4, <1>1, <1>2, <1>3, <1>7, ResolveKeeps DEF q, ResolveChanges
  <2> QED BY <2>2, <2>3, <2>5, <1>1, <1>2, <1>7 DEF Coherent
<1> QED BY <1>6, <1>7

\* Less may be held, and more Evidence applied.
LEMMA LessCoherent ==
  ASSUME NEW s, NEW held, NEW held2, NEW c, NEW act, NEW n \in Nat, NEW n2 \in Nat, NEW k,
         n <= n2, Coherent(s, held, c, act, n, k), held2 \subseteq held
  PROVE  Coherent(s, held2, c, act, n2, k)
<1>1. ~failed => Agrees(s.queue, observations, s.presentations, held2, c, act, recoveries, n2)
  BY LessAgrees DEF Coherent
<1> QED BY <1>1 DEF Coherent

\* A condition of the runtime that holds is recorded, and is active from then on.
LEMMA HoldingRecorded ==
  ASSUME NEW s, NEW held, NEW c, NEW act, NEW n \in Nat, NEW k \in Nat, NEW ids,
         Coherent(s, held, c, act, n, k), observations.interval \in Nat,
         ids \subseteq RuntimeIds, AtMostOne(ids), s.activeRuntime \subseteq act
  PROVE  /\ Coherent(holding(s, ids), held, c, act \cup ids, n, k)
         /\ holding(s, ids).activeRuntime = s.activeRuntime
         /\ holding(s, ids).dismissed = s.dismissed
<1>1. CASE ids = {} BY <1>1 DEF holding
<1>2. CASE ids # {}
  <2> DEFINE id == CHOOSE i \in ids : TRUE
             more == rememberPresentation(s.presentations, id)
             shown == [s EXCEPT !.presentations = more]
             s2 == queued([s EXCEPT !.presentations = rememberPresentation(@, id)],
                          Observe(id, 0), FALSE)
  <2>1. id \in ids /\ ids = {id} BY <1>2 DEF AtMostOne
  <2>2. holding(s, ids) = IF id \in s.activeRuntime THEN shown ELSE s2 BY <1>2 DEF holding
  <2> HIDE DEF id
  <2>3. /\ id \in IdType /\ id.code \in RuntimeConditions /\ id \in RuntimeIds /\ ~OfItem(id)
        /\ act \cup ids = act \cup {id}
    BY <2>1 DEF RuntimeIds, RuntimeConditions, OfItem, ItemConditions
  <2>4. CASE id \in s.activeRuntime
    <3>1. /\ s \in States /\ Fits(s.presentations) /\ s.presentations \in Seq(IdType)
      BY DEF Coherent, States
    <3>2. more \in Seq(IdType) /\ Fits(more) /\ Range(more) \subseteq Range(s.presentations) \cup {id}
      BY <3>1, <2>3, RememberFits
    <3> HIDE DEF more
    <3>3. /\ shown \in States /\ shown.queue = s.queue /\ shown.presentations = more
          /\ shown.activeRuntime = s.activeRuntime /\ shown.dismissed = s.dismissed
      BY <3>1, <3>2 DEF States
    <3>4. id \in act /\ act \cup ids = act BY <2>3, <2>4
    <3>5. \A i \in Range(more) : i \in Range(s.presentations) \/ (i \in act /\ i \in RuntimeIds)
      BY <3>2, <3>4, <2>3
    <3>6. ~failed => Agrees(s.queue, observations, more, held, c, act, recoveries, n)
      <4>1. ~failed => Agrees(s.queue, observations, s.presentations, held, c, act, recoveries, n)
        BY DEF Coherent
      <4>2. n <= n /\ held \subseteq held OBVIOUS
      <4> QED BY <4>1, <4>2, <3>5, LessAgrees
    <3>7. Coherent(shown, held, c, act, n, k) BY <3>2, <3>3, <3>6 DEF Coherent
    <3> QED BY <3>3, <3>4, <3>7, <2>2, <2>4
  <2>5. CASE id \notin s.activeRuntime
    <3>1. /\ Coherent(s2, held, c, act \cup {id}, n, k)
          /\ s2.activeRuntime = s.activeRuntime /\ s2.dismissed = s.dismissed
      <4>1. n <= n /\ 0 \in Nat /\ ObserveChanges(id, held, c, act, held, c, act \cup {id})
        BY <2>3 DEF ObserveChanges
      <4>3. Admits(s, id, c, n) BY <2>3 DEF Admits
      <4>2. s2 \in WithObservation(s, id, 0) BY DEF WithObservation
      <4> HIDE DEF s2
      <4> QED BY <2>3, <4>1, <4>2, <4>3, ObserveRecorded
    <3> HIDE DEF s2
    <3> QED BY <3>1, <2>2, <2>3, <2>5
  <2> QED BY <2>4, <2>5
<1> QED BY <1>1, <1>2

\* One that ended is recorded, and is not active from then on.
LEMMA EndingRecorded ==
  ASSUME NEW s, NEW held, NEW c, NEW act, NEW n \in Nat, NEW k \in Nat, NEW ids,
         Coherent(s, held, c, act, n, k), observations.interval \in Nat,
         ids \subseteq RuntimeIds, AtMostOne(ids), held \cap RuntimeIds = {}
  PROVE  /\ Coherent(ending(s, ids), held, c, act \ ids, n, k)
         /\ ending(s, ids).activeRuntime = s.activeRuntime
         /\ ending(s, ids).dismissed = s.dismissed
<1>1. CASE ids = {} BY <1>1 DEF ending
<1>2. CASE ids # {}
  <2> DEFINE id == CHOOSE i \in ids : TRUE
             s2 == queued([s EXCEPT !.presentations = forgetPresentation(@, id)],
                          Resolve(id, 0), FALSE)
  <2>1. id \in ids /\ ids = {id} BY <1>2 DEF AtMostOne
  <2>2. ending(s, ids) = s2 BY <1>2 DEF ending
  <2> HIDE DEF id
  <2>3. /\ id \in IdType /\ id.code \in RuntimeConditions /\ ~OfItem(id)
        /\ id.code \notin Occurrences /\ held \subseteq held \ {id} /\ act \ ids = act \ {id}
    BY <2>1 DEF RuntimeIds, RuntimeConditions, OfItem, ItemConditions, Occurrences
  <2>4. /\ Coherent(s2, held, c, act \ {id}, n, k)
        /\ s2.activeRuntime = s.activeRuntime /\ s2.dismissed = s.dismissed
    <3>1. 0 \in Nat /\ ResolveChanges(id, held, c, act, held, c, act \ {id})
      BY <2>3 DEF ResolveChanges
    <3>2. s2 \in WithResolution(s, id, 0) BY DEF WithResolution
    <3> HIDE DEF s2
    <3> QED BY <2>3, <3>1, <3>2, ResolveRecorded
  <2> HIDE DEF s2
  <2> QED BY <2>2, <2>3, <2>4
<1> QED BY <1>1, <1>2

\* The conditions that hold.
LEMMA DesiredConditions ==
  ASSUME NEW down \in BOOLEAN, NEW recovering \in BOOLEAN, NEW pageId \in BOOLEAN
  PROVE  LET desired == desiredConditions(down, recovering, pageId)
         IN  /\ RuntimeOnly(desired)
             /\ CodesOf(desired) \subseteq RuntimeConditions
<1> DEFINE affected == [kind |-> IF pageId THEN "page" ELSE "unavailable", at |-> 0]
           a == Id("disconnected", 0, affected)
           b == Id("recovering", 0, affected)
<1>1. /\ a \in IdType /\ b \in IdType /\ a.code = "disconnected" /\ b.code = "recovering"
  BY DiagnosticsAssumption DEF IdType, Id, Conditions
<1>2. a \in RuntimeIds /\ b \in RuntimeIds BY <1>1 DEF RuntimeIds, RuntimeConditions
<1>3. desiredConditions(down, recovering, pageId) \subseteq {a, b} BY DEF desiredConditions
<1> HIDE DEF a, b
<1> QED BY <1>1, <1>2, <1>3 DEF OneOfEachCode, CodesOf, RuntimeConditions, RuntimeOnly

\* The runtime's conditions are recorded: those that hold are active then, and
\* no other one.
LEMMA RefreshRecorded ==
  ASSUME NEW s, NEW held, NEW c, NEW n \in Nat, NEW k \in Nat, NEW desired,
         Coherent(s, held, c, s.activeRuntime, n, k), observations.interval \in Nat,
         NoneOfRuntime(held), RuntimeOnly(desired), OneOfEachCode(s.activeRuntime)
  PROVE  LET r == refreshRuntimeDiagnosticObservations(s, desired)
         IN  /\ Coherent(r, held, c, desired, n, k) /\ r.activeRuntime = desired
             /\ DismissalsFit(s) => DismissalsFit(r)
<1> DEFINE was == s.activeRuntime
           ended == was \ desired
           h1 == holding(s, OfCode(desired, "disconnected"))
           h2 == holding(h1, OfCode(desired, "recovering"))
           e1 == ending(h2, OfCode(ended, "disconnected"))
           e2 == ending(e1, OfCode(ended, "recovering"))
           act1 == was \cup OfCode(desired, "disconnected")
           act2 == act1 \cup OfCode(desired, "recovering")
           act3 == act2 \ OfCode(ended, "disconnected")
           act4 == act3 \ OfCode(ended, "recovering")
           r == refreshRuntimeDiagnosticObservations(s, desired)
<1>0. held \cap RuntimeIds = {} /\ desired \subseteq RuntimeIds /\ OneOfEachCode(desired)
  BY DEF NoneOfRuntime, RuntimeOnly
<1>1. was \subseteq RuntimeIds /\ s.dismissed \subseteq RuntimeConditions
  BY DEF Coherent, States
<1>2. ASSUME NEW ids \in {desired, ended}, NEW code
      PROVE  OfCode(ids, code) \subseteq RuntimeIds /\ AtMostOne(OfCode(ids, code))
  BY <1>0, <1>1 DEF OfCode, OneOfEachCode, AtMostOne
<1>3. \A id \in RuntimeIds : id.code = "disconnected" \/ id.code = "recovering"
  BY DEF RuntimeIds, RuntimeConditions
<1>4. act4 = desired
  <2>1. desired = OfCode(desired, "disconnected") \cup OfCode(desired, "recovering")
    BY <1>0, <1>3 DEF OfCode
  <2>2. ended = OfCode(ended, "disconnected") \cup OfCode(ended, "recovering")
    BY <1>1, <1>3 DEF OfCode
  <2> QED BY <2>1, <2>2
<1> HIDE DEF ended, was
<1>14. was \subseteq act1 OBVIOUS
<1>5. Coherent(h1, held, c, act1, n, k) /\ h1.activeRuntime = was /\ h1.dismissed = s.dismissed
  BY <1>2, HoldingRecorded DEF was
<1> HIDE DEF h1
<1>6. Coherent(h2, held, c, act2, n, k) /\ h2.activeRuntime = was /\ h2.dismissed = s.dismissed
  <2> DEFINE ids == OfCode(desired, "recovering")
  <2>1. ids \subseteq RuntimeIds /\ AtMostOne(ids) /\ h1.activeRuntime \subseteq act1
    BY <1>2, <1>5, <1>14
  <2> HIDE DEF ids, act1
  <2>2. /\ Coherent(holding(h1, ids), held, c, act1 \cup ids, n, k)
        /\ holding(h1, ids).activeRuntime = h1.activeRuntime
        /\ holding(h1, ids).dismissed = h1.dismissed
    <3> HIDE DEF h2, e1, e2, r
    <3> QED BY <2>1, <1>5, HoldingRecorded, SMTT(30)
  <2> QED BY <2>2, <1>5 DEF ids
<1> HIDE DEF h2, act1
<1>7. Coherent(e1, held, c, act3, n, k) /\ e1.activeRuntime = was /\ e1.dismissed = s.dismissed
  <2> DEFINE ids == OfCode(ended, "disconnected")
  <2>1. ids \subseteq RuntimeIds /\ AtMostOne(ids) BY <1>2
  <2> HIDE DEF ids, act2
  <2>2. /\ Coherent(ending(h2, ids), held, c, act2 \ ids, n, k)
        /\ ending(h2, ids).activeRuntime = h2.activeRuntime
        /\ ending(h2, ids).dismissed = h2.dismissed
    BY <2>1, <1>0, <1>6, EndingRecorded
  <2> QED BY <2>2, <1>6 DEF ids
<1> HIDE DEF e1, act2
<1>8. Coherent(e2, held, c, act4, n, k) /\ e2.activeRuntime = was /\ e2.dismissed = s.dismissed
  <2> DEFINE ids == OfCode(ended, "recovering")
  <2>1. ids \subseteq RuntimeIds /\ AtMostOne(ids) BY <1>2
  <2> HIDE DEF ids, act3
  <2>2. /\ Coherent(ending(e1, ids), held, c, act3 \ ids, n, k)
        /\ ending(e1, ids).activeRuntime = e1.activeRuntime
        /\ ending(e1, ids).dismissed = e1.dismissed
    BY <2>1, <1>0, <1>7, EndingRecorded
  <2> QED BY <2>2, <1>7 DEF ids
<1> HIDE DEF e2, act3, act4
<1>9. r = [e2 EXCEPT !.activeRuntime = desired,
                     !.dismissed = e2.dismissed \ (CodesOf(ended) \ CodesOf(desired))]
  BY DEF refreshRuntimeDiagnosticObservations, e2, e1, h2, h1, ended, was
<1> HIDE DEF r
<1>10. e2 \in States BY <1>8 DEF Coherent
<1>11. /\ r \in States /\ r.queue = e2.queue /\ r.presentations = e2.presentations
       /\ r.activeRuntime = desired
       /\ r.dismissed = s.dismissed \ (CodesOf(ended) \ CodesOf(desired))
  BY <1>0, <1>8, <1>9, <1>10 DEF States
<1>12. Coherent(r, held, c, desired, n, k) BY <1>4, <1>8, <1>11 DEF Coherent
<1>13. s.dismissed \subseteq CodesOf(was) => r.dismissed \subseteq CodesOf(desired)
  BY <1>11 DEF CodesOf, ended
<1> QED BY <1>11, <1>12, <1>13 DEF r, was, DismissalsFit
-----------------------------------------------------------------------------
\* The identities of what concerns an object that is affected.
LEMMA AffectedIdentity ==
  ASSUME NEW p \in Projections, NEW n \in 0 .. MaxLog, NEW kind, NEW of \in 0 .. MaxLog,
         NEW code \in Conditions \cup Occurrences
  PROVE  LET id == Id(code, of, Affected(p, n, kind))
         IN  /\ id \in IdType /\ id.code = code /\ id.of = of /\ id # NoId
             /\ p.known => id.at = 0
             /\ ~p.known => id.at = n /\ id.affected # "item"
             /\ kind = "item" /\ p.known => id.affected = "item"
<1>1. /\ Affected(p, n, kind).kind \in {"evidence", "subscription", "item"}
      /\ Affected(p, n, kind).at \in 0 .. MaxLog
      /\ p.known => Affected(p, n, kind).at = 0
      /\ ~p.known => Affected(p, n, kind).at = n /\ Affected(p, n, kind).kind = "evidence"
      /\ kind = "item" /\ p.known => Affected(p, n, kind).kind = "item"
  BY DiagnosticsAssumption DEF Affected, Projections, Producers
<1>2. code # "none" BY DEF Conditions, Occurrences
<1> QED BY <1>1, <1>2 DEF Id, IdType, NoId

\* What a projection holds.
LEMMA HeldConditions ==
  ASSUME NEW p \in Projections
  PROVE  /\ p.snapshotCondition \in ItemIds \cup {NoId}
         /\ p.snapshotCondition # NoId =>
              /\ p.snapshotCondition \in HeldBy(p) /\ OfItem(p.snapshotCondition)
         /\ p.reducerCondition # NoId =>
              /\ p.reducerCondition \in HeldBy(p) /\ p.reducerCondition.code = "reducer-incomplete"
         /\ p.lint # NoId => p.lint \in HeldBy(p) /\ p.lint.code = "not-established"
         /\ p.reducerCondition \in IdType /\ p.lint \in IdType /\ p.snapshotCondition \in IdType
         /\ HeldBy(p) \subseteq {id \in IdType : id.code \in Conditions \ RuntimeConditions}
         /\ NoneOfRuntime(HeldBy(p))
         /\ \A id \in {p.snapshotCondition, p.reducerCondition, p.lint} :
              Resolvable(id, HeldBy(p), p.snapshotCondition)
<1>1. /\ p.snapshotCondition \in ItemIds \cup {NoId}
      /\ p.reducerCondition \in {id \in IdType : id.code = "reducer-incomplete"} \cup {NoId}
      /\ p.lint \in {id \in IdType : id.code = "not-established"} \cup {NoId}
  BY DEF Projections, Producers
<1>2. NoId \in IdType BY DiagnosticsAssumption DEF NoId, IdType
<1>3. \A id \in ItemIds : id \in IdType /\ OfItem(id) BY DEF ItemIds
<1>4. HeldBy(p) \subseteq {id \in IdType : id.code \in Conditions \ RuntimeConditions}
  BY <1>1, <1>3 DEF HeldBy, OfItem, ItemConditions, Conditions, RuntimeConditions
<1>5. \A id \in {p.snapshotCondition, p.reducerCondition, p.lint} :
        Resolvable(id, HeldBy(p), p.snapshotCondition)
  <2> TAKE id \in {p.snapshotCondition, p.reducerCondition, p.lint}
  <2>1. id # NoId => id \in HeldBy(p) BY DEF HeldBy
  <2>2. OfItem(id) => id = p.snapshotCondition BY <1>1 DEF OfItem, ItemConditions, NoId
  <2> QED BY <2>1, <2>2, <1>4 DEF Resolvable, Conditions, Occurrences
<1> QED BY <1>1, <1>2, <1>3, <1>4, <1>5 DEF HeldBy, RuntimeIds, NoneOfRuntime

\* A proposal is recorded.
LEMMA ProposalRecorded ==
  ASSUME NEW r, Paired(r), NEW id, NEW x PROVE LET a == proposed(r, Observe(id, x))
             b == proposed(r, Resolve(id, x))
         IN  /\ Paired(a) /\ a.p = r.p /\ a.s \in WithObservation(r.s, id, x)
             /\ Paired(b) /\ b.p = r.p /\ b.s \in WithResolution(r.s, id, x)
<1> DEFINE a == proposed(r, Observe(id, x))
           b == proposed(r, Resolve(id, x))
<1>1. /\ recordProposal(r.s, Observe(id, x)) =
           queued([r.s EXCEPT !.presentations = rememberPresentation(@, id)], Observe(id, x), TRUE)
      /\ recordProposal(r.s, Resolve(id, x)) =
           queued([r.s EXCEPT !.presentations = forgetPresentation(@, id)], Resolve(id, x), TRUE)
  BY DEF recordProposal, Observe, Resolve
<1>2. /\ a = [p |-> r.p, s |-> recordProposal(r.s, Observe(id, x))]
      /\ b = [p |-> r.p, s |-> recordProposal(r.s, Resolve(id, x))]
  BY DEF proposed, Paired
<1>3. /\ recordProposal(r.s, Observe(id, x)) \in WithObservation(r.s, id, x)
      /\ recordProposal(r.s, Resolve(id, x)) \in WithResolution(r.s, id, x)
  BY <1>1 DEF WithObservation, WithResolution
<1> QED BY <1>2, <1>3 DEF Paired

\* What is active is resolved: it is no longer held.
LEMMA ResolvedIfActive ==
  ASSUME NEW r, Paired(r), NEW held, NEW held2, NEW c, NEW c2, NEW act,
         NEW n \in Nat, NEW k \in Nat, Coherent(r.s, held, c, act, n, k), observations.interval \in Nat,
         NEW id \in IdType, NEW x \in Nat, act \subseteq RuntimeIds,
         Resolvable(id, held, c), held2 = held \ {id}, c2 = IF OfItem(id) THEN NoId ELSE c
  PROVE  LET q == resolvedIfActive(r, id, x)
         IN  /\ Paired(q) /\ SameProjection(q, r)
             /\ Coherent(q.s, held2, c2, act, n, k)
             /\ SameRuntime(q.s, r.s)
<1> DEFINE q == resolvedIfActive(r, id, x)
<1>0. /\ id # NoId => id \in held /\ id.code \notin Occurrences /\ id.code \notin RuntimeConditions
      /\ OfItem(id) => id = c
  BY DEF Resolvable
<1>1. CASE id = NoId
  <2>1. q = r BY <1>1 DEF resolvedIfActive
  <2>2. ~OfItem(id) BY <1>1 DEF OfItem, ItemConditions, NoId
  <2>3. held2 \subseteq held /\ n <= n OBVIOUS
  <2>4. Coherent(r.s, held2, c, act, n, k) BY <2>3, LessCoherent
  <2> QED BY <2>1, <2>2, <2>4 DEF SameRuntime, SameProjection
<1>2. CASE id # NoId
  <2>1. q = proposed(r, Resolve(id, x)) BY <1>2 DEF resolvedIfActive
  <2>2. Paired(q) /\ q.p = r.p /\ q.s \in WithResolution(r.s, id, x) BY <2>1, ProposalRecorded
  <2>3. act = act \ {id} BY <1>0, <1>2 DEF RuntimeIds
  <2> HIDE DEF q
  <2>4. ResolveChanges(id, held, c, act, held2, c2, act)
    BY <2>3, <1>0, <1>2 DEF ResolveChanges, OfItem, ItemConditions, NoId
  <2>6. /\ Coherent(q.s, held2, c2, act, n, k)
        /\ q.s.activeRuntime = r.s.activeRuntime /\ q.s.dismissed = r.s.dismissed
    <3> DEFINE u == r.s
               v == q.s
    <3>1. v \in WithResolution(u, id, x) /\ Coherent(u, held, c, act, n, k) BY <2>2
    <3> HIDE DEF u, v
    <3>2. /\ Coherent(v, held2, c2, act, n, k)
          /\ v.activeRuntime = u.activeRuntime /\ v.dismissed = u.dismissed
      BY <1>0, <1>2, <2>4, <3>1, ResolveRecorded
    <3> QED BY <3>2 DEF u, v
  <2> QED BY <2>2, <2>6 DEF q, SameRuntime, SameProjection
<1> QED BY <1>1, <1>2
-----------------------------------------------------------------------------
\* What agrees at one position agrees at a later one.
LEMMA FineLater ==
  ASSUME NEW r, NEW n \in Nat, NEW n2 \in Nat, n <= n2, NEW s, NEW k, Fine(r, n, s, k)
  PROVE  Fine(r, n2, s, k)
<1>1. HeldBy(r.p) \subseteq HeldBy(r.p) OBVIOUS
<1> QED BY <1>1, LessCoherent DEF Fine

\* Something else than a condition of the item is observed.
LEMMA ObserveFine ==
  ASSUME NEW r, NEW n \in Nat, NEW s, NEW k \in Nat, Fine(r, n, s, k), observations.interval \in Nat,
         NEW id \in IdType, ~OfItem(id), id.code \notin RuntimeConditions, NEW x \in Nat,
         NEW p \in Projections, HeldBy(p) \subseteq HeldBy(r.p) \cup {id},
         p.snapshotCondition = r.p.snapshotCondition
  PROVE  LET a == proposed(r, Observe(id, x))
         IN  Paired(a) /\ SameProjection(a, r) /\ Fine([p |-> p, s |-> a.s], n, s, k)
<1> DEFINE a == proposed(r, Observe(id, x))
           c == r.p.snapshotCondition
           act == s.activeRuntime
           t == [p |-> p, s |-> a.s]
<1>1. /\ Paired(r) /\ Coherent(r.s, HeldBy(r.p), c, act, n, k)
      /\ r.s.activeRuntime = s.activeRuntime /\ r.s.dismissed = s.dismissed
  BY DEF Fine
<1>2. Paired(a) /\ a.p = r.p /\ a.s \in WithObservation(r.s, id, x) BY <1>1, ProposalRecorded
<1>3. n <= n /\ ObserveChanges(id, HeldBy(r.p), c, act, HeldBy(p), c, act) /\ Admits(r.s, id, c, n)
  BY DEF ObserveChanges, Admits
<1> HIDE DEF a, c, act
<1>4. /\ Coherent(a.s, HeldBy(p), c, act, n, k)
      /\ a.s.activeRuntime = r.s.activeRuntime /\ a.s.dismissed = r.s.dismissed
  <2> DEFINE u == r.s
             v == a.s
             held == HeldBy(r.p)
             held2 == HeldBy(p)
  <2>1. /\ v \in WithObservation(u, id, x) /\ Coherent(u, held, c, act, n, k) /\ n <= n
        /\ ObserveChanges(id, held, c, act, held2, c, act) /\ Admits(u, id, c, n)
    BY <1>1, <1>2, <1>3
  <2> HIDE DEF u, v, held, held2
  <2>2. /\ Coherent(v, held2, c, act, n, k)
        /\ v.activeRuntime = u.activeRuntime /\ v.dismissed = u.dismissed
    BY <2>1, ObserveRecorded
  <2> QED BY <2>2 DEF u, v, held2
<1>5. t.p = p /\ t.s = a.s OBVIOUS
<1> QED BY <1>1, <1>2, <1>4, <1>5 DEF Fine, a, c, act, Paired, SameProjection

\* What was active is resolved, and no longer held.
LEMMA ResolveFine ==
  ASSUME NEW r, NEW n \in Nat, NEW s, NEW k \in Nat, Fine(r, n, s, k), observations.interval \in Nat,
         s.activeRuntime \subseteq RuntimeIds, NEW id \in IdType, NEW x \in Nat,
         Resolvable(id, HeldBy(r.p), r.p.snapshotCondition), NEW p \in Projections,
         Holds(p, HeldBy(r.p) \ {id}, IF OfItem(id) THEN NoId ELSE r.p.snapshotCondition)
  PROVE  LET q == resolvedIfActive(r, id, x)
         IN  Paired(q) /\ SameProjection(q, r) /\ Fine([p |-> p, s |-> q.s], n, s, k)
<1> DEFINE q == resolvedIfActive(r, id, x)
           c == r.p.snapshotCondition
           act == s.activeRuntime
           t == [p |-> p, s |-> q.s]
           c2 == IF OfItem(id) THEN NoId ELSE c
           held == HeldBy(r.p)
           less == held \ {id}
<1>1. /\ Paired(r) /\ Coherent(r.s, held, c, act, n, k)
      /\ r.s.activeRuntime = s.activeRuntime /\ r.s.dismissed = s.dismissed
      /\ r.p \in Projections
  BY DEF Fine
<1>4. /\ Paired(q) /\ SameProjection(q, r)
      /\ Coherent(q.s, less, c2, act, n, k)
      /\ SameRuntime(q.s, r.s)
  <2>1. /\ Paired(r) /\ Coherent(r.s, held, c, act, n, k) /\ id \in IdType
        /\ Resolvable(id, held, c) /\ act \subseteq RuntimeIds
        /\ less = held \ {id} /\ c2 = IF OfItem(id) THEN NoId ELSE c
    BY <1>1
  <2> HIDE DEF q, c, act, held, less, c2
  <2> QED BY <2>1, ResolvedIfActive DEF q
<1>5. t.p = p /\ t.s = q.s /\ n <= n /\ HeldBy(p) \subseteq less /\ p.snapshotCondition = c2
  BY DEF Holds
<1> HIDE DEF q, c, act, held, less, c2
<1>6. Coherent(q.s, HeldBy(p), c2, act, n, k) BY <1>4, <1>5, LessCoherent
<1> QED BY <1>1, <1>4, <1>5, <1>6 DEF Fine, q, c, act, Paired, SameRuntime, SameProjection

\* A projection whose condition of the item changes.
LEMMA ItemConditionChanges ==
  ASSUME NEW p \in Projections, NEW id \in ItemIds \cup {NoId}, ~p.known => id.affected # "item"
  PROVE  LET q == [p EXCEPT !.snapshotCondition = id]
         IN  /\ q \in Projections /\ q.snapshotCondition = id /\ q.known = p.known
             /\ q.reducerCondition = p.reducerCondition /\ q.lint = p.lint
             /\ HeldBy(q) \subseteq (HeldBy(p) \ {p.snapshotCondition}) \cup {id}
             /\ id = NoId => HeldBy(q) \subseteq HeldBy(p) \ {p.snapshotCondition}
<1> DEFINE q == [p EXCEPT !.snapshotCondition = id]
<1>1. /\ q \in Producers /\ q.snapshotCondition = id /\ q.known = p.known
      /\ q.reducerCondition = p.reducerCondition /\ q.lint = p.lint
  BY DEF Projections, Producers
<1>2. q \in Projections BY <1>1 DEF Projections
<1> HIDE DEF q
<1>3. /\ p.reducerCondition # NoId => p.reducerCondition # p.snapshotCondition
      /\ p.lint # NoId => p.lint # p.snapshotCondition
  BY HeldConditions DEF OfItem, ItemConditions
<1>4. HeldBy(q) = {id, p.reducerCondition, p.lint} \ {NoId} BY <1>1 DEF HeldBy
<1>5. HeldBy(p) = {p.snapshotCondition, p.reducerCondition, p.lint} \ {NoId} BY DEF HeldBy
<1> QED BY <1>1, <1>2, <1>3, <1>4, <1>5 DEF q

\* The condition of the item's snapshot is observed: what was held of another
\* code is resolved first.
LEMMA ItemConditionObserved ==
  ASSUME NEW r, NEW n \in 1 .. MaxLog, NEW s, NEW k \in Nat, Fine(r, n - 1, s, k),
         observations.interval \in Nat, s.activeRuntime \subseteq RuntimeIds,
         NEW code \in ItemConditions
  PROVE  /\ Fine(observeCondition(r, n, code), n, s, k)
         /\ observeCondition(r, n, code).p.known = r.p.known
<1> DEFINE id == Id(code, 0, Affected(r.p, n, "item"))
           replaced == r.p.snapshotCondition
           q == IF replaced.code = code THEN r ELSE resolvedIfActive(r, replaced, n)
           c == IF replaced.code = code THEN replaced ELSE NoId
           held == IF replaced.code = code THEN HeldBy(r.p) ELSE HeldBy(r.p) \ {replaced}
           p2 == [r.p EXCEPT !.snapshotCondition = id]
           act == s.activeRuntime
           a == proposed(q, Observe(id, n))
           t == observeCondition(r, n, code)
<1>1. /\ Paired(r) /\ Coherent(r.s, HeldBy(r.p), replaced, act, n - 1, k)
      /\ r.s.activeRuntime = s.activeRuntime /\ r.s.dismissed = s.dismissed
      /\ r.p \in Projections /\ n \in 0 .. MaxLog /\ n \in Nat /\ n - 1 \in Nat /\ n - 1 <= n
      /\ 0 \in 0 .. MaxLog
  BY DiagnosticsAssumption DEF Fine
<1>2. /\ id \in IdType /\ id.code = code /\ id.of = 0 /\ id # NoId /\ OfItem(id)
      /\ r.p.known => id.at = 0 /\ id.affected = "item"
      /\ ~r.p.known => id.at = n /\ id.affected # "item"
      /\ id \in ItemIds
  <2>1. code \in Conditions \cup Occurrences BY DEF ItemConditions, Conditions
  <2>2. /\ id \in IdType /\ id.code = code /\ id.of = 0 /\ id # NoId
        /\ r.p.known => id.at = 0 /\ id.affected = "item"
        /\ ~r.p.known => id.at = n /\ id.affected # "item"
    BY <1>1, <2>1, AffectedIdentity
  <2> HIDE DEF id
  <2> QED BY <2>2 DEF OfItem, ItemIds
<1>3. /\ p2 \in Projections /\ p2.snapshotCondition = id /\ p2.known = r.p.known
      /\ HeldBy(p2) \subseteq (HeldBy(r.p) \ {replaced}) \cup {id}
  <2> HIDE DEF id
  <2> QED BY <1>1, <1>2, ItemConditionChanges
<1>4. /\ replaced \in ItemIds \cup {NoId} /\ replaced \in IdType
      /\ replaced # NoId => replaced \in HeldBy(r.p) /\ OfItem(replaced)
  BY <1>1, HeldConditions
<1>5. /\ Paired(q) /\ q.p = r.p /\ Coherent(q.s, held, c, act, n - 1, k)
      /\ q.s.activeRuntime = s.activeRuntime /\ q.s.dismissed = s.dismissed
  <2>1. CASE replaced.code = code BY <2>1, <1>1
  <2>2. CASE replaced.code # code
    <3>1. /\ replaced # NoId => /\ replaced.code \notin Occurrences
                                /\ replaced.code \notin RuntimeConditions
      BY <1>4 DEF OfItem, ItemConditions, Occurrences, RuntimeConditions
    <3> DEFINE b == resolvedIfActive(r, replaced, n)
               less == HeldBy(r.p) \ {replaced}
               gone == IF OfItem(replaced) THEN NoId ELSE replaced
    <3>2. q = b /\ held = less BY <2>2
    <3>3. c = gone BY <2>2, <1>4
    <3>4. /\ Paired(b) /\ SameProjection(b, r)
          /\ Coherent(b.s, less, gone, act, n - 1, k)
          /\ SameRuntime(b.s, r.s)
      <4> HIDE DEF b, act, replaced
      <4>1. act \subseteq RuntimeIds BY DEF act
      <4>2. Resolvable(replaced, HeldBy(r.p), replaced) BY <1>4, <3>1 DEF Resolvable
      <4> DEFINE m == n - 1
                 all == HeldBy(r.p)
      <4>3. /\ Paired(r) /\ Coherent(r.s, all, replaced, act, m, k) /\ m \in Nat /\ n \in Nat
            /\ replaced \in IdType /\ Resolvable(replaced, all, replaced)
            /\ less = all \ {replaced} /\ gone = IF OfItem(replaced) THEN NoId ELSE replaced
        BY <4>2, <1>1, <1>4
      <4> HIDE DEF less, gone, all, m
      <4>4. Paired(b) /\ SameProjection(b, r) /\ Coherent(b.s, less, gone, act, m, k) /\ SameRuntime(b.s, r.s)
        BY <4>1, <4>3, ResolvedIfActive DEF b
      <4> QED BY <4>4 DEF m
    <3> HIDE DEF b, q, held, c, less, gone
    <3> QED BY <1>1, <3>2, <3>3, <3>4 DEF SameRuntime, SameProjection
  <2> QED BY <2>1, <2>2
<1>6. Admits(q.s, id, c, n)
  <2> HIDE DEF q, held, c, id
  <2> SUFFICES ASSUME ~failed, recoveries = 0, WillHaveRoom(q.s.queue, observations)
               PROVE  /\ id.at <= n
                      /\ WillBeActive(q.s.queue, observations, id) => id = c
                      /\ \A i \in IdType : OfItem(i) /\ WillBeActive(q.s.queue, observations, i)
                                           /\ i.affected = "item" => i = id
    BY DEF Admits
  <2>1. \A i \in IdType : OfItem(i) /\ WillBeActive(q.s.queue, observations, i) =>
          i.at <= n - 1 /\ (i.affected = "item" => i = c)
    BY <1>5 DEF Coherent, Agrees, ItemAgrees
  <2>2. id.at <= n BY <1>1, <1>2
  <2>3. WillBeActive(q.s.queue, observations, id) => id = c BY <2>1, <1>1, <1>2
  <2>4. ASSUME NEW i \in IdType, OfItem(i), i.affected = "item", i = c PROVE i = id
    <3>1. c = replaced /\ replaced.code = code /\ c # NoId BY <2>4 DEF c, NoId
    <3>2. r.p.known BY <3>1, <2>4, <1>1 DEF Projections
    <3>3. c \in ItemIds BY <3>1, <1>4
    <3> QED BY <3>1, <3>2, <3>3, <2>4, <1>2 DEF ItemIds, IdType
  <2> QED BY <2>1, <2>2, <2>3, <2>4
<1>7. Paired(a) /\ a.p = r.p /\ a.s \in WithObservation(q.s, id, n)
  <2>1. Paired(q) /\ q.p = r.p
    <3> HIDE DEF q
    <3> QED BY <1>5
  <2> HIDE DEF q, id
  <2> QED BY <2>1, ProposalRecorded
<1>8. ObserveChanges(id, held, c, act, HeldBy(p2), id, act)
  <2> HIDE DEF id, p2
  <2> QED BY <1>2, <1>3 DEF ItemConditions, RuntimeConditions, ObserveChanges
<1>9. /\ Coherent(a.s, HeldBy(p2), id, act, n, k)
      /\ a.s.activeRuntime = q.s.activeRuntime /\ a.s.dismissed = q.s.dismissed
  <2> HIDE DEF q, a, id, p2, held, act, c
  <2> DEFINE u == q.s
             v == a.s
             held2 == HeldBy(p2)
             m == n - 1
  <2>1. /\ v \in WithObservation(u, id, n) /\ Coherent(u, held, c, act, m, k) /\ m <= n
        /\ ObserveChanges(id, held, c, act, held2, id, act) /\ Admits(u, id, c, n)
        /\ id \in IdType /\ m \in Nat /\ n \in Nat
    BY <1>1, <1>2, <1>5, <1>6, <1>7, <1>8
  <2> HIDE DEF u, v, held2, m
  <2>2. /\ Coherent(v, held2, id, act, n, k)
        /\ v.activeRuntime = u.activeRuntime /\ v.dismissed = u.dismissed
    BY <2>1, ObserveRecorded
  <2> QED BY <2>2 DEF u, v, held2
<1>10. t = [p |-> p2, s |-> a.s]
  <2>1. t = [a EXCEPT !.p.snapshotCondition = id] BY DEF observeCondition
  <2> HIDE DEF a, id, t
  <2> QED BY <1>7, <2>1 DEF Paired
<1>11. t.p = p2 /\ t.s = a.s
  <2> HIDE DEF a, p2
  <2> QED BY <1>10
<1> HIDE DEF q, a, id, p2, held, c, act, t
<1> QED BY <1>3, <1>5, <1>9, <1>10, <1>11 DEF Fine, act, t, Paired
-----------------------------------------------------------------------------
\* What changes of a projection beside its condition of the item.
LEMMA ProjectionChanges ==
  ASSUME NEW p \in Projections
  PROVE  /\ \A phase2 \in {"none", "snapshot", "complete", "live"} :
              LET q == [p EXCEPT !.phase = phase2]
              IN  q \in Projections /\ Holds(q, HeldBy(p), p.snapshotCondition)
         /\ \A status \in Checkpoints, n \in 0 .. MaxLog :
              LET q == [p EXCEPT !.known = TRUE, !.coverage = [status |-> status, at |-> n]]
              IN  /\ q \in Projections /\ Holds(q, HeldBy(p), p.snapshotCondition)
                  /\ q.reducerCondition = p.reducerCondition
         /\ \A kind :
              LET q == ingested(p, kind)
              IN  q \in Projections /\ Holds(q, HeldBy(p), p.snapshotCondition)
<1>1. ASSUME NEW phase2 \in {"none", "snapshot", "complete", "live"}
      PROVE  LET q == [p EXCEPT !.phase = phase2]
             IN  q \in Projections /\ Holds(q, HeldBy(p), p.snapshotCondition)
  BY DEF Projections, Producers, Holds, HeldBy
<1>2. ASSUME NEW status \in Checkpoints, NEW n \in 0 .. MaxLog
      PROVE  LET q == [p EXCEPT !.known = TRUE, !.coverage = [status |-> status, at |-> n]]
             IN  /\ q \in Projections /\ Holds(q, HeldBy(p), p.snapshotCondition)
                 /\ q.reducerCondition = p.reducerCondition
  BY DEF Projections, Producers, Holds, HeldBy
<1>3. ASSUME NEW kind PROVE LET q == ingested(p, kind)
             IN  q \in Projections /\ Holds(q, HeldBy(p), p.snapshotCondition)
  <2> DEFINE q == ingested(p, kind)
  <2>1. CASE kind \in Checkpoints
    <3>1. q = IF p.subscription = "absent" THEN [p EXCEPT !.subscription = "pending"] ELSE p
      BY <2>1 DEF ingested, Checkpoints, SessionEvents
    <3> HIDE DEF q
    <3> QED BY <3>1 DEF Projections, Producers, Holds, HeldBy, q
  <2>2. CASE kind = "started"
    <3>1. q = [p EXCEPT !.subscription = "established"]
      BY <2>2 DEF ingested, Checkpoints, SessionEvents
    <3> HIDE DEF q
    <3> QED BY <3>1 DEF Projections, Producers, Holds, HeldBy, q
  <2>3. CASE kind \in SessionEvents
    <3>1. q = [p EXCEPT !.recovering = (kind = "recovering")]
      BY <2>3 DEF ingested, Checkpoints, SessionEvents
    <3>2. (kind = "recovering") \in BOOLEAN OBVIOUS
    <3> HIDE DEF q
    <3> QED BY <3>1, <3>2 DEF Projections, Producers, Holds, HeldBy, q
  <2>4. CASE kind \notin Checkpoints \cup SessionEvents \cup {"started"}
    <3>1. q = p BY <2>4 DEF ingested
    <3> HIDE DEF q
    <3> QED BY <3>1 DEF Projections, Producers, Holds, HeldBy, q
  <2> QED BY <2>1, <2>2, <2>3, <2>4
<1> QED BY <1>1, <1>2, <1>3

\* A projection that forgets its condition of the item, or that changes the
\* conditions of the reducer or of the subscription.
LEMMA ProjectionForgets ==
  ASSUME NEW p \in Projections
  PROVE  /\ LET q == [p EXCEPT !.phase = "complete", !.snapshotCondition = NoId]
            IN  q \in Projections /\ Holds(q, HeldBy(p) \ {p.snapshotCondition}, NoId)
         /\ LET q == [p EXCEPT !.established = TRUE, !.phase = "none", !.snapshotCondition = NoId]
            IN  q \in Projections /\ Holds(q, HeldBy(p) \ {p.snapshotCondition}, NoId)
         /\ LET q == [p EXCEPT !.reducerCondition = NoId]
            IN  q \in Projections /\ Holds(q, HeldBy(p) \ {p.reducerCondition}, p.snapshotCondition)
         /\ LET q == [p EXCEPT !.lint = NoId]
            IN  q \in Projections /\ Holds(q, HeldBy(p) \ {p.lint}, p.snapshotCondition)
<1>1. /\ p.reducerCondition # NoId => p.reducerCondition # p.snapshotCondition
      /\ p.lint # NoId => p.lint # p.snapshotCondition
      /\ p.lint # NoId => p.lint # p.reducerCondition
  BY HeldConditions DEF OfItem, ItemConditions
<1>2. HeldBy(p) = {p.snapshotCondition, p.reducerCondition, p.lint} \ {NoId} BY DEF HeldBy
<1>3. NoId.affected # "item" BY DEF NoId
<1>4. LET q == [p EXCEPT !.phase = "complete", !.snapshotCondition = NoId]
      IN  q \in Projections /\ Holds(q, HeldBy(p) \ {p.snapshotCondition}, NoId)
  <2> DEFINE q == [p EXCEPT !.phase = "complete", !.snapshotCondition = NoId]
  <2>1. /\ q \in Projections /\ q.snapshotCondition = NoId
        /\ q.reducerCondition = p.reducerCondition /\ q.lint = p.lint
    BY <1>3 DEF Projections, Producers
  <2> HIDE DEF q
  <2>2. HeldBy(q) = {NoId, p.reducerCondition, p.lint} \ {NoId} BY <2>1 DEF HeldBy
  <2> QED BY <2>1, <2>2, <1>1, <1>2 DEF Holds, q
<1>5. LET q == [p EXCEPT !.established = TRUE, !.phase = "none", !.snapshotCondition = NoId]
      IN  q \in Projections /\ Holds(q, HeldBy(p) \ {p.snapshotCondition}, NoId)
  <2> DEFINE q == [p EXCEPT !.established = TRUE, !.phase = "none", !.snapshotCondition = NoId]
  <2>1. /\ q \in Projections /\ q.snapshotCondition = NoId
        /\ q.reducerCondition = p.reducerCondition /\ q.lint = p.lint
    BY <1>3 DEF Projections, Producers
  <2> HIDE DEF q
  <2>2. HeldBy(q) = {NoId, p.reducerCondition, p.lint} \ {NoId} BY <2>1 DEF HeldBy
  <2> QED BY <2>1, <2>2, <1>1, <1>2 DEF Holds, q
<1>6. LET q == [p EXCEPT !.reducerCondition = NoId]
      IN  q \in Projections /\ Holds(q, HeldBy(p) \ {p.reducerCondition}, p.snapshotCondition)
  <2> DEFINE q == [p EXCEPT !.reducerCondition = NoId]
  <2>1. /\ q \in Projections /\ q.snapshotCondition = p.snapshotCondition
        /\ q.reducerCondition = NoId /\ q.lint = p.lint
    BY DEF Projections, Producers
  <2> HIDE DEF q
  <2>2. HeldBy(q) = {p.snapshotCondition, NoId, p.lint} \ {NoId} BY <2>1 DEF HeldBy
  <2> QED BY <2>1, <2>2, <1>1, <1>2 DEF Holds, q
<1>7. LET q == [p EXCEPT !.lint = NoId]
      IN  q \in Projections /\ Holds(q, HeldBy(p) \ {p.lint}, p.snapshotCondition)
  <2> DEFINE q == [p EXCEPT !.lint = NoId]
  <2>1. /\ q \in Projections /\ q.snapshotCondition = p.snapshotCondition
        /\ q.reducerCondition = p.reducerCondition /\ q.lint = NoId
    BY DEF Projections, Producers
  <2> HIDE DEF q
  <2>2. HeldBy(q) = {p.snapshotCondition, p.reducerCondition, NoId} \ {NoId} BY <2>1 DEF HeldBy
  <2> QED BY <2>1, <2>2, <1>1, <1>2 DEF Holds, q
<1> QED BY <1>4, <1>5, <1>6, <1>7

\* A projection that holds a condition of the reducer or of the subscription.
LEMMA ProjectionHolding ==
  ASSUME NEW p \in Projections, NEW id \in IdType
  PROVE  /\ id.code = "reducer-incomplete" =>
              LET q == [p EXCEPT !.reducerCondition = id]
              IN  q \in Projections /\ Holds(q, HeldBy(p) \cup {id}, p.snapshotCondition)
         /\ id.code = "not-established" =>
              LET q == [p EXCEPT !.lint = id]
              IN  q \in Projections /\ Holds(q, HeldBy(p) \cup {id}, p.snapshotCondition)
BY DEF Projections, Producers, Holds, HeldBy

\* The state stays, the projection changes and holds no more than before.
LEMMA FineWith ==
  ASSUME NEW r, NEW n \in Nat, NEW s, NEW k, Fine(r, n, s, k),
         NEW p \in Projections, Holds(p, HeldBy(r.p), r.p.snapshotCondition)
  PROVE  Fine([p |-> p, s |-> r.s], n, s, k)
<1> DEFINE u == r.s
           held == HeldBy(r.p)
           held2 == HeldBy(p)
           c == r.p.snapshotCondition
           act == s.activeRuntime
           t == [p |-> p, s |-> u]
<1>1. /\ Coherent(u, held, c, act, n, k) /\ u.activeRuntime = act /\ u.dismissed = s.dismissed
      /\ held2 \subseteq held /\ n <= n /\ p.snapshotCondition = c
  BY DEF Fine, Holds
<1>2. Coherent(u, held2, c, act, n, k)
  <2> HIDE DEF u, held, held2, c, act
  <2> QED BY <1>1, LessCoherent
<1>3. t.p = p /\ t.s = u /\ Paired(t) BY DEF Paired
<1> HIDE DEF t, u
<1> QED BY <1>1, <1>2, <1>3 DEF Fine, t, u

\* An occurrence is observed; the projection stays.
LEMMA OccurrenceFine ==
  ASSUME NEW r, NEW n \in 0 .. MaxLog, NEW m \in Nat, NEW s, NEW k \in Nat, Fine(r, m, s, k),
         observations.interval \in Nat,
         NEW code \in Occurrences, NEW of \in 0 .. MaxLog, NEW kind, NEW x \in Nat
  PROVE  LET a == proposed(r, Observe(Id(code, of, Affected(r.p, n, kind)), x))
         IN  Fine(a, m, s, k) /\ SameProjection(a, r)
<1> DEFINE id == Id(code, of, Affected(r.p, n, kind))
           a == proposed(r, Observe(id, x))
<1>1. r.p \in Projections BY DEF Fine
<1>2. id \in IdType /\ id.code = code BY <1>1, AffectedIdentity
<1> HIDE DEF id
<1>3. ~OfItem(id) /\ id.code \notin RuntimeConditions
  BY <1>2 DEF OfItem, ItemConditions, RuntimeConditions, Occurrences
<1>4. HeldBy(r.p) \subseteq HeldBy(r.p) \cup {id} OBVIOUS
<1>5. Paired(a) /\ SameProjection(a, r) /\ Fine([p |-> r.p, s |-> a.s], m, s, k)
  BY <1>1, <1>2, <1>3, <1>4, ObserveFine
<1> HIDE DEF a
<1>6. a = [p |-> r.p, s |-> a.s] BY <1>5 DEF Paired, SameProjection
<1> QED BY <1>5, <1>6 DEF a, id
-----------------------------------------------------------------------------
\* The handlers of committed Evidence keep the agreement.
LEMMA EstablishmentFine ==
  ASSUME NEW r, NEW n \in 1 .. MaxLog, NEW s, NEW k \in Nat, Fine(r, n, s, k),
         observations.interval \in Nat, s.activeRuntime \subseteq RuntimeIds
  PROVE  Fine(subscriptionEstablishment(r, n), n, s, k)
<1> DEFINE q == IF r.p.established
                  THEN proposed(r, Observe(Id("resubscribed", n, Affected(r.p, n, "started")), n))
                  ELSE r
           c == r.p.snapshotCondition
           b == resolvedIfActive(q, c, n)
           p2 == [r.p EXCEPT !.established = TRUE, !.phase = "none", !.snapshotCondition = NoId]
           t == subscriptionEstablishment(r, n)
<1>1. n \in 0 .. MaxLog /\ n \in Nat /\ "resubscribed" \in Occurrences
  BY DiagnosticsAssumption DEF Occurrences
<1>2. Fine(q, n, s, k) /\ SameProjection(q, r)
  <2> DEFINE a == proposed(r, Observe(Id("resubscribed", n, Affected(r.p, n, "started")), n))
  <2>1. Fine(a, n, s, k) /\ SameProjection(a, r) BY <1>1, OccurrenceFine
  <2>2. q = a \/ q = r OBVIOUS
  <2> HIDE DEF a, q
  <2> QED BY <2>1, <2>2 DEF SameProjection
<1> HIDE DEF q
<1>3. q.p = r.p /\ q.p \in Projections BY <1>2 DEF SameProjection, Fine
<1>4. p2 \in Projections /\ Holds(p2, HeldBy(q.p) \ {c}, NoId) BY <1>3, ProjectionForgets
<1>5. /\ c \in IdType /\ Resolvable(c, HeldBy(q.p), q.p.snapshotCondition)
      /\ NoId = IF OfItem(c) THEN NoId ELSE q.p.snapshotCondition
  BY <1>3, HeldConditions
<1> HIDE DEF p2, c
<1>6. Paired(b) /\ SameProjection(b, q) /\ Fine([p |-> p2, s |-> b.s], n, s, k)
  BY <1>1, <1>2, <1>4, <1>5, ResolveFine
<1>7. t = [b EXCEPT !.p.established = TRUE, !.p.phase = "none", !.p.snapshotCondition = NoId]
  BY DEF subscriptionEstablishment, q, c
<1> HIDE DEF b, t
<1>8. t = [p |-> p2, s |-> b.s] BY <1>3, <1>6, <1>7 DEF Paired, SameProjection, p2
<1> QED BY <1>6, <1>8 DEF t

\* The end of a snapshot is an occurrence, and the condition of the item is forgotten.
LEMMA EndOfSnapshotFine ==
  ASSUME NEW r, NEW n \in 1 .. MaxLog, NEW s, NEW k \in Nat, Fine(r, n, s, k),
         observations.interval \in Nat, s.activeRuntime \subseteq RuntimeIds
  PROVE  Fine(endOfSnapshot(r, n), n, s, k)
<1> DEFINE a == proposed(r, Observe(Id("completed", n, Affected(r.p, n, "item")), n))
           e == proposed(a, Observe(Id("phase-insufficient", n, Affected(r.p, n, "item")), n))
           q == IF r.p.phase = "none" THEN e ELSE a
           c == r.p.snapshotCondition
           b == resolvedIfActive(q, c, n)
           p2 == [r.p EXCEPT !.phase = "complete", !.snapshotCondition = NoId]
           t == endOfSnapshot(r, n)
<1>1. /\ n \in 0 .. MaxLog /\ n \in Nat
      /\ "completed" \in Occurrences /\ "phase-insufficient" \in Occurrences
  BY DiagnosticsAssumption DEF Occurrences
<1>2. Fine(q, n, s, k) /\ SameProjection(q, r)
  <2>1. Fine(a, n, s, k) /\ SameProjection(a, r) BY <1>1, OccurrenceFine
  <2> HIDE DEF a
  <2>2. a.p = r.p BY <2>1 DEF SameProjection
  <2> DEFINE f == proposed(a, Observe(Id("phase-insufficient", n, Affected(a.p, n, "item")), n))
  <2>3. Fine(f, n, s, k) /\ SameProjection(f, a) BY <1>1, <2>1, OccurrenceFine
  <2>4. e = f BY <2>2
  <2>5. q = e \/ q = a OBVIOUS
  <2> HIDE DEF e, f, q
  <2> QED BY <2>1, <2>3, <2>4, <2>5 DEF SameProjection
<1>7. t = [b EXCEPT !.p.phase = "complete", !.p.snapshotCondition = NoId] BY DEF endOfSnapshot
<1> HIDE DEF q
<1>3. q.p = r.p /\ q.p \in Projections BY <1>2 DEF SameProjection, Fine
<1>4. p2 \in Projections /\ Holds(p2, HeldBy(q.p) \ {c}, NoId) BY <1>3, ProjectionForgets
<1>5. /\ c \in IdType /\ Resolvable(c, HeldBy(q.p), q.p.snapshotCondition)
      /\ NoId = IF OfItem(c) THEN NoId ELSE q.p.snapshotCondition
  BY <1>3, HeldConditions
<1> HIDE DEF p2, c
<1>6. Paired(b) /\ SameProjection(b, q) /\ Fine([p |-> p2, s |-> b.s], n, s, k)
  BY <1>1, <1>2, <1>4, <1>5, ResolveFine
<1> HIDE DEF b, t
<1>8. t = [p |-> p2, s |-> b.s] BY <1>3, <1>6, <1>7 DEF Paired, SameProjection, p2
<1> QED BY <1>6, <1>8 DEF t

\* Updates: a condition of the item may begin.
LEMMA UpdateFine ==
  ASSUME NEW r, NEW n \in 1 .. MaxLog, NEW s, NEW k \in Nat, Fine(r, n - 1, s, k),
         observations.interval \in Nat, s.activeRuntime \subseteq RuntimeIds
  PROVE  Fine(snapshotUpdate(r, n), n, s, k) /\ Fine(liveUpdate(r, n), n, s, k)
<1>1. n \in Nat /\ n - 1 \in Nat /\ n - 1 <= n OBVIOUS
<1>2. Fine(r, n, s, k) BY <1>1, FineLater
<1>3. ASSUME NEW code \in ItemConditions, NEW q \in {observeCondition(r, n, code), r},
             NEW phase2 \in {"none", "snapshot", "complete", "live"}
      PROVE  Fine([q EXCEPT !.p.phase = phase2], n, s, k)
  <2>1. Fine(q, n, s, k) BY <1>2, <1>3, ItemConditionObserved
  <2>2. Paired(q) /\ q.p \in Projections BY <2>1 DEF Fine
  <2> DEFINE p2 == [q.p EXCEPT !.phase = phase2]
             t == [q EXCEPT !.p.phase = phase2]
  <2>3. p2 \in Projections /\ Holds(p2, HeldBy(q.p), q.p.snapshotCondition)
    BY <2>2, ProjectionChanges
  <2>4. t = [p |-> p2, s |-> q.s] BY <2>2 DEF Paired
  <2> HIDE DEF p2, t
  <2>5. Fine([p |-> p2, s |-> q.s], n, s, k) BY <1>1, <2>1, <2>3, FineWith
  <2> QED BY <2>4, <2>5 DEF t
<1>4. Fine(snapshotUpdate(r, n), n, s, k)
  <2> DEFINE q == IF r.p.phase \in {"complete", "live"} THEN observeCondition(r, n, "phase-inconsistent")
                  ELSE r
  <2>1. "phase-inconsistent" \in ItemConditions /\ q \in {observeCondition(r, n, "phase-inconsistent"), r}
    BY DEF ItemConditions
  <2>2. snapshotUpdate(r, n) = [q EXCEPT !.p.phase = "snapshot"] BY DEF snapshotUpdate
  <2> HIDE DEF q
  <2> QED BY <1>3, <2>1, <2>2
<1>5. Fine(liveUpdate(r, n), n, s, k)
  <2> DEFINE q == IF r.p.phase = "snapshot" THEN observeCondition(r, n, "phase-incomplete") ELSE r
  <2>1. "phase-incomplete" \in ItemConditions /\ q \in {observeCondition(r, n, "phase-incomplete"), r}
    BY DEF ItemConditions
  <2>2. liveUpdate(r, n) = [q EXCEPT !.p.phase = "live"] BY DEF liveUpdate
  <2> HIDE DEF q
  <2> QED BY <1>3, <2>1, <2>2
<1> QED BY <1>4, <1>5

\* Under partial coverage a condition of the reducer begins.
LEMMA ReducerFine ==
  ASSUME NEW r, NEW n \in 1 .. MaxLog, NEW s, NEW k \in Nat, Fine(r, n, s, k),
         observations.interval \in Nat, NEW kind
  PROVE  Fine(reducerIncomplete(r, n, kind), n, s, k)
<1> DEFINE id == Id("reducer-incomplete", 0, Affected(r.p, n, kind))
           x == r.p.coverage.at
           a == proposed(r, Observe(id, x))
           p2 == [r.p EXCEPT !.reducerCondition = id]
           t == reducerIncomplete(r, n, kind)
<1>1. /\ n \in 0 .. MaxLog /\ n \in Nat /\ 0 \in 0 .. MaxLog
      /\ "reducer-incomplete" \in Conditions \cup Occurrences
      /\ r.p \in Projections /\ Paired(r)
  BY DiagnosticsAssumption DEF Conditions, Fine
<1>2. id \in IdType /\ id.code = "reducer-incomplete" BY <1>1, AffectedIdentity
<1>3. x \in Nat BY <1>1, DiagnosticsAssumption DEF Projections, Producers
<1>4. t = IF r.p.coverage.status # "partial" THEN r ELSE [a EXCEPT !.p.reducerCondition = id]
  BY DEF reducerIncomplete
<1> HIDE DEF id, x
<1>5. ~OfItem(id) /\ id.code \notin RuntimeConditions
  BY <1>2 DEF OfItem, ItemConditions, RuntimeConditions
<1>6. p2 \in Projections /\ Holds(p2, HeldBy(r.p) \cup {id}, r.p.snapshotCondition)
  BY <1>1, <1>2, ProjectionHolding
<1> HIDE DEF p2
<1>7. Paired(a) /\ SameProjection(a, r) /\ Fine([p |-> p2, s |-> a.s], n, s, k)
  BY <1>1, <1>2, <1>3, <1>5, <1>6, ObserveFine DEF Holds
<1> HIDE DEF a, t
<1>8. [a EXCEPT !.p.reducerCondition = id] = [p |-> p2, s |-> a.s]
  BY <1>7 DEF Paired, SameProjection, p2
<1> QED BY <1>4, <1>7, <1>8 DEF t

\* A checkpoint that is complete resolves it.
LEMMA CheckpointFine ==
  ASSUME NEW r, NEW n \in 1 .. MaxLog, NEW s, NEW k \in Nat, Fine(r, n, s, k),
         observations.interval \in Nat, s.activeRuntime \subseteq RuntimeIds,
         NEW status \in Checkpoints
  PROVE  Fine(topologyCheckpoint(r, n, status), n, s, k)
<1> DEFINE p1 == [r.p EXCEPT !.known = TRUE, !.coverage = [status |-> status, at |-> n]]
           q == [r EXCEPT !.p.known = TRUE, !.p.coverage = [status |-> status, at |-> n]]
           id == r.p.reducerCondition
           b == resolvedIfActive(q, id, n)
           p2 == [p1 EXCEPT !.reducerCondition = NoId]
           t == topologyCheckpoint(r, n, status)
<1>1. n \in 0 .. MaxLog /\ n \in Nat /\ r.p \in Projections /\ Paired(r)
  BY DiagnosticsAssumption DEF Fine
<1>2. /\ p1 \in Projections /\ Holds(p1, HeldBy(r.p), r.p.snapshotCondition)
      /\ p1.reducerCondition = id
  BY <1>1, ProjectionChanges
<1>3. q = [p |-> p1, s |-> r.s]
  <2> DEFINE cov == [status |-> status, at |-> n]
             u == r.p
             v == r.s
  <2>1. r = [p |-> u, s |-> v] BY <1>1 DEF Paired
  <2>2. /\ q = [r EXCEPT !.p.known = TRUE, !.p.coverage = cov]
        /\ p1 = [u EXCEPT !.known = TRUE, !.coverage = cov]
    OBVIOUS
  <2> HIDE DEF cov, u, v, q, p1
  <2>3. q = [p |-> p1, s |-> v] BY <2>1, <2>2
  <2> QED BY <2>3 DEF v
<1>4. t = IF status = "partial" THEN q ELSE [b EXCEPT !.p.reducerCondition = NoId]
  BY DEF topologyCheckpoint
<1> HIDE DEF p1, q
<1>5. Fine(q, n, s, k) BY <1>1, <1>2, <1>3, FineWith
<1>6. q.p = p1 BY <1>3
<1>7. /\ p2 \in Projections /\ Holds(p2, HeldBy(q.p) \ {id}, q.p.snapshotCondition)
      /\ id \in IdType /\ Resolvable(id, HeldBy(q.p), q.p.snapshotCondition)
  BY <1>2, <1>6, ProjectionForgets, HeldConditions
<1>8. ~OfItem(id) BY <1>1, HeldConditions DEF OfItem, ItemConditions, NoId
<1> HIDE DEF p2, id
<1>9. Paired(b) /\ SameProjection(b, q) /\ Fine([p |-> p2, s |-> b.s], n, s, k)
  BY <1>1, <1>5, <1>7, ResolveFine, <1>8
<1> HIDE DEF b, t
<1>10. [b EXCEPT !.p.reducerCondition = NoId] = [p |-> p2, s |-> b.s]
  BY <1>6, <1>9 DEF Paired, SameProjection, p2
<1> QED BY <1>4, <1>5, <1>9, <1>10 DEF t

\* handleCommittedEvidence, the diagnostic projection.
LEMMA EvidenceFine ==
  ASSUME NEW r, NEW n \in 1 .. MaxLog, NEW s, NEW k \in Nat, Fine(r, n - 1, s, k),
         observations.interval \in Nat, s.activeRuntime \subseteq RuntimeIds, NEW kind
  PROVE  Fine(applyCommittedEvidence(r, n, kind), n, s, k)
<1> DEFINE t == applyCommittedEvidence(r, n, kind)
<1>1. n \in Nat /\ n - 1 \in Nat /\ n - 1 <= n OBVIOUS
<1>2. Fine(r, n, s, k) BY <1>1, FineLater
<1>3. CASE kind \in Checkpoints
  BY <1>2, <1>3, CheckpointFine DEF applyCommittedEvidence, Checkpoints
<1>4. CASE kind = "started"
  <2>1. t = reducerIncomplete(subscriptionEstablishment(r, n), n, kind)
    BY <1>4 DEF applyCommittedEvidence, Checkpoints
  <2>2. Fine(subscriptionEstablishment(r, n), n, s, k) BY <1>2, EstablishmentFine
  <2> QED BY <2>1, <2>2, ReducerFine
<1>5. CASE kind = "snapshot"
  BY UpdateFine, ReducerFine, <1>5 DEF applyCommittedEvidence, Checkpoints
<1>6. CASE kind = "live"
  BY UpdateFine, ReducerFine, <1>6 DEF applyCommittedEvidence, Checkpoints
<1>7. CASE kind = "end-of-snapshot"
  <2>1. t = reducerIncomplete(endOfSnapshot(r, n), n, kind)
    BY <1>7 DEF applyCommittedEvidence, Checkpoints
  <2>2. Fine(endOfSnapshot(r, n), n, s, k) BY <1>2, EndOfSnapshotFine
  <2> QED BY <2>1, <2>2, ReducerFine
<1>8. CASE kind \notin Checkpoints \cup {"started", "snapshot", "live", "end-of-snapshot"}
  BY <1>2, <1>8 DEF applyCommittedEvidence
<1> QED BY <1>3, <1>4, <1>5, <1>6, <1>7, <1>8

\* The coordinator's pass over the topology.
LEMMA ReconcileFine ==
  ASSUME NEW r, NEW n \in 1 .. MaxLog, NEW s, NEW k \in Nat, Fine(r, n, s, k),
         observations.interval \in Nat, s.activeRuntime \subseteq RuntimeIds
  PROVE  Fine(reconcileSubscriptionDiagnostics(r, n), n, s, k)
<1> DEFINE id == Id("not-established", 0, [kind |-> "subscription", at |-> 0])
           active == r.p.subscription = "pending"
           lint == r.p.lint
           a == proposed(r, Observe(id, n))
           b == resolvedIfActive(r, lint, n)
           p1 == [r.p EXCEPT !.lint = id]
           p2 == [r.p EXCEPT !.lint = NoId]
           t == reconcileSubscriptionDiagnostics(r, n)
<1>1. n \in Nat /\ r.p \in Projections /\ Paired(r) BY DEF Fine
<1>2. id \in IdType /\ id.code = "not-established"
  BY DiagnosticsAssumption DEF Id, IdType, Conditions
<1>3. t = CASE active /\ lint = NoId -> [a EXCEPT !.p.lint = id]
            [] active /\ lint # NoId -> r
            [] ~active -> [b EXCEPT !.p.lint = NoId]
  BY DEF reconcileSubscriptionDiagnostics
<1> HIDE DEF id
<1>4. ~OfItem(id) /\ id.code \notin RuntimeConditions
  BY <1>2 DEF OfItem, ItemConditions, RuntimeConditions
<1>5. p1 \in Projections /\ Holds(p1, HeldBy(r.p) \cup {id}, r.p.snapshotCondition)
  BY <1>1, <1>2, ProjectionHolding
<1>6. /\ p2 \in Projections /\ Holds(p2, HeldBy(r.p) \ {lint}, r.p.snapshotCondition)
      /\ lint \in IdType /\ Resolvable(lint, HeldBy(r.p), r.p.snapshotCondition)
  BY <1>1, ProjectionForgets, HeldConditions
<1>7. ~OfItem(lint) BY <1>1, HeldConditions DEF OfItem, ItemConditions, NoId
<1> HIDE DEF p1, p2, lint
<1>8. Paired(a) /\ SameProjection(a, r) /\ Fine([p |-> p1, s |-> a.s], n, s, k)
  BY <1>1, <1>2, <1>4, <1>5, ObserveFine DEF Holds
<1>9. Paired(b) /\ SameProjection(b, r) /\ Fine([p |-> p2, s |-> b.s], n, s, k)
  BY <1>1, <1>6, ResolveFine, <1>7
<1> HIDE DEF a, b, t, active
<1>10. /\ [a EXCEPT !.p.lint = id] = [p |-> p1, s |-> a.s]
       /\ [b EXCEPT !.p.lint = NoId] = [p |-> p2, s |-> b.s]
  BY <1>8, <1>9 DEF Paired, SameProjection, p1, p2
<1>11. t = [p |-> p1, s |-> a.s] \/ t = r \/ t = [p |-> p2, s |-> b.s] BY <1>3, <1>10
<1> QED BY <1>8, <1>9, <1>11 DEF t
-----------------------------------------------------------------------------
\* The invariant, as a state that is coherent.
LEMMA InvariantCoheres ==
  ASSUME DiagnosticsInv
  PROVE  /\ Coherent(State, HeldBy(Current), Current.snapshotCondition, activeRuntime, applied,
                     resets + 1)
         /\ State.activeRuntime = activeRuntime /\ State.dismissed = dismissed
         /\ State.queue = mutations /\ State.presentations = presentations
         /\ Current \in Projections /\ observations.interval \in Nat /\ resets + 1 \in Nat
         /\ applied \in Nat
<1>1. State \in States BY DEF DiagnosticsInv, DiagnosticsBasics, State, States
<1>2. /\ State.queue = mutations /\ State.presentations = presentations
      /\ State.activeRuntime = activeRuntime /\ State.dismissed = dismissed
  BY DEF State
<1>3. Current \in Projections BY DEF DiagnosticsInv, DiagnosticsBasics, Current
<1>4. observations.interval \in Nat /\ resets + 1 \in Nat /\ applied \in Nat
  BY DEF DiagnosticsInv, DiagnosticsBasics, IsObservations
<1>5. /\ Fits(presentations) /\ (failed => mutations = <<>>)
      /\ observations.interval + ClearsIn(mutations) <= resets + 1
      /\ ~failed => Agrees(mutations, observations, presentations, HeldBy(Current),
                           Current.snapshotCondition, activeRuntime, recoveries, applied)
  BY DEF DiagnosticsInv, DiagnosticsBasics
<1> DEFINE s == State
<1>6. /\ s \in States /\ s.queue = mutations /\ s.presentations = presentations BY <1>1, <1>2
<1> HIDE DEF s
<1>7. Coherent(s, HeldBy(Current), Current.snapshotCondition, activeRuntime, applied, resets + 1)
  BY <1>5, <1>6 DEF Coherent
<1> QED BY <1>2, <1>3, <1>4, <1>7 DEF s

\* A state that is reached by a step that leaves the journal alone.
LEMMA Settled ==
  ASSUME NEW s, NEW held, NEW c, NEW n, NEW k, Become(s),
         Coherent(s, held, c, s.activeRuntime, n, k),
         failed' = failed, observations' = observations, recoveries' = recoveries
  PROVE  /\ activeRuntime' \subseteq RuntimeIds
         /\ presentations' \in Seq(IdType) /\ Fits(presentations')
         /\ dismissed' \subseteq RuntimeConditions
         /\ mutations' \in Seq(Entries) /\ (failed' => mutations' = <<>>)
         /\ observations'.interval + ClearsIn(mutations') <= k
         /\ ~failed' => Agrees(mutations', observations', presentations', held, c, activeRuntime',
                               recoveries', n)
<1>1. s \in States BY DEF Coherent
<1>2. /\ mutations' = s.queue /\ presentations' = s.presentations
      /\ activeRuntime' = s.activeRuntime /\ dismissed' = s.dismissed
  BY DEF Become
<1> QED BY <1>1, <1>2 DEF Coherent, States

\* The snapshot that is published: the runtime's conditions may be recorded
\* first, and dismissals of what does not hold are dropped.
LEMMA PublishedRecorded ==
  ASSUME NEW s, NEW held, NEW c, NEW n \in Nat, NEW k \in Nat, NEW desired,
         Coherent(s, held, c, s.activeRuntime, n, k), observations.interval \in Nat,
         NoneOfRuntime(held), RuntimeOnly(desired), OneOfEachCode(s.activeRuntime),
         NEW r, r = s \/ r = refreshRuntimeDiagnosticObservations(s, desired),
         NEW t, t = Trimmed(r, desired)
  PROVE  /\ Coherent(t, held, c, t.activeRuntime, n, k) /\ OneOfEachCode(t.activeRuntime)
         /\ r = refreshRuntimeDiagnosticObservations(s, desired) => DismissalsFit(t)
<1> DEFINE f == refreshRuntimeDiagnosticObservations(s, desired)
<1>1. Coherent(f, held, c, desired, n, k) /\ f.activeRuntime = desired BY RefreshRecorded
<1> HIDE DEF f
<1>2. Coherent(r, held, c, r.activeRuntime, n, k) /\ OneOfEachCode(r.activeRuntime)
  BY <1>1 DEF f, RuntimeOnly
<1>3. r = f => r.activeRuntime = desired BY <1>1
<1>4. r \in States BY <1>2 DEF Coherent
<1>5. /\ t \in States /\ t.queue = r.queue /\ t.presentations = r.presentations
      /\ t.activeRuntime = r.activeRuntime /\ t.dismissed \subseteq CodesOf(desired)
  BY <1>4 DEF States, Trimmed
<1>6. Coherent(t, held, c, t.activeRuntime, n, k) BY <1>2, <1>5 DEF Coherent
<1> QED BY <1>2, <1>3, <1>5, <1>6 DEF f, DismissalsFit

\* A server's error is recorded.
LEMMA ErrorRecorded ==
  ASSUME NEW s, NEW held, NEW c, NEW act, NEW n \in 0 .. MaxLog, NEW k \in Nat,
         NEW pageId \in BOOLEAN, Coherent(s, held, c, act, n, k), observations.interval \in Nat
  PROVE  LET t == recordServerError(s, n, pageId)
         IN  Coherent(t, held, c, act, n, k) /\ SameRuntime(t, s)
<1> DEFINE id == Id("server-error", n, IF pageId THEN [kind |-> "page", at |-> 0]
                                       ELSE [kind |-> "evidence", at |-> n])
           t == recordServerError(s, n, pageId)
<1>1. n \in Nat /\ n <= n BY DiagnosticsAssumption
<1>2. id \in IdType /\ id.code = "server-error"
  <2>1. CASE pageId BY <2>1, DiagnosticsAssumption DEF Id, IdType, Occurrences
  <2>2. CASE ~pageId BY <2>2, DiagnosticsAssumption DEF Id, IdType, Occurrences
  <2> QED BY <2>1, <2>2
<1>3. t \in WithObservation(s, id, n) BY DEF recordServerError, WithObservation
<1> HIDE DEF id, t
<1>4. ObserveChanges(id, held, c, act, held, c, act) /\ Admits(s, id, c, n)
  BY <1>2 DEF ObserveChanges, Admits, OfItem, ItemConditions, RuntimeConditions
<1>5. Coherent(t, held, c, act, n, k) /\ t.activeRuntime = s.activeRuntime /\ t.dismissed = s.dismissed
  BY <1>1, <1>2, <1>3, <1>4, ObserveRecorded
<1> QED BY <1>5 DEF SameRuntime, t

\* Evidence is applied to the projections that are current.
LEMMA ApplyRecorded ==
  ASSUME DiagnosticsInv, NEW taken \in Seq(Kinds), applied < Len(taken),
         Len(taken) <= MaxLog, diagnosticEvidenceSequence <= Len(taken), Apply(taken)
  PROVE  /\ applied' = applied + 1 /\ diagnosticEvidenceSequence' \in 0 .. Len(taken)
         /\ pageKnown' \in BOOLEAN
         /\ \E p, s :
              /\ p \in Projections
              /\ producer' = (IF phase = "live" THEN p ELSE producer)
              /\ recovery' = (IF phase = "live" THEN recovery ELSE p)
              /\ Become(s) /\ OneOfEachCode(s.activeRuntime)
              /\ Coherent(s, HeldBy(p), p.snapshotCondition, s.activeRuntime, applied + 1, resets + 1)
              /\ phase = "live" => DismissalsFit(s)
<1> DEFINE n == applied + 1
           k == resets + 1
           kind == taken[n]
           pageId == pageKnown \/ kind \notin Checkpoints
           r0 == [p |-> Current, s |-> State]
           a == applyCommittedEvidence(r0, n, kind)
           p1 == ingested(a.p, kind)
           b == [a EXCEPT !.p = ingested(@, kind)]
           c == reconcileSubscriptionDiagnostics(b, n)
           s2 == IF kind = "server-error" THEN recordServerError(c.s, n, pageId) ELSE c.s
           desired == desiredConditions(disconnected, c.p.recovering, pageId)
           s3 == IF n <= diagnosticEvidenceSequence THEN s2
                 ELSE refreshRuntimeDiagnosticObservations(s2, desired)
<1>0. /\ applied' = n
      /\ producer' = IF phase = "live" THEN c.p ELSE producer
      /\ recovery' = IF phase = "live" THEN recovery ELSE c.p
      /\ pageKnown' = pageId
      /\ diagnosticEvidenceSequence' = Larger(diagnosticEvidenceSequence, n)
      /\ Become(s3)
  BY DEF Apply
<1>1. /\ Coherent(State, HeldBy(Current), Current.snapshotCondition, activeRuntime, applied, k)
      /\ State.activeRuntime = activeRuntime /\ State.dismissed = dismissed
      /\ Current \in Projections /\ observations.interval \in Nat /\ k \in Nat /\ applied \in Nat
  BY InvariantCoheres
<1>2. /\ n \in 1 .. MaxLog /\ n \in 0 .. MaxLog /\ n \in Nat /\ n - 1 = applied
      /\ n <= Len(taken) /\ Len(taken) \in Nat
  BY <1>1, DiagnosticsAssumption
<1>3. /\ activeRuntime \subseteq RuntimeIds /\ OneOfEachCode(activeRuntime)
      /\ diagnosticEvidenceSequence \in Nat
      /\ disconnected \in BOOLEAN /\ pageKnown \in BOOLEAN
      /\ phase = "live" => /\ diagnosticEvidenceSequence < n
                           /\ dismissed \subseteq CodesOf(activeRuntime)
  BY <1>1 DEF DiagnosticsInv, DiagnosticsBasics, DismissalsEnd
<1>4. pageId \in BOOLEAN OBVIOUS
<1> HIDE DEF n, kind, pageId, k
<1>5. Fine(r0, n - 1, State, k)
  <2>1. r0.p = Current /\ r0.s = State /\ Paired(r0) BY DEF Paired
  <2> HIDE DEF r0
  <2> QED BY <1>1, <1>2, <2>1 DEF Fine
<1>6. State.activeRuntime \subseteq RuntimeIds BY <1>1, <1>3
<1> HIDE DEF r0
<1>7. Fine(a, n, State, k) BY <1>1, <1>2, <1>5, <1>6, EvidenceFine
<1> HIDE DEF a
<1>8. p1 \in Projections /\ Holds(p1, HeldBy(a.p), a.p.snapshotCondition)
  BY <1>7, ProjectionChanges DEF Fine
<1>9. b = [p |-> p1, s |-> a.s] BY <1>7 DEF Paired, Fine
<1> HIDE DEF p1, b
<1>10. Fine(b, n, State, k) BY <1>2, <1>7, <1>8, <1>9, FineWith
<1>11. Fine(c, n, State, k) BY <1>1, <1>2, <1>6, <1>10, ReconcileFine
<1> HIDE DEF c
<1> DEFINE held == HeldBy(c.p)
           item == c.p.snapshotCondition
<1>12. /\ c.p \in Projections /\ c.p.recovering \in BOOLEAN
       /\ Coherent(c.s, held, item, activeRuntime, n, k)
       /\ c.s.activeRuntime = activeRuntime /\ c.s.dismissed = dismissed
       /\ NoneOfRuntime(held)
  BY <1>1, <1>11, HeldConditions DEF Fine, Projections, Producers
<1> HIDE DEF held, item
<1>13. /\ Coherent(s2, held, item, activeRuntime, n, k)
       /\ s2.activeRuntime = activeRuntime /\ s2.dismissed = dismissed
  <2> DEFINE u == c.s
             e == recordServerError(u, n, pageId)
  <2>1. Coherent(u, held, item, activeRuntime, n, k) BY <1>12
  <2>2. s2 = e \/ s2 = u OBVIOUS
  <2> HIDE DEF u, s2
  <2>3. Coherent(e, held, item, activeRuntime, n, k) /\ SameRuntime(e, u)
    BY <1>1, <1>2, <1>4, <2>1, ErrorRecorded
  <2> HIDE DEF e
  <2> QED BY <1>12, <2>1, <2>2, <2>3 DEF SameRuntime, u
<1> HIDE DEF s2
<1>14. RuntimeOnly(desired)
  <2> DEFINE recovering == c.p.recovering
  <2>1. recovering \in BOOLEAN BY <1>12
  <2> HIDE DEF recovering
  <2>2. LET d == desiredConditions(disconnected, recovering, pageId)
        IN  RuntimeOnly(d)
    BY <1>3, <1>4, <2>1, DesiredConditions
  <2> QED BY <2>2 DEF recovering
<1> HIDE DEF desired
<1>15. /\ Coherent(s3, held, item, s3.activeRuntime, n, k) /\ OneOfEachCode(s3.activeRuntime)
       /\ phase = "live" => DismissalsFit(s3)
  <2> DEFINE f == refreshRuntimeDiagnosticObservations(s2, desired)
  <2>1. Coherent(s2, held, item, s2.activeRuntime, n, k) /\ OneOfEachCode(s2.activeRuntime)
    BY <1>3, <1>13
  <2>2. /\ Coherent(f, held, item, desired, n, k) /\ f.activeRuntime = desired
        /\ DismissalsFit(s2) => DismissalsFit(f)
    BY <1>1, <1>2, <1>12, <1>14, <2>1, RefreshRecorded
  <2>3. s3 = IF n <= diagnosticEvidenceSequence THEN s2 ELSE f OBVIOUS
  <2>4. phase = "live" => s3 = f BY <1>2, <1>3, <2>3
  <2> HIDE DEF f, s3
  <2> QED BY <1>3, <1>13, <1>14, <2>1, <2>2, <2>3, <2>4 DEF RuntimeOnly, DismissalsFit
<1>16. diagnosticEvidenceSequence' \in 0 .. Len(taken) BY <1>0, <1>2, <1>3 DEF Larger
<1> HIDE DEF s3
<1>17. /\ producer' = (IF phase = "live" THEN c.p ELSE producer)
       /\ recovery' = (IF phase = "live" THEN recovery ELSE c.p)
       /\ Become(s3) /\ OneOfEachCode(s3.activeRuntime)
       /\ Coherent(s3, HeldBy(c.p), c.p.snapshotCondition, s3.activeRuntime, applied + 1, resets + 1)
       /\ phase = "live" => DismissalsFit(s3)
  BY <1>0, <1>15 DEF held, item, n, k
<1>18. applied' = applied + 1 /\ pageKnown' \in BOOLEAN BY <1>0, <1>4 DEF n
<1> QED BY <1>12, <1>16, <1>17, <1>18
-----------------------------------------------------------------------------
\* A step of the runtime that ends in a state which is coherent with the
\* projection that is current then.
LEMMA StepKeeps ==
  ASSUME DiagnosticsBasics', NEW s, NEW p, Become(s), Current' = p,
         Coherent(s, HeldBy(p), p.snapshotCondition, s.activeRuntime, applied', resets' + 1),
         OneOfEachCode(s.activeRuntime), phase' = "live" => DismissalsFit(s),
         failed' = failed, observations' = observations, recoveries' = recoveries
  PROVE  DiagnosticsInv'
<1> DEFINE held == HeldBy(p)
           c == p.snapshotCondition
           n == applied'
           k == resets' + 1
<1>1. Coherent(s, held, c, s.activeRuntime, n, k) OBVIOUS
<1>2. HeldBy(Current)' = held /\ Current.snapshotCondition' = c BY DEF HeldBy
<1> HIDE DEF held, c, n, k
<1>3. /\ activeRuntime' \subseteq RuntimeIds
      /\ presentations' \in Seq(IdType) /\ Fits(presentations')
      /\ dismissed' \subseteq RuntimeConditions
      /\ mutations' \in Seq(Entries) /\ (failed' => mutations' = <<>>)
      /\ observations'.interval + ClearsIn(mutations') <= k
      /\ ~failed' => Agrees(mutations', observations', presentations', held, c, activeRuntime',
                            recoveries', n)
  BY <1>1, Settled
<1>4. activeRuntime' = s.activeRuntime /\ dismissed' = s.dismissed BY DEF Become
<1>5. OneOfEachCode(activeRuntime)' /\ DismissalsEnd'
  BY <1>4 DEF OneOfEachCode, DismissalsEnd, DismissalsFit, CodesOf
<1>6. Fits(presentations)' /\ ClearsIn(mutations)' = ClearsIn(mutations')
  BY <1>3 DEF Fits, ClearsIn
<1>7. ~failed' => Agrees(mutations, observations, presentations, HeldBy(Current),
                         Current.snapshotCondition, activeRuntime, recoveries, applied)'
  BY <1>2, <1>3 DEF n
<1> QED BY <1>3, <1>5, <1>6, <1>7 DEF DiagnosticsInv, k

\* The projections at the beginning.
LEMMA InitialProjection ==
  /\ InitialProducer \in Projections /\ HeldBy(InitialProducer) = {}
  /\ InitialProducer.snapshotCondition = NoId
<1>1. InitialProducer \in Producers BY DiagnosticsAssumption DEF InitialProducer, Producers
<1> QED BY <1>1 DEF Projections, InitialProducer, NoId, HeldBy

\* In the beginning nothing is presented, queued or journaled.
LEMMA DiagnosticsBegin == DiagnosticsInit => DiagnosticsInv
<1> SUFFICES ASSUME DiagnosticsInit PROVE DiagnosticsInv OBVIOUS
<1>1. Current = InitialProducer BY DEF Current, DiagnosticsInit
<1>2. IsObservations(observations) /\ observations.closed = FALSE /\ observations.interval = 1
      /\ Identities(observations) = {}
  <2>1. /\ observations = [interval |-> 1, sequence |-> 0, retainedThrough |-> 0,
                           records |-> <<>>, current |-> <<>>, closed |-> FALSE]
    BY DEF emptyPersistedState, DiagnosticsInit
  <2>2. /\ observations.interval = 1 /\ observations.sequence = 0
        /\ observations.retainedThrough = 0 /\ observations.records = <<>>
        /\ observations.current = <<>> /\ observations.closed = FALSE
    BY <2>1
  <2>3. Identities(observations) = {} BY <2>2 DEF Identities
  <2>4. IsFiniteSet({}) BY FS_EmptySet
  <2>5. observations = [interval |-> observations.interval, sequence |-> observations.sequence,
                        retainedThrough |-> observations.retainedThrough,
                        records |-> observations.records, current |-> observations.current,
                        closed |-> observations.closed]
    BY <2>1, <2>2
  <2> DEFINE ids == Identities(observations)
  <2>6. ids = {} /\ IsFiniteSet(ids) BY <2>3, <2>4
  <2>7. /\ \A id \in ids :
             /\ observations.current[id].sequence \in 1 .. observations.sequence
             /\ observations.current[id].state \in
                  IF id.code \in Occurrences THEN {"observed"} ELSE {"active", "resolved"}
        /\ \A x, y \in ids :
             observations.current[x].sequence = observations.current[y].sequence => x = y
    <3> HIDE DEF ids
    <3> QED BY <2>6
  <2>8. /\ observations.interval \in Nat \ {0} /\ observations.sequence \in Nat BY <2>2
  <2>9. observations.closed \in BOOLEAN BY <2>2
  <2> QED BY <2>2, <2>3, <2>5, <2>6, <2>7, <2>8, <2>9 DEF IsObservations
<1>3. DiagnosticsBasics
  <2>1. /\ evidence \in Seq(Kinds) /\ Len(evidence) = 0 /\ phase = "live" /\ applied = 0
        /\ recovery = NoProducer /\ diagnosticEvidenceSequence = 0
        /\ producer \in Projections /\ footer = {} /\ failed = FALSE
        /\ disconnected = FALSE /\ pageKnown = FALSE /\ resets = 0 /\ recoveries = 0 /\ toggles = 0
    BY InitialProjection DEF DiagnosticsInit
  <2>2. 0 \in 0 .. MaxResets /\ 0 \in 0 .. MaxRecoveries /\ 0 \in 0 .. MaxToggles /\ 0 <= MaxLog
    BY DiagnosticsAssumption
  <2>3. applied \in 0 .. Len(evidence) /\ diagnosticEvidenceSequence \in 0 .. Len(evidence)
    BY <2>1
  <2>4. failed = observations.closed BY <1>2, <2>1
  <2> QED BY <1>2, <2>1, <2>2, <2>3, <2>4 DEF DiagnosticsBasics
<1>4. ClearsIn(mutations) = 0
  <2>1. mutations = <<>> /\ <<>> \in Seq(Entries) BY DEF DiagnosticsInit
  <2>2. ClearsIn(<<>>) = 0 BY <2>1, ClearsCount
  <2> QED BY <2>1, <2>2
<1>5. Agrees(<<>>, observations, <<>>, {}, NoId, {}, 0, 0)
  <2>1. \A id : ~WillBeActive(<<>>, observations, id)
    BY <1>2 DEF WillBeActive, Settles, ActiveIn
  <2>2. Agreement(<<>>, observations, <<>>, {}, {}) BY <2>1 DEF Agreement, Range
  <2>3. ItemAgrees(<<>>, observations, NoId, 0) BY <2>1 DEF ItemAgrees, AllTakeEffect
  <2> QED BY <2>2, <2>3 DEF Agrees
<1>6. Fits(presentations) /\ OneOfEachCode(activeRuntime) /\ DismissalsEnd
  BY DiagnosticsAssumption DEF DiagnosticsInit, Fits, OneOfEachCode, DismissalsEnd, CodesOf, IsInjective
<1> QED BY <1>1, <1>2, <1>3, <1>4, <1>5, <1>6, InitialProjection DEF DiagnosticsInit, DiagnosticsInv

\* Evidence that is committed or replayed.
LEMMA CommitKeeps ==
  ASSUME DiagnosticsInv, NEW kind \in Kinds, Commit(kind) PROVE DiagnosticsInv'
<1>1. /\ evidence \in Seq(Kinds) /\ Len(evidence) < MaxLog /\ evidence' = Append(evidence, kind)
      /\ UNCHANGED <<phase, disconnected, footer, failed, observations, resets, recoveries, toggles>>
      /\ DiagnosticsBasics
  BY DEF Commit, DiagnosticsInv, DiagnosticsBasics
<1>2. /\ evidence' \in Seq(Kinds) /\ Len(evidence') = Len(evidence) + 1 /\ Len(evidence') <= MaxLog
      /\ Len(evidence) \in Nat
  BY <1>1, DiagnosticsAssumption
<1>3. CASE phase = "live"
  <2>1. Apply(evidence') BY <1>3 DEF Commit
  <2>2. /\ applied = Len(evidence) /\ recovery = NoProducer
        /\ diagnosticEvidenceSequence \in 0 .. Len(evidence)
    BY <1>1, <1>3 DEF DiagnosticsBasics
  <2>3. /\ applied' = applied + 1 /\ diagnosticEvidenceSequence' \in 0 .. Len(evidence')
        /\ pageKnown' \in BOOLEAN
        /\ \E p, s :
             /\ p \in Projections
             /\ producer' = (IF phase = "live" THEN p ELSE producer)
             /\ recovery' = (IF phase = "live" THEN recovery ELSE p)
             /\ Become(s) /\ OneOfEachCode(s.activeRuntime)
             /\ Coherent(s, HeldBy(p), p.snapshotCondition, s.activeRuntime, applied + 1, resets + 1)
             /\ phase = "live" => DismissalsFit(s)
    <3> DEFINE taken == evidence'
    <3>1. /\ taken \in Seq(Kinds) /\ applied < Len(taken) /\ Len(taken) <= MaxLog
          /\ diagnosticEvidenceSequence <= Len(taken) /\ Apply(taken)
      BY <1>2, <2>1, <2>2
    <3> HIDE DEF taken
    <3> QED BY <3>1, ApplyRecorded DEF taken
  <2>4. PICK p, s :
          /\ p \in Projections
          /\ producer' = p /\ recovery' = recovery
          /\ Become(s) /\ OneOfEachCode(s.activeRuntime)
          /\ Coherent(s, HeldBy(p), p.snapshotCondition, s.activeRuntime, applied + 1, resets + 1)
          /\ DismissalsFit(s)
    BY <2>3, <1>3
  <2>5. DiagnosticsBasics' BY <1>1, <1>2, <1>3, <2>2, <2>3, <2>4 DEF DiagnosticsBasics
  <2>6. Current' = p BY <1>1, <1>3, <2>4 DEF Current
  <2> QED BY <1>1, <2>3, <2>4, <2>5, <2>6, StepKeeps
<1>4. CASE phase = "recovering"
  <2>1. UNCHANGED <<applied, diagnosticEvidenceSequence, producer, recovery, pageKnown,
                    activeRuntime, presentations, dismissed, mutations>>
    BY <1>4 DEF Commit
  <2>2. DiagnosticsBasics' BY <1>1, <1>2, <1>4, <2>1 DEF DiagnosticsBasics
  <2>3. /\ Current' = Current /\ HeldBy(Current)' = HeldBy(Current)
        /\ DismissalsEnd'
    BY <1>1, <1>4, <2>1 DEF Current, HeldBy, DismissalsEnd
  <2> QED BY <1>1, <2>1, <2>2, <2>3 DEF DiagnosticsInv, OneOfEachCode, Fits, ClearsIn
<1> QED BY <1>1, <1>3, <1>4 DEF DiagnosticsBasics

\* Evidence that a recovery replays keeps the invariant.
LEMMA ReplayKeeps ==
  ASSUME DiagnosticsInv, ReplayEvidence PROVE DiagnosticsInv'
<1>1. /\ evidence \in Seq(Kinds) /\ Len(evidence) <= MaxLog /\ applied < Len(evidence)
      /\ diagnosticEvidenceSequence <= Len(evidence) /\ Apply(evidence)
      /\ UNCHANGED <<evidence, phase, disconnected, footer, failed, observations, resets,
                     recoveries, toggles>>
      /\ phase = "recovering" /\ DiagnosticsBasics /\ applied \in Nat /\ Len(evidence) \in Nat
  BY DEF ReplayEvidence, DiagnosticsInv, DiagnosticsBasics
<1>2. /\ applied' = applied + 1 /\ diagnosticEvidenceSequence' \in 0 .. Len(evidence)
      /\ pageKnown' \in BOOLEAN
      /\ \E p, s :
           /\ p \in Projections
           /\ producer' = (IF phase = "live" THEN p ELSE producer)
           /\ recovery' = (IF phase = "live" THEN recovery ELSE p)
           /\ Become(s) /\ OneOfEachCode(s.activeRuntime)
           /\ Coherent(s, HeldBy(p), p.snapshotCondition, s.activeRuntime, applied + 1, resets + 1)
           /\ phase = "live" => DismissalsFit(s)
  BY <1>1, ApplyRecorded
<1>3. PICK p, s :
        /\ p \in Projections
        /\ producer' = producer /\ recovery' = p
        /\ Become(s) /\ OneOfEachCode(s.activeRuntime)
        /\ Coherent(s, HeldBy(p), p.snapshotCondition, s.activeRuntime, applied + 1, resets + 1)
  BY <1>1, <1>2
<1>4. DiagnosticsBasics' BY <1>1, <1>2, <1>3 DEF DiagnosticsBasics
<1>5. Current' = p /\ phase' # "live" BY <1>1, <1>3 DEF Current
<1> QED BY <1>1, <1>2, <1>3, <1>4, <1>5, StepKeeps
-----------------------------------------------------------------------------
\* A recovery replays into fresh projections, which hold nothing.
LEMMA RecoverKeeps ==
  ASSUME DiagnosticsInv, Recover PROVE DiagnosticsInv'
<1>1. /\ UNCHANGED <<evidence, diagnosticEvidenceSequence, producer, disconnected, pageKnown,
                     activeRuntime, presentations, dismissed, footer, mutations, failed,
                     observations, resets, toggles>>
      /\ phase' = "recovering" /\ recovery' = InitialProducer
      /\ recoveries' = recoveries + 1 /\ recoveries < MaxRecoveries
      /\ applied' \in 0 .. Len(evidence) /\ DiagnosticsBasics
  BY DEF Recover, panelVars, journalVars, DiagnosticsInv
<1>2. recoveries' \in 0 .. MaxRecoveries /\ recoveries' > 0 /\ recoveries' # 0
  BY <1>1, DiagnosticsAssumption DEF DiagnosticsBasics
<1>3. DiagnosticsBasics' BY <1>1, <1>2, InitialProjection DEF DiagnosticsBasics
<1>4. Current' = InitialProducer /\ HeldBy(Current)' = {} /\ (Current.snapshotCondition)' = NoId
  BY <1>1, InitialProjection DEF Current, HeldBy
<1>5. ~failed => Agrees(mutations, observations, presentations, {}, NoId, activeRuntime,
                        recoveries', applied')
  BY <1>2 DEF DiagnosticsInv, Agrees, Agreement
<1>6. /\ OneOfEachCode(activeRuntime)' /\ Fits(presentations)' /\ DismissalsEnd'
      /\ ClearsIn(mutations)' = ClearsIn(mutations)
  BY <1>1 DEF DiagnosticsInv, OneOfEachCode, Fits, DismissalsEnd, ClearsIn
<1>7. ~failed' => Agrees(mutations, observations, presentations, HeldBy(Current),
                         Current.snapshotCondition, activeRuntime, recoveries, applied)'
  BY <1>1, <1>4, <1>5
<1> QED BY <1>1, <1>3, <1>6, <1>7 DEF DiagnosticsInv

\* What the panel shows are conditions of the runtime.
LEMMA FooterShows ==
  ASSUME NEW s, NEW down \in BOOLEAN, NEW p \in Projections, NEW pageId \in BOOLEAN,
         Show(s, down, p, pageId)
  PROVE  footer' \subseteq RuntimeConditions
<1> DEFINE back == p.recovering
<1>1. back \in BOOLEAN BY DEF Projections, Producers
<1>2. footer' = CodesOf(desiredConditions(down, back, pageId)) \ s.dismissed BY DEF Show
<1> HIDE DEF back
<1>3. CodesOf(desiredConditions(down, back, pageId)) \subseteq RuntimeConditions
  BY <1>1, DesiredConditions
<1> QED BY <1>2, <1>3

\* The conditions that a projection makes the runtime desire.
LEMMA DesiredBy ==
  ASSUME NEW down \in BOOLEAN, NEW p \in Projections, NEW pageId \in BOOLEAN
  PROVE  RuntimeOnly(desiredConditions(down, p.recovering, pageId))
<1> DEFINE back == p.recovering
<1>1. back \in BOOLEAN BY DEF Projections, Producers
<1> HIDE DEF back
<1>2. RuntimeOnly(desiredConditions(down, back, pageId)) BY <1>1, DesiredConditions
<1> QED BY <1>2 DEF back

\* The fresh projections replace the old ones.
LEMMA BecomeLiveKeeps ==
  ASSUME DiagnosticsInv, BecomeLive PROVE DiagnosticsInv'
<1> DEFINE desired == desiredConditions(disconnected, recovery.recovering, pageKnown)
           r == refreshRuntimeDiagnosticObservations(State, desired)
           t == [r EXCEPT !.dismissed = @ \cap CodesOf(desired)]
<1>1. /\ phase = "recovering" /\ applied = Len(evidence)
      /\ phase' = "live" /\ producer' = recovery /\ recovery' = NoProducer
      /\ Become(t) /\ Show(t, disconnected, recovery, pageKnown)
      /\ UNCHANGED <<evidence, applied, diagnosticEvidenceSequence, disconnected, pageKnown,
                     failed, observations, resets, recoveries, toggles>>
      /\ DiagnosticsBasics
  BY DEF BecomeLive, published, DiagnosticsInv
<1>2. /\ disconnected \in BOOLEAN /\ pageKnown \in BOOLEAN /\ recovery \in Projections
      /\ Current = recovery
  BY <1>1 DEF DiagnosticsBasics, Current
<1>3. footer' \subseteq RuntimeConditions BY <1>1, <1>2, FooterShows
<1>4. RuntimeOnly(desired) BY <1>2, DesiredBy
<1> DEFINE held == HeldBy(recovery)
           c == recovery.snapshotCondition
           n == applied
           k == resets + 1
           u == State
<1>5. /\ Coherent(u, held, c, u.activeRuntime, n, k) /\ OneOfEachCode(u.activeRuntime)
      /\ NoneOfRuntime(held) /\ n \in Nat /\ k \in Nat /\ observations.interval \in Nat
  BY <1>2, InvariantCoheres, HeldConditions DEF DiagnosticsInv
<1>6. r = refreshRuntimeDiagnosticObservations(u, desired) /\ t = Trimmed(r, desired)
  BY DEF Trimmed
<1> HIDE DEF desired, held, c, n, k, u, r, t
<1>7. /\ Coherent(t, held, c, t.activeRuntime, n, k) /\ OneOfEachCode(t.activeRuntime)
      /\ DismissalsFit(t)
  BY <1>4, <1>5, <1>6, PublishedRecorded
<1>8. DiagnosticsBasics' BY <1>1, <1>2, <1>3 DEF DiagnosticsBasics
<1>9. Current' = recovery /\ n = applied' /\ k = resets' + 1 BY <1>1 DEF Current, n, k
<1>10. Coherent(t, HeldBy(recovery), recovery.snapshotCondition, t.activeRuntime, applied', resets' + 1)
  BY <1>7, <1>9 DEF held, c
<1> QED BY <1>1, <1>2, <1>7, <1>8, <1>9, <1>10, StepKeeps

\* A snapshot of the runtime: "s" is the state before, and the projections
\* stay as they are.
LEMMA PublishingKeeps ==
  ASSUME DiagnosticsInv, DiagnosticsBasics', NEW s, NEW desired, RuntimeOnly(desired),
         Coherent(s, HeldBy(Current), Current.snapshotCondition, s.activeRuntime, applied, resets + 1),
         OneOfEachCode(s.activeRuntime),
         NEW r, r = s \/ r = refreshRuntimeDiagnosticObservations(s, desired),
         phase = "live" => r = refreshRuntimeDiagnosticObservations(s, desired),
         NEW t, t = Trimmed(r, desired), Become(t),
         UNCHANGED <<phase, applied, producer, recovery, failed, observations, resets, recoveries>>
  PROVE  DiagnosticsInv'
<1> DEFINE held == HeldBy(Current)
           c == Current.snapshotCondition
           n == applied
           k == resets + 1
<1>1. /\ Coherent(s, held, c, s.activeRuntime, n, k)
      /\ NoneOfRuntime(held) /\ n \in Nat /\ k \in Nat /\ observations.interval \in Nat
      /\ Current \in Projections
  BY InvariantCoheres, HeldConditions
<1> HIDE DEF held, c, n, k
<1>2. /\ Coherent(t, held, c, t.activeRuntime, n, k) /\ OneOfEachCode(t.activeRuntime)
      /\ r = refreshRuntimeDiagnosticObservations(s, desired) => DismissalsFit(t)
  BY <1>1, PublishedRecorded
<1>3. Current' = Current /\ n = applied' /\ k = resets' + 1 /\ phase' = phase
  BY DEF Current, n, k
<1>4. Coherent(t, HeldBy(Current), Current.snapshotCondition, t.activeRuntime, applied', resets' + 1)
  BY <1>2, <1>3 DEF held, c
<1>5. phase' = "live" => DismissalsFit(t) BY <1>2, <1>3
<1> DEFINE p == Current
<1>6. /\ Current' = p /\ p \in Projections
      /\ Coherent(t, HeldBy(p), p.snapshotCondition, t.activeRuntime, applied', resets' + 1)
  BY <1>1, <1>3, <1>4
<1> HIDE DEF p
<1> QED BY <1>2, <1>5, <1>6, StepKeeps

\* A publication keeps the invariant.
LEMMA PublishKeeps ==
  ASSUME DiagnosticsInv, Publish PROVE DiagnosticsInv'
<1> DEFINE desired == desiredConditions(disconnected, producer.recovering, pageKnown)
           r == IF phase = "live" THEN refreshRuntimeDiagnosticObservations(State, desired) ELSE State
           t == [r EXCEPT !.dismissed = @ \cap CodesOf(desired)]
<1>1. /\ Become(t) /\ Show(t, disconnected, producer, pageKnown)
      /\ UNCHANGED <<evidence, applied, phase, diagnosticEvidenceSequence, producer, recovery,
                     disconnected, pageKnown, failed, observations, resets, recoveries, toggles>>
      /\ DiagnosticsBasics
  BY DEF Publish, published, DiagnosticsInv, evidenceVars
<1>2. disconnected \in BOOLEAN /\ pageKnown \in BOOLEAN /\ producer \in Projections
  BY <1>1 DEF DiagnosticsBasics
<1>3. footer' \subseteq RuntimeConditions /\ RuntimeOnly(desired)
  BY <1>1, <1>2, FooterShows, DesiredBy
<1>4. DiagnosticsBasics' BY <1>1, <1>3 DEF DiagnosticsBasics
<1> DEFINE u == State
<1>5. /\ Coherent(u, HeldBy(Current), Current.snapshotCondition, u.activeRuntime, applied, resets + 1)
      /\ OneOfEachCode(u.activeRuntime)
  BY InvariantCoheres DEF DiagnosticsInv
<1>6. /\ r = u \/ r = refreshRuntimeDiagnosticObservations(u, desired)
      /\ phase = "live" => r = refreshRuntimeDiagnosticObservations(u, desired)
      /\ t = Trimmed(r, desired)
  BY DEF Trimmed
<1> HIDE DEF desired, u, r, t
<1> QED BY <1>1, <1>3, <1>4, <1>5, <1>6, PublishingKeeps

\* A dismissal keeps the invariant.
LEMMA DismissKeeps ==
  ASSUME DiagnosticsInv, NEW code \in RuntimeConditions, DismissDiagnostic(code)
  PROVE  DiagnosticsInv'
<1> DEFINE desired == desiredConditions(disconnected, producer.recovering, pageKnown)
           u == [State EXCEPT !.dismissed = @ \cup {code}]
           r == IF phase = "live" THEN refreshRuntimeDiagnosticObservations(u, desired) ELSE u
           t == [r EXCEPT !.dismissed = @ \cap CodesOf(desired)]
<1>1. /\ Become(t) /\ Show(t, disconnected, producer, pageKnown)
      /\ UNCHANGED <<evidence, applied, phase, diagnosticEvidenceSequence, producer, recovery,
                     disconnected, pageKnown, failed, observations, resets, recoveries, toggles>>
      /\ DiagnosticsBasics
  BY DEF DismissDiagnostic, published, DiagnosticsInv, evidenceVars
<1>2. disconnected \in BOOLEAN /\ pageKnown \in BOOLEAN /\ producer \in Projections
  BY <1>1 DEF DiagnosticsBasics
<1>3. footer' \subseteq RuntimeConditions /\ RuntimeOnly(desired)
  BY <1>1, <1>2, FooterShows, DesiredBy
<1>4. DiagnosticsBasics' BY <1>1, <1>3 DEF DiagnosticsBasics
<1>5. /\ Coherent(u, HeldBy(Current), Current.snapshotCondition, u.activeRuntime, applied, resets + 1)
      /\ OneOfEachCode(u.activeRuntime)
  <2> DEFINE v == State
             held == HeldBy(Current)
             c == Current.snapshotCondition
  <2>1. /\ Coherent(v, held, c, v.activeRuntime, applied, resets + 1)
        /\ OneOfEachCode(v.activeRuntime)
    BY InvariantCoheres DEF DiagnosticsInv
  <2>2. u = [v EXCEPT !.dismissed = @ \cup {code}] /\ v \in States BY <2>1 DEF Coherent
  <2> HIDE DEF u, v, held, c
  <2>3. /\ u \in States /\ u.queue = v.queue /\ u.presentations = v.presentations
        /\ u.activeRuntime = v.activeRuntime
    BY <2>2 DEF States
  <2>4. Coherent(u, held, c, u.activeRuntime, applied, resets + 1) BY <2>1, <2>3 DEF Coherent
  <2> QED BY <2>1, <2>3, <2>4 DEF held, c
<1>6. /\ r = u \/ r = refreshRuntimeDiagnosticObservations(u, desired)
      /\ phase = "live" => r = refreshRuntimeDiagnosticObservations(u, desired)
      /\ t = Trimmed(r, desired)
  BY DEF Trimmed
<1> HIDE DEF desired, u, r, t
<1> QED BY <1>1, <1>3, <1>4, <1>5, <1>6, PublishingKeeps

\* A change of the bridge keeps the invariant, in a recovery too.
LEMMA CaptureStatusKeeps ==
  ASSUME DiagnosticsInv, SetCaptureStatus PROVE DiagnosticsInv'
<1> DEFINE desired == desiredConditions(~disconnected, producer.recovering, pageKnown)
           v == State
           u == refreshRuntimeDiagnosticObservations(v, desired)
           r == IF phase = "live" THEN refreshRuntimeDiagnosticObservations(u, desired) ELSE u
           t == [r EXCEPT !.dismissed = @ \cap CodesOf(desired)]
<1>1. /\ toggles < MaxToggles /\ toggles' = toggles + 1 /\ disconnected' = ~disconnected
      /\ Become(t) /\ Show(t, ~disconnected, producer, pageKnown)
      /\ UNCHANGED <<evidence, applied, phase, diagnosticEvidenceSequence, producer, recovery,
                     pageKnown, failed, observations, resets, recoveries>>
      /\ DiagnosticsBasics
  BY DEF SetCaptureStatus, published, DiagnosticsInv, evidenceVars
<1>2. (~disconnected) \in BOOLEAN /\ pageKnown \in BOOLEAN /\ producer \in Projections
  BY <1>1 DEF DiagnosticsBasics
<1>3. footer' \subseteq RuntimeConditions /\ RuntimeOnly(desired)
  BY <1>1, <1>2, FooterShows, DesiredBy
<1>4. DiagnosticsBasics'
  <2>1. toggles' \in 0 .. MaxToggles BY <1>1, DiagnosticsAssumption DEF DiagnosticsBasics
  <2>2. disconnected' \in BOOLEAN BY <1>1, <1>2
  <2> QED BY <1>1, <1>3, <2>1, <2>2 DEF DiagnosticsBasics
<1>5. /\ Coherent(u, HeldBy(Current), Current.snapshotCondition, u.activeRuntime, applied, resets + 1)
      /\ OneOfEachCode(u.activeRuntime)
  <2> DEFINE held == HeldBy(Current)
             c == Current.snapshotCondition
             n == applied
             k == resets + 1
  <2>1. /\ Coherent(v, held, c, v.activeRuntime, n, k)
        /\ OneOfEachCode(v.activeRuntime) /\ NoneOfRuntime(held)
        /\ n \in Nat /\ k \in Nat /\ observations.interval \in Nat
    BY InvariantCoheres, HeldConditions DEF DiagnosticsInv
  <2> HIDE DEF desired, v, held, c, n, k
  <2>2. Coherent(u, held, c, desired, n, k) /\ u.activeRuntime = desired
    BY <1>3, <2>1, RefreshRecorded
  <2> HIDE DEF u
  <2> QED BY <1>3, <2>2 DEF held, c, n, k, RuntimeOnly
<1>6. /\ r = u \/ r = refreshRuntimeDiagnosticObservations(u, desired)
      /\ phase = "live" => r = refreshRuntimeDiagnosticObservations(u, desired)
      /\ t = Trimmed(r, desired)
  BY DEF Trimmed
<1> HIDE DEF desired, v, u, r, t
<1> QED BY <1>1, <1>3, <1>4, <1>5, <1>6, PublishingKeeps
-----------------------------------------------------------------------------
\* A Clear empties what is presented and queues the Clear of the journal.
LEMMA ClearQueued ==
  ASSUME DiagnosticsInv PROVE LET s == queued(Reset(State), ClearJournal, FALSE)
         IN  /\ Coherent(s, {}, NoId, s.activeRuntime, 0, resets + 2)
             /\ s.activeRuntime = {} /\ s.dismissed = {}
<1> DEFINE s == queued(Reset(State), ClearJournal, FALSE)
           e == [change |-> ClearJournal, advisory |-> FALSE]
<1>1. e \in Entries /\ e.change.op = "clear"
  <2>1. NoId \in IdType BY DiagnosticsAssumption DEF NoId, IdType
  <2> QED BY <2>1 DEF Entries, IsMutation, ClearJournal
<1>2. /\ mutations \in Seq(Entries) /\ (failed => mutations = <<>>)
      /\ observations.interval + ClearsIn(mutations) <= resets + 1
      /\ observations.interval \in Nat /\ resets \in Nat
  BY DEF DiagnosticsInv, DiagnosticsBasics, IsObservations
<1>3. /\ s.queue = (IF failed THEN mutations ELSE Append(mutations, e)) /\ s.presentations = <<>>
      /\ s.activeRuntime = {} /\ s.dismissed = {}
      /\ s = [queue |-> s.queue, presentations |-> s.presentations,
              activeRuntime |-> s.activeRuntime, dismissed |-> s.dismissed]
  <2> DEFINE u == State
             v == Reset(u)
  <2>1. u = [queue |-> u.queue, presentations |-> u.presentations,
             activeRuntime |-> u.activeRuntime, dismissed |-> u.dismissed]
        /\ u.queue = mutations
    BY DEF State
  <2>2. v = [u EXCEPT !.presentations = <<>>, !.dismissed = {}, !.activeRuntime = {}]
    BY DEF Reset
  <2> HIDE DEF u, v
  <2>3. /\ v = [queue |-> v.queue, presentations |-> v.presentations,
                activeRuntime |-> v.activeRuntime, dismissed |-> v.dismissed]
        /\ v.queue = mutations /\ v.presentations = <<>>
        /\ v.activeRuntime = {} /\ v.dismissed = {}
    BY <2>1, <2>2
  <2>4. s = IF failed THEN v ELSE [v EXCEPT !.queue = Append(@, e)] BY DEF queued, v, u
  <2> HIDE DEF s, e
  <2> QED BY <2>3, <2>4
<1> HIDE DEF e, s
<1>4. Append(mutations, e) \in Seq(Entries) BY <1>1, <1>2, QueueGrows
<1>5. s.queue \in Seq(Entries) BY <1>2, <1>3, <1>4
<1>6. s.presentations \in Seq(IdType) /\ s.activeRuntime \subseteq RuntimeIds
      /\ s.dismissed \subseteq RuntimeConditions
  BY <1>3
<1>7. s \in States BY <1>3, <1>5, <1>6 DEF States
<1>8. ClearsIn(mutations) \in Nat /\ ClearsIn(Append(mutations, e)) = ClearsIn(mutations) + 1
  BY <1>1, <1>2, ClearsCount
<1>9. observations.interval + ClearsIn(s.queue) <= resets + 2 BY <1>2, <1>3, <1>8
<1>10. Fits(s.presentations) BY <1>3, DiagnosticsAssumption DEF Fits, IsInjective
<1>11. ~failed => Agrees(s.queue, observations, s.presentations, {}, NoId, {}, recoveries, 0)
  BY <1>3, <1>1, <1>2, ClearAgrees
<1>12. failed => s.queue = <<>> BY <1>2, <1>3
<1>13. Coherent(s, {}, NoId, {}, 0, resets + 2) BY <1>7, <1>9, <1>10, <1>11, <1>12 DEF Coherent
<1> QED BY <1>3, <1>13 DEF s

\* A Clear keeps the invariant.
LEMMA ClearHistoryKeeps ==
  ASSUME DiagnosticsInv, ClearHistory PROVE DiagnosticsInv'
<1> DEFINE desired == desiredConditions(disconnected, FALSE, pageKnown)
           u == queued(Reset(State), ClearJournal, FALSE)
           s == refreshRuntimeDiagnosticObservations(u, desired)
<1>1. /\ resets < MaxResets /\ resets' = resets + 1
      /\ evidence' = <<>> /\ applied' = 0 /\ phase' = "live" /\ diagnosticEvidenceSequence' = 0
      /\ producer' = InitialProducer /\ recovery' = NoProducer /\ Become(s)
      /\ UNCHANGED <<disconnected, pageKnown, footer, failed, observations, recoveries, toggles>>
      /\ DiagnosticsBasics /\ observations.interval \in Nat
  BY DEF ClearHistory, DiagnosticsInv, DiagnosticsBasics, IsObservations
<1>2. RuntimeOnly(desired) BY DesiredConditions, <1>1 DEF DiagnosticsBasics
<1>3. /\ Coherent(u, {}, NoId, u.activeRuntime, 0, resets + 2)
      /\ u.activeRuntime = {} /\ u.dismissed = {}
  BY ClearQueued
<1>4. resets + 2 \in Nat /\ resets + 2 = resets' + 1 BY <1>1 DEF DiagnosticsBasics
<1> DEFINE k == resets + 2
<1> HIDE DEF desired, u, k
<1>5. /\ NoneOfRuntime({}) /\ OneOfEachCode(u.activeRuntime) /\ DismissalsFit(u)
      /\ Coherent(u, {}, NoId, u.activeRuntime, 0, k) /\ k \in Nat /\ 0 \in Nat
  BY <1>3, <1>4 DEF NoneOfRuntime, OneOfEachCode, DismissalsFit, k
<1>6. /\ Coherent(s, {}, NoId, desired, 0, k) /\ s.activeRuntime = desired
      /\ DismissalsFit(s)
  BY <1>1, <1>2, <1>5, RefreshRecorded
<1> HIDE DEF s
<1>7. Coherent(s, {}, NoId, s.activeRuntime, applied', resets' + 1) /\ OneOfEachCode(s.activeRuntime)
  BY <1>1, <1>2, <1>4, <1>6 DEF k, RuntimeOnly
<1>8. DiagnosticsBasics' BY <1>1, InitialProjection, DiagnosticsAssumption DEF DiagnosticsBasics
<1> DEFINE p == InitialProducer
<1>9. /\ p \in Projections /\ Current' = p
      /\ Coherent(s, HeldBy(p), p.snapshotCondition, s.activeRuntime, applied', resets' + 1)
  BY <1>1, <1>7, InitialProjection DEF Current
<1> HIDE DEF p
<1> QED BY <1>1, <1>6, <1>7, <1>8, <1>9, StepKeeps

\* A mutation that is rejected finds no room for its identity.
LEMMA RejectedWithoutRoom ==
  ASSUME NEW j, IsObservations(j), ~j.closed, NEW m, Rejects(j, m)
  PROVE  ~HasRoom(j) /\ Mutated(j, m) = j
<1> DEFINE ids == Identities(j)
<1>1. IsFiniteSet(ids) BY DEF IsObservations
<1>2. exhausted(ids \cup {m.id}) /\ Mutated(j, m) = j BY DEF Rejects, Mutated
<1> HIDE DEF ids
<1>3. Cardinality(ids) \in Nat BY <1>1, FS_CardinalityType
<1>4. Cardinality(ids \cup {m.id}) \in {Cardinality(ids), Cardinality(ids) + 1}
  BY <1>1, FS_AddElement
<1>5. ~(Cardinality(ids) < MaxIdentities /\ Cardinality(ids) < MaxBytes)
  BY <1>2, <1>3, <1>4, JournalAssumption DEF exhausted
<1> QED BY <1>2, <1>5 DEF HasRoom, ids

\* A journal that knows no fewer identities has no more room.
LEMMA RoomShrinks ==
  ASSUME NEW j, NEW j2, IsObservations(j2), Identities(j) \subseteq Identities(j2), HasRoom(j2)
  PROVE  HasRoom(j)
<1> DEFINE a == Identities(j)
           b == Identities(j2)
<1>1. IsFiniteSet(b) /\ a \subseteq b BY DEF IsObservations
<1>2. Cardinality(b) < MaxIdentities /\ Cardinality(b) < MaxBytes BY DEF HasRoom
<1> HIDE DEF a, b
<1>3. IsFiniteSet(a) /\ Cardinality(a) <= Cardinality(b) BY <1>1, FS_Subset
<1>4. Cardinality(a) \in Nat /\ Cardinality(b) \in Nat BY <1>1, <1>3, FS_CardinalityType
<1>5. Cardinality(a) < MaxIdentities /\ Cardinality(a) < MaxBytes
  BY <1>2, <1>3, <1>4, JournalAssumption
<1> QED BY <1>5 DEF HasRoom, a

\* The head of the queue is executed and meets the journal, or it is an
\* advisory proposal that the journal rejects.
LEMMA HeadExecuted ==
  ASSUME NEW q \in Seq(Entries), q # <<>>, NEW j, IsObservations(j), ~j.closed,
         NEW j2, j2 = IF Head(q).change.op = "clear" THEN Cleared(j) ELSE Mutated(j, Head(q).change)
  PROVE  /\ IsObservations(j2) /\ ~j2.closed
         /\ j2.interval = IF Head(q).change.op = "clear" THEN j.interval + 1 ELSE j.interval
         /\ WillHaveRoom(Tail(q), j2) => WillHaveRoom(q, j)
         /\ WillHaveRoom(Tail(q), j2) /\ (\A k \in DOMAIN Tail(q) : Tail(q)[k] \notin Clearing) =>
              Meets(Head(q), j, j2)
<1> DEFINE e == Head(q)
<1>1. /\ e \in Entries /\ e = q[1] /\ 1 \in DOMAIN q
      /\ \A i \in DOMAIN Tail(q) : i + 1 \in DOMAIN q /\ Tail(q)[i] = q[i + 1]
  BY QueueShrinks
<1>2. j2 = IF e.change.op = "clear" THEN Cleared(j) ELSE Mutated(j, e.change) OBVIOUS
<1> HIDE DEF e
<1>3. (\E i \in DOMAIN Tail(q) : Tail(q)[i] \in Clearing) => WillHaveRoom(q, j)
  BY <1>1 DEF WillHaveRoom
<1>4. CASE e.change.op = "clear"
  <2>1. /\ Meets(e, j, j2) /\ IsObservations(j2) /\ j2.closed = j.closed
        /\ j2.interval = j.interval + 1
    BY <1>1, <1>2, <1>4, ClearMeets
  <2>2. WillHaveRoom(q, j) BY <1>1, <1>4 DEF WillHaveRoom, Clearing
  <2> QED BY <1>4, <2>1, <2>2 DEF e
<1>5. CASE e.change.op # "clear" /\ ~Rejects(j, e.change)
  <2>1. /\ Meets(e, j, j2) /\ IsObservations(j2) /\ j2.closed = j.closed
        /\ j2.interval = j.interval /\ Identities(j) \subseteq Identities(j2)
    BY <1>1, <1>2, <1>5, MutationMeets
  <2>2. HasRoom(j2) => HasRoom(j) BY <2>1, RoomShrinks
  <2>3. WillHaveRoom(Tail(q), j2) => WillHaveRoom(q, j) BY <1>3, <2>2 DEF WillHaveRoom
  <2> QED BY <1>5, <2>1, <2>3 DEF e
<1>6. CASE e.change.op # "clear" /\ Rejects(j, e.change)
  <2>1. ~HasRoom(j) /\ j2 = j BY <1>2, <1>6, RejectedWithoutRoom
  <2>2. WillHaveRoom(Tail(q), j2) => \E i \in DOMAIN Tail(q) : Tail(q)[i] \in Clearing
    BY <2>1 DEF WillHaveRoom
  <2> QED BY <1>3, <1>6, <2>1, <2>2 DEF e
<1> QED BY <1>4, <1>5, <1>6

\* A journal that closes keeps what it has.
LEMMA ClosedIsObservations ==
  ASSUME NEW j, IsObservations(j)
  PROVE  /\ IsObservations(Closed(j)) /\ Closed(j).closed = TRUE
         /\ Closed(j).interval = j.interval
<1> DEFINE o == Closed(j)
<1>1. j = [interval |-> j.interval, sequence |-> j.sequence, retainedThrough |-> j.retainedThrough,
           records |-> j.records, current |-> j.current, closed |-> j.closed]
  BY DEF IsObservations
<1>2. o = [j EXCEPT !.closed = TRUE] BY DEF Closed
<1> HIDE DEF o
<1>3. /\ o.interval = j.interval /\ o.sequence = j.sequence
      /\ o.retainedThrough = j.retainedThrough /\ o.records = j.records
      /\ o.current = j.current
      /\ o = [interval |-> o.interval, sequence |-> o.sequence,
              retainedThrough |-> o.retainedThrough,
              records |-> o.records, current |-> o.current, closed |-> o.closed]
  BY <1>1, <1>2
<1>4. o.closed = TRUE BY <1>1, <1>2
<1>5. Identities(o) = Identities(j) BY <1>3 DEF Identities
<1>6. o.closed \in BOOLEAN BY <1>4
<1>7. IsObservations(o) BY <1>3, <1>5, <1>6 DEF IsObservations
<1> QED BY <1>3, <1>4, <1>7 DEF o

\* The next mutation of the queue is executed.
LEMMA ExecuteMutationKeeps ==
  ASSUME DiagnosticsInv, ExecuteMutation PROVE DiagnosticsInv'
<1> DEFINE q == mutations
           j == observations
           m == Head(q).change
           stops == m.op # "clear" /\ Rejects(j, m) /\ ~Head(q).advisory
<1>1. /\ q # <<>> /\ q \in Seq(Entries) /\ ~failed /\ ~j.closed /\ IsObservations(j)
      /\ DiagnosticsBasics /\ presentations \in Seq(IdType)
      /\ j.interval + ClearsIn(q) <= resets + 1
      /\ Agrees(q, j, presentations, HeldBy(Current), Current.snapshotCondition, activeRuntime,
                recoveries, applied)
      /\ j.interval \in Nat /\ resets \in Nat
  BY DEF ExecuteMutation, DiagnosticsInv, DiagnosticsBasics, IsObservations
<1>2. /\ observations' = IF m.op = "clear" THEN Cleared(j)
                         ELSE IF stops THEN Closed(j) ELSE Mutated(j, m)
      /\ failed' = (failed \/ stops)
      /\ mutations' = IF stops THEN <<>> ELSE Tail(q)
      /\ UNCHANGED <<evidence, applied, phase, diagnosticEvidenceSequence, producer, recovery,
                     disconnected, pageKnown, activeRuntime, presentations, dismissed, footer,
                     resets, recoveries, toggles>>
  BY DEF ExecuteMutation, evidenceVars, panelVars
<1>3. /\ Current' = Current /\ HeldBy(Current)' = HeldBy(Current)
      /\ (Current.snapshotCondition)' = Current.snapshotCondition
      /\ OneOfEachCode(activeRuntime)' /\ Fits(presentations)' /\ DismissalsEnd'
      /\ activeRuntime' \subseteq RuntimeIds /\ presentations' \in Seq(IdType)
      /\ dismissed' \subseteq RuntimeConditions /\ ClearsIn(mutations)' = ClearsIn(mutations')
  BY <1>2 DEF DiagnosticsInv, Current, HeldBy, OneOfEachCode, Fits, DismissalsEnd, ClearsIn
<1>4. /\ ClearsIn(q) \in Nat /\ ClearsIn(Tail(q)) \in Nat /\ ClearsIn(<<>>) = 0
      /\ ClearsIn(q) = IF m.op = "clear" THEN ClearsIn(Tail(q)) + 1 ELSE ClearsIn(Tail(q))
      /\ Tail(q) \in Seq(Entries) /\ <<>> \in Seq(Entries)
  <2>1. Tail(q) \in Seq(Entries) BY <1>1, QueueShrinks
  <2>2. /\ ClearsIn(q) \in Nat /\ ClearsIn(<<>>) = 0
        /\ ClearsIn(q) = IF Head(q).change.op = "clear" THEN ClearsIn(Tail(q)) + 1
                         ELSE ClearsIn(Tail(q))
    BY <1>1, ClearsCount
  <2>3. ClearsIn(Tail(q)) \in Nat BY <2>1, ClearsCount
  <2> QED BY <2>1, <2>2, <2>3
<1> DEFINE held == HeldBy(Current)
           c == Current.snapshotCondition
<1>5. held \subseteq {id \in IdType : id.code \notin Occurrences} /\ c \in IdType
  <2>1. Current \in Projections BY InvariantCoheres
  <2> DEFINE p == Current
  <2> HIDE DEF p
  <2>2. /\ HeldBy(p) \subseteq {id \in IdType : id.code \in Conditions \ RuntimeConditions}
        /\ p.snapshotCondition \in IdType
    BY <2>1, HeldConditions DEF p
  <2> QED BY <2>2 DEF p, Conditions, Occurrences
<1>6. CASE stops
  <2>1. /\ observations' = Closed(j) /\ failed' = TRUE /\ mutations' = <<>> BY <1>2, <1>6
  <2>2. /\ IsObservations(Closed(j)) /\ Closed(j).closed = TRUE
        /\ Closed(j).interval = j.interval
    BY <1>1, ClosedIsObservations
  <2>3. DiagnosticsBasics' BY <1>1, <1>2, <2>1, <2>2 DEF DiagnosticsBasics
  <2>4. observations'.interval + ClearsIn(mutations') <= resets + 1 BY <1>1, <1>4, <2>1, <2>2
  <2> QED BY <1>2, <1>3, <1>4, <2>1, <2>3, <2>4 DEF DiagnosticsInv
<1>7. CASE ~stops
  <2> DEFINE o == observations'
  <2>1. /\ o = IF m.op = "clear" THEN Cleared(j) ELSE Mutated(j, m)
        /\ failed' = FALSE /\ mutations' = Tail(q)
    BY <1>1, <1>2, <1>7
  <2> HIDE DEF o, q, j, held, c
  <2>2. /\ IsObservations(o) /\ ~o.closed
        /\ o.interval = IF m.op = "clear" THEN j.interval + 1 ELSE j.interval
        /\ WillHaveRoom(Tail(q), o) => WillHaveRoom(q, j)
        /\ WillHaveRoom(Tail(q), o) /\ (\A k \in DOMAIN Tail(q) : Tail(q)[k] \notin Clearing) =>
             Meets(Head(q), j, o)
    BY <1>1, <2>1, HeadExecuted
  <2>3. Agrees(Tail(q), o, presentations, held, c, activeRuntime, recoveries, applied)
    BY <1>1, <1>5, <2>2, ExecuteKeeps DEF held, c
  <2>4. DiagnosticsBasics'
    <3>1. o.closed \in BOOLEAN BY <2>2 DEF IsObservations
    <3>2. failed' = observations'.closed /\ failed' \in BOOLEAN /\ IsObservations(observations')
      BY <2>1, <2>2, <3>1 DEF o
    <3> QED BY <1>1, <1>2, <3>2 DEF DiagnosticsBasics
  <2>5. observations'.interval + ClearsIn(mutations') <= resets' + 1
    BY <1>1, <1>2, <1>4, <2>1, <2>2 DEF o
  <2>6. (Agrees(mutations, observations, presentations, HeldBy(Current),
                Current.snapshotCondition, activeRuntime, recoveries, applied))'
    BY <1>2, <1>3, <2>1, <2>3 DEF o, held, c
  <2>7. mutations' \in Seq(Entries) BY <1>4, <2>1
  <2> QED BY <1>3, <2>1, <2>4, <2>5, <2>6, <2>7 DEF DiagnosticsInv
<1> QED BY <1>6, <1>7
-----------------------------------------------------------------------------
\* The invariant when no variable of the runtime changes.
LEMMA StutterKeeps ==
  ASSUME DiagnosticsInv, UNCHANGED diagnosticsVars PROVE DiagnosticsInv'
<1>1. UNCHANGED <<evidence, applied, phase, diagnosticEvidenceSequence, producer, recovery,
                  disconnected, pageKnown, activeRuntime, presentations, dismissed, footer,
                  mutations, failed, observations, resets, recoveries, toggles>>
  BY DEF diagnosticsVars, evidenceVars, panelVars, journalVars
<1>2. /\ Current' = Current /\ HeldBy(Current)' = HeldBy(Current)
      /\ (Current.snapshotCondition)' = Current.snapshotCondition
      /\ OneOfEachCode(activeRuntime)' /\ Fits(presentations)' /\ DismissalsEnd'
      /\ ClearsIn(mutations)' = ClearsIn(mutations)
  BY <1>1 DEF DiagnosticsInv, Current, HeldBy, OneOfEachCode, Fits, DismissalsEnd, ClearsIn
<1>3. DiagnosticsBasics' BY <1>1 DEF DiagnosticsInv, DiagnosticsBasics
<1> QED BY <1>1, <1>2, <1>3 DEF DiagnosticsInv

\* Every step of the runtime keeps the invariant.
LEMMA DiagnosticsStep ==
  ASSUME DiagnosticsInv, [DiagnosticsNext]_diagnosticsVars PROVE DiagnosticsInv'
<1>1. ASSUME NEW kind \in Kinds, Commit(kind) PROVE DiagnosticsInv' BY <1>1, CommitKeeps
<1>2. CASE Recover BY <1>2, RecoverKeeps
<1>3. CASE ReplayEvidence BY <1>3, ReplayKeeps
<1>4. CASE BecomeLive BY <1>4, BecomeLiveKeeps
<1>5. CASE ClearHistory BY <1>5, ClearHistoryKeeps
<1>6. CASE SetCaptureStatus BY <1>6, CaptureStatusKeeps
<1>7. ASSUME NEW code \in RuntimeConditions, DismissDiagnostic(code) PROVE DiagnosticsInv'
  BY <1>7, DismissKeeps
<1>8. CASE Publish BY <1>8, PublishKeeps
<1>9. CASE ExecuteMutation BY <1>9, ExecuteMutationKeeps
<1>10. CASE UNCHANGED diagnosticsVars BY <1>10, StutterKeeps
<1> QED BY <1>1, <1>2, <1>3, <1>4, <1>5, <1>6, <1>7, <1>8, <1>9, <1>10 DEF DiagnosticsNext

\* The types of the variables follow from the invariant.
LEMMA InvariantHasTypes == DiagnosticsInv => DiagnosticsTypeOK
<1> SUFFICES ASSUME DiagnosticsInv PROVE DiagnosticsTypeOK OBVIOUS
<1>1. DiagnosticsBasics BY DEF DiagnosticsInv
<1>2. NoId \in IdType BY DiagnosticsAssumption DEF NoId, IdType
<1>3. Projections \subseteq ProducerType /\ NoProducer \in ProducerType
  <2>1. NoProducer \in ProducerType BY DEF ProducerType
  <2>2. Producers \subseteq ProducerType BY <1>2 DEF Producers, ProducerType, ItemIds
  <2> QED BY <2>1, <2>2 DEF Projections
<1>4. producer \in ProducerType /\ recovery \in ProducerType BY <1>1, <1>3 DEF DiagnosticsBasics
<1>5. activeRuntime \subseteq IdType BY DEF DiagnosticsInv, RuntimeIds
<1>6. Range(presentations) \subseteq IdType BY DEF DiagnosticsInv, Range
<1>7. Len(presentations) <= PresentationLimit /\ IsInjective(presentations)
  BY DEF DiagnosticsInv, Fits
<1>8. \A i \in DOMAIN mutations : mutations[i].change.op \in {"observe", "resolve", "clear"}
  BY DEF DiagnosticsInv, Entries
<1>9. observations.interval \in 1 .. resets + 1
  <2>1. mutations \in Seq(Entries) /\ observations.interval + ClearsIn(mutations) <= resets + 1
        /\ observations.interval \in Nat \ {0} /\ resets \in Nat
    BY <1>1 DEF DiagnosticsInv, DiagnosticsBasics, IsObservations
  <2>2. ClearsIn(mutations) \in Nat BY <2>1, ClearsCount
  <2> QED BY <2>1, <2>2
<1>10. Identities(observations) \subseteq IdType BY <1>1 DEF DiagnosticsBasics, IsObservations
<1> QED BY <1>1, <1>4, <1>5, <1>6, <1>7, <1>8, <1>9, <1>10 DEF DiagnosticsTypeOK,
        DiagnosticsInv, DiagnosticsBasics

\* With an empty queue the invariant says that the sources agree.
LEMMA InvariantAgrees == DiagnosticsInv => SourcesAgree
<1> SUFFICES ASSUME DiagnosticsInv, mutations = <<>>, ~failed, HasRoom(observations)
             PROVE  LET active == ActiveIn(observations)
                    IN  /\ \A id \in Range(presentations) :
                             IF id.code \in Occurrences THEN id \in Identities(observations)
                             ELSE id \in active
                        /\ HeldBy(Current) \subseteq active
                        /\ \A id \in active :
                             recoveries = 0 /\ IsLatestOfItem(observations, id)
                               => id = Current.snapshotCondition
                        /\ {id \in active : id.code \in RuntimeConditions} = activeRuntime
  BY DEF SourcesAgree
<1> DEFINE j == observations
           held == HeldBy(Current)
           c == Current.snapshotCondition
<1>1. /\ Agrees(<<>>, j, presentations, held, c, activeRuntime, recoveries, applied)
      /\ IsObservations(j) /\ activeRuntime \subseteq RuntimeIds
  BY DEF DiagnosticsInv, DiagnosticsBasics
<1>2. HasRoom(j) OBVIOUS
<1> HIDE DEF j, held, c
<1>3. \A id : /\ WillBeActive(<<>>, j, id) <=> id \in ActiveIn(j)
              /\ WillBeKnown(<<>>, j, id) <=> id \in Identities(j)
              /\ WillBeLatest(<<>>, j, id) <=> IsLatestOfItem(j, id)
  BY DEF WillBeActive, WillBeKnown, WillBeLatest, Settles
<1>4. /\ Agreement(<<>>, j, presentations, held, activeRuntime)
      /\ recoveries = 0 => ItemAgrees(<<>>, j, c, applied)
  BY <1>1, <1>2 DEF Agrees, WillHaveRoom
<1>5. ActiveIn(j) \subseteq IdType BY <1>1 DEF ActiveIn, IsObservations
<1>6. /\ \A id \in Range(presentations) :
           IF id.code \in Occurrences THEN id \in Identities(j) ELSE id \in ActiveIn(j)
      /\ held \subseteq ActiveIn(j)
      /\ {id \in ActiveIn(j) : id.code \in RuntimeConditions} = activeRuntime
  BY <1>1, <1>3, <1>4, <1>5 DEF Agreement, RuntimeIds
<1>7. ASSUME NEW id \in ActiveIn(j), recoveries = 0, IsLatestOfItem(j, id) PROVE id = c
  <2>1. OfItem(id) /\ id \in IdType /\ WillBeActive(<<>>, j, id)
    BY <1>3, <1>5, <1>7 DEF IsLatestOfItem, OfItem
  <2>2. id.at <= applied /\ (WillBeLatest(<<>>, j, id) \/ id.affected = "item" => id = c)
    BY <1>4, <1>7, <2>1 DEF ItemAgrees
  <2> QED BY <1>3, <1>7, <2>2
<1> QED BY <1>6, <1>7 DEF j, held, c

\* What the panel says of a condition is what the journal says of it, and no
\* old dismissal hides one (Diagnostics, PanelIsTruthful), for every limit.
THEOREM PanelTruthful == DiagnosticsSpec => []PanelIsTruthful
<1>1. DiagnosticsInit => DiagnosticsInv BY DiagnosticsBegin
<1>2. DiagnosticsInv /\ [DiagnosticsNext]_diagnosticsVars => DiagnosticsInv' BY DiagnosticsStep
<1>3. DiagnosticsInv => PanelIsTruthful
  BY InvariantHasTypes, InvariantAgrees DEF DiagnosticsInv, PanelIsTruthful
<1> QED BY <1>1, <1>2, <1>3, PTL DEF DiagnosticsSpec
=============================================================================
