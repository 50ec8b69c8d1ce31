-------------------------- MODULE CommandStateProofs --------------------------
(***************************************************************************)
(* Theorems of CommandState: what an agent is told of a key, for all keys, *)
(* values, limits and bounds.                                              *)
(*                                                                         *)
(* None of the properties is inductive: they compare an answer with the    *)
(* Server's state, and what connects the two is the Evidence.  The         *)
(* invariant says what the Evidence tells of the Server's state (Tells,    *)
(* KeepsValue), and what the projection keeps of the Evidence (RowSound,   *)
(* AbsenceSound, LocalSound).                                              *)
(***************************************************************************)
EXTENDS CommandState, TLAPS

\* An entry is of the item and has no value, or is of a key and has one unless
\* it is a DELETE.  The Server sends no UPDATE in a snapshot.
WellFormed(e) ==
  /\ e \in Entries
  /\ e.kind \in {"ended", "clear-snapshot"} => ~e.synthetic /\ e.value = Absent
  /\ e.kind = "DELETE" => e.value = Absent
  /\ e.kind \in {"ADD", "UPDATE"} => e.value \in Values
  /\ e.kind \in {"ADD", "UPDATE", "DELETE"} => e.key \in Keys
  /\ e.kind = "UPDATE" /\ ~e.synthetic => ~e.isSnapshot

Log(lg) ==
  /\ lg \in Seq(Entries) /\ Len(lg) <= MaxLog
  /\ \A i \in 1 .. Len(lg) : WellFormed(lg[i])

\* Nothing is missing from the Evidence after this one.
Trust == IF gap > earlier THEN gap ELSE earlier

\* What has been said of a key after t and not been contradicted is so.
Tells(lg, t, sv) ==
  \A k \in Keys : \A i \in 1 .. Len(lg) :
    /\ i > t /\ Touches(lg[i], k)
    /\ \A j \in i + 1 .. Len(lg) : Touches(lg[j], k) => lg[j].value = lg[i].value
    => sv[k] = lg[i].value

\* An UPDATE that changes nothing says what was said before.
KeepsValue(lg, t) ==
  \A k \in Keys : \A i \in 1 .. Len(lg) : \A j \in i + 1 .. Len(lg) :
    /\ i > t /\ Touches(lg[i], k)
    /\ Touches(lg[j], k) /\ lg[j].kind = "UPDATE" /\ ~lg[j].changed
    /\ \A h \in i + 1 .. j - 1 : ~Touches(lg[h], k)
    => lg[j].value = lg[i].value

\* A row is what was said last of its key.
RowSound(lg, n, t, p, k) ==
  LET row == p.activeRows[k]
  IN  row.latest # 0 =>
        /\ row.latest \in 1 .. n /\ row.field \in 1 .. row.latest
        /\ Touches(lg[row.latest], k) /\ lg[row.latest].value = row.value /\ row.value \in Values
        /\ \A j \in row.latest + 1 .. n : ~Touches(lg[j], k)
        /\ row.field > t => lg[row.field].value = row.value

\* Since the basis of an absent key nothing else was said of it.
AbsenceSound(lg, n, p, k) ==
  LET b == Basis(p, k)
  IN  ~Active(p, k) /\ b # 0 =>
        /\ b \in 1 .. n /\ Touches(lg[b], k) /\ lg[b].value = Absent
        /\ \A j \in b + 1 .. n : Touches(lg[j], k) => lg[j].value = Absent

ObservedSound(lg, n, t, p) ==
  \A k \in Keys : RowSound(lg, n, t, p, k) /\ AbsenceSound(lg, n, p, k)

\* InjectionsStayLocal, of the first n entries.
LocalSound(lg, n, pair) ==
  \A k \in Keys :
    LET o == pair.observedServer.activeRows[k]
        l == pair.localEffective.activeRows[k]
    IN  /\ o.latest <= n /\ l.latest <= n
        /\ o.latest # 0 => ~lg[o.latest].synthetic
        /\ l.latest # 0 /\ ~lg[l.latest].synthetic => o.latest = l.latest /\ o.value = l.value
        /\ o.latest # l.latest =>
             \E i \in o.latest + 1 .. n : lg[i].synthetic /\ lg[i].key = k

Pairs == [observedServer : Projection, localEffective : Projection]

\* What the projections are of the first n entries.
Sound(lg, n, t, pair) ==
  /\ pair \in Pairs
  /\ ObservedSound(lg, n, t, pair.observedServer)
  /\ LocalSound(lg, n, pair)

Inv ==
  /\ served \in [Keys -> Values \cup {Absent}] /\ earlier \in 0 .. Len(log)
  /\ gap \in NoGap .. Len(log)
  /\ applied \in 0 .. Len(log) /\ phase \in {"live", "recovering"}
  /\ phase = "live" => applied = Len(log)
  /\ Log(log)
  /\ Tells(log, Trust, served)
  /\ KeepsValue(log, Trust)
  /\ Sound(log, applied, Trust, projections)
-----------------------------------------------------------------------------
(* The projections                                                         *)

\* A projection with one of its fields replaced is one.
LEMMA WithRows ==
  ASSUME NEW p \in Projection, NEW rows \in [Keys -> Rows]
  PROVE  [p EXCEPT !.activeRows = rows] \in Projection
BY DEF Projection

LEMMA WithTombstones ==
  ASSUME NEW p \in Projection, NEW tombstones \in [Keys -> 0 .. MaxLog]
  PROVE  [p EXCEPT !.deletedKeys = tombstones] \in Projection
BY DEF Projection

LEMMA WithOlder ==
  ASSUME NEW p \in Projection PROVE [p EXCEPT !.deletedKeysHasOlder = TRUE] \in Projection
BY DEF Projection

\* Without one of its tombstones: no row changes, and no basis but to none.
LEMMA WithoutTombstone ==
  ASSUME NEW p \in Projection, NEW c
  PROVE  LET q == [p EXCEPT !.deletedKeys[c] = 0, !.deletedKeysHasOlder = TRUE]
         IN  /\ q \in Projection /\ q.activeRows = p.activeRows
             /\ \A k \in Keys : ~Active(p, k) => Basis(q, k) \in {0, Basis(p, k)}
<1> DEFINE q == [p EXCEPT !.deletedKeys[c] = 0, !.deletedKeysHasOlder = TRUE]
           f == [p.deletedKeys EXCEPT ![c] = 0]
           r == [p EXCEPT !.deletedKeys = f]
<1>1. f \in [Keys -> 0 .. MaxLog]
  <2>1. 0 \in 0 .. MaxLog BY CommandStateAssumption
  <2>2. QED BY <2>1 DEF Projection
<1>2. q = [r EXCEPT !.deletedKeysHasOlder = TRUE]
  <2>1. q = [[p EXCEPT !.deletedKeys[c] = 0] EXCEPT !.deletedKeysHasOlder = TRUE] OBVIOUS
  <2>2. [p EXCEPT !.deletedKeys[c] = 0] = r OBVIOUS
  <2>3. QED BY Zenon, <2>1, <2>2
<1>3. r \in Projection BY <1>1, WithTombstones
<1>4. q \in Projection
  <2> HIDE DEF r, q
  <2> QED BY <1>2, <1>3, WithOlder
<1>5. q.activeRows = p.activeRows /\ q.deletedKeysHasOlder
      /\ q.lastClearSnapshot = p.lastClearSnapshot
      /\ \A k \in Keys : q.deletedKeys[k] \in {0, p.deletedKeys[k]}
  BY DEF Projection
<1> HIDE DEF q
<1>6. \A k \in Keys : ~Active(p, k) => Basis(q, k) \in {0, Basis(p, k)}
  BY <1>5 DEF Active, Basis
<1>7. QED BY <1>4, <1>5, <1>6 DEF q

\* Evicted removes the oldest.
LEMMA EvictedEffect ==
  ASSUME NEW p \in Projection
  PROVE  /\ Evicted(p) \in Projection
         /\ Evicted(p).activeRows = p.activeRows
         /\ \A k \in Keys : ~Active(p, k) =>
              Basis(Evicted(p), k) \in {0, Basis(p, k)}
BY WithoutTombstone DEF Evicted

\* The row and the tombstone of one key.
LEMMA WithKey ==
  ASSUME NEW p \in Projection, NEW c, NEW row \in Rows, NEW tombstone \in 0 .. MaxLog
  PROVE  [p EXCEPT !.activeRows[c] = row, !.deletedKeys[c] = tombstone] \in Projection
<1> DEFINE r == [p EXCEPT !.activeRows[c] = row]
           q == [p EXCEPT !.activeRows[c] = row, !.deletedKeys[c] = tombstone]
           f == [p.deletedKeys EXCEPT ![c] = tombstone]
<1>1. [p.activeRows EXCEPT ![c] = row] \in [Keys -> Rows] /\ f \in [Keys -> 0 .. MaxLog]
  BY DEF Projection
<1>2. r = [p EXCEPT !.activeRows = [p.activeRows EXCEPT ![c] = row]] OBVIOUS
<1>3. r \in Projection /\ r.deletedKeys = p.deletedKeys BY <1>1, <1>2, WithRows DEF Projection
<1>4. q = [r EXCEPT !.deletedKeys[c] = tombstone] OBVIOUS
<1> HIDE DEF r
<1>5. q = [r EXCEPT !.deletedKeys = f] BY <1>3, <1>4
<1> HIDE DEF q, f
<1>6. QED BY <1>1, <1>3, <1>5, WithTombstones DEF q

\* retainAuxiliaryRecord keeps the rows likewise.
LEMMA RetainEffect ==
  ASSUME NEW p \in Projection
  PROVE  /\ retainAuxiliaryRecord(p) \in Projection
         /\ retainAuxiliaryRecord(p).activeRows = p.activeRows
         /\ \A k \in Keys : ~Active(p, k) =>
              Basis(retainAuxiliaryRecord(p), k) \in {0, Basis(p, k)}
BY EvictedEffect DEF retainAuxiliaryRecord

\* The empty projection.
LEMMA EmptyEffect ==
  ASSUME NEW n \in 0 .. MaxLog
  PROVE  /\ createCommandStateAccumulator \in Projection /\ ClearedSnapshot(n) \in Projection
         /\ \A k \in Keys :
              /\ createCommandStateAccumulator.activeRows[k] = NoRow
              /\ ClearedSnapshot(n).activeRows[k] = NoRow
              /\ Basis(createCommandStateAccumulator, k) = 0
              /\ Basis(ClearedSnapshot(n), k) = n
<1>1. 0 \in 0 .. MaxLog BY CommandStateAssumption
<1>2. NoRow \in Rows BY <1>1 DEF NoRow, Rows
<1>3. createCommandStateAccumulator \in Projection
  BY <1>1, <1>2 DEF createCommandStateAccumulator, Projection
<1>4. ClearedSnapshot(n) \in Projection /\ ClearedSnapshot(n).lastClearSnapshot = n
      /\ ClearedSnapshot(n).activeRows = createCommandStateAccumulator.activeRows
      /\ ClearedSnapshot(n).deletedKeys = createCommandStateAccumulator.deletedKeys
      /\ ClearedSnapshot(n).deletedKeysHasOlder = FALSE
  BY <1>3 DEF ClearedSnapshot, Projection, createCommandStateAccumulator
<1>5. QED BY <1>3, <1>4 DEF createCommandStateAccumulator, NoRow, Basis, Active

\* A DELETE ends its key's row and touches no other row or basis, except that a
\* basis may be evicted.
LEMMA DeletedEffect ==
  ASSUME NEW p \in Projection, NEW n \in 1 .. MaxLog, NEW e, e.key \in Keys
  PROVE  LET q == DeletedKey(p, n, e)
         IN  /\ q \in Projection
             /\ \A k \in Keys : q.activeRows[k] = IF k = e.key THEN NoRow ELSE p.activeRows[k]
             /\ Basis(q, e.key) \in {0, n}
             /\ \A k \in Keys \ {e.key} : ~Active(p, k) => Basis(q, k) \in {0, Basis(p, k)}
<1> DEFINE r == [p EXCEPT !.activeRows[e.key] = NoRow, !.deletedKeys[e.key] = n]
<1>a. NoRow \in Rows /\ n \in 0 .. MaxLog BY CommandStateAssumption DEF NoRow, Rows
<1>1. r \in Projection BY <1>a, WithKey, Zenon
<1>2. \A k \in Keys : r.activeRows[k] = IF k = e.key THEN NoRow ELSE p.activeRows[k]
  BY DEF Projection
<1>3. Basis(r, e.key) = n /\ ~Active(r, e.key) BY <1>2 DEF Projection, Basis, Active, NoRow
<1>4. \A k \in Keys \ {e.key} : ~Active(p, k) => Basis(r, k) = Basis(p, k) /\ ~Active(r, k)
  BY DEF Projection, Basis, Active
<1>5. DeletedKey(p, n, e) = retainAuxiliaryRecord(r) BY DEF DeletedKey
<1> HIDE DEF r
<1>6. QED BY <1>1, <1>2, <1>3, <1>4, <1>5, RetainEffect

\* An ADD or UPDATE makes its key's row and touches no other row or basis.
LEMMA UpdatedEffect ==
  ASSUME NEW p \in Projection, NEW n \in 1 .. MaxLog, NEW e,
         e.key \in Keys, e.value \in Values
  PROVE  LET q == Updated(p, n, e)
             row == q.activeRows[e.key]
         IN  /\ q \in Projection
             /\ row.value = e.value /\ row.latest = n
             /\ \/ row.field = n
                \/ /\ Active(p, e.key) /\ e.kind # "ADD" /\ ~e.changed
                   /\ row.field = p.activeRows[e.key].field
             /\ \A k \in Keys \ {e.key} :
                  q.activeRows[k] = p.activeRows[k] /\ Basis(q, k) = Basis(p, k)
<1> DEFINE q == Updated(p, n, e)
           row == [value |-> e.value, latest |-> n,
                   field |-> IF (e.kind = "ADD" \/ ~Active(p, e.key)) \/ e.changed THEN n
                             ELSE p.activeRows[e.key].field]
<1>a. row \in Rows BY DEF Projection, Rows
<1>b. q = [p EXCEPT !.activeRows[e.key] = row, !.deletedKeys[e.key] = 0] BY DEF Updated
<1>c. 0 \in 0 .. MaxLog BY CommandStateAssumption
<1>1. q \in Projection
  <2> HIDE DEF q, row
  <2> QED BY <1>a, <1>b, <1>c, WithKey
<1>2. \A k \in Keys \ {e.key} : q.activeRows[k] = p.activeRows[k] /\ Basis(q, k) = Basis(p, k)
  BY DEF Updated, Projection, Basis, Active
<1>3. q.activeRows[e.key].value = e.value /\ q.activeRows[e.key].latest = n
  BY DEF Updated, Projection
<1>4. \/ q.activeRows[e.key].field = n
      \/ /\ Active(p, e.key) /\ e.kind # "ADD" /\ ~e.changed
         /\ q.activeRows[e.key].field = p.activeRows[e.key].field
  BY DEF Updated, Projection
<1>5. QED BY <1>1, <1>2, <1>3, <1>4

\* What an event does to the rows.
LEMMA ApplyRows ==
  ASSUME NEW p \in Projection, NEW n \in 1 .. MaxLog, NEW e, WellFormed(e)
  PROVE  LET q == applyCommandEvent(p, n, e)
         IN  /\ q \in Projection
             /\ e.kind \in {"ended", "clear-snapshot"} =>
                  \A k \in Keys : q.activeRows[k].latest = 0
             /\ e.kind \in {"ADD", "UPDATE", "DELETE"} =>
                  \A k \in Keys \ {e.key} : q.activeRows[k] = p.activeRows[k]
             /\ e.kind = "DELETE" => q.activeRows[e.key].latest = 0
             /\ e.kind \in {"ADD", "UPDATE"} =>
                  \/ e.isSnapshot /\ q = p
                  \/ q.activeRows[e.key].latest = n /\ q.activeRows[e.key].value = e.value
<1>1. n \in 0 .. MaxLog OBVIOUS
<1>2. CASE e.kind \in {"ended", "clear-snapshot"}
  BY <1>1, <1>2, EmptyEffect DEF applyCommandEvent, NoRow
<1>3. CASE e.kind = "DELETE"
  <2>1. e.key \in Keys BY <1>3 DEF WellFormed
  <2>2. CASE Active(p, e.key)
    <3>1. applyCommandEvent(p, n, e) = DeletedKey(p, n, e)
      BY <1>3, <2>2 DEF applyCommandEvent, Diagnosed
    <3>2. QED BY <1>3, <2>1, <3>1, DeletedEffect DEF NoRow
  <2>3. CASE ~Active(p, e.key)
    <3>1. applyCommandEvent(p, n, e) = p BY <1>3, <2>3 DEF applyCommandEvent, Diagnosed
    <3>2. QED BY <1>3, <2>1, <2>3, <3>1 DEF Active
  <2>4. QED BY <2>2, <2>3
<1>4. CASE e.kind \in {"ADD", "UPDATE"}
  <2>1. e.key \in Keys /\ e.value \in Values BY <1>4 DEF WellFormed
  <2>2. CASE e.kind = "UPDATE" /\ e.isSnapshot BY <2>2 DEF applyCommandEvent, Diagnosed
  <2>3. CASE ~(e.kind = "UPDATE" /\ e.isSnapshot)
    <3>1. applyCommandEvent(p, n, e) = Updated(p, n, e)
      BY <1>4, <2>3 DEF applyCommandEvent, Diagnosed
    <3>2. QED BY <1>4, <2>1, <3>1, UpdatedEffect
  <2>4. QED BY <2>2, <2>3
<1>5. QED BY <1>2, <1>3, <1>4 DEF WellFormed, Entries
-----------------------------------------------------------------------------
(* What the projections keep of the Evidence                               *)

\* A row of a key of which the next entry says nothing.
LEMMA RowKept ==
  ASSUME NEW lg, Log(lg), NEW n \in Nat, n + 1 \in 1 .. Len(lg), NEW t, NEW p, NEW q,
         NEW k \in Keys, RowSound(lg, n, t, p, k), q.activeRows[k] = p.activeRows[k],
         ~Touches(lg[n + 1], k)
  PROVE  RowSound(lg, n + 1, t, q, k)
<1> DEFINE row == p.activeRows[k]
<1> SUFFICES ASSUME row.latest # 0
             PROVE  /\ row.latest \in 1 .. n + 1 /\ row.field \in 1 .. row.latest
                    /\ Touches(lg[row.latest], k)
                    /\ lg[row.latest].value = row.value /\ row.value \in Values
                    /\ \A j \in row.latest + 1 .. n + 1 : ~Touches(lg[j], k)
                    /\ row.field > t => lg[row.field].value = row.value
  BY DEF RowSound
<1>1. /\ row.latest \in 1 .. n /\ row.field \in 1 .. row.latest
      /\ Touches(lg[row.latest], k) /\ lg[row.latest].value = row.value /\ row.value \in Values
      /\ \A j \in row.latest + 1 .. n : ~Touches(lg[j], k)
      /\ row.field > t => lg[row.field].value = row.value
  BY DEF RowSound
<1> HIDE DEF row
<1>2. \A j \in row.latest + 1 .. n + 1 : j \in row.latest + 1 .. n \/ j = n + 1 BY <1>1
<1>3. QED BY <1>1, <1>2

\* A key that is absent, of which the next entry says no value.
LEMMA AbsenceKept ==
  ASSUME NEW lg, Log(lg), NEW n \in Nat, n + 1 \in 1 .. Len(lg), NEW p, NEW q,
         NEW k \in Keys, AbsenceSound(lg, n, p, k),
         ~Active(q, k) => ~Active(p, k) /\ Basis(q, k) \in {0, Basis(p, k)},
         Touches(lg[n + 1], k) => lg[n + 1].value = Absent
  PROVE  AbsenceSound(lg, n + 1, q, k)
<1> DEFINE b == Basis(q, k)
<1> SUFFICES ASSUME ~Active(q, k), b # 0
             PROVE  /\ b \in 1 .. n + 1 /\ Touches(lg[b], k) /\ lg[b].value = Absent
                    /\ \A j \in b + 1 .. n + 1 : Touches(lg[j], k) => lg[j].value = Absent
  BY DEF AbsenceSound
<1>1. b = Basis(p, k) /\ ~Active(p, k) OBVIOUS
<1>2. /\ b \in 1 .. n /\ Touches(lg[b], k) /\ lg[b].value = Absent
      /\ \A j \in b + 1 .. n : Touches(lg[j], k) => lg[j].value = Absent
  BY <1>1 DEF AbsenceSound
<1> HIDE DEF b
<1>3. \A j \in b + 1 .. n + 1 : j \in b + 1 .. n \/ j = n + 1 BY <1>2
<1>4. QED BY <1>2, <1>3

\* What the Server has sent, applied to the observed projection.
LEMMA ApplyObserved ==
  ASSUME NEW lg, Log(lg), NEW n \in Nat, n + 1 \in 1 .. Len(lg), NEW t \in Nat,
         KeepsValue(lg, t), NEW p \in Projection, ObservedSound(lg, n, t, p),
         ~lg[n + 1].synthetic
  PROVE  ObservedSound(lg, n + 1, t, applyCommandEvent(p, n + 1, lg[n + 1]))
<1> DEFINE e == lg[n + 1]
           m == n + 1
           q == applyCommandEvent(p, m, e)
<1>1. WellFormed(e) /\ m \in 1 .. MaxLog /\ m \in 0 .. MaxLog BY CommandStateAssumption DEF Log
<1>2. q \in Projection BY <1>1, ApplyRows
<1> SUFFICES ASSUME NEW k \in Keys PROVE RowSound(lg, m, t, q, k) /\ AbsenceSound(lg, m, q, k)
  BY DEF ObservedSound
<1>3. RowSound(lg, n, t, p, k) /\ AbsenceSound(lg, n, p, k) BY DEF ObservedSound
<1> HIDE DEF q
<1>4. CASE e.kind \in {"ended", "clear-snapshot"}
  <2>1. q.activeRows[k].latest = 0 /\ Basis(q, k) \in {0, m}
    BY <1>1, <1>4, EmptyEffect DEF q, applyCommandEvent, NoRow
  <2>2. Touches(e, k) /\ e.value = Absent BY <1>1, <1>4 DEF Touches, WellFormed
  <2>3. RowSound(lg, m, t, q, k) BY <2>1 DEF RowSound
  <2>4. AbsenceSound(lg, m, q, k) BY <2>1, <2>2 DEF AbsenceSound
  <2>5. QED BY <2>3, <2>4
<1>5. CASE e.kind \in {"ADD", "UPDATE", "DELETE"} /\ e.key # k
  <2>1. ~Touches(e, k) BY <1>5 DEF Touches
  <2>2. e.key \in Keys /\ k \in Keys \ {e.key} BY <1>1, <1>5 DEF WellFormed
  <2>3. q.activeRows[k] = p.activeRows[k] BY <1>1, <1>5, <2>2, ApplyRows DEF q
  <2>4. ~Active(p, k) => Basis(q, k) \in {0, Basis(p, k)}
    <3>1. CASE q = p BY <3>1
    <3>2. CASE q = DeletedKey(p, m, e) BY <1>1, <2>2, <3>2, DeletedEffect
    <3>3. CASE q = Updated(p, m, e) /\ e.value \in Values BY <1>1, <2>2, <3>3, UpdatedEffect
    <3>4. QED BY <1>1, <1>5, <3>1, <3>2, <3>3 DEF q, applyCommandEvent, WellFormed
  <2>5. RowSound(lg, m, t, q, k) BY <1>3, <2>1, <2>3, RowKept
  <2>6. AbsenceSound(lg, m, q, k) BY <1>3, <2>1, <2>3, <2>4, AbsenceKept DEF Active
  <2>7. QED BY <2>5, <2>6
<1>6. CASE e.kind = "DELETE" /\ e.key = k
  <2>1. Touches(e, k) /\ e.value = Absent BY <1>1, <1>6 DEF Touches, WellFormed
  <2>2. q.activeRows[k].latest = 0 BY <1>1, <1>6, ApplyRows DEF q
  <2>3. RowSound(lg, m, t, q, k) BY <2>2 DEF RowSound
  <2>4. CASE Active(p, k)
    <3>1. q = DeletedKey(p, m, e) BY <1>6, <2>4 DEF q, applyCommandEvent, Diagnosed
    <3>2. Basis(q, k) \in {0, m} BY <1>1, <1>6, <3>1, DeletedEffect
    <3>3. AbsenceSound(lg, m, q, k) BY <2>1, <3>2 DEF AbsenceSound
    <3>4. QED BY <2>3, <3>3
  <2>5. CASE ~Active(p, k)
    <3>1. q = p BY <1>6, <2>5 DEF q, applyCommandEvent, Diagnosed
    <3>2. AbsenceSound(lg, m, q, k) BY <1>3, <2>1, <2>5, <3>1, AbsenceKept
    <3>3. QED BY <2>3, <3>2
  <2>6. QED BY <2>4, <2>5
<1>7. CASE e.kind \in {"ADD", "UPDATE"} /\ e.key = k
  <2> DEFINE row == q.activeRows[k]
             was == p.activeRows[k]
  <2>1. Touches(e, k) /\ e.value \in Values BY <1>1, <1>7 DEF Touches, WellFormed
  <2>2. q = Updated(p, m, e) BY <1>1, <1>7 DEF q, applyCommandEvent, Diagnosed, WellFormed
  <2>3. /\ row.value = e.value /\ row.latest = m
        /\ \/ row.field = m
           \/ was.latest # 0 /\ e.kind = "UPDATE" /\ ~e.changed /\ row.field = was.field
    BY <1>1, <1>7, <2>1, <2>2, UpdatedEffect DEF Active
  <2>4. AbsenceSound(lg, m, q, k) BY <2>3 DEF AbsenceSound, Active
  <2>5. CASE row.field = m BY <2>1, <2>3, <2>4, <2>5 DEF RowSound
  <2>6. CASE was.latest # 0 /\ e.kind = "UPDATE" /\ ~e.changed /\ row.field = was.field
    <3> HIDE DEF row, was
    <3>1. /\ was.latest \in 1 .. n /\ was.field \in 1 .. was.latest
          /\ Touches(lg[was.latest], k) /\ lg[was.latest].value = was.value
          /\ \A j \in was.latest + 1 .. n : ~Touches(lg[j], k)
          /\ was.field > t => lg[was.field].value = was.value
      BY <1>3, <2>6 DEF RowSound, was
    <3>2. row.field > t => lg[row.field].value = e.value
      <4>1. SUFFICES ASSUME was.field > t PROVE lg[was.field].value = e.value BY <2>6
      <4>2. was.latest > t BY <3>1, <4>1
      <4>3. was.latest \in 1 .. Len(lg) /\ m \in was.latest + 1 .. Len(lg) /\ m - 1 = n
        BY <3>1 DEF Log
      <4>4. lg[m].value = lg[was.latest].value BY <2>1, <2>6, <3>1, <4>2, <4>3 DEF KeepsValue
      <4>5. QED BY <3>1, <4>1, <4>4
    <3>3. row.field \in 1 .. m BY <2>6, <3>1
    <3>4. QED BY <2>1, <2>3, <2>4, <3>2, <3>3 DEF RowSound, row
  <2>7. QED BY <2>3, <2>4, <2>5, <2>6
<1>8. QED BY <1>1, <1>4, <1>5, <1>6, <1>7 DEF WellFormed, Entries

\* One that was injected is in the local projection only; the Server's is in both.
LEMMA ApplyLocal ==
  ASSUME NEW lg, Log(lg), NEW n \in Nat, n + 1 \in 1 .. Len(lg),
         NEW pair \in Pairs, LocalSound(lg, n, pair)
  PROVE  LocalSound(lg, n + 1, apply(pair, n + 1, lg[n + 1]))
<1> DEFINE e == lg[n + 1]
           m == n + 1
           p == pair.observedServer
           r == pair.localEffective
           p1 == apply(pair, m, e).observedServer
           r1 == apply(pair, m, e).localEffective
<1>1. WellFormed(e) /\ m \in 1 .. MaxLog BY CommandStateAssumption DEF Log
<1>2. p \in Projection /\ r \in Projection BY DEF Pairs
<1>3. /\ p1 = IF e.synthetic THEN p ELSE applyCommandEvent(p, m, e)
      /\ r1 = applyCommandEvent(r, m, e)
  BY DEF apply
<1> HIDE DEF p1, r1
<1> SUFFICES ASSUME NEW k \in Keys PROVE LET o == p1.activeRows[k]
                        l == r1.activeRows[k]
                    IN  /\ o.latest <= m /\ l.latest <= m
                        /\ o.latest # 0 => ~lg[o.latest].synthetic
                        /\ l.latest # 0 /\ ~lg[l.latest].synthetic
                             => o.latest = l.latest /\ o.value = l.value
                        /\ o.latest # l.latest =>
                             \E i \in o.latest + 1 .. m : lg[i].synthetic /\ lg[i].key = k
  BY DEF LocalSound, p1, r1
<1> DEFINE o == p.activeRows[k]
           l == r.activeRows[k]
           o1 == p1.activeRows[k]
           l1 == r1.activeRows[k]
<1>4. /\ o.latest <= n /\ l.latest <= n
      /\ o.latest # 0 => ~lg[o.latest].synthetic
      /\ l.latest # 0 /\ ~lg[l.latest].synthetic => o.latest = l.latest /\ o.value = l.value
      /\ o.latest # l.latest => \E i \in o.latest + 1 .. n : lg[i].synthetic /\ lg[i].key = k
      /\ o.latest \in Nat /\ l.latest \in Nat
  BY <1>2 DEF LocalSound, Projection, Rows
<1>5. CASE o1 = o /\ l1 = l
  <2>1. \A i \in o.latest + 1 .. n : i \in o.latest + 1 .. m BY <1>4
  <2>2. QED BY <1>4, <1>5, <2>1
<1>6. CASE o1.latest = 0 /\ l1.latest = 0 BY <1>6
<1>7. CASE ~e.synthetic /\ o1.latest = m /\ l1.latest = m /\ o1.value = l1.value BY <1>7
<1>8. CASE e.synthetic /\ e.key = k /\ o1 = o /\ l1.latest \in {0, m}
  <2> HIDE DEF o, l, o1, l1
  <2>1. m \in o.latest + 1 .. m BY <1>4
  <2>2. l1.latest = m => lg[l1.latest].synthetic BY <1>8
  <2>3. QED BY <1>4, <1>8, <2>1, <2>2 DEF o1, l1
<1>9. CASE e.kind \in {"ended", "clear-snapshot"}
  <2>1. ~e.synthetic BY <1>1, <1>9 DEF WellFormed
  <2>2. QED BY <1>1, <1>2, <1>3, <1>6, <1>9, <2>1, ApplyRows
<1>10. CASE e.kind \in {"ADD", "UPDATE", "DELETE"} /\ e.key # k
  <2>1. l1 = l BY <1>1, <1>2, <1>3, <1>10, ApplyRows
  <2>2. o1 = o BY <1>1, <1>2, <1>3, <1>10, ApplyRows
  <2>3. QED BY <1>5, <2>1, <2>2
<1>11. CASE e.kind = "DELETE" /\ e.key = k
  <2>1. l1.latest = 0 BY <1>1, <1>2, <1>3, <1>11, ApplyRows
  <2>2. CASE e.synthetic BY <1>3, <1>8, <1>11, <2>1, <2>2
  <2>3. CASE ~e.synthetic BY <1>1, <1>2, <1>3, <1>6, <1>11, <2>1, <2>3, ApplyRows
  <2>4. QED BY <2>2, <2>3
<1>12. CASE e.kind \in {"ADD", "UPDATE"} /\ e.key = k
  <2>1. CASE ~e.synthetic
    <3>1. \A s \in Projection :
            LET s1 == applyCommandEvent(s, m, e)
            IN  \/ e.isSnapshot /\ e.kind = "UPDATE"
                \/ s1.activeRows[k].latest = m /\ s1.activeRows[k].value = e.value
      BY <1>1, <1>12, UpdatedEffect DEF applyCommandEvent, Diagnosed, WellFormed
    <3>2. ~(e.isSnapshot /\ e.kind = "UPDATE") BY <1>1, <2>1 DEF WellFormed
    <3>3. QED BY <1>2, <1>3, <1>7, <2>1, <3>1, <3>2
  <2>2. CASE e.synthetic
    <3>1. o1 = o BY <1>3, <2>2
    <3>2. l1 = l \/ l1.latest = m BY <1>1, <1>2, <1>3, <1>12, ApplyRows
    <3>3. QED BY <1>5, <1>8, <1>12, <2>2, <3>1, <3>2
  <2>3. QED BY <2>1, <2>2
<1>13. QED BY <1>1, <1>9, <1>10, <1>11, <1>12 DEF WellFormed, Entries

\* The next entry of the Evidence, applied to both.
LEMMA ApplySound ==
  ASSUME NEW lg, Log(lg), NEW n \in Nat, n + 1 \in 1 .. Len(lg), NEW t \in Nat,
         KeepsValue(lg, t), NEW pair, Sound(lg, n, t, pair)
  PROVE  Sound(lg, n + 1, t, apply(pair, n + 1, lg[n + 1]))
<1> DEFINE e == lg[n + 1]
           m == n + 1
           p == pair.observedServer
           p1 == IF e.synthetic THEN p ELSE applyCommandEvent(p, m, e)
           r1 == applyCommandEvent(pair.localEffective, m, e)
<1>1. WellFormed(e) /\ m \in 1 .. MaxLog BY CommandStateAssumption DEF Log
<1>2. pair \in Pairs /\ p \in Projection /\ pair.localEffective \in Projection
      /\ ObservedSound(lg, n, t, p)
  BY DEF Sound, Pairs
<1>3. apply(pair, m, e) = [observedServer |-> p1, localEffective |-> r1] BY DEF apply
<1>4. p1 \in Projection /\ r1 \in Projection BY <1>1, <1>2, ApplyRows
<1>5. ObservedSound(lg, m, t, p1)
  <2>1. CASE ~e.synthetic BY <1>2, <2>1, ApplyObserved
  <2>2. CASE e.synthetic
    <3>1. ASSUME NEW k \in Keys PROVE RowSound(lg, m, t, p, k) /\ AbsenceSound(lg, m, p, k)
      <4>1. RowSound(lg, n, t, p, k) /\ AbsenceSound(lg, n, p, k) BY <1>2 DEF ObservedSound
      <4>2. ~Touches(e, k) BY <2>2 DEF Touches
      <4>3. QED BY <4>1, <4>2, RowKept, AbsenceKept
    <3>2. QED BY <2>2, <3>1 DEF ObservedSound
  <2>3. QED BY <2>1, <2>2
<1>6. LocalSound(lg, m, apply(pair, m, e)) BY <1>2, ApplyLocal DEF Sound
<1> HIDE DEF p1, r1
<1>7. QED BY <1>3, <1>4, <1>5, <1>6 DEF Sound, Pairs

\* Nothing applied, nothing claimed.
LEMMA EmptySound ==
  ASSUME NEW lg, NEW n \in Nat, NEW t PROVE Sound(lg, n, t, createCommandStateProjections)
<1> DEFINE p == createCommandStateAccumulator
<1>1. 0 \in 0 .. MaxLog BY CommandStateAssumption
<1>2. /\ p \in Projection
      /\ \A k \in Keys : p.activeRows[k].latest = 0 /\ Basis(p, k) = 0
  BY <1>1, EmptyEffect DEF NoRow
<1>3. createCommandStateProjections = [observedServer |-> p, localEffective |-> p]
  BY DEF createCommandStateProjections
<1> HIDE DEF p
<1>4. QED BY <1>2, <1>3 DEF Sound, Pairs, ObservedSound, LocalSound, RowSound, AbsenceSound

\* What is kept of the first n entries stays when entries follow or more of the
\* Evidence is no longer trusted.
LEMMA SoundStays ==
  ASSUME NEW lg, NEW lg1, NEW n \in Nat, NEW t \in Nat, NEW t1 \in Nat, t <= t1,
         NEW pair, Sound(lg, n, t, pair), \A i \in 1 .. n : lg1[i] = lg[i]
  PROVE  Sound(lg1, n, t1, pair)
<1> DEFINE p == pair.observedServer
<1>1. pair \in Pairs /\ p \in Projection /\ pair.localEffective \in Projection
  BY DEF Sound, Pairs
<1>2. ASSUME NEW k \in Keys PROVE RowSound(lg1, n, t1, p, k)
  <2> DEFINE row == p.activeRows[k]
  <2>1. RowSound(lg, n, t, p, k) BY DEF Sound, ObservedSound
  <2> SUFFICES ASSUME row.latest # 0
               PROVE  /\ row.latest \in 1 .. n /\ row.field \in 1 .. row.latest
                      /\ Touches(lg1[row.latest], k)
                      /\ lg1[row.latest].value = row.value /\ row.value \in Values
                      /\ \A j \in row.latest + 1 .. n : ~Touches(lg1[j], k)
                      /\ row.field > t1 => lg1[row.field].value = row.value
    BY DEF RowSound
  <2>2. /\ row.latest \in 1 .. n /\ row.field \in 1 .. row.latest
        /\ Touches(lg[row.latest], k) /\ lg[row.latest].value = row.value
        /\ row.value \in Values
        /\ \A j \in row.latest + 1 .. n : ~Touches(lg[j], k)
        /\ row.field > t => lg[row.field].value = row.value
    BY <2>1 DEF RowSound
  <2> HIDE DEF row
  <2>3. row.field \in 1 .. n /\ \A j \in row.latest + 1 .. n : j \in 1 .. n BY <2>2
  <2>4. QED BY <2>2, <2>3
<1>3. ASSUME NEW k \in Keys PROVE AbsenceSound(lg1, n, p, k)
  <2> DEFINE b == Basis(p, k)
  <2>1. AbsenceSound(lg, n, p, k) BY DEF Sound, ObservedSound
  <2> SUFFICES ASSUME ~Active(p, k), b # 0
               PROVE  /\ b \in 1 .. n /\ Touches(lg1[b], k) /\ lg1[b].value = Absent
                      /\ \A j \in b + 1 .. n : Touches(lg1[j], k) => lg1[j].value = Absent
    BY DEF AbsenceSound
  <2>2. /\ b \in 1 .. n /\ Touches(lg[b], k) /\ lg[b].value = Absent
        /\ \A j \in b + 1 .. n : Touches(lg[j], k) => lg[j].value = Absent
    BY <2>1 DEF AbsenceSound
  <2> HIDE DEF b
  <2>3. \A j \in b + 1 .. n : j \in 1 .. n BY <2>2
  <2>4. QED BY <2>2, <2>3
<1>4. LocalSound(lg1, n, pair)
  <2> SUFFICES ASSUME NEW k \in Keys PROVE LET o == pair.observedServer.activeRows[k]
                          l == pair.localEffective.activeRows[k]
                      IN  /\ o.latest <= n /\ l.latest <= n
                          /\ o.latest # 0 => ~lg1[o.latest].synthetic
                          /\ l.latest # 0 /\ ~lg1[l.latest].synthetic
                               => o.latest = l.latest /\ o.value = l.value
                          /\ o.latest # l.latest =>
                               \E i \in o.latest + 1 .. n : lg1[i].synthetic /\ lg1[i].key = k
    BY DEF LocalSound
  <2> DEFINE o == pair.observedServer.activeRows[k]
             l == pair.localEffective.activeRows[k]
  <2>1. /\ o.latest <= n /\ l.latest <= n
        /\ o.latest # 0 => ~lg[o.latest].synthetic
        /\ l.latest # 0 /\ ~lg[l.latest].synthetic => o.latest = l.latest /\ o.value = l.value
        /\ o.latest # l.latest => \E i \in o.latest + 1 .. n : lg[i].synthetic /\ lg[i].key = k
        /\ o.latest \in Nat /\ l.latest \in Nat
    BY <1>1 DEF Sound, LocalSound, Projection, Rows
  <2> HIDE DEF o, l
  <2>2. /\ o.latest # 0 => o.latest \in 1 .. n
        /\ l.latest # 0 => l.latest \in 1 .. n
        /\ \A i \in o.latest + 1 .. n : i \in 1 .. n
    BY <2>1
  <2>3. QED BY <2>1, <2>2 DEF o, l
<1>5. QED BY <1>1, <1>2, <1>3, <1>4 DEF Sound, ObservedSound
-----------------------------------------------------------------------------
(* What the Evidence tells of the Server's state                           *)

\* The Server's state is what the entry says of it, and an UPDATE that changes
\* nothing says what was so before.
Heard(e, before, after) ==
  /\ \A k \in Keys : after[k] = IF Touches(e, k) THEN e.value ELSE before[k]
  /\ e.kind = "UPDATE" /\ ~e.synthetic /\ ~e.changed => e.value = before[e.key]

\* A well-formed entry may be appended.
LEMMA LogAppend ==
  ASSUME NEW lg, Log(lg), Len(lg) < MaxLog, NEW e, WellFormed(e) PROVE LET lg1 == Append(lg, e)
         IN  /\ Log(lg1) /\ Len(lg1) = Len(lg) + 1 /\ Len(lg) \in Nat
             /\ \A i \in 1 .. Len(lg) : lg1[i] = lg[i]
             /\ lg1[Len(lg) + 1] = e
<1> DEFINE lg1 == Append(lg, e)
<1>1. lg \in Seq(Entries) /\ e \in Entries BY DEF Log, WellFormed
<1>2. /\ lg1 \in Seq(Entries) /\ Len(lg1) = Len(lg) + 1 /\ Len(lg) \in Nat
      /\ \A i \in 1 .. Len(lg) : lg1[i] = lg[i]
      /\ lg1[Len(lg) + 1] = e
  BY <1>1
<1> HIDE DEF lg1
<1>3. \A i \in 1 .. Len(lg1) : WellFormed(lg1[i])
  <2>1. \A i \in 1 .. Len(lg1) : i \in 1 .. Len(lg) \/ i = Len(lg) + 1 BY <1>2
  <2>2. QED BY <1>2, <2>1 DEF Log
<1>4. Len(lg1) <= MaxLog BY <1>2, CommandStateAssumption
<1>5. QED BY <1>2, <1>3, <1>4 DEF Log, lg1

\* The next entry was heard.
LEMMA TellsAppend ==
  ASSUME NEW lg, Log(lg), Len(lg) < MaxLog, NEW e, WellFormed(e),
         NEW t \in Nat, NEW before, NEW after, Tells(lg, t, before), Heard(e, before, after)
  PROVE  Tells(Append(lg, e), t, after)
<1> DEFINE lg1 == Append(lg, e)
           n == Len(lg)
<1>1. /\ Len(lg1) = n + 1 /\ n \in Nat /\ lg1[n + 1] = e
      /\ \A i \in 1 .. n : lg1[i] = lg[i]
  BY LogAppend
<1> HIDE DEF lg1, n
<1> SUFFICES ASSUME NEW k \in Keys, NEW i \in 1 .. Len(lg1), i > t, Touches(lg1[i], k),
                    \A j \in i + 1 .. Len(lg1) :
                      Touches(lg1[j], k) => lg1[j].value = lg1[i].value
             PROVE  after[k] = lg1[i].value
  BY DEF Tells, lg1
<1>2. CASE i = n + 1 BY <1>1, <1>2 DEF Heard
<1>3. CASE i \in 1 .. n
  <2>1. /\ n + 1 \in i + 1 .. Len(lg1)
        /\ \A j \in i + 1 .. n : j \in i + 1 .. Len(lg1) /\ j \in 1 .. n
    BY <1>1, <1>3
  <2>2. CASE Touches(e, k) BY <1>1, <2>1, <2>2 DEF Heard
  <2>3. CASE ~Touches(e, k)
    <3>1. \A j \in i + 1 .. n : Touches(lg[j], k) => lg[j].value = lg[i].value
      BY <1>1, <1>3, <2>1
    <3>2. before[k] = lg[i].value BY <1>1, <1>3, <3>1 DEF Tells, n
    <3>3. QED BY <1>1, <1>3, <2>3, <3>2 DEF Heard
  <2>4. QED BY <2>2, <2>3
<1>4. QED BY <1>1, <1>2, <1>3

\* Likewise an UPDATE that changes nothing.
LEMMA KeepsValueAppend ==
  ASSUME NEW lg, Log(lg), Len(lg) < MaxLog, NEW e, WellFormed(e),
         NEW t \in Nat, NEW before, NEW after, Tells(lg, t, before), Heard(e, before, after),
         KeepsValue(lg, t)
  PROVE  KeepsValue(Append(lg, e), t)
<1> DEFINE lg1 == Append(lg, e)
           n == Len(lg)
<1>1. /\ Len(lg1) = n + 1 /\ n \in Nat /\ lg1[n + 1] = e
      /\ \A i \in 1 .. n : lg1[i] = lg[i]
  BY LogAppend
<1> HIDE DEF lg1, n
<1> SUFFICES ASSUME NEW k \in Keys, NEW i \in 1 .. Len(lg1), NEW j \in i + 1 .. Len(lg1),
                    i > t, Touches(lg1[i], k), Touches(lg1[j], k),
                    lg1[j].kind = "UPDATE", ~lg1[j].changed,
                    \A h \in i + 1 .. j - 1 : ~Touches(lg1[h], k)
             PROVE  lg1[j].value = lg1[i].value
  BY DEF KeepsValue, lg1
<1>2. i \in 1 .. n /\ \A h \in i + 1 .. j - 1 : h \in 1 .. n BY <1>1
<1>3. \A h \in i + 1 .. j - 1 : ~Touches(lg[h], k) BY <1>1, <1>2
<1>4. CASE j = n + 1
  <2>1. \A h \in i + 1 .. n : ~Touches(lg[h], k) BY <1>1, <1>3, <1>4
  <2>2. before[k] = lg[i].value BY <1>1, <1>2, <2>1 DEF Tells, n
  <2>3. e.key = k /\ ~e.synthetic BY <1>1, <1>4 DEF Touches
  <2>4. QED BY <1>1, <1>2, <1>4, <2>2, <2>3 DEF Heard
<1>5. CASE j \in 1 .. n
  <2>1. j \in i + 1 .. n BY <1>1, <1>5
  <2>2. QED BY <1>1, <1>2, <1>3, <1>5, <2>1 DEF KeepsValue, n
<1>6. QED BY <1>1, <1>4, <1>5
-----------------------------------------------------------------------------
(* The steps                                                               *)

Hears(sv) == sv \in [Keys -> Values \cup {Absent}]

\* What is trusted is a part of the Evidence.
LEMMA TrustType ==
  ASSUME Inv PROVE Trust \in 0 .. Len(log) /\ Len(log) \in Nat /\ applied \in Nat
BY DEF Inv, Trust, Log, NoGap

\* An entry is committed.
LEMMA CommitStep ==
  ASSUME Inv, NEW e, WellFormed(e), Commit(e), earlier' = earlier,
         Heard(e, served, served'), Hears(served')
  PROVE  Inv'
<1> DEFINE n == Len(log)
<1>1. /\ Log(log) /\ n < MaxLog /\ log' = Append(log, e)
      /\ gap' = gap /\ phase' = phase
  BY DEF Inv, Commit
<1>2. Trust' = Trust /\ Trust \in Nat /\ n \in Nat /\ applied \in Nat
  BY <1>1, TrustType DEF Trust
<1>3. /\ Log(log') /\ Len(log') = n + 1 /\ log'[n + 1] = e
      /\ \A i \in 1 .. n : log'[i] = log[i]
  BY <1>1, LogAppend
<1>4. Tells(log', Trust', served') BY <1>1, <1>2, TellsAppend DEF Inv
<1>5. KeepsValue(log', Trust') BY <1>1, <1>2, KeepsValueAppend DEF Inv
<1>6. Sound(log', applied, Trust', projections)
  <2>1. \A i \in 1 .. applied : log'[i] = log[i] BY <1>3 DEF Inv
  <2>2. QED BY <1>2, <2>1, SoundStays DEF Inv
<1>7. CASE phase = "live"
  <2>1. applied = n /\ applied' = n + 1 /\ projections' = apply(projections, n + 1, e)
    BY <1>7 DEF Inv, Commit
  <2>2. Sound(log', applied', Trust', projections') BY <1>2, <1>3, <1>5, <1>6, <2>1, ApplySound
  <2>3. QED BY <1>1, <1>2, <1>3, <1>4, <1>5, <2>1, <2>2 DEF Inv, Hears
<1>8. CASE phase # "live"
  <2>1. applied' = applied /\ projections' = projections BY <1>8 DEF Commit
  <2>2. QED BY <1>1, <1>2, <1>3, <1>4, <1>5, <1>6, <1>8, <2>1 DEF Inv, Hears
<1>9. QED BY <1>7, <1>8

\* Evidence is lost: what was said before it counts no more.
LEMMA LostStep ==
  ASSUME Inv, UNCHANGED <<log, runtimeVars>>, Hears(served'),
         \/ gap' = Len(log) /\ earlier' = earlier
         \/ earlier' = Len(log) /\ gap' = gap
  PROVE  Inv'
<1>1. /\ log' = log /\ applied' = applied /\ phase' = phase /\ projections' = projections
      /\ gap' \in NoGap .. Len(log) /\ earlier' \in 0 .. Len(log)
  BY DEF Inv, runtimeVars, NoGap, Log
<1>2. Trust' = Len(log) /\ Trust' \in Nat /\ Trust \in 0 .. Len(log) /\ applied \in Nat
  BY <1>1, TrustType DEF Inv, Trust, NoGap
<1>3. Tells(log, Trust', served') /\ KeepsValue(log, Trust') BY <1>2 DEF Tells, KeepsValue
<1>4. Sound(log, applied, Trust', projections) BY <1>2, SoundStays DEF Inv
<1>5. QED BY <1>1, <1>3, <1>4 DEF Inv, Hears

\* An entry is committed or refused.
LEMMA CaptureStep ==
  ASSUME Inv, NEW e, WellFormed(e), Capture(e), earlier' = earlier,
         Heard(e, served, served'), Hears(served')
  PROVE  Inv'
BY CommitStep, LostStep DEF Capture, Refuse

\* Likewise a callback of the Server, or nobody hears of it.
LEMMA EmitStep ==
  ASSUME Inv, NEW e, WellFormed(e), ~e.synthetic, emit(e),
         e.kind = "UPDATE" /\ ~e.changed => e.value = served[e.key]
  PROVE  Inv'
<1>1. served' = trackCommandReplayRows(e) /\ served \in [Keys -> Values \cup {Absent}]
  BY DEF Inv, emit
<1>2. Hears(served') /\ Heard(e, served, served')
  <2>1. CASE e.kind \in {"ended", "clear-snapshot"}
    BY <1>1, <2>1 DEF trackCommandReplayRows, Nothing, Hears, Heard, Touches, WellFormed
  <2>2. CASE e.kind = "DELETE"
    BY <1>1, <2>2 DEF trackCommandReplayRows, Hears, Heard, Touches, WellFormed
  <2>3. CASE e.kind \in {"ADD", "UPDATE"}
    BY <1>1, <2>3 DEF trackCommandReplayRows, Hears, Heard, Touches, WellFormed
  <2>4. QED BY <2>1, <2>2, <2>3 DEF WellFormed, Entries
<1>3. CASE Capture(e) /\ UNCHANGED earlier BY <1>2, <1>3, CaptureStep
<1>4. CASE Missed BY <1>2, <1>4, LostStep DEF Missed, historyVars
<1>5. QED BY <1>3, <1>4 DEF emit

\* The callbacks of the Subscription's listeners.
LEMMA ServerSteps ==
  ASSUME Inv,
         \/ SubscriptionEnds \/ ServerClears
         \/ \E k \in Keys, v \in Values : ServerAdds(k, v) \/ ServerUpdates(k, v)
         \/ \E k \in Keys : ServerDeletes(k)
  PROVE  Inv'
<1>1. CASE SubscriptionEnds
  <2>1. WellFormed(OfItem("ended")) /\ ~OfItem("ended").synthetic
        /\ OfItem("ended").kind # "UPDATE"
    BY DEF OfItem, WellFormed, Entries
  <2>2. QED BY <1>1, <2>1, EmitStep DEF SubscriptionEnds
<1>2. CASE ServerClears
  <2>1. WellFormed(OfItem("clear-snapshot")) /\ ~OfItem("clear-snapshot").synthetic
        /\ OfItem("clear-snapshot").kind # "UPDATE"
    BY DEF OfItem, WellFormed, Entries
  <2>2. QED BY <1>2, <2>1, EmitStep DEF ServerClears
<1>3. ASSUME NEW k \in Keys, NEW v \in Values, ServerAdds(k, v) PROVE Inv'
  <2> DEFINE e == OfKey("ADD", k, v, TRUE, FALSE, FALSE)
  <2>1. WellFormed(e) /\ ~e.synthetic /\ e.kind # "UPDATE" BY DEF OfKey, WellFormed, Entries
  <2>2. QED BY <1>3, <2>1, EmitStep DEF ServerAdds
<1>4. ASSUME NEW k \in Keys, NEW v \in Values, ServerUpdates(k, v) PROVE Inv'
  <2> DEFINE e == OfKey("UPDATE", k, v, v # served[k], FALSE, FALSE)
  <2>1. WellFormed(e) /\ ~e.synthetic
        /\ (e.kind = "UPDATE" /\ ~e.changed => e.value = served[e.key])
    BY DEF OfKey, WellFormed, Entries
  <2>2. QED BY <1>4, <2>1, EmitStep DEF ServerUpdates
<1>5. ASSUME NEW k \in Keys, ServerDeletes(k) PROVE Inv'
  <2> DEFINE e == OfKey("DELETE", k, Absent, TRUE, FALSE, FALSE)
  <2>1. WellFormed(e) /\ ~e.synthetic /\ e.kind # "UPDATE" BY DEF OfKey, WellFormed, Entries
  <2>2. QED BY <1>5, <2>1, EmitStep DEF ServerDeletes
<1>6. QED BY <1>1, <1>2, <1>3, <1>4, <1>5

\* A replayed row says what the Server's state is already.
LEMMA CaptureSyncStep ==
  ASSUME Inv, NEW k \in Keys, CaptureSync(k) PROVE Inv'
<1> DEFINE e == OfKey("ADD", k, served[k], TRUE, TRUE, FALSE)
<1>1. Hears(served) /\ served[k] \in Values /\ served' = served /\ earlier' = earlier
  BY DEF Inv, CaptureSync, pageVars, Hears
<1>2. WellFormed(e) /\ Heard(e, served, served')
  BY <1>1 DEF OfKey, WellFormed, Entries, Heard, Touches
<1>3. QED BY <1>1, <1>2, CaptureStep DEF CaptureSync, Hears

\* One that was injected says nothing of the Server.
LEMMA InjectStep ==
  ASSUME Inv, NEW command, NEW k \in Keys, NEW v, NEW changed \in BOOLEAN,
         NEW isSnapshot \in BOOLEAN, Inject(command, k, v, changed, isSnapshot),
         \/ command \in {"ADD", "UPDATE"} /\ v \in Values
         \/ command = "DELETE" /\ v = Absent
  PROVE  Inv'
<1> DEFINE e == OfKey(command, k, v, changed, isSnapshot, TRUE)
<1>1. Hears(served) /\ served' = served /\ earlier' = earlier
  BY DEF Inv, Inject, pageVars, Hears
<1>2. WellFormed(e) /\ Heard(e, served, served')
  BY <1>1 DEF OfKey, WellFormed, Entries, Heard, Touches
<1>3. QED BY <1>1, <1>2, CaptureStep DEF Inject, Hears

\* The page is gone and with it the rows.
LEMMA ReloadStep ==
  ASSUME Inv, PageReloads PROVE Inv'
<1>1. Hears(served') BY DEF PageReloads, Nothing, Hears
<1>2. QED BY <1>1, LostStep DEF PageReloads, Missed, historyVars

\* A recovery begins with nothing applied.
LEMMA RecoverStep ==
  ASSUME Inv, Recover PROVE Inv'
<1>1. PICK from \in 0 .. Len(log) : applied' = from BY DEF Recover
<1>2. /\ phase' = "recovering" /\ projections' = createCommandStateProjections
      /\ UNCHANGED <<served, earlier, log, gap>> /\ applied' \in Nat
  BY <1>1 DEF Recover, pageVars, historyVars
<1>3. Trust' = Trust BY <1>2 DEF Trust
<1>4. Sound(log, applied', Trust, createCommandStateProjections) BY <1>2, EmptySound
<1>5. QED BY <1>1, <1>2, <1>3, <1>4 DEF Inv

\* It applies what is retained.
LEMMA ReplayStep ==
  ASSUME Inv, Replay PROVE Inv'
<1>1. /\ phase = "recovering" /\ applied < Len(log) /\ applied' = applied + 1
      /\ projections' = apply(projections, applied + 1, log[applied + 1])
      /\ UNCHANGED <<served, earlier, log, gap, phase>>
  BY DEF Replay, pageVars, historyVars
<1>2. Trust' = Trust /\ Trust \in Nat /\ applied \in Nat /\ applied + 1 \in 1 .. Len(log)
  BY <1>1, TrustType DEF Trust
<1>3. Sound(log, applied + 1, Trust, projections') BY <1>1, <1>2, ApplySound DEF Inv
<1>4. QED BY <1>1, <1>2, <1>3 DEF Inv

\* All of it is applied.
LEMMA BecomeLiveStep ==
  ASSUME Inv, BecomeLive PROVE Inv'
<1>1. /\ phase' = "live" /\ applied = Len(log)
      /\ UNCHANGED <<served, earlier, log, gap, applied, projections>>
  BY DEF BecomeLive, pageVars, historyVars
<1>2. Trust' = Trust BY <1>1 DEF Trust
<1>3. QED BY <1>1, <1>2 DEF Inv

\* An evicted tombstone leaves a key inconclusive.
LEMMA DeletedElsewhereStep ==
  ASSUME Inv, NEW projection \in {"observedServer", "localEffective"},
         DeletedElsewhere(projection)
  PROVE  Inv'
<1> DEFINE pair == projections
           p == pair.observedServer
           p1 == projections'.observedServer
           r1 == projections'.localEffective
<1>1. /\ projections' = [projections EXCEPT ![projection] = Evicted(@)]
      /\ UNCHANGED <<served, earlier, log, gap, applied, phase>>
  BY DEF DeletedElsewhere, pageVars, historyVars
<1>2. Trust' = Trust BY <1>1 DEF Trust
<1>3. pair \in Pairs /\ p \in Projection /\ pair.localEffective \in Projection
  BY DEF Inv, Sound, Pairs
<1>4. /\ projections' \in Pairs
      /\ p1 \in {p, Evicted(p)} /\ r1 \in {pair.localEffective, Evicted(pair.localEffective)}
  <2>1. CASE projection = "observedServer" BY <1>1, <1>3, <2>1, EvictedEffect DEF Pairs
  <2>2. CASE projection = "localEffective" BY <1>1, <1>3, <2>2, EvictedEffect DEF Pairs
  <2>3. QED BY <2>1, <2>2
<1>5. p1.activeRows = p.activeRows /\ r1.activeRows = pair.localEffective.activeRows
  BY <1>3, <1>4, EvictedEffect
<1>6. LocalSound(log, applied, projections') BY <1>5 DEF Inv, Sound, LocalSound
<1>7. ObservedSound(log, applied, Trust, p1)
  <2> HIDE DEF p1
  <2> SUFFICES ASSUME NEW k \in Keys
               PROVE  RowSound(log, applied, Trust, p1, k) /\ AbsenceSound(log, applied, p1, k)
    BY DEF ObservedSound
  <2>1. RowSound(log, applied, Trust, p, k) /\ AbsenceSound(log, applied, p, k)
    BY DEF Inv, Sound, ObservedSound
  <2>2. RowSound(log, applied, Trust, p1, k) BY <1>5, <2>1 DEF RowSound
  <2>3. ~Active(p1, k) => ~Active(p, k) /\ Basis(p1, k) \in {0, Basis(p, k)}
    BY <1>3, <1>4, <1>5, EvictedEffect DEF Active
  <2>4. AbsenceSound(log, applied, p1, k) BY <2>1, <2>3 DEF AbsenceSound
  <2>5. QED BY <2>2, <2>4
<1>8. Sound(log, applied, Trust, projections') BY <1>4, <1>6, <1>7 DEF Sound
<1>9. QED BY <1>1, <1>2, <1>8 DEF Inv

\* A new History Interval has no Evidence.
LEMMA ClearStep ==
  ASSUME Inv, Clear PROVE Inv'
<1>1. /\ log' = <<>> /\ gap' = NoGap /\ earlier' = 0 /\ applied' = 0 /\ phase' = "live"
      /\ projections' = createCommandStateProjections /\ served' = served
  BY DEF Clear
<1>2. Sound(log', applied', Trust', projections') BY <1>1, EmptySound
<1>3. /\ Log(log') /\ Len(log') = 0
      /\ Tells(log', Trust', served') /\ KeepsValue(log', Trust')
  BY <1>1, CommandStateAssumption DEF Log, Tells, KeepsValue
<1>4. QED BY <1>1, <1>2, <1>3 DEF Inv, NoGap

\* Inv is inductive.
LEMMA InvInit ==
  ASSUME Init PROVE Inv
<1>1. Sound(log, applied, Trust, projections) BY EmptySound DEF Init
<1>2. Log(log) /\ Len(log) = 0 /\ Tells(log, Trust, served) /\ KeepsValue(log, Trust)
  BY CommandStateAssumption DEF Init, Log, Tells, KeepsValue
<1>3. QED BY <1>1, <1>2 DEF Init, Inv, Nothing, NoGap

LEMMA InvStep ==
  ASSUME Inv, [Next]_vars PROVE Inv'
<1>1. CASE UNCHANGED vars
  <2>1. UNCHANGED <<served, earlier, log, gap, applied, phase, projections>>
    BY <1>1 DEF vars, pageVars, historyVars, runtimeVars
  <2>2. Trust' = Trust BY <2>1 DEF Trust
  <2>3. QED BY <2>1, <2>2 DEF Inv
<1>2. ASSUME NEW k \in Keys, NEW v \in Values, NEW changed \in BOOLEAN,
             NEW isSnapshot \in BOOLEAN, Inject("UPDATE", k, v, changed, isSnapshot)
      PROVE  Inv'
  BY <1>2, InjectStep
<1>3. ASSUME NEW k \in Keys, NEW v \in Values, Inject("ADD", k, v, TRUE, FALSE) PROVE Inv'
  BY <1>3, InjectStep
<1>4. ASSUME NEW k \in Keys, Inject("DELETE", k, Absent, TRUE, FALSE) PROVE Inv'
  BY <1>4, InjectStep
<1>5. QED
  BY <1>1, <1>2, <1>3, <1>4, ServerSteps, CaptureSyncStep, ReloadStep, RecoverStep, ReplayStep,
     BecomeLiveStep, DeletedElsewhereStep, ClearStep DEF Next

LEMMA InvHolds == Spec => []Inv
BY InvInit, InvStep, PTL DEF Spec
-----------------------------------------------------------------------------
(* What the invariant gives                                                *)

\* A claimed presence rests on a row or basis, which says what was said last, and
\* is so if it is trusted.
LEMMA InvPresence ==
  ASSUME Inv PROVE PresenceIsTrue
<1>1. Sound(log, applied, Trust, projections) /\ Log(log) /\ Tells(log, Trust, served)
  BY DEF Inv
<1>2. TypeOK BY <1>1 DEF Inv, TypeOK, Sound, Pairs, Log
<1>3. ASSUME projectionReady, NEW k \in Keys,
             Presence(observed, k) # "inconclusive", Basis(observed, k) > earlier
      PROVE  Presence(observed, k) = "present" <=> served[k] # Absent
  <2> DEFINE b == Basis(observed, k)
  <2>1. applied = Len(log) /\ b # 0 /\ afterGap(b)
        /\ (Presence(observed, k) = "present" <=> Active(observed, k))
    BY <1>3 DEF Inv, projectionReady, Presence
  <2>2. RowSound(log, applied, Trust, observed, k) /\ AbsenceSound(log, applied, observed, k)
    BY <1>1 DEF Sound, ObservedSound, observed
  <2>3. CASE Active(observed, k)
    <3>1. b = observed.activeRows[k].latest BY <2>3 DEF Basis
    <3>2. /\ b \in 1 .. Len(log) /\ Touches(log[b], k) /\ log[b].value \in Values
          /\ \A j \in b + 1 .. Len(log) : ~Touches(log[j], k)
      BY <2>1, <2>2, <2>3, <3>1 DEF RowSound, Active
    <3>3. b > Trust BY <1>3, <2>1, <3>2 DEF Inv, Trust, afterGap, NoGap
    <3>4. served[k] = log[b].value BY <1>1, <3>2, <3>3 DEF Tells
    <3>5. QED BY <2>1, <2>3, <3>2, <3>4, CommandStateAssumption
  <2>4. CASE ~Active(observed, k)
    <3>1. /\ b \in 1 .. Len(log) /\ Touches(log[b], k) /\ log[b].value = Absent
          /\ \A j \in b + 1 .. Len(log) : Touches(log[j], k) => log[j].value = Absent
      BY <2>1, <2>2, <2>4 DEF AbsenceSound
    <3>2. b > Trust BY <1>3, <2>1, <3>1 DEF Inv, Trust, afterGap, NoGap
    <3>3. served[k] = log[b].value BY <1>1, <3>1, <3>2 DEF Tells
    <3>4. QED BY <2>1, <2>4, <3>1, <3>3
  <2>5. QED BY <2>3, <2>4
<1>4. ASSUME projectionReady, NEW k \in Keys, Presence(observed, k) # "inconclusive"
      PROVE  LET b == Basis(observed, k)
             IN  /\ gap < b /\ Touches(log[b], k)
                 /\ \A i \in b .. Len(log) : Touches(log[i], k) =>
                      (Presence(observed, k) = "present" <=> log[i].value # Absent)
                 /\ Active(observed, k) => \A i \in b + 1 .. Len(log) : ~Touches(log[i], k)
  <2> DEFINE b == Basis(observed, k)
  <2>1. applied = Len(log) /\ Len(log) \in Nat /\ b # 0
        /\ (Presence(observed, k) = "present" <=> Active(observed, k))
    BY <1>1, <1>4 DEF Inv, projectionReady, Presence, Log
  <2>2. b \in Nat => gap < b BY <1>4, <2>1 DEF Presence, afterGap, NoGap
  <2>3. RowSound(log, applied, Trust, observed, k) /\ AbsenceSound(log, applied, observed, k)
    BY <1>1 DEF Sound, ObservedSound, observed
  <2>4. CASE Active(observed, k)
    <3>1. b = observed.activeRows[k].latest BY <2>4 DEF Basis
    <3>2. /\ b \in 1 .. Len(log) /\ Touches(log[b], k) /\ log[b].value \in Values
          /\ \A j \in b + 1 .. Len(log) : ~Touches(log[j], k)
      BY <2>1, <2>3, <2>4, <3>1 DEF RowSound, Active
    <3> HIDE DEF b
    <3>3. \A i \in b .. Len(log) : i = b \/ i \in b + 1 .. Len(log) BY <2>1, <3>2
    <3>4. log[b].value # Absent BY <3>2, CommandStateAssumption
    <3>5. QED BY <2>1, <2>4, <2>2, <3>2, <3>3, <3>4 DEF b
  <2>5. CASE ~Active(observed, k)
    <3>1. /\ b \in 1 .. Len(log) /\ Touches(log[b], k) /\ log[b].value = Absent
          /\ \A j \in b + 1 .. Len(log) : Touches(log[j], k) => log[j].value = Absent
      BY <2>1, <2>3, <2>5 DEF AbsenceSound
    <3> HIDE DEF b
    <3>2. \A i \in b .. Len(log) : i = b \/ i \in b + 1 .. Len(log) BY <2>1, <3>1
    <3>3. QED BY <2>1, <2>5, <2>2, <3>1, <3>2 DEF b
  <2>6. QED BY <2>4, <2>5
<1>5. QED BY <1>2, <1>3, <1>4 DEF PresenceIsTrue, KeysAreTrue, KeysAreLastWords

\* A projected field is of a trusted provenance, and so is its row.
LEMMA InvFields ==
  ASSUME Inv PROVE FieldsAreTrue
<1> SUFFICES ASSUME projectionReady, NEW k \in Keys,
                    Active(observed, k), Certainty(observed, k) = "projected"
             PROVE  LET row == observed.activeRows[k]
                    IN  /\ row.latest > earlier => row.value = served[k]
                        /\ row.field > earlier => log[row.field].value = row.value
  BY DEF FieldsAreTrue
<1> DEFINE row == observed.activeRows[k]
<1>1. /\ Sound(log, applied, Trust, projections) /\ Log(log) /\ Tells(log, Trust, served)
      /\ applied = Len(log) /\ afterGap(row.field)
  BY DEF Inv, projectionReady, Certainty
<1>2. RowSound(log, applied, Trust, observed, k) BY <1>1 DEF Sound, ObservedSound, observed
<1>3. /\ row.latest \in 1 .. Len(log) /\ row.field \in 1 .. row.latest
      /\ Touches(log[row.latest], k) /\ log[row.latest].value = row.value
      /\ \A j \in row.latest + 1 .. Len(log) : ~Touches(log[j], k)
      /\ row.field > Trust => log[row.field].value = row.value
  BY <1>1, <1>2 DEF RowSound, Active
<1> HIDE DEF row
<1>4. row.latest > earlier => row.latest > Trust BY <1>1, <1>3 DEF Inv, Trust, afterGap, NoGap
<1>5. row.field > earlier => row.field > Trust BY <1>1, <1>3 DEF Inv, Trust, afterGap, NoGap
<1>6. row.latest > Trust => row.value = served[k] BY <1>1, <1>3 DEF Tells
<1>7. QED BY <1>3, <1>4, <1>5, <1>6 DEF row

\* LocalSound, of what is applied.
LEMMA InvLocal ==
  ASSUME Inv PROVE InjectionsStayLocal
BY DEF Inv, Sound, LocalSound, InjectionsStayLocal, observed, local

\* Whatever has been lost, evicted, cut off, injected, reloaded or missed, present
\* or absent is said of a key only when that is the last word of the Evidence on
\* it; and if the Evidence named is of the page that is there and of an unbroken
\* connection, only when it is so: readAgentCommandState of applyCommandEvent.
THEOREM PresenceHolds == Spec => []PresenceIsTrue
BY InvHolds, InvPresence, PTL

\* A field that is called projected has the Server's value, if its row is of the
\* page that is there and of an unbroken connection, and its provenance says that
\* value, if that is: fieldProvenance of an UPDATE that does not change the field.
THEOREM FieldsHold == Spec => []FieldsAreTrue
BY InvHolds, InvFields, PTL

\* What was injected makes no difference to what was observed, and all of the
\* difference between the two: createCommandStateProjections.
THEOREM InjectionsStayLocalHolds == Spec => []InjectionsStayLocal
BY InvHolds, InvLocal, PTL
=============================================================================
