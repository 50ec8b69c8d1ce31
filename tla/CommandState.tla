---------------------------- MODULE CommandState ----------------------------
(***************************************************************************)
(* The COMMAND state of one item of one Subscription: what the Server      *)
(* tells the page of each key, what of it becomes committed Evidence, the  *)
(* two projections that the runtime folds it into (observed-server, and    *)
(* local-effective with the Local Injections), and what an agent is        *)
(* answered when it asks for a key.                                        *)
(*                                                                         *)
(* Evidence may be refused, which leaves a gap; retention removes the      *)
(* oldest, which a recovery then does not see; a Clear begins a new        *)
(* History Interval; the page reloads; the panel misses captures while it  *)
(* is not connected, and is told of all rows when it registers again.  A   *)
(* key has one field.                                                      *)
(***************************************************************************)
EXTENDS Integers, Sequences, FiniteSets

CONSTANTS
  Keys, Values,
  Absent,               \* no value: the Server holds no such key
  NoKey,                \* no key: the entry is about the whole item
  HistoricalKeyLimit,   \* COMMAND_HISTORICAL_KEY_LIMIT
  MaxLog,               \* bound: Evidence of a History Interval
  MaxInjected           \* bound: Local Injections among it

ASSUME CommandStateAssumption ==
  /\ Absent \notin Values /\ NoKey \notin Keys
  /\ HistoricalKeyLimit \in Nat /\ MaxLog \in Nat /\ MaxInjected \in Nat

VARIABLES
  served, earlier,        \* what the Server has told the page of each key, and how much
                          \* of the Evidence is from before a reload or a disconnection
  log, gap,               \* the committed Evidence, after which the latest gap is
  applied, phase,         \* the follower: what is applied, "live" or "recovering"
  projections             \* commandStateProjections or, in a recovery, those it builds

pageVars == <<served, earlier>>
historyVars == <<log, gap>>
runtimeVars == <<applied, phase, projections>>
vars == <<pageVars, historyVars, runtimeVars>>

NoGap == -1
Nothing == [k \in Keys |-> Absent]

\* Captured events and the events made of Local Injections.
Entries ==
  [kind : {"ended", "clear-snapshot", "ADD", "UPDATE", "DELETE"},
   key : Keys \cup {NoKey}, value : Values \cup {Absent}, changed : BOOLEAN,
   isSnapshot : BOOLEAN, synthetic : BOOLEAN]

\* Of the item as a whole.
OfItem(kind) ==
  [kind |-> kind, key |-> NoKey, value |-> Absent, changed |-> FALSE,
   isSnapshot |-> FALSE, synthetic |-> FALSE]

\* An update of a key.
OfKey(command, k, v, changed, isSnapshot, synthetic) ==
  [kind |-> command, key |-> k, value |-> v, changed |-> changed,
   isSnapshot |-> isSnapshot, synthetic |-> synthetic]
-----------------------------------------------------------------------------
(* A projection.  A row is the Evidence of its latest update and of its    *)
(* field's value, a deleted key the Evidence of its DELETE; 0 is none.     *)

NoRow == [value |-> Absent, latest |-> 0, field |-> 0]
Rows == [value : Values \cup {Absent}, latest : 0 .. MaxLog, field : 0 .. MaxLog]

Projection ==
  [activeRows : [Keys -> Rows], deletedKeys : [Keys -> 0 .. MaxLog],
   deletedKeysHasOlder : BOOLEAN, lastClearSnapshot : 0 .. MaxLog]

createCommandStateAccumulator ==
  [activeRows |-> [k \in Keys |-> NoRow],
   deletedKeys |-> [k \in Keys |-> 0], deletedKeysHasOlder |-> FALSE,
   lastClearSnapshot |-> 0]

Active(p, k) == p.activeRows[k].latest # 0
Deleted(p) == {k \in Keys : p.deletedKeys[k] # 0}

\* The tombstone that has been there longest.
IsOldest(p, k) ==
  k \in Deleted(p) /\ \A j \in Deleted(p) : p.deletedKeys[k] <= p.deletedKeys[j]

\* Mutant: nothing remembers that there were older tombstones.
Evicted_Forgets(p) ==
  LET oldest == CHOOSE k \in Keys : IsOldest(p, k)
  IN  [p EXCEPT !.deletedKeys[oldest] = 0]

\* Past the limit the oldest tombstone is evicted, and the item remembers that.
Evicted(p) ==
  LET oldest == CHOOSE k \in Keys : IsOldest(p, k)
  IN  [p EXCEPT !.deletedKeys[oldest] = 0, !.deletedKeysHasOlder = TRUE]

retainAuxiliaryRecord(p) ==
  IF Cardinality(Deleted(p)) > HistoricalKeyLimit THEN Evicted(p) ELSE p

\* Mutant: an UPDATE leaves a changed field its provenance.
Updated_KeepsProvenance(p, n, e) ==
  LET row == p.activeRows[e.key]
      adds == e.kind = "ADD" \/ ~Active(p, e.key)
  IN  [p EXCEPT !.activeRows[e.key] =
                  [value |-> e.value, latest |-> n,
                   field |-> IF adds THEN n ELSE row.field],
                !.deletedKeys[e.key] = 0]

\* An ADD, or an UPDATE of a key that is not there, gives every field its
\* provenance; another UPDATE those that it changes.
Updated(p, n, e) ==
  LET row == p.activeRows[e.key]
      adds == e.kind = "ADD" \/ ~Active(p, e.key)
  IN  [p EXCEPT !.activeRows[e.key] =
                  [value |-> e.value, latest |-> n,
                   field |-> IF adds \/ e.changed THEN n ELSE row.field],
                !.deletedKeys[e.key] = 0]

DeletedKey(p, n, e) ==
  retainAuxiliaryRecord([p EXCEPT !.activeRows[e.key] = NoRow, !.deletedKeys[e.key] = n])

\* The item after a clear-snapshot: an empty basis.
ClearedSnapshot(n) ==
  [createCommandStateAccumulator EXCEPT !.lastClearSnapshot = n]

\* An UPDATE in a snapshot and a DELETE of an unknown key are diagnosed only.
Diagnosed(p, e) ==
  \/ e.kind = "UPDATE" /\ e.isSnapshot
  \/ e.kind = "DELETE" /\ ~Active(p, e.key)

applyCommandEvent(p, n, e) ==
  IF e.kind = "ended" THEN createCommandStateAccumulator
  ELSE IF e.kind = "clear-snapshot" THEN ClearedSnapshot(n)
  ELSE IF Diagnosed(p, e) THEN p
  ELSE IF e.kind = "DELETE" THEN DeletedKey(p, n, e)
  ELSE Updated(p, n, e)

\* Mutant: what was injected counts as observed.
apply_InjectsBoth(pair, n, e) ==
  [observedServer |-> applyCommandEvent(pair.observedServer, n, e),
   localEffective |-> applyCommandEvent(pair.localEffective, n, e)]

\* What a Local Injection delivered is no observation of the Server.
apply(pair, n, e) ==
  [observedServer |-> IF e.synthetic THEN pair.observedServer
                      ELSE applyCommandEvent(pair.observedServer, n, e),
   localEffective |-> applyCommandEvent(pair.localEffective, n, e)]

createCommandStateProjections ==
  [observedServer |-> createCommandStateAccumulator,
   localEffective |-> createCommandStateAccumulator]
-----------------------------------------------------------------------------
(* What an agent is answered                                               *)

\* Mutant: the Evidence before the gap counts as after it.
afterGap_FromTheGap(n) == gap = NoGap \/ n >= gap

afterGap(n) == gap = NoGap \/ n > gap

\* The Evidence that a claim about a key rests on; 0 is none.
Basis(p, k) ==
  IF Active(p, k) THEN p.activeRows[k].latest
  ELSE IF p.deletedKeys[k] # 0 THEN p.deletedKeys[k]
  ELSE IF p.deletedKeysHasOlder THEN 0 ELSE p.lastClearSnapshot

Presence(p, k) ==
  IF Basis(p, k) = 0 \/ ~afterGap(Basis(p, k)) THEN "inconclusive"
  ELSE IF Active(p, k) THEN "present" ELSE "absent"

\* A field of a row: projected, or last observed before the gap.
Certainty(p, k) == IF afterGap(p.activeRows[k].field) THEN "projected" ELSE "last-observed"

projectionReady == phase = "live"
-----------------------------------------------------------------------------
Init ==
  /\ served = Nothing /\ earlier = 0
  /\ log = <<>> /\ gap = NoGap
  /\ applied = 0 /\ phase = "live" /\ projections = createCommandStateProjections

\* The history commits a candidate, which a live follower applies at once.
Commit(e) ==
  /\ Len(log) < MaxLog
  /\ log' = Append(log, e)
  /\ IF phase = "live"
     THEN /\ applied' = Len(log) + 1
          /\ projections' = apply(projections, Len(log) + 1, e)
     ELSE UNCHANGED <<applied, projections>>
  /\ UNCHANGED <<gap, phase>>

Refuse == gap' = Len(log) /\ UNCHANGED <<log, runtimeVars>>

Capture(e) == Commit(e) \/ Refuse

\* What the page keeps of each key, to tell a panel that registers.
trackCommandReplayRows(e) ==
  CASE e.kind \in {"ended", "clear-snapshot"} -> Nothing
    [] e.kind = "DELETE" -> [served EXCEPT ![e.key] = Absent]
    [] OTHER -> [served EXCEPT ![e.key] = e.value]

\* The panel is not connected: nobody hears of it, and the history knows of no gap.
Missed == earlier' = Len(log) /\ UNCHANGED <<historyVars, runtimeVars>>

\* A callback of the Subscription's listeners.
emit(e) ==
  /\ served' = trackCommandReplayRows(e)
  /\ (Capture(e) /\ UNCHANGED earlier) \/ Missed

\* onUnsubscription or onSubscriptionError, onClearSnapshot, onItemUpdate
SubscriptionEnds == emit(OfItem("ended"))

ServerClears == emit(OfItem("clear-snapshot"))

ServerAdds(k, v) == emit(OfKey("ADD", k, v, TRUE, FALSE, FALSE))

ServerUpdates(k, v) ==
  /\ served[k] # Absent
  /\ emit(OfKey("UPDATE", k, v, v # served[k], FALSE, FALSE))

ServerDeletes(k) ==
  /\ served[k] # Absent
  /\ emit(OfKey("DELETE", k, Absent, TRUE, FALSE, FALSE))

\* The panel registers again, and is told of a row as in a snapshot.
CaptureSync(k) ==
  /\ served[k] # Absent
  /\ Capture(OfKey("ADD", k, served[k], TRUE, TRUE, FALSE))
  /\ UNCHANGED pageVars

\* A Local Injection was delivered; it says itself what it changes.
Inject(command, k, v, changed, isSnapshot) ==
  /\ Cardinality({i \in 1 .. Len(log) : log[i].synthetic}) < MaxInjected
  /\ Capture(OfKey(command, k, v, changed, isSnapshot, TRUE))
  /\ UNCHANGED pageVars

\* The page goes without a word, and its successor counts its ids anew.
PageReloads == served' = Nothing /\ Missed

\* handleFollowerState, RECOVERING: Evidence up to "from" is no longer replayed.
\* The old projections stay, for the panel's own display, until the new ones
\* replace them.
Recover ==
  /\ phase = "live" /\ phase' = "recovering"
  /\ \E from \in 0 .. Len(log) : applied' = from
  /\ projections' = createCommandStateProjections
  /\ UNCHANGED <<pageVars, historyVars>>

Replay ==
  /\ phase = "recovering" /\ applied < Len(log)
  /\ applied' = applied + 1
  /\ projections' = apply(projections, applied + 1, log[applied + 1])
  /\ UNCHANGED <<pageVars, historyVars, phase>>

\* handleFollowerState, LIVE
BecomeLive ==
  /\ phase = "recovering" /\ applied = Len(log)
  /\ phase' = "live"
  /\ UNCHANGED <<pageVars, historyVars, applied, projections>>

\* A DELETE of another item is applied: the limit is one for the items of all
\* Subscriptions, and the oldest tombstone is this item's.
DeletedElsewhere(projection) ==
  /\ Deleted(projections[projection]) # {}
  /\ projections' = [projections EXCEPT ![projection] = Evicted(@)]
  /\ UNCHANGED <<pageVars, historyVars, applied, phase>>

\* handleHistoryPublication, interval-cleared
Clear ==
  /\ log' = <<>> /\ gap' = NoGap /\ earlier' = 0 /\ applied' = 0 /\ phase' = "live"
  /\ projections' = createCommandStateProjections
  /\ UNCHANGED served

Next ==
  \/ SubscriptionEnds \/ ServerClears
  \/ \E k \in Keys, v \in Values : ServerAdds(k, v) \/ ServerUpdates(k, v)
  \/ \E k \in Keys : ServerDeletes(k) \/ CaptureSync(k)
  \/ \E k \in Keys, v \in Values :
       \/ Inject("ADD", k, v, TRUE, FALSE)
       \/ \E changed, isSnapshot \in BOOLEAN : Inject("UPDATE", k, v, changed, isSnapshot)
  \/ \E k \in Keys : Inject("DELETE", k, Absent, TRUE, FALSE)
  \/ PageReloads
  \/ \E projection \in {"observedServer", "localEffective"} : DeletedElsewhere(projection)
  \/ Recover \/ Replay \/ BecomeLive \/ Clear

Spec == Init /\ [][Next]_vars
-----------------------------------------------------------------------------
\* The types of the variables.
TypeOK ==
  /\ served \in [Keys -> Values \cup {Absent}] /\ earlier \in 0 .. Len(log)
  /\ log \in Seq(Entries) /\ Len(log) <= MaxLog
  /\ gap \in NoGap .. Len(log)
  /\ applied \in 0 .. Len(log) /\ phase \in {"live", "recovering"}
  /\ projections \in [observedServer : Projection, localEffective : Projection]

observed == projections.observedServer
local == projections.localEffective

\* What an entry says of a key of the Server; an injected one says nothing.
Touches(e, k) == ~e.synthetic /\ (e.kind \in {"ended", "clear-snapshot"} \/ e.key = k)

\* Present or absent is said of a key only when that is the last word of the
\* Evidence on it, behind the latest gap: from the Evidence that is named for it
\* on, whatever the Server said of the key says the same, and nothing of it comes
\* after that of a row (readAgentCommandState, applyCommandEvent).
KeysAreLastWords ==
  projectionReady =>
    \A k \in Keys :
      LET b == Basis(observed, k)
      IN  Presence(observed, k) # "inconclusive" =>
            /\ gap < b /\ Touches(log[b], k)
            /\ \A i \in b .. Len(log) : Touches(log[i], k) =>
                 (Presence(observed, k) = "present" <=> log[i].value # Absent)
            /\ Active(observed, k) => \A i \in b + 1 .. Len(log) : ~Touches(log[i], k)

\* And the key is so in the page, if that Evidence is of the page that is there
\* and of an unbroken connection: no DELETE, no end of the Subscription and no
\* clear-snapshot has been lost in a gap, evicted, cut off by retention or overlooked in a
\* recovery since.  Of earlier Evidence only KeysAreLastWords holds: the rows
\* from before a reload or a missed DELETE stay (readAgentCommandState).
KeysAreTrue ==
  projectionReady =>
    \A k \in Keys :
      Presence(observed, k) # "inconclusive" /\ Basis(observed, k) > earlier =>
        (Presence(observed, k) = "present" <=> served[k] # Absent)

\* Both, and the types.
PresenceIsTrue == TypeOK /\ KeysAreLastWords /\ KeysAreTrue

\* A field that is called projected has the Server's value, and the Evidence
\* named as its provenance says just that value, although later updates that
\* did not change the field have passed over it (fieldProvenance).  Each is said
\* of Evidence of the page that is there and of an unbroken connection only.
FieldsAreTrue ==
  projectionReady =>
    \A k \in Keys :
      LET row == observed.activeRows[k]
      IN  Active(observed, k) /\ Certainty(observed, k) = "projected" =>
            /\ row.latest > earlier => row.value = served[k]
            /\ row.field > earlier => log[row.field].value = row.value

\* The two projections differ only by what was injected: a row that the Server
\* updated last is the same in both, and a row that differs, or that is in the
\* one only, goes back to a Local Injection that came after the Server's last word
\* (createCommandStateProjections).
InjectionsStayLocal ==
  \A k \in Keys :
    LET o == observed.activeRows[k]
        l == local.activeRows[k]
    IN  /\ o.latest # 0 => ~log[o.latest].synthetic
        /\ l.latest # 0 /\ ~log[l.latest].synthetic => o.latest = l.latest /\ o.value = l.value
        /\ o.latest # l.latest =>
             \E i \in o.latest + 1 .. applied : log[i].synthetic /\ log[i].key = k
=============================================================================
