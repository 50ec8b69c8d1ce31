---------------------------- MODULE Diagnostics ----------------------------
(***************************************************************************)
(* The diagnostics of the Workbench runtime: what committed Evidence and   *)
(* the runtime's own state say is wrong, the entries that the panel        *)
(* presents and the mutations queued for the Diagnostic Observation        *)
(* journal, here the one in memory.                                        *)
(*                                                                         *)
(* Evidence is committed and applied in order.  A recovery of the follower *)
(* replays what is retained into fresh projections while the old ones stay *)
(* in place, and a Clear begins a new interval.  One Subscription with one *)
(* item, in COMMAND mode, and one Session stand for all.                   *)
(***************************************************************************)
EXTENDS DiagnosticJournal, SequencesExt

CONSTANTS
  Kinds,            \* kinds of Evidence that are captured
  PresentationLimit, \* DIAGNOSTIC_PRESENTATION_LIMIT
  MaxLog,           \* bound: Evidence per History Interval
  MaxResets,        \* bound: Clears
  MaxQueue,         \* bound: mutations that wait when Evidence or a change comes
  MaxRecoveries,    \* bound: recoveries of the follower
  MaxToggles        \* bound: changes of the bridge's state

Checkpoints == {"complete", "partial"}
SubscriptionEvents == {"started", "snapshot", "live", "end-of-snapshot"}
SessionEvents == {"recovering", "recovered"}

ASSUME DiagnosticsAssumption ==
  /\ Kinds \subseteq Checkpoints \cup SubscriptionEvents \cup SessionEvents \cup {"server-error"}
  /\ PresentationLimit \in Nat \ {0}
  /\ MaxLog \in Nat /\ MaxResets \in Nat
  /\ MaxQueue \in Nat /\ MaxRecoveries \in Nat /\ MaxToggles \in Nat

VARIABLES
  evidence,             \* the committed Evidence of the interval
  applied, phase,       \* the follower: what is applied, "live" or "recovering"
  diagnosticEvidenceSequence, \* the last Evidence that moved the runtime's conditions
  producer, recovery,   \* the projections and, in a recovery, the fresh ones
  disconnected, pageKnown, \* the bridge is down; the page is identified
  activeRuntime,        \* activeRuntimeDiagnosticConditions
  presentations,        \* committedDiagnosticPresentations, oldest first
  dismissed, footer,    \* dismissals, and the conditions the last snapshot shows
  mutations, failed,    \* the queue for the journal; one of it was rejected
  observations,         \* the journal
  resets, recoveries, toggles \* bound the environment

evidenceVars == <<evidence, applied, phase, diagnosticEvidenceSequence, producer, recovery>>
panelVars == <<disconnected, pageKnown, activeRuntime, presentations, dismissed, footer>>
journalVars == <<mutations, failed, observations>>
diagnosticsVars == <<evidenceVars, panelVars, journalVars, resets, recoveries, toggles>>
-----------------------------------------------------------------------------
(* Identities, proposals and projections                                   *)

Conditions == {"phase-incomplete", "phase-inconsistent", "reducer-incomplete",
               "not-established", "disconnected", "recovering"}
Occurrences == {"completed", "phase-insufficient", "resubscribed", "server-error"}
RuntimeConditions == {"disconnected", "recovering"}

\* of: the Evidence of an occurrence; at: the Evidence that stands for an
\* affected object whose identity is not known.
Id(code, of, affected) ==
  [code |-> code, of |-> of, affected |-> affected.kind, at |-> affected.at]
NoId == [code |-> "none", of |-> 0, affected |-> "none", at |-> 0]

Observe(id, content) ==
  [op |-> "observe", id |-> id, content |-> content, occurrence |-> id.code \in Occurrences]
Resolve(id, content) ==
  [op |-> "resolve", id |-> id, content |-> content, occurrence |-> FALSE]
ClearJournal == [op |-> "clear", id |-> NoId, content |-> 0, occurrence |-> FALSE]

NoProducer == [known |-> FALSE]

\* phase, incomplete, established: of the snapshot of the item; coverage: what
\* the last checkpoint said, and where; reducer, lint: active conditions;
\* subscription, recovering: the topology.
InitialProducer ==
  [known |-> FALSE, phase |-> "none", snapshotCondition |-> NoId, established |-> FALSE,
   coverage |-> [status |-> "none", at |-> 0], reducerCondition |-> NoId,
   subscription |-> "absent", recovering |-> FALSE, lint |-> NoId]

Affected(p, n, kind) ==
  IF ~p.known THEN [kind |-> "evidence", at |-> n]
  ELSE [kind |-> IF kind = "started" THEN "subscription" ELSE "item", at |-> 0]
-----------------------------------------------------------------------------
(* Presentations and mutations.  s is a state of the queue of mutations,   *)
(* the presentations, the active runtime conditions and the dismissals.    *)

State == [queue |-> mutations, presentations |-> presentations,
          activeRuntime |-> activeRuntime, dismissed |-> dismissed]

\* Mutant: one entry beyond the limit stays.
rememberPresentation_OneMore(shown, id) ==
  LET kept == IF Contains(shown, id) THEN shown ELSE Append(shown, id)
  IN  SubSeq(kept, Larger(1, Len(kept) - PresentationLimit), Len(kept))

\* A Map keeps the place of a key that it has; beyond the limit the oldest go.
rememberPresentation(shown, id) ==
  LET kept == IF Contains(shown, id) THEN shown ELSE Append(shown, id)
  IN  SubSeq(kept, Larger(1, Len(kept) - PresentationLimit + 1), Len(kept))

forgetPresentation(shown, id) ==
  IF Contains(shown, id) THEN RemoveAt(shown, CHOOSE i \in DOMAIN shown : shown[i] = id)
  ELSE shown

\* Once a mutation was rejected nothing that is queued runs.
queued(s, mutation, advisory) ==
  IF failed THEN s
  ELSE [s EXCEPT !.queue = Append(@, [change |-> mutation, advisory |-> advisory])]

recordProposal(s, m) ==
  queued([s EXCEPT !.presentations = IF m.op = "observe" THEN rememberPresentation(@, m.id)
                                     ELSE forgetPresentation(@, m.id)],
         m, TRUE)

recordServerError(s, n, pageId) ==
  LET id == Id("server-error", n, IF pageId THEN [kind |-> "page", at |-> 0]
                                            ELSE [kind |-> "evidence", at |-> n])
  IN  queued([s EXCEPT !.presentations = rememberPresentation(@, id)], Observe(id, n), FALSE)
-----------------------------------------------------------------------------
(* The projections.  r holds a projection and what its proposals have made *)
(* of the presentations and the queue: proposals are recorded in order.    *)

proposed(r, m) == [r EXCEPT !.s = recordProposal(@, m)]
resolvedIfActive(r, id, n) == IF id = NoId THEN r ELSE proposed(r, Resolve(id, n))

\* A condition of the item's snapshot replaces the one of another code.
observeCondition(r, n, code) ==
  LET id == Id(code, 0, Affected(r.p, n, "item"))
      replaced == r.p.snapshotCondition
      q == IF replaced.code = code THEN r ELSE resolvedIfActive(r, replaced, n)
  IN  [proposed(q, Observe(id, n)) EXCEPT !.p.snapshotCondition = id]

subscriptionEstablishment(r, n) ==
  LET q == IF r.p.established
             THEN proposed(r, Observe(Id("resubscribed", n, Affected(r.p, n, "started")), n))
             ELSE r
  IN  [resolvedIfActive(q, r.p.snapshotCondition, n) EXCEPT
         !.p.established = TRUE, !.p.phase = "none", !.p.snapshotCondition = NoId]

snapshotUpdate(r, n) ==
  LET q == IF r.p.phase \in {"complete", "live"} THEN observeCondition(r, n, "phase-inconsistent")
           ELSE r
  IN  [q EXCEPT !.p.phase = "snapshot"]

liveUpdate(r, n) ==
  LET q == IF r.p.phase = "snapshot" THEN observeCondition(r, n, "phase-incomplete") ELSE r
  IN  [q EXCEPT !.p.phase = "live"]

\* Mutant: the end of a snapshot forgets the condition without resolving it.
endOfSnapshot_Forgets(r, n) ==
  LET q == proposed(r, Observe(Id("completed", n, Affected(r.p, n, "item")), n))
  IN  [q EXCEPT !.p.phase = "complete", !.p.snapshotCondition = NoId]

endOfSnapshot(r, n) ==
  LET affected == Affected(r.p, n, "item")
      completed == proposed(r, Observe(Id("completed", n, affected), n))
      q == IF r.p.phase = "none"
             THEN proposed(completed, Observe(Id("phase-insufficient", n, affected), n))
             ELSE completed
  IN  [resolvedIfActive(q, r.p.snapshotCondition, n) EXCEPT
         !.p.phase = "complete", !.p.snapshotCondition = NoId]

\* Under partial coverage a COMMAND reducer is incomplete.
reducerIncomplete(r, n, kind) ==
  LET id == Id("reducer-incomplete", 0, Affected(r.p, n, kind))
  IN  IF r.p.coverage.status # "partial" THEN r
      ELSE [proposed(r, Observe(id, r.p.coverage.at)) EXCEPT !.p.reducerCondition = id]

topologyCheckpoint(r, n, status) ==
  LET q == [r EXCEPT !.p.known = TRUE, !.p.coverage = [status |-> status, at |-> n]]
  IN  IF status = "partial" THEN q
      ELSE [resolvedIfActive(q, r.p.reducerCondition, n) EXCEPT !.p.reducerCondition = NoId]

applyCommittedEvidence(r, n, kind) ==
  CASE kind \in Checkpoints -> topologyCheckpoint(r, n, kind)
    [] kind = "started" -> reducerIncomplete(subscriptionEstablishment(r, n), n, kind)
    [] kind = "snapshot" -> reducerIncomplete(snapshotUpdate(r, n), n, kind)
    [] kind = "live" -> reducerIncomplete(liveUpdate(r, n), n, kind)
    [] kind = "end-of-snapshot" -> reducerIncomplete(endOfSnapshot(r, n), n, kind)
    [] OTHER -> r

\* The topology projection: a checkpoint shows the Subscription, active.
ingested(p, kind) ==
  CASE kind \in Checkpoints /\ p.subscription = "absent" -> [p EXCEPT !.subscription = "pending"]
    [] kind = "started" -> [p EXCEPT !.subscription = "established"]
    [] kind \in SessionEvents -> [p EXCEPT !.recovering = (kind = "recovering")]
    [] OTHER -> p

\* The coordinator proposes what is newly active and resolves what ended.
reconcileSubscriptionDiagnostics(r, n) ==
  LET id == Id("not-established", 0, [kind |-> "subscription", at |-> 0])
      active == r.p.subscription = "pending"
  IN  CASE active /\ r.p.lint = NoId -> [proposed(r, Observe(id, n)) EXCEPT !.p.lint = id]
        [] active /\ r.p.lint # NoId -> r
        [] ~active -> [resolvedIfActive(r, r.p.lint, n) EXCEPT !.p.lint = NoId]
-----------------------------------------------------------------------------
(* The runtime's conditions                                                *)

\* The conditions that hold.
desiredConditions(down, recovering, pageId) ==
  LET affected == [kind |-> IF pageId THEN "page" ELSE "unavailable", at |-> 0]
  IN  (IF down THEN {Id("disconnected", 0, affected)} ELSE {})
        \cup (IF recovering THEN {Id("recovering", 0, affected)} ELSE {})

CodesOf(ids) == {id.code : id \in ids}
OfCode(ids, code) == {id \in ids : id.code = code}

\* A condition that holds is presented, and journaled when it is new.
holding(s, ids) ==
  IF ids = {} THEN s
  ELSE LET id == CHOOSE id \in ids : TRUE
           shown == [s EXCEPT !.presentations = rememberPresentation(@, id)]
       IN  IF id \in s.activeRuntime THEN shown ELSE queued(shown, Observe(id, 0), FALSE)

\* Mutant: a condition that ended leaves the entry of the journal alone.
ending_Keeps(s, ids) ==
  IF ids = {} THEN s
  ELSE [s EXCEPT !.presentations = forgetPresentation(@, CHOOSE id \in ids : TRUE)]

\* A condition that ended is resolved and no longer presented.
ending(s, ids) ==
  IF ids = {} THEN s
  ELSE LET id == CHOOSE id \in ids : TRUE
       IN  queued([s EXCEPT !.presentations = forgetPresentation(@, id)], Resolve(id, 0), FALSE)

\* At most one condition of each code holds: first those that hold are
\* recorded, then those that ended, in the order of their codes.
refreshRuntimeDiagnosticObservations(s, desired) ==
  LET ended == s.activeRuntime \ desired
      held == holding(holding(s, OfCode(desired, "disconnected")), OfCode(desired, "recovering"))
      left == ending(ending(held, OfCode(ended, "disconnected")), OfCode(ended, "recovering"))
  IN  [left EXCEPT !.activeRuntime = desired,
                   !.dismissed = @ \ (CodesOf(ended) \ CodesOf(desired))]

\* publish: the runtime's conditions, unless a recovery holds them back, then
\* the snapshot, which drops the dismissals of conditions that do not hold.
published(s, down, p, pageId, live) ==
  LET desired == desiredConditions(down, p.recovering, pageId)
      r == IF live THEN refreshRuntimeDiagnosticObservations(s, desired) ELSE s
  IN  [r EXCEPT !.dismissed = @ \cap CodesOf(desired)]

Become(s) ==
  /\ mutations' = s.queue /\ presentations' = s.presentations
  /\ activeRuntime' = s.activeRuntime /\ dismissed' = s.dismissed

Show(s, down, p, pageId) ==
  footer' = CodesOf(desiredConditions(down, p.recovering, pageId)) \ s.dismissed
-----------------------------------------------------------------------------
DiagnosticsInit ==
  /\ evidence = <<>> /\ applied = 0 /\ phase = "live" /\ diagnosticEvidenceSequence = 0
  /\ producer = InitialProducer /\ recovery = NoProducer
  /\ disconnected = FALSE /\ pageKnown = FALSE
  /\ activeRuntime = {} /\ presentations = <<>> /\ dismissed = {} /\ footer = {}
  /\ mutations = <<>> /\ failed = FALSE /\ observations = emptyPersistedState
  /\ resets = 0 /\ recoveries = 0 /\ toggles = 0

Current == IF phase = "recovering" THEN recovery ELSE producer

\* handleCommittedEvidence of the n-th Evidence of the interval.
Apply(committed) ==
  LET n == applied + 1
      kind == committed[n]
      pageId == pageKnown \/ kind \notin Checkpoints
      a == applyCommittedEvidence([p |-> Current, s |-> State], n, kind)
      c == reconcileSubscriptionDiagnostics([a EXCEPT !.p = ingested(@, kind)], n)
      s2 == IF kind = "server-error" THEN recordServerError(c.s, n, pageId) ELSE c.s
      s3 == IF n <= diagnosticEvidenceSequence THEN s2
            ELSE refreshRuntimeDiagnosticObservations(
                   s2, desiredConditions(disconnected, c.p.recovering, pageId))
  IN  /\ applied' = n
      /\ producer' = IF phase = "live" THEN c.p ELSE producer
      /\ recovery' = IF phase = "live" THEN recovery ELSE c.p
      /\ pageKnown' = pageId
      /\ diagnosticEvidenceSequence' = Larger(diagnosticEvidenceSequence, n)
      /\ Become(s3)

\* Evidence is committed; a live follower applies it.
Commit(kind) ==
  /\ Len(evidence) < MaxLog /\ Len(mutations) <= MaxQueue
  /\ evidence' = Append(evidence, kind)
  /\ IF phase = "live" THEN Apply(evidence')
     ELSE UNCHANGED <<applied, diagnosticEvidenceSequence, producer, recovery, pageKnown,
                      activeRuntime, presentations, dismissed, mutations>>
  /\ UNCHANGED <<phase, disconnected, footer, failed, observations, resets, recoveries,
                 toggles>>

\* handleFollowerState, RECOVERING: Evidence up to "from" is no longer retained.
Recover ==
  /\ phase = "live" /\ recoveries < MaxRecoveries /\ Len(mutations) <= MaxQueue
  /\ recoveries' = recoveries + 1
  /\ phase' = "recovering" /\ recovery' = InitialProducer
  /\ \E from \in 0 .. Len(evidence) : applied' = from
  /\ UNCHANGED <<evidence, diagnosticEvidenceSequence, producer, panelVars, journalVars,
                 resets, toggles>>

ReplayEvidence ==
  /\ phase = "recovering" /\ applied < Len(evidence) /\ Len(mutations) <= MaxQueue
  /\ Apply(evidence)
  /\ UNCHANGED <<evidence, phase, disconnected, footer, failed, observations, resets,
                 recoveries, toggles>>

\* handleFollowerState, LIVE: the fresh projections replace the old ones.
BecomeLive ==
  /\ phase = "recovering" /\ applied = Len(evidence)
  /\ phase' = "live" /\ producer' = recovery /\ recovery' = NoProducer
  /\ LET s == published(State, disconnected, recovery, pageKnown, TRUE)
     IN  Become(s) /\ Show(s, disconnected, recovery, pageKnown)
  /\ UNCHANGED <<evidence, applied, diagnosticEvidenceSequence, disconnected, pageKnown,
                 failed, observations, resets, recoveries, toggles>>

Reset(s) == [s EXCEPT !.presentations = <<>>, !.dismissed = {}, !.activeRuntime = {}]

\* handleHistoryPublication, interval-cleared: resetCoherentStateAfterClear
\* empties the projections, then the runtime's conditions are recorded anew.
ClearHistory ==
  /\ resets < MaxResets /\ evidence # <<>> /\ Len(mutations) <= MaxQueue
  /\ resets' = resets + 1
  /\ evidence' = <<>> /\ applied' = 0 /\ phase' = "live" /\ diagnosticEvidenceSequence' = 0
  /\ producer' = InitialProducer /\ recovery' = NoProducer
  /\ Become(refreshRuntimeDiagnosticObservations(
              queued(Reset(State), ClearJournal, FALSE),
              desiredConditions(disconnected, FALSE, pageKnown)))
  /\ UNCHANGED <<disconnected, pageKnown, footer, failed, observations, recoveries,
                 toggles>>

SetCaptureStatus ==
  /\ toggles < MaxToggles /\ Len(mutations) <= MaxQueue
  /\ toggles' = toggles + 1 /\ disconnected' = ~disconnected
  /\ LET desired == desiredConditions(~disconnected, producer.recovering, pageKnown)
         r == refreshRuntimeDiagnosticObservations(State, desired)
         s == published(r, ~disconnected, producer, pageKnown, phase = "live")
     IN  Become(s) /\ Show(s, ~disconnected, producer, pageKnown)
  /\ UNCHANGED <<evidenceVars, pageKnown, failed, observations, resets, recoveries>>

\* A dismissal of what the last snapshot shows.
DismissDiagnostic(code) ==
  /\ code \in footer /\ Len(mutations) <= MaxQueue
  /\ LET s == published([State EXCEPT !.dismissed = @ \cup {code}],
                        disconnected, producer, pageKnown, phase = "live")
     IN  Become(s) /\ Show(s, disconnected, producer, pageKnown)
  /\ UNCHANGED <<evidenceVars, disconnected, pageKnown, failed, observations, resets,
                 recoveries, toggles>>

\* publish, on its own cadence
Publish ==
  /\ LET s == published(State, disconnected, producer, pageKnown, phase = "live")
     IN  Become(s) /\ Show(s, disconnected, producer, pageKnown)
  /\ UNCHANGED <<evidenceVars, disconnected, pageKnown, failed, observations, resets,
                 recoveries, toggles>>
-----------------------------------------------------------------------------
(* The journal's side                                                      *)

\* queueDiagnosticMutation runs the next one.  A rejected mutation of the
\* runtime closes the journal, and nothing that is queued runs any more; the
\* proposals of the projections are advisory.
ExecuteMutation ==
  /\ mutations # <<>>
  /\ LET m == Head(mutations).change
         cleared == m.op = "clear"
         stops == ~cleared /\ Rejects(observations, m) /\ ~Head(mutations).advisory
     IN  /\ observations' = IF cleared THEN Cleared(observations)
                            ELSE IF stops THEN Closed(observations)
                            ELSE Mutated(observations, m)
         /\ failed' = (failed \/ stops)
         /\ mutations' = IF stops THEN <<>> ELSE Tail(mutations)
  /\ UNCHANGED <<evidenceVars, panelVars, resets, recoveries, toggles>>

DiagnosticsNext ==
  \/ \E kind \in Kinds : Commit(kind)
  \/ Recover
  \/ ReplayEvidence
  \/ BecomeLive
  \/ ClearHistory
  \/ SetCaptureStatus
  \/ \E code \in RuntimeConditions : DismissDiagnostic(code)
  \/ Publish
  \/ ExecuteMutation

DiagnosticsSpec == DiagnosticsInit /\ [][DiagnosticsNext]_diagnosticsVars

\* A queued mutation runs once the one before it has settled.
FairDiagnosticsSpec == DiagnosticsSpec /\ WF_diagnosticsVars(ExecuteMutation)
-----------------------------------------------------------------------------
IdType == [code : Conditions \cup Occurrences \cup {"none"}, of : 0 .. MaxLog,
           affected : {"none", "evidence", "subscription", "item", "page", "unavailable"},
           at : 0 .. MaxLog]
ProducerType ==
  {NoProducer} \cup
  [known : BOOLEAN, phase : {"none", "snapshot", "complete", "live"},
   snapshotCondition : IdType, established : BOOLEAN,
   coverage : [status : Checkpoints \cup {"none"}, at : 0 .. MaxLog],
   reducerCondition : IdType, subscription : {"absent", "pending", "established"},
   recovering : BOOLEAN, lint : IdType]

\* The types of the variables.
DiagnosticsTypeOK ==
  /\ evidence \in Seq(Kinds) /\ Len(evidence) <= MaxLog
  /\ applied \in 0 .. Len(evidence) /\ diagnosticEvidenceSequence \in 0 .. Len(evidence)
  /\ phase \in {"live", "recovering"}
  /\ producer \in ProducerType /\ recovery \in ProducerType
  /\ disconnected \in BOOLEAN /\ pageKnown \in BOOLEAN /\ failed \in BOOLEAN
  /\ activeRuntime \subseteq IdType /\ Range(presentations) \subseteq IdType
  /\ Len(presentations) <= PresentationLimit /\ IsInjective(presentations)
  /\ dismissed \subseteq RuntimeConditions /\ footer \subseteq RuntimeConditions
  /\ \A i \in DOMAIN mutations : mutations[i].change.op \in {"observe", "resolve", "clear"}
  /\ failed = observations.closed /\ (failed => mutations = <<>>)
  /\ observations.interval \in 1 .. resets + 1 /\ Identities(observations) \subseteq IdType
  /\ resets \in 0 .. MaxResets /\ recoveries \in 0 .. MaxRecoveries /\ toggles \in 0 .. MaxToggles

ItemConditions == {"phase-incomplete", "phase-inconsistent"}

\* The last change that is journaled of the conditions of the item's snapshot.
IsLatestOfItem(j, id) ==
  /\ id \in Identities(j) /\ id.code \in ItemConditions
  /\ \A i \in Identities(j) :
       i.code \in ItemConditions => j.current[i].sequence <= j.current[id].sequence

\* The journal has room for a further identity.
HasRoom(j) ==
  Cardinality(Identities(j)) < MaxIdentities /\ Cardinality(Identities(j)) < MaxBytes

\* The conditions that a projection holds.
HeldBy(p) == {p.snapshotCondition, p.reducerCondition, p.lint} \ {NoId}

\* Once the queue is empty, the three places that keep conditions agree: what
\* the panel presents is journaled and, if it is a condition, active; what the
\* projections hold is active; the condition of the item's snapshot that is
\* journaled last is held if it is active, unless the projections were built
\* anew; and the runtime's conditions that are active in the journal are those
\* that the runtime last recorded.
SourcesAgree ==
  mutations = <<>> /\ ~failed /\ HasRoom(observations) =>
    LET active == ActiveIn(observations)
    IN  /\ \A id \in Range(presentations) :
             IF id.code \in Occurrences THEN id \in Identities(observations) ELSE id \in active
        /\ HeldBy(Current) \subseteq active
        /\ \A id \in active :
             recoveries = 0 /\ IsLatestOfItem(observations, id) => id = Current.snapshotCondition
        /\ {id \in active : id.code \in RuntimeConditions} = activeRuntime

\* A dismissal lasts as long as the condition: one that ended is not dismissed
\* when it comes back.  In a recovery the panel still shows the old topology,
\* so a dismissal may meet a condition that the replay has ended; it is undone
\* before the follower is live.
DismissalsEnd == phase = "live" => dismissed \subseteq CodesOf(activeRuntime)

\* What the panel says of a condition is what the journal says of it, through
\* recoveries, Clears and a presentation that is full, as long as the journal
\* has room for every identity, and no condition that comes back is hidden by
\* an old dismissal (workbench-runtime.ts, refreshRuntimeDiagnosticObservations,
\* recordSubscriptionDiagnosticProposals and dismissedDiagnosticIds).
PanelIsTruthful == DiagnosticsTypeOK /\ SourcesAgree /\ DismissalsEnd

\* Once the bridge is up again the journal's condition is resolved, unless the
\* bridge goes down again or the journal has failed.
EndedConditionsAreResolved ==
  ~disconnected ~>
    \/ disconnected \/ failed
    \/ \A id \in ActiveIn(observations) : id.code # "disconnected"
=============================================================================
