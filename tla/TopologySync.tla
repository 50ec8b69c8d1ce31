---------------------------- MODULE TopologySync ----------------------------
(***************************************************************************)
(* How the panel's topology follows the inspected page: captures that      *)
(* carry topology observations, and synchronizations, which the page sends *)
(* as a begin frame, chunks and a complete frame when a panel registers.   *)
(* The panel stages the frames as they arrive; the checkpoint they make is *)
(* offered to the Event History like a capture, and only what the history  *)
(* commits changes the topology.                                           *)
(*                                                                         *)
(* The bridge loses messages with its connection, the history refuses      *)
(* candidates and is cleared, the page reloads.  An observation stands for *)
(* whatever a capture says of one entity of the page; one chunk stands for *)
(* all the records of a synchronization.                                   *)
(***************************************************************************)
EXTENDS Integers, Sequences, FiniteSetsExt

CONSTANTS
  Entities,     \* clients, Sessions, Subscriptions and listeners of a page
  MaxPages,     \* pages that are loaded one after the other
  MaxCaptures,  \* captures of all the pages
  MaxBreaks,    \* ends of the panel's connection
  MaxGaps,      \* candidates that the history refuses
  MaxClears,    \* Clears of the history
  Coverages,    \* what coverage the page's synchronizations may have
  Overtake      \* whether captures and frames may overtake each other

ASSUME TopologySyncAssumption ==
  /\ MaxPages \in Nat \ {0} /\ MaxCaptures \in Nat /\ MaxBreaks \in Nat
  /\ MaxGaps \in Nat /\ MaxClears \in Nat /\ Overtake \in BOOLEAN
  /\ "complete" \in Coverages /\ Coverages \subseteq {"complete", "partial"}

Pages == 1 .. MaxPages
Cutoffs == 0 .. MaxCaptures
Syncs == Pages \X Cutoffs               \* the syncId: sync:<page epoch>:<cutoff>

\* What the bridge carries.
Messages == [type : {"capture", "begin", "chunk", "complete"}, page : Pages, sequence : Cutoffs,
             coverage : Coverages, chunks : {0, 1}]

\* What waits in the history: candidates, refused candidates as gap barriers, a Clear.
Entry == [kind : {"capture", "checkpoint", "gap", "clear"}, page : 0 .. MaxPages, sequence : Cutoffs,
          coverage : Coverages, observations : SUBSET Cutoffs]

VARIABLES
  page, log,                            \* the page, what each page captured
  registered, requests, wire, breaks,   \* the background's registration and the bridge
  queue, committed, refused, clears,    \* the Event History
  stagedSync,                           \* of the projection: frames that arrived
  projection,                           \* what committed Evidence made of the topology
  currentPageEpoch, evidenceGapGeneration, topologySyncGapGenerations,
  activeTopologyStagingSyncIds, offeredTopologyCheckpointSyncIds, topologyBasisRecovery,
  gaps, begun                           \* ghosts: gaps published, also at the begin of a stage

pageVars == <<page, log>>
bridgeVars == <<registered, requests, wire, breaks>>
historyVars == <<queue, committed, refused, clears>>
runtimeVars == <<currentPageEpoch, evidenceGapGeneration, topologySyncGapGenerations,
                 activeTopologyStagingSyncIds, offeredTopologyCheckpointSyncIds, topologyBasisRecovery>>
ghostVars == <<gaps, begun>>
topologyVars == <<pageVars, bridgeVars, historyVars, stagedSync, projection, runtimeVars, ghostVars>>

Nothing == [e \in Entities |-> 0]
NoGeneration == -1
NoStage == [begin |-> <<>>, chunks |-> 0, observations |-> {}]
NoSync == <<0, 0>>
NoProjection == [page |-> 0, state |-> Nothing, acceptedCutoff |-> NoGeneration, appliedLive |-> {},
                 completed |-> {}, retained |-> {}, retired |-> {}]

TopologyInit ==
  /\ page = 1 /\ log = [p \in Pages |-> <<>>]
  /\ registered = FALSE /\ requests = 0 /\ wire = <<>> /\ breaks = 0
  /\ queue = <<>> /\ committed = <<>> /\ refused = 0 /\ clears = 0
  /\ stagedSync = NoStage
  /\ projection = NoProjection
  /\ currentPageEpoch = 0 /\ evidenceGapGeneration = 0
  /\ topologySyncGapGenerations = [s \in Syncs |-> NoGeneration]
  /\ activeTopologyStagingSyncIds = {} /\ offeredTopologyCheckpointSyncIds = {}
  /\ topologyBasisRecovery = NoSync
  /\ gaps = 0 /\ begun = [s \in Syncs |-> NoGeneration]

\* The captures that the pages have sent.
Captured == {c \in Pages \X Cutoffs : c[2] \in 1 .. Len(log[c[1]])}

\* The page's records when it had captured n: the last observation of each entity.
RecordsAt(p, n) == [e \in Entities |-> Max({0} \cup {i \in 1 .. n : log[p][i] = e})]
-----------------------------------------------------------------------------
(* The page and the bridge *)

\* Without a registered panel the background drops what comes.
Sent(messages) == IF registered THEN wire \o messages ELSE wire

emit ==
  /\ Cardinality(Captured) < MaxCaptures
  /\ \E e \in Entities : log' = [log EXCEPT ![page] = Append(@, e)]
  /\ wire' = Sent(<<[type |-> "capture", page |-> page, sequence |-> Len(log[page]) + 1,
                     coverage |-> "complete", chunks |-> 0]>>)
  /\ UNCHANGED <<page, registered, requests, breaks, historyVars, stagedSync, projection, runtimeVars,
                 ghostVars>>

\* A page without captures has no records; a partial synchronization may leave
\* them out.
emitAbsoluteTopologyCheckpoint ==
  /\ requests > 0 /\ requests' = requests - 1
  /\ \E coverage \in Coverages, chunks \in {0, 1} :
       /\ (chunks = 0) => (Len(log[page]) = 0 \/ coverage = "partial")
       /\ (chunks = 1) => (Len(log[page]) > 0)
       /\ LET frame(type) == [type |-> type, page |-> page, sequence |-> Len(log[page]),
                              coverage |-> coverage, chunks |-> chunks]
          IN wire' = Sent(IF chunks = 0 THEN <<frame("begin"), frame("complete")>>
                          ELSE <<frame("begin"), frame("chunk"), frame("complete")>>)
  /\ UNCHANGED <<pageVars, registered, breaks, historyVars, stagedSync, projection, runtimeVars, ghostVars>>

PageReloads ==
  /\ page < MaxPages /\ page' = page + 1
  /\ requests' = 0
  /\ UNCHANGED <<log, registered, wire, breaks, historyVars, stagedSync, projection, runtimeVars, ghostVars>>

\* registerPanel asks the page for a synchronization.
registerPanel ==
  /\ ~registered /\ registered' = TRUE
  /\ requests' = requests + 1
  /\ UNCHANGED <<pageVars, wire, breaks, historyVars, stagedSync, projection, runtimeVars, ghostVars>>

\* The service worker stops: the port brings what it was given, the rest is lost.
ConnectionEnds ==
  /\ registered /\ breaks < MaxBreaks
  /\ registered' = FALSE /\ breaks' = breaks + 1
  /\ \E n \in 0 .. Len(wire) : wire' = SubSeq(wire, 1, n)
  /\ UNCHANGED <<pageVars, requests, historyVars, stagedSync, projection, runtimeVars, ghostVars>>
-----------------------------------------------------------------------------
(* The projection of committed Evidence *)

\* Mutant: the epoch that the projection starts with is retired like a page.
activatePage_RetiresInitial(pr, p) ==
  IF pr.page = p THEN pr
  ELSE [NoProjection EXCEPT !.page = p, !.retired = pr.retired \cup {pr.page}]

\* activatePage, for a page that is not retired.
activatePage(pr, p) ==
  IF pr.page = p THEN pr
  ELSE [NoProjection EXCEPT !.page = p, !.retired = pr.retired \cup ({pr.page} \ {0})]

\* applyLive of the coordinator, which has no stage between two entries.
applyLive(pr, n) ==
  IF n <= pr.acceptedCutoff \/ n \in pr.appliedLive THEN pr
  ELSE [pr EXCEPT !.state[log[pr.page][n]] = n, !.appliedLive = @ \cup {n}]

applyCommittedCapture(pr, n) == applyLive([pr EXCEPT !.retained = @ \cup {n}], n)

\* replayObservations, in capture order.  Max by entity is what the sequence of
\* applyLive leaves.
Replay(pr, ns) ==
  LET fresh == {n \in ns : n > pr.acceptedCutoff /\ n \notin pr.appliedLive}
  IN [pr EXCEPT !.state = [e \in Entities |->
                             Max({pr.state[e]} \cup {n \in fresh : log[pr.page][n] = e})],
                !.appliedLive = @ \cup fresh]

\* Mutant: the live sequences that were applied are remembered over the checkpoint.
complete_Remembers(pr, cp) ==
  [pr EXCEPT !.state = RecordsAt(cp.page, cp.sequence), !.acceptedCutoff = Max({@, cp.sequence}),
             !.completed = @ \cup {cp.sequence}]

\* complete of the coordinator: the records replace what was known.
complete(pr, cp) ==
  [pr EXCEPT !.state = RecordsAt(cp.page, cp.sequence), !.acceptedCutoff = Max({@, cp.sequence}),
             !.appliedLive = {}, !.completed = @ \cup {cp.sequence}]

\* begin of the coordinator refuses an older checkpoint, and one it has had.
Begins(pr, cp) == cp.sequence >= pr.acceptedCutoff /\ cp.sequence \notin pr.completed

applyCommittedCheckpoint(pr, cp) ==
  LET later == {n \in pr.retained : n > cp.sequence}
  IN IF ~Begins(pr, cp) THEN pr
     ELSE Replay([complete(pr, cp) EXCEPT !.retained = later], cp.observations \cup later)
-----------------------------------------------------------------------------
(* The panel receives *)

\* observeCurrentPageEpoch.
ObservedBasis(p) ==
  IF topologyBasisRecovery[1] # p THEN NoSync ELSE topologyBasisRecovery

\* A candidate is taken, or leaves a gap where it would have been.
Offered(kind, p, n, coverage, observations) ==
  \/ /\ queue' = Append(queue, [kind |-> kind, page |-> p, sequence |-> n, coverage |-> coverage,
                                observations |-> observations])
     /\ UNCHANGED refused
  \/ /\ refused < MaxGaps /\ refused' = refused + 1
     /\ queue' = Append(queue, [kind |-> "gap", page |-> IF kind = "checkpoint" THEN p ELSE 0,
                                sequence |-> IF kind = "checkpoint" THEN n ELSE 0,
                                coverage |-> "complete", observations |-> {}])

ingestCaptureMessage(m) ==
  /\ m.type = "capture"
  /\ Offered("capture", m.page, m.sequence, "complete", {})
  /\ UNCHANGED <<committed, clears, stagedSync, runtimeVars, ghostVars>>

FrameOf(begin, m) == begin # <<>> /\ begin = <<[m EXCEPT !.type = "begin"]>>

\* The staged frames make a candidate: all chunks, and records unless nothing was captured.
Encodes(m) == stagedSync.chunks = m.chunks /\ (m.chunks = 0 => m.sequence = 0)

\* stageSyncFrame of a begin frame: another stage makes it conflict, its own is resumed.
stageBegin(m) ==
  LET sync == <<m.page, m.sequence>>
      accepted == stagedSync = NoStage \/ stagedSync.begin = <<m>>
      starts == accepted /\ sync \notin activeTopologyStagingSyncIds
  IN /\ m.type = "begin"
     /\ stagedSync' = IF stagedSync = NoStage THEN [NoStage EXCEPT !.begin = <<m>>] ELSE stagedSync
     /\ begun' = IF stagedSync = NoStage THEN [begun EXCEPT ![sync] = gaps] ELSE begun
     /\ activeTopologyStagingSyncIds' =
          IF starts THEN activeTopologyStagingSyncIds \cup {sync} ELSE activeTopologyStagingSyncIds
     /\ topologySyncGapGenerations' =
          IF starts THEN [topologySyncGapGenerations EXCEPT ![sync] = evidenceGapGeneration]
          ELSE topologySyncGapGenerations
     /\ UNCHANGED <<queue, refused, offeredTopologyCheckpointSyncIds>>

stageChunk(m) ==
  /\ m.type = "chunk"
  /\ stagedSync' = IF FrameOf(stagedSync.begin, m) THEN [stagedSync EXCEPT !.chunks = 1] ELSE stagedSync
  /\ UNCHANGED <<queue, refused, begun, activeTopologyStagingSyncIds, topologySyncGapGenerations,
                 offeredTopologyCheckpointSyncIds>>

\* A complete frame ends its stage; the candidate is offered once for its syncId.
stageComplete(m) ==
  LET sync == <<m.page, m.sequence>>
      staged == FrameOf(stagedSync.begin, m)
      candidate == staged /\ Encodes(m)
  IN /\ m.type = "complete"
     /\ stagedSync' = IF staged THEN NoStage ELSE stagedSync
     /\ activeTopologyStagingSyncIds' =
          IF candidate THEN activeTopologyStagingSyncIds \ {sync} ELSE activeTopologyStagingSyncIds
     /\ IF candidate /\ sync \notin offeredTopologyCheckpointSyncIds
        THEN /\ offeredTopologyCheckpointSyncIds' = offeredTopologyCheckpointSyncIds \cup {sync}
             /\ Offered("checkpoint", m.page, m.sequence, m.coverage, stagedSync.observations)
        ELSE UNCHANGED <<queue, refused, offeredTopologyCheckpointSyncIds>>
     /\ topologySyncGapGenerations' =
          IF candidate THEN topologySyncGapGenerations
          ELSE [topologySyncGapGenerations EXCEPT ![sync] = NoGeneration]
     /\ UNCHANGED begun

applyTopologySyncFrame(m) ==
  /\ stageBegin(m) \/ stageChunk(m) \/ stageComplete(m)
  /\ currentPageEpoch' = m.page /\ topologyBasisRecovery' = ObservedBasis(m.page)
  /\ UNCHANGED <<committed, clears, evidenceGapGeneration, gaps>>

\* The bridge keeps the order of messages; with Overtake a capture may come
\* before the frames ahead of it, and a frame before the captures ahead of it.
Deliverable(i) ==
  \/ i = 1
  \/ Overtake /\ \A j \in 1 .. i - 1 : (wire[j].type = "capture") # (wire[i].type = "capture")

Receive(i) ==
  /\ Deliverable(i)
  /\ wire' = SubSeq(wire, 1, i - 1) \o SubSeq(wire, i + 1, Len(wire))
  /\ ingestCaptureMessage(wire[i]) \/ applyTopologySyncFrame(wire[i])
  /\ UNCHANGED <<pageVars, registered, requests, breaks, projection>>
-----------------------------------------------------------------------------
(* The history decides *)

\* A retired page's entries change nothing.
Ingested(entry) ==
  IF entry.page \in projection.retired THEN projection
  ELSE LET active == activatePage(projection, entry.page)
       IN IF entry.kind = "capture" THEN applyCommittedCapture(active, entry.sequence)
          ELSE applyCommittedCheckpoint(active, entry)

\* Live observations of the page that is being synchronized.
StagedObservations(entry) ==
  IF /\ entry.page \notin projection.retired /\ stagedSync # NoStage
     /\ entry.page = stagedSync.begin[1].page /\ entry.sequence > stagedSync.begin[1].sequence
  THEN [stagedSync EXCEPT !.observations = @ \cup {entry.sequence}] ELSE stagedSync

commitCapture ==
  LET entry == Head(queue) IN
  /\ entry.kind = "capture"
  /\ projection' = Ingested(entry) /\ stagedSync' = StagedObservations(entry)
  /\ currentPageEpoch' = entry.page /\ topologyBasisRecovery' = ObservedBasis(entry.page)
  /\ committed' = Append(committed, entry)
  /\ UNCHANGED <<clears, evidenceGapGeneration, topologySyncGapGenerations, activeTopologyStagingSyncIds,
                 offeredTopologyCheckpointSyncIds, gaps>>

\* Mutant: a checkpoint restores the basis whenever its synchronization began.
RestoresBasis_Whenever(entry, generation) ==
  /\ entry.coverage = "complete" /\ generation # NoGeneration
  /\ currentPageEpoch = entry.page /\ evidenceGapGeneration > 0

\* acceptTopologyBasisRecovery: a COMPLETE checkpoint of the current page whose
\* synchronization began after the latest gap of the interval.
RestoresBasis(entry, generation) ==
  /\ entry.coverage = "complete" /\ generation = evidenceGapGeneration
  /\ currentPageEpoch = entry.page /\ evidenceGapGeneration > 0

commitCheckpoint ==
  LET entry == Head(queue)
      sync == <<entry.page, entry.sequence>>
      applied == entry.page \notin projection.retired /\ Begins(activatePage(projection, entry.page), entry)
  IN /\ entry.kind = "checkpoint"
     /\ projection' = Ingested(entry)
     /\ committed' = Append(committed, entry)
     /\ offeredTopologyCheckpointSyncIds' = offeredTopologyCheckpointSyncIds \cup {sync}
     /\ IF applied
        THEN /\ topologySyncGapGenerations' = [topologySyncGapGenerations EXCEPT ![sync] = NoGeneration]
             /\ topologyBasisRecovery' = IF RestoresBasis(entry, topologySyncGapGenerations[sync])
                                         THEN sync ELSE topologyBasisRecovery
        ELSE UNCHANGED <<topologySyncGapGenerations, topologyBasisRecovery>>
     /\ UNCHANGED <<clears, stagedSync, currentPageEpoch, evidenceGapGeneration,
                    activeTopologyStagingSyncIds, gaps>>

\* The gap is published; a refused checkpoint may be offered again.
publishGap ==
  LET entry == Head(queue)
      sync == <<entry.page, entry.sequence>>
  IN /\ entry.kind = "gap"
     /\ gaps' = gaps + 1 /\ evidenceGapGeneration' = evidenceGapGeneration + 1
     /\ topologyBasisRecovery' = NoSync
     /\ offeredTopologyCheckpointSyncIds' = offeredTopologyCheckpointSyncIds \ {sync}
     /\ topologySyncGapGenerations' =
          IF entry.page = 0 THEN topologySyncGapGenerations
          ELSE [topologySyncGapGenerations EXCEPT ![sync] = NoGeneration]
     /\ UNCHANGED <<committed, clears, stagedSync, projection, currentPageEpoch, activeTopologyStagingSyncIds>>

\* resetCoherentStateAfterClear, and clear of the projection.
clearInterval ==
  /\ Head(queue).kind = "clear"
  /\ committed' = <<>>
  /\ stagedSync' = NoStage
  /\ projection' = NoProjection
  /\ evidenceGapGeneration' = 0 /\ topologyBasisRecovery' = NoSync
  /\ topologySyncGapGenerations' = [s \in Syncs |-> NoGeneration]
  /\ gaps' = 0 /\ begun' = [s \in Syncs |-> NoGeneration]
  /\ UNCHANGED <<clears, currentPageEpoch, activeTopologyStagingSyncIds, offeredTopologyCheckpointSyncIds>>

Decide ==
  /\ queue # <<>> /\ queue' = Tail(queue)
  /\ \/ (commitCapture \/ commitCheckpoint \/ publishGap) /\ UNCHANGED begun
     \/ clearInterval
  /\ UNCHANGED <<pageVars, bridgeVars, refused>>

\* A person clears the history: what was offered before is decided first.
requestClear ==
  /\ clears < MaxClears /\ clears' = clears + 1
  /\ \A i \in 1 .. Len(queue) : queue[i].kind # "clear"
  /\ queue' = Append(queue, [kind |-> "clear", page |-> 0, sequence |-> 0, coverage |-> "complete",
                             observations |-> {}])
  /\ UNCHANGED <<pageVars, bridgeVars, committed, refused, stagedSync, projection, runtimeVars, ghostVars>>
-----------------------------------------------------------------------------
TopologyNext ==
  \/ emit \/ emitAbsoluteTopologyCheckpoint \/ PageReloads \/ registerPanel \/ ConnectionEnds
  \/ \E i \in 1 .. Len(wire) : Receive(i)
  \/ Decide \/ requestClear

TopologySpec == TopologyInit /\ [][TopologyNext]_topologyVars
-----------------------------------------------------------------------------
TopologyTypeOK ==
  /\ page \in Pages /\ log \in [Pages -> Seq(Entities)] /\ \A p \in Pages : Len(log[p]) <= MaxCaptures
  /\ registered \in BOOLEAN /\ requests \in 0 .. MaxBreaks + 1 /\ wire \in Seq(Messages)
  /\ breaks \in 0 .. MaxBreaks
  /\ queue \in Seq(Entry) /\ committed \in Seq(Entry) /\ refused \in 0 .. MaxGaps /\ clears \in 0 .. MaxClears
  /\ stagedSync \in [begin : Seq(Messages), chunks : {0, 1}, observations : SUBSET Cutoffs]
  /\ projection \in [page : 0 .. MaxPages, state : [Entities -> Cutoffs],
                     acceptedCutoff : Cutoffs \cup {NoGeneration}, appliedLive : SUBSET Cutoffs,
                     completed : SUBSET Cutoffs, retained : SUBSET Cutoffs, retired : SUBSET Pages]
  /\ currentPageEpoch \in 0 .. MaxPages /\ evidenceGapGeneration \in 0 .. MaxGaps
  /\ topologySyncGapGenerations \in [Syncs -> {NoGeneration} \cup 0 .. MaxGaps]
  /\ activeTopologyStagingSyncIds \subseteq Syncs /\ offeredTopologyCheckpointSyncIds \subseteq Syncs
  /\ topologyBasisRecovery \in Syncs \cup {NoSync}
  /\ gaps \in 0 .. refused /\ begun \in [Syncs -> {NoGeneration} \cup 0 .. MaxGaps]

\* The page that came into the interval last.
LatestPage ==
  LET First(p) == Min({i \in 1 .. Len(committed) : committed[i].page = p})
      Seen == {committed[i].page : i \in 1 .. Len(committed)}
  IN CHOOSE p \in Seen : \A q \in Seen : First(q) <= First(p)

\* The topology is what the committed Evidence of the interval says of the page
\* that came last: each entity as the captures, the records of the checkpoint with
\* the latest cutoff and the observations staged for it last showed it, in whatever
\* order they were committed, and nothing that was only staged.
TopologyIsCommitted ==
  IF committed = <<>> THEN projection.page = 0 /\ projection.state = Nothing
  ELSE LET ofPage == {committed[i] : i \in {j \in 1 .. Len(committed) : committed[j].page = LatestPage}}
           captures == {c.sequence : c \in {d \in ofPage : d.kind = "capture"}}
           cutoff == Max({NoGeneration} \cup {c.sequence : c \in {d \in ofPage : d.kind = "checkpoint"}})
           latest == {c \in ofPage : c.kind = "checkpoint" /\ c.sequence = cutoff}
           Said(e) == {n \in captures \cup UNION {c.observations : c \in latest} : log[LatestPage][n] = e}
                        \cup {RecordsAt(LatestPage, c.sequence)[e] : c \in latest}
       IN /\ projection.page = LatestPage
          /\ \A e \in Entities : projection.state[e] = Max({0} \cup Said(e))

\* The state is in its types and the topology is true to the Evidence.
ProjectionIsTrue == TopologyTypeOK /\ TopologyIsCommitted

\* The panel claims a restored Topology basis only for the page it takes to be
\* current, on a committed COMPLETE checkpoint, whose records the topology contains
\* if it shows that page, and with no gap since that synchronization began.
BasisIsTrue ==
  topologyBasisRecovery # NoSync =>
    LET p == topologyBasisRecovery[1] cutoff == topologyBasisRecovery[2]
    IN /\ currentPageEpoch = p
       /\ \E i \in 1 .. Len(committed) :
            /\ committed[i].kind = "checkpoint" /\ committed[i].coverage = "complete"
            /\ committed[i].page = p /\ committed[i].sequence = cutoff
       /\ projection.page = p => \A e \in Entities : projection.state[e] >= RecordsAt(p, cutoff)[e]
       /\ begun[topologyBasisRecovery] = gaps
=============================================================================
