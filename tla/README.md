# Verification of the Lightstreamer Workbench extension

TLA+ models of the Workbench extension's core, TLC runs on small instances, and
proofs checked by TLAPS. Paths are those of the repository.

## 1. The system

The extension shows, in a DevTools panel, what a page's Lightstreamer client
does. Its parts and how they interact:

| Part | State | Operations | Talks to |
|---|---|---|---|
| Page instrumentation (`src/injected`) | weak registries of clients, subscriptions, listeners; pending message deliveries | wraps the client API, captures events, executes Local and Server Injections, describes the topology | content script (window messages), panel (evaluation) |
| Bridge (`src/bridge`, `src/content`, `src/extension/background.ts`, `panel/bridge-client.ts`) | ports per tab, requests in flight | relays captures and commands, correlates answers | page, panel |
| Event History (`src/core/event-history-authoritative.ts`, `event-history-indexeddb.ts`) | queues of candidates, committed Evidence, retained range, gaps, interval, receipts | offer, clear, close, follow, read, query | a journal (IndexedDB or memory), followers |
| Committed-evidence pipeline (`panel/committed-evidence-pipeline.ts`) | applied boundary, entries behind a gap, phase, failed entry | start, restart, cancelRecovery, close; publications as callbacks | Event History, runtime |
| Workbench runtime (`panel/workbench-runtime.ts`) | live and recovering projections, view state, notifications | commands of the UI, callbacks of the pipeline | everything in the panel |
| COMMAND state, Topology, Topology sync (`src/core/command-state.ts`, `topology-state.ts`, `topology-sync.ts`, `panel/topology-*`) | rows per item, clients and Sessions, checkpoints in assembly | fold over committed Evidence; chunked sync with the page | runtime, bridge |
| Diagnostics (`src/core/*diagnostic*`, the runtime) | active conditions per rule, the Diagnostic Observation journal, presentations, dismissals | fold over Evidence, observe and resolve, query, subscribe, dismiss | runtime |
| Local Injection (`panel/local-injection-execution-coordinator.ts`, `core/local-injection-*`, `core/server-injection.ts`) | executions, scenario runs, checkpoints | execute, pause, stop, wait | bridge, Event History |
| Agent companion (`src/agent`, `panel/agent-*`) | pairing, routes, requests, waits | pair, call tools, wait for Evidence | a local broker, runtime |
| Analytics, consent, export, user interface | consent, queue | | |

What is hard here: everything runs on single-threaded event loops, but
operations are split by `await`, by microtasks and by timers, and publications
run observers synchronously in the middle of an operation. Evidence may be
refused, retired by retention, or cut off by a Clear while earlier work is still
in progress; a journal fails and is retried or abandoned; a follower replays in
chunks while new Evidence is committed; an observer throws; ports disconnect
with requests in flight.

What makes each part correct:

* Event History: every valid capture is decided exactly once and in capture
  order; what is retained is the newest part of what was accepted; a Clear cuts
  the stream where it was requested; gaps stand where they happened; Close and
  Clear end.
* Followers: a subscriber is told of everything retained from where it asked to
  start, in order, on the right side of a Clear; a replay ends.
* Pipeline: an entry is applied once, in order, and presented at most twice
  when it fails; the phase that is reported is the truth.
* Runtime: a recovery is invisible until it is complete, and complete then.
* IndexedDB: memory and journal agree after each failure, the journal loads at
  any moment; a session erases only what no live session owns.
* Bridge, injection, scenarios, agent: each request takes effect at most once and
  only as agreed, the record of it is true whatever comes late, and nothing is
  pending for ever; one execution at a time; no state changes after stop.
* Topology, COMMAND state: what is shown is what the committed Evidence says, and
  what it claims to be complete is.
* Diagnostics: what is presented, what is journaled and what the Evidence says
  agree; what ended is resolved; the journal can be opened again.

## 2. Modules

| Module | Models | Composes |
|---|---|---|
| `EvidenceLog` | the abstract promise of an Event History, whichever journal backs it | |
| `HistoryEntries` | what both coordinators share: queue entries, Evidence, Gaps, retention budgets | |
| `MemoryHistory` | `createMemoryHistory`: queues, batches, journal failure, retention, gaps, Clear, Close, receipts | extends `HistoryEntries`, implements `EvidenceLog` |
| `MCMemoryHistory` | the limits that TLC uses | `MemoryHistory` |
| `HistoryEntriesProofs` | lemmas on sequences, identities, sums of bytes and retention cuts that the proofs of both histories share | `HistoryEntries`, `FiniteSetTheorems`, `WellFoundedInduction`, `TLAPS` |
| `MemoryHistoryProofs` | theorems of `MemoryHistory` | `MemoryHistory`, `HistoryEntriesProofs` |
| `IndexedDbHistory` | `createHistory` of the IndexedDB journal: commit, retry, fallback, retention transactions, Clear, Close, the journal itself | extends `HistoryEntries`, implements `EvidenceLog` |
| `MCIndexedDbHistory` | the limits that TLC uses | `IndexedDbHistory` |
| `IndexedDbHistoryProofs` | theorems of `IndexedDbHistory`, and of `JournalOwnership`, which says who may use its journal | `IndexedDbHistory`, `JournalOwnership`, `HistoryEntriesProofs` |
| `JournalOwnership` | leases, ownership locks, startup sweep, close and crash of several panels | |
| `MCJournalOwnership` | panels and names for TLC | `JournalOwnership` |
| `PublicationFeed` | `follow` and `publish`: one synchronous run of the history as an operator from the feed's state to the next one and the publications made | |
| `HistoryFollow` | a subscriber that keeps a ledger of what it was told | `PublicationFeed` |
| `HistoryFollowProofs` | theorems of `HistoryFollow` and of `EvidencePipeline`, which follows the same feed | `HistoryFollow`, `EvidencePipeline`, `TLAPS` |
| `EvidencePipeline` | the committed-evidence pipeline and the panel's projections | `PublicationFeed` |
| `ScenarioRunner` | the runner of a Local Injection Scenario: timers, Steps, Checkpoints, pause, stop, visibility, drift | |
| `MCScenarioRunner` | a Run for TLC | `ScenarioRunner` |
| `InjectionBridge` | a Local Injection over panel, service worker, content script and page | |
| `InjectionBridgeProofs` | theorems of `InjectionBridge` | `InjectionBridge`, `TLAPS` |
| `ServerInjection` | a Server Injection: document, agent receipts, delivery, outcome | |
| `ScenarioAndServerProofs` | theorems of `ScenarioRunner` and of `ServerInjection` | `ScenarioRunner`, `ServerInjection`, `TLAPS` |
| `TopologySync` | topology captures and synchronizations from the page to the projection | |
| `DiagnosticJournal` | the Diagnostic Observation journal as a record and its operations as operators | |
| `DiagnosticObservations` | that journal with its storage, a subscriber and panels that go away | `DiagnosticJournal` |
| `MCDiagnosticObservations` | symmetry for TLC | `DiagnosticObservations` |
| `TopologyAndDiagnosticsProofs` | theorems of `TopologySync`, of `DiagnosticObservations` and of `Diagnostics` | `TopologySync`, `DiagnosticObservations`, `Diagnostics`, `TLAPS` |
| `Diagnostics` | the runtime's conditions, presentations, dismissals and mutations | `DiagnosticJournal` |
| `CommandState` | the COMMAND projections of an item, and what an agent is told of a key | |
| `MCCommandState` | symmetry for TLC | `CommandState` |
| `CommandStateProofs` | theorems of `CommandState` | `CommandState`, `TLAPS` |

### MemoryHistory

An action is a run of code between two points where other code may run. `offer`
is one action per outcome (`offerCandidate`, `refuseUnretainable`,
`refuseWithoutOrdinal`); a run of `processPending` is split at its awaits:
`startProcessing`, `takeCandidatePrefix`, `journalCommitFails`, `acceptBatch`,
`settleLeadingGapBarrier`, `finishProcessing`. `clear` and `close` are split
likewise, down to the `finally` callback of a Clear (`clearCleanup`) and to the
callers that wait for the queue (`idleWaiters`). Variables have the names of the
code's. Abstracted: payloads and serialization (a candidate is an identity and a
size), time, status objects, the query index, and `publish` (observers are
in `HistoryFollow`; that they may call `offer` is the freedom of interleaving
here). The terminal path (`DRAINING_TO_STOP`, `STOPPED`) is left out: nothing in
the code calls `beginDrain`.

`receipt` is the promise that `offer` returned for each capture ordinal. Evidence
carries its capture ordinal in the model, which the code does not store, so that
`CaptureOrder` can be stated.

`OfferBeforeCleanup` says whether code may call `offer` between the end of a
Clear and its cleanup callback (a few microtasks, or an observer of the
publications made there). It is FALSE in the passing runs and the proof's
assumption; with TRUE TLC finds `CaptureOrder` violated (Observations).

`NothingIsLost` joins three things that are wrong together when they are wrong:
every open receipt is queued and counted (`OpenReceiptsAreQueued`), what is
retained is the newest part of what was accepted (`RetainedTail`), and gaps stand
where the refusals were (`GapPlacement`). `EveryOperationEnds` says that receipts
settle and that Clear and Close end.

### IndexedDbHistory

`journal` is what the database holds: the control record and the Evidence, which
each transaction changes together or not at all (`transactionDone` aborts a
transaction that times out, so that its outcome is always known). Everything
else is the panel's memory: `durableRetentionEntries` and its totals describe
the journal, `volatileEvidence` what is retained in memory, `retained*` the
whole. A run of `processPending` is at one of the awaits named by `processing`:
the commit (tried three times), the snapshot that is read back before the
fallback (`snapshot`), the retention transaction after a commit (`trim`) and the
snapshot after its failure (`trimSnapshot`). A journal may fail at any of them
and recover at the next. `snapshotDurablePrefix` either returns what was recorded
or null, which drops the durable prefix. `KeepInMemory` is the retention advance
of the part in memory, which has no await.

A crash is not an action: the session does not go on after it. What it leaves is
the journal, in every state, so that `JournalIsLoadable` states what a startup
requires of it (`validateJournalRecords`).

Abstracted beyond what `MemoryHistory` abstracts: publications (the followers of
a journal replay by key range, unlike those of the memory history, and are not
modelled yet); the query indexes and facets, which the same transactions write;
and the journal's own byte accounting, which differs from the capacity's by a
constant per record (`durableBytes` stands for both).

`clear` runs its transaction in memory mode too, as the code does, so that a
Clear after the fallback fails as long as the journal does.

`JournalHoldsEvidence` is what a startup would find (`JournalIsLoadable`) together
with which part of the Evidence is where in each mode (`ModeHoldsEvidence`).

### JournalOwnership

The panels share `owner` (Web Locks), `stored` (databases), `lease`
(localStorage). A lease may expire under a live panel, as timers of hidden pages
are throttled, and it may not have been stored at all. A deletion that timed out
may happen later (`pendingDelete`); IndexedDB runs an open after the deletions
requested before it. Two panels may have one session id (`NameOf`): the API
allows it and the tests do it, although every mount takes a fresh one; the run
gives each its own, the proofs cover both.
`RunningKeepsJournal` holds in spite of expired leases because the lock decides;
the lease only spares the request.

The module's specification and type invariant are called `OwnershipSpec`,
`OwnershipTypeOK` and so on, and `close` is `closePanel`, because
`IndexedDbHistoryProofs` extends it beside `IndexedDbHistory`.

Where `navigator.locks` is missing the code falls back to a set in the module's
own memory, which panels do not share; extension pages have Web Locks, so the
fallback (used by tests) is not modelled.

### PublicationFeed, HistoryFollow

Evidence of the memory history is one contiguous array, so a feed keeps the range
`oldest..boundary` and a replay keeps array indices, as the code does.
`HistoryFollow` lets the observer throw or unsubscribe at any publication.
`DeliveryIsOrdered` is about what was told (in order, on its side of a Clear),
`NothingIsMissed` about what should have been (by a live follower, by a complete
replay).

### EvidencePipeline

Each step is one run of the history, folded through the follower's observer.
`bad` is the entry at which `onCommittedEvidence` throws in that run; one is
enough, because after a failure nothing else is presented in the same run.
The restart is a microtask that was queued during the run; it runs before the
next task, so all other actions wait for it. The projections (`live`,
`recovery`) are the sets of Evidence that they were built from. Production binds
the pipeline with a chunk size, so that its replays are always cooperative.
`restart` is modelled without a boundary argument: the code raises an earlier
one to the applied boundary. No code under `src` calls `restart` or
`cancelRecovery`; the tests do. `FollowerIsTruthful`: Evidence is applied once and
in order, and a phase that says live means that everything committed is applied.
Loops over the entries of a publication, the entries that waited and the
publications of a run are recursive functions, so that they can be proved about;
`The` has TLC evaluate each intermediate pipeline once. `HistoryReplays`,
`HistoryCommits` and `HistoryClears` are the actions that `HistoryFollow` calls
`ReplayChunk`, `Commit` and `Clear`.

### ScenarioRunner

The local variables of `createLocalInjectionScenarioRunner` are the fields of
`runner`. What the code does without awaiting is an operator from a runner to
the set of runners that may come out, depending on what the adapter answers;
the actions are the timers, the answers of loads, queries and executions,
publications of the committed boundary, and the developer's operations.
A generation that the code compares is modelled by the pending load or timer it
belongs to: when the code raises it, the load or timer is gone. The evaluations
that were begun for the next member (`watches`) are kept one by one, since a
second dispatch of a Checkpoint overwrites the first one's subscription without
ending it; both end with the member. `execution` distinguishes the execution from
the awaited `afterSettlement`.

Abstracted: time (an evaluation finds its window open or over; one that is over
stays so), what assertions look at, delays
and trace timing. The reload that a Diagnostic Observation asks for
during a load is a longer load. `pause("DRIFT")` has no caller. `nextOrdinal` is the
number of Steps before `next`, plus one.

`RetiredDuringLoad` says whether a dispatch may find the target retired while a
Checkpoint's load is pending: FALSE in the run and the theorems' hypothesis; with TRUE TLC finds that an ended
Run comes back (Observations). `RunIsTruthful` joins the Trace
(`TruthfulTrace`) and the record of controls (`ControlsAreRecorded`).

Its initial predicate, next-state relation and specification are `RunInit`, `RunNext` and
`RunSpec`, because `ScenarioAndServerProofs` extends it beside `ServerInjection`.

### InjectionBridge

One Local Injection from the Draft in the panel to the page's listeners. The
bridge client first evaluates the request in the inspected page
(`evaluation`); where the page has no compatible bridge it posts it to the service
worker, which sends it to the content script, which posts it to the page
(`toBackground`, `toContent`, `toPage`), and the answer comes as the response or
as a message of its own (`toService`, `toPanel`). Each context gives up after a
time of its own, and each timeout is an action that is always enabled: no order
between the timeouts is assumed. The service worker may stop at any time and
forgets `registered` and its pending answers; a content script may be retired by a
newer one; the page may reload, and the panel then reads the new page's identity.

`effects` is what the page's listeners were given, per request, in which page: a
ghost that the panel's `record` is compared with. `AtMostOnce` and
`RecordIsTrue` hold although the panel never learns whether a timed-out request is
still under way, because a record of "not delivered" is made only where nothing
was sent, or where the page itself answered; everything else is recorded as
acknowledgement unknown. That rests on the evaluation timing out into
"unknown" and never into the second path.

Abstracted: editing and reviewing a Draft are one phase; a browser without
`inspectedWindow.eval` is a nondeterministic choice at the evaluation; an answer
that says success and counts failed listeners is refused by the validator and so
becomes acknowledgement unknown.

### ServerInjection

`document` is `serverInjectionDraft` of the runtime with what was prepared,
reviewed and approved, `receipts` and `serverPrepared` what the agent's service
keeps, `pendingServerInjections` the bridge client's waiting executions,
`starts`, `sends`, `heard` the page's registry, its calls of `sendMessage` and
what its listener heard. `consent` is a ghost: what a person last agreed to, per
request, and nothing once that was withdrawn. A content is a version and the site
(page and Session) it was written for. `port` also stands for a capture status of
disconnected. The agent's target is the current site.

A discarded message ends like a denied one and an error like an abort after the
transmission, so that `Heard` has four values. Late or repeated captures of
outcomes find nothing pending and change nothing; a repeated execute call is
answered with its receipt and changes nothing.

`SentAsConsented` is the promise of the feature: what goes to the Server is what a
person agreed to, once. `AnswersAreTrue` relates receipts, the document's outcome
and what happened in the page.

### TopologySync

A capture of a page changes one entity (`log`, per page); a synchronization says
all of them at a cutoff, in a begin frame, one chunk and a complete frame.
Frames wait in `wire`, are staged (`stagedSync`), become a checkpoint candidate in
the history's `queue`, and change `projection` only when committed. The runtime's
half (`topologySyncGapGenerations`, `offeredTopologyCheckpointSyncIds`, ...)
decides whether the Topology basis counts as restored.

`ProjectionIsTrue` compares the projection with a reference computed from the
committed Evidence alone: the state of the latest page, from its last complete
checkpoint and the captures after the cutoff. `BasisIsTrue` says that the basis is
claimed only for the page taken to be current, on a committed complete checkpoint
whose records the topology contains if it shows that page, and only if no gap was published since the
synchronization of that checkpoint began. `gaps` and `begun` are ghosts for it.
`TopologyInit`, `TopologyNext` and the other names that every module has carry a
prefix here, since the proofs extend this module together with another.

Abstracted: the records themselves (an entity's state is the capture that set
it), the display of limited and useful coverage, the legacy index, preserved
history, restarts of the projection's recovery, and the limits 4096, 128 and 16
on records, chunks and stages. `Overtake` lets captures and frames of a page overtake
each other; Chrome keeps the order within a document, so this over-approximates.

### DiagnosticJournal, DiagnosticObservations, Diagnostics

The journal runs its operations one after the other, so an operation is an
operator from a journal to the next. `DiagnosticObservations` adds what happens
between them: the next state is persisted before it is taken over and published,
the transaction may complete or abort, the panel may go away at any point and
open the journal again. Observations of one byte unit each; `MaxBytes` counts
records and current ones as the code does. Production creates the journal in
memory, whose writes never fail; the IndexedDB variant and
`discardRetainedThrough` are exercised by tests only, and modelled.

`JournalIsSound` is stated of the journal in memory, of the one in the database
and of the one being written: it can be hydrated again, each record changes
something, and an answer that claims to be complete is. `RecordedIsFinal` says that
nothing takes back what a reader saw. `FeedIsTruthful` is what the subscriber is
told.

`Diagnostics` folds committed Evidence through the rules (snapshot phases,
establishment, the incomplete reducer, one lint, the Server error) and the runtime's
two conditions (disconnected, recovering), and follows a condition through
the four places it lives in: the producer's projection, the runtime's active
conditions, the presentations (bounded), and the journal behind its queue. A
recovery replays into a fresh projection. `PanelIsTruthful` says that they agree
when the queue is empty, and that a dismissal ends with its condition;
`EndedConditionsAreResolved` that what ended is resolved in the journal, once the
queue has run. One Subscription with one item and one Session stand for all. The
hidden panel and `recordHistoryNotification`'s conditions (never resolved) are
left out. The proposals of one entry of Evidence are one operation of the queue in the
code, which awaits them one by one and swallows each rejection by itself; in the model
each is an entry of the queue.

### CommandState

What the Server tells the page of one item's keys (`served`) becomes captures,
which become committed Evidence (`log`), leave a gap (`Refuse`), or reach nobody
(`Missed`: no panel is connected; the history knows nothing of it). The runtime folds
the Evidence into two projections; an entry of a projection names the Evidence it
rests on by its place in the `log`. `Basis`, `Presence`, `Certainty` are what
`readAgentCommandState` answers. In a recovery `projections` are those being built:
the old ones stay for the panel's display, and an agent is refused.

`PresenceIsTrue` has two parts. `KeysAreLastWords` compares an answer with the committed
Evidence, without exception: present or absent is said only when the last word on the key
says so, and no gap lies behind it. `KeysAreTrue` and `FieldsAreTrue` compare the
answers with `served`, which is the page's own truth, but only where the Evidence named is
from the page that is there and from an unbroken connection (`earlier`): of rows from
before a reload, or of a key whose DELETE was missed while the panel was disconnected, the
code says what the Evidence says although it is not so (Observations). `InjectionsStayLocal` relates the two projections.

One item with keys of one field stands for all; a DELETE in another item evicts this
item's tombstone (`DeletedElsewhere`), by count or by bytes. Abstracted: lifecycles and
diagnostics of keys and their limits; null, redacted and unavailable values; item
identities; the paging of rows; an event whose mode nobody has told; the deduplication
of event ids (each entry is applied once, which `EvidencePipeline` shows). Reads are not
restricted to a live Scope, which over-approximates.

## 3. Runs

| Run | Question | Bounds and why they are enough |
|---|---|---|
| `memory_history` | are the queues, receipts, counters, retained tail, gaps and Clear right under every interleaving; does it implement `EvidenceLog`; does every receipt settle, every Clear and Close end | two identities and three sizes (one of them unretainable), 3 captures, 3 intervals; limits small enough for a refusal by size and by pending bytes, a repeated identity, a retention advance by bytes alone (normal tier: 2 candidates, 3 bytes) and by count alone (lower tier: 1 candidate, 2 bytes). The refusal by count needs a budget of no candidate at all, which neither production tier has (100,000 and 25,000); the theorems cover it (162,894 states) |
| `indexeddb_history` | the same for the journal: do memory and journal agree whatever fails, does every state of the journal load, does the coordinator implement `EvidenceLog`; does everything end whatever the journal does | 3 captures and 2 intervals; tiers of 3 and 2 bytes with sizes 1 and 2, so that a batch of two, a durable trim, a fallback with a trim and a fallback after a trim all happen |
| `journal_ownership` | does anybody lose, share or keep a journal it should not; does every startup end; is an orphan erased, a newer schema kept | 2 panels with their own names, an orphan under the name of either, and a newer database, with and without residue and leases of earlier panels (29,502 states) |
| `history_follow` | what a subscriber is told in total | 5 sequences, 2 intervals, chunk size 1: several chunks, with commits, a retention advance and a Clear between any two, and two subscriptions |
| `evidence_pipeline` | once, in order, truthful phase, recovery hidden and ending | 5 sequences, 2 intervals, room for one entry behind a gap, so that the limit is reached; one explicit restart |
| `scenario_runner` | is a Run serial, authorized, truthfully traced and recorded, final when it ended; does what is in motion come to rest | two Steps around one Checkpoint of each kind, with each combination of loads; the smallest reservation of controls a Run is admitted with (its members and two), so that it is used up; a ledger of 4, so that a drift is reviewed and the next one finds it full |
| `injection_bridge` | does an injection take effect at most once, is its record true, does it end, does the panel register again | one execution, two stops of the service worker and one reload: the request of an execution may be posted, forgotten, answered late and overtaken by a registration. What an earlier execution leaves behind for the next one was checked with two executions |
| `server_injection` | is what is sent what was agreed to, are outcomes and receipts true, does every execution end | one message of a person and one of an agent, one edit, one reload or Session change, one break: each withdraws an approval at every point (888,461 states) |
| `topology_sync` | is the topology what the committed Evidence says, is the basis claimed only when restored | two pages, two captures, two entities, one end of the connection, one refused candidate, one Clear, in any order (3,590,186 states) |
| `diagnostic_observations` | can the journal always be opened again, is it final, is its subscriber told of what it misses | two conditions and an occurrence of two contents, where one identity too many is rejected, a third observation evicts, 2 intervals, a crash at every point (267,064 states) |
| `diagnostics` | do the places a condition lives in agree; is what ended resolved | four kinds of Evidence, 3 entries in each of 2 intervals, one recovery, two changes of the bridge, a presentation limit of 2, 2 retained observations and 3 identities, so that each is exceeded (407,534 states) |
| `command_state` | is what an agent is told of a COMMAND key the last word of the Evidence, and so in the page if nothing was missed; do the two projections differ by the injections only | one key of two values, 3 entries of Evidence, one injection, room for one tombstone: a gap, a recovery over a suffix, an eviction, a reload, a disconnection or a Clear between any two of ADD, UPDATE, DELETE and clear-snapshot (1,060,212 states) |

Larger instances, checked beside these with the same properties (safety only
where liveness would take hours): `JournalOwnership` with 3 panels, two of one
session id (657,093 states), and with two panels over four databases (398,749);
`InjectionBridge` with two executions, one stop, one reload (11.5 million);
`ServerInjection` with two agent requests and two breaks (4.3 million);
`TopologySync` with either bound on captures and breaks raised by one (27.3 and
8.7 million); `Diagnostics` with the recovery kinds added, safety only (3.9 million);
`CommandState` with two keys and 2 entries (191,864) and, without injections, with two keys
(2.2 million) or 4 entries (4.5 million).

Deadlock is not checked where the bounds stop the system or where it is closed.

Fairness: weak fairness of the steps that the JavaScript event loop runs without
anybody's help: the queued run of `processPending` and its continuations, the
continuations of Clear and Close, the replay chunks and the restart microtask;
a Scenario's timers; that loads, queries and executions of a Scenario answer;
and that every IndexedDB transaction and request ends one way or the other, which
the code's own timeouts see to. That one of them ever succeeds is not assumed.
In `InjectionBridge` the panel's own steps (its timers, the messages on its port) and the
service worker's receipt of a message are fair: a stopped worker is started again by a
message. Neither the page, the content script nor any answer is. In
`ServerInjection` only the panel's steps are (timers and microtasks); the page may never
answer. In `Diagnostics` the queue of mutations is. `DiagnosticObservations`,
`TopologySync` and `CommandState` have safety properties only. Nothing is assumed of offers, commits,
Clears or callers.

### Observations

Behaviour met while modelling that the models reproduce, that no run asserts
against, and that a maintainer may want to look at.

Event History and its followers:

* After a failed Clear the post-Clear queue is re-joined, but `clearInProgress` is
  reset only in the `finally` callback (`event-history-authoritative.ts:2066`). What is
  offered in between, by an observer or a microtask, goes to the post-Clear queue and
  stays there, and later candidates overtake it
  (`docs/adr/0011-make-one-session-owned-journal-the-evidence-acceptance-boundary.md:17`:
  "re-joins post-cut candidates to that old History Interval in Capture order"). With
  `OfferBeforeCleanup` TRUE TLC finds `CaptureOrder` violated in `MemoryHistory`, and in
  `IndexedDbHistory`, where `clearInProgress` is reset early only if something was queued
  behind the Clear.
* `clear` stores its result after the candidates offered while it was
  pending were queued. One of them may be refused: its gap belongs to the new
  interval, but the next Clear is taken for a repetition ("A successful Clear is
  idempotent only until the next valid Capture attempt"). Both histories do it.
* A replay chunk is cut from the array as it is now and may reach past the end of
  the replay, into what is queued already, so that such Evidence is delivered
  twice (`docs/adr/0007*`, line 25, says once). The pipeline suppresses the
  duplicates (`FollowerIsTruthful`).
* After a failure of the observer, a replay resumes behind the applied boundary,
  while the runtime builds new projections: they lack what came before the
  boundary when they become live (`docs/ARCHITECTURE.md:625`).
* Entries behind a failing one in the same publication may exceed the gap limit and
  report FAILED, and the restart queued before follows nevertheless. A
  retention advance fails a recovery for good, since nobody restarts it.
* When nothing at all is retained, `startCooperativeReplay` accepts any boundary of
  the interval (`retainedRange` is null), the replay has nothing to tell, and the
  follower reports LIVE at a boundary below the committed one; what is committed next
  lies behind a gap. A retention advance by count never empties the history
  (`rollingLowWater` is at least 1), but one by bytes does when the newest entry alone
  is above 90% of the byte budget. With `LowWater = 0` TLC finds
  `FollowerIsTruthful` violated this way; the theorem assumes `LowWater # 0`.

Injections:

* While a Checkpoint loads, Pause and Play schedule another dispatch of it. If
  that finds the target retired the Run ends, but the load goes on, and its answer
  makes the runner wait for the Checkpoint of a Run that has ended
  (`docs/adr/0012*`, line 39). Stop and dispose let go of the load. A Play during the load
  of a stepped Checkpoint may be lost likewise (the load answers with the
  `wasPlaying` of its own dispatch), which no document forbids.
* The request of a Local Injection carries no page epoch, so that one that
  is delivered after a reload may reach the new page's Subscription of the same id
  (`docs/ARCHITECTURE.md:627`, `CONTEXT.md:130`). `RecordIsTrue` therefore speaks of
  what was delivered and not of the page it was delivered in.

Topology:

* `stageSyncFrame` keeps a stage whose complete frame was lost, and refuses every
  later synchronization as "conflicting-stage" until a Clear or a new page
  (`docs/adr/0014*`, line 34, `CONTEXT.md:48`). The projection stays true, but no basis is
  restored any more.
* A late commit of a retired page's capture sets `currentPageEpoch` back, so that an
  old page's checkpoint may restore the basis while the projection shows the newer
  page. After a Clear `offeredTopologyCheckpointSyncIds` and
  `activeTopologyStagingSyncIds` keep what they held. The gap generation is raised
  when a refusal is published, not when it happens. Observations of an earlier
  interval that are staged with an older checkpoint are dropped when a newer
  checkpoint has been applied.

Diagnostics:

* A recovery that replays an ended Subscription journals its condition active and
  resolved once more (`docs/adr/0013-journal-normalized-diagnostic-observations.md:13`).
* The identity of a condition includes what it affects, and the producer keeps
  only the last one per code, so that earlier ones are never resolved
  (`docs/ARCHITECTURE.md:598`).
* A recovery over a retained suffix forgets conditions whose Evidence retention has
  removed; they stay active in the journal.
* Once `MaxIdentities` is reached, the rejection of a runtime's mutation ends the
  runtime's use of the journal for good, Clear included.
* During a recovery the panel still refreshes from the old topology: a condition
  may flip, and a dismissal may outlive its condition until the recovery is live.
  `PanelIsTruthful` therefore speaks of the live phase.

COMMAND state:

* Projections are kept by Subscription id, page ids count anew after a reload, and
  nothing resets the projections when the page changes (`nativeItemBaselines` are,
  `workbench-runtime.ts:3223`). The old page's rows stay until the new Subscription of that
  id says otherwise, and a read may report one as present (`agent/READS.md:210`).
* Captures that are missed while the panel is disconnected leave no gap. When it
  registers again it is told of the rows that are there, not of those that are gone, so
  that a key whose DELETE was missed stays present.
* In the local-effective projection a field that was injected and that a later update of
  the Server does not change shows the Server's value with the injection as its
  provenance (`agent/READS.md:232`); `FieldsAreTrue` speaks of the observed-server
  projection. An injection whose answer is late is ordered behind Server updates that
  listeners got after it.
* The revision of a row read restarts with the projections of a recovery, so that an old
  cursor may match again. A clear-snapshot and the eviction of a tombstone drop
  lifecycles without releasing what they count of the lifecycle limits.

## 4. Proofs

`MemoryHistoryProofs` proves, for all constants that satisfy `BoundsAssumption`
and `LimitsAssumption`:

* `TypeCorrect`: `Spec => []TypeOK`, one lemma per handler.
* `CaptureOrderHolds`: `Spec => []CaptureOrder` if `~OfferBeforeCleanup`. The
  property is not inductive: it does not say that an entry about to be
  queued is later than every queued one, nor that nothing waits
  behind a Clear that is not pending. The invariant `CaptureOrderInv` adds that
  every ordinal in a queue or among the Evidence is below `nextCaptureOrdinal`
  (`AllCaptured`) and that the post-Clear queue is empty when no Clear is pending
  (`NothingBehindTheClear`). Lemmas on sequences (appending to, concatenating and
  cutting ordered sequences) carry the steps.
* `NothingIsLostHolds`: `Spec => []NothingIsLost` if `~OfferBeforeCleanup`. That open
  receipts are the queued ordinals is not inductive: nothing says that a batch taken
  from the front leaves the rest as it was, or that a refusal joins the barrier it is
  next to. `LosslessInv` says that the entries of `inFlight`, `pending` and
  `postClearPending`, one after the other, tile the ordinals from the first undecided
  one to the last captured one, without hole or overlap (`EntriesTile`), that gaps and
  settled receipts lie below (`Decided`), that the counters measure the entries
  (`CountersAgree`), that no identity is retained or in flight twice (`Identities`),
  that what is retained carries the sequence numbers just below the next one
  (`Retention`), and that processing, Clear and Close exclude one another where the
  code relies on it (`StagesAgree`). Each part has its step lemma (`StagesStep`,
  `EntriesStep`, `AgreementStep`, `GapStep`, `TailStep`); below them, one lemma says
  what each operator does to the queues (`OfferEffect` to `RejoinEffect`), and the
  lemmas on tilings say how they are concatenated, split and covered (`TilesConcat`,
  `TilesSplit`, `TilesCover`, `TilesBatch`). Bytes are sums over sequences: `Total` is
  a recursive function, and `Induction` of `HistoryEntriesProofs`, stated over a set of naturals and so first
  order, shows that it exists and unfolds (`TotalIs`, `TotalFacts`), adds up over
  concatenation (`Concat`) and is bounded by its parts (`Parts`).
* `ImplementsEvidenceLogHolds`: `Spec => ImplementsEvidenceLog` if
  `~OfferBeforeCleanup`. By `EntriesTile` the mapped `verdict` is the prefix of
  `receipt` that is decided (`DecidedPrefix`, `VerdictNow`), so that an offer that gets an ordinal
  is a `Capture`, a batch or a settled front entry a `Decide`, a requested Clear a
  `RequestClear`, its end a `CompleteClear` or `FailClear`, the end of closing a
  `Close`, and everything else stutters (`LogStep`). `CutNow` gives the mapped cut:
  the last ordinal before the first entry behind the Clear.

`IndexedDbHistoryProofs` proves, for all constants that satisfy the assumptions of
`HistoryEntries` and `IndexedDbHistory`:

* `TypeCorrect` and `JournalHoldsEvidenceHolds`, whether or not code offers before the
  cleanup of a Clear. Each transaction writes totals that the coordinator computed
  beforehand, from records that it keeps beside the journal, so the property is not
  inductive. `JournalInv` adds that those records measure the durable part, which
  carries the sequence numbers just below the next one (`DurableExact`), and that the
  stages exclude one another (`StagesAgree`): Clear and Close reach the journal only
  when nothing is being processed, and a fallback never returns to the journal. A
  retention transaction deletes keys up to a cutoff (`After`) while the coordinator
  cuts a prefix; `AfterIsCut` shows that these are the same because sequences are
  contiguous, `TailGrows`, `TailIsCut`, `RangeFacts` and `BytesAreCut` that range and
  bytes agree again afterwards (`Reduced` never saturates), and `TailIsLoadable` that
  startup's validation accepts the result. `JournalStep` has one case per kind of step.
  TLC checked `JournalInv` with the bounds of the run (59,056 states) and with
  `OfferBeforeCleanup` (124,313).
* `NothingIsLostHolds`: `Spec => []NothingIsLost` if `~OfferBeforeCleanup`, from
  which `WaitingTiles` and `LosslessIsInOrder` derive capture order too. The invariant
  `LosslessInv` joins `JournalInv` to the parts that `MemoryHistoryProofs` has for its
  coordinator: what is queued tiles the undecided ordinals (`EntriesTile`), what is
  decided lies below (`Decided`), counters measure entries (`CountersAgree`), no
  identity is kept twice (`Identities`), each gap is where it was lost
  (`GapPlacement`). What is new is that a batch is decided in two places: after its
  transaction its entries are Evidence while its bytes stay admitted and its receipts
  open until retention has advanced (`Advanced`, `Released`, `Unsettled`), which a
  failure may interrupt; and that what is retained is in the journal, in memory or
  partly lost (`IsTail`, `RetainedInOrder`, `RetainedExact`). A step of the
  processor therefore either releases its batch or advances behind it (`BatchKinds`),
  and whatever it does to journal and memory leaves a newest part of what
  was retained and what it adds, or of what it adds alone after a fallback
  (`CommitRetains`, `TrimRetains`, `AcceptRetains`, `FallBackRetains`,
  `BatchRetains`). `EntriesStep`, `AgreementStep`, `GapStep`, `TailStep` and
  `ClearStep` carry one part each over every kind of step. TLC checked `LosslessInv`
  with the bounds of the run (59,056 states).
* `ImplementsEvidenceLogHolds`: `Spec => ImplementsEvidenceLog` if
  `~OfferBeforeCleanup`. The mapped `verdict` is the settled prefix of `receipt`
  followed, while a batch is written whose transaction has completed, by that batch's
  ordinals (`LogNow`, `VerdictsNow`): a batch is decided when it is committed, not when
  its offers learn of it. An offer that gets an ordinal is therefore a `Capture`
  (`CaptureRefines`); a settled front barrier (`SettleRefines`), a commit and a
  fallback are a `Decide` (`BatchRefines`, `DecideRefines`) that retains a newest part
  (`BatchNewest`) up to the end of what was accepted (`EndIsNewest`); retention that
  follows is a `Retire` (`RetireRefines`) and the release of receipts stutters. Before
  the cut nothing is decided beyond it (`BeforeTheCut`, `CutNow`). `LogStep` has one
  case per kind of step; `WithinBounds` covers the bounds of the model.

The sums are those of `HistoryEntriesProofs`.

The last part of `IndexedDbHistoryProofs` is about `JournalOwnership`. It proves, for
any panels, names and session ids (`NamesAssumption`): `OwnershipTypeCorrect`,
`RunningKeepsJournalHolds`, `EndedHoldsNothingHolds`, `ErasesOnlyUnusedHolds` and, if no
panel's own name is that of a newer schema's database (session ids are new),
`NewerSchemaKeptHolds`, the safety part of `StartupsSettle`. The
inductive invariant `OwnershipInv` says who holds a lock (`OwnersOwn`: a panel its own
from the grant to the end of its close; `SweepsOthers`: a sweep that of its target,
which is never its own; `LocksAreUsed`: nobody any other) and that a connected panel's
database exists with no deletion pending (`ConnectedKeep`). `SoleConnection` and
`DeletedIsUnused` derive from it that whatever is about to be deleted has no
connection, which every other step rests on; one lemma per action. For the newer
schemas `NewerStay` adds that no deletion, requested or late, is of one of them, and that
a sweep has all of them before it until it ends.

`HistoryFollowProofs` proves, for all chunk sizes, limits and bounds
(`FeedAssumption`, `FollowsAssumption`): `DeliveryIsOrderedHolds` and
`NothingIsMissedHolds`. Both compare publications at any distance in the ledger, while
a step appends a whole run of them, so neither is inductive. `FollowInv` summarises the
ledger (`Reaches`): of what came after the last Clear, exactly `lo..h` was told, and
everything before it lies below. A live follower's `h` is the committed boundary
(`LiveInv`). While a replay runs, `h` is the end of its last chunk, and the queue goes
on where the replay will end: its ranges and Clears join, with no hole or overlap,
from the replay's boundary to the feed's (`Queued`, `Continues`, `ReplayInv`). The chunk
that was cut past the replay's end, and so tells again what the queue tells later, is why
properties and invariant speak of what is new in a publication. Draining the
queue is a recursive function, as is the code's loop; `Induction` (over the naturals,
derived from `NatLessThanWellFounded`) shows that it exists and unfolds
(`DrainUnfolds`), and that it ends at the feed's boundary, within an interval and
across Clears (`DrainsOneInterval`, `DrainsAcrossClears`). `TellsEvidence`, `TellsClear`
and `TellsNothing` say what one publication does to the account; `CommitIsGood`,
`ClearIsGood`, `ChunkIsGood`, `FollowIsGood` and `CutIsGood` follow the operators of the
feed, and `DeliverIsGood` the observer that throws at any of them. TLC checked
`FollowInv` with 4 entries, 3 intervals and 2 follows, with chunks of two (36,429
states) and of one (37,825).

The same module proves `FollowerIsTruthfulHolds` and `RecoveryStaysHidden` of the
pipeline, for all chunk sizes, limits and bounds (`FeedAssumption`,
`PipelineAssumption`) with `LowWater # 0` (see Observations for the case that is left
out). Neither is inductive: they say nothing of a pipeline that recovers, or that
waits for its restart. `PipeInv` adds what the pipeline expects next in each state of
its subscription (`Agrees`): live, the entry behind the committed boundary; replaying,
the entry that the next chunk begins with; replaying an interval that was cleared, only
the Clear (`Outdated`); or it let go of the subscription (`LetGo`). `Sane` is what holds
of it at any time: its fields have their types, what was applied is in order, its
boundary is the last entry applied unless a Clear came since (`Behind`), and an entry
that was tried and may come again is the one it counts the attempts of (`Tried`). What
the feed itself is good for is taken over from `FollowInv` (`Good`).

The proof follows a run of the history outwards: one entry (`EntryTaken`,
`EntryApplied`, `EntryFails`; behind a failure, `StuckStays`), the entries of a
publication (`EvidenceTracked`), each other publication (`StartedTracked`,
`CompletionTracked`, `ClearTracked`, `FailureTracked`), the queue that is drained at the
end of a replay (`DrainTracked`, `FinishTracked`), and each operation of the history
(`CommitTracked`, `ClearRunTracked`, `ChunkTracked`, `FollowTracked`,
`RetentionTracked`). Each of these also keeps what is shown while a recovery is hidden
(`Shows`), which is why `RecoveryIsHidden` comes from the same steps, at any length of a
run. `Hears` splits a run publication by publication, `ObservedAppends` and
`PublicationSteps` unfold the functions. TLC checked `PipeInv`, and that each step keeps
what is shown, with the constants of the run (81,612 states) and with chunks of one,
one retained entry and no gaps.

`TopologyAndDiagnosticsProofs` proves, for all limits, identities, contents and
bounds (`JournalAssumption`, `ObservationsAssumption`): `SoundJournal`
(`Spec => []JournalIsSound`), `RecordedFinal` (`Spec => RecordedIsFinal`) and
`FeedTruthful` (`Spec => []FeedIsTruthful`). The first two are not
inductive for the journal in memory alone: a reopened panel takes over what is
stored, and a settled operation what is pending. The invariant `IInv` says that
`journal`, `stored` and `pending` are each sound and within their limits, that
`stored` equals the journal up to its being closed, or `pending` once that is
written, and that `pending` extends the journal while an operation runs. The
soundness of a single journal is split into named lemmas per operation (an event
committed, a prefix discarded, a Clear) and per conjunct: `RecordsChange`,
`RecordsExtend`, `PersistStep`, and the retained part as a suffix of the records.
For the subscriber, `FeedInv` adds that its interval is one the journal has reached and
that what it got is contiguous up to the journal's boundary, and `AddsOne` that an
operation adds at most one observation to an interval, so that a live publication is the
next one. What a subscription replays is a loop over the records, `Replayed`, whose result
`ReplayedIsContiguous` gives by `Induction`. TLC checked both with the bounds of the run
(267,064 states).

`TopologyAndDiagnosticsProofs` also proves, for all numbers of entities, pages, captures,
ends of the connection, gaps and Clears, both coverages or one, with and without
overtaking (`TopologySyncAssumption`): `ProjectionHolds`
(`TopologySpec => []ProjectionIsTrue`) and `BasisHolds` (`TopologySpec => []BasisIsTrue`).
Neither is inductive: both compare what is shown with the committed Evidence, and a
step applies one entry. A capture applied behind a later one of its page would put an
older state back; that it does not happen depends on what is on its way. `TopologyInv` says that a page's captures come in sequence, in the
history's queue (`QueueInSequence`) and on the wire (`WireInSequence`), after all
observations that the panel has heard of and not forgotten (`Heard`: committed,
waiting in a candidate, or staged); that a synchronization waits or is committed once
and counts as offered (`OfferedOnce`); that every message, entry and stage is about
what its page has captured (`AllWellFormed`); that the projection is on the page that
came last (`OnLatestPage`) and shows, of that page, the latest word of its captures and
of the checkpoint with the accepted cutoff (`Shows`), where the captures behind that
cutoff are still retained for a replay; and that a registered synchronization's
generation is at most the gaps at its begin, and those at most the gaps so far
(`GapsAgree`). `CaptureShows` and `CheckpointShows` follow the projection's two
operators; `BeginDone`, `ChunkDone` and `CompleteDone` the three frames, and a lemma
per action the rest. That entries leave a queue and messages a wire from the middle or
the end is stated by maps between positions (`QueueSelects`, `WireSelects`).
`CommittedTopology` and `BasisIsShown` derive the two properties. TLC checked
`TopologyInv` with the bounds of the run (3,590,186 states).

The last theorem of `TopologyAndDiagnosticsProofs` is `PanelTruthful`
(`DiagnosticsSpec => []PanelIsTruthful`), for all capacities, presentation limits, kinds
of Evidence and bounds (`JournalAssumption`, `DiagnosticsAssumption`). The property
speaks of an empty queue, so it is not inductive: a condition is presented and held at
once and journaled later. `DiagnosticsInv` says it of every state, about the journal
that has met the queue: `Settles` is decided by the last entry that concerns an
identity, and `WillBeActive`, `WillBeKnown` and `WillBeLatest` are its three uses.
`Agreement` relates them to the presentations, to what the projections hold and to the
runtime's conditions, `ItemAgrees` to the condition of the item's snapshot, of which
every queued change takes effect (`AllTakeEffect`); all under `WillHaveRoom`, since a full
journal rejects what the panel shows. Each proposal is one of two steps
(`ObserveRecorded`, `ResolveRecorded`) that keep the agreement; a lemma per rule follows the
fold of Evidence through them (`EvidenceFine`, `ReconcileFine`), `RefreshRecorded` the
runtime's own conditions, `ClearQueued` the Clear. At the queue's other end `HeadExecuted`
says that the head does to the journal what its place in the queue promised (`Meets`),
or that there is no room. `StepKeeps` joins them, one lemma per action. TLC checked
`DiagnosticsInv` with the bounds of the run (407,534 states) and with one entry more in
the queue (614,591).

`CommandStateProofs` proves, for all keys, values, limits and bounds
(`CommandStateAssumption`): `PresenceHolds`, `FieldsHold` and
`InjectionsStayLocalHolds`, each `Spec => []` of the property that the run checks.
`KeysAreLastWords` holds of all Evidence; `KeysAreTrue` and `FieldsAreTrue` have the
proviso that the Evidence named is not from before a reload or a disconnection, which
the code does not keep otherwise. They compare answers with `served`, which no projection refers to; what
connects the two is the Evidence. The invariant `Inv` says of the Evidence that what
it tells of a key after the last gap and the last missed capture, and does not
contradict, is so (`Tells`), and that an UPDATE which changes nothing repeats the value
before it (`KeepsValue`); and of a projection that each row is the last word on its
key with its field's provenance (`RowSound`), that nothing but absence was said since
the basis of an absent key (`AbsenceSound`), and how the two projections differ
(`LocalSound`). `ApplySound` carries the latter over an applied entry, `TellsAppend`
and `KeepsValueAppend` the former over a committed one, and `SoundStays` over lost ones;
one lemma per action, evictions included. TLC checked `Inv` itself with one key and 3
entries (1,060,212 states) and with two keys and 2 entries (191,864).

`ScenarioAndServerProofs` proves of `ServerInjection`, for all numbers of requests, contents, sites and
breaks and any size of the page's registry (`ServerInjectionAssumption`):
`SentAsConsentedHolds` and `AnswersAreTrueHolds`. Consent is given long before the
page sends, so neither is inductive. `Inv` adds that what may still be sent was not
(`FreshAreUnsent`: unused ids, prepared receipts, the document of an agent while it
is edited, the execution that a microtask will start), that an approval and a
submitted evaluation carry what was agreed to (`ApprovalIsConsent`,
`SubmittedIsConsented`), that document, receipts and bridge client are about one
request (`DocumentIsTracked`), and that of what is reported as not sent no
evaluation is under way (`OutcomesAreSettled`): a late one could still send it.
`TypeStep` is type correctness; `KeptByEditing`, `KeptBySending`, `KeptByFailing`
and `KeptByFinishing` each carry the rest over a family of steps, and the lemmas on
persons, agents, pages and the panel show which family a step is of. TLC checked
`Inv` with the bounds of the run (888,461 states).

`InjectionBridgeProofs` proves, for all numbers of executions, stops and reloads
(`BridgeAssumption`): `AtMostOnceHolds` and `RecordIsTrueHolds`. A request is a token
that wanders over queues, sets and the page's evaluation; duplicates of its answer
wander too. `Inv` says that the token is in one place at most (`OnePlace`) and that
while it is anywhere it has had no effect (`LiveIsUnsent`), that what anybody says of
it, in an answer on its way, at the coordinator or in the record, is so and stays so
because the token is gone (`ClaimsAreTrue`), and that a request not executed yet is
untouched (`UnusedIsUntouched`). The steps come in kinds: they keep the token where it
is (`KeptInPlace`), lose it (`KeptByLeaving`), pass it on (`KeptByMoving`) or deliver
it (`KeptByDelivery`); the lemmas on the panel, the background, the content script and
the page say which kind an action is of. TLC checked `Inv` with one execution, two
stops and a reload (259,752 states) and with two executions and a stop (1,664,492).

`ScenarioAndServerProofs` proves of `ScenarioRunner`, for every reviewed Scenario and all limits
(`RunAssumption`) and if `~RetiredDuringLoad`: `RunIsTruthfulHolds`,
`SerialDispatchHolds` and `TerminalIsFinalHolds`. The invariant `Sound` says that the
Trace is a function of where the Run is and of how it ended (`TraceIsExact`), what a
phase means (`PhaseIsTrue`: an execution has phases to itself, what plays is visible),
that loads, watches and the deadline belong to the next member, a Checkpoint
(`ObservesTheNext`: a late load is never that of a Run that is over, which is where the
hypothesis is needed), that an unreviewed drift holds the Run back (`DriftHolds`) and
that two controls fit while anything runs (`ControlsFit`). The lemmas follow the
operators of the runner, from `schedule` to `dispatch`; each action `Fits`. What the
Trace lists of a stopped Run is a recursive function: `Induction`, over the naturals
and derived from `NatLessThanWellFounded`, shows that it exists, unfolds
(`NotRunUnfolds`) and lists the remaining Steps (`NotRunLists`). TLC checked `Sound`
with the bounds of the run (5121 states).

Only model-checked: liveness, which needs ENABLED and is out of the prover's reach:
`EveryOperationEnds` of both histories, `StartupsSettle` but for its safety part,
`ReplayEnds`, `RecoveryEnds`, `RunSettles`, `BridgeSettles`, `ExecutionsEnd` and
`EndedConditionsAreResolved`. Every invariant, action property and refinement that a run
checks is proved.

## 5. Plan

In this order, the most important behaviour first:

1. (done) `EvidenceLog`, `MemoryHistory` and its proofs, `PublicationFeed`,
   `HistoryFollow` and `EvidencePipeline` with their proofs; `IndexedDbHistory` with the proofs of its
   journal, its queues and its refinement; `JournalOwnership` and its proofs;
   `ScenarioRunner` with its proofs; `InjectionBridge` with its proofs;
   `ServerInjection` with its proofs; `TopologySync` and the diagnostics with
   their proofs; `CommandState` with its proofs.
2. Followers of the IndexedDB history (replay by key range across awaits).
3. `TopologyState`: the reducer of clients, Sessions, Subscriptions and items.
4. `AgentBroker`: pairing, routing, timeouts; the runtime's history operations,
   storage headroom and history condition; analytics last.

## 6. Not modelled

Payload contents, formats, rendering, export, performance hooks; the page's
Lightstreamer client itself; IndexedDB's implementation (to be modelled by how
the code uses it). `PROJECT.json` lists every component with its status, and the
hazards of the code with the properties that cover them.
