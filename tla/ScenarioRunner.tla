--------------------------- MODULE ScenarioRunner ---------------------------
(***************************************************************************)
(* The runner of one Local Injection Scenario Run                          *)
(* (src/core/local-injection-scenario-runner.ts): a reviewed sequence of   *)
(* Steps, which inject, and Checkpoints, which wait for committed          *)
(* Evidence, played on timers or stepped by hand.  The developer, the      *)
(* panel's visibility, timers, asynchronous loads and executions           *)
(* interleave with it at every await and every timer.                      *)
(*                                                                         *)
(* The runner's local variables are the fields of "runner".  An operator   *)
(* that depends on what the adapter answers returns the set of runners     *)
(* that may come out.  Time is left out: a Checkpoint's evaluation may     *)
(* find its window still open or over, and a window that is over stays so. *)
(***************************************************************************)
EXTENDS Naturals, Sequences

CONSTANTS
  Members,           \* the kinds of the reviewed members, in order
  LoadsFields,       \* Checkpoints with a local-evidence-field-equals assertion
  LoadsDiagnostics,  \* Checkpoints with a diagnostic-observation-exists assertion
  AdmittedControls,  \* admittedControlRecords
  MaxLedger,         \* SCENARIO_MAX_LEDGER_RECORDS
  RetiredDuringLoad  \* may a dispatch find the target retired during a load?

Steps == {i \in DOMAIN Members : Members[i] = "step"}
Checkpoints == DOMAIN Members \ Steps

\* A temporal Checkpoint asserts that nothing arrived during a window, an
\* eventual one that something holds within one, an instant one has no window.
ASSUME RunAssumption ==
  /\ Members \in Seq({"step", "instant", "eventual", "temporal"}) /\ Steps # {}
  /\ LoadsFields \subseteq Checkpoints /\ LoadsDiagnostics \subseteq Checkpoints
  /\ AdmittedControls \in Nat /\ AdmittedControls >= Len(Members) + 2
  /\ MaxLedger \in Nat \ {0} /\ RetiredDuringLoad \in BOOLEAN

VARIABLE runner

Phases == {"paused", "waiting", "checkpoint-waiting", "in-flight", "pause-pending",
           "stop-pending", "complete", "stopped", "disposed"}

Entry(i, kind) == [member |-> i, kind |-> kind]

\* watches: the Checkpoint evaluations begun for the next member, "reading"
\* when the window is over and the temporal query is pending; the last one's
\* subscription, and those overwritten, deliver publications.  resume: the
\* watch that resumeCheckpoint would resume, which owns the deadline timer.
\* fields, diagnostics: a pending load, with wasPlaying of its dispatch.
RunInit ==
  runner = [phase |-> "paused", pauseReason |-> "USER", visible |-> TRUE,
            status |-> "paused", next |-> 1, trace |-> <<>>,
            controls |-> 0, ledger |-> <<"authorization">>,
            timer |-> "none", manualOverride |-> FALSE, execution |-> "none",
            activeCheckpoint |-> 0, wasPlaying |-> FALSE, resume |-> 0,
            fields |-> "none", diagnostics |-> "none", watches |-> <<>>]
-----------------------------------------------------------------------------
(* The Run: trace, controls, ledger *)

HasNext(r) == r.next <= Len(Members)

NotRunFrom[n \in 1..Len(Members) + 1] ==
  IF n > Len(Members) THEN <<>>
  ELSE (IF n \in Steps THEN <<Entry(n, "not-run")>> ELSE <<>>) \o NotRunFrom[n + 1]

appendControl(r) ==
  IF r.controls < AdmittedControls THEN [r EXCEPT !.controls = @ + 1] ELSE r

\* Mutant: one record more than the ledger holds.
LedgerHasRoom_OffByOne(r) == Len(r.ledger) <= MaxLedger

LedgerHasRoom(r) == Len(r.ledger) < MaxLedger

terminalizeScenarioRun(r) ==
  IF r.status # "paused" THEN r
  ELSE [r EXCEPT !.status = "stopped", !.trace = @ \o NotRunFrom[r.next]]

\* What a settled member leaves: the Run is complete behind the last one.
Advanced(r, kind) ==
  [r EXCEPT !.next = @ + 1, !.trace = Append(@, Entry(r.next, kind)),
            !.status = IF r.next = Len(Members) THEN "complete" ELSE "paused"]

\* Mutant: an undelivered Step is listed as NOT RUN as well.
stepScenarioRun_Repeats(r, outcome) ==
  CASE outcome = "delivered" -> Advanced(r, "attempted")
    [] outcome = "undelivered" ->
         [r EXCEPT !.status = "stopped",
                   !.trace = Append(@, Entry(r.next, "attempted")) \o NotRunFrom[r.next]]
    [] outcome = "not-run" ->
         [r EXCEPT !.status = "stopped", !.trace = @ \o NotRunFrom[r.next]]

\* The outcomes of an execution: an attempt that was delivered goes on, any
\* other ends the Run.
stepScenarioRun(r, outcome) ==
  CASE outcome = "delivered" -> Advanced(r, "attempted")
    [] outcome = "undelivered" ->
         [r EXCEPT !.status = "stopped",
                   !.trace = Append(@, Entry(r.next, "attempted")) \o NotRunFrom[r.next + 1]]
    [] outcome = "not-run" ->
         [r EXCEPT !.status = "stopped", !.trace = @ \o NotRunFrom[r.next]]
-----------------------------------------------------------------------------
(* Scheduling and Checkpoints *)

schedule(r) ==
  IF HasNext(r) THEN [r EXCEPT !.phase = "waiting", !.pauseReason = "none", !.timer = "dispatch"]
  ELSE [r EXCEPT !.phase = "complete", !.status = "complete"]

stopCheckpointObservation(r) ==
  [r EXCEPT !.fields = "none", !.diagnostics = "none", !.timer = "none",
            !.resume = 0, !.watches = <<>>]

stopAfterCheckpoint(r) ==
  [r EXCEPT !.status = "stopped", !.phase = "stopped",
            !.trace = Append(@, Entry(r.next, "checkpoint")) \o NotRunFrom[r.next + 1]]

checkpointFailed(r) ==
  stopAfterCheckpoint([stopCheckpointObservation(r) EXCEPT !.activeCheckpoint = 0])

\* A pass goes on only if it was playing, nobody paused and the panel is visible.
checkpointPassed(r) ==
  LET s == Advanced([stopCheckpointObservation(r) EXCEPT !.activeCheckpoint = 0], "checkpoint")
  IN  IF s.status = "complete" THEN [s EXCEPT !.phase = "complete"]
      ELSE IF s.phase = "paused" THEN s
      ELSE IF ~s.wasPlaying \/ ~s.visible
             THEN [s EXCEPT !.phase = "paused",
                            !.pauseReason = IF s.visible THEN "USER" ELSE "HIDDEN"]
      ELSE schedule(s)

checkpointWaits(r) ==
  [r EXCEPT !.activeCheckpoint = r.next,
            !.phase = IF @ = "paused" THEN @ ELSE "checkpoint-waiting"]

\* What evaluateScenarioCheckpoint may say: while the window is open; when it
\* is over ("due"), where a temporal Checkpoint first needs its query; with
\* the query's answer ("read").  A temporal window is over at the beginning
\* only if loads took that long.
Evaluations(r, moment) ==
  CASE Members[r.next] = "instant" -> {"pass", "fail"}
    [] Members[r.next] = "eventual" ->
         {"pass", "fail"} \union (IF moment = "open" THEN {"waiting"} ELSE {})
    [] Members[r.next] = "temporal" ->
         CASE moment = "open" -> {"waiting", "query", "fail"}
           [] moment = "begun" ->
                {"fail"} \union (IF r.next \in LoadsFields \union LoadsDiagnostics
                                   THEN {"query"} ELSE {})
           [] moment = "due" -> {"query"}
           [] moment = "read" -> {"pass", "fail"}

evaluate(r, w, moment) ==
  LET when == IF moment = "open" /\ r.watches[w] = "reading" THEN "due" ELSE moment
      After(e) == CASE e = "pass" -> checkpointPassed(r)
                    [] e = "fail" -> checkpointFailed(r)
                    [] e = "waiting" -> checkpointWaits(r)
                    [] e = "query" -> [r EXCEPT !.watches[w] = "reading"]
  IN  IF r.phase \in {"disposed", "stopped"} THEN {r}
      ELSE {After(e) : e \in Evaluations(r, when)}

scheduleCheckpointDeadline(r) == [r EXCEPT !.timer = "deadline"]

beginCheckpoint(r, playing) ==
  LET s == [r EXCEPT !.wasPlaying = playing, !.watches = Append(@, "open")]
      w == Len(s.watches)
      opened == [s EXCEPT !.activeCheckpoint = r.next, !.resume = w]
      keepsPause == r.phase = "paused" /\ r.activeCheckpoint = r.next
      waits == IF keepsPause \/ ~r.visible THEN opened
               ELSE scheduleCheckpointDeadline([opened EXCEPT !.phase = "checkpoint-waiting"])
  IN  evaluate(s, w, "begun") \union (IF Members[r.next] = "instant" THEN {} ELSE {waits})

dispatchLoadedCheckpoint(r, playing) ==
  IF r.next \notin LoadsDiagnostics THEN beginCheckpoint(r, playing)
  ELSE {[r EXCEPT !.phase = IF @ = "paused" /\ r.activeCheckpoint = r.next
                              THEN @ ELSE "checkpoint-waiting",
                  !.wasPlaying = TRUE, !.activeCheckpoint = r.next,
                  !.diagnostics = IF playing THEN "playing" ELSE "stepped"]}

dispatchCheckpoint(r) ==
  LET playing == r.phase = "waiting"
  IN  IF r.next \notin LoadsFields THEN dispatchLoadedCheckpoint(r, playing)
      ELSE {[r EXCEPT !.phase = "checkpoint-waiting", !.activeCheckpoint = r.next,
                      !.fields = IF playing THEN "playing" ELSE "stepped"]}

\* Mutant: a resumed Checkpoint gets no deadline timer.
resumeCheckpoint_NoDeadline(r) ==
  evaluate([r EXCEPT !.wasPlaying = TRUE, !.phase = "checkpoint-waiting"], r.resume, "open")

resumeCheckpoint(r) ==
  LET s == [r EXCEPT !.wasPlaying = TRUE, !.phase = "checkpoint-waiting"]
  IN  {IF t.watches = <<>> \/ t.phase # "checkpoint-waiting" THEN t
       ELSE scheduleCheckpointDeadline(t) : t \in evaluate(s, r.resume, "open")}
-----------------------------------------------------------------------------
(* Dispatch and settlement *)

TargetRetired(r) ==
  [terminalizeScenarioRun([r EXCEPT !.manualOverride = FALSE])
     EXCEPT !.phase = "stopped", !.pauseReason = "none"]

\* A drift that the ledger cannot retain, for its count or its size, ends the Run.
Drifted(r) ==
  LET s == [r EXCEPT !.manualOverride = FALSE, !.phase = "paused",
                     !.pauseReason = "DRIFT_REVIEW_REQUIRED"]
      stopped == [terminalizeScenarioRun(s) EXCEPT !.phase = "stopped", !.pauseReason = "none"]
      retained == appendControl([s EXCEPT !.ledger = Append(@, "drift")])
  IN  {stopped} \union (IF LedgerHasRoom(r) THEN {retained} ELSE {})

\* beforeDispatch may answer that the target is retired, for a Step that it
\* drifted, or allow the dispatch.
dispatch(r) ==
  LET loading == r.fields # "none" \/ r.diagnostics # "none"
      retired == IF loading /\ ~RetiredDuringLoad THEN {} ELSE {TargetRetired(r)}
  IN  retired \union
        IF r.next \in Steps
          THEN {[r EXCEPT !.phase = "in-flight", !.execution = "running"]} \union Drifted(r)
          ELSE dispatchCheckpoint([r EXCEPT !.manualOverride = FALSE])

Paused(r, reason) == [r EXCEPT !.phase = "paused", !.pauseReason = reason]

\* The settlement of an execution, after afterSettlement answered whether to
\* continue; it reports no drift before a Checkpoint.
settle(r, continue) ==
  LET s == [r EXCEPT !.manualOverride = FALSE, !.execution = "none"]
  IN  IF s.status # "paused" THEN {[s EXCEPT !.phase = s.status]}
      ELSE IF s.phase = "stop-pending"
             THEN {[terminalizeScenarioRun(s) EXCEPT !.phase = "stopped"]}
      ELSE IF s.phase = "pause-pending" THEN {[s EXCEPT !.phase = "paused"]}
      ELSE IF ~continue THEN
             \* the PAUSE is recorded even if the Run stopped
             {IF t.phase = "stopped" THEN appendControl(t) ELSE t : t \in Drifted(s)}
      ELSE IF r.manualOverride THEN {Paused(s, "USER")}
      ELSE {schedule(s)}

clearScheduledTimer(r) == [r EXCEPT !.timer = "none"]

\* Mutant: loads and watches survive Stop.
stop_KeepsLoads(r) ==
  IF r.phase \in {"waiting", "checkpoint-waiting", "paused"}
    THEN [terminalizeScenarioRun(appendControl(clearScheduledTimer(r)))
            EXCEPT !.activeCheckpoint = 0, !.phase = "stopped"]
  ELSE IF r.phase \in {"in-flight", "pause-pending"}
    THEN appendControl([r EXCEPT !.phase = "stop-pending"])
  ELSE r

stop(r) ==
  IF r.phase \in {"waiting", "checkpoint-waiting", "paused"}
    THEN [terminalizeScenarioRun(appendControl(stopCheckpointObservation(r)))
            EXCEPT !.activeCheckpoint = 0, !.phase = "stopped"]
  ELSE IF r.phase \in {"in-flight", "pause-pending"}
    THEN appendControl([r EXCEPT !.phase = "stop-pending"])
  ELSE r

\* pause, and the auto-pause of a hidden panel: at once, or when the execution
\* in flight has settled.  Loads and subscriptions go on.
Pausing(r, reason) ==
  appendControl(IF r.phase = "in-flight" THEN [r EXCEPT !.phase = "pause-pending", !.pauseReason = reason]
                ELSE Paused(clearScheduledTimer(r), reason))

\* Mutant: a drift that awaits review does not hold the Run back.
MayStart_AfterDrift(r) == r.phase = "paused" /\ r.visible /\ r.status = "paused"

MayStart(r) ==
  /\ r.phase = "paused" /\ r.visible /\ r.status = "paused"
  /\ r.pauseReason # "DRIFT_REVIEW_REQUIRED"

\* Mutant: room is kept for one record instead of two.
HasControlRoom_OffByOne(r) == r.controls < AdmittedControls - 1

HasControlRoom(r) == r.controls < AdmittedControls - 2
-----------------------------------------------------------------------------
(* Timers and answers *)

DispatchDue ==
  /\ runner.timer = "dispatch" /\ runner.phase = "waiting"
  /\ runner' \in dispatch([runner EXCEPT !.timer = "none"])

DeadlineDue ==
  /\ runner.timer = "deadline"
  /\ runner' \in evaluate([runner EXCEPT !.timer = "none"], runner.resume, "due")

FieldsLoaded ==
  /\ runner.fields # "none"
  /\ runner' \in dispatchLoadedCheckpoint([runner EXCEPT !.fields = "none"],
                                          runner.fields = "playing")

DiagnosticsLoaded ==
  /\ runner.diagnostics # "none"
  /\ runner' \in beginCheckpoint([runner EXCEPT !.diagnostics = "none"],
                                 runner.diagnostics = "playing")

TemporalRead ==
  \E w \in DOMAIN runner.watches :
    /\ runner.watches[w] = "reading"
    /\ runner' \in evaluate(runner, w, "read")

\* The committed boundary or a Diagnostic Observation moved.
Publication ==
  \E w \in DOMAIN runner.watches : runner' \in evaluate(runner, w, "open")

Executed ==
  /\ runner.execution = "running"
  /\ \E outcome \in {"delivered", "undelivered", "not-run"} :
       runner' = [stepScenarioRun(runner, outcome) EXCEPT !.execution = "settling"]

Settled ==
  /\ runner.execution = "settling"
  /\ \E continue \in BOOLEAN :
       /\ HasNext(runner) /\ runner.next \in Checkpoints => continue
       /\ runner' \in settle(runner, continue)
-----------------------------------------------------------------------------
(* The developer and the panel *)

Play ==
  /\ MayStart(runner) /\ HasControlRoom(runner)
  /\ LET r == appendControl(runner)
     IN  IF r.activeCheckpoint # 0 /\ r.resume # 0 THEN runner' \in resumeCheckpoint(r)
         ELSE runner' = schedule(r)

Pause ==
  /\ runner.phase \in {"waiting", "checkpoint-waiting", "in-flight"}
  /\ runner' = Pausing(runner, "USER")

StepNext ==
  /\ MayStart(runner) /\ HasControlRoom(runner)
  /\ HasNext(runner) /\ runner.activeCheckpoint = 0
  /\ runner' \in dispatch([appendControl(runner) EXCEPT !.manualOverride = TRUE])

Stop ==
  /\ runner.phase \in {"waiting", "checkpoint-waiting", "paused", "in-flight", "pause-pending"}
  /\ runner' = stop(runner)

SetVisible ==
  LET r == [runner EXCEPT !.visible = ~@]
  IN  runner' = IF runner.visible /\ r.phase \in {"waiting", "checkpoint-waiting", "in-flight"}
                  THEN Pausing(r, "HIDDEN") ELSE r

\* An authorization that the ledger cannot retain stops the Run.
ReReview ==
  /\ runner.phase = "paused" /\ runner.pauseReason = "DRIFT_REVIEW_REQUIRED"
  /\ runner.status = "paused"
  /\ \/ runner' = stop(runner)
     \/ /\ LedgerHasRoom(runner)
        /\ runner' = [runner EXCEPT !.ledger = Append(@, "authorization"), !.pauseReason = "USER"]

\* What is pending afterwards finds its generation gone.
Dispose ==
  /\ runner.phase # "disposed"
  /\ runner' = [stopCheckpointObservation(runner) EXCEPT
                  !.activeCheckpoint = 0, !.phase = "disposed", !.execution = "none"]

Asynchronous == \/ DispatchDue \/ DeadlineDue \/ FieldsLoaded \/ DiagnosticsLoaded
                \/ TemporalRead \/ Executed \/ Settled

RunNext == \/ Asynchronous \/ Publication
        \/ Play \/ Pause \/ StepNext \/ Stop \/ SetVisible \/ ReReview \/ Dispose

RunSpec == RunInit /\ [][RunNext]_runner

\* Timers fire, and loads, queries and executions answer.
Fairness ==
  /\ WF_runner(DispatchDue) /\ WF_runner(DeadlineDue)
  /\ WF_runner(FieldsLoaded) /\ WF_runner(DiagnosticsLoaded)
  /\ WF_runner(TemporalRead) /\ WF_runner(Executed) /\ WF_runner(Settled)

FairRunSpec == RunSpec /\ Fairness
-----------------------------------------------------------------------------
(* Properties *)

\* The runner's state; the ledger and the controls stay within what the Run's
\* admission reserved for them.
RunTypeOK ==
  /\ runner.phase \in Phases /\ runner.status \in {"paused", "complete", "stopped"}
  /\ runner.pauseReason \in {"none", "USER", "HIDDEN", "DRIFT_REVIEW_REQUIRED"}
  /\ runner.visible \in BOOLEAN /\ runner.wasPlaying \in BOOLEAN
  /\ runner.manualOverride \in BOOLEAN
  /\ runner.next \in 1..Len(Members) + 1
  /\ runner.activeCheckpoint \in {0, runner.next}
  /\ runner.trace \in Seq([member : DOMAIN Members, kind : {"attempted", "not-run", "checkpoint"}])
  /\ runner.controls \in 0..AdmittedControls
  /\ runner.ledger \in Seq({"authorization", "drift"}) /\ Len(runner.ledger) <= MaxLedger
  /\ runner.timer \in {"none", "dispatch", "deadline"}
  /\ runner.execution \in {"none", "running", "settling"}
  /\ {runner.fields, runner.diagnostics} \subseteq {"none", "playing", "stepped"}
  /\ runner.watches \in Seq({"open", "reading"})
  /\ runner.resume \in 0..Len(runner.watches)

Settlement(e) == e.kind # "not-run"

\* Injections are serial and authorized: a Step is dispatched only when none
\* is in flight, every member before it was settled, it was not attempted
\* itself, the panel is visible, and the last drift was re-reviewed; whatever
\* timers, loads, pauses and visibility did before.
SerialDispatch ==
  [][runner'.execution = "running" /\ runner.execution # "running" =>
       /\ runner.execution = "none" /\ runner.visible /\ runner.status = "paused"
       /\ runner.ledger[Len(runner.ledger)] = "authorization"
       /\ Len(runner.trace) = runner.next - 1
       /\ \A k \in DOMAIN runner.trace : runner.trace[k].member = k /\ Settlement(runner.trace[k])
    ]_runner

\* The Trace accounts for every member once and in order: what was settled
\* before the Run ended, and NOT RUN for each remaining Step.
TruthfulTrace ==
  LET members == [k \in DOMAIN runner.trace |-> runner.trace[k].member]
      traced == {members[k] : k \in DOMAIN members}
      settled == {members[k] : k \in {j \in DOMAIN members : Settlement(runner.trace[j])}}
  IN  /\ \A j, k \in DOMAIN members : j < k => members[j] < members[k]
      /\ 1..runner.next - 1 \subseteq settled /\ settled \subseteq 1..runner.next
      /\ runner.status = "paused" => traced = 1..runner.next - 1
      /\ runner.status = "complete" => settled = DOMAIN Members
      /\ runner.status = "stopped" => Steps \subseteq traced
      /\ runner.phase \in {"complete", "stopped"} => runner.status = runner.phase

\* While anything runs there is room to record a pause and a stop behind it,
\* and while it pauses, to record the stop: no control is ever lost, although
\* appendControl may refuse.
ControlsAreRecorded ==
  /\ runner.phase \in {"waiting", "checkpoint-waiting", "in-flight"} =>
       runner.controls <= AdmittedControls - 2
  /\ runner.phase \in {"paused", "pause-pending"} => runner.controls < AdmittedControls

\* The record of a Run accounts for every member and for every control.
RunIsTruthful == RunTypeOK /\ TruthfulTrace /\ ControlsAreRecorded

\* A Run that stopped or is complete stays as it is, whatever answers late: no
\* phase but disposed follows, and its Trace is final.
TerminalIsFinal ==
  [][runner.phase \in {"stopped", "complete"} =>
       /\ runner'.phase \in {runner.phase, "disposed"}
       /\ runner'.trace = runner.trace /\ runner'.status = runner.status]_runner

\* What is in motion comes to rest: a Checkpoint is never left waiting without
\* a deadline, a query or a load to end it, and a pause or a stop that waits
\* for an execution takes effect.
RunSettles ==
  runner.phase \in {"waiting", "checkpoint-waiting", "in-flight", "pause-pending", "stop-pending"}
    ~> runner.phase \in {"paused", "complete", "stopped", "disposed"}
=============================================================================
