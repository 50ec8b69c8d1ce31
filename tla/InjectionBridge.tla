-------------------------- MODULE InjectionBridge --------------------------
(***************************************************************************)
(* One Local Injection from the panel to the page and back: the Draft of   *)
(* the runtime, the execution coordinator, the panel's bridge client, the  *)
(* background service worker, the content script and the page's            *)
(* instrumentation.                                                        *)
(*                                                                         *)
(* The bridge client evaluates the injection in the inspected page; where  *)
(* the page has no compatible bridge it posts a request, which the         *)
(* background passes to the content script and that to the page.  Timers,  *)
(* a service worker that stops, a content script that is retired, a page   *)
(* that reloads and lost answers interleave with it.  Drafts are executed  *)
(* one at a time, but what an earlier execution left in flight meets the   *)
(* next one.                                                               *)
(***************************************************************************)
EXTENDS Naturals, Sequences

CONSTANTS
  MaxExecutions,   \* Local Injections executed by the panel
  MaxStops,        \* stops of the service worker
  MaxReloads       \* reloads of the inspected page

ASSUME BridgeAssumption ==
  MaxExecutions \in Nat \ {0} /\ MaxStops \in Nat /\ MaxReloads \in Nat

Requests == 1 .. MaxExecutions

\* Results of a request.  "partial" is a listener-error with a listener that
\* took the update, "listener-error" one where all of them threw; a wire-error
\* is reported like a bridge-error.
Results == {"success", "partial", "listener-error", "stale-target",
            "bridge-error", "acknowledgement-unknown"}

\* What a request does to the listeners it reaches: all, some or none of them
\* take the update; and in which page.
Effects == [took : {"all", "some", "none"}, page : 0 .. MaxReloads]

VARIABLES
  draft, execution,                  \* the runtime's Draft, the last execution
  currentPage, anchor,               \* the page the panel knows, the Draft's page
  stage, record,                     \* the coordinator, per execution
  port, cut, disposed, status, reconnecting,      \* bridge client: has it a port, ...
  toBackground, toPanel,             \* the port's two directions
  registered, pendingReinjections, stops,         \* the background's memory
  toContent, toService,              \* tabs.sendMessage, runtime.sendMessage
  active, pendingPageRequests,       \* the content script
  toPage, pageAnswers,               \* window messages and message ports
  evaluation, effects, pageBridge, listening, reloads         \* the page

pageKnowledge == <<currentPage, anchor>>
panelVars == <<draft, execution, stage, record>>
clientVars == <<port, cut, disposed, status, reconnecting>>
channelVars == <<toBackground, toPanel>>
backgroundVars == <<registered, pendingReinjections, stops>>
contentVars == <<active, pendingPageRequests, toPage>>
pageVars == <<effects, pageBridge, listening, reloads>>
vars == <<panelVars, pageKnowledge, clientVars, channelVars, backgroundVars, toContent, toService,
          contentVars, pageAnswers, evaluation, pageVars>>

Answer(r, result) == [request |-> r, result |-> result]
Answers == [request : Requests, result : Results]

\* Messages on the panel's port.
Register == [type |-> "register", request |-> 0]
Request(r) == [type |-> "request", request |-> r]
Closed == [type |-> "closed", request |-> 0]
Connected == [type |-> "connected", answer |-> Answer(0, "none")]
Result(answer) == [type |-> "result", answer |-> answer]
Disconnect == [type |-> "disconnect", answer |-> Answer(0, "none")]

NoRecord == [disposition |-> "none", evidence |-> "none"]

Init ==
  /\ draft = "none" /\ execution = 0 /\ currentPage = 0 /\ anchor = 0
  /\ stage = [r \in Requests |-> "idle"] /\ record = [r \in Requests |-> NoRecord]
  /\ port = TRUE /\ cut = FALSE /\ disposed = FALSE /\ status = "none" /\ reconnecting = FALSE
  /\ toBackground = <<Register>> /\ toPanel = <<>>
  /\ registered = FALSE /\ pendingReinjections = {} /\ stops = 0
  /\ toContent = {} /\ toService = {}
  /\ active \in BOOLEAN /\ pendingPageRequests = {} /\ toPage = {} /\ pageAnswers = {}
  /\ evaluation = [r \in Requests |-> "none"] /\ effects = [r \in Requests |-> <<>>]
  /\ pageBridge \in BOOLEAN /\ listening = TRUE /\ reloads = 0
-----------------------------------------------------------------------------
(* The coordinator *)

\* confirmsFullDelivery and outcomeFromResult.
outcomeFromResult(result) ==
  CASE result = "success" -> "delivered"
    [] result = "stale-target" -> "blocked"
    [] result = "acknowledgement-unknown" -> "acknowledgement-unknown"
    [] result = "partial" -> "partial"
    [] OTHER -> "failed"

\* The promises of requests rs resolve: their executions end, or go on with the
\* admission of the synthetic Evidence if the panel still accepts it.
Settled(rs, result, gone) ==
  LET admits == outcomeFromResult(result) = "delivered" /\ ~gone
      evidence == IF outcomeFromResult(result) = "delivered" THEN "delivered-unretained" ELSE "not-created"
  IN /\ stage' = [r \in Requests |->
                   IF r \notin rs THEN stage[r] ELSE IF admits THEN "admitting" ELSE "settled"]
     /\ record' = [r \in Requests |->
                   IF r \notin rs \/ admits THEN record[r]
                   ELSE [disposition |-> outcomeFromResult(result), evidence |-> evidence]]
     /\ draft' = IF execution \in rs /\ draft = "pending" /\ ~admits /\ ~gone THEN "outcome" ELSE draft
     /\ UNCHANGED execution
-----------------------------------------------------------------------------
(* The Draft *)

enterLocalInjection ==
  /\ ~disposed /\ draft = "none" /\ execution < MaxExecutions
  /\ draft' = "edit" /\ anchor' = currentPage
  /\ UNCHANGED <<execution, stage, record, currentPage, clientVars, channelVars, backgroundVars, toContent,
                 toService, contentVars, pageAnswers, evaluation, pageVars>>

\* confirmDiscardLocalInjection, finishLocalInjection: not while it is pending.
finishLocalInjection ==
  /\ ~disposed /\ draft \in {"edit", "outcome"}
  /\ draft' = "none"
  /\ UNCHANGED <<execution, stage, record, pageKnowledge, clientVars, channelVars, backgroundVars,
                 toContent, toService, contentVars, pageAnswers, evaluation, pageVars>>

\* reinjectThroughRuntime: a port that is closed throws, one whose other end is
\* gone loses the message.
reinjectThroughRuntime(r) ==
  IF ~port \/ disposed
  THEN /\ Settled({r}, "bridge-error", disposed)
       /\ UNCHANGED toBackground
  ELSE /\ stage' = [stage EXCEPT ![r] = "posted"]
       /\ toBackground' = IF cut THEN toBackground ELSE Append(toBackground, Request(r))
       /\ UNCHANGED <<draft, execution, record>>

\* executeLocalInjection up to the request, with the review of a Draft that is
\* still edited (both phases are "edit").  An invalid review leaves the Draft as
\* it is.  The target may be stale (it is when the panel knows of another page)
\* or the review refused, the Draft not serialize, the evaluation not start.  A
\* browser without inspectedWindow.eval takes the runtime path at once.
executeLocalInjection ==
  /\ ~disposed /\ draft = "edit" /\ execution < MaxExecutions
  /\ LET r == execution + 1 IN
     \/ /\ \E problem \in {"stale-target"} \cup (IF anchor = currentPage THEN {"bridge-error"} ELSE {}) :
             record' = [record EXCEPT ![r] = [disposition |-> outcomeFromResult(problem),
                                              evidence |-> "not-created"]]
        /\ execution' = r /\ draft' = "outcome" /\ stage' = [stage EXCEPT ![r] = "settled"]
        /\ UNCHANGED <<evaluation, toBackground>>
     \/ /\ anchor = currentPage /\ port
        /\ execution' = r /\ draft' = "pending"
        /\ \/ /\ stage' = [stage EXCEPT ![r] = "evaluating"]
              /\ evaluation' = [evaluation EXCEPT ![r] = "submitted"]
              /\ UNCHANGED toBackground
           \/ /\ stage' = [stage EXCEPT ![r] = "posted"]
              /\ toBackground' = IF cut THEN toBackground ELSE Append(toBackground, Request(r))
              /\ UNCHANGED evaluation
        /\ UNCHANGED record
  /\ UNCHANGED <<pageKnowledge, clientVars, toPanel, backgroundVars, toContent, toService,
                 contentVars, pageAnswers, pageVars>>

\* The history settles the synthetic Evidence.
admitEvidence(r) ==
  /\ stage[r] = "admitting"
  /\ \E evidence \in {"committed", "delivered-unretained"} :
       /\ record' = [record EXCEPT ![r] = [disposition |-> "delivered", evidence |-> evidence]]
       /\ stage' = [stage EXCEPT ![r] = IF evidence = "committed" THEN "identifying" ELSE "settled"]
       /\ draft' = IF evidence # "committed" /\ ~disposed /\ draft = "pending" /\ execution = r
                   THEN "outcome" ELSE draft
  /\ UNCHANGED <<execution, pageKnowledge, clientVars, channelVars, backgroundVars, toContent,
                 toService, contentVars, pageAnswers, evaluation, pageVars>>

\* Mutant: Evidence that is no longer retained leaves the Draft pending.
setLocalInjectionOutcome_NeedsIdentity(r) ==
  /\ stage[r] = "identifying"
  /\ stage' = [stage EXCEPT ![r] = "settled"]
  /\ draft' \in {draft, IF ~disposed /\ draft = "pending" /\ execution = r THEN "outcome" ELSE draft}
  /\ UNCHANGED <<execution, record, pageKnowledge, clientVars, channelVars, backgroundVars,
                 toContent, toService, contentVars, pageAnswers, evaluation, pageVars>>

\* onTerminal has awaited resolveIdentity.
setLocalInjectionOutcome(r) ==
  /\ stage[r] = "identifying"
  /\ stage' = [stage EXCEPT ![r] = "settled"]
  /\ draft' = IF ~disposed /\ draft = "pending" /\ execution = r THEN "outcome" ELSE draft
  /\ UNCHANGED <<execution, record, pageKnowledge, clientVars, channelVars, backgroundVars,
                 toContent, toService, contentVars, pageAnswers, evaluation, pageVars>>
-----------------------------------------------------------------------------
(* The page: what a delivery does, and the evaluation *)

\* reinjectDraft: the update is handed to every current listener of the
\* Subscription, or dispatched on its captured socket.
deliver(r) ==
  LET Took(who) == Append(effects[r], [took |-> who, page |-> reloads]) IN
  IF listening
  THEN {[result |-> "success", effects |-> Took("all")],
        [result |-> "partial", effects |-> Took("some")],
        [result |-> "listener-error", effects |-> Took("none")],
        [result |-> "bridge-error", effects |-> effects[r]]}
  ELSE {[result |-> "stale-target", effects |-> effects[r]]}

\* The expression runs in the page.  An exception, or a result the panel cannot
\* accept as valid, hides what it did.
pageEvaluates(r) ==
  /\ evaluation[r] = "submitted"
  /\ \/ evaluation' = [evaluation EXCEPT ![r] = "unavailable"] /\ ~pageBridge /\ UNCHANGED effects
     \/ evaluation' = [evaluation EXCEPT ![r] = "exception"] /\ UNCHANGED effects
     \/ /\ pageBridge
        /\ \E d \in deliver(r), valid \in BOOLEAN :
             /\ effects' = [effects EXCEPT ![r] = d.effects]
             /\ evaluation' = [evaluation EXCEPT ![r] = IF valid THEN d.result ELSE "exception"]
  /\ UNCHANGED <<panelVars, pageKnowledge, clientVars, channelVars, backgroundVars, toContent,
                 toService, contentVars, pageAnswers, pageBridge, listening, reloads>>

\* The callback of inspectedWindow.eval, which finds the request settled or not.
evaluationReturns(r) ==
  /\ evaluation[r] \notin {"none", "submitted"}
  /\ evaluation' = [evaluation EXCEPT ![r] = "none"]
  /\ \/ stage[r] # "evaluating" /\ UNCHANGED <<panelVars, toBackground>>
     \/ /\ stage[r] = "evaluating"
        /\ CASE evaluation[r] = "unavailable" -> reinjectThroughRuntime(r)
             [] evaluation[r] = "exception" ->
                  Settled({r}, "acknowledgement-unknown", disposed) /\ UNCHANGED toBackground
             [] OTHER -> Settled({r}, evaluation[r], disposed) /\ UNCHANGED toBackground
  /\ UNCHANGED <<pageKnowledge, clientVars, toPanel, backgroundVars, toContent, toService,
                 contentVars, pageAnswers, pageVars>>

\* Mutant: an evaluation that does not answer is tried again through the runtime.
evaluationTimesOut_FallsBack(r) ==
  /\ stage[r] = "evaluating"
  /\ reinjectThroughRuntime(r)
  /\ UNCHANGED <<pageKnowledge, clientVars, toPanel, backgroundVars, toContent, toService,
                 contentVars, pageAnswers, evaluation, pageVars>>

\* INSPECTED_PAGE_EVAL_TIMEOUT_MS.
evaluationTimesOut(r) ==
  /\ stage[r] = "evaluating"
  /\ Settled({r}, "acknowledgement-unknown", disposed)
  /\ UNCHANGED <<pageKnowledge, clientVars, channelVars, backgroundVars, toContent, toService,
                 contentVars, pageAnswers, evaluation, pageVars>>

\* The Subscription loses its listeners, the wire connection closes.
TargetRetires ==
  /\ listening /\ listening' = FALSE
  /\ UNCHANGED <<panelVars, pageKnowledge, clientVars, channelVars, backgroundVars, toContent,
                 toService, contentVars, pageAnswers, evaluation, effects, pageBridge, reloads>>

\* The page goes away with its content script.  The new one has Subscriptions of
\* its own, whose ids are allocated from one again, and may or may not have the
\* bridge.
PageReloads ==
  /\ reloads < MaxReloads /\ reloads' = reloads + 1
  /\ listening' \in BOOLEAN /\ pageBridge' \in BOOLEAN /\ active' \in BOOLEAN
  /\ pendingPageRequests' = {} /\ toPage' = {} /\ pageAnswers' = {}
  /\ evaluation' = [r \in Requests |-> IF evaluation[r] = "submitted" THEN "exception" ELSE evaluation[r]]
  /\ UNCHANGED <<panelVars, pageKnowledge, clientVars, channelVars, backgroundVars, toContent,
                 toService, effects>>

\* Mutant: each capture counts as a new page.
setPageEpoch_EachCapture ==
  /\ ~disposed
  /\ currentPage' = currentPage + 1
  /\ UNCHANGED <<panelVars, anchor, clientVars, channelVars, backgroundVars, toContent, toService,
                 contentVars, pageAnswers, evaluation, pageVars>>

\* A capture of the new page reaches the panel.
setPageEpoch ==
  /\ currentPage < reloads /\ ~disposed
  /\ currentPage' = reloads
  /\ UNCHANGED <<panelVars, anchor, clientVars, channelVars, backgroundVars, toContent, toService,
                 contentVars, pageAnswers, evaluation, pageVars>>
-----------------------------------------------------------------------------
(* The panel's port *)

\* Mutant: a request that was not answered is reported as failed.
reinjectionTimesOut_Failed(r) ==
  /\ stage[r] = "posted"
  /\ Settled({r}, "bridge-error", disposed)
  /\ UNCHANGED <<pageKnowledge, clientVars, channelVars, backgroundVars, toContent, toService,
                 contentVars, pageAnswers, evaluation, pageVars>>

\* REINJECT_TIMEOUT_MS.
reinjectionTimesOut(r) ==
  /\ stage[r] = "posted"
  /\ Settled({r}, "acknowledgement-unknown", disposed)
  /\ UNCHANGED <<pageKnowledge, clientVars, channelVars, backgroundVars, toContent, toService,
                 contentVars, pageAnswers, evaluation, pageVars>>

\* resolvePendingWithAcknowledgementUnknown.
resolvePending(gone) ==
  Settled({r \in Requests : stage[r] = "posted"}, "acknowledgement-unknown", gone)

\* The panel is closed: dispose of the runtime, disconnect of the bridge.
disconnect ==
  /\ ~disposed /\ disposed' = TRUE
  /\ reconnecting' = FALSE
  /\ resolvePending(TRUE)
  /\ toBackground' = IF ~port \/ cut THEN toBackground ELSE Append(toBackground, Closed)
  /\ UNCHANGED <<pageKnowledge, port, cut, status, toPanel, backgroundVars, toContent, toService,
                 contentVars, pageAnswers, evaluation, pageVars>>

\* The panel reads its port: a status, a result it still waits for or not, or
\* the end of the port.
panelReceives ==
  /\ toPanel # <<>> /\ ~disposed
  /\ toPanel' = Tail(toPanel)
  /\ LET message == Head(toPanel) IN
     CASE message.type = "connected" ->
            status' = "connected" /\ UNCHANGED <<panelVars, port, reconnecting, cut>>
       [] message.type = "result" ->
            /\ IF stage[message.answer.request] = "posted"
               THEN Settled({message.answer.request}, message.answer.result, FALSE)
               ELSE UNCHANGED panelVars
            /\ UNCHANGED <<port, status, reconnecting, cut>>
       [] OTHER ->
            /\ port' = FALSE /\ status' = "disconnected" /\ reconnecting' = TRUE
            /\ resolvePending(FALSE)
            /\ UNCHANGED cut
  /\ UNCHANGED <<disposed, pageKnowledge, toBackground, backgroundVars, toContent, toService,
                 contentVars, pageAnswers, evaluation, pageVars>>

\* Mutant: a new port is not registered.
connect_Unregistered ==
  /\ reconnecting /\ ~disposed
  /\ reconnecting' = FALSE /\ port' = TRUE /\ cut' = FALSE
  /\ toBackground' = <<>>
  /\ UNCHANGED <<disposed, status, panelVars, pageKnowledge, toPanel, backgroundVars, toContent,
                 toService, contentVars, pageAnswers, evaluation, pageVars>>

\* connect, RECONNECT_DELAY_MS after the end of a port.
connect ==
  /\ reconnecting /\ ~disposed
  /\ reconnecting' = FALSE /\ port' = TRUE /\ cut' = FALSE
  /\ toBackground' = <<Register>>
  /\ UNCHANGED <<disposed, status, panelVars, pageKnowledge, toPanel, backgroundVars, toContent,
                 toService, contentVars, pageAnswers, evaluation, pageVars>>
-----------------------------------------------------------------------------
(* The background *)

\* deliverReinjectionResult: only a request that is still pending is answered.
deliverReinjectionResult(answer) ==
  IF answer.request \in pendingReinjections
  THEN /\ pendingReinjections' = pendingReinjections \ {answer.request}
       /\ toPanel' = Append(toPanel, Result(answer))
  ELSE UNCHANGED <<pendingReinjections, toPanel>>

\* port.onMessage and port.onDisconnect.  A port that is not registered gets an
\* error at once.
backgroundReceives ==
  /\ toBackground # <<>>
  /\ toBackground' = Tail(toBackground)
  /\ LET message == Head(toBackground) IN
     \/ /\ message = Register
        /\ registered' = TRUE
        /\ toPanel' = Append(toPanel, Connected)
        /\ UNCHANGED <<pendingReinjections, toContent>>
     \/ /\ message.type = "request"
        /\ IF registered
           THEN /\ pendingReinjections' = pendingReinjections \cup {message.request}
                /\ toContent' = toContent \cup {message.request}
                /\ UNCHANGED toPanel
           ELSE /\ toPanel' = Append(toPanel, Result(Answer(message.request, "bridge-error")))
                /\ UNCHANGED <<pendingReinjections, toContent>>
        /\ UNCHANGED registered
     \/ /\ message = Closed
        /\ registered' = FALSE /\ pendingReinjections' = {}
        /\ UNCHANGED <<toPanel, toContent>>
  /\ UNCHANGED <<stops, panelVars, pageKnowledge, clientVars, toService, contentVars, pageAnswers,
                 evaluation, pageVars>>

\* The callback of tabs.sendMessage reports an error: nobody listened, or the
\* browser cannot say.
sendMessageFails(r) ==
  /\ r \in toContent
  /\ toContent' = toContent \ {r}
  /\ \/ ~active /\ deliverReinjectionResult(Answer(r, "bridge-error"))
     \/ deliverReinjectionResult(Answer(r, "acknowledgement-unknown"))
  /\ UNCHANGED <<registered, stops, toBackground, panelVars, pageKnowledge, clientVars, toService,
                 contentVars, pageAnswers, evaluation, pageVars>>

\* runtime.onMessage; the message may also be lost.
backgroundReceivesResult(answer) ==
  /\ answer \in toService
  /\ toService' = toService \ {answer}
  /\ deliverReinjectionResult(answer) \/ UNCHANGED <<pendingReinjections, toPanel>>
  /\ UNCHANGED <<registered, stops, toBackground, panelVars, pageKnowledge, clientVars, toContent,
                 contentVars, pageAnswers, evaluation, pageVars>>

\* The browser stops the service worker: what it knew is gone, its ports close.
ServiceStops ==
  /\ stops < MaxStops /\ stops' = stops + 1
  /\ registered' = FALSE /\ pendingReinjections' = {} /\ toBackground' = <<>>
  /\ IF port /\ ~cut THEN cut' = TRUE /\ toPanel' = Append(toPanel, Disconnect)
                     ELSE UNCHANGED <<cut, toPanel>>
  /\ UNCHANGED <<port, disposed, status, reconnecting, panelVars, pageKnowledge, toContent,
                 toService, contentVars, pageAnswers, evaluation, pageVars>>
-----------------------------------------------------------------------------
(* The content script and the page's message handler *)

\* forwardReinjectionToPage up to its window message.
forwardReinjectionToPage(r) ==
  /\ active /\ r \in toContent
  /\ toContent' = toContent \ {r}
  /\ pendingPageRequests' = pendingPageRequests \cup {r}
  /\ toPage' = toPage \cup {r}
  /\ UNCHANGED <<active, panelVars, pageKnowledge, clientVars, channelVars, backgroundVars, toService,
                 pageAnswers, evaluation, pageVars>>

\* The page's message handler, which answers on the request's port and again on
\* the window; finish ignores the second one.
pageHandles(r) ==
  /\ r \in toPage
  /\ toPage' = toPage \ {r}
  /\ \E d \in deliver(r) :
       /\ effects' = [effects EXCEPT ![r] = d.effects]
       /\ pageAnswers' = pageAnswers \cup {Answer(r, d.result)}
  /\ UNCHANGED <<panelVars, pageKnowledge, clientVars, channelVars, backgroundVars, toContent,
                 toService, active, pendingPageRequests, evaluation, pageBridge, listening, reloads>>

\* finish: the first answer counts; sendRuntimeMessage publishes it.
finish(answer) ==
  IF answer.request \in pendingPageRequests
  THEN /\ pendingPageRequests' = pendingPageRequests \ {answer.request}
       /\ toService' = toService \cup {answer}
  ELSE UNCHANGED <<pendingPageRequests, toService>>

acceptPageResult(answer) ==
  /\ answer \in pageAnswers
  /\ pageAnswers' = pageAnswers \ {answer}
  /\ finish(answer)
  /\ UNCHANGED <<panelVars, pageKnowledge, clientVars, channelVars, backgroundVars, toContent,
                 active, toPage, evaluation, pageVars>>

\* PAGE_REINJECT_TIMEOUT_MS.
pageRequestTimesOut(r) ==
  /\ r \in pendingPageRequests
  /\ finish(Answer(r, "acknowledgement-unknown"))
  /\ UNCHANGED <<panelVars, pageKnowledge, clientVars, channelVars, backgroundVars, toContent,
                 active, toPage, pageAnswers, evaluation, pageVars>>

\* The content script's extension context is invalidated: it stops waiting, and
\* can no longer say so.
retireBridge ==
  /\ active /\ active' = FALSE
  /\ pendingPageRequests' = {}
  /\ UNCHANGED <<panelVars, pageKnowledge, clientVars, channelVars, backgroundVars, toContent,
                 toService, toPage, pageAnswers, evaluation, pageVars>>
-----------------------------------------------------------------------------
PanelStep ==
  \/ panelReceives \/ connect
  \/ \E r \in Requests : \/ evaluationTimesOut(r) \/ reinjectionTimesOut(r)
                         \/ admitEvidence(r) \/ setLocalInjectionOutcome(r)

Environment ==
  \/ enterLocalInjection \/ finishLocalInjection \/ executeLocalInjection \/ disconnect
  \/ setPageEpoch \/ TargetRetires \/ PageReloads \/ ServiceStops \/ retireBridge
  \/ \E r \in Requests : \/ pageEvaluates(r) \/ evaluationReturns(r)
                         \/ sendMessageFails(r) \/ forwardReinjectionToPage(r)
                         \/ pageHandles(r) \/ pageRequestTimesOut(r)
  \/ \E answer \in Answers : acceptPageResult(answer) \/ backgroundReceivesResult(answer)

Next == PanelStep \/ backgroundReceives \/ Environment

\* The panel's own timers, microtasks and messages, and the background's.
Fairness == WF_vars(PanelStep) /\ WF_vars(backgroundReceives)

Spec == Init /\ [][Next]_vars /\ Fairness
-----------------------------------------------------------------------------
Messages == {Register, Closed} \cup {Request(r) : r \in Requests}
PanelMessages == {Connected, Disconnect} \cup {Result(answer) : answer \in Answers}

TypeOK ==
  /\ draft \in {"none", "edit", "pending", "outcome"}
  /\ execution \in 0 .. MaxExecutions
  /\ currentPage \in 0 .. MaxReloads /\ anchor \in 0 .. MaxReloads
  /\ stage \in [Requests -> {"idle", "evaluating", "posted", "admitting", "identifying", "settled"}]
  /\ record \in [Requests -> [disposition : {"none", "delivered", "blocked", "failed", "partial",
                                            "acknowledgement-unknown"},
                             evidence : {"none", "not-created", "delivered-unretained", "committed"}]]
  /\ port \in BOOLEAN /\ cut \in BOOLEAN /\ disposed \in BOOLEAN /\ reconnecting \in BOOLEAN
  /\ status \in {"none", "connected", "disconnected"}
  /\ toBackground \in Seq(Messages) /\ toPanel \in Seq(PanelMessages)
  /\ registered \in BOOLEAN /\ pendingReinjections \subseteq Requests /\ stops \in 0 .. MaxStops
  /\ toContent \subseteq Requests /\ toService \subseteq Answers
  /\ active \in BOOLEAN /\ pendingPageRequests \subseteq Requests
  /\ toPage \subseteq Requests /\ pageAnswers \subseteq Answers
  /\ evaluation \in [Requests -> Results \cup {"none", "submitted", "unavailable", "exception"}]
  /\ effects \in [Requests -> Seq(Effects)]
  /\ pageBridge \in BOOLEAN /\ listening \in BOOLEAN /\ reloads \in 0 .. MaxReloads

\* No interleaving of timeouts, stops, reloads and late answers executes one
\* request twice in a page: no path is tried after one that may have worked.
AtMostOnce == \A r \in Requests : Len(effects[r]) <= 1

Took(r) == {effects[r][i].took : i \in 1 .. Len(effects[r])}

\* What the panel records of an execution stays true, whatever was still under
\* way: delivered means that all listeners took it, partial some, and after
\* NOT RUN or DELIVERY FAILED no listener ever takes the update.
TruthfulRecord ==
  \A r \in Requests :
    CASE record[r].disposition = "delivered" -> Took(r) = {"all"}
      [] record[r].disposition = "partial" -> Took(r) = {"some"}
      [] record[r].disposition = "blocked" -> effects[r] = <<>>
      [] record[r].disposition = "failed" -> Took(r) \subseteq {"none"}
      [] OTHER -> TRUE

\* The state is in its types and every record is true.
RecordIsTrue == TypeOK /\ TruthfulRecord

\* An execution ends with an outcome in the Draft, or with the panel.
PendingEnds == (draft = "pending") ~> (draft = "outcome" \/ disposed)

\* After the last stop of the service worker the panel is registered again and
\* says so.
RegistrationRestored == <>[](disposed \/ (registered /\ port /\ status = "connected"))

\* Nothing hangs for ever, whatever the service worker, the page and the content
\* script do (connectPanelBridge, executeLocalInjection).
BridgeSettles == PendingEnds /\ RegistrationRestored
=============================================================================
