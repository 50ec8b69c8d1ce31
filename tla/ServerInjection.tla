-------------------------- MODULE ServerInjection --------------------------
(***************************************************************************)
(* A Server Injection: the protected document of the runtime, the receipts *)
(* that the agent service keeps of prepared messages, the bridge client's  *)
(* pending requests, the page's delivery registry and the outcome that     *)
(* comes back as a capture.                                                *)
(*                                                                         *)
(* A person writes and sends a message of their own, or approves one that  *)
(* an agent prepared and may then execute.  The agent's connection ends    *)
(* and comes back, the panel is hidden and shown, its port closes, the     *)
(* page reloads or changes its Session, and outcomes are late or never     *)
(* come.                                                                   *)
(***************************************************************************)
EXTENDS Naturals, Sequences, FiniteSets

CONSTANTS
  MaxAgentRequests,     \* request ids that agents use
  MaxHumanRequests,     \* messages that a person sends
  MaxVersions,          \* contents of a message besides the first
  MaxSites,             \* reloads of the page and changes of its Session
  MaxBreaks,            \* ends of the port and of the agent's connection, hidings
  MaxRememberedRequests \* MAX_REMEMBERED_REQUESTS

ASSUME ServerInjectionAssumption ==
  /\ MaxAgentRequests \in Nat \ {0} /\ MaxHumanRequests \in Nat
  /\ MaxVersions \in Nat /\ MaxSites \in Nat /\ MaxBreaks \in Nat
  /\ MaxRememberedRequests \in Nat

AgentRequests == 1 .. MaxAgentRequests
Requests == 1 .. MaxAgentRequests + MaxHumanRequests
Human == 0                              \* agentRequestId of a person's document

\* What the ClientMessageListener is told of a message: a discarded one ends as
\* a denied one does, an error as an abort after the transmission.
Heard == {"processed", "denied", "abortedAfterSend", "abortedBeforeSend"}

Outcomes == {"processed", "denied", "aborted", "unknown", "stale-target", "bridge-error"}

\* The exact call: the arguments of sendMessage, and the page and its Session.
Content == [version : 0 .. MaxVersions, site : 0 .. MaxSites]
NoContent == [version |-> MaxVersions + 1, site |-> 0]

\* A fingerprint adds what the panel observes of the target and of Capture.
Fingerprint == [content : Content, currentSite : 0 .. MaxSites, port : BOOLEAN]
None == [content |-> NoContent, currentSite |-> 0, port |-> FALSE]

VARIABLES
  document,                  \* serverInjectionDraft
  nextHuman, consent,        \* what a person last agreed to send, per request
  visible, disposed, port, currentSite,       \* the panel, its port and the site it knows
  agentConnected, serverPrepared, receipts,   \* the agent's service
  executing,                 \* the execution of an agent that the next microtask starts
  pendingServerInjections,   \* bridge client
  evaluation,                \* per request, the evaluation in the inspected page
  site, starts, sends, heard,       \* the page
  breaks                     \* bounds the environment

documentVars == <<document, nextHuman, consent>>
panelVars == <<visible, disposed, port, currentSite>>
agentVars == <<agentConnected, serverPrepared, receipts, executing>>
clientVars == <<pendingServerInjections, evaluation>>
pageVars == <<site, starts, sends, heard>>
vars == <<documentVars, panelVars, agentVars, clientVars, pageVars, breaks>>

NoDocument == [phase |-> "none", agentRequestId |-> Human, sent |-> 0, version |-> 0, site |-> 0,
               prepared |-> None, reviewed |-> None, approval |-> None, outcome |-> "none"]

NoEvaluation == [state |-> "none", content |-> NoContent]

Init ==
  /\ document = NoDocument /\ nextHuman = MaxAgentRequests + 1
  /\ consent = [r \in Requests |-> NoContent]
  /\ visible = TRUE /\ disposed = FALSE /\ port = TRUE /\ currentSite = 0
  /\ agentConnected = FALSE
  /\ serverPrepared = [requestId |-> 0, consumed |-> FALSE]
  /\ receipts = [r \in AgentRequests |-> [state |-> "absent", outcome |-> "none"]]
  /\ executing = 0 /\ pendingServerInjections = {}
  /\ evaluation = [r \in Requests |-> NoEvaluation]
  /\ site = 0 /\ starts = {}
  /\ sends = [r \in Requests |-> <<>>] /\ heard = [r \in Requests |-> "none"]
  /\ breaks = 0
-----------------------------------------------------------------------------
(* The document *)

ContentOf(doc) == [version |-> doc.version, site |-> doc.site]

\* currentServerInjectionFingerprint.
FingerprintOf(doc) == [content |-> ContentOf(doc), currentSite |-> currentSite, port |-> port]

\* validateServerInjectionTarget finds no error.
serverInjectionReady(doc) == port /\ doc.site = currentSite

\* Back to editing, without review and approval.
Reedited(doc) == [doc EXCEPT !.phase = "edit", !.reviewed = None, !.approval = None]

\* publish checks a review again.
Published(doc) ==
  IF doc.phase = "review" /\ ~(serverInjectionReady(doc) /\ FingerprintOf(doc) = doc.reviewed)
  THEN Reedited(doc) ELSE doc

\* What the person agreed to goes with the approval, unless it is being sent.
Withdrawn == [r \in Requests |->
  IF r = document.agentRequestId /\ document.phase \in {"edit", "review"} THEN NoContent ELSE consent[r]]

\* A person acts, a message or a timer comes: not before the microtask that is due.
Turn == ~disposed /\ executing = 0

beginServerInjection ==
  /\ Turn /\ document.phase = "none" /\ nextHuman \in Requests
  /\ \E target \in 0 .. currentSite : document' = [NoDocument EXCEPT !.phase = "edit", !.site = target]
  /\ UNCHANGED <<nextHuman, consent, panelVars, agentVars, clientVars, pageVars, breaks>>

\* updateServerInjectionDraft, setServerInjectionDelayTimeout, a recipe.
updateServerInjectionDraft ==
  /\ Turn /\ document.phase = "edit"
  /\ \E v \in 0 .. MaxVersions \ {document.version} :
       document' = [Reedited(document) EXCEPT !.version = v]
  /\ UNCHANGED <<nextHuman, consent, panelVars, agentVars, clientVars, pageVars, breaks>>

reviewServerInjection ==
  /\ Turn /\ document.phase = "edit" /\ serverInjectionReady(document)
  /\ document' = [document EXCEPT !.phase = "review", !.reviewed = FingerprintOf(document), !.approval = None]
  /\ UNCHANGED <<nextHuman, consent, panelVars, agentVars, clientVars, pageVars, breaks>>

editServerInjection ==
  /\ Turn /\ document.phase = "review"
  /\ document' = Reedited(document)
  /\ consent' = Withdrawn
  /\ UNCHANGED <<nextHuman, panelVars, agentVars, clientVars, pageVars, breaks>>

approveAgentServerInjection ==
  /\ Turn /\ visible /\ document.phase = "review" /\ document.agentRequestId # Human
  /\ IF serverInjectionReady(document) /\ FingerprintOf(document) = document.reviewed
     THEN /\ document' = [document EXCEPT !.approval = document.reviewed]
          /\ consent' = [consent EXCEPT ![document.agentRequestId] = ContentOf(document)]
     ELSE document' = Reedited(document) /\ consent' = Withdrawn
  /\ UNCHANGED <<nextHuman, panelVars, agentVars, clientVars, pageVars, breaks>>

\* A request id of the panel's own, for a person's message.
Send(r, content) ==
  /\ document' = [document EXCEPT !.phase = "pending", !.sent = r]
  /\ pendingServerInjections' = pendingServerInjections \cup {r}
  /\ evaluation' = [evaluation EXCEPT ![r] = [state |-> "submitted", content |-> content]]

\* executeServerInjection by a person: an agent's document is not theirs to send.
\* A target that changed since the review goes back to editing.  The document may
\* not serialize, the evaluation not start.
executeServerInjection ==
  /\ Turn /\ visible /\ document.phase = "review" /\ document.agentRequestId = Human
  /\ nextHuman \in Requests
  /\ IF serverInjectionReady(document) /\ FingerprintOf(document) = document.reviewed
     THEN /\ nextHuman' = nextHuman + 1
          /\ consent' = [consent EXCEPT ![nextHuman] = ContentOf(document)]
          /\ \/ Send(nextHuman, document.reviewed.content)
             \/ /\ document' = [document EXCEPT !.phase = "outcome", !.sent = nextHuman,
                                                !.outcome = "bridge-error"]
                /\ UNCHANGED <<pendingServerInjections, evaluation>>
     ELSE document' = Reedited(document) /\ UNCHANGED <<nextHuman, consent, clientVars>>
  /\ UNCHANGED <<panelVars, agentVars, pageVars, breaks>>

\* confirmDiscardServerInjection: not while it is pending.
confirmDiscardServerInjection ==
  /\ Turn /\ document.phase \in {"edit", "review", "outcome"}
  /\ document' = NoDocument /\ consent' = Withdrawn
  /\ UNCHANGED <<nextHuman, panelVars, agentVars, clientVars, pageVars, breaks>>

\* A repeat is a message of the person's own.
prepareServerInjectionRepeat ==
  /\ Turn /\ document.phase = "outcome" /\ nextHuman \in Requests
  /\ document' = [Reedited(document) EXCEPT !.agentRequestId = Human, !.prepared = None,
                                            !.sent = 0, !.outcome = "none"]
  /\ UNCHANGED <<nextHuman, consent, panelVars, agentVars, clientVars, pageVars, breaks>>

\* A publication, which a hidden panel puts off.
publish ==
  /\ Turn /\ visible /\ Published(document) # document
  /\ document' = Published(document) /\ consent' = Withdrawn
  /\ UNCHANGED <<nextHuman, panelVars, agentVars, clientVars, pageVars, breaks>>

\* Mutant: the approval survives the connection and the panel's view it was given in.
Unapproved_Kept == Published(document)

\* The approval of an agent's message is taken back, and the panel publishes.
Unapproved ==
  Published(IF document.agentRequestId # Human THEN [document EXCEPT !.approval = None] ELSE document)

\* setVisible(FALSE).
Hide ==
  /\ Turn /\ visible /\ breaks < MaxBreaks /\ breaks' = breaks + 1
  /\ visible' = FALSE
  /\ document' = Unapproved /\ consent' = Withdrawn
  /\ UNCHANGED <<nextHuman, disposed, port, currentSite, agentVars, clientVars, pageVars>>

Show ==
  /\ Turn /\ ~visible /\ visible' = TRUE
  /\ UNCHANGED <<documentVars, disposed, port, currentSite, agentVars, clientVars, pageVars, breaks>>
-----------------------------------------------------------------------------
(* Outcomes *)

\* finishServerInjection of requests rs: the document shows the outcome, and
\* then the receipt of an agent's request is complete.
Finished(rs, outcome, gone) ==
  LET ending == rs \cap pendingServerInjections IN
  /\ pendingServerInjections' = pendingServerInjections \ ending
  /\ document' = IF document.phase = "pending" /\ document.sent \in ending /\ ~gone
                 THEN [document EXCEPT !.phase = "outcome", !.outcome = outcome] ELSE document
  /\ receipts' = [r \in AgentRequests |->
                    IF r \in ending THEN [state |-> "complete", outcome |-> outcome] ELSE receipts[r]]

\* SERVER_INJECTION_OUTCOME_TIMEOUT_MS.
terminalOutcomeTimesOut(r) ==
  /\ executing = 0 /\ r \in pendingServerInjections
  /\ Finished({r}, "unknown", disposed)
  /\ UNCHANGED <<nextHuman, consent, panelVars, agentConnected, serverPrepared, executing, evaluation,
                 pageVars, breaks>>

\* Mutant: the listener's word is the outcome.
CapturedOutcome_Verbatim(what) == what

CapturedOutcome(what) ==
  CASE what = "abortedAfterSend" -> "unknown"
    [] what = "abortedBeforeSend" -> "aborted"
    [] OTHER -> what

\* A capture of what the listener was told; one that comes late, or again, finds
\* nothing pending.
resolveServerInjectionFromCapture(r) ==
  /\ executing = 0 /\ r \in pendingServerInjections /\ heard[r] # "none"
  /\ Finished({r}, CapturedOutcome(heard[r]), disposed)
  /\ UNCHANGED <<nextHuman, consent, panelVars, agentConnected, serverPrepared, executing, evaluation,
                 pageVars, breaks>>

\* resultFromServerInjectionStart, and what the callback makes of the rest.
StartOutcome(state) ==
  CASE state = "stale-target" -> "stale-target"
    [] state \in {"unavailable", "unsupported"} -> "bridge-error"
    [] OTHER -> "unknown"

\* Mutant: the page's acknowledgement ends the wait.
evaluationReturns_Acknowledged(r) ==
  /\ executing = 0 /\ evaluation[r].state \notin {"none", "submitted"}
  /\ evaluation' = [evaluation EXCEPT ![r] = NoEvaluation]
  /\ IF evaluation[r].state = "started"
     THEN pendingServerInjections' = pendingServerInjections \ {r} /\ UNCHANGED <<document, receipts>>
     ELSE Finished({r}, StartOutcome(evaluation[r].state), disposed)
  /\ UNCHANGED <<nextHuman, consent, panelVars, agentConnected, serverPrepared, executing, pageVars, breaks>>

\* The callback of inspectedWindow.eval: a message that was submitted goes on
\* waiting for its listener.
evaluationReturns(r) ==
  /\ executing = 0 /\ evaluation[r].state \notin {"none", "submitted"}
  /\ evaluation' = [evaluation EXCEPT ![r] = NoEvaluation]
  /\ IF evaluation[r].state = "started"
     THEN UNCHANGED <<pendingServerInjections, document, receipts>>
     ELSE Finished({r}, StartOutcome(evaluation[r].state), disposed)
  /\ UNCHANGED <<nextHuman, consent, panelVars, agentConnected, serverPrepared, executing, pageVars, breaks>>

\* port.onDisconnect: everything pending is unknown; a review goes back to editing.
PortCloses ==
  /\ Turn /\ port /\ breaks < MaxBreaks /\ breaks' = breaks + 1
  /\ port' = FALSE
  /\ IF visible /\ document.phase = "review"
     THEN /\ document' = Reedited(document) /\ consent' = Withdrawn
          /\ UNCHANGED <<pendingServerInjections, receipts>>
     ELSE Finished(pendingServerInjections, "unknown", FALSE) /\ UNCHANGED consent
  /\ UNCHANGED <<nextHuman, visible, disposed, currentSite, agentConnected, serverPrepared, executing,
                 evaluation, pageVars>>

connect ==
  /\ Turn /\ ~port /\ port' = TRUE
  /\ UNCHANGED <<documentVars, visible, disposed, currentSite, agentVars, clientVars, pageVars, breaks>>

\* The panel goes away: approvals are void and everything pending is unknown.
dispose ==
  /\ Turn
  /\ disposed' = TRUE /\ agentConnected' = FALSE
  /\ Finished(pendingServerInjections, "unknown", TRUE) /\ consent' = Withdrawn
  /\ UNCHANGED <<nextHuman, visible, port, currentSite, serverPrepared, executing, evaluation,
                 pageVars, breaks>>
-----------------------------------------------------------------------------
(* The agent *)

AgentConnects ==
  /\ Turn /\ ~agentConnected /\ agentConnected' = TRUE
  /\ UNCHANGED <<documentVars, panelVars, serverPrepared, receipts, executing, clientVars, pageVars, breaks>>

\* release: the connection ends, revoke takes an approval back.
release ==
  /\ Turn /\ agentConnected /\ breaks < MaxBreaks /\ breaks' = breaks + 1
  /\ agentConnected' = FALSE
  /\ IF document.agentRequestId # Human /\ document.approval # None
     THEN document' = (IF visible THEN Unapproved ELSE [document EXCEPT !.approval = None]) /\ consent' = Withdrawn
     ELSE UNCHANGED <<document, consent>>
  /\ UNCHANGED <<nextHuman, panelVars, serverPrepared, receipts, executing, clientVars, pageVars>>

\* prepare_server_injection of a new request id, for the Session the panel
\* shows; one that is known only answers with its receipt.
prepareAgentServerInjection(r) ==
  /\ Turn /\ agentConnected /\ visible /\ document.phase = "none"
  /\ receipts[r].state = "absent" /\ \A q \in 1 .. r - 1 : receipts[q].state # "absent"
  /\ LET doc == [NoDocument EXCEPT !.phase = "edit", !.agentRequestId = r, !.site = currentSite]
     IN document' = [doc EXCEPT !.prepared = FingerprintOf(doc)]
  /\ serverPrepared' = [requestId |-> r, consumed |-> FALSE]
  /\ receipts' = [receipts EXCEPT ![r].state = "prepared"]
  /\ UNCHANGED <<nextHuman, consent, panelVars, agentConnected, executing, clientVars, pageVars, breaks>>

agentApproved(doc) ==
  doc.approval # None /\ doc.approval = doc.reviewed /\ doc.approval = FingerprintOf(doc)

\* Mutant: the receipt is reserved only when the execution ends.
executeAgentRequest_Unreserved(r) ==
  /\ Turn /\ agentConnected
  /\ receipts[r].state \in {"prepared", "pending"}
  /\ document.agentRequestId = r /\ agentApproved(document)
  /\ receipts' = [receipts EXCEPT ![r].state = "pending"]
  /\ executing' = r
  /\ UNCHANGED <<documentVars, panelVars, agentConnected, serverPrepared, clientVars, pageVars, breaks>>

\* execute_server_injection: the receipt is consumed before the runtime is
\* entered, in a microtask.  A repeated call finds the receipt and waits for its
\* outcome.
executeAgentRequest(r) ==
  /\ Turn /\ agentConnected
  /\ receipts[r].state = "prepared" /\ serverPrepared = [requestId |-> r, consumed |-> FALSE]
  /\ document.agentRequestId = r /\ agentApproved(document)
  /\ serverPrepared' = [serverPrepared EXCEPT !.consumed = TRUE]
  /\ receipts' = [receipts EXCEPT ![r].state = "pending"]
  /\ executing' = r
  /\ UNCHANGED <<documentVars, panelVars, agentConnected, clientVars, pageVars, breaks>>

\* executeApprovedAgentServerInjection and executeServerInjection: an approval
\* that no longer fits is cleared, and the receipt says that nothing was sent.
executeApprovedAgentServerInjection ==
  /\ executing # 0 /\ executing' = 0
  /\ IF document.agentRequestId = executing /\ document.phase = "review" /\ agentApproved(document)
        /\ serverInjectionReady(document)
     THEN /\ UNCHANGED consent
          /\ \/ Send(executing, document.reviewed.content) /\ UNCHANGED receipts
             \/ /\ document' = [document EXCEPT !.phase = "outcome", !.sent = executing,
                                                !.outcome = "bridge-error"]
                /\ receipts' = [receipts EXCEPT ![executing] = [state |-> "complete", outcome |-> "bridge-error"]]
                /\ UNCHANGED clientVars
     ELSE /\ document' = IF document.phase = "review" THEN Reedited(document) ELSE document
          /\ consent' = Withdrawn
          /\ receipts' = [receipts EXCEPT ![executing] = [state |-> "complete", outcome |-> "stale-target"]]
          /\ UNCHANGED clientVars
  /\ UNCHANGED <<nextHuman, panelVars, agentConnected, serverPrepared, pageVars, breaks>>

\* abort_server_injection of a document that is as it was prepared.
abortServerInjection(r) ==
  /\ Turn /\ agentConnected
  /\ serverPrepared = [requestId |-> r, consumed |-> FALSE]
  /\ document.agentRequestId = r /\ document.phase \in {"edit", "review"}
  /\ document.prepared = FingerprintOf(document)
  /\ document' = NoDocument /\ consent' = Withdrawn
  /\ receipts' = [receipts EXCEPT ![r].state = "aborted"]
  /\ serverPrepared' = [requestId |-> 0, consumed |-> FALSE]
  /\ UNCHANGED <<nextHuman, panelVars, agentConnected, executing, clientVars, pageVars, breaks>>
-----------------------------------------------------------------------------
(* The page *)

\* submit: a correlation is sent once, in the page and Session it is for; it is
\* claimed before sendMessage, which may throw with or without an effect.
submit(r, content) ==
  LET Outcome(state, claimed, sent) ==
        [state |-> state, starts |-> IF claimed THEN starts \cup {r} ELSE starts,
         sends |-> IF sent THEN [sends EXCEPT ![r] = Append(@, [content EXCEPT !.site = site])] ELSE sends]
  IN IF r \in starts THEN {Outcome("started", FALSE, FALSE)}
     ELSE IF Cardinality(starts) >= MaxRememberedRequests THEN {Outcome("unsupported", FALSE, FALSE)}
     ELSE {Outcome("stale-target", FALSE, FALSE)}
          \cup (IF content.site # site THEN {}
                ELSE {Outcome("unsupported", FALSE, FALSE), Outcome("started", TRUE, TRUE),
                      Outcome("send-threw", TRUE, TRUE), Outcome("send-threw", TRUE, FALSE)})

\* The expression runs in the page.  An exception, or a result that the panel
\* cannot accept as valid, hides what it did.
pageEvaluates(r) ==
  /\ evaluation[r].state = "submitted"
  /\ \/ /\ \E state \in {"unavailable", "exception"} : evaluation' = [evaluation EXCEPT ![r].state = state]
        /\ UNCHANGED <<starts, sends>>
     \/ \E result \in submit(r, evaluation[r].content), valid \in BOOLEAN :
          /\ evaluation' = [evaluation EXCEPT ![r].state = IF valid THEN result.state ELSE "exception"]
          /\ starts' = result.starts /\ sends' = result.sends
  /\ UNCHANGED <<documentVars, panelVars, agentVars, pendingServerInjections, site, heard, breaks>>

\* The listener is told the message's end.
ListenerHears(r) ==
  /\ r \in starts /\ sends[r] # <<>> /\ heard[r] = "none"
  /\ \E what \in Heard : heard' = [heard EXCEPT ![r] = what]
  /\ UNCHANGED <<documentVars, panelVars, agentVars, clientVars, site, starts, sends, breaks>>

\* A reload forgets what the page submitted; an evaluation that was not run yet
\* may be run in the new page.
PageReloads ==
  /\ site < MaxSites /\ site' = site + 1 /\ starts' = {}
  /\ \E lost \in SUBSET {r \in Requests : evaluation[r].state = "submitted"} :
       evaluation' = [r \in Requests |-> IF r \in lost THEN [evaluation[r] EXCEPT !.state = "exception"]
                                        ELSE evaluation[r]]
  /\ UNCHANGED <<documentVars, panelVars, agentVars, pendingServerInjections, sends, heard, breaks>>

SessionChanges ==
  /\ site < MaxSites /\ site' = site + 1
  /\ UNCHANGED <<documentVars, panelVars, agentVars, clientVars, starts, sends, heard, breaks>>

\* Captures tell the panel of a newer page or Session.
PanelLearns ==
  /\ ~disposed /\ currentSite < site
  /\ \E s \in currentSite + 1 .. site : currentSite' = s
  /\ UNCHANGED <<documentVars, visible, disposed, port, agentVars, clientVars, pageVars, breaks>>
-----------------------------------------------------------------------------
PanelStep ==
  executeApprovedAgentServerInjection \/ \E r \in Requests : terminalOutcomeTimesOut(r)

Person ==
  \/ beginServerInjection \/ updateServerInjectionDraft \/ reviewServerInjection \/ editServerInjection
  \/ approveAgentServerInjection \/ executeServerInjection \/ confirmDiscardServerInjection
  \/ prepareServerInjectionRepeat \/ Hide \/ Show \/ dispose

Agent ==
  \/ AgentConnects \/ release
  \/ \E r \in AgentRequests :
       prepareAgentServerInjection(r) \/ executeAgentRequest(r) \/ abortServerInjection(r)

Page ==
  \/ PageReloads \/ SessionChanges
  \/ \E r \in Requests : pageEvaluates(r) \/ ListenerHears(r)

Next ==
  \/ PanelStep \/ Person \/ Agent \/ Page
  \/ publish \/ PanelLearns \/ PortCloses \/ connect
  \/ \E r \in Requests : resolveServerInjectionFromCapture(r) \/ evaluationReturns(r)

\* The panel's own timer and microtask.
Spec == Init /\ [][Next]_vars /\ WF_vars(PanelStep)
-----------------------------------------------------------------------------
TypeOK ==
  /\ document \in [phase : {"none", "edit", "review", "pending", "outcome"},
                   agentRequestId : 0 .. MaxAgentRequests, sent : {0} \cup Requests,
                   version : 0 .. MaxVersions, site : 0 .. MaxSites,
                   prepared : Fingerprint \cup {None}, reviewed : Fingerprint \cup {None},
                   approval : Fingerprint \cup {None}, outcome : Outcomes \cup {"none"}]
  /\ nextHuman \in MaxAgentRequests + 1 .. MaxAgentRequests + MaxHumanRequests + 1
  /\ consent \in [Requests -> Content \cup {NoContent}]
  /\ visible \in BOOLEAN /\ disposed \in BOOLEAN /\ port \in BOOLEAN /\ currentSite \in 0 .. MaxSites
  /\ agentConnected \in BOOLEAN
  /\ serverPrepared \in [requestId : 0 .. MaxAgentRequests, consumed : BOOLEAN]
  /\ receipts \in [AgentRequests -> [state : {"absent", "prepared", "pending", "complete", "aborted"},
                                    outcome : Outcomes \cup {"none"}]]
  /\ executing \in 0 .. MaxAgentRequests /\ pendingServerInjections \subseteq Requests
  /\ evaluation \in [Requests -> [state : {"none", "submitted", "unavailable", "exception", "unsupported",
                                          "stale-target", "started", "send-threw"},
                                 content : Content \cup {NoContent}]]
  /\ site \in 0 .. MaxSites /\ starts \subseteq Requests
  /\ sends \in [Requests -> Seq(Content)] /\ heard \in [Requests -> Heard \cup {"none"}]
  /\ breaks \in 0 .. MaxBreaks

\* Whatever repeats, reloads and late answers do, a request is sent at most once,
\* and what is sent, in the page and Session that gets it, is what a person
\* agreed to for that request and had not taken back by an edit, by hiding the
\* panel or with the agent's connection.
SentAsConsented == \A r \in Requests : sends[r] \in {<<>>, <<consent[r]>>}

\* What an outcome says of request r: not sent, or what the listener was told.
True(outcome, r) ==
  CASE outcome \in {"stale-target", "bridge-error"} -> sends[r] = <<>>
    [] outcome \in {"processed", "denied"} -> heard[r] = outcome
    [] outcome = "aborted" -> heard[r] = "abortedBeforeSend"
    [] OTHER -> TRUE

\* The outcome that the document shows and the receipt that the agent gets are
\* true, stay true, and agree.
OutcomesAreTrue ==
  /\ document.phase = "outcome" => True(document.outcome, document.sent)
  /\ \A r \in AgentRequests :
       /\ receipts[r].state = "complete" => True(receipts[r].outcome, r)
       /\ document.phase = "outcome" /\ document.agentRequestId = r
            => receipts[r] = [state |-> "complete", outcome |-> document.outcome]

\* The state is in its types and every outcome is true.
AnswersAreTrue == TypeOK /\ OutcomesAreTrue

\* Nothing stays pending: the document of a message that is sent shows an
\* outcome, and an agent's receipt is completed even if the panel goes away.
ExecutionsEnd ==
  /\ (document.phase = "pending") ~> (document.phase # "pending" \/ disposed)
  /\ \A r \in AgentRequests : (receipts[r].state = "pending") ~> (receipts[r].state = "complete")
=============================================================================
