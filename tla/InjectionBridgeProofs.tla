----------------------- MODULE InjectionBridgeProofs -----------------------
(***************************************************************************)
(* Theorems of InjectionBridge: a Local Injection takes effect at most     *)
(* once and its record is true, for all numbers of executions, stops of    *)
(* the service worker and reloads.                                         *)
(*                                                                         *)
(* A request is a token that wanders: it is in one place at most           *)
(* (OnePlace), and while it is anywhere it has had no effect               *)
(* (LiveIsUnsent).  What is said of it, in an answer on its way or in the  *)
(* record, is so and can stay so because the token is gone                 *)
(* (ClaimsAreTrue).                                                        *)
(***************************************************************************)
EXTENDS InjectionBridge, TLAPS

\* Request r is among the messages s on their way to the background.
Posted(s, r) == \E i \in 1 .. Len(s) : s[i] = Request(r)
PostedOnce(s, r) ==
  \A i, j \in 1 .. Len(s) : s[i] = Request(r) /\ s[j] = Request(r) => i = j

\* Its result is among the messages s on their way to the panel.
Told(s, r, result) == \E i \in 1 .. Len(s) : s[i] = Result(Answer(r, result))

\* Request r is where it may still take effect; an unavailable bridge is answered
\* by posting the request.
Evaluating(r) == evaluation[r] \in {"submitted", "unavailable"}
Live(r) == Evaluating(r) \/ Posted(toBackground, r) \/ r \in toContent \/ r \in toPage

OnePlace ==
  \A r \in Requests :
    /\ PostedOnce(toBackground, r)
    /\ Evaluating(r) => ~Posted(toBackground, r) /\ r \notin toContent /\ r \notin toPage
    /\ Posted(toBackground, r) => r \notin toContent /\ r \notin toPage
    /\ r \in toContent => r \notin toPage

LiveIsUnsent == \A r \in Requests : Live(r) => effects[r] = <<>>

\* What a result says of request r, unless it is unknown.
Known == Results \ {"acknowledgement-unknown"}

Says(r, result) ==
  CASE result = "success" -> Took(r) = {"all"}
    [] result = "partial" -> Took(r) = {"some"}
    [] result = "stale-target" -> effects[r] = <<>>
    [] OTHER -> Took(r) \subseteq {"none"}

\* Somebody says it: the coordinator or the record, the page, an answer on its way.
PanelClaims(r, result) ==
  \/ stage[r] = "admitting" /\ result = "success"
  \/ record[r].disposition = outcomeFromResult(result)

Claimed(r, result) ==
  \/ PanelClaims(r, result)
  \/ evaluation[r] = result
  \/ Answer(r, result) \in pageAnswers \/ Answer(r, result) \in toService
  \/ Told(toPanel, r, result)

ClaimsAreTrue ==
  \A r \in Requests : \A result \in Known : Claimed(r, result) => ~Live(r) /\ Says(r, result)

UnusedIsUntouched ==
  \A r \in Requests : r > execution =>
    /\ ~Live(r) /\ effects[r] = <<>>
    /\ \A result \in Known : ~Claimed(r, result)

Facts == OnePlace /\ LiveIsUnsent /\ UnusedIsUntouched /\ ClaimsAreTrue /\ AtMostOnce
-----------------------------------------------------------------------------
(* Messages                                                                *)

\* Messages to the background and to the panel are told apart.
LEMMA MessageFacts ==
  /\ \A r \in Requests : /\ Request(r) \in Messages /\ Request(r) # Register /\ Request(r) # Closed
                         /\ Request(r).type = "request" /\ Request(r).request = r
  /\ Register \in Messages /\ Closed \in Messages
  /\ \A m \in Messages : m.type = "request" => m.request \in Requests /\ m = Request(m.request)
  /\ \A r, q \in Requests : Request(r) = Request(q) => r = q
<1>1. \A r \in Requests : /\ Request(r) # Register /\ Request(r) # Closed
                           /\ Request(r).type = "request" /\ Request(r).request = r
  BY DEF Request, Register, Closed
<1>2. \A r \in Requests : Request(r) \in Messages BY DEF Messages
<1>3. Register \in Messages /\ Closed \in Messages BY DEF Messages
<1>4. ASSUME NEW m \in Messages, m.type = "request"
      PROVE  m.request \in Requests /\ m = Request(m.request)
  <2>1. m # Register /\ m # Closed BY <1>4 DEF Register, Closed
  <2>2. PICK r \in Requests : m = Request(r) BY <2>1 DEF Messages
  <2>3. QED BY <1>1, <2>2
<1>5. \A r, q \in Requests : Request(r) = Request(q) => r = q BY <1>1
<1>6. QED BY <1>1, <1>2, <1>3, <1>4, <1>5

\* So are the messages to the panel, and the answers they carry.
LEMMA PanelMessageFacts ==
  /\ \A r \in Requests, result \in Results :
       Answer(r, result) \in Answers /\ Result(Answer(r, result)) \in PanelMessages
  /\ Connected \in PanelMessages /\ Disconnect \in PanelMessages
  /\ \A r, result : Result(Answer(r, result)) # Connected /\ Result(Answer(r, result)) # Disconnect
  /\ \A m \in PanelMessages : m.type = "result" => m.answer \in Answers /\ m = Result(m.answer)
  /\ \A a, b \in Answers : Result(a) = Result(b) => a = b
  /\ \A a \in Answers : a = Answer(a.request, a.result) /\ a.request \in Requests /\ a.result \in Results
  /\ \A r, q, x, y : Answer(r, x) = Answer(q, y) => r = q /\ x = y
<1>1. \A r \in Requests, result \in Results :
        Answer(r, result) \in Answers /\ Result(Answer(r, result)) \in PanelMessages
  BY DEF Answer, Answers, PanelMessages
<1>2. /\ Connected \in PanelMessages /\ Disconnect \in PanelMessages
      /\ \A r, result : Result(Answer(r, result)) # Connected /\ Result(Answer(r, result)) # Disconnect
  BY DEF Connected, Disconnect, Result, PanelMessages
<1>3. \A m \in PanelMessages : m.type = "result" => m.answer \in Answers /\ m = Result(m.answer)
  BY DEF Connected, Disconnect, Result, PanelMessages
<1>4. \A a, b \in Answers : Result(a) = Result(b) => a = b BY DEF Result
<1>5. \A a \in Answers :
        a = Answer(a.request, a.result) /\ a.request \in Requests /\ a.result \in Results
  BY DEF Answers, Answer
<1>6. \A r, q, x, y : Answer(r, x) = Answer(q, y) => r = q /\ x = y BY DEF Answer
<1>7. QED BY <1>1, <1>2, <1>3, <1>4, <1>5, <1>6

\* A message is posted.
LEMMA PostedAppend ==
  ASSUME NEW s \in Seq(Messages), NEW m \in Messages, NEW r
  PROVE  /\ Append(s, m) \in Seq(Messages)
         /\ Posted(Append(s, m), r) <=> Posted(s, r) \/ m = Request(r)
         /\ PostedOnce(s, r) /\ (m = Request(r) => ~Posted(s, r)) => PostedOnce(Append(s, m), r)
<1>1. /\ Append(s, m) \in Seq(Messages) /\ Len(Append(s, m)) = Len(s) + 1 /\ Len(s) \in Nat
      /\ \A i \in 1 .. Len(s) : Append(s, m)[i] = s[i]
      /\ Append(s, m)[Len(s) + 1] = m
  OBVIOUS
<1>2. Posted(Append(s, m), r) <=> Posted(s, r) \/ m = Request(r)
  <2>1. ASSUME Posted(Append(s, m), r) PROVE Posted(s, r) \/ m = Request(r)
    <3>1. PICK i \in 1 .. Len(s) + 1 : Append(s, m)[i] = Request(r) BY <1>1, <2>1 DEF Posted
    <3>2. i \in 1 .. Len(s) \/ i = Len(s) + 1 BY <1>1, <3>1
    <3>3. QED BY <1>1, <3>1, <3>2 DEF Posted
  <2>2. ASSUME Posted(s, r) PROVE Posted(Append(s, m), r)
    <3>1. PICK i \in 1 .. Len(s) : s[i] = Request(r) BY <2>2 DEF Posted
    <3>2. i \in 1 .. Len(Append(s, m)) /\ Append(s, m)[i] = Request(r) BY <1>1, <3>1
    <3>3. QED BY <3>2 DEF Posted
  <2>3. ASSUME m = Request(r) PROVE Posted(Append(s, m), r)
    <3>1. Len(s) + 1 \in 1 .. Len(Append(s, m)) BY <1>1
    <3>2. QED BY <1>1, <2>3, <3>1 DEF Posted
  <2>4. QED BY <2>1, <2>2, <2>3
<1>3. ASSUME PostedOnce(s, r), m = Request(r) => ~Posted(s, r)
      PROVE  PostedOnce(Append(s, m), r)
  <2>1. SUFFICES ASSUME NEW i \in 1 .. Len(s) + 1, NEW j \in 1 .. Len(s) + 1,
                        Append(s, m)[i] = Request(r), Append(s, m)[j] = Request(r)
                 PROVE  i = j
    BY <1>1 DEF PostedOnce
  <2>2. (i \in 1 .. Len(s) \/ i = Len(s) + 1) /\ (j \in 1 .. Len(s) \/ j = Len(s) + 1) BY <1>1
  <2>3. CASE i \in 1 .. Len(s) /\ j \in 1 .. Len(s) BY <1>1, <1>3, <2>1, <2>3 DEF PostedOnce
  <2>4. CASE i = Len(s) + 1 \/ j = Len(s) + 1 BY <1>1, <1>3, <2>1, <2>2, <2>4 DEF Posted
  <2>5. QED BY <2>2, <2>3, <2>4
<1>4. QED BY <1>1, <1>2, <1>3

\* The first message is taken.
LEMMA PostedTail ==
  ASSUME NEW s \in Seq(Messages), s # <<>>, NEW r
  PROVE  /\ Tail(s) \in Seq(Messages) /\ Head(s) \in Messages
         /\ Posted(Tail(s), r) => Posted(s, r)
         /\ Head(s) = Request(r) => Posted(s, r)
         /\ PostedOnce(s, r) => PostedOnce(Tail(s), r)
         /\ PostedOnce(s, r) /\ Head(s) = Request(r) => ~Posted(Tail(s), r)
<1>1. /\ Tail(s) \in Seq(Messages) /\ Len(s) \in Nat /\ Len(s) >= 1 /\ Len(Tail(s)) = Len(s) - 1
      /\ \A i \in 1 .. Len(Tail(s)) : Tail(s)[i] = s[i + 1] /\ i + 1 \in 1 .. Len(s)
      /\ Head(s) = s[1] /\ 1 \in 1 .. Len(s) /\ s[1] \in Messages
  OBVIOUS
<1>2. /\ Posted(Tail(s), r) => Posted(s, r)
      /\ Head(s) = Request(r) => Posted(s, r)
  BY <1>1 DEF Posted
<1>3. ASSUME PostedOnce(s, r) PROVE PostedOnce(Tail(s), r)
  <2>1. SUFFICES ASSUME NEW i \in 1 .. Len(Tail(s)), NEW j \in 1 .. Len(Tail(s)),
                        Tail(s)[i] = Request(r), Tail(s)[j] = Request(r)
                 PROVE  i = j
    BY DEF PostedOnce
  <2>2. i + 1 \in 1 .. Len(s) /\ j + 1 \in 1 .. Len(s) /\ s[i + 1] = Request(r) /\ s[j + 1] = Request(r)
    BY <1>1, <2>1
  <2>3. i + 1 = j + 1 BY <1>3, <2>2 DEF PostedOnce
  <2>4. QED BY <2>3
<1>4. ASSUME PostedOnce(s, r), Head(s) = Request(r), Posted(Tail(s), r) PROVE FALSE
  <2>1. PICK i \in 1 .. Len(Tail(s)) : Tail(s)[i] = Request(r) BY <1>4 DEF Posted
  <2>2. i + 1 \in 1 .. Len(s) /\ s[i + 1] = Request(r) /\ s[1] = Request(r) /\ 1 \in 1 .. Len(s)
    BY <1>1, <1>4, <2>1
  <2>3. i + 1 = 1 BY <1>4, <2>2 DEF PostedOnce
  <2>4. QED BY <2>3
<1>5. QED BY <1>1, <1>2, <1>3, <1>4

\* Messages to the panel.
LEMMA ToldAppend ==
  ASSUME NEW s \in Seq(PanelMessages), NEW m \in PanelMessages, NEW r, NEW result
  PROVE  /\ Append(s, m) \in Seq(PanelMessages)
         /\ Told(Append(s, m), r, result) => Told(s, r, result) \/ m = Result(Answer(r, result))
<1>1. /\ Append(s, m) \in Seq(PanelMessages) /\ Len(Append(s, m)) = Len(s) + 1 /\ Len(s) \in Nat
      /\ \A i \in 1 .. Len(s) : Append(s, m)[i] = s[i]
      /\ Append(s, m)[Len(s) + 1] = m
  OBVIOUS
<1>2. ASSUME Told(Append(s, m), r, result)
      PROVE  Told(s, r, result) \/ m = Result(Answer(r, result))
  <2>1. PICK i \in 1 .. Len(s) + 1 : Append(s, m)[i] = Result(Answer(r, result))
    BY <1>1, <1>2 DEF Told
  <2>2. i \in 1 .. Len(s) \/ i = Len(s) + 1 BY <1>1, <2>1
  <2>3. QED BY <1>1, <2>1, <2>2 DEF Told
<1>3. QED BY <1>1, <1>2

\* The panel reads the first message.
LEMMA ToldTail ==
  ASSUME NEW s \in Seq(PanelMessages), s # <<>>, NEW r, NEW result
  PROVE  /\ Tail(s) \in Seq(PanelMessages) /\ Head(s) \in PanelMessages
         /\ Told(Tail(s), r, result) => Told(s, r, result)
         /\ Head(s) = Result(Answer(r, result)) => Told(s, r, result)
<1>1. /\ Tail(s) \in Seq(PanelMessages) /\ Len(s) \in Nat /\ Len(s) >= 1 /\ Len(Tail(s)) = Len(s) - 1
      /\ \A i \in 1 .. Len(Tail(s)) : Tail(s)[i] = s[i + 1] /\ i + 1 \in 1 .. Len(s)
      /\ Head(s) = s[1] /\ 1 \in 1 .. Len(s) /\ s[1] \in PanelMessages
  OBVIOUS
<1>2. QED BY <1>1 DEF Told
-----------------------------------------------------------------------------
(* Types                                                                   *)

Drafts == {"none", "edit", "pending", "outcome"}
Stages == [Requests -> {"idle", "evaluating", "posted", "admitting", "identifying", "settled"}]
Records ==
  [Requests -> [disposition : {"none", "delivered", "blocked", "failed", "partial",
                               "acknowledgement-unknown"},
                evidence : {"none", "not-created", "delivered-unretained", "committed"}]]
Evaluations == [Requests -> Results \cup {"none", "submitted", "unavailable", "exception"}]
AllEffects == [Requests -> Seq(Effects)]

PanelTyped == /\ draft \in Drafts /\ execution \in 0 .. MaxExecutions
              /\ stage \in Stages /\ record \in Records
KnowledgeTyped == currentPage \in 0 .. MaxReloads /\ anchor \in 0 .. MaxReloads
ClientTyped == /\ port \in BOOLEAN /\ cut \in BOOLEAN /\ disposed \in BOOLEAN /\ reconnecting \in BOOLEAN
               /\ status \in {"none", "connected", "disconnected"}
ChannelTyped == toBackground \in Seq(Messages) /\ toPanel \in Seq(PanelMessages)
BackgroundTyped == registered \in BOOLEAN /\ pendingReinjections \subseteq Requests /\ stops \in 0 .. MaxStops
MessagesTyped == /\ toContent \subseteq Requests /\ toService \subseteq Answers
                 /\ toPage \subseteq Requests /\ pageAnswers \subseteq Answers
ContentTyped == active \in BOOLEAN /\ pendingPageRequests \subseteq Requests
PageTyped == /\ evaluation \in Evaluations /\ effects \in AllEffects
             /\ pageBridge \in BOOLEAN /\ listening \in BOOLEAN /\ reloads \in 0 .. MaxReloads

Typed == /\ PanelTyped /\ KnowledgeTyped /\ ClientTyped /\ ChannelTyped /\ BackgroundTyped
         /\ MessagesTyped /\ ContentTyped /\ PageTyped

Inv == Typed /\ Facts

\* The types by the part of the system.
LEMMA TypeParts == TypeOK <=> Typed
BY DEF Typed, TypeOK, PanelTyped, KnowledgeTyped, ClientTyped, ChannelTyped, BackgroundTyped,
       MessagesTyped, ContentTyped, PageTyped, Drafts, Stages, Records, Evaluations, AllEffects

\* The Draft and the coordinator.
LEMMA PanelUnchanged == PanelTyped /\ UNCHANGED panelVars => PanelTyped'
BY DEF PanelTyped, panelVars

\* The page the panel knows.
LEMMA KnowledgeUnchanged == KnowledgeTyped /\ UNCHANGED pageKnowledge => KnowledgeTyped'
BY DEF KnowledgeTyped, pageKnowledge

\* The bridge client.
LEMMA ClientUnchanged == ClientTyped /\ UNCHANGED clientVars => ClientTyped'
BY DEF ClientTyped, clientVars

\* The port.
LEMMA ChannelUnchanged == ChannelTyped /\ UNCHANGED channelVars => ChannelTyped'
BY DEF ChannelTyped, channelVars

\* The background.
LEMMA BackgroundUnchanged == BackgroundTyped /\ UNCHANGED backgroundVars => BackgroundTyped'
BY DEF BackgroundTyped, backgroundVars

\* The content script.
LEMMA ContentUnchanged ==
  ContentTyped /\ UNCHANGED <<active, pendingPageRequests>> => ContentTyped'
BY DEF ContentTyped

\* Messages under way.
LEMMA MessagesUnchanged ==
  MessagesTyped /\ UNCHANGED <<toContent, toService, toPage, pageAnswers>> => MessagesTyped'
BY DEF MessagesTyped

\* The page.
LEMMA PageUnchanged == PageTyped /\ UNCHANGED <<evaluation, pageVars>> => PageTyped'
BY DEF PageTyped, pageVars

\* What a settled request changes.
LEMMA SettledTypes ==
  ASSUME PanelTyped, NEW rs, NEW result \in Results, NEW gone, Settled(rs, result, gone)
  PROVE  PanelTyped' /\ execution' = execution
<1>1. outcomeFromResult(result) \in {"delivered", "blocked", "failed", "partial",
                                     "acknowledgement-unknown"}
  BY DEF outcomeFromResult
<1>2. stage' \in Stages BY DEF Settled, PanelTyped, Stages
<1>3. record' \in Records
  <2>1. PICK disposition \in {"delivered", "blocked", "failed", "partial", "acknowledgement-unknown"} :
          disposition = outcomeFromResult(result)
    BY <1>1
  <2>2. QED BY <2>1 DEF Settled, PanelTyped, Records
<1>4. draft' \in Drafts /\ execution' = execution BY DEF Settled, PanelTyped, Drafts
<1>5. QED BY <1>2, <1>3, <1>4 DEF PanelTyped

\* What posting a request changes.
LEMMA ReinjectTypes ==
  ASSUME PanelTyped, ChannelTyped, NEW r \in Requests, reinjectThroughRuntime(r)
  PROVE  PanelTyped' /\ toBackground' \in Seq(Messages)
<1>1. CASE ~port \/ disposed
  <2>1. Settled({r}, "bridge-error", disposed) /\ UNCHANGED toBackground
    BY <1>1 DEF reinjectThroughRuntime
  <2>2. QED BY <2>1, SettledTypes DEF Results, ChannelTyped
<1>2. CASE ~(~port \/ disposed)
  <2>1. /\ stage' = [stage EXCEPT ![r] = "posted"] /\ UNCHANGED <<draft, execution, record>>
        /\ toBackground' \in {toBackground, Append(toBackground, Request(r))}
    BY <1>2 DEF reinjectThroughRuntime
  <2>2. Append(toBackground, Request(r)) \in Seq(Messages) BY MessageFacts DEF ChannelTyped
  <2>3. QED BY <2>1, <2>2 DEF PanelTyped, Stages, ChannelTyped
<1>3. QED BY <1>1, <1>2

\* What a delivery may do.
Grown(r, took) == Append(effects[r], [took |-> took, page |-> reloads])

LEMMA DeliveryTypes ==
  ASSUME PageTyped, NEW r \in Requests, NEW d \in deliver(r)
  PROVE  /\ d.result \in Results /\ d.effects \in Seq(Effects)
         /\ \/ d.effects = effects[r] /\ d.result \in {"bridge-error", "stale-target"}
            \/ d.effects = Grown(r, "all") /\ d.result = "success"
            \/ d.effects = Grown(r, "some") /\ d.result = "partial"
            \/ d.effects = Grown(r, "none") /\ d.result = "listener-error"
<1>1. effects[r] \in Seq(Effects) /\ reloads \in 0 .. MaxReloads BY DEF PageTyped, AllEffects
<1>2. \A took \in {"all", "some", "none"} : [took |-> took, page |-> reloads] \in Effects
  BY <1>1 DEF Effects
<1>3. \A took \in {"all", "some", "none"} : Grown(r, took) \in Seq(Effects)
  BY <1>1, <1>2 DEF Grown
<1>4. d \in {[result |-> "bridge-error", effects |-> effects[r]],
            [result |-> "stale-target", effects |-> effects[r]],
            [result |-> "success", effects |-> Grown(r, "all")],
            [result |-> "partial", effects |-> Grown(r, "some")],
            [result |-> "listener-error", effects |-> Grown(r, "none")]}
  BY DEF deliver, Grown
<1>5. CASE d = [result |-> "bridge-error", effects |-> effects[r]]
           \/ d = [result |-> "stale-target", effects |-> effects[r]]
  BY <1>1, <1>5 DEF Results
<1>6. CASE d = [result |-> "success", effects |-> Grown(r, "all")] BY <1>3, <1>6 DEF Results
<1>7. CASE d = [result |-> "partial", effects |-> Grown(r, "some")] BY <1>3, <1>7 DEF Results
<1>8. CASE d = [result |-> "listener-error", effects |-> Grown(r, "none")]
  BY <1>3, <1>8 DEF Results
<1>9. QED BY <1>4, <1>5, <1>6, <1>7, <1>8

\* Steps of the runtime and the coordinator.
LEMMA RuntimeTypes ==
  ASSUME Typed,
         \/ enterLocalInjection \/ finishLocalInjection \/ executeLocalInjection
         \/ \E r \in Requests : admitEvidence(r) \/ setLocalInjectionOutcome(r)
  PROVE  Typed'
<1>0. /\ PanelTyped /\ KnowledgeTyped /\ ClientTyped /\ ChannelTyped /\ BackgroundTyped
      /\ MessagesTyped /\ ContentTyped /\ PageTyped
  BY DEF Typed
<1>1. CASE enterLocalInjection
  <2>1. PanelTyped' /\ KnowledgeTyped'
    BY <1>0, <1>1 DEF enterLocalInjection, PanelTyped, KnowledgeTyped, Drafts
  <2>2. UNCHANGED <<clientVars, channelVars, backgroundVars, toContent, toService, contentVars,
                    pageAnswers, evaluation, pageVars>>
    BY <1>1 DEF enterLocalInjection
  <2>3. QED
    BY <1>0, <2>1, <2>2, ClientUnchanged, ChannelUnchanged, BackgroundUnchanged, ContentUnchanged,
       MessagesUnchanged, PageUnchanged DEF Typed, contentVars
<1>2. CASE finishLocalInjection
  <2>1. PanelTyped' BY <1>0, <1>2 DEF finishLocalInjection, PanelTyped, Drafts
  <2>2. UNCHANGED <<pageKnowledge, clientVars, channelVars, backgroundVars, toContent, toService,
                    contentVars, pageAnswers, evaluation, pageVars>>
    BY <1>2 DEF finishLocalInjection
  <2>3. QED
    BY <1>0, <2>1, <2>2, KnowledgeUnchanged, ClientUnchanged, ChannelUnchanged, BackgroundUnchanged,
       ContentUnchanged, MessagesUnchanged, PageUnchanged DEF Typed, contentVars
<1>3. CASE executeLocalInjection
  <2>1. execution + 1 \in Requests /\ execution + 1 \in 0 .. MaxExecutions
    BY <1>0, <1>3, BridgeAssumption DEF executeLocalInjection, PanelTyped, Requests
  <2>2. UNCHANGED <<pageKnowledge, clientVars, toPanel, backgroundVars, toContent, toService,
                    contentVars, pageAnswers, pageVars>>
    BY <1>3 DEF executeLocalInjection
  <2>3. /\ execution' = execution + 1 /\ draft' \in {"outcome", "pending"}
        /\ stage' \in {[stage EXCEPT ![execution + 1] = s] : s \in {"settled", "evaluating", "posted"}}
        /\ \/ UNCHANGED record
           \/ \E problem \in {"stale-target", "bridge-error"} :
                record' = [record EXCEPT ![execution + 1] =
                             [disposition |-> outcomeFromResult(problem), evidence |-> "not-created"]]
        /\ evaluation' \in {evaluation, [evaluation EXCEPT ![execution + 1] = "submitted"]}
        /\ toBackground' \in {toBackground, Append(toBackground, Request(execution + 1))}
    BY <1>3 DEF executeLocalInjection
  <2>4. stage' \in Stages /\ draft' \in Drafts BY <1>0, <2>3 DEF PanelTyped, Stages, Drafts
  <2>5. record' \in Records
    <3>1. outcomeFromResult("stale-target") = "blocked" /\ outcomeFromResult("bridge-error") = "failed"
      BY DEF outcomeFromResult
    <3>2. QED BY <1>0, <2>3, <3>1 DEF PanelTyped, Records
  <2>6. evaluation' \in Evaluations BY <1>0, <2>3 DEF PageTyped, Evaluations
  <2>7. ChannelTyped'
    <3>1. Append(toBackground, Request(execution + 1)) \in Seq(Messages)
      BY <1>0, <2>1, MessageFacts DEF ChannelTyped
    <3>2. QED BY <1>0, <2>2, <2>3, <3>1 DEF ChannelTyped
  <2>8. PanelTyped' /\ PageTyped'
    BY <1>0, <2>1, <2>2, <2>3, <2>4, <2>5, <2>6 DEF PanelTyped, PageTyped, pageVars
  <2>9. QED BY <1>0, <2>2, <2>7, <2>8, KnowledgeUnchanged, ClientUnchanged, BackgroundUnchanged,
       ContentUnchanged, MessagesUnchanged DEF Typed, contentVars
<1>4. ASSUME NEW r \in Requests, admitEvidence(r) PROVE Typed'
  <2>1. draft' \in Drafts /\ stage' \in Stages /\ record' \in Records /\ execution' = execution
    BY <1>0, <1>4 DEF admitEvidence, PanelTyped, Drafts, Stages, Records
  <2>2. UNCHANGED <<pageKnowledge, clientVars, channelVars, backgroundVars, toContent, toService,
                    contentVars, pageAnswers, evaluation, pageVars>>
    BY <1>4 DEF admitEvidence
  <2>3. PanelTyped' BY <1>0, <2>1 DEF PanelTyped
  <2>4. QED
    BY <1>0, <2>2, <2>3, KnowledgeUnchanged, ClientUnchanged, ChannelUnchanged, BackgroundUnchanged,
       ContentUnchanged, MessagesUnchanged, PageUnchanged DEF Typed, contentVars
<1>5. ASSUME NEW r \in Requests, setLocalInjectionOutcome(r) PROVE Typed'
  <2>1. PanelTyped' BY <1>0, <1>5 DEF setLocalInjectionOutcome, PanelTyped, Drafts, Stages
  <2>2. UNCHANGED <<pageKnowledge, clientVars, channelVars, backgroundVars, toContent, toService,
                    contentVars, pageAnswers, evaluation, pageVars>>
    BY <1>5 DEF setLocalInjectionOutcome
  <2>3. QED
    BY <1>0, <2>1, <2>2, KnowledgeUnchanged, ClientUnchanged, ChannelUnchanged, BackgroundUnchanged,
       ContentUnchanged, MessagesUnchanged, PageUnchanged DEF Typed, contentVars
<1>6. QED BY <1>1, <1>2, <1>3, <1>4, <1>5

\* Steps of the bridge client.
LEMMA ClientTypes ==
  ASSUME Typed,
         \/ setPageEpoch \/ disconnect \/ panelReceives \/ connect
         \/ \E r \in Requests : \/ evaluationReturns(r) \/ evaluationTimesOut(r) \/ reinjectionTimesOut(r)
  PROVE  Typed'
<1>0. /\ PanelTyped /\ KnowledgeTyped /\ ClientTyped /\ ChannelTyped /\ BackgroundTyped
      /\ MessagesTyped /\ ContentTyped /\ PageTyped
  BY DEF Typed
<1>1. CASE setPageEpoch
  <2>1. KnowledgeTyped' BY <1>0, <1>1 DEF setPageEpoch, KnowledgeTyped, PageTyped
  <2>2. UNCHANGED <<panelVars, clientVars, channelVars, backgroundVars, toContent, toService,
                    contentVars, pageAnswers, evaluation, pageVars>>
    BY <1>1 DEF setPageEpoch
  <2>3. QED
    BY <1>0, <2>1, <2>2, PanelUnchanged, ClientUnchanged, ChannelUnchanged, BackgroundUnchanged,
       ContentUnchanged, MessagesUnchanged, PageUnchanged DEF Typed, contentVars
<1>2. CASE disconnect
  <2>1. PanelTyped' BY <1>0, <1>2, SettledTypes DEF disconnect, resolvePending, Results
  <2>2. ClientTyped' BY <1>0, <1>2 DEF disconnect, ClientTyped
  <2>3. toBackground' \in Seq(Messages)
    <3>1. toBackground' \in {toBackground, Append(toBackground, Closed)} /\ Closed \in Messages
      BY <1>2, MessageFacts DEF disconnect
    <3>2. QED BY <1>0, <3>1 DEF ChannelTyped
  <2>4. UNCHANGED <<pageKnowledge, toPanel, backgroundVars, toContent, toService, contentVars,
                    pageAnswers, evaluation, pageVars>>
    BY <1>2 DEF disconnect
  <2>5. QED
    BY <1>0, <2>1, <2>2, <2>3, <2>4, KnowledgeUnchanged, BackgroundUnchanged, ContentUnchanged,
       MessagesUnchanged, PageUnchanged DEF Typed, contentVars, ChannelTyped
<1>3. CASE panelReceives
  <2> DEFINE message == Head(toPanel)
  <2>1. Tail(toPanel) \in Seq(PanelMessages) /\ message \in PanelMessages
    BY <1>0, <1>3, ToldTail DEF panelReceives, ChannelTyped
  <2>2. UNCHANGED <<disposed, pageKnowledge, toBackground, backgroundVars, toContent, toService,
                    contentVars, pageAnswers, evaluation, pageVars>> /\ toPanel' = Tail(toPanel)
    BY <1>3 DEF panelReceives
  <2>3. PanelTyped' /\ ClientTyped'
    <3>1. CASE message.type = "connected"
      <4>1. status' = "connected" /\ UNCHANGED <<panelVars, port, reconnecting, cut>>
        BY <1>3, <3>1 DEF panelReceives
      <4>2. QED BY <1>0, <2>2, <4>1, PanelUnchanged DEF ClientTyped
    <3>2. CASE message.type = "result"
      <4>1. /\ \/ Settled({message.answer.request}, message.answer.result, FALSE)
               \/ UNCHANGED panelVars
            /\ UNCHANGED <<port, status, reconnecting, cut>>
        BY <1>3, <3>2 DEF panelReceives
      <4>2. message.answer \in Answers BY <2>1, <3>2, PanelMessageFacts
      <4>3. message.answer.result \in Results BY <4>2, PanelMessageFacts
      <4>4. PanelTyped' BY <1>0, <4>1, <4>3, SettledTypes, PanelUnchanged
      <4>5. QED BY <1>0, <2>2, <4>1, <4>4 DEF ClientTyped
    <3>3. CASE message.type \notin {"connected", "result"}
      <4>1. /\ port' = FALSE /\ status' = "disconnected" /\ reconnecting' = TRUE
            /\ resolvePending(FALSE) /\ UNCHANGED cut
        BY <1>3, <3>3 DEF panelReceives
      <4>2. PanelTyped' BY <1>0, <4>1, SettledTypes DEF resolvePending, Results
      <4>3. QED BY <1>0, <2>2, <4>1, <4>2 DEF ClientTyped
    <3>4. QED BY <3>1, <3>2, <3>3
  <2>4. QED
    BY <1>0, <2>1, <2>2, <2>3, KnowledgeUnchanged, BackgroundUnchanged, ContentUnchanged,
       MessagesUnchanged, PageUnchanged DEF Typed, contentVars, ChannelTyped
<1>4. CASE connect
  <2>1. ClientTyped' BY <1>0, <1>4 DEF connect, ClientTyped
  <2>2. toBackground' \in Seq(Messages)
    <3>1. Register \in Messages /\ toBackground' = <<Register>>
      BY <1>4, MessageFacts DEF connect
    <3>2. QED BY <3>1
  <2>3. UNCHANGED <<panelVars, pageKnowledge, toPanel, backgroundVars, toContent, toService,
                    contentVars, pageAnswers, evaluation, pageVars>>
    BY <1>4 DEF connect
  <2>4. QED
    BY <1>0, <2>1, <2>2, <2>3, PanelUnchanged, KnowledgeUnchanged, BackgroundUnchanged, ContentUnchanged,
       MessagesUnchanged, PageUnchanged DEF Typed, contentVars, ChannelTyped
<1>5. ASSUME NEW r \in Requests, evaluationReturns(r) PROVE Typed'
  <2>1. /\ evaluation' = [evaluation EXCEPT ![r] = "none"]
        /\ evaluation[r] \notin {"none", "submitted"}
        /\ UNCHANGED <<pageKnowledge, clientVars, toPanel, backgroundVars, toContent, toService,
                       contentVars, pageAnswers, pageVars>>
    BY <1>5 DEF evaluationReturns
  <2>2. \/ UNCHANGED <<panelVars, toBackground>>
        \/ reinjectThroughRuntime(r)
        \/ Settled({r}, "acknowledgement-unknown", disposed) /\ UNCHANGED toBackground
        \/ /\ evaluation[r] \notin {"unavailable", "exception"}
           /\ Settled({r}, evaluation[r], disposed) /\ UNCHANGED toBackground
    BY <1>5 DEF evaluationReturns
  <2>3. PanelTyped' /\ toBackground' \in Seq(Messages)
    <3>1. evaluation[r] \notin {"unavailable", "exception"} => evaluation[r] \in Results
      BY <1>0, <2>1 DEF PageTyped, Evaluations
    <3>2. "acknowledgement-unknown" \in Results BY DEF Results
    <3>3. CASE UNCHANGED <<panelVars, toBackground>>
      BY <1>0, <3>3, PanelUnchanged DEF ChannelTyped
    <3>4. CASE reinjectThroughRuntime(r) BY <1>0, <3>4, ReinjectTypes
    <3>5. CASE Settled({r}, "acknowledgement-unknown", disposed) /\ UNCHANGED toBackground
      BY <1>0, <3>2, <3>5, SettledTypes DEF ChannelTyped
    <3>6. CASE /\ evaluation[r] \notin {"unavailable", "exception"}
               /\ Settled({r}, evaluation[r], disposed) /\ UNCHANGED toBackground
      BY <1>0, <3>1, <3>6, SettledTypes DEF ChannelTyped
    <3>7. QED BY <2>2, <3>3, <3>4, <3>5, <3>6
  <2>4. PageTyped' BY <1>0, <2>1 DEF PageTyped, Evaluations, pageVars
  <2>5. QED BY <1>0, <2>1, <2>3, <2>4, KnowledgeUnchanged, ClientUnchanged, BackgroundUnchanged,
       ContentUnchanged, MessagesUnchanged DEF Typed, contentVars, ChannelTyped
<1>6. ASSUME NEW r \in Requests, evaluationTimesOut(r) \/ reinjectionTimesOut(r) PROVE Typed'
  <2>1. /\ Settled({r}, "acknowledgement-unknown", disposed)
        /\ UNCHANGED <<pageKnowledge, clientVars, channelVars, backgroundVars, toContent, toService,
                       contentVars, pageAnswers, evaluation, pageVars>>
    BY <1>6 DEF evaluationTimesOut, reinjectionTimesOut
  <2>2. PanelTyped' BY <1>0, <2>1, SettledTypes DEF Results
  <2>3. QED
    BY <1>0, <2>1, <2>2, KnowledgeUnchanged, ClientUnchanged, ChannelUnchanged, BackgroundUnchanged,
       ContentUnchanged, MessagesUnchanged, PageUnchanged DEF Typed, contentVars
<1>7. QED BY <1>1, <1>2, <1>3, <1>4, <1>5, <1>6

\* What an answer changes in the background.
LEMMA DeliverTypes ==
  ASSUME Typed, NEW answer \in Answers, deliverReinjectionResult(answer)
  PROVE  pendingReinjections' \subseteq Requests /\ toPanel' \in Seq(PanelMessages)
<1>1. pendingReinjections \subseteq Requests /\ toPanel \in Seq(PanelMessages)
  BY DEF Typed, BackgroundTyped, ChannelTyped
<1>2. Append(toPanel, Result(answer)) \in Seq(PanelMessages) BY <1>1 DEF PanelMessages
<1>3. QED BY <1>1, <1>2 DEF deliverReinjectionResult

\* Steps of the background.
LEMMA BackgroundTypes ==
  ASSUME Typed,
         \/ backgroundReceives \/ ServiceStops
         \/ \E r \in Requests : sendMessageFails(r)
         \/ \E answer \in Answers : backgroundReceivesResult(answer)
  PROVE  Typed'
<1>0. /\ PanelTyped /\ KnowledgeTyped /\ ClientTyped /\ ChannelTyped /\ BackgroundTyped
      /\ MessagesTyped /\ ContentTyped /\ PageTyped
  BY DEF Typed
<1>1. CASE backgroundReceives
  <2> DEFINE message == Head(toBackground)
  <2>1. Tail(toBackground) \in Seq(Messages) /\ message \in Messages
    BY <1>0, <1>1, PostedTail DEF backgroundReceives, ChannelTyped
  <2>2. /\ toBackground' = Tail(toBackground)
        /\ UNCHANGED <<stops, panelVars, pageKnowledge, clientVars, toService, contentVars, pageAnswers,
                       evaluation, pageVars>>
    BY <1>1 DEF backgroundReceives
  <2>3. \/ /\ registered' = TRUE /\ toPanel' = Append(toPanel, Connected)
           /\ UNCHANGED <<pendingReinjections, toContent>>
        \/ /\ message.type = "request"
           /\ pendingReinjections' = pendingReinjections \cup {message.request}
           /\ toContent' = toContent \cup {message.request}
           /\ UNCHANGED <<toPanel, registered>>
        \/ /\ message.type = "request"
           /\ toPanel' = Append(toPanel, Result(Answer(message.request, "bridge-error")))
           /\ UNCHANGED <<pendingReinjections, toContent, registered>>
        \/ /\ registered' = FALSE /\ pendingReinjections' = {}
           /\ UNCHANGED <<toPanel, toContent>>
    BY <1>1 DEF backgroundReceives
  <2>4. message.type = "request" => message.request \in Requests BY <2>1, MessageFacts
  <2> HIDE DEF message
  <2>5. registered' \in BOOLEAN BY <1>0, <2>3, Zenon DEF BackgroundTyped
  <2>6. pendingReinjections' \subseteq Requests /\ toContent' \subseteq Requests
    BY <1>0, <2>3, <2>4 DEF BackgroundTyped, MessagesTyped
  <2>7. toPanel' \in Seq(PanelMessages)
    <3>1. Append(toPanel, Connected) \in Seq(PanelMessages)
      BY <1>0, PanelMessageFacts DEF ChannelTyped
    <3>2. message.type = "request" =>
            Append(toPanel, Result(Answer(message.request, "bridge-error"))) \in Seq(PanelMessages)
      <4>1. SUFFICES ASSUME message.type = "request"
                     PROVE  Result(Answer(message.request, "bridge-error")) \in PanelMessages
        BY <1>0 DEF ChannelTyped
      <4>2. message.request \in Requests /\ "bridge-error" \in Results BY <2>4, <4>1 DEF Results
      <4>3. QED BY <4>2, PanelMessageFacts
    <3>3. QED BY <1>0, <2>3, <3>1, <3>2 DEF ChannelTyped
  <2>8. ChannelTyped' /\ BackgroundTyped' /\ MessagesTyped' /\ ContentTyped'
    BY <1>0, <2>1, <2>2, <2>5, <2>6, <2>7 DEF ChannelTyped, BackgroundTyped, MessagesTyped,
    ContentTyped, contentVars
  <2>9. QED
    BY <1>0, <2>2, <2>8, PanelUnchanged, KnowledgeUnchanged, ClientUnchanged, PageUnchanged DEF Typed
<1>2. CASE ServiceStops
  <2>1. /\ stops' \in 0 .. MaxStops /\ registered' = FALSE /\ pendingReinjections' = {}
        /\ toBackground' = <<>> /\ cut' \in {cut, TRUE}
        /\ toPanel' \in {toPanel, Append(toPanel, Disconnect)}
        /\ UNCHANGED <<port, disposed, status, reconnecting, panelVars, pageKnowledge, toContent,
                       toService, contentVars, pageAnswers, evaluation, pageVars>>
    <3>1. stops < MaxStops /\ stops' = stops + 1 /\ stops \in 0 .. MaxStops
      BY <1>0, <1>2 DEF ServiceStops, BackgroundTyped
    <3>2. stops' \in 0 .. MaxStops BY <3>1, BridgeAssumption
    <3>3. QED BY <1>2, <3>2 DEF ServiceStops
  <2>2. Append(toPanel, Disconnect) \in Seq(PanelMessages) /\ toBackground' \in Seq(Messages)
    <3>1. Disconnect \in PanelMessages BY PanelMessageFacts
    <3>2. QED BY <1>0, <2>1, <3>1 DEF ChannelTyped
  <2>3. ChannelTyped' BY <1>0, <2>1, <2>2 DEF ChannelTyped
  <2>4. ClientTyped' /\ BackgroundTyped'
    <3>1. cut' \in BOOLEAN BY <1>0, <2>1, Zenon DEF ClientTyped
    <3>2. QED BY <1>0, <2>1, <3>1 DEF ClientTyped, BackgroundTyped
  <2>5. QED BY <1>0, <2>1, <2>3, <2>4, PanelUnchanged, KnowledgeUnchanged, ContentUnchanged,
       MessagesUnchanged, PageUnchanged DEF Typed, contentVars
<1>3. ASSUME NEW r \in Requests, sendMessageFails(r) PROVE Typed'
  <2>1. /\ toContent' = toContent \ {r}
        /\ \E result \in {"bridge-error", "acknowledgement-unknown"} :
             deliverReinjectionResult(Answer(r, result))
        /\ UNCHANGED <<registered, stops, toBackground, panelVars, pageKnowledge, clientVars,
                       toService, contentVars, pageAnswers, evaluation, pageVars>>
    BY <1>3 DEF sendMessageFails
  <2>2. \A result \in {"bridge-error", "acknowledgement-unknown"} : Answer(r, result) \in Answers
    <3>1. {"bridge-error", "acknowledgement-unknown"} \subseteq Results BY DEF Results
    <3>2. QED BY <3>1, PanelMessageFacts
  <2>3. pendingReinjections' \subseteq Requests /\ toPanel' \in Seq(PanelMessages)
    BY <2>1, <2>2, DeliverTypes
  <2>4. ChannelTyped' /\ BackgroundTyped' /\ MessagesTyped' /\ ContentTyped'
    BY <1>0, <2>1, <2>3 DEF ChannelTyped, BackgroundTyped, MessagesTyped, ContentTyped, contentVars
  <2>5. QED
    BY <1>0, <2>1, <2>4, PanelUnchanged, KnowledgeUnchanged, ClientUnchanged, PageUnchanged DEF Typed
<1>4. ASSUME NEW answer \in Answers, backgroundReceivesResult(answer) PROVE Typed'
  <2>1. /\ toService' = toService \ {answer}
        /\ deliverReinjectionResult(answer) \/ UNCHANGED <<pendingReinjections, toPanel>>
        /\ UNCHANGED <<registered, stops, toBackground, panelVars, pageKnowledge, clientVars,
                       toContent, contentVars, pageAnswers, evaluation, pageVars>>
    BY <1>4 DEF backgroundReceivesResult
  <2>2. pendingReinjections' \subseteq Requests /\ toPanel' \in Seq(PanelMessages)
    BY <1>0, <2>1, DeliverTypes DEF BackgroundTyped, ChannelTyped
  <2>3. ChannelTyped' /\ BackgroundTyped' /\ MessagesTyped' /\ ContentTyped'
    BY <1>0, <2>1, <2>2 DEF ChannelTyped, BackgroundTyped, MessagesTyped, ContentTyped, contentVars
  <2>4. QED
    BY <1>0, <2>1, <2>3, PanelUnchanged, KnowledgeUnchanged, ClientUnchanged, PageUnchanged DEF Typed
<1>5. QED BY <1>1, <1>2, <1>3, <1>4

\* Steps of the content script and the page.
LEMMA PageTypes ==
  ASSUME Typed,
         \/ TargetRetires \/ PageReloads \/ retireBridge
         \/ \E r \in Requests : \/ pageEvaluates(r) \/ forwardReinjectionToPage(r) \/ pageHandles(r)
                                \/ pageRequestTimesOut(r)
         \/ \E answer \in Answers : acceptPageResult(answer)
  PROVE  Typed'
<1>0. /\ PanelTyped /\ KnowledgeTyped /\ ClientTyped /\ ChannelTyped /\ BackgroundTyped
      /\ MessagesTyped /\ ContentTyped /\ PageTyped
  BY DEF Typed
<1>1. CASE TargetRetires
  <2>1. PageTyped' BY <1>0, <1>1 DEF TargetRetires, PageTyped
  <2>2. UNCHANGED <<panelVars, pageKnowledge, clientVars, channelVars, backgroundVars, toContent,
                    toService, contentVars, pageAnswers>>
    BY <1>1 DEF TargetRetires
  <2>3. QED
    BY <1>0, <2>1, <2>2, PanelUnchanged, KnowledgeUnchanged, ClientUnchanged, ChannelUnchanged,
       BackgroundUnchanged, ContentUnchanged, MessagesUnchanged DEF Typed, contentVars
<1>2. CASE PageReloads
  <2>1. /\ reloads < MaxReloads /\ reloads' = reloads + 1
        /\ listening' \in BOOLEAN /\ pageBridge' \in BOOLEAN /\ active' \in BOOLEAN
        /\ pendingPageRequests' = {} /\ toPage' = {} /\ pageAnswers' = {}
        /\ evaluation' = [r \in Requests |-> IF evaluation[r] = "submitted" THEN "exception"
                                             ELSE evaluation[r]]
        /\ UNCHANGED <<panelVars, pageKnowledge, clientVars, channelVars, backgroundVars, toContent,
                       toService, effects>>
    BY <1>2 DEF PageReloads
  <2>2. reloads' \in 0 .. MaxReloads BY <1>0, <2>1, BridgeAssumption DEF PageTyped
  <2>3. evaluation' \in Evaluations BY <1>0, <2>1 DEF PageTyped, Evaluations
  <2>4. PageTyped' /\ ContentTyped' /\ MessagesTyped'
    BY <1>0, <2>1, <2>2, <2>3 DEF PageTyped, ContentTyped, MessagesTyped
  <2>5. QED
    BY <1>0, <2>1, <2>4, PanelUnchanged, KnowledgeUnchanged, ClientUnchanged, ChannelUnchanged,
       BackgroundUnchanged DEF Typed
<1>3. CASE retireBridge
  <2>1. ContentTyped' BY <1>3 DEF retireBridge, ContentTyped
  <2>2. UNCHANGED <<panelVars, pageKnowledge, clientVars, channelVars, backgroundVars, toContent,
                    toService, toPage, pageAnswers, evaluation, pageVars>>
    BY <1>3 DEF retireBridge
  <2>3. QED
    BY <1>0, <2>1, <2>2, PanelUnchanged, KnowledgeUnchanged, ClientUnchanged, ChannelUnchanged,
       BackgroundUnchanged, MessagesUnchanged, PageUnchanged DEF Typed
<1>4. ASSUME NEW r \in Requests, pageEvaluates(r) PROVE Typed'
  <2>1. UNCHANGED <<panelVars, pageKnowledge, clientVars, channelVars, backgroundVars, toContent,
                    toService, contentVars, pageAnswers, pageBridge, listening, reloads>>
    BY <1>4 DEF pageEvaluates
  <2>2. evaluation \in Evaluations /\ effects \in AllEffects BY <1>0 DEF PageTyped
  <2>3. CASE evaluation' \in {[evaluation EXCEPT ![r] = "unavailable"],
                              [evaluation EXCEPT ![r] = "exception"]} /\ UNCHANGED effects
    <3>1. effects' \in AllEffects /\ evaluation' \in Evaluations BY <2>2, <2>3 DEF Evaluations
    <3>2. QED
      BY <1>0, <2>1, <3>1, PanelUnchanged, KnowledgeUnchanged, ClientUnchanged, ChannelUnchanged,
         BackgroundUnchanged, ContentUnchanged, MessagesUnchanged DEF Typed, PageTyped, contentVars
  <2>4. CASE \E d \in deliver(r), valid \in BOOLEAN :
               /\ effects' = [effects EXCEPT ![r] = d.effects]
               /\ evaluation' = [evaluation EXCEPT ![r] = IF valid THEN d.result ELSE "exception"]
    <3>1. PICK d \in deliver(r), valid \in BOOLEAN :
               /\ effects' = [effects EXCEPT ![r] = d.effects]
               /\ evaluation' = [evaluation EXCEPT ![r] = IF valid THEN d.result ELSE "exception"]
      BY <2>4
    <3>2. d.result \in Results /\ d.effects \in Seq(Effects) BY <1>0, DeliveryTypes
    <3>3. effects' \in AllEffects BY <2>2, <3>1, <3>2 DEF AllEffects
    <3>4. evaluation' \in Evaluations BY <2>2, <3>1, <3>2 DEF Evaluations
    <3>5. QED
      BY <1>0, <2>1, <3>3, <3>4, PanelUnchanged, KnowledgeUnchanged, ClientUnchanged, ChannelUnchanged,
         BackgroundUnchanged, ContentUnchanged, MessagesUnchanged DEF Typed, PageTyped, contentVars
  <2>5. QED BY <1>4, <2>3, <2>4 DEF pageEvaluates
<1>5. ASSUME NEW r \in Requests, forwardReinjectionToPage(r) PROVE Typed'
  <2>1. ContentTyped' /\ MessagesTyped'
    BY <1>0, <1>5 DEF forwardReinjectionToPage, ContentTyped, MessagesTyped
  <2>2. UNCHANGED <<panelVars, pageKnowledge, clientVars, channelVars, backgroundVars, evaluation,
                    pageVars>>
    BY <1>5 DEF forwardReinjectionToPage
  <2>3. QED
    BY <1>0, <2>1, <2>2, PanelUnchanged, KnowledgeUnchanged, ClientUnchanged, ChannelUnchanged,
       BackgroundUnchanged, PageUnchanged DEF Typed
<1>6. ASSUME NEW r \in Requests, pageHandles(r) PROVE Typed'
  <2>1. PICK d \in deliver(r) : /\ effects' = [effects EXCEPT ![r] = d.effects]
                                /\ pageAnswers' = pageAnswers \cup {Answer(r, d.result)}
    BY <1>6 DEF pageHandles
  <2>2. /\ toPage' = toPage \ {r}
        /\ UNCHANGED <<panelVars, pageKnowledge, clientVars, channelVars, backgroundVars, toContent,
                       toService, active, pendingPageRequests, evaluation, pageBridge, listening,
                       reloads>>
    BY <1>6 DEF pageHandles
  <2>3. d.result \in Results /\ d.effects \in Seq(Effects) BY <1>0, DeliveryTypes
  <2>4. Answer(r, d.result) \in Answers BY <2>3, PanelMessageFacts
  <2>5. MessagesTyped' BY <1>0, <2>1, <2>2, <2>4 DEF MessagesTyped
  <2>6. effects' \in AllEffects BY <1>0, <2>1, <2>3 DEF PageTyped, AllEffects
  <2>7. PageTyped' /\ ContentTyped' BY <1>0, <2>2, <2>6 DEF PageTyped, ContentTyped
  <2>8. QED
    BY <1>0, <2>2, <2>5, <2>7, PanelUnchanged, KnowledgeUnchanged, ClientUnchanged, ChannelUnchanged,
       BackgroundUnchanged DEF Typed
<1>7. ASSUME NEW answer \in Answers, finish(answer), UNCHANGED <<active, toContent, toPage>>,
             pageAnswers' \subseteq pageAnswers,
             UNCHANGED <<panelVars, pageKnowledge, clientVars, channelVars, backgroundVars,
                         evaluation, pageVars>>
      PROVE  Typed'
  <2>1. ContentTyped' /\ MessagesTyped' BY <1>0, <1>7 DEF finish, ContentTyped, MessagesTyped
  <2>2. QED
    BY <1>0, <1>7, <2>1, PanelUnchanged, KnowledgeUnchanged, ClientUnchanged, ChannelUnchanged,
       BackgroundUnchanged, PageUnchanged DEF Typed
<1>8. ASSUME NEW answer \in Answers, acceptPageResult(answer) PROVE Typed'
  BY <1>7, <1>8 DEF acceptPageResult
<1>9. ASSUME NEW r \in Requests, pageRequestTimesOut(r) PROVE Typed'
  <2>1. Answer(r, "acknowledgement-unknown") \in Answers
    <3>1. "acknowledgement-unknown" \in Results BY DEF Results
    <3>2. QED BY <3>1, PanelMessageFacts
  <2>2. QED BY <1>7, <1>9, <2>1 DEF pageRequestTimesOut
<1>10. QED BY <1>1, <1>2, <1>3, <1>4, <1>5, <1>6, <1>8, <1>9

\* Every step.
LEMMA TypeStep ==
  ASSUME Typed, [Next]_vars PROVE Typed'
<1>1. CASE Next
  BY <1>1, RuntimeTypes, ClientTypes, BackgroundTypes, PageTypes DEF Next, PanelStep, Environment
<1>2. CASE UNCHANGED vars
  BY <1>2, PanelUnchanged, KnowledgeUnchanged, ClientUnchanged, ChannelUnchanged, BackgroundUnchanged,
     ContentUnchanged, MessagesUnchanged, PageUnchanged DEF Typed, vars, contentVars
<1>3. QED BY <1>1, <1>2
-----------------------------------------------------------------------------
(* What the steps keep                                                     *)

\* What the listeners took, of requests that had one effect at most.
LEMMA TookOnce ==
  /\ \A r : effects[r] = <<>> => Took(r) = {}
  /\ \A r, took, page : effects[r] = <<[took |-> took, page |-> page]>> => Took(r) = {took}
<1>1. ASSUME NEW r, effects[r] = <<>> PROVE Took(r) = {} BY <1>1 DEF Took
<1>2. ASSUME NEW r, NEW took, NEW page, effects[r] = <<[took |-> took, page |-> page]>>
      PROVE  Took(r) = {took}
  <2>1. Len(effects[r]) = 1 /\ effects[r][1] = [took |-> took, page |-> page] BY <1>2
  <2>2. 1 .. Len(effects[r]) = {1} BY <2>1
  <2>3. QED BY <2>1, <2>2 DEF Took
<1>3. QED BY <1>1, <1>2

\* Of a request without effect.
LEMMA NothingTook ==
  ASSUME NEW r, effects[r] = <<>> PROVE Says(r, "stale-target") /\ Says(r, "bridge-error")
BY TookOnce DEF Says

\* Results with the same outcome say the same.
LEMMA SameOutcome ==
  ASSUME NEW x \in Known, NEW y \in Results, outcomeFromResult(x) = outcomeFromResult(y)
  PROVE  y \in Known /\ \A r : Says(r, x) <=> Says(r, y)
BY DEF Known, Results, outcomeFromResult, Says

\* What the coordinator claims of requests that are settled.
LEMMA SettledClaims ==
  ASSUME Typed, NEW rs, NEW result \in Results, NEW gone, Settled(rs, result, gone),
         NEW r \in Requests, NEW x \in Known, PanelClaims(r, x)'
  PROVE  \/ PanelClaims(r, x)
         \/ r \in rs /\ outcomeFromResult(x) = outcomeFromResult(result)
<1>1. CASE r \notin rs BY <1>1 DEF Settled, PanelClaims
<1>2. CASE r \in rs
  <2> DEFINE admits == outcomeFromResult(result) = "delivered" /\ ~gone
  <2>1. CASE admits
    <3>1. record'[r] = record[r] /\ outcomeFromResult(result) = outcomeFromResult("success")
      BY <1>2, <2>1 DEF Settled, outcomeFromResult
    <3>2. QED BY <1>2, <3>1 DEF PanelClaims
  <2>2. CASE ~admits
    <3>1. stage'[r] = "settled" /\ record'[r].disposition = outcomeFromResult(result)
      BY <1>2, <2>2 DEF Settled
    <3>2. QED BY <1>2, <3>1 DEF PanelClaims
  <2>3. QED BY <2>1, <2>2
<1>3. QED BY <1>1, <1>2

\* An outcome that is unknown claims nothing.
LEMMA UnknownClaims ==
  ASSUME Typed, NEW rs, NEW gone, Settled(rs, "acknowledgement-unknown", gone)
  PROVE  \A r \in Requests, x \in Known : PanelClaims(r, x)' => PanelClaims(r, x)
<1>1. "acknowledgement-unknown" \in Results /\ "acknowledgement-unknown" \notin Known
  BY DEF Results, Known
<1>2. QED BY <1>1, SettledClaims, SameOutcome

\* A step without effect: requests go from one place to another or vanish, new ones
\* are executed, and what is said is repeated or so.
LEMMA KeptByMoving ==
  ASSUME Typed, Facts, OnePlace', UNCHANGED effects,
         execution' \in Nat, execution' >= execution,
         \A r \in Requests : Live(r)' => r <= execution' /\ (Live(r) \/ r > execution),
         \A r \in Requests, result \in Known : Claimed(r, result)' =>
           Claimed(r, result) \/ (r <= execution' /\ ~Live(r)' /\ Says(r, result))
  PROVE  Facts'
<1>1. execution \in Nat /\ \A r \in Requests : r \in Nat
  BY BridgeAssumption DEF Typed, PanelTyped, Requests
<1>2. \A r, result : Says(r, result)' <=> Says(r, result) BY DEF Says, Took
<1>3. LiveIsUnsent' BY DEF Facts, LiveIsUnsent, UnusedIsUntouched
<1>4. ASSUME NEW r \in Requests, NEW result \in Known, Claimed(r, result)'
      PROVE  ~Live(r)' /\ Says(r, result)' /\ r <= execution'
  <2>1. CASE Claimed(r, result)
    <3>1. ~Live(r) /\ Says(r, result) /\ ~(r > execution)
      BY <2>1 DEF Facts, ClaimsAreTrue, UnusedIsUntouched
    <3>2. QED BY <1>1, <1>2, <3>1
  <2>2. CASE r <= execution' /\ ~Live(r)' /\ Says(r, result) BY <1>2, <2>2
  <2>3. QED BY <1>4, <2>1, <2>2
<1>5. ClaimsAreTrue' BY <1>4 DEF ClaimsAreTrue
<1>6. UnusedIsUntouched'
  <2>1. ASSUME NEW r \in Requests, r > execution'
        PROVE  /\ ~Live(r)' /\ effects'[r] = <<>>
               /\ \A result \in Known : ~Claimed(r, result)'
    <3>1. r > execution /\ ~(r <= execution') BY <1>1, <2>1
    <3>2. QED BY <1>4, <3>1 DEF Facts, UnusedIsUntouched
  <2>2. QED BY <2>1 DEF UnusedIsUntouched
<1>7. AtMostOnce' BY DEF Facts, AtMostOnce
<1>8. QED BY <1>3, <1>5, <1>6, <1>7 DEF Facts

\* A delivery: the request is gone, and the answer says what it did.
LEMMA KeptByDelivery ==
  ASSUME Typed, Facts, OnePlace', NEW r \in Requests, Live(r), ~Live(r)', NEW d \in deliver(r),
         effects' = [effects EXCEPT ![r] = d.effects], UNCHANGED execution,
         \A q \in Requests : Live(q)' => Live(q),
         \A q \in Requests, result \in Known :
           Claimed(q, result)' => Claimed(q, result) \/ (q = r /\ result = d.result)
  PROVE  Facts'
<1>1. effects \in AllEffects /\ effects[r] = <<>> BY DEF Facts, LiveIsUnsent, Typed, PageTyped
<1>2. effects'[r] = d.effects /\ \A q \in Requests : q # r => effects'[q] = effects[q]
  BY <1>1 DEF AllEffects
<1>3. /\ d.result \in Results
      /\ \/ d.effects = <<>> /\ d.result \in {"bridge-error", "stale-target"}
         \/ d.effects = <<[took |-> "all", page |-> reloads]>> /\ d.result = "success"
         \/ d.effects = <<[took |-> "some", page |-> reloads]>> /\ d.result = "partial"
         \/ d.effects = <<[took |-> "none", page |-> reloads]>> /\ d.result = "listener-error"
  <2>1. \A took : Grown(r, took) = <<[took |-> took, page |-> reloads]>> BY <1>1 DEF Grown
  <2>2. QED BY <1>1, <2>1, DeliveryTypes DEF Typed
<1>4. /\ d.effects = <<>> => Took(r)' = {}
      /\ \A took, page : d.effects = <<[took |-> took, page |-> page]>> => Took(r)' = {took}
  <2>1. Took(r)' = {d.effects[i].took : i \in 1 .. Len(d.effects)} BY <1>2 DEF Took
  <2>2. ASSUME NEW took, NEW page, d.effects = <<[took |-> took, page |-> page]>>
        PROVE  Took(r)' = {took}
    <3>1. Len(d.effects) = 1 /\ d.effects[1] = [took |-> took, page |-> page] BY <2>2
    <3>2. 1 .. Len(d.effects) = {1} BY <3>1
    <3>3. QED BY <2>1, <3>1, <3>2
  <2>3. d.effects = <<>> => Took(r)' = {} BY <2>1
  <2>4. QED BY <2>2, <2>3
<1>5. Says(r, d.result)'
  <2>1. CASE d.effects = <<>> /\ d.result \in {"bridge-error", "stale-target"}
    BY <1>2, <1>4, <2>1 DEF Says
  <2>2. CASE d.effects = <<[took |-> "all", page |-> reloads]>> /\ d.result = "success"
    BY <1>4, <2>2 DEF Says
  <2>3. CASE d.effects = <<[took |-> "some", page |-> reloads]>> /\ d.result = "partial"
    BY <1>4, <2>3 DEF Says
  <2>4. CASE d.effects = <<[took |-> "none", page |-> reloads]>> /\ d.result = "listener-error"
    BY <1>4, <2>4 DEF Says
  <2>5. QED BY <1>3, <2>1, <2>2, <2>3, <2>4
<1>6. \A q \in Requests : \A result : q # r => (Says(q, result)' <=> Says(q, result))
  BY <1>2 DEF Says, Took
<1>7. \A result \in Known : ~Claimed(r, result) BY DEF Facts, ClaimsAreTrue
<1>8. ~(r > execution) BY DEF Facts, UnusedIsUntouched
<1>9. LiveIsUnsent' BY <1>2 DEF Facts, LiveIsUnsent
<1>10. ClaimsAreTrue'
  <2>1. ASSUME NEW q \in Requests, NEW result \in Known, Claimed(q, result)'
        PROVE  ~Live(q)' /\ Says(q, result)'
    <3>1. CASE q = r BY <1>5, <1>7, <2>1, <3>1
    <3>2. CASE q # r
      <4>1. Claimed(q, result) BY <2>1, <3>2
      <4>2. QED BY <1>6, <3>2, <4>1 DEF Facts, ClaimsAreTrue
    <3>3. QED BY <3>1, <3>2
  <2>2. QED BY <2>1 DEF ClaimsAreTrue
<1>11. UnusedIsUntouched'
  <2>1. ASSUME NEW q \in Requests, q > execution
        PROVE  /\ ~Live(q)' /\ effects'[q] = <<>>
               /\ \A result \in Known : ~Claimed(q, result)'
    BY <1>2, <1>8, <2>1 DEF Facts, UnusedIsUntouched
  <2>2. QED BY <2>1 DEF UnusedIsUntouched
<1>12. AtMostOnce'
  <2>1. PICK s : s = d.effects OBVIOUS
  <2>2. s = <<>> \/ \E took : s = <<[took |-> took, page |-> reloads]>> BY <1>3, <2>1
  <2>3. Len(s) <= 1
    <3>1. CASE s = <<>> BY <3>1
    <3>2. ASSUME NEW took, s = <<[took |-> took, page |-> reloads]>> PROVE Len(s) <= 1 BY <3>2
    <3>3. QED BY <2>2, <3>1, <3>2
  <2>4. \A q \in Requests : q # r => Len(effects'[q]) <= 1 BY <1>2 DEF Facts, AtMostOnce
  <2>5. effects'[r] = s BY <1>2, <2>1
  <2>6. QED BY <2>3, <2>4, <2>5 DEF AtMostOnce
<1>13. QED BY <1>9, <1>10, <1>11, <1>12 DEF Facts
-----------------------------------------------------------------------------
(* Kinds of steps                                                          *)

\* Requests that only vanish are still in one place at most.
LEMMA Vanishing ==
  ASSUME OnePlace,
         \A r \in Requests :
           /\ PostedOnce(toBackground', r)
           /\ Posted(toBackground', r) => Posted(toBackground, r)
           /\ evaluation'[r] \in {"submitted", "unavailable"} => Evaluating(r)
           /\ r \in toContent' => r \in toContent
           /\ r \in toPage' => r \in toPage
  PROVE  OnePlace' /\ \A r \in Requests : Live(r)' => Live(r)
<1>1. \A r \in Requests : Evaluating(r)' => Evaluating(r) BY DEF Evaluating
<1>2. OnePlace' BY <1>1 DEF OnePlace
<1>3. \A r \in Requests : Live(r)' => Live(r) BY <1>1 DEF Live
<1>4. QED BY <1>2, <1>3

\* A claim of the same outcome.
Repeated(r, result) ==
  \E y \in Results : Claimed(r, y) /\ outcomeFromResult(result) = outcomeFromResult(y)

\* A step that executes nothing: what is newly said repeats what was said, or is
\* so of a request that has just gone.
LEMMA KeptByLeaving ==
  ASSUME Typed, Facts, OnePlace', UNCHANGED <<effects, execution>>,
         \A r \in Requests : Live(r)' => Live(r),
         \A r \in Requests, result \in Known : Claimed(r, result)' =>
           \/ Claimed(r, result) \/ Repeated(r, result)
           \/ Live(r) /\ ~Live(r)' /\ Says(r, result)
  PROVE  Facts'
<1>1. execution \in Nat /\ execution' = execution /\ \A r \in Requests : r \in Nat
  BY BridgeAssumption DEF Typed, PanelTyped, Requests
<1>2. \A r \in Requests : Live(r) => r <= execution BY <1>1 DEF Facts, UnusedIsUntouched
<1>3. ASSUME NEW r \in Requests, NEW result \in Known, Repeated(r, result)
      PROVE  r <= execution /\ ~Live(r) /\ Says(r, result)
  <2>1. PICK y \in Results : Claimed(r, y) /\ outcomeFromResult(result) = outcomeFromResult(y)
    BY <1>3 DEF Repeated
  <2>2. y \in Known /\ (Says(r, result) <=> Says(r, y)) BY <2>1, SameOutcome
  <2>3. ~Live(r) /\ Says(r, y) /\ ~(r > execution)
    BY <2>1, <2>2 DEF Facts, ClaimsAreTrue, UnusedIsUntouched
  <2>4. QED BY <1>1, <2>2, <2>3
<1>4. \A r \in Requests : Live(r)' => r <= execution' /\ (Live(r) \/ r > execution)
  BY <1>1, <1>2
<1>5. \A r \in Requests, result \in Known : Claimed(r, result)' =>
        Claimed(r, result) \/ (r <= execution' /\ ~Live(r)' /\ Says(r, result))
  BY <1>1, <1>2, <1>3
<1>6. execution' \in Nat /\ execution' >= execution /\ UNCHANGED effects BY <1>1
<1>7. QED BY <1>4, <1>5, <1>6, KeptByMoving

\* A step that moves no request.
LEMMA KeptInPlace ==
  ASSUME Typed, Facts,
         UNCHANGED <<effects, execution, evaluation, toBackground, toContent, toPage>>,
         \A r \in Requests, result \in Known : Claimed(r, result)' =>
           Claimed(r, result) \/ Repeated(r, result)
  PROVE  Facts'
<1>1. \A r \in Requests :
        /\ PostedOnce(toBackground', r)
        /\ Posted(toBackground', r) => Posted(toBackground, r)
        /\ evaluation'[r] \in {"submitted", "unavailable"} => Evaluating(r)
        /\ r \in toContent' => r \in toContent
        /\ r \in toPage' => r \in toPage
  BY DEF Facts, OnePlace, Evaluating
<1>2. OnePlace' /\ \A r \in Requests : Live(r)' => Live(r) BY <1>1, Vanishing DEF Facts
<1>3. QED BY <1>2, KeptByLeaving

\* A step that says nothing new either.
LEMMA KeptUntouched ==
  ASSUME Typed, Facts,
         UNCHANGED <<effects, execution, evaluation, toBackground, toContent, toPage,
                     stage, record, pageAnswers, toService, toPanel>>
  PROVE  Facts'
<1>1. \A r \in Requests, result \in Known : Claimed(r, result)' => Claimed(r, result)
  BY DEF Claimed, PanelClaims
<1>2. QED BY <1>1, KeptInPlace

\* The answer of the background repeats the one it was given.
LEMMA AnswerClaims ==
  ASSUME Typed, NEW answer \in Answers, deliverReinjectionResult(answer) \/ UNCHANGED toPanel,
         NEW r \in Requests, NEW result \in Known, Told(toPanel', r, result)
  PROVE  Told(toPanel, r, result) \/ answer = Answer(r, result)
<1>1. toPanel \in Seq(PanelMessages) /\ Result(answer) \in PanelMessages
  BY DEF Typed, ChannelTyped, PanelMessages
<1>2. toPanel' = toPanel \/ toPanel' = Append(toPanel, Result(answer))
  BY DEF deliverReinjectionResult
<1>3. Told(toPanel, r, result) \/ Result(answer) = Result(Answer(r, result))
  BY <1>1, <1>2, ToldAppend
<1>4. Answer(r, result) \in Answers BY PanelMessageFacts DEF Known
<1>5. QED BY <1>3, <1>4, PanelMessageFacts
-----------------------------------------------------------------------------
(* The panel's steps                                                       *)

\* The Draft, the page the panel knows, the target and the content script.
LEMMA UntouchedStep ==
  ASSUME Typed, Facts,
         \/ enterLocalInjection \/ finishLocalInjection \/ setPageEpoch \/ TargetRetires \/ retireBridge
         \/ UNCHANGED vars
  PROVE  Facts'
<1>1. UNCHANGED <<effects, execution, evaluation, toBackground, toContent, toPage,
                  stage, record, pageAnswers, toService, toPanel>>
  BY DEF enterLocalInjection, finishLocalInjection, setPageEpoch, TargetRetires, retireBridge, vars,
         panelVars, pageKnowledge, clientVars, channelVars, backgroundVars, contentVars, pageVars
<1>2. QED BY <1>1, KeptUntouched

\* The synthetic Evidence settles, its identity is resolved.
LEMMA AdmissionStep ==
  ASSUME Typed, Facts, NEW r \in Requests, admitEvidence(r) \/ setLocalInjectionOutcome(r)
  PROVE  Facts'
<1>1. UNCHANGED <<effects, execution, evaluation, toBackground, toContent, toPage,
                  pageAnswers, toService, toPanel>>
  BY DEF admitEvidence, setLocalInjectionOutcome, pageKnowledge, clientVars, channelVars,
         backgroundVars, contentVars, pageVars
<1>2. stage \in Stages /\ record \in Records BY DEF Typed, PanelTyped
<1>3. ASSUME NEW q \in Requests, NEW result \in Known, PanelClaims(q, result)'
      PROVE  PanelClaims(q, result)
  <2>1. CASE admitEvidence(r)
    <3>1. PICK evidence \in {"committed", "delivered-unretained"} :
            /\ record' = [record EXCEPT ![r] = [disposition |-> "delivered", evidence |-> evidence]]
            /\ stage' = [stage EXCEPT ![r] = IF evidence = "committed" THEN "identifying" ELSE "settled"]
      BY <2>1 DEF admitEvidence
    <3>2. CASE q = r
      <4>1. stage'[r] # "admitting" /\ record'[r].disposition = "delivered" /\ stage[r] = "admitting"
        BY <1>2, <2>1, <3>1 DEF Stages, Records, admitEvidence
      <4>2. outcomeFromResult(result) = "delivered" BY <1>3, <3>2, <4>1 DEF PanelClaims
      <4>3. result = "success" BY <4>2 DEF outcomeFromResult
      <4>4. QED BY <3>2, <4>1, <4>3 DEF PanelClaims
    <3>3. CASE q # r
      <4>1. stage'[q] = stage[q] /\ record'[q] = record[q]
        BY <1>2, <3>1, <3>3 DEF Stages, Records
      <4>2. QED BY <1>3, <4>1 DEF PanelClaims
    <3>4. QED BY <3>2, <3>3
  <2>2. CASE setLocalInjectionOutcome(r)
    BY <1>2, <1>3, <2>2 DEF PanelClaims, setLocalInjectionOutcome, Stages
  <2>3. QED BY <2>1, <2>2
<1>4. \A q \in Requests, result \in Known : Claimed(q, result)' => Claimed(q, result)
  BY <1>1, <1>3 DEF Claimed
<1>5. QED BY <1>1, <1>4, KeptInPlace

\* The timers of the evaluation and of the posted request: the outcome is unknown.
LEMMA TimeoutStep ==
  ASSUME Typed, Facts, NEW r \in Requests, evaluationTimesOut(r) \/ reinjectionTimesOut(r)
  PROVE  Facts'
<1>1. /\ Settled({r}, "acknowledgement-unknown", disposed)
      /\ UNCHANGED <<pageKnowledge, clientVars, channelVars, backgroundVars, toContent, toService,
                     contentVars, pageAnswers, evaluation, pageVars>>
  BY DEF evaluationTimesOut, reinjectionTimesOut
<1>2. UNCHANGED <<effects, execution, evaluation, toBackground, toContent, toPage,
                  pageAnswers, toService, toPanel>>
  BY <1>1 DEF Settled, channelVars, contentVars, pageVars
<1>3. \A q \in Requests, result \in Known : PanelClaims(q, result)' => PanelClaims(q, result)
  BY <1>1, UnknownClaims
<1>4. \A q \in Requests, result \in Known : Claimed(q, result)' => Claimed(q, result)
  BY <1>2, <1>3 DEF Claimed
<1>5. QED BY <1>2, <1>4, KeptInPlace

\* The panel reads its port: a result it still waits for is recorded as it is.
LEMMA ReceiveStep ==
  ASSUME Typed, Facts, panelReceives PROVE Facts'
<1> DEFINE message == Head(toPanel)
<1>1. /\ toPanel \in Seq(PanelMessages) /\ toPanel # <<>> /\ toPanel' = Tail(toPanel)
      /\ UNCHANGED <<effects, evaluation, toBackground, toContent, toPage, pageAnswers, toService>>
  BY DEF panelReceives, Typed, ChannelTyped, contentVars, pageVars
<1>2. message \in PanelMessages BY <1>1, ToldTail
<1>3. \/ UNCHANGED panelVars
      \/ Settled({q \in Requests : stage[q] = "posted"}, "acknowledgement-unknown", FALSE)
      \/ message.type = "result" /\ Settled({message.answer.request}, message.answer.result, FALSE)
  BY DEF panelReceives, resolvePending
<1>4. execution' = execution BY <1>3 DEF Settled, panelVars
<1>5. ASSUME NEW r \in Requests, NEW result \in Known, PanelClaims(r, result)'
      PROVE  PanelClaims(r, result) \/ Repeated(r, result)
  <2>1. CASE UNCHANGED panelVars BY <1>5, <2>1 DEF PanelClaims, panelVars
  <2>2. CASE Settled({q \in Requests : stage[q] = "posted"}, "acknowledgement-unknown", FALSE)
    BY <1>5, <2>2, UnknownClaims
  <2>3. CASE message.type = "result" /\ Settled({message.answer.request}, message.answer.result, FALSE)
    <3> DEFINE answer == message.answer
    <3>1. /\ message = Result(answer) /\ answer = Answer(answer.request, answer.result)
          /\ answer.request \in Requests /\ answer.result \in Results
      BY <1>2, <2>3, PanelMessageFacts
    <3>2. Told(toPanel, answer.request, answer.result) BY <1>1, <3>1, ToldTail
    <3>3. \/ PanelClaims(r, result)
          \/ r = answer.request /\ outcomeFromResult(result) = outcomeFromResult(answer.result)
      <4>1. PICK q \in Requests, x \in Results : q = answer.request /\ x = answer.result BY <3>1
      <4>2. Settled({q}, x, FALSE) BY <2>3, <4>1
      <4>3. PanelClaims(r, result) \/ (r \in {q} /\ outcomeFromResult(result) = outcomeFromResult(x))
        BY <1>5, <4>2, SettledClaims
      <4>4. QED BY <4>1, <4>3
    <3>4. QED BY <3>1, <3>2, <3>3 DEF Repeated, Claimed
  <2>4. QED BY <1>3, <2>1, <2>2, <2>3
<1>6. \A r \in Requests, result \in Known : Told(toPanel', r, result) => Told(toPanel, r, result)
  BY <1>1, ToldTail
<1>7. \A r \in Requests, result \in Known :
        Claimed(r, result)' => Claimed(r, result) \/ Repeated(r, result)
  BY <1>1, <1>5, <1>6 DEF Claimed
<1>8. QED BY <1>1, <1>4, <1>7, KeptInPlace

\* The panel closes, or has a new port: a posted request stays or is lost.
LEMMA PortStep ==
  ASSUME Typed, Facts, disconnect \/ connect PROVE Facts'
<1>1. /\ toBackground \in Seq(Messages)
      /\ \A r \in Requests : Register # Request(r) /\ Closed # Request(r)
  BY MessageFacts DEF Typed, ChannelTyped
<1>2. /\ UNCHANGED <<effects, execution, evaluation, toContent, toPage, pageAnswers, toService, toPanel>>
      /\ \/ toBackground' = toBackground \/ toBackground' = Append(toBackground, Closed)
         \/ toBackground' = <<Register>>
      /\ \/ UNCHANGED panelVars
         \/ Settled({q \in Requests : stage[q] = "posted"}, "acknowledgement-unknown", TRUE)
  BY DEF disconnect, connect, resolvePending, Settled, panelVars, contentVars, pageVars
<1>3. \A r \in Requests, result \in Known : PanelClaims(r, result)' => PanelClaims(r, result)
  <2>1. CASE UNCHANGED panelVars BY <2>1 DEF PanelClaims, panelVars
  <2>2. CASE Settled({q \in Requests : stage[q] = "posted"}, "acknowledgement-unknown", TRUE)
    BY <2>2, UnknownClaims
  <2>3. QED BY <1>2, <2>1, <2>2
<1>4. ASSUME NEW r \in Requests
      PROVE  PostedOnce(toBackground', r) /\ (Posted(toBackground', r) => Posted(toBackground, r))
  <2>1. PostedOnce(toBackground, r) BY DEF Facts, OnePlace
  <2>2. CASE toBackground' = toBackground BY <2>1, <2>2
  <2>3. CASE toBackground' = Append(toBackground, Closed)
    BY <1>1, <2>1, <2>3, PostedAppend, MessageFacts
  <2>4. CASE toBackground' = <<Register>>
    <3>1. \A i \in 1 .. Len(<<Register>>) : <<Register>>[i] # Request(r) BY <1>1
    <3>2. QED BY <2>4, <3>1 DEF Posted, PostedOnce
  <2>5. QED BY <1>2, <2>2, <2>3, <2>4
<1>5. OnePlace' /\ \A r \in Requests : Live(r)' => Live(r)
  BY <1>2, <1>4, Vanishing DEF Facts, Evaluating
<1>6. \A r \in Requests, result \in Known : Claimed(r, result)' => Claimed(r, result)
  BY <1>2, <1>3 DEF Claimed
<1>7. QED BY <1>2, <1>5, <1>6, KeptByLeaving
-----------------------------------------------------------------------------
(* Steps of the page and of the content script                             *)

\* The answer of the page is passed on, or made up when the page is too slow.
LEMMA AnswerStep ==
  ASSUME Typed, Facts,
         \/ \E answer \in Answers : acceptPageResult(answer) \/ backgroundReceivesResult(answer)
         \/ \E r \in Requests : pageRequestTimesOut(r)
  PROVE  Facts'
<1>1. UNCHANGED <<effects, execution, evaluation, toBackground, toContent, toPage, stage, record>>
  BY DEF acceptPageResult, backgroundReceivesResult, pageRequestTimesOut, panelVars, channelVars,
         contentVars, pageVars
<1>2. ASSUME NEW r \in Requests, NEW result \in Known, Claimed(r, result)'
      PROVE  Claimed(r, result)
  <2>1. \/ PanelClaims(r, result) \/ evaluation[r] = result
        \/ Answer(r, result) \in pageAnswers' \/ Answer(r, result) \in toService'
        \/ Told(toPanel', r, result)
    BY <1>1, <1>2 DEF Claimed, PanelClaims
  <2>2. ASSUME NEW answer \in Answers, acceptPageResult(answer) PROVE Claimed(r, result)
    <3>1. /\ answer \in pageAnswers /\ pageAnswers' \subseteq pageAnswers
          /\ toService' \subseteq toService \cup {answer} /\ toPanel' = toPanel
      BY <2>2 DEF acceptPageResult, finish, channelVars
    <3>2. QED BY <2>1, <3>1 DEF Claimed
  <2>3. ASSUME NEW answer \in Answers, backgroundReceivesResult(answer) PROVE Claimed(r, result)
    <3>1. /\ answer \in toService /\ toService' \subseteq toService /\ pageAnswers' = pageAnswers
          /\ deliverReinjectionResult(answer) \/ UNCHANGED toPanel
      BY <2>3 DEF backgroundReceivesResult
    <3>2. Told(toPanel', r, result) => Told(toPanel, r, result) \/ answer = Answer(r, result)
      BY <3>1, AnswerClaims
    <3>3. QED BY <2>1, <3>1, <3>2 DEF Claimed
  <2>4. ASSUME NEW q \in Requests, pageRequestTimesOut(q) PROVE Claimed(r, result)
    <3>1. /\ toService' \subseteq toService \cup {Answer(q, "acknowledgement-unknown")}
          /\ pageAnswers' = pageAnswers /\ toPanel' = toPanel
      BY <2>4 DEF pageRequestTimesOut, finish, channelVars
    <3>2. Answer(r, result) # Answer(q, "acknowledgement-unknown")
      BY PanelMessageFacts DEF Known
    <3>3. QED BY <2>1, <3>1, <3>2 DEF Claimed
  <2>5. QED BY <2>2, <2>3, <2>4
<1>3. QED BY <1>1, <1>2, KeptInPlace

\* The expression runs in the page.
LEMMA EvaluateStep ==
  ASSUME Typed, Facts, NEW r \in Requests, pageEvaluates(r) PROVE Facts'
<1>1. /\ UNCHANGED <<execution, toBackground, toContent, toPage, stage, record, pageAnswers, toService, toPanel>>
      /\ evaluation[r] = "submitted" /\ evaluation \in Evaluations
  BY DEF pageEvaluates, panelVars, channelVars, contentVars, Typed, PageTyped
<1>2. PICK outcome : evaluation' = [evaluation EXCEPT ![r] = outcome] BY DEF pageEvaluates
<1>3. evaluation'[r] = outcome /\ \A q \in Requests : q # r => evaluation'[q] = evaluation[q]
  BY <1>1, <1>2 DEF Evaluations
<1>4. Evaluating(r) /\ Live(r) /\ ~Posted(toBackground, r) /\ r \notin toContent /\ r \notin toPage
  BY <1>1 DEF Facts, OnePlace, Evaluating, Live
<1>5. OnePlace' /\ \A q \in Requests : Live(q)' => Live(q)
  <2>1. ASSUME NEW q \in Requests
        PROVE  /\ PostedOnce(toBackground', q)
               /\ Posted(toBackground', q) => Posted(toBackground, q)
               /\ evaluation'[q] \in {"submitted", "unavailable"} => Evaluating(q)
               /\ q \in toContent' => q \in toContent
               /\ q \in toPage' => q \in toPage
    BY <1>1, <1>3, <1>4 DEF Facts, OnePlace, Evaluating
  <2>2. QED BY <2>1, Vanishing DEF Facts
<1>6. ASSUME NEW q \in Requests, NEW result \in Known, Claimed(q, result)'
      PROVE  Claimed(q, result) \/ (q = r /\ result = outcome)
  BY <1>1, <1>3, <1>6 DEF Claimed, PanelClaims
<1>7. CASE outcome \in {"unavailable", "exception"} /\ UNCHANGED effects
  <2>1. outcome \notin Known BY <1>7 DEF Known, Results
  <2>2. QED BY <1>1, <1>5, <1>6, <1>7, <2>1, KeptByLeaving
<1>8. ASSUME NEW d \in deliver(r), NEW valid \in BOOLEAN,
             effects' = [effects EXCEPT ![r] = d.effects], outcome = IF valid THEN d.result ELSE "exception"
      PROVE  Facts'
  <2>1. d.result \in Results BY DeliveryTypes DEF Typed
  <2>2. outcome \notin {"submitted", "unavailable"} /\ (outcome \in Known => outcome = d.result)
    BY <1>8, <2>1 DEF Known, Results
  <2>3. ~Live(r)' BY <1>1, <1>3, <1>4, <2>2 DEF Live, Evaluating
  <2>4. \A q \in Requests, result \in Known :
          Claimed(q, result)' => Claimed(q, result) \/ (q = r /\ result = d.result)
    BY <1>6, <2>2
  <2>5. QED BY <1>1, <1>4, <1>5, <1>8, <2>3, <2>4, KeptByDelivery
<1>9. \/ outcome \in {"unavailable", "exception"} /\ UNCHANGED effects
      \/ \E d \in deliver(r), valid \in BOOLEAN :
           /\ effects' = [effects EXCEPT ![r] = d.effects]
           /\ outcome = IF valid THEN d.result ELSE "exception"
  <2>1. CASE /\ evaluation' = [evaluation EXCEPT ![r] = "unavailable"]
             /\ UNCHANGED effects
    BY <1>1, <1>3, <2>1 DEF Evaluations
  <2>2. CASE evaluation' = [evaluation EXCEPT ![r] = "exception"] /\ UNCHANGED effects
    BY <1>1, <1>3, <2>2 DEF Evaluations
  <2>3. ASSUME NEW d \in deliver(r), NEW valid \in BOOLEAN,
               effects' = [effects EXCEPT ![r] = d.effects],
               evaluation' = [evaluation EXCEPT ![r] = IF valid THEN d.result ELSE "exception"]
        PROVE  outcome = IF valid THEN d.result ELSE "exception"
    <3>1. evaluation'[r] = IF valid THEN d.result ELSE "exception" BY <1>1, <2>3 DEF Evaluations
    <3>2. QED BY <1>3, <3>1
  <2>4. QED BY <2>1, <2>2, <2>3 DEF pageEvaluates
<1>10. QED BY <1>7, <1>8, <1>9

\* The page's message handler.
LEMMA HandleStep ==
  ASSUME Typed, Facts, NEW r \in Requests, pageHandles(r) PROVE Facts'
<1>1. PICK d \in deliver(r) :
        /\ effects' = [effects EXCEPT ![r] = d.effects]
        /\ pageAnswers' = pageAnswers \cup {Answer(r, d.result)}
  BY DEF pageHandles
<1>2. /\ UNCHANGED <<execution, evaluation, toBackground, toContent, stage, record, toService, toPanel>>
      /\ r \in toPage /\ toPage' = toPage \ {r}
  BY DEF pageHandles, panelVars, channelVars
<1>3. Live(r) /\ ~Evaluating(r) /\ ~Posted(toBackground, r) /\ r \notin toContent
  BY <1>2 DEF Facts, OnePlace, Live
<1>4. OnePlace' /\ \A q \in Requests : Live(q)' => Live(q)
  <2>1. \A q \in Requests :
          /\ PostedOnce(toBackground', q)
          /\ Posted(toBackground', q) => Posted(toBackground, q)
          /\ evaluation'[q] \in {"submitted", "unavailable"} => Evaluating(q)
          /\ q \in toContent' => q \in toContent
          /\ q \in toPage' => q \in toPage
    BY <1>2 DEF Facts, OnePlace, Evaluating
  <2>2. QED BY <2>1, Vanishing DEF Facts
<1>5. ~Live(r)' BY <1>2, <1>3 DEF Live, Evaluating
<1>6. ASSUME NEW q \in Requests, NEW result \in Known, Claimed(q, result)'
      PROVE  Claimed(q, result) \/ (q = r /\ result = d.result)
  <2>1. Claimed(q, result) \/ Answer(q, result) = Answer(r, d.result)
    BY <1>1, <1>2, <1>6 DEF Claimed, PanelClaims
  <2>2. QED BY <2>1, PanelMessageFacts
<1>7. QED BY <1>1, <1>2, <1>3, <1>4, <1>5, <1>6, KeptByDelivery

\* A reload loses what is in the page; the content script passes a request on.
LEMMA PageStep ==
  ASSUME Typed, Facts, PageReloads \/ \E r \in Requests : forwardReinjectionToPage(r)
  PROVE  Facts'
<1>1. CASE PageReloads
  <2>1. /\ UNCHANGED <<effects, execution, toBackground, toContent, stage, record, toService, toPanel>>
        /\ toPage' = {} /\ pageAnswers' = {}
        /\ evaluation' = [r \in Requests |-> IF evaluation[r] = "submitted" THEN "exception" ELSE evaluation[r]]
    BY <1>1 DEF PageReloads, panelVars, channelVars
  <2>2. \A r \in Requests : evaluation'[r] \in {evaluation[r], "exception"} BY <2>1
  <2>3. OnePlace' /\ \A r \in Requests : Live(r)' => Live(r)
    <3>1. \A r \in Requests :
            /\ PostedOnce(toBackground', r)
            /\ Posted(toBackground', r) => Posted(toBackground, r)
            /\ evaluation'[r] \in {"submitted", "unavailable"} => Evaluating(r)
            /\ r \in toContent' => r \in toContent
            /\ r \in toPage' => r \in toPage
      BY <2>1, <2>2 DEF Facts, OnePlace, Evaluating
    <3>2. QED BY <3>1, Vanishing DEF Facts
  <2>4. \A r \in Requests, result \in Known : Claimed(r, result)' => Claimed(r, result)
    <3>1. "exception" \notin Known BY DEF Known, Results
    <3>2. QED BY <2>1, <2>2, <3>1 DEF Claimed, PanelClaims
  <2>5. QED BY <2>1, <2>3, <2>4, KeptByLeaving
<1>2. ASSUME NEW r \in Requests, forwardReinjectionToPage(r) PROVE Facts'
  <2>1. /\ UNCHANGED <<effects, execution, evaluation, toBackground, stage, record, pageAnswers, toService, toPanel>>
        /\ r \in toContent /\ toContent' = toContent \ {r} /\ toPage' = toPage \cup {r}
    BY <1>2 DEF forwardReinjectionToPage, panelVars, channelVars, pageVars
  <2>2. OnePlace' /\ \A q \in Requests : Live(q)' => Live(q)
    BY <2>1 DEF Facts, OnePlace, Live, Evaluating
  <2>3. \A q \in Requests, result \in Known : Claimed(q, result)' => Claimed(q, result)
    BY <2>1 DEF Claimed, PanelClaims
  <2>4. QED BY <2>1, <2>2, <2>3, KeptByLeaving
<1>3. QED BY <1>1, <1>2
-----------------------------------------------------------------------------
(* Steps of the background                                                 *)

\* A stop of the service worker loses what is posted.
LEMMA StopStep ==
  ASSUME Typed, Facts, ServiceStops PROVE Facts'
<1>1. /\ UNCHANGED <<effects, execution, evaluation, toContent, toPage, stage, record, pageAnswers, toService>>
      /\ toBackground' = <<>>
      /\ toPanel' = toPanel \/ toPanel' = Append(toPanel, Disconnect)
  BY DEF ServiceStops, panelVars, contentVars, pageVars
<1>2. \A r \in Requests :
        /\ PostedOnce(toBackground', r)
        /\ Posted(toBackground', r) => Posted(toBackground, r)
        /\ evaluation'[r] \in {"submitted", "unavailable"} => Evaluating(r)
        /\ r \in toContent' => r \in toContent
        /\ r \in toPage' => r \in toPage
  BY <1>1 DEF Posted, PostedOnce, Evaluating
<1>3. OnePlace' /\ \A r \in Requests : Live(r)' => Live(r) BY <1>2, Vanishing DEF Facts
<1>4. ASSUME NEW r \in Requests, NEW result \in Known, Told(toPanel', r, result)
      PROVE  Told(toPanel, r, result)
  <2>1. toPanel \in Seq(PanelMessages) BY DEF Typed, ChannelTyped
  <2>2. CASE toPanel' = toPanel BY <1>4, <2>2
  <2>3. CASE toPanel' = Append(toPanel, Disconnect)
    BY <1>4, <2>1, <2>3, ToldAppend, PanelMessageFacts
  <2>4. QED BY <1>1, <2>2, <2>3
<1>5. \A r \in Requests, result \in Known : Claimed(r, result)' => Claimed(r, result)
  BY <1>1, <1>4 DEF Claimed, PanelClaims
<1>6. QED BY <1>1, <1>3, <1>5, KeptByLeaving

\* Nobody listens in the page, or the browser cannot say.
LEMMA SendFailsStep ==
  ASSUME Typed, Facts, NEW r \in Requests, sendMessageFails(r) PROVE Facts'
<1>1. /\ UNCHANGED <<effects, execution, evaluation, toBackground, toPage, stage, record, pageAnswers, toService>>
      /\ r \in toContent /\ toContent' = toContent \ {r}
  BY DEF sendMessageFails, panelVars, contentVars, pageVars
<1>2. PICK answer \in {Answer(r, "bridge-error"), Answer(r, "acknowledgement-unknown")} :
        deliverReinjectionResult(answer)
  BY DEF sendMessageFails
<1>3. answer \in Answers BY <1>2, PanelMessageFacts DEF Results
<1>4. Live(r) /\ ~Evaluating(r) /\ ~Posted(toBackground, r) /\ r \notin toPage /\ effects[r] = <<>>
  BY <1>1 DEF Facts, OnePlace, Live, LiveIsUnsent
<1>5. OnePlace' /\ \A q \in Requests : Live(q)' => Live(q)
  <2>1. \A q \in Requests :
          /\ PostedOnce(toBackground', q)
          /\ Posted(toBackground', q) => Posted(toBackground, q)
          /\ evaluation'[q] \in {"submitted", "unavailable"} => Evaluating(q)
          /\ q \in toContent' => q \in toContent
          /\ q \in toPage' => q \in toPage
    BY <1>1 DEF Facts, OnePlace, Evaluating
  <2>2. QED BY <2>1, Vanishing DEF Facts
<1>6. ~Live(r)' BY <1>1, <1>4 DEF Live, Evaluating
<1>7. ASSUME NEW q \in Requests, NEW result \in Known, Claimed(q, result)', ~Claimed(q, result)
      PROVE  q = r /\ Says(r, result)
  <2>1. Told(toPanel', q, result) /\ ~Told(toPanel, q, result)
    BY <1>1, <1>7 DEF Claimed, PanelClaims
  <2>2. answer = Answer(q, result) BY <1>2, <1>3, <2>1, AnswerClaims
  <2>3. q = r /\ result = "bridge-error" BY <1>2, <2>2, PanelMessageFacts DEF Known
  <2>4. QED BY <1>4, <2>3, NothingTook
<1>8. \A q \in Requests, result \in Known : Claimed(q, result)' =>
        \/ Claimed(q, result) \/ Repeated(q, result)
        \/ Live(q) /\ ~Live(q)' /\ Says(q, result)
  BY <1>4, <1>6, <1>7
<1>9. QED BY <1>1, <1>5, <1>8, KeptByLeaving

\* The background reads the port: a request is passed on, or answered at once.
LEMMA BackgroundStep ==
  ASSUME Typed, Facts, backgroundReceives PROVE Facts'
<1> DEFINE message == Head(toBackground)
<1>1. /\ UNCHANGED <<effects, execution, evaluation, toPage, stage, record, pageAnswers, toService>>
      /\ toBackground \in Seq(Messages) /\ toPanel \in Seq(PanelMessages)
      /\ toBackground # <<>> /\ toBackground' = Tail(toBackground)
  BY DEF backgroundReceives, Typed, ChannelTyped, panelVars, contentVars, pageVars
<1>2. ASSUME NEW q \in Requests
      PROVE  /\ PostedOnce(toBackground', q)
             /\ Posted(toBackground', q) => Posted(toBackground, q)
             /\ message = Request(q) => Posted(toBackground, q) /\ ~Posted(toBackground', q)
  BY <1>1, PostedTail DEF Facts, OnePlace
<1>3. message \in Messages BY <1>1, PostedTail
<1>4. CASE toContent' = toContent
           /\ (toPanel' = toPanel \/ toPanel' = Append(toPanel, Connected))
  <2>1. OnePlace' /\ \A q \in Requests : Live(q)' => Live(q)
    <3>1. \A q \in Requests :
            /\ PostedOnce(toBackground', q)
            /\ Posted(toBackground', q) => Posted(toBackground, q)
            /\ evaluation'[q] \in {"submitted", "unavailable"} => Evaluating(q)
            /\ q \in toContent' => q \in toContent
            /\ q \in toPage' => q \in toPage
      BY <1>1, <1>2, <1>4 DEF Evaluating
    <3>2. QED BY <3>1, Vanishing DEF Facts
  <2>2. ASSUME NEW q \in Requests, NEW result \in Known, Told(toPanel', q, result)
        PROVE  Told(toPanel, q, result)
    <3>1. CASE toPanel' = toPanel BY <2>2, <3>1
    <3>2. CASE toPanel' = Append(toPanel, Connected)
      BY <1>1, <2>2, <3>2, ToldAppend, PanelMessageFacts
    <3>3. QED BY <1>4, <3>1, <3>2
  <2>3. \A q \in Requests, result \in Known : Claimed(q, result)' => Claimed(q, result)
    BY <1>1, <2>2 DEF Claimed, PanelClaims
  <2>4. QED BY <1>1, <2>1, <2>3, KeptByLeaving
<1>5. ASSUME NEW r \in Requests, message = Request(r), toContent' = toContent \cup {r}, toPanel' = toPanel
      PROVE  Facts'
  <2>1. /\ Posted(toBackground, r) /\ ~Posted(toBackground', r) /\ Live(r)
        /\ ~Evaluating(r) /\ r \notin toContent /\ r \notin toPage
    BY <1>2, <1>5 DEF Facts, OnePlace, Live
  <2>2. \A q \in Requests : Evaluating(q)' <=> Evaluating(q) BY <1>1 DEF Evaluating
  <2>3. OnePlace' BY <1>1, <1>2, <1>5, <2>1, <2>2 DEF Facts, OnePlace
  <2>4. \A q \in Requests : Live(q)' => Live(q) BY <1>1, <1>2, <1>5, <2>1, <2>2 DEF Live
  <2>5. \A q \in Requests, result \in Known : Claimed(q, result)' => Claimed(q, result)
    BY <1>1, <1>5 DEF Claimed, PanelClaims
  <2>6. QED BY <1>1, <2>3, <2>4, <2>5, KeptByLeaving
<1>6. ASSUME NEW r \in Requests, message = Request(r), UNCHANGED toContent,
             toPanel' = Append(toPanel, Result(Answer(r, "bridge-error")))
      PROVE  Facts'
  <2>1. /\ Posted(toBackground, r) /\ ~Posted(toBackground', r) /\ Live(r) /\ effects[r] = <<>>
        /\ ~Evaluating(r) /\ r \notin toContent /\ r \notin toPage
    BY <1>2, <1>6 DEF Facts, OnePlace, Live, LiveIsUnsent
  <2>2. OnePlace' /\ \A q \in Requests : Live(q)' => Live(q)
    <3>1. \A q \in Requests :
            /\ PostedOnce(toBackground', q)
            /\ Posted(toBackground', q) => Posted(toBackground, q)
            /\ evaluation'[q] \in {"submitted", "unavailable"} => Evaluating(q)
            /\ q \in toContent' => q \in toContent
            /\ q \in toPage' => q \in toPage
      BY <1>1, <1>2, <1>6 DEF Evaluating
    <3>2. QED BY <3>1, Vanishing DEF Facts
  <2>3. ~Live(r)' BY <1>1, <1>6, <2>1 DEF Live, Evaluating
  <2>4. ASSUME NEW q \in Requests, NEW result \in Known, Claimed(q, result)', ~Claimed(q, result)
        PROVE  q = r /\ Says(r, result)
    <3>1. Told(toPanel', q, result) /\ ~Told(toPanel, q, result)
      BY <1>1, <2>4 DEF Claimed, PanelClaims
    <3>2. /\ Result(Answer(r, "bridge-error")) \in PanelMessages
          /\ Answer(r, "bridge-error") \in Answers /\ Answer(q, result) \in Answers
      BY PanelMessageFacts DEF Results, Known
    <3>3. Result(Answer(r, "bridge-error")) = Result(Answer(q, result))
      BY <1>1, <1>6, <3>1, <3>2, ToldAppend
    <3>4. q = r /\ result = "bridge-error" BY <3>2, <3>3, PanelMessageFacts
    <3>5. QED BY <2>1, <3>4, NothingTook
  <2>5. \A q \in Requests, result \in Known : Claimed(q, result)' =>
          \/ Claimed(q, result) \/ Repeated(q, result)
          \/ Live(q) /\ ~Live(q)' /\ Says(q, result)
    BY <2>1, <2>3, <2>4
  <2>6. QED BY <1>1, <2>2, <2>5, KeptByLeaving
<1>7. \/ toContent' = toContent /\ (toPanel' = toPanel \/ toPanel' = Append(toPanel, Connected))
      \/ \E r \in Requests :
           /\ message = Request(r)
           /\ \/ toContent' = toContent \cup {r} /\ toPanel' = toPanel
              \/ /\ UNCHANGED toContent
                 /\ toPanel' = Append(toPanel, Result(Answer(r, "bridge-error")))
  <2>1. CASE message.type = "request"
    <3>1. message.request \in Requests /\ message = Request(message.request)
      BY <1>3, <2>1, MessageFacts
    <3>2. message # Register /\ message # Closed BY <3>1, MessageFacts
    <3>3. \/ toContent' = toContent \cup {message.request} /\ toPanel' = toPanel
          \/ /\ UNCHANGED toContent
             /\ toPanel' = Append(toPanel, Result(Answer(message.request, "bridge-error")))
      BY <3>2 DEF backgroundReceives
    <3>4. QED BY <3>1, <3>3
  <2>2. CASE message.type # "request" BY <2>2 DEF backgroundReceives
  <2>3. QED BY <2>1, <2>2
<1>8. QED BY <1>4, <1>5, <1>6, <1>7
-----------------------------------------------------------------------------
(* An evaluation returns, an injection is executed                         *)

\* The callback of the evaluation: a result is recorded, an unavailable bridge is
\* answered by posting the request.
LEMMA ReturnStep ==
  ASSUME Typed, Facts, NEW r \in Requests, evaluationReturns(r) PROVE Facts'
<1>1. /\ UNCHANGED <<effects, toContent, toPage, pageAnswers, toService, toPanel>>
      /\ toBackground \in Seq(Messages) /\ evaluation \in Evaluations
      /\ evaluation' = [evaluation EXCEPT ![r] = "none"]
      /\ evaluation[r] \notin {"none", "submitted"}
  BY DEF evaluationReturns, Typed, ChannelTyped, PageTyped, contentVars, pageVars
<1>2. evaluation'[r] = "none" /\ \A q \in Requests : q # r => evaluation'[q] = evaluation[q]
  BY <1>1 DEF Evaluations
<1>3. "none" \notin Known /\ "none" \notin {"submitted", "unavailable"} BY DEF Known, Results
<1>4. \A q \in Requests : Evaluating(q)' => Evaluating(q) /\ q # r BY <1>2 DEF Evaluating
<1>5. \A q \in Requests, result \in Known : Claimed(q, result)' => Claimed(q, result) \/ PanelClaims(q, result)'
  BY <1>1, <1>2, <1>3 DEF Claimed
<1>6. ASSUME UNCHANGED toBackground PROVE OnePlace' /\ \A q \in Requests : Live(q)' => Live(q)
  <2>1. \A q \in Requests :
          /\ PostedOnce(toBackground', q)
          /\ Posted(toBackground', q) => Posted(toBackground, q)
          /\ evaluation'[q] \in {"submitted", "unavailable"} => Evaluating(q)
          /\ q \in toContent' => q \in toContent
          /\ q \in toPage' => q \in toPage
    BY <1>1, <1>2, <1>6 DEF Facts, OnePlace, Evaluating
  <2>2. QED BY <2>1, Vanishing DEF Facts
<1>7. CASE stage[r] # "evaluating"
  <2>1. UNCHANGED <<panelVars, toBackground>> BY <1>7 DEF evaluationReturns
  <2>2. UNCHANGED <<execution, stage, record>> BY <2>1 DEF panelVars
  <2>3. \A q \in Requests, result \in Known : Claimed(q, result)' => Claimed(q, result)
    BY <1>5, <2>2 DEF Claimed, PanelClaims
  <2>4. QED BY <1>1, <1>6, <2>1, <2>2, <2>3, KeptByLeaving
<1>8. CASE stage[r] = "evaluating" /\ evaluation[r] = "unavailable"
  <2>1. Live(r) /\ effects[r] = <<>> /\ ~Posted(toBackground, r) /\ r \notin toContent /\ r \notin toPage
    BY <1>8 DEF Facts, OnePlace, LiveIsUnsent, Live, Evaluating
  <2>2. reinjectThroughRuntime(r) BY <1>8 DEF evaluationReturns
  <2>3. CASE ~port \/ disposed
    <3>1. Settled({r}, "bridge-error", disposed) /\ UNCHANGED toBackground
      BY <2>2, <2>3 DEF reinjectThroughRuntime
    <3>2. ~Live(r)' BY <1>1, <1>4, <2>1, <3>1 DEF Live
    <3>3. "bridge-error" \in Known /\ "bridge-error" \in Results BY DEF Known, Results
    <3>4. ASSUME NEW q \in Requests, NEW result \in Known, PanelClaims(q, result)', ~PanelClaims(q, result)
          PROVE  q = r /\ Says(r, result)
      <4>1. q \in {r} /\ outcomeFromResult(result) = outcomeFromResult("bridge-error")
        BY <3>1, <3>3, <3>4, SettledClaims
      <4>2. Says(r, result) <=> Says(r, "bridge-error") BY <3>3, <4>1, SameOutcome
      <4>3. QED BY <2>1, <4>1, <4>2, NothingTook
    <3>5. \A q \in Requests, result \in Known : Claimed(q, result)' =>
            \/ Claimed(q, result) \/ Repeated(q, result)
            \/ Live(q) /\ ~Live(q)' /\ Says(q, result)
      BY <1>5, <2>1, <3>2, <3>4 DEF Claimed
    <3>6. UNCHANGED execution BY <3>1 DEF Settled
    <3>7. QED BY <1>1, <1>6, <3>1, <3>5, <3>6, KeptByLeaving
  <2>4. CASE ~(~port \/ disposed)
    <3>1. /\ stage' = [stage EXCEPT ![r] = "posted"] /\ UNCHANGED <<execution, record>>
          /\ toBackground' = toBackground \/ toBackground' = Append(toBackground, Request(r))
      BY <2>2, <2>4 DEF reinjectThroughRuntime
    <3>2. ASSUME NEW q \in Requests
          PROVE  /\ PostedOnce(toBackground', q)
                 /\ Posted(toBackground', q) => Posted(toBackground, q) \/ q = r
      <4>1. PostedOnce(toBackground, q) BY DEF Facts, OnePlace
      <4>2. CASE toBackground' = toBackground BY <4>1, <4>2
      <4>3. CASE toBackground' = Append(toBackground, Request(r))
        <5>1. Request(r) \in Messages /\ (Request(r) = Request(q) => q = r) BY MessageFacts
        <5>2. QED BY <1>1, <2>1, <4>1, <4>3, <5>1, PostedAppend
      <4>4. QED BY <3>1, <4>2, <4>3
    <3>3. OnePlace' BY <1>1, <1>4, <2>1, <3>2 DEF Facts, OnePlace
    <3>4. \A q \in Requests : Live(q)' => Live(q) BY <1>1, <1>4, <2>1, <3>2 DEF Live
    <3>5. \A q \in Requests, result \in Known : PanelClaims(q, result)' => PanelClaims(q, result)
      BY <3>1 DEF PanelClaims, Typed, PanelTyped, Stages
    <3>6. \A q \in Requests, result \in Known : Claimed(q, result)' => Claimed(q, result)
      BY <1>5, <3>5 DEF Claimed
    <3>7. QED BY <1>1, <3>1, <3>3, <3>4, <3>6, KeptByLeaving
  <2>5. QED BY <2>3, <2>4
<1>9. CASE stage[r] = "evaluating" /\ evaluation[r] = "exception"
  <2>1. Settled({r}, "acknowledgement-unknown", disposed) /\ UNCHANGED toBackground
    BY <1>9 DEF evaluationReturns
  <2>2. \A q \in Requests, result \in Known : PanelClaims(q, result)' => PanelClaims(q, result)
    BY <2>1, UnknownClaims
  <2>3. \A q \in Requests, result \in Known : Claimed(q, result)' => Claimed(q, result)
    BY <1>5, <2>2 DEF Claimed
  <2>4. UNCHANGED execution BY <2>1 DEF Settled
  <2>5. QED BY <1>1, <1>6, <2>1, <2>3, <2>4, KeptByLeaving
<1>10. CASE stage[r] = "evaluating" /\ evaluation[r] \notin {"unavailable", "exception"}
  <2>1. PICK x \in Results : x = evaluation[r] BY <1>1, <1>10 DEF Evaluations
  <2>2. Settled({r}, x, disposed) /\ UNCHANGED toBackground BY <1>10, <2>1 DEF evaluationReturns
  <2>3. Claimed(r, x) BY <2>1 DEF Claimed
  <2>4. ASSUME NEW q \in Requests, NEW result \in Known, PanelClaims(q, result)'
        PROVE  Claimed(q, result) \/ Repeated(q, result)
    <3>1. PanelClaims(q, result) \/ (q \in {r} /\ outcomeFromResult(result) = outcomeFromResult(x))
      BY <2>2, <2>4, SettledClaims
    <3>2. QED BY <2>3, <3>1 DEF Claimed, Repeated
  <2>5. \A q \in Requests, result \in Known : Claimed(q, result)' => Claimed(q, result) \/ Repeated(q, result)
    BY <1>5, <2>4
  <2>6. UNCHANGED execution BY <2>2 DEF Settled
  <2>7. QED BY <1>1, <1>6, <2>2, <2>5, <2>6, KeptByLeaving
<1>11. QED BY <1>7, <1>8, <1>9, <1>10

\* A new request is in no place and nobody speaks of it: it is refused, or in one.
LEMMA ExecuteStep ==
  ASSUME Typed, Facts, executeLocalInjection PROVE Facts'
<1> DEFINE r == execution + 1
<1>1. /\ UNCHANGED <<effects, toContent, toPage, pageAnswers, toService, toPanel>>
      /\ execution' = r /\ execution \in Nat /\ r \in Requests /\ r > execution
      /\ toBackground \in Seq(Messages) /\ evaluation \in Evaluations
      /\ stage \in Stages /\ record \in Records
  BY BridgeAssumption DEF executeLocalInjection, Typed, PanelTyped, ChannelTyped, PageTyped, contentVars,
     pageVars, Requests
<1>2. \A q \in Requests : q \in Nat BY BridgeAssumption DEF Requests
<1>3. /\ ~Live(r) /\ effects[r] = <<>> /\ \A result \in Known : ~Claimed(r, result)
      /\ \A q \in Requests : Live(q) => q <= execution
      /\ \A q \in Requests : \A result \in Known : Claimed(q, result) => q <= execution
  BY <1>1, <1>2 DEF Facts, UnusedIsUntouched
<1>4. ~Evaluating(r) /\ ~Posted(toBackground, r) /\ r \notin toContent /\ r \notin toPage
  BY <1>3 DEF Live
<1>5. CASE \E problem \in {"stale-target", "bridge-error"} :
             /\ record' = [record EXCEPT ![r] = [disposition |-> outcomeFromResult(problem),
                                                 evidence |-> "not-created"]]
             /\ stage' = [stage EXCEPT ![r] = "settled"]
             /\ UNCHANGED <<evaluation, toBackground>>
  <2>1. PICK problem \in {"stale-target", "bridge-error"} :
             /\ record' = [record EXCEPT ![r] = [disposition |-> outcomeFromResult(problem),
                                                 evidence |-> "not-created"]]
             /\ stage' = [stage EXCEPT ![r] = "settled"]
             /\ UNCHANGED <<evaluation, toBackground>>
    BY <1>5
  <2>2. /\ record'[r].disposition = outcomeFromResult(problem) /\ stage'[r] = "settled"
        /\ \A q \in Requests : q # r => record'[q] = record[q] /\ stage'[q] = stage[q]
    BY <1>1, <2>1 DEF Records, Stages
  <2>3. OnePlace' /\ \A q \in Requests : Live(q)' => Live(q)
    <3>1. \A q \in Requests :
            /\ PostedOnce(toBackground', q)
            /\ Posted(toBackground', q) => Posted(toBackground, q)
            /\ evaluation'[q] \in {"submitted", "unavailable"} => Evaluating(q)
            /\ q \in toContent' => q \in toContent
            /\ q \in toPage' => q \in toPage
      BY <1>1, <2>1 DEF Facts, OnePlace, Evaluating
    <3>2. QED BY <3>1, Vanishing DEF Facts
  <2>4. ASSUME NEW q \in Requests, NEW result \in Known, Claimed(q, result)', ~Claimed(q, result)
        PROVE  q <= execution' /\ ~Live(q)' /\ Says(q, result)
    <3>1. PanelClaims(q, result)' /\ ~PanelClaims(q, result) BY <1>1, <2>1, <2>4 DEF Claimed
    <3>2. q = r BY <2>2, <3>1 DEF PanelClaims
    <3>3. outcomeFromResult(result) = outcomeFromResult(problem)
      BY <2>2, <3>1, <3>2 DEF PanelClaims
    <3>4. problem \in Results BY DEF Results
    <3>5. Says(r, result) <=> Says(r, problem) BY <3>3, <3>4, SameOutcome
    <3>6. Says(r, problem) BY <1>3, NothingTook
    <3>7. r <= execution' BY <1>1
    <3>8. QED BY <1>3, <2>3, <3>2, <3>5, <3>6, <3>7
  <2>5. \A q \in Requests : Live(q)' => q <= execution' /\ (Live(q) \/ q > execution)
    BY <1>1, <1>2, <1>3, <2>3
  <2>6. \A q \in Requests, result \in Known : Claimed(q, result)' =>
          Claimed(q, result) \/ (q <= execution' /\ ~Live(q)' /\ Says(q, result))
    BY <2>4
  <2>7. execution' \in Nat /\ execution' >= execution BY <1>1
  <2>8. QED BY <1>1, <2>3, <2>5, <2>6, <2>7, KeptByMoving
<1>6. CASE /\ UNCHANGED record
           /\ \/ /\ stage' = [stage EXCEPT ![r] = "evaluating"]
                 /\ evaluation' = [evaluation EXCEPT ![r] = "submitted"]
                 /\ UNCHANGED toBackground
              \/ /\ stage' = [stage EXCEPT ![r] = "posted"]
                 /\ toBackground' = toBackground \/ toBackground' = Append(toBackground, Request(r))
                 /\ UNCHANGED evaluation
  <2>1. \A q \in Requests, result \in Known : PanelClaims(q, result)' => PanelClaims(q, result)
    BY <1>1, <1>6 DEF PanelClaims, Stages
  <2>2. "submitted" \notin Known BY DEF Known, Results
  <2>3. \A q \in Requests, result \in Known : Claimed(q, result)' => Claimed(q, result)
    BY <1>1, <1>6, <2>1, <2>2 DEF Claimed, Evaluations
  <2>4. ASSUME NEW q \in Requests
        PROVE  /\ PostedOnce(toBackground', q)
               /\ Posted(toBackground', q) => Posted(toBackground, q) \/ (q = r /\ UNCHANGED evaluation)
    <3>1. PostedOnce(toBackground, q) BY DEF Facts, OnePlace
    <3>2. CASE toBackground' = toBackground BY <3>1, <3>2
    <3>3. CASE toBackground' = Append(toBackground, Request(r)) /\ UNCHANGED evaluation
      <4>1. Request(r) \in Messages /\ (Request(r) = Request(q) => q = r) BY <1>1, MessageFacts
      <4>2. QED BY <1>1, <1>4, <3>1, <3>3, <4>1, PostedAppend
    <3>4. QED BY <1>6, <3>2, <3>3
  <2>5. \A q \in Requests : Evaluating(q)' => Evaluating(q) \/ (q = r /\ UNCHANGED toBackground)
    BY <1>1, <1>6 DEF Evaluating, Evaluations
  <2>6. OnePlace' BY <1>1, <1>4, <2>4, <2>5 DEF Facts, OnePlace, Evaluating
  <2>7. \A q \in Requests : Live(q)' => Live(q) \/ q = r BY <1>1, <2>4, <2>5 DEF Live
  <2>8. \A q \in Requests : Live(q)' => q <= execution' /\ (Live(q) \/ q > execution)
    BY <1>1, <1>2, <1>3, <2>7
  <2>9. execution' \in Nat /\ execution' >= execution BY <1>1
  <2>10. QED BY <1>1, <2>3, <2>6, <2>8, <2>9, KeptByMoving
<1>7. QED BY <1>5, <1>6 DEF executeLocalInjection
-----------------------------------------------------------------------------
(* The theorems                                                            *)

\* At first nothing is executed.
LEMMA InvInit == Init => Inv
<1> SUFFICES ASSUME Init PROVE Inv OBVIOUS
<1>1. Typed
  <2>1. toBackground = <<Register>> /\ toPanel = <<>> BY DEF Init
  <2>2. ChannelTyped BY <2>1, MessageFacts DEF ChannelTyped
  <2>3. 0 \in 0 .. MaxExecutions /\ 0 \in 0 .. MaxReloads /\ 0 \in 0 .. MaxStops
    BY BridgeAssumption
  <2>4. PanelTyped /\ KnowledgeTyped /\ ClientTyped /\ BackgroundTyped
    <3>1. record \in Records BY DEF Init, Records, NoRecord
    <3>2. stage \in Stages BY DEF Init, Stages
    <3>3. PanelTyped BY <2>3, <3>1, <3>2 DEF Init, PanelTyped, Drafts
    <3>4. KnowledgeTyped /\ ClientTyped BY <2>3 DEF Init, KnowledgeTyped, ClientTyped
    <3>5. BackgroundTyped BY <2>3 DEF Init, BackgroundTyped
    <3>6. QED BY <3>3, <3>4, <3>5
  <2>5. MessagesTyped /\ ContentTyped BY DEF Init, MessagesTyped, ContentTyped
  <2>6. PageTyped BY <2>3 DEF Init, PageTyped, Evaluations, AllEffects
  <2>7. QED BY <2>2, <2>4, <2>5, <2>6 DEF Typed
<1>2. \A r \in Requests : ~Posted(toBackground, r) /\ PostedOnce(toBackground, r)
  <2>1. ASSUME NEW r \in Requests, NEW i \in 1 .. Len(<<Register>>) PROVE <<Register>>[i] # Request(r)
    BY MessageFacts
  <2>2. QED BY <2>1 DEF Init, Posted, PostedOnce
<1>3. \A r \in Requests : ~Live(r) /\ ~Evaluating(r) BY <1>2 DEF Init, Live, Evaluating
<1>4. ASSUME NEW r \in Requests, NEW result \in Known PROVE ~Claimed(r, result)
  <2>1. result # "none" /\ outcomeFromResult(result) # "none"
    BY DEF Known, Results, outcomeFromResult
  <2>2. ~Told(toPanel, r, result) BY DEF Init, Told
  <2>3. QED BY <2>1, <2>2 DEF Init, Claimed, PanelClaims, NoRecord
<1>5. \A r \in Requests : effects[r] = <<>> BY DEF Init
<1>6. AtMostOnce BY <1>5 DEF AtMostOnce
<1>7. OnePlace /\ LiveIsUnsent /\ UnusedIsUntouched /\ ClaimsAreTrue
  BY <1>2, <1>3, <1>4, <1>5 DEF OnePlace, LiveIsUnsent, UnusedIsUntouched, ClaimsAreTrue, Init
<1>8. QED BY <1>1, <1>6, <1>7 DEF Inv, Facts

\* Every step keeps the invariant.
LEMMA InvStep == Inv /\ [Next]_vars => Inv'
<1> SUFFICES ASSUME Typed, Facts, [Next]_vars PROVE Facts' BY TypeStep DEF Inv
<1>1. Next \/ UNCHANGED vars OBVIOUS
<1>2. CASE \/ enterLocalInjection \/ finishLocalInjection \/ setPageEpoch \/ TargetRetires \/ retireBridge
           \/ UNCHANGED vars
  BY <1>2, UntouchedStep
<1>3. CASE \E r \in Requests : admitEvidence(r) \/ setLocalInjectionOutcome(r)
  BY <1>3, AdmissionStep
<1>4. CASE \E r \in Requests : evaluationTimesOut(r) \/ reinjectionTimesOut(r)
  BY <1>4, TimeoutStep
<1>5. CASE panelReceives BY <1>5, ReceiveStep
<1>6. CASE disconnect \/ connect BY <1>6, PortStep
<1>7. CASE \/ \E answer \in Answers : acceptPageResult(answer) \/ backgroundReceivesResult(answer)
           \/ \E r \in Requests : pageRequestTimesOut(r)
  BY <1>7, AnswerStep
<1>8. CASE \E r \in Requests : pageEvaluates(r) BY <1>8, EvaluateStep
<1>9. CASE \E r \in Requests : pageHandles(r) BY <1>9, HandleStep
<1>10. CASE PageReloads \/ \E r \in Requests : forwardReinjectionToPage(r) BY <1>10, PageStep
<1>11. CASE ServiceStops BY <1>11, StopStep
<1>12. CASE \E r \in Requests : sendMessageFails(r) BY <1>12, SendFailsStep
<1>13. CASE backgroundReceives BY <1>13, BackgroundStep
<1>14. CASE \E r \in Requests : evaluationReturns(r) BY <1>14, ReturnStep
<1>15. CASE executeLocalInjection BY <1>15, ExecuteStep
<1>16. QED
  BY <1>1, <1>2, <1>3, <1>4, <1>5, <1>6, <1>7, <1>8, <1>9, <1>10, <1>11, <1>12, <1>13, <1>14, <1>15
  DEF Next, PanelStep, Environment

\* What is recorded is claimed, and what is claimed is so.
LEMMA InvIsTrue == Inv => AtMostOnce /\ RecordIsTrue
<1> SUFFICES ASSUME Inv PROVE AtMostOnce /\ RecordIsTrue OBVIOUS
<1>1. AtMostOnce /\ TypeOK BY TypeParts DEF Inv, Facts
<1>2. ASSUME NEW r \in Requests, NEW result \in Known,
             record[r].disposition = outcomeFromResult(result)
      PROVE  Says(r, result)
  BY <1>2 DEF Inv, Facts, ClaimsAreTrue, Claimed, PanelClaims
<1>3. {"success", "partial", "stale-target", "bridge-error"} \subseteq Known
  BY DEF Known, Results
<1>4. TruthfulRecord
  <2>1. ASSUME NEW r \in Requests
        PROVE  /\ record[r].disposition = "delivered" => Took(r) = {"all"}
               /\ record[r].disposition = "partial" => Took(r) = {"some"}
               /\ record[r].disposition = "blocked" => effects[r] = <<>>
               /\ record[r].disposition = "failed" => Took(r) \subseteq {"none"}
    <3>1. record[r].disposition = "delivered" => Says(r, "success")
      BY <1>2, <1>3 DEF outcomeFromResult
    <3>2. record[r].disposition = "partial" => Says(r, "partial")
      BY <1>2, <1>3 DEF outcomeFromResult
    <3>3. record[r].disposition = "blocked" => Says(r, "stale-target")
      BY <1>2, <1>3 DEF outcomeFromResult
    <3>4. record[r].disposition = "failed" => Says(r, "bridge-error")
      BY <1>2, <1>3 DEF outcomeFromResult
    <3>5. QED BY <3>1, <3>2, <3>3, <3>4 DEF Says
  <2>2. QED BY <2>1 DEF TruthfulRecord
<1>5. QED BY <1>1, <1>4 DEF RecordIsTrue

\* No interleaving of timeouts, stops of the service worker, reloads and late answers
\* executes a request twice (executeLocalInjection, reinjectThroughRuntime).
THEOREM AtMostOnceHolds == Spec => []AtMostOnce
<1>1. Spec => []Inv BY InvInit, InvStep, PTL DEF Spec
<1>2. QED BY <1>1, InvIsTrue, PTL

\* What the panel records of an execution is so and stays so, whatever is still
\* under way (local-injection-execution-coordinator.ts, outcomeFromResult).
THEOREM RecordIsTrueHolds == Spec => []RecordIsTrue
<1>1. Spec => []Inv BY InvInit, InvStep, PTL DEF Spec
<1>2. QED BY <1>1, InvIsTrue, PTL
=============================================================================
