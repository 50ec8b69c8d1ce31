------------------------ MODULE ScenarioAndServerProofs ------------------------
(***************************************************************************)
(* Theorems of ScenarioRunner, for every reviewed Scenario.  The inductive *)
(* invariant is Sound: besides the runner's type it says that the Trace is *)
(* a function of where the Run is and of how it ended (TraceIsExact), what *)
(* a phase means (PhaseIsTrue), that only the next Checkpoint is observed  *)
(* (ObservesTheNext), that an unreviewed drift holds the Run back          *)
(* (DriftHolds) and that controls fit (ControlsFit).  The lemmas follow    *)
(* the operators of the runner; each action Fits: it keeps the Run sound   *)
(* and is Allowed by the action properties.  The remaining Steps are a     *)
(* recursive function, unfolded by an induction over the members.          *)
(*                                                                         *)
(* Theorems of ServerInjection: a request is sent at most once and as      *)
(* consented, and what is said of it is true, for all numbers of requests, *)
(* messages, sites and breaks.                                             *)
(*                                                                         *)
(* Neither property is inductive: consent is given long before the page    *)
(* sends.  The invariant says what may still be sent was not               *)
(* (FreshAreUnsent), that an evaluation carries what was agreed to         *)
(* (SubmittedIsConsented, ApprovalIsConsent), and which request document,  *)
(* receipts and bridge client are about (DocumentIsTracked).               *)
(***************************************************************************)
EXTENDS ScenarioRunner, ServerInjection, Integers, TLAPS, WellFoundedInduction

TraceEntries == [member : DOMAIN Members, kind : {"attempted", "not-run", "checkpoint"}]

L == Len(Members)

\* What the runner is: a record of values of the right kinds.
Runners ==
  [phase : Phases, pauseReason : {"none", "USER", "HIDDEN", "DRIFT_REVIEW_REQUIRED"},
   visible : BOOLEAN, status : {"paused", "complete", "stopped"},
   next : 1 .. L + 1, trace : Seq(TraceEntries),
   controls : 0 .. AdmittedControls, ledger : Seq({"authorization", "drift"}),
   timer : {"none", "dispatch", "deadline"}, manualOverride : BOOLEAN,
   execution : {"none", "running", "settling"}, activeCheckpoint : 0 .. L + 1,
   wasPlaying : BOOLEAN, resume : Nat, fields : {"none", "playing", "stepped"},
   diagnostics : {"none", "playing", "stepped"}, watches : Seq({"open", "reading"})]

Executing(r) == r.phase \in {"in-flight", "pause-pending", "stop-pending"}
Idle(r) == r.phase \in {"waiting", "checkpoint-waiting", "paused"}
Ended(r) == r.phase \in {"stopped", "disposed"}

\* The Trace of the first n members, each settled.
SettledTo(n) == [k \in 1 .. n |-> Entry(k, IF k \in Steps THEN "attempted" ELSE "checkpoint")]

\* The Trace is a function of where the Run is and how it ended: before the next
\* member, or because of it.
Exact(status, next, trace) ==
  /\ status = "paused" => next <= L /\ trace = SettledTo(next - 1)
  /\ status = "complete" => next = L + 1 /\ trace = SettledTo(L)
  /\ status = "stopped" =>
       /\ next <= L
       /\ \/ trace = SettledTo(next - 1) \o NotRunFrom[next]
          \/ trace = SettledTo(next) \o NotRunFrom[next + 1]

TraceIsExact(r) == Exact(r.status, r.next, r.trace)

\* An execution has a phase to itself, and only a Step is executed; what plays
\* is visible.
PhaseIsTrue(r) ==
  /\ Executing(r) <=> r.execution # "none"
  /\ r.execution = "running" => r.status = "paused" /\ r.next \in Steps
  /\ Idle(r) => r.status = "paused"
  /\ r.phase \in {"complete", "stopped"} => r.status = r.phase
  /\ r.phase \in {"waiting", "in-flight"} => r.visible

Loading(r) == r.fields # "none" \/ r.diagnostics # "none"
Observing(r) ==
  \/ Loading(r) \/ r.watches # <<>> \/ r.timer = "deadline" \/ r.activeCheckpoint # 0

\* A Checkpoint is observed only while it is the next member and nothing executes;
\* a load belongs to the active Checkpoint.
ObservesTheNext(r) ==
  /\ Observing(r) => Ended(r) \/ (r.next \in Checkpoints /\ Idle(r))
  /\ Loading(r) => r.activeCheckpoint = r.next /\ Idle(r)
  /\ r.timer # "none" => r.phase \in {"waiting", "checkpoint-waiting"}
  /\ r.activeCheckpoint \in {0, r.next} /\ r.resume <= Len(r.watches)

\* A drift without re-review holds the Run back, before a Step.
DriftHolds(r) ==
  /\ r.phase = "paused" /\ r.pauseReason = "DRIFT_REVIEW_REQUIRED" => r.next \in Steps
  /\ r.phase = "pause-pending" => r.pauseReason # "DRIFT_REVIEW_REQUIRED"
  /\ Len(r.ledger) \in 1 .. MaxLedger
  /\ \/ r.ledger[Len(r.ledger)] = "authorization" \/ Ended(r)
     \/ r.phase = "paused" /\ r.pauseReason = "DRIFT_REVIEW_REQUIRED"

ControlsFit(r) ==
  /\ r.phase \in {"waiting", "checkpoint-waiting", "in-flight"} =>
       r.controls <= AdmittedControls - 2
  /\ r.phase \in {"paused", "pause-pending"} => r.controls < AdmittedControls

Sound(r) ==
  /\ r \in Runners /\ TraceIsExact(r) /\ PhaseIsTrue(r) /\ ObservesTheNext(r)
  /\ DriftHolds(r) /\ ControlsFit(r)

\* The entries s list the remaining Steps from n on, in order.
Lists(s, n) ==
  /\ s \in Seq(TraceEntries)
  /\ \A k \in 1 .. Len(s) : s[k].kind = "not-run" /\ s[k].member >= n
  /\ \A j, k \in 1 .. Len(s) : j < k => s[j].member < s[k].member
  /\ \A i \in Steps : i >= n => \E k \in 1 .. Len(s) : s[k].member = i
-----------------------------------------------------------------------------
(* The remaining Steps: induction over the members, from the last one on    *)

\* Induction over the naturals, for a set.
LEMMA Induction ==
  ASSUME NEW T, 0 \in T, \A n \in Nat : n \in T => n + 1 \in T PROVE \A n \in Nat : n \in T
<1> DEFINE Less == {ss \in Nat \X Nat : ss[1] < ss[2]}
           Missing == {n \in Nat : n \notin T}
<1>1. IsWellFoundedOn(Less, Nat) BY NatLessThanWellFounded DEF OpToRel
<1>2. SUFFICES ASSUME Missing # {} PROVE FALSE OBVIOUS
<1>3. PICK m \in Missing : \A n \in Missing : <<n, m>> \notin Less
  <2>1. Missing \subseteq Nat OBVIOUS
  <2> HIDE DEF Less, Missing
  <2>2. QED BY <1>1, <1>2, <2>1, WFMin, Zenon
<1>4. m \in Nat \ {0} /\ m - 1 \in Nat OBVIOUS
<1>5. m - 1 \in T
  <2>1. <<m - 1, m>> \in Less BY <1>4
  <2>2. QED BY <1>3, <1>4, <2>1
<1>6. QED BY <1>4, <1>5

\* What is assumed of the reviewed members and of the limits.
LEMMA MembersFacts ==
  /\ Len(Members) \in Nat \ {0} /\ DOMAIN Members = 1 .. Len(Members)
  /\ Steps \subseteq DOMAIN Members /\ Checkpoints = DOMAIN Members \ Steps
  /\ \A i \in Checkpoints : Members[i] \in {"instant", "eventual", "temporal"}
  /\ AdmittedControls \in Nat /\ AdmittedControls >= 3
  /\ MaxLedger \in Nat \ {0} /\ RetiredDuringLoad \in BOOLEAN
<1>1. Members \in Seq({"step", "instant", "eventual", "temporal"}) /\ Steps # {}
  BY RunAssumption
<1>2. Len(Members) \in Nat /\ DOMAIN Members = 1 .. Len(Members) BY <1>1
<1>3. Steps \subseteq DOMAIN Members /\ Checkpoints = DOMAIN Members \ Steps
  BY DEF Steps, Checkpoints
<1>4. Len(Members) # 0 BY <1>1, <1>2, <1>3
<1>5. ASSUME NEW i \in Checkpoints PROVE Members[i] \in {"instant", "eventual", "temporal"}
  BY <1>1, <1>2 DEF Steps, Checkpoints
<1>6. QED BY <1>2, <1>3, <1>4, <1>5, RunAssumption

\* The equation of NotRunFrom, with the rest it refers to.
Listed(n, rest) ==
  IF n > Len(Members) THEN <<>>
  ELSE (IF n \in Steps THEN <<Entry(n, "not-run")>> ELSE <<>>) \o rest

\* The recursive definition has a solution.
LEMMA NotRunExists ==
  \E f : f = [n \in 1 .. Len(Members) + 1 |-> Listed(n, f[n + 1])]
<1> USE DEF L
<1> DEFINE Solves(f, j) == \A n \in L + 1 - j .. L + 1 : f[n] = Listed(n, f[n + 1])
           T == {j \in Nat : j <= L => \E f : Solves(f, j)}
<1>0. L \in Nat BY MembersFacts
<1>1. 0 \in T
  <2> DEFINE f == [n \in {L + 1} |-> <<>>]
  <2>1. \A n \in L + 1 - 0 .. L + 1 : n = L + 1 BY <1>0
  <2>2. Listed(L + 1, f[L + 1 + 1]) = <<>> BY <1>0 DEF Listed
  <2>3. f[L + 1] = <<>> OBVIOUS
  <2>4. Solves(f, 0) BY <2>1, <2>2, <2>3
  <2>5. QED BY <2>4
<1>2. ASSUME NEW j \in Nat, j \in T PROVE j + 1 \in T
  <2>1. SUFFICES ASSUME j + 1 <= L PROVE \E f : Solves(f, j + 1) BY <1>2
  <2>2. PICK f : Solves(f, j) BY <1>0, <1>2, <2>1
  <2> DEFINE m == L - j
             g == [n \in 1 .. L + 2 |-> IF n = m THEN Listed(m, f[m + 1]) ELSE f[n]]
  <2>3. ASSUME NEW n \in L + 1 - (j + 1) .. L + 1 PROVE g[n] = Listed(n, g[n + 1])
    <3>1. n \in 1 .. L + 1 /\ n + 1 \in 1 .. L + 2 /\ n + 1 # m /\ m \in 1 .. L + 1
      BY <1>0, <2>1
    <3>2. g[n + 1] = f[n + 1] BY <3>1
    <3>3. CASE n = m BY <3>1, <3>2, <3>3
    <3>4. CASE n # m
      <4>1. n \in L + 1 - j .. L + 1 BY <1>0, <2>1, <3>4
      <4>2. f[n] = Listed(n, f[n + 1]) BY <2>2, <4>1
      <4>3. QED BY <3>1, <3>2, <3>4, <4>2
    <3>5. QED BY <3>3, <3>4
  <2>4. QED BY <2>3
<1>3. L \in T
  <2> HIDE DEF T, L
  <2>1. QED BY <1>0, <1>1, <1>2, Induction
<1>4. PICK f : Solves(f, L) BY <1>0, <1>3
<1> DEFINE g == [n \in 1 .. L + 1 |-> f[n]]
<1>5. ASSUME NEW n \in 1 .. L + 1 PROVE g[n] = Listed(n, g[n + 1])
  <2>1. n \in L + 1 - L .. L + 1 BY <1>0
  <2>2. g[n] = Listed(n, f[n + 1]) BY <1>4, <2>1
  <2>3. CASE n = L + 1 BY <1>0, <2>2, <2>3 DEF Listed
  <2>4. CASE n # L + 1 BY <1>0, <2>2, <2>4
  <2>5. QED BY <2>3, <2>4
<1>6. g = [n \in 1 .. L + 1 |-> Listed(n, g[n + 1])] BY <1>5
<1>7. QED BY <1>6

\* NotRunFrom satisfies its recursive equation.
LEMMA NotRunUnfolds ==
  \A n \in 1 .. Len(Members) + 1 : NotRunFrom[n] = Listed(n, NotRunFrom[n + 1])
<1>1. NotRunFrom = CHOOSE f : f = [n \in 1 .. Len(Members) + 1 |-> Listed(n, f[n + 1])]
  BY DEF NotRunFrom, Listed
<1>2. NotRunFrom = [n \in 1 .. Len(Members) + 1 |-> Listed(n, NotRunFrom[n + 1])]
  BY <1>1, NotRunExists
<1>3. QED BY <1>2

\* NotRunFrom lists the remaining Steps and nothing else, in order.
LEMMA NotRunLists ==
  \A n \in 1 .. Len(Members) + 1 : Lists(NotRunFrom[n], n)
<1> USE DEF L
<1> DEFINE T == {j \in Nat : j <= L => Lists(NotRunFrom[L + 1 - j], L + 1 - j)}
<1>0. L \in Nat BY MembersFacts
<1>1. 0 \in T
  <2>1. NotRunFrom[L + 1] = <<>>
    <3>1. L + 1 \in 1 .. L + 1 /\ L + 1 > L BY <1>0
    <3>2. NotRunFrom[L + 1] = Listed(L + 1, NotRunFrom[L + 1 + 1]) BY <3>1, NotRunUnfolds
    <3>3. QED BY <3>1, <3>2 DEF Listed
  <2>2. \A i \in Steps : ~(i >= L + 1) BY <1>0, MembersFacts
  <2>3. Lists(<<>>, L + 1) BY <2>2 DEF Lists
  <2>4. QED BY <1>0, <2>1, <2>3
<1>2. ASSUME NEW j \in Nat, j \in T PROVE j + 1 \in T
  <2>1. SUFFICES ASSUME j + 1 <= L PROVE Lists(NotRunFrom[L + 1 - (j + 1)], L + 1 - (j + 1))
    BY <1>2
  <2> DEFINE m == L - j
             s == NotRunFrom[m + 1]
  <2>2. m \in 1 .. L /\ L + 1 - (j + 1) = m /\ L + 1 - j = m + 1 BY <1>0, <2>1
  <2>3. Lists(s, m + 1) BY <1>0, <1>2, <2>1, <2>2
  <2>4. NotRunFrom[m] = (IF m \in Steps THEN <<Entry(m, "not-run")>> ELSE <<>>) \o s
    <3>1. m \in 1 .. Len(Members) + 1 /\ ~(m > Len(Members)) BY <1>0, <2>2
    <3>2. NotRunFrom[m] = Listed(m, NotRunFrom[m + 1]) BY <3>1, NotRunUnfolds
    <3>3. QED BY <3>1, <3>2 DEF Listed
  <2> HIDE DEF m, s, T, L
  <2>5. s \in Seq(TraceEntries) /\ Len(s) \in Nat BY <2>3 DEF Lists
  <2>6. \A i \in Steps : i \in Int BY <1>0, MembersFacts
  <2>6a. \A k \in 1 .. Len(s) : s[k].member \in Int /\ s[k].kind = "not-run" /\ s[k].member >= m + 1
    <3>1. \A e \in TraceEntries : e.member \in Int BY <1>0, MembersFacts DEF TraceEntries
    <3>2. \A k \in 1 .. Len(s) : s[k] \in TraceEntries BY <2>5
    <3>3. QED BY <2>3, <3>1, <3>2 DEF Lists
  <2>7. CASE m \in Steps
    <3> DEFINE e == Entry(m, "not-run")
    <3>1. e \in TraceEntries /\ e.kind = "not-run" /\ e.member = m
      BY <2>7, MembersFacts DEF TraceEntries, Entry
    <3> HIDE DEF e
    <3>2. /\ <<e>> \o s \in Seq(TraceEntries) /\ Len(<<e>> \o s) = 1 + Len(s)
          /\ (<<e>> \o s)[1] = e
          /\ \A k \in 1 .. Len(s) : (<<e>> \o s)[k + 1] = s[k]
      BY <2>5, <3>1
    <3> DEFINE t == <<e>> \o s
    <3>3. \A k \in 1 .. Len(t) : k = 1 \/ (k - 1 \in 1 .. Len(s) /\ t[k] = s[k - 1])
      BY <2>5, <3>2
    <3>4. \A k \in 1 .. Len(t) : t[k].kind = "not-run" /\ t[k].member >= m /\ t[k].member \in Int
      BY <2>2, <2>6a, <3>1, <3>2, <3>3
    <3>5. ASSUME NEW k \in 1 .. Len(t), NEW i \in 1 .. Len(t), k < i PROVE t[k].member < t[i].member
      <4>1. i - 1 \in 1 .. Len(s) /\ t[i] = s[i - 1] BY <2>5, <3>3, <3>5
      <4>2. CASE k = 1 BY <2>2, <2>6a, <3>1, <3>2, <4>1, <4>2
      <4>3. CASE k # 1
        <5>1. k - 1 \in 1 .. Len(s) /\ t[k] = s[k - 1] /\ k - 1 < i - 1
          BY <2>5, <3>3, <3>5, <4>3
        <5>2. QED BY <2>3, <4>1, <5>1 DEF Lists
      <4>4. QED BY <4>2, <4>3
    <3>6. ASSUME NEW i \in Steps, i >= m PROVE \E k \in 1 .. Len(t) : t[k].member = i
      <4>1. CASE i = m BY <2>5, <3>1, <3>2, <4>1
      <4>2. CASE i # m
        <5>1. i >= m + 1 BY <2>2, <2>6, <3>6, <4>2
        <5>2. PICK k \in 1 .. Len(s) : s[k].member = i BY <2>3, <5>1 DEF Lists
        <5>3. k + 1 \in 1 .. Len(t) /\ t[k + 1] = s[k] BY <2>5, <3>2
        <5>4. QED BY <5>2, <5>3
      <4>3. QED BY <4>1, <4>2
    <3>7. Lists(t, m) BY <3>2, <3>4, <3>5, <3>6 DEF Lists
    <3>8. QED BY <2>2, <2>4, <2>7, <3>7 DEF e
  <2>8. CASE m \notin Steps
    <3>1. NotRunFrom[m] = s BY <2>4, <2>5, <2>8
    <3>2. \A i \in Steps : i >= m => i >= m + 1 BY <2>2, <2>6, <2>8
    <3>3. Lists(s, m) BY <2>2, <2>3, <2>6a, <3>2 DEF Lists
    <3>4. QED BY <2>2, <3>1, <3>3
  <2>9. QED BY <2>7, <2>8
<1>3. \A j \in Nat : j \in T
  <2> HIDE DEF T, L
  <2>1. QED BY <1>1, <1>2, Induction
<1>4. ASSUME NEW n \in 1 .. L + 1 PROVE Lists(NotRunFrom[n], n)
  <2>1. L + 1 - n \in Nat /\ L + 1 - n <= L /\ L + 1 - (L + 1 - n) = n BY <1>0
  <2>2. L + 1 - n \in T BY <1>3, <2>1
  <2>3. QED BY <2>1, <2>2
<1>5. QED BY <1>4
-----------------------------------------------------------------------------
(* Traces                                                                  *)

Kind(n) == IF n \in Steps THEN "attempted" ELSE "checkpoint"

\* The entries of settled members.
LEMMA EntryFacts ==
  /\ \A n \in 1 .. L : Entry(n, Kind(n)) \in TraceEntries
  /\ \A n, kind : Entry(n, kind).member = n /\ Entry(n, kind).kind = kind
  /\ \A n : Settlement(Entry(n, Kind(n)))
BY MembersFacts DEF Entry, Kind, TraceEntries, Settlement, L

\* A settled member extends the Trace.
LEMMA SettledFacts ==
  /\ \A n \in 0 .. L : /\ SettledTo(n) \in Seq(TraceEntries) /\ Len(SettledTo(n)) = n
                       /\ \A k \in 1 .. n : SettledTo(n)[k] = Entry(k, Kind(k))
  /\ \A n \in 1 .. L : Append(SettledTo(n - 1), Entry(n, Kind(n))) = SettledTo(n)
  /\ SettledTo(0) = <<>>
<1>0. L \in Nat BY MembersFacts DEF L
<1>1. ASSUME NEW n \in 0 .. L
      PROVE  /\ SettledTo(n) \in Seq(TraceEntries) /\ Len(SettledTo(n)) = n
             /\ \A k \in 1 .. n : SettledTo(n)[k] = Entry(k, Kind(k))
  <2>1. SettledTo(n) = [k \in 1 .. n |-> Entry(k, Kind(k))] BY DEF SettledTo, Kind
  <2>2. \A k \in 1 .. n : Entry(k, Kind(k)) \in TraceEntries BY <1>0, EntryFacts
  <2>3. QED BY <2>1, <2>2
<1>2. ASSUME NEW n \in 1 .. L PROVE Append(SettledTo(n - 1), Entry(n, Kind(n))) = SettledTo(n)
  <2> DEFINE s == SettledTo(n - 1)
             t == SettledTo(n)
  <2>1. /\ s \in Seq(TraceEntries) /\ Len(s) = n - 1
        /\ \A k \in 1 .. n - 1 : s[k] = Entry(k, Kind(k))
    <3>1. n - 1 \in 0 .. L BY <1>0
    <3>2. QED BY <1>1, <3>1
  <2>2. /\ t \in Seq(TraceEntries) /\ Len(t) = n
        /\ \A k \in 1 .. n : t[k] = Entry(k, Kind(k))
    BY <1>1
  <2>3. Entry(n, Kind(n)) \in TraceEntries BY EntryFacts
  <2> HIDE DEF s, t
  <2>4. /\ Append(s, Entry(n, Kind(n))) \in Seq(TraceEntries)
        /\ Len(Append(s, Entry(n, Kind(n)))) = n
    BY <1>0, <2>1, <2>3
  <2>5. ASSUME NEW k \in 1 .. n PROVE Append(s, Entry(n, Kind(n)))[k] = t[k]
    BY <1>0, <2>1, <2>2, <2>5
  <2>6. Append(s, Entry(n, Kind(n))) = t BY <1>0, <2>2, <2>4, <2>5
  <2>7. QED BY <2>6 DEF s, t
<1>3. SettledTo(0) = <<>> BY DEF SettledTo
<1>4. QED BY <1>1, <1>2, <1>3

\* NotRunFrom is a part of a Trace.
LEMMA NotRunTypes == \A n \in 1 .. L + 1 : NotRunFrom[n] \in Seq(TraceEntries)
BY NotRunLists DEF Lists, L

\* A member is settled, or the Run ends before it, or because of it.
LEMMA ExactSteps ==
  ASSUME NEW n \in 1 .. L + 1, NEW trace, Exact("paused", n, trace)
  PROVE  /\ n \in 1 .. L /\ trace \in Seq(TraceEntries)
         /\ Append(trace, Entry(n, Kind(n))) \in Seq(TraceEntries)
         /\ Exact(IF n = L THEN "complete" ELSE "paused", n + 1, Append(trace, Entry(n, Kind(n))))
         /\ trace \o NotRunFrom[n] \in Seq(TraceEntries)
         /\ Exact("stopped", n, trace \o NotRunFrom[n])
         /\ Append(trace, Entry(n, Kind(n))) \o NotRunFrom[n + 1] \in Seq(TraceEntries)
         /\ Exact("stopped", n, Append(trace, Entry(n, Kind(n))) \o NotRunFrom[n + 1])
<1>0. L \in Nat /\ n \in 1 .. L /\ trace = SettledTo(n - 1) BY MembersFacts DEF Exact, L
<1>1. /\ trace \in Seq(TraceEntries) /\ Append(trace, Entry(n, Kind(n))) = SettledTo(n)
      /\ SettledTo(n) \in Seq(TraceEntries)
  <2>1. n - 1 \in 0 .. L /\ n \in 0 .. L BY <1>0
  <2>2. QED BY <1>0, <2>1, SettledFacts
<1>2. NotRunFrom[n] \in Seq(TraceEntries) /\ NotRunFrom[n + 1] \in Seq(TraceEntries)
  BY <1>0, NotRunTypes
<1>3. /\ trace \o NotRunFrom[n] \in Seq(TraceEntries)
      /\ SettledTo(n) \o NotRunFrom[n + 1] \in Seq(TraceEntries)
  BY <1>1, <1>2
<1>4. Exact(IF n = L THEN "complete" ELSE "paused", n + 1, SettledTo(n)) BY <1>0 DEF Exact
<1>5. Exact("stopped", n, trace \o NotRunFrom[n]) BY <1>0 DEF Exact
<1>6. Exact("stopped", n, SettledTo(n) \o NotRunFrom[n + 1]) BY <1>0 DEF Exact
<1>7. QED BY <1>0, <1>1, <1>3, <1>4, <1>5, <1>6
-----------------------------------------------------------------------------
(* Scheduling and Checkpoints                                              *)

\* Nothing but a phase is missing to play on from r.
Ready(r) ==
  /\ r \in Runners /\ TraceIsExact(r) /\ r.status = "paused"
  /\ r.execution = "none" /\ r.visible /\ r.controls <= AdmittedControls - 2
  /\ Len(r.ledger) \in 1 .. MaxLedger /\ r.ledger[Len(r.ledger)] = "authorization"
  /\ Observing(r) => r.next \in Checkpoints
  /\ Loading(r) => r.activeCheckpoint = r.next
  /\ r.activeCheckpoint \in {0, r.next} /\ r.resume <= Len(r.watches)

\* schedule, when the Run may play on.
LEMMA ScheduleSound ==
  ASSUME NEW r, Ready(r) PROVE Sound(schedule(r)) /\ schedule(r).execution = "none"
<1>1. r \in Runners /\ r.status = "paused" /\ r.next \in 1 .. L /\ L \in Nat
  <2>1. r \in Runners /\ r.status = "paused" /\ r.next \in 1 .. L + 1 /\ Exact("paused", r.next, r.trace)
    BY DEF Ready, Runners, TraceIsExact
  <2>2. QED BY <2>1, ExactSteps, MembersFacts DEF L
<1> DEFINE t == [r EXCEPT !.phase = "waiting", !.pauseReason = "none", !.timer = "dispatch"]
<1>2. schedule(r) = t BY <1>1 DEF schedule, HasNext, L
<1>3. t \in Runners BY <1>1, ZenonT(60) DEF Runners, Phases
<1>4. PhaseIsTrue(t) /\ ObservesTheNext(t) /\ DriftHolds(t) /\ ControlsFit(t) /\ t.execution = "none"
  BY <1>1 DEF Ready, Runners, PhaseIsTrue, ObservesTheNext, DriftHolds, ControlsFit, Executing,
     Idle, Ended, Observing, Loading
<1>5. TraceIsExact(t) BY <1>1 DEF Ready, TraceIsExact, Runners
<1>6. QED BY <1>2, <1>3, <1>4, <1>5 DEF Sound

\* What stops observing is as sound as before.
Unobserved(r) == [stopCheckpointObservation(r) EXCEPT !.activeCheckpoint = 0]

\* Unobserved takes the loads, the watches and the timer, and nothing else.
LEMMA UnobservedFacts ==
  ASSUME NEW r \in Runners PROVE LET u == Unobserved(r)
         IN  /\ u \in Runners /\ ~Observing(u) /\ ~Loading(u) /\ u.timer = "none" /\ u.resume = 0
             /\ u.activeCheckpoint = 0 /\ u.watches = <<>>
             /\ u.phase = r.phase /\ u.pauseReason = r.pauseReason /\ u.visible = r.visible
             /\ u.status = r.status /\ u.next = r.next /\ u.trace = r.trace
             /\ u.controls = r.controls /\ u.ledger = r.ledger /\ u.execution = r.execution
             /\ u.wasPlaying = r.wasPlaying
<1> DEFINE u == Unobserved(r)
<1>1. u = [r EXCEPT !.fields = "none", !.diagnostics = "none", !.timer = "none", !.resume = 0,
                    !.watches = <<>>, !.activeCheckpoint = 0]
  BY DEF Unobserved, stopCheckpointObservation, Runners
<1>2. <<>> \in Seq({"open", "reading"}) /\ 0 \in 0 .. L + 1 BY MembersFacts DEF L
<1> HIDE DEF u
<1>3. u \in Runners BY <1>1, <1>2, ZenonT(60) DEF Runners
<1>4. /\ u.fields = "none" /\ u.diagnostics = "none" /\ u.timer = "none" /\ u.resume = 0
      /\ u.activeCheckpoint = 0 /\ u.watches = <<>>
      /\ u.phase = r.phase /\ u.pauseReason = r.pauseReason /\ u.visible = r.visible
      /\ u.status = r.status /\ u.next = r.next /\ u.trace = r.trace
      /\ u.controls = r.controls /\ u.ledger = r.ledger /\ u.execution = r.execution
      /\ u.wasPlaying = r.wasPlaying
  BY <1>1 DEF Runners
<1>5. QED BY <1>3, <1>4 DEF u, Observing, Loading

\* A failed Checkpoint ends a sound Run soundly.
LEMMA CheckpointFailed ==
  ASSUME NEW r, Sound(r), r.next \in Checkpoints, Idle(r)
  PROVE  Sound(checkpointFailed(r)) /\ checkpointFailed(r).execution = "none"
<1> DEFINE u == Unobserved(r)
           trace == Append(r.trace, Entry(r.next, "checkpoint")) \o NotRunFrom[r.next + 1]
           t == [u EXCEPT !.status = "stopped", !.phase = "stopped", !.trace = trace]
<1>1. /\ r \in Runners /\ r.status = "paused" /\ r.execution = "none" /\ r.next \in 1 .. L + 1
      /\ Exact("paused", r.next, r.trace)
  BY DEF Sound, Runners, Idle, PhaseIsTrue, Executing, TraceIsExact
<1>2. Kind(r.next) = "checkpoint" BY DEF Kind, Checkpoints
<1>3. trace \in Seq(TraceEntries) /\ Exact("stopped", r.next, trace) BY <1>1, <1>2, ExactSteps
<1>4. checkpointFailed(r) = t
  BY <1>1, UnobservedFacts DEF checkpointFailed, stopAfterCheckpoint, Unobserved
<1> HIDE DEF trace, u
<1>5. /\ u \in Runners /\ ~Observing(u) /\ ~Loading(u) /\ u.timer = "none" /\ u.resume = 0
      /\ u.activeCheckpoint = 0 /\ u.watches = <<>> /\ u.next = r.next /\ u.ledger = r.ledger
      /\ u.execution = "none"
  BY <1>1, UnobservedFacts DEF u
<1>6. t \in Runners /\ TraceIsExact(t)
  BY <1>1, <1>3, <1>5, ZenonT(60) DEF Runners, Phases, TraceIsExact
<1>7. PhaseIsTrue(t) /\ ObservesTheNext(t) /\ DriftHolds(t) /\ ControlsFit(t) /\ t.execution = "none"
  BY <1>1, <1>5 DEF Sound, Runners, PhaseIsTrue, ObservesTheNext, DriftHolds, ControlsFit, Executing,
     Idle, Ended, Observing, Loading
<1>8. QED BY <1>4, <1>6, <1>7 DEF Sound

\* A passed Checkpoint lets a sound Run go on soundly, or completes it.
LEMMA CheckpointPassed ==
  ASSUME NEW r, Sound(r), r.next \in Checkpoints, Idle(r)
  PROVE  Sound(checkpointPassed(r)) /\ checkpointPassed(r).execution = "none"
<1> DEFINE u == Unobserved(r)
           s == Advanced(u, "checkpoint")
           trace == Append(r.trace, Entry(r.next, "checkpoint"))
           status == IF r.next = L THEN "complete" ELSE "paused"
<1>1. /\ r \in Runners /\ r.status = "paused" /\ r.execution = "none" /\ r.next \in 1 .. L + 1
      /\ Exact("paused", r.next, r.trace) /\ L \in Nat
  BY MembersFacts DEF Sound, Runners, Idle, PhaseIsTrue, Executing, TraceIsExact, L
<1>2. Kind(r.next) = "checkpoint" BY DEF Kind, Checkpoints
<1>3. r.next \in 1 .. L /\ trace \in Seq(TraceEntries) /\ Exact(status, r.next + 1, trace)
  BY <1>1, <1>2, ExactSteps
<1>4. /\ u \in Runners /\ ~Observing(u) /\ ~Loading(u) /\ u.timer = "none" /\ u.resume = 0
      /\ u.activeCheckpoint = 0 /\ u.watches = <<>> /\ u.next = r.next /\ u.ledger = r.ledger
      /\ u.execution = "none" /\ u.phase = r.phase /\ u.pauseReason = r.pauseReason
      /\ u.visible = r.visible /\ u.controls = r.controls /\ u.trace = r.trace
      /\ u.wasPlaying = r.wasPlaying
  BY <1>1, UnobservedFacts
<1>5. s = [u EXCEPT !.next = r.next + 1, !.trace = trace, !.status = status]
  BY <1>1, <1>4 DEF Advanced, L
<1>6. checkpointPassed(r) =
        IF s.status = "complete" THEN [s EXCEPT !.phase = "complete"]
        ELSE IF s.phase = "paused" THEN s
        ELSE IF ~s.wasPlaying \/ ~s.visible
               THEN [s EXCEPT !.phase = "paused", !.pauseReason = IF s.visible THEN "USER" ELSE "HIDDEN"]
        ELSE schedule(s)
  BY DEF checkpointPassed, Unobserved
<1> HIDE DEF u, trace, status
<1>7. /\ s \in Runners /\ TraceIsExact(s)
      /\ s.phase = r.phase /\ s.status = status /\ s.next = r.next + 1 /\ s.ledger = r.ledger
      /\ s.visible = r.visible /\ s.controls = r.controls /\ s.execution = "none"
      /\ s.pauseReason = r.pauseReason /\ s.wasPlaying = r.wasPlaying
      /\ s.timer = "none" /\ s.resume = 0 /\ s.activeCheckpoint = 0 /\ s.watches = <<>>
      /\ s.fields = "none" /\ s.diagnostics = "none" /\ s.status \in {"complete", "paused"}
  <2>1. r.next + 1 \in 1 .. L + 1 /\ status \in {"complete", "paused"} BY <1>1, <1>3 DEF status
  <2>2. s \in Runners BY <1>3, <1>4, <1>5, <2>1, ZenonT(60) DEF Runners
  <2>3. s.status = status /\ s.next = r.next + 1 /\ s.trace = trace BY <1>4, <1>5 DEF Runners
  <2>4. u.fields = "none" /\ u.diagnostics = "none" BY <1>4 DEF Observing, Loading
  <2>5. TraceIsExact(s) BY <1>3, <2>3 DEF TraceIsExact
  <2>6. /\ s.phase = u.phase /\ s.ledger = u.ledger /\ s.visible = u.visible
        /\ s.controls = u.controls /\ s.execution = u.execution /\ s.pauseReason = u.pauseReason
        /\ s.wasPlaying = u.wasPlaying /\ s.timer = u.timer /\ s.resume = u.resume
        /\ s.activeCheckpoint = u.activeCheckpoint /\ s.watches = u.watches
        /\ s.fields = u.fields /\ s.diagnostics = u.diagnostics
    BY <1>4, <1>5, ZenonT(60) DEF Runners
  <2>7. QED BY <1>4, <2>1, <2>2, <2>3, <2>4, <2>5, <2>6
<1> HIDE DEF s
<1>8. CASE s.status = "complete"
  <2> DEFINE t == [s EXCEPT !.phase = "complete"]
  <2>1. t \in Runners /\ TraceIsExact(t) BY <1>7 DEF Runners, Phases, TraceIsExact
  <2>2. ~(r.phase = "paused" /\ r.pauseReason = "DRIFT_REVIEW_REQUIRED")
    BY MembersFacts DEF Sound, DriftHolds
  <2>3. PhaseIsTrue(t) /\ ObservesTheNext(t) /\ DriftHolds(t) /\ ControlsFit(t) /\ t.execution = "none"
    BY <1>1, <1>7, <1>8, <2>2 DEF Sound, Runners, PhaseIsTrue, ObservesTheNext, DriftHolds, ControlsFit,
       Executing, Idle, Ended, Observing, Loading
  <2>4. QED BY <1>6, <1>8, <2>1, <2>3 DEF Sound
<1>9. CASE s.status # "complete" /\ s.phase = "paused"
  <2>2. ~(r.phase = "paused" /\ r.pauseReason = "DRIFT_REVIEW_REQUIRED")
    BY MembersFacts DEF Sound, DriftHolds
  <2>3. PhaseIsTrue(s) /\ ObservesTheNext(s) /\ DriftHolds(s) /\ ControlsFit(s)
    BY <1>1, <1>7, <1>9, <2>2 DEF Sound, Runners, PhaseIsTrue, ObservesTheNext, DriftHolds, ControlsFit,
       Executing, Idle, Ended, Observing, Loading
  <2>4. QED BY <1>6, <1>7, <1>9, <2>3 DEF Sound
<1>10. CASE s.status # "complete" /\ s.phase # "paused" /\ (~s.wasPlaying \/ ~s.visible)
  <2> DEFINE t == [s EXCEPT !.phase = "paused", !.pauseReason = IF s.visible THEN "USER" ELSE "HIDDEN"]
  <2>1. t \in Runners /\ TraceIsExact(t) BY <1>7 DEF Runners, Phases, TraceIsExact
  <2>2. /\ t.phase = "paused" /\ t.status = "paused" /\ t.execution = "none" /\ t.timer = "none"
        /\ t.pauseReason # "DRIFT_REVIEW_REQUIRED" /\ t.ledger = r.ledger /\ t.controls = r.controls
        /\ t.resume = 0 /\ t.activeCheckpoint = 0 /\ t.watches = <<>>
        /\ t.fields = "none" /\ t.diagnostics = "none"
    BY <1>7, <1>10 DEF Runners
  <2>3. PhaseIsTrue(t) /\ ObservesTheNext(t)
    BY <2>2 DEF PhaseIsTrue, ObservesTheNext, Executing, Idle, Ended, Observing, Loading
  <2>4. DriftHolds(t) /\ ControlsFit(t)
    <3>1. AdmittedControls \in Nat /\ r.controls \in Nat BY <1>1, MembersFacts DEF Runners
    <3>2. r.phase \in {"waiting", "checkpoint-waiting"} BY <1>7, <1>10 DEF Idle
    <3>3. r.controls <= AdmittedControls - 2 BY <3>2 DEF Sound, ControlsFit
    <3>4. Len(r.ledger) \in 1 .. MaxLedger /\ r.ledger[Len(r.ledger)] = "authorization"
      BY <3>2 DEF Sound, DriftHolds, Ended
    <3>5. QED BY <2>2, <3>1, <3>3, <3>4 DEF DriftHolds, ControlsFit
  <2>5. QED BY <1>6, <1>10, <2>1, <2>2, <2>3, <2>4 DEF Sound
<1>11. CASE s.status # "complete" /\ s.phase # "paused" /\ s.wasPlaying /\ s.visible
  <2>1. Ready(s)
    BY <1>1, <1>7, <1>11 DEF Ready, Sound, Runners, DriftHolds, ControlsFit, Idle, Ended, Observing, Loading
  <2>2. QED BY <1>6, <1>11, <2>1, ScheduleSound
<1>12. QED BY <1>8, <1>9, <1>10, <1>11

\* Whatever is observed of the next Checkpoint: a paused Run that goes on by it has
\* the controls for it.
LEMMA ObservationSound ==
  ASSUME NEW r, Sound(r), r.next \in Checkpoints, Idle(r), NEW t \in Runners,
         t.status = r.status, t.next = r.next, t.trace = r.trace, t.controls = r.controls,
         t.ledger = r.ledger, t.execution = r.execution, t.visible = r.visible,
         t.pauseReason = r.pauseReason,
         t.phase \in {r.phase, "checkpoint-waiting"},
         t.phase = r.phase \/ r.phase # "paused" \/ r.controls <= AdmittedControls - 2,
         t.activeCheckpoint \in {0, r.next}, Loading(t) => t.activeCheckpoint = r.next,
         t.timer = "none" \/ t.phase \in {"waiting", "checkpoint-waiting"},
         t.resume <= Len(t.watches)
  PROVE  Sound(t) /\ t.execution = "none"
<1>1. TraceIsExact(t) BY DEF Sound, TraceIsExact
<1>2. Idle(t) BY DEF Idle
<1>3. ~(r.phase = "paused" /\ r.pauseReason = "DRIFT_REVIEW_REQUIRED") /\ ~Ended(r)
  BY MembersFacts DEF Sound, DriftHolds, Idle, Ended
<1>4. PhaseIsTrue(t) /\ t.execution = "none" BY DEF Sound, PhaseIsTrue, Executing, Idle
<1>5. ObservesTheNext(t) BY <1>2 DEF ObservesTheNext
<1>6. DriftHolds(t)
  <2>1. Len(r.ledger) \in 1 .. MaxLedger /\ r.ledger[Len(r.ledger)] = "authorization"
    BY <1>3 DEF Sound, DriftHolds
  <2>2. ~(t.phase = "paused" /\ t.pauseReason = "DRIFT_REVIEW_REQUIRED") BY <1>3
  <2>3. QED BY <1>2, <2>1, <2>2 DEF DriftHolds, Idle
<1>7. ControlsFit(t)
  <2>1. AdmittedControls \in Nat /\ r.controls \in Nat BY MembersFacts DEF Sound, Runners
  <2>2. QED BY <2>1 DEF Sound, ControlsFit, Idle
<1>8. QED BY <1>1, <1>4, <1>5, <1>6, <1>7 DEF Sound

\* An evaluation, whenever it comes, leaves the Run sound: it is refused when the Run
\* is over, and otherwise a Checkpoint is the next member.
LEMMA EvaluateSound ==
  ASSUME NEW r, Sound(r), Ended(r) \/ (r.next \in Checkpoints /\ Idle(r)),
         NEW w, NEW moment \in {"begun", "open", "due", "read"}, NEW t \in evaluate(r, w, moment)
  PROVE  Sound(t) /\ t.execution = r.execution /\ (Ended(r) => t = r)
<1>1. CASE Ended(r) BY <1>1 DEF evaluate, Ended
<1>2. CASE ~Ended(r)
  <2> DEFINE query == [r EXCEPT !.watches[w] = "reading"]
  <2>1. r \in Runners /\ r.next \in Checkpoints /\ Idle(r) /\ r.execution = "none"
    BY <1>2 DEF Sound, PhaseIsTrue, Idle, Executing
  <2>2. Members[r.next] \in {"instant", "eventual", "temporal"} BY <2>1, MembersFacts
  <2>3. PICK when \in {"begun", "open", "due", "read"} :
          \E e \in Evaluations(r, when) :
            t = CASE e = "pass" -> checkpointPassed(r)
                  [] e = "fail" -> checkpointFailed(r)
                  [] e = "waiting" -> checkpointWaits(r)
                  [] e = "query" -> query
    BY <1>2 DEF evaluate, Ended
  <2>4. PICK e \in Evaluations(r, when) :
          t = CASE e = "pass" -> checkpointPassed(r)
                [] e = "fail" -> checkpointFailed(r)
                [] e = "waiting" -> checkpointWaits(r)
                [] e = "query" -> query
    BY <2>3
  <2>5. e \in {"pass", "fail", "waiting", "query"} BY <2>2 DEF Evaluations
  <2>6. t \in {checkpointPassed(r), checkpointFailed(r), checkpointWaits(r), query}
    BY <2>4, <2>5
  <2>7. CASE t = checkpointPassed(r) BY <1>2, <2>1, <2>7, CheckpointPassed
  <2>8. CASE t = checkpointFailed(r) BY <1>2, <2>1, <2>8, CheckpointFailed
  <2>9. CASE t = checkpointWaits(r)
    <3>1. t = [r EXCEPT !.activeCheckpoint = r.next,
                        !.phase = IF r.phase = "paused" THEN r.phase ELSE "checkpoint-waiting"]
      BY <2>1, <2>9 DEF checkpointWaits, Runners
    <3>2. t \in Runners
      <4>1. r.next \in 0 .. L + 1 BY <2>1, MembersFacts DEF Runners, L
      <4>2. QED BY <2>1, <3>1, <4>1, ZenonT(60) DEF Runners, Phases
    <3>3. /\ t.status = r.status /\ t.next = r.next /\ t.trace = r.trace /\ t.controls = r.controls
          /\ t.ledger = r.ledger /\ t.execution = r.execution /\ t.visible = r.visible
          /\ t.pauseReason = r.pauseReason /\ t.timer = r.timer /\ t.resume = r.resume
          /\ t.watches = r.watches /\ t.activeCheckpoint = r.next
          /\ t.phase = IF r.phase = "paused" THEN r.phase ELSE "checkpoint-waiting"
      BY <2>1, <3>1 DEF Runners
    <3>4. t.timer = "none" \/ t.phase \in {"waiting", "checkpoint-waiting"}
      BY <3>3 DEF Sound, ObservesTheNext
    <3>5. t.resume <= Len(t.watches) BY <3>3 DEF Sound, ObservesTheNext
    <3>6. Sound(t) /\ t.execution = "none" BY <2>1, <3>2, <3>3, <3>4, <3>5, ObservationSound
    <3>7. QED BY <1>2, <2>1, <3>6
  <2>10. CASE t = query
    <3>1. r.watches \in Seq({"open", "reading"}) BY <2>1 DEF Runners
    <3>2. [r.watches EXCEPT ![w] = "reading"] \in Seq({"open", "reading"})
          /\ Len([r.watches EXCEPT ![w] = "reading"]) = Len(r.watches)
      <4> DEFINE x == [r.watches EXCEPT ![w] = "reading"]
      <4>1. r.watches \in [1 .. Len(r.watches) -> {"open", "reading"}] /\ Len(r.watches) \in Nat
        BY <3>1
      <4>2. x \in [1 .. Len(r.watches) -> {"open", "reading"}] BY <4>1
      <4> HIDE DEF x
      <4>3. x \in Seq({"open", "reading"}) /\ Len(x) = Len(r.watches) BY <4>1, <4>2
      <4>4. QED BY <4>3 DEF x
    <3>3. t = [r EXCEPT !.watches = [r.watches EXCEPT ![w] = "reading"]]
      BY <2>1, <2>10 DEF Runners
    <3>4. t \in Runners BY <2>1, <3>2, <3>3 DEF Runners
    <3>5. /\ t.status = r.status /\ t.next = r.next /\ t.trace = r.trace /\ t.controls = r.controls
          /\ t.ledger = r.ledger /\ t.execution = r.execution /\ t.visible = r.visible
          /\ t.pauseReason = r.pauseReason /\ t.timer = r.timer /\ t.resume = r.resume
          /\ t.phase = r.phase /\ t.activeCheckpoint = r.activeCheckpoint
          /\ t.fields = r.fields /\ t.diagnostics = r.diagnostics
          /\ Len(t.watches) = Len(r.watches)
      BY <2>1, <3>2, <3>3 DEF Runners
    <3>6. /\ t.timer = "none" \/ t.phase \in {"waiting", "checkpoint-waiting"}
          /\ t.resume <= Len(t.watches) /\ t.activeCheckpoint \in {0, r.next}
          /\ Loading(t) => t.activeCheckpoint = r.next
      BY <3>5 DEF Sound, ObservesTheNext, Loading
    <3>7. Sound(t) /\ t.execution = "none" BY <2>1, <3>4, <3>5, <3>6, ObservationSound
    <3>8. QED BY <1>2, <2>1, <3>7
  <2>11. QED BY <2>6, <2>7, <2>8, <2>9, <2>10
<1>3. QED BY <1>1, <1>2

\* A dispatched Checkpoint is evaluated and may wait; if it was paused meanwhile it
\* is the active one, and otherwise there is room for its controls.
MayBegin(r) ==
  /\ Sound(r) /\ r.next \in Checkpoints /\ Idle(r)
  /\ r.phase = "paused" /\ r.activeCheckpoint = 0 => r.controls <= AdmittedControls - 2

\* A Checkpoint begins, from a pause or from a load as well.
LEMMA BeginCheckpointSound ==
  ASSUME NEW r, MayBegin(r), NEW playing \in BOOLEAN, NEW t \in beginCheckpoint(r, playing)
  PROVE  Sound(t) /\ t.execution = "none"
<1> DEFINE s == [r EXCEPT !.wasPlaying = playing, !.watches = Append(@, "open")]
           w == Len(s.watches)
           opened == [s EXCEPT !.activeCheckpoint = r.next, !.resume = w]
           keepsPause == r.phase = "paused" /\ r.activeCheckpoint = r.next
           timed == scheduleCheckpointDeadline([opened EXCEPT !.phase = "checkpoint-waiting"])
           waits == IF keepsPause \/ ~r.visible THEN opened ELSE timed
<1>1. r \in Runners /\ r.next \in Checkpoints /\ Idle(r) /\ Sound(r) /\ r.next # 0
  BY MembersFacts DEF MayBegin, Sound, Runners
<1>2. /\ r.watches \in Seq({"open", "reading"}) /\ Append(r.watches, "open") \in Seq({"open", "reading"})
      /\ Len(Append(r.watches, "open")) = Len(r.watches) + 1 /\ Len(r.watches) \in Nat
      /\ r.resume \in Nat /\ r.resume <= Len(r.watches)
  BY <1>1 DEF Runners, Sound, ObservesTheNext
<1>3. \/ t \in evaluate(s, w, "begun")
      \/ t = opened /\ (keepsPause \/ ~r.visible)
      \/ t = timed /\ ~keepsPause
  <2>1. beginCheckpoint(r, playing) =
          evaluate(s, w, "begun") \union (IF Members[r.next] = "instant" THEN {} ELSE {waits})
    BY DEF beginCheckpoint
  <2> HIDE DEF s, w, opened, timed, keepsPause
  <2>2. t \in evaluate(s, w, "begun") \/ t = waits BY <2>1
  <2>3. QED BY <2>2
<1>4. Sound(s) /\ s.next = r.next /\ Idle(s) /\ s.execution = "none"
  <2>1. s \in Runners BY <1>1, <1>2 DEF Runners
  <2>2. /\ s.status = r.status /\ s.next = r.next /\ s.trace = r.trace /\ s.controls = r.controls
        /\ s.ledger = r.ledger /\ s.execution = r.execution /\ s.visible = r.visible
        /\ s.pauseReason = r.pauseReason /\ s.timer = r.timer /\ s.resume = r.resume
        /\ s.phase = r.phase /\ s.activeCheckpoint = r.activeCheckpoint
        /\ s.fields = r.fields /\ s.diagnostics = r.diagnostics
        /\ Len(s.watches) = Len(r.watches) + 1
    BY <1>1, <1>2 DEF Runners
  <2>3. /\ s.timer = "none" \/ s.phase \in {"waiting", "checkpoint-waiting"}
        /\ s.resume <= Len(s.watches) /\ s.activeCheckpoint \in {0, r.next}
        /\ Loading(s) => s.activeCheckpoint = r.next
    BY <1>1, <1>2, <2>2 DEF Sound, ObservesTheNext, Loading
  <2>4. QED BY <1>1, <2>1, <2>2, <2>3, ObservationSound DEF Idle
<1>5. CASE t \in evaluate(s, w, "begun")
  <2> HIDE DEF s, w
  <2>1. QED BY <1>1, <1>4, <1>5, EvaluateSound
<1>6. CASE t = opened /\ (keepsPause \/ ~r.visible)
  <2>1. t = [r EXCEPT !.wasPlaying = playing, !.watches = Append(r.watches, "open"),
                      !.activeCheckpoint = r.next, !.resume = Len(r.watches) + 1]
    BY <1>1, <1>2, <1>6 DEF Runners
  <2>2. t \in Runners
    <3>1. r.next \in 0 .. L + 1 /\ Len(r.watches) + 1 \in Nat
      BY <1>1, <1>2, MembersFacts DEF Runners, L
    <3>2. QED BY <1>1, <1>2, <2>1, <3>1 DEF Runners
  <2>3. /\ t.status = r.status /\ t.next = r.next /\ t.trace = r.trace /\ t.controls = r.controls
        /\ t.ledger = r.ledger /\ t.execution = r.execution /\ t.visible = r.visible
        /\ t.pauseReason = r.pauseReason /\ t.timer = r.timer /\ t.resume = Len(t.watches)
        /\ t.phase = r.phase /\ t.activeCheckpoint = r.next /\ Len(t.watches) = Len(r.watches) + 1
    BY <1>1, <1>2, <2>1 DEF Runners
  <2>4. t.timer = "none" \/ t.phase \in {"waiting", "checkpoint-waiting"}
    BY <1>1, <2>3 DEF Sound, ObservesTheNext
  <2>5. t.resume <= Len(t.watches) BY <1>2, <2>3
  <2>6. QED BY <1>1, <2>2, <2>3, <2>4, <2>5, ObservationSound
<1>7. CASE t = timed /\ ~keepsPause
  <2>1. t = [r EXCEPT !.wasPlaying = playing, !.watches = Append(r.watches, "open"),
                      !.activeCheckpoint = r.next, !.resume = Len(r.watches) + 1,
                      !.phase = "checkpoint-waiting", !.timer = "deadline"]
    BY <1>1, <1>2, <1>7 DEF Runners, scheduleCheckpointDeadline
  <2>2. t \in Runners
    <3>1. r.next \in 0 .. L + 1 /\ Len(r.watches) + 1 \in Nat
      BY <1>1, <1>2, MembersFacts DEF Runners, L
    <3>2. QED BY <1>1, <1>2, <2>1, <3>1, ZenonT(60) DEF Runners, Phases
  <2>3. /\ t.status = r.status /\ t.next = r.next /\ t.trace = r.trace /\ t.controls = r.controls
        /\ t.ledger = r.ledger /\ t.execution = r.execution /\ t.visible = r.visible
        /\ t.pauseReason = r.pauseReason /\ t.resume = Len(t.watches)
        /\ t.phase = "checkpoint-waiting" /\ t.activeCheckpoint = r.next
        /\ Len(t.watches) = Len(r.watches) + 1
    BY <1>1, <1>2, <2>1 DEF Runners
  <2>4. r.phase # "paused" \/ r.controls <= AdmittedControls - 2
    BY <1>1, <1>7 DEF MayBegin, Sound, ObservesTheNext
  <2>5. t.resume <= Len(t.watches) BY <1>2, <2>3
  <2>6. QED BY <1>1, <2>2, <2>3, <2>4, <2>5, ObservationSound
<1>8. QED BY <1>3, <1>5, <1>6, <1>7

\* A Checkpoint whose fields are loaded is dispatched, or waits for diagnostics.
LEMMA DispatchLoadedSound ==
  ASSUME NEW r, MayBegin(r), NEW playing \in BOOLEAN, NEW t \in dispatchLoadedCheckpoint(r, playing)
  PROVE  Sound(t) /\ t.execution = "none"
<1> DEFINE kept == r.phase = "paused" /\ r.activeCheckpoint = r.next
           u == [r EXCEPT !.phase = IF kept THEN r.phase ELSE "checkpoint-waiting",
                          !.wasPlaying = TRUE, !.activeCheckpoint = r.next,
                          !.diagnostics = IF playing THEN "playing" ELSE "stepped"]
<1>1. /\ r \in Runners /\ r.next \in Checkpoints /\ Idle(r) /\ Sound(r) /\ r.next # 0
      /\ r.next \in 0 .. L + 1
  BY MembersFacts DEF MayBegin, Sound, Runners, L
<1>2. t \in beginCheckpoint(r, playing) \/ t = u BY <1>1 DEF dispatchLoadedCheckpoint, Runners
<1>3. CASE t \in beginCheckpoint(r, playing) BY <1>3, BeginCheckpointSound
<1>4. CASE t = u
  <2>1. t \in Runners
    <3>1. /\ (IF kept THEN r.phase ELSE "checkpoint-waiting") \in Phases
          /\ (IF playing THEN "playing" ELSE "stepped") \in {"none", "playing", "stepped"}
      BY <1>1 DEF Runners, Phases
    <3> HIDE DEF kept
    <3>2. QED BY <1>1, <1>4, <3>1, ZenonT(60) DEF Runners
  <2>2. /\ t.status = r.status /\ t.next = r.next /\ t.trace = r.trace /\ t.controls = r.controls
        /\ t.ledger = r.ledger /\ t.execution = r.execution /\ t.visible = r.visible
        /\ t.pauseReason = r.pauseReason /\ t.timer = r.timer /\ t.resume = r.resume
        /\ t.phase = (IF kept THEN r.phase ELSE "checkpoint-waiting")
        /\ t.activeCheckpoint = r.next /\ t.watches = r.watches
    BY <1>1, <1>4 DEF Runners
  <2>3. /\ t.timer = "none" \/ t.phase \in {"waiting", "checkpoint-waiting"}
        /\ t.resume <= Len(t.watches)
        /\ t.phase = r.phase \/ r.phase # "paused" \/ r.controls <= AdmittedControls - 2
    BY <1>1, <2>2 DEF Sound, ObservesTheNext, MayBegin
  <2>4. QED BY <1>1, <2>1, <2>2, <2>3, ObservationSound
<1>5. QED BY <1>2, <1>3, <1>4

\* A Checkpoint is dispatched, or waits for fields.
LEMMA DispatchCheckpointSound ==
  ASSUME NEW r, MayBegin(r), r.activeCheckpoint # 0 => r.phase # "paused", NEW t \in dispatchCheckpoint(r)
  PROVE  Sound(t) /\ t.execution = "none"
<1> DEFINE playing == r.phase = "waiting"
           u == [r EXCEPT !.phase = "checkpoint-waiting", !.activeCheckpoint = r.next,
                          !.fields = IF playing THEN "playing" ELSE "stepped"]
<1>1. /\ r \in Runners /\ r.next \in Checkpoints /\ Idle(r) /\ Sound(r) /\ r.next # 0
      /\ r.next \in 0 .. L + 1
  BY MembersFacts DEF MayBegin, Sound, Runners, L
<1>2. t \in dispatchLoadedCheckpoint(r, playing) \/ t = u BY <1>1 DEF dispatchCheckpoint
<1>3. CASE t \in dispatchLoadedCheckpoint(r, playing)
  <2>1. playing \in BOOLEAN OBVIOUS
  <2> HIDE DEF playing
  <2>2. QED BY <1>3, <2>1, DispatchLoadedSound
<1>4. CASE t = u
  <2>1. t \in Runners
    <3>1. /\ "checkpoint-waiting" \in Phases
          /\ (IF playing THEN "playing" ELSE "stepped") \in {"none", "playing", "stepped"}
      BY DEF Phases
    <3> HIDE DEF playing
    <3>2. QED BY <1>1, <1>4, <3>1, ZenonT(60) DEF Runners
  <2>2. /\ t.status = r.status /\ t.next = r.next /\ t.trace = r.trace /\ t.controls = r.controls
        /\ t.ledger = r.ledger /\ t.execution = r.execution /\ t.visible = r.visible
        /\ t.pauseReason = r.pauseReason /\ t.timer = r.timer /\ t.resume = r.resume
        /\ t.phase = "checkpoint-waiting" /\ t.activeCheckpoint = r.next /\ t.watches = r.watches
    BY <1>1, <1>4 DEF Runners
  <2>3. t.resume <= Len(t.watches) /\ (r.phase # "paused" \/ r.controls <= AdmittedControls - 2)
    BY <1>1, <2>2 DEF Sound, ObservesTheNext, MayBegin
  <2>4. QED BY <1>1, <2>1, <2>2, <2>3, ObservationSound
<1>5. QED BY <1>2, <1>3, <1>4

\* Play resumes an observed Checkpoint.
LEMMA ResumeSound ==
  ASSUME NEW r, Sound(r), r.phase = "paused", r.next \in Checkpoints, r.controls <= AdmittedControls - 2,
         NEW t \in resumeCheckpoint(r)
  PROVE  Sound(t) /\ t.execution = "none"
<1> DEFINE s == [r EXCEPT !.wasPlaying = TRUE, !.phase = "checkpoint-waiting"]
<1>1. r \in Runners /\ Idle(r) BY DEF Sound, Idle
<1>2. Sound(s) /\ s.execution = "none" /\ s.next = r.next /\ s.phase = "checkpoint-waiting"
  <2>1. s \in Runners BY <1>1 DEF Runners, Phases
  <2>2. /\ s.status = r.status /\ s.next = r.next /\ s.trace = r.trace /\ s.controls = r.controls
        /\ s.ledger = r.ledger /\ s.execution = r.execution /\ s.visible = r.visible
        /\ s.pauseReason = r.pauseReason /\ s.timer = r.timer /\ s.resume = r.resume
        /\ s.phase = "checkpoint-waiting" /\ s.activeCheckpoint = r.activeCheckpoint
        /\ s.watches = r.watches /\ s.fields = r.fields /\ s.diagnostics = r.diagnostics
    BY <1>1 DEF Runners
  <2>3. /\ s.resume <= Len(s.watches) /\ s.activeCheckpoint \in {0, r.next}
        /\ Loading(s) => s.activeCheckpoint = r.next
    BY <2>2 DEF Sound, ObservesTheNext, Loading
  <2>4. QED BY <1>1, <2>1, <2>2, <2>3, ObservationSound
<1>3. PICK u \in evaluate(s, r.resume, "open") :
        t = IF u.watches = <<>> \/ u.phase # "checkpoint-waiting" THEN u ELSE scheduleCheckpointDeadline(u)
  <2>1. resumeCheckpoint(r) = {IF u.watches = <<>> \/ u.phase # "checkpoint-waiting" THEN u
                               ELSE scheduleCheckpointDeadline(u) : u \in evaluate(s, r.resume, "open")}
    BY DEF resumeCheckpoint
  <2> HIDE DEF s
  <2>2. QED BY <2>1
<1> HIDE DEF s
<1>4. Sound(u) /\ u.execution = "none"
  <2>1. Idle(s) BY <1>2 DEF Idle
  <2>2. QED BY <1>2, <1>3, <2>1, EvaluateSound
<1>5. CASE u.watches = <<>> \/ u.phase # "checkpoint-waiting" BY <1>3, <1>4, <1>5
<1>6. CASE u.watches # <<>> /\ u.phase = "checkpoint-waiting"
  <2>1. t = [u EXCEPT !.timer = "deadline"] BY <1>3, <1>6 DEF scheduleCheckpointDeadline
  <2>2. u \in Runners /\ Observing(u) /\ ~Ended(u) BY <1>4, <1>6 DEF Sound, Observing, Ended
  <2>3. u.next \in Checkpoints /\ Idle(u) BY <1>4, <2>2 DEF Sound, ObservesTheNext
  <2>4. t \in Runners BY <2>1, <2>2 DEF Runners
  <2>5. /\ t.status = u.status /\ t.next = u.next /\ t.trace = u.trace /\ t.controls = u.controls
        /\ t.ledger = u.ledger /\ t.execution = u.execution /\ t.visible = u.visible
        /\ t.pauseReason = u.pauseReason /\ t.resume = u.resume
        /\ t.phase = u.phase /\ t.activeCheckpoint = u.activeCheckpoint
        /\ t.watches = u.watches /\ t.fields = u.fields /\ t.diagnostics = u.diagnostics
    BY <2>1, <2>2 DEF Runners
  <2>6. /\ t.resume <= Len(t.watches) /\ t.activeCheckpoint \in {0, u.next}
        /\ Loading(t) => t.activeCheckpoint = u.next
    BY <1>4, <2>5 DEF Sound, ObservesTheNext, Loading
  <2>7. QED BY <1>4, <1>6, <2>3, <2>4, <2>5, <2>6, ObservationSound
<1>7. QED BY <1>5, <1>6
-----------------------------------------------------------------------------
(* Dispatch and settlement                                                 *)

\* What ends a Run before its next member: a retired target, a drift that the ledger
\* cannot retain, a Stop.
LEMMA TerminalizedFacts ==
  ASSUME NEW r \in Runners, TraceIsExact(r) PROVE LET t == terminalizeScenarioRun(r)
         IN  /\ t \in Runners /\ TraceIsExact(t)
             /\ t.status = IF r.status = "paused" THEN "stopped" ELSE r.status
             /\ r.status # "paused" => t = r
             /\ t.phase = r.phase /\ t.pauseReason = r.pauseReason /\ t.visible = r.visible
             /\ t.next = r.next /\ t.controls = r.controls /\ t.ledger = r.ledger
             /\ t.timer = r.timer /\ t.execution = r.execution /\ t.resume = r.resume
             /\ t.activeCheckpoint = r.activeCheckpoint /\ t.watches = r.watches
             /\ t.fields = r.fields /\ t.diagnostics = r.diagnostics
<1> DEFINE trace == r.trace \o NotRunFrom[r.next]
           t == [r EXCEPT !.status = "stopped", !.trace = trace]
<1>1. CASE r.status # "paused" BY <1>1 DEF terminalizeScenarioRun
<1>2. CASE r.status = "paused"
  <2>1. r.next \in 1 .. L + 1 /\ Exact("paused", r.next, r.trace)
    BY <1>2 DEF Runners, TraceIsExact
  <2>2. trace \in Seq(TraceEntries) /\ Exact("stopped", r.next, trace) BY <2>1, ExactSteps
  <2>3. terminalizeScenarioRun(r) = t BY <1>2 DEF terminalizeScenarioRun
  <2> HIDE DEF trace
  <2>4. t \in Runners BY <2>2 DEF Runners
  <2>5. t.status = "stopped" /\ t.next = r.next /\ t.trace = trace BY DEF Runners
  <2>6. TraceIsExact(t) BY <2>2, <2>5 DEF TraceIsExact
  <2>7. /\ t.phase = r.phase /\ t.pauseReason = r.pauseReason /\ t.visible = r.visible
        /\ t.controls = r.controls /\ t.ledger = r.ledger
        /\ t.timer = r.timer /\ t.execution = r.execution /\ t.resume = r.resume
        /\ t.activeCheckpoint = r.activeCheckpoint /\ t.watches = r.watches
        /\ t.fields = r.fields /\ t.diagnostics = r.diagnostics
    BY DEF Runners
  <2>8. QED BY <1>2, <2>3, <2>4, <2>5, <2>6, <2>7
<1>3. QED BY <1>1, <1>2

\* A stopped Run needs little to be sound.
LEMMA StoppedSound ==
  ASSUME NEW r \in Runners, TraceIsExact(r), r.status = "stopped", r.phase = "stopped",
         r.execution = "none", ~Loading(r), r.timer = "none",
         r.activeCheckpoint \in {0, r.next}, r.resume <= Len(r.watches),
         Len(r.ledger) \in 1 .. MaxLedger
  PROVE  Sound(r)
<1>1. PhaseIsTrue(r) BY DEF PhaseIsTrue, Executing, Idle
<1>2. ObservesTheNext(r) BY DEF ObservesTheNext, Ended
<1>3. DriftHolds(r) /\ ControlsFit(r) BY DEF DriftHolds, ControlsFit, Ended
<1>4. QED BY <1>1, <1>2, <1>3 DEF Sound

\* The record of a control is the only effect of appendControl.
LEMMA ControlFacts ==
  ASSUME NEW r \in Runners PROVE LET t == appendControl(r)
         IN  /\ t \in Runners /\ (TraceIsExact(r) => TraceIsExact(t))
             /\ t.controls = IF r.controls < AdmittedControls THEN r.controls + 1 ELSE r.controls
             /\ t.phase = r.phase /\ t.pauseReason = r.pauseReason /\ t.visible = r.visible
             /\ t.status = r.status /\ t.next = r.next /\ t.trace = r.trace /\ t.ledger = r.ledger
             /\ t.timer = r.timer /\ t.execution = r.execution /\ t.resume = r.resume
             /\ t.activeCheckpoint = r.activeCheckpoint /\ t.watches = r.watches
             /\ t.fields = r.fields /\ t.diagnostics = r.diagnostics
<1> DEFINE t == [r EXCEPT !.controls = r.controls + 1]
<1>1. CASE ~(r.controls < AdmittedControls) BY <1>1 DEF appendControl
<1>2. CASE r.controls < AdmittedControls
  <2>1. appendControl(r) = t BY <1>2 DEF appendControl
  <2>2. r.controls + 1 \in 0 .. AdmittedControls BY <1>2, MembersFacts DEF Runners
  <2>3. t \in Runners BY <2>2 DEF Runners
  <2>4. /\ t.controls = r.controls + 1
        /\ t.phase = r.phase /\ t.pauseReason = r.pauseReason /\ t.visible = r.visible
        /\ t.status = r.status /\ t.next = r.next /\ t.trace = r.trace /\ t.ledger = r.ledger
        /\ t.timer = r.timer /\ t.execution = r.execution /\ t.resume = r.resume
        /\ t.activeCheckpoint = r.activeCheckpoint /\ t.watches = r.watches
        /\ t.fields = r.fields /\ t.diagnostics = r.diagnostics
    BY DEF Runners
  <2>5. TraceIsExact(r) => TraceIsExact(t) BY <2>4 DEF TraceIsExact
  <2>6. QED BY <1>2, <2>1, <2>3, <2>4, <2>5
<1>3. QED BY <1>1, <1>2

\* A Run before a Step that is neither executed nor observed.
BeforeStep(r) ==
  /\ r \in Runners /\ TraceIsExact(r) /\ r.status = "paused" /\ r.next \in Steps
  /\ r.execution = "none" /\ ~Observing(r) /\ r.timer = "none" /\ r.activeCheckpoint = 0
  /\ r.resume <= Len(r.watches)
  /\ r.controls <= AdmittedControls - 2 /\ Len(r.ledger) \in 1 .. MaxLedger

\* A drift ends the Run or holds it back.
LEMMA DriftedSound ==
  ASSUME NEW r, BeforeStep(r), NEW t \in Drifted(r) PROVE Sound(t) /\ t.execution = "none"
<1> DEFINE s == [r EXCEPT !.manualOverride = FALSE, !.phase = "paused",
                          !.pauseReason = "DRIFT_REVIEW_REQUIRED"]
           ended == [terminalizeScenarioRun(s) EXCEPT !.phase = "stopped", !.pauseReason = "none"]
           q == [s EXCEPT !.ledger = Append(@, "drift")]
           retained == appendControl(q)
<1>1. t = ended \/ (t = retained /\ LedgerHasRoom(r))
  <2>1. Drifted(r) = {ended} \union (IF LedgerHasRoom(r) THEN {retained} ELSE {}) BY DEF Drifted
  <2> HIDE DEF ended, retained
  <2>2. QED BY <2>1
<1>2. s \in Runners
  <2>1. r \in Runners BY DEF BeforeStep
  <2>2. QED BY <2>1 DEF Runners, Phases
<1>3. /\ s.phase = "paused" /\ s.pauseReason = "DRIFT_REVIEW_REQUIRED" /\ s.visible = r.visible
      /\ s.status = "paused" /\ s.next = r.next /\ s.trace = r.trace /\ s.ledger = r.ledger
      /\ s.controls = r.controls /\ s.timer = "none" /\ s.execution = "none" /\ s.resume = r.resume
      /\ s.activeCheckpoint = 0 /\ s.watches = r.watches /\ s.fields = r.fields
      /\ s.diagnostics = r.diagnostics
  BY DEF BeforeStep, Runners
<1>4. TraceIsExact(s) BY <1>3 DEF BeforeStep, TraceIsExact
<1>5. /\ ~Loading(r) /\ r.watches = <<>> /\ r.resume <= Len(r.watches)
      /\ Len(r.ledger) \in 1 .. MaxLedger /\ r.next \in Steps
      /\ r.controls <= AdmittedControls - 2 /\ r.controls \in Nat /\ AdmittedControls \in Nat
      /\ r.ledger \in Seq({"authorization", "drift"}) /\ MaxLedger \in Nat
  BY MembersFacts DEF BeforeStep, Observing, Runners
<1> HIDE DEF s
<1>6. CASE t = ended
  <2> DEFINE u == terminalizeScenarioRun(s)
  <2>1. /\ u \in Runners /\ TraceIsExact(u) /\ u.status = "stopped" /\ u.next = s.next
        /\ u.controls = s.controls /\ u.ledger = s.ledger
        /\ u.timer = s.timer /\ u.execution = s.execution /\ u.resume = s.resume
        /\ u.activeCheckpoint = s.activeCheckpoint /\ u.watches = s.watches
        /\ u.fields = s.fields /\ u.diagnostics = s.diagnostics
    BY <1>2, <1>3, <1>4, TerminalizedFacts
  <2> HIDE DEF u
  <2>2. t = [u EXCEPT !.phase = "stopped", !.pauseReason = "none"] BY <1>6 DEF u
  <2>3. t \in Runners BY <2>1, <2>2, ZenonT(60) DEF Runners, Phases
  <2>4. /\ t.status = "stopped" /\ t.phase = "stopped" /\ t.next = u.next /\ t.trace = u.trace
        /\ t.ledger = u.ledger /\ t.timer = u.timer /\ t.execution = u.execution
        /\ t.resume = u.resume /\ t.activeCheckpoint = u.activeCheckpoint /\ t.watches = u.watches
        /\ t.fields = u.fields /\ t.diagnostics = u.diagnostics
    BY <2>1, <2>2 DEF Runners
  <2>5. TraceIsExact(t) BY <2>1, <2>4 DEF TraceIsExact
  <2>6. ~Loading(t) BY <1>3, <1>5, <2>1, <2>4 DEF Loading
  <2>7. QED BY <1>3, <1>5, <2>1, <2>3, <2>4, <2>5, <2>6, StoppedSound
<1>7. CASE t = retained /\ LedgerHasRoom(r)
  <2> DEFINE ledger == Append(r.ledger, "drift")
  <2>1. ledger \in Seq({"authorization", "drift"}) /\ Len(ledger) = Len(r.ledger) + 1 BY <1>5
  <2>2. Len(ledger) \in 1 .. MaxLedger BY <1>5, <1>7, <2>1 DEF LedgerHasRoom
  <2> HIDE DEF ledger
  <2>3. q = [s EXCEPT !.ledger = ledger] BY <1>2, <1>3 DEF ledger, Runners
  <2> HIDE DEF q
  <2>4. q \in Runners BY <1>2, <2>1, <2>3 DEF Runners
  <2>5. /\ q.phase = "paused" /\ q.pauseReason = "DRIFT_REVIEW_REQUIRED" /\ q.visible = r.visible
        /\ q.status = "paused" /\ q.next = r.next /\ q.trace = r.trace /\ q.ledger = ledger
        /\ q.controls = r.controls /\ q.timer = "none" /\ q.execution = "none" /\ q.resume = r.resume
        /\ q.activeCheckpoint = 0 /\ q.watches = r.watches /\ q.fields = r.fields
        /\ q.diagnostics = r.diagnostics
    BY <1>2, <1>3, <2>3 DEF Runners
  <2>6. TraceIsExact(q) BY <1>3, <1>4, <2>5 DEF TraceIsExact
  <2>7. /\ t \in Runners /\ TraceIsExact(t) /\ t.controls = r.controls + 1
        /\ t.phase = "paused" /\ t.pauseReason = "DRIFT_REVIEW_REQUIRED"
        /\ t.status = "paused" /\ t.next = r.next /\ t.ledger = ledger
        /\ t.timer = "none" /\ t.execution = "none" /\ t.resume = r.resume
        /\ t.activeCheckpoint = 0 /\ t.watches = r.watches /\ t.fields = r.fields
        /\ t.diagnostics = r.diagnostics
    BY <1>5, <1>7, <2>4, <2>5, <2>6, ControlFacts
  <2>8. PhaseIsTrue(t) /\ ObservesTheNext(t)
    BY <1>5, <2>7 DEF PhaseIsTrue, ObservesTheNext, Executing, Idle, Observing, Loading
  <2>9. DriftHolds(t) /\ ControlsFit(t) BY <1>5, <2>2, <2>7 DEF DriftHolds, ControlsFit
  <2>10. QED BY <2>7, <2>8, <2>9 DEF Sound
<1>8. QED BY <1>1, <1>6, <1>7

\* What a dispatch starts from: a due timer, or Step RunNext.
MayDispatch(r) ==
  /\ Sound(r) /\ r.phase \in {"waiting", "paused"} /\ r.timer = "none" /\ r.visible
  /\ r.phase = "paused" => r.activeCheckpoint = 0
  /\ r.controls <= AdmittedControls - 2 /\ r.ledger[Len(r.ledger)] = "authorization"

\* A dispatch leaves the Run sound, and begins an execution only before a Step.
LEMMA DispatchSound ==
  ASSUME NEW r, MayDispatch(r), ~RetiredDuringLoad, NEW t \in dispatch(r) PROVE Sound(t)
<1> DEFINE executes == [r EXCEPT !.phase = "in-flight", !.execution = "running"]
           manual == [r EXCEPT !.manualOverride = FALSE]
<1>1. /\ r \in Runners /\ TraceIsExact(r) /\ r.status = "paused" /\ r.execution = "none" /\ Idle(r)
      /\ r.next \in 1 .. L /\ r.activeCheckpoint \in {0, r.next} /\ r.resume <= Len(r.watches)
      /\ Len(r.ledger) \in 1 .. MaxLedger /\ ~Ended(r) /\ L \in Nat
  <2>1. r \in Runners /\ TraceIsExact(r) /\ r.status = "paused" /\ r.execution = "none" /\ Idle(r)
    BY DEF MayDispatch, Sound, PhaseIsTrue, Executing, Idle
  <2>2. r.next \in 1 .. L + 1 /\ Exact("paused", r.next, r.trace)
    BY <2>1 DEF Runners, TraceIsExact
  <2>3. r.next \in 1 .. L /\ L \in Nat BY <2>2, ExactSteps, MembersFacts DEF L
  <2>4. QED BY <2>1, <2>3 DEF MayDispatch, Sound, ObservesTheNext, DriftHolds, Idle, Ended
<1>2. \/ t = TargetRetired(r) /\ ~Loading(r)
      \/ r.next \in Steps /\ (t = executes \/ t \in Drifted(r))
      \/ r.next \notin Steps /\ t \in dispatchCheckpoint(manual)
  BY DEF dispatch, Loading
<1>3. CASE t = TargetRetired(r) /\ ~Loading(r)
  <2> DEFINE u == terminalizeScenarioRun(manual)
  <2>1. manual \in Runners BY <1>1 DEF Runners
  <2>2. /\ manual.status = "paused" /\ manual.next = r.next /\ manual.trace = r.trace
        /\ manual.ledger = r.ledger /\ manual.timer = "none" /\ manual.execution = "none"
        /\ manual.resume = r.resume /\ manual.activeCheckpoint = r.activeCheckpoint
        /\ manual.watches = r.watches /\ manual.fields = r.fields /\ manual.diagnostics = r.diagnostics
    BY <1>1 DEF MayDispatch, Runners
  <2>3. TraceIsExact(manual) BY <1>1, <2>2 DEF TraceIsExact
  <2> HIDE DEF manual
  <2>4. /\ u \in Runners /\ TraceIsExact(u) /\ u.status = "stopped" /\ u.next = r.next
        /\ u.ledger = r.ledger /\ u.timer = "none" /\ u.execution = "none" /\ u.resume = r.resume
        /\ u.activeCheckpoint = r.activeCheckpoint /\ u.watches = r.watches
        /\ u.fields = r.fields /\ u.diagnostics = r.diagnostics
    BY <2>1, <2>2, <2>3, TerminalizedFacts
  <2>5. t = [u EXCEPT !.phase = "stopped", !.pauseReason = "none"]
    BY <1>3 DEF TargetRetired, manual
  <2> HIDE DEF u
  <2>6. t \in Runners BY <2>4, <2>5 DEF Runners, Phases
  <2>7. /\ t.status = "stopped" /\ t.phase = "stopped" /\ t.next = u.next /\ t.trace = u.trace
        /\ t.ledger = u.ledger /\ t.timer = u.timer /\ t.execution = u.execution
        /\ t.resume = u.resume /\ t.activeCheckpoint = u.activeCheckpoint /\ t.watches = u.watches
        /\ t.fields = u.fields /\ t.diagnostics = u.diagnostics
    BY <2>4, <2>5 DEF Runners
  <2>8. TraceIsExact(t) BY <2>4, <2>7 DEF TraceIsExact
  <2>9. ~Loading(t) BY <1>3, <2>4, <2>7 DEF Loading
  <2>10. QED BY <1>1, <2>4, <2>6, <2>7, <2>8, <2>9, StoppedSound
<1>4. CASE r.next \in Steps /\ (t = executes \/ t \in Drifted(r))
  <2>1. r.next \notin Checkpoints BY <1>4, MembersFacts
  <2>2. ~Observing(r) BY <1>1, <2>1 DEF MayDispatch, Sound, ObservesTheNext
  <2>3. r.activeCheckpoint = 0 BY <2>2 DEF Observing
  <2>4. CASE t = executes
    <3>1. t \in Runners BY <1>1, <2>4 DEF Runners, Phases
    <3>2. /\ t.phase = "in-flight" /\ t.execution = "running" /\ t.visible = r.visible
          /\ t.status = "paused" /\ t.next = r.next /\ t.trace = r.trace /\ t.ledger = r.ledger
          /\ t.controls = r.controls /\ t.timer = "none" /\ t.resume = r.resume
          /\ t.activeCheckpoint = 0 /\ t.watches = r.watches /\ t.fields = r.fields
          /\ t.diagnostics = r.diagnostics
      BY <1>1, <2>3, <2>4 DEF MayDispatch, Runners
    <3>3. TraceIsExact(t) BY <1>1, <3>2 DEF TraceIsExact
    <3>4. PhaseIsTrue(t) BY <1>4, <3>2 DEF MayDispatch, PhaseIsTrue, Executing, Idle
    <3>5. ObservesTheNext(t) BY <1>1, <2>2, <3>2 DEF ObservesTheNext, Observing, Loading
    <3>6. DriftHolds(t) /\ ControlsFit(t) BY <1>1, <3>2 DEF MayDispatch, DriftHolds, ControlsFit
    <3>7. QED BY <3>1, <3>3, <3>4, <3>5, <3>6 DEF Sound
  <2>5. CASE t \in Drifted(r)
    <3>1. BeforeStep(r) BY <1>1, <1>4, <2>2, <2>3 DEF BeforeStep, MayDispatch
    <3>2. QED BY <2>5, <3>1, DriftedSound
  <2>6. QED BY <1>4, <2>4, <2>5
<1>5. CASE r.next \notin Steps /\ t \in dispatchCheckpoint(manual)
  <2>1. manual \in Runners BY <1>1 DEF Runners
  <2>2. /\ manual.status = r.status /\ manual.next = r.next /\ manual.trace = r.trace
        /\ manual.controls = r.controls /\ manual.ledger = r.ledger
        /\ manual.execution = r.execution /\ manual.visible = r.visible
        /\ manual.pauseReason = r.pauseReason /\ manual.phase = r.phase
        /\ manual.timer = r.timer /\ manual.activeCheckpoint = r.activeCheckpoint
        /\ manual.resume = r.resume /\ manual.watches = r.watches
        /\ manual.fields = r.fields /\ manual.diagnostics = r.diagnostics
    BY <1>1 DEF Runners
  <2>3. r.next \in Checkpoints BY <1>1, <1>5, MembersFacts DEF L
  <2>4. /\ Loading(manual) => manual.activeCheckpoint = r.next
        /\ manual.timer = "none"
    BY <2>2 DEF MayDispatch, Sound, ObservesTheNext, Loading
  <2> HIDE DEF manual
  <2>5. Sound(manual) BY <1>1, <2>1, <2>2, <2>3, <2>4, ObservationSound DEF MayDispatch
  <2>6. MayBegin(manual) /\ (manual.activeCheckpoint # 0 => manual.phase # "paused")
    BY <1>1, <2>2, <2>3, <2>5 DEF MayBegin, MayDispatch, Idle
  <2>7. QED BY <1>5, <2>6, DispatchCheckpointSound
<1>6. QED BY <1>2, <1>3, <1>4, <1>5

\* A recorded control leaves a Run that is over sound.
LEMMA ControlSound ==
  ASSUME NEW r, Sound(r), r.phase = "stopped"
  PROVE  Sound(appendControl(r)) /\ appendControl(r).phase = "stopped"
<1> DEFINE t == appendControl(r)
<1>1. r \in Runners /\ TraceIsExact(r) /\ r.status = "stopped" /\ r.execution = "none"
  BY DEF Sound, PhaseIsTrue, Executing
<1>2. /\ ~Loading(r) /\ r.timer = "none" /\ r.activeCheckpoint \in {0, r.next}
      /\ r.resume <= Len(r.watches) /\ Len(r.ledger) \in 1 .. MaxLedger
  BY DEF Sound, ObservesTheNext, DriftHolds, Idle
<1>3. /\ t \in Runners /\ TraceIsExact(t) /\ t.phase = r.phase
      /\ t.status = r.status /\ t.next = r.next /\ t.ledger = r.ledger
      /\ t.timer = r.timer /\ t.execution = r.execution /\ t.resume = r.resume
      /\ t.activeCheckpoint = r.activeCheckpoint /\ t.watches = r.watches
      /\ t.fields = r.fields /\ t.diagnostics = r.diagnostics
  BY <1>1, ControlFacts
<1> HIDE DEF t
<1>4. ~Loading(t) BY <1>2, <1>3 DEF Loading
<1>5. Sound(t) BY <1>1, <1>2, <1>3, <1>4, StoppedSound
<1>6. QED BY <1>3, <1>5 DEF t

\* The settlement of an execution leaves the Run sound.
LEMMA SettleSound ==
  ASSUME NEW r, Sound(r), r.execution = "settling", NEW continue \in BOOLEAN,
         (HasNext(r) /\ r.next \in Checkpoints) => continue, NEW t \in settle(r, continue)
  PROVE  Sound(t) /\ t.execution = "none"
<1> DEFINE s == [r EXCEPT !.manualOverride = FALSE, !.execution = "none"]
           stopping == [terminalizeScenarioRun(s) EXCEPT !.phase = "stopped"]
<1>1. /\ r \in Runners /\ TraceIsExact(r) /\ Executing(r) /\ ~Ended(r) /\ ~Idle(r)
      /\ r.resume <= Len(r.watches) /\ Len(r.ledger) \in 1 .. MaxLedger
      /\ r.ledger[Len(r.ledger)] = "authorization"
      /\ L \in Nat /\ AdmittedControls \in Nat /\ r.controls \in Nat
      /\ (r.phase \in {"in-flight"} => r.visible /\ r.controls <= AdmittedControls - 2)
      /\ (r.phase = "pause-pending" => r.pauseReason # "DRIFT_REVIEW_REQUIRED"
                                       /\ r.controls < AdmittedControls)
  <2>1. r \in Runners /\ TraceIsExact(r) /\ Executing(r) BY DEF Sound, PhaseIsTrue
  <2>2. ~Ended(r) /\ ~Idle(r) BY <2>1 DEF Executing, Ended, Idle
  <2>3. L \in Nat /\ AdmittedControls \in Nat /\ r.controls \in Nat
    BY <2>1, MembersFacts DEF Runners, L
  <2>4. r.resume <= Len(r.watches) BY DEF Sound, ObservesTheNext
  <2>5. Len(r.ledger) \in 1 .. MaxLedger /\ r.ledger[Len(r.ledger)] = "authorization"
    BY <2>1, <2>2 DEF Sound, DriftHolds, Executing
  <2>6. /\ (r.phase \in {"in-flight"} => r.visible /\ r.controls <= AdmittedControls - 2)
        /\ (r.phase = "pause-pending" => r.pauseReason # "DRIFT_REVIEW_REQUIRED"
                                         /\ r.controls < AdmittedControls)
    BY DEF Sound, PhaseIsTrue, DriftHolds, ControlsFit
  <2>7. QED BY <2>1, <2>2, <2>3, <2>4, <2>5, <2>6
<1>2. ~Observing(r) BY <1>1 DEF Sound, ObservesTheNext
<1>3. s \in Runners BY <1>1 DEF Runners
<1>4. /\ s.phase = r.phase /\ s.pauseReason = r.pauseReason /\ s.visible = r.visible
      /\ s.status = r.status /\ s.next = r.next /\ s.trace = r.trace /\ s.ledger = r.ledger
      /\ s.controls = r.controls /\ s.timer = "none" /\ s.execution = "none" /\ s.resume = r.resume
      /\ s.activeCheckpoint = 0 /\ s.watches = <<>> /\ s.fields = "none" /\ s.diagnostics = "none"
      /\ r.watches = <<>>
  <2>1. r.timer = "none" BY <1>1 DEF Sound, ObservesTheNext, Idle
  <2>2. QED BY <1>1, <1>2, <2>1 DEF Runners, Observing, Loading
<1>5. TraceIsExact(s) BY <1>1, <1>4 DEF TraceIsExact
<1>6. /\ settle(r, continue) =
           IF s.status # "paused" THEN {[s EXCEPT !.phase = s.status]}
           ELSE IF s.phase = "stop-pending" THEN {stopping}
           ELSE IF s.phase = "pause-pending" THEN {[s EXCEPT !.phase = "paused"]}
           ELSE IF ~continue THEN {IF u.phase = "stopped" THEN appendControl(u) ELSE u : u \in Drifted(s)}
           ELSE IF r.manualOverride THEN {Paused(s, "USER")}
           ELSE {schedule(s)}
  BY DEF settle
<1> HIDE DEF s
<1>7. CASE s.status # "paused"
  <2>1. t = [s EXCEPT !.phase = s.status] BY <1>6, <1>7
  <2>2. s.status \in {"complete", "stopped"} /\ s.status \in Phases
    BY <1>3, <1>7 DEF Runners, Phases
  <2>3. t \in Runners BY <1>3, <2>1, <2>2 DEF Runners
  <2>4. /\ t.phase = s.status /\ t.visible = s.visible
        /\ t.status = s.status /\ t.next = s.next /\ t.trace = s.trace /\ t.ledger = s.ledger
        /\ t.controls = s.controls /\ t.timer = "none" /\ t.execution = "none" /\ t.resume = s.resume
        /\ t.activeCheckpoint = 0 /\ t.watches = <<>> /\ t.fields = "none" /\ t.diagnostics = "none"
    BY <1>3, <1>4, <2>1 DEF Runners
  <2>5. TraceIsExact(t) BY <1>5, <2>4 DEF TraceIsExact
  <2>6. PhaseIsTrue(t) /\ ObservesTheNext(t)
    BY <1>1, <1>4, <2>2, <2>4 DEF PhaseIsTrue, ObservesTheNext, Executing, Idle, Ended, Observing, Loading
  <2>7. DriftHolds(t) /\ ControlsFit(t) BY <1>1, <1>4, <2>2, <2>4 DEF DriftHolds, ControlsFit
  <2>8. QED BY <2>3, <2>4, <2>5, <2>6, <2>7 DEF Sound
<1>8. CASE s.status = "paused" /\ s.phase = "stop-pending"
  <2> DEFINE u == terminalizeScenarioRun(s)
  <2>1. /\ u \in Runners /\ TraceIsExact(u) /\ u.status = "stopped" /\ u.next = s.next
        /\ u.controls = s.controls /\ u.ledger = s.ledger
        /\ u.timer = "none" /\ u.execution = "none" /\ u.resume = s.resume
        /\ u.activeCheckpoint = 0 /\ u.watches = <<>>
        /\ u.fields = "none" /\ u.diagnostics = "none"
    BY <1>3, <1>4, <1>5, <1>8, TerminalizedFacts
  <2>2. t = [u EXCEPT !.phase = "stopped"] BY <1>6, <1>8
  <2> HIDE DEF u
  <2>3. t \in Runners BY <2>1, <2>2, SMTT(60) DEF Runners, Phases
  <2>4. /\ t.status = "stopped" /\ t.phase = "stopped" /\ t.next = u.next /\ t.trace = u.trace
        /\ t.ledger = u.ledger /\ t.timer = "none" /\ t.execution = "none"
        /\ t.resume = u.resume /\ t.activeCheckpoint = 0 /\ t.watches = <<>>
        /\ t.fields = "none" /\ t.diagnostics = "none"
    BY <2>1, <2>2 DEF Runners
  <2>5. TraceIsExact(t) BY <2>1, <2>4 DEF TraceIsExact
  <2>6. ~Loading(t) BY <2>4 DEF Loading
  <2>7. QED BY <1>1, <1>4, <2>1, <2>3, <2>4, <2>5, <2>6, StoppedSound
<1>9. ASSUME s.status = "paused", t \in Runners, t.phase = "paused", t.pauseReason # "DRIFT_REVIEW_REQUIRED",
             t.visible = s.visible,
             t.status = s.status, t.next = s.next, t.trace = s.trace, t.ledger = s.ledger,
             t.controls = s.controls, t.timer = "none", t.execution = "none", t.resume = s.resume,
             t.activeCheckpoint = 0, t.watches = <<>>, t.fields = "none", t.diagnostics = "none",
             s.controls < AdmittedControls
      PROVE  Sound(t)
  <2>1. TraceIsExact(t) BY <1>5, <1>9 DEF TraceIsExact
  <2>2. PhaseIsTrue(t) /\ ObservesTheNext(t)
    BY <1>1, <1>4, <1>9 DEF PhaseIsTrue, ObservesTheNext, Executing, Idle, Ended, Observing, Loading
  <2>3. DriftHolds(t) /\ ControlsFit(t) BY <1>1, <1>4, <1>9 DEF DriftHolds, ControlsFit
  <2>4. QED BY <1>9, <2>1, <2>2, <2>3 DEF Sound
<1>10. CASE s.status = "paused" /\ s.phase = "pause-pending"
  <2>1. t = [s EXCEPT !.phase = "paused"] BY <1>6, <1>10
  <2>2. t \in Runners BY <1>3, <2>1 DEF Runners, Phases
  <2>3. /\ t.phase = "paused" /\ t.pauseReason = s.pauseReason /\ t.visible = s.visible
        /\ t.status = s.status /\ t.next = s.next /\ t.trace = s.trace /\ t.ledger = s.ledger
        /\ t.controls = s.controls /\ t.timer = "none" /\ t.execution = "none" /\ t.resume = s.resume
        /\ t.activeCheckpoint = 0 /\ t.watches = <<>> /\ t.fields = "none" /\ t.diagnostics = "none"
    BY <1>3, <1>4, <2>1 DEF Runners
  <2>4. QED BY <1>1, <1>4, <1>9, <1>10, <2>2, <2>3
<1>11. CASE s.status = "paused" /\ s.phase = "in-flight"
  <2>1. s.visible /\ s.controls <= AdmittedControls - 2 /\ s.controls < AdmittedControls
    BY <1>1, <1>4, <1>11
  <2>2. CASE ~continue
    <3>1. PICK u \in Drifted(s) : t = IF u.phase = "stopped" THEN appendControl(u) ELSE u
      BY <1>6, <1>11, <2>2
    <3>2. s.next \in Steps
      <4>1. r.next \in 1 .. L + 1 /\ Exact("paused", r.next, r.trace)
        BY <1>1, <1>4, <1>11 DEF Runners, TraceIsExact
      <4>2. r.next \in 1 .. L BY <4>1, ExactSteps
      <4>3. HasNext(r) BY <1>1, <4>2 DEF HasNext, L
      <4>4. QED BY <1>4, <2>2, <4>2, <4>3, MembersFacts DEF L
    <3>3. ~Observing(s) BY <1>4 DEF Observing, Loading
    <3>4. BeforeStep(s) BY <1>1, <1>3, <1>4, <1>5, <1>11, <2>1, <3>2, <3>3 DEF BeforeStep
    <3>5. Sound(u) /\ u.execution = "none" BY <3>1, <3>4, DriftedSound
    <3>6. CASE u.phase = "stopped"
      <4>1. Sound(t) /\ t.phase = "stopped" BY <3>1, <3>5, <3>6, ControlSound
      <4>2. QED BY <4>1 DEF Sound, PhaseIsTrue, Executing
    <3>7. QED BY <3>1, <3>5, <3>6
  <2>3. CASE continue /\ r.manualOverride
    <3>1. t = [s EXCEPT !.phase = "paused", !.pauseReason = "USER"]
      BY <1>6, <1>11, <2>3 DEF Paused
    <3>2. t \in Runners BY <1>3, <3>1, ZenonT(60) DEF Runners, Phases
    <3>3. /\ t.phase = "paused" /\ t.pauseReason = "USER" /\ t.visible = s.visible
          /\ t.status = s.status /\ t.next = s.next /\ t.trace = s.trace /\ t.ledger = s.ledger
          /\ t.controls = s.controls /\ t.timer = "none" /\ t.execution = "none" /\ t.resume = s.resume
          /\ t.activeCheckpoint = 0 /\ t.watches = <<>> /\ t.fields = "none" /\ t.diagnostics = "none"
      BY <1>3, <1>4, <3>1 DEF Runners
    <3>4. QED BY <1>9, <1>11, <2>1, <3>2, <3>3
  <2>4. CASE continue /\ ~r.manualOverride
    <3>1. t = schedule(s) BY <1>6, <1>11, <2>4
    <3>2. Ready(s) BY <1>1, <1>3, <1>4, <1>5, <1>11, <2>1 DEF Ready, Observing, Loading
    <3>3. QED BY <3>1, <3>2, ScheduleSound
  <2>5. QED BY <2>2, <2>3, <2>4
<1>12. s.phase \in {"in-flight", "pause-pending", "stop-pending"} BY <1>1, <1>4 DEF Executing
<1>13. QED BY <1>4, <1>7, <1>8, <1>10, <1>11, <1>12, <1>1, <1>3 DEF Runners

\* The phases that Stop, Pause and hiding the panel leave.
LEMMA StopSound ==
  ASSUME NEW r, Sound(r), Idle(r) \/ r.phase \in {"in-flight", "pause-pending"}
  PROVE  Sound(stop(r)) /\ stop(r).execution = r.execution
<1>1. r \in Runners /\ TraceIsExact(r) BY DEF Sound
<1>2. CASE Idle(r)
  <2> DEFINE c == stopCheckpointObservation(r)
             a == appendControl(c)
             u == terminalizeScenarioRun(a)
             t == [u EXCEPT !.activeCheckpoint = 0, !.phase = "stopped"]
  <2>1. stop(r) = t BY <1>2 DEF stop, Idle
  <2>2. /\ r.status = "paused" /\ r.execution = "none" /\ Len(r.ledger) \in 1 .. MaxLedger
    BY <1>1, <1>2 DEF Sound, PhaseIsTrue, DriftHolds, Executing, Idle
  <2>3. c \in Runners
    <3>1. <<>> \in Seq({"open", "reading"}) OBVIOUS
    <3>2. QED BY <1>1, <3>1 DEF stopCheckpointObservation, Runners
  <2>4. /\ c.status = "paused" /\ c.next = r.next /\ c.trace = r.trace /\ c.ledger = r.ledger
        /\ c.timer = "none" /\ c.execution = "none" /\ c.resume = 0 /\ c.watches = <<>>
        /\ c.fields = "none" /\ c.diagnostics = "none"
    BY <1>1, <2>2 DEF stopCheckpointObservation, Runners
  <2>5. TraceIsExact(c) BY <1>1, <2>2, <2>4 DEF TraceIsExact
  <2> HIDE DEF c
  <2>6. /\ a \in Runners /\ TraceIsExact(a) /\ a.status = "paused" /\ a.next = r.next
        /\ a.ledger = r.ledger /\ a.timer = "none" /\ a.execution = "none" /\ a.resume = 0
        /\ a.watches = <<>> /\ a.fields = "none" /\ a.diagnostics = "none"
    BY <2>3, <2>4, <2>5, ControlFacts
  <2> HIDE DEF a
  <2>7. /\ u \in Runners /\ TraceIsExact(u) /\ u.status = "stopped" /\ u.next = r.next
        /\ u.ledger = r.ledger /\ u.timer = "none" /\ u.execution = "none" /\ u.resume = 0
        /\ u.watches = <<>> /\ u.fields = "none" /\ u.diagnostics = "none"
    BY <2>6, TerminalizedFacts
  <2> HIDE DEF u
  <2>8. t \in Runners
    <3>1. 0 \in 0 .. L + 1 /\ "stopped" \in Phases /\ u \in Runners
      BY <2>7, MembersFacts DEF L, Phases
    <3>2. QED BY <3>1 DEF Runners
  <2>9. /\ t.status = "stopped" /\ t.phase = "stopped" /\ t.next = u.next /\ t.trace = u.trace
        /\ t.ledger = u.ledger /\ t.timer = "none" /\ t.execution = "none" /\ t.resume = 0
        /\ t.activeCheckpoint = 0 /\ t.watches = <<>> /\ t.fields = "none" /\ t.diagnostics = "none"
    BY <2>7 DEF Runners
  <2>10. TraceIsExact(t) /\ ~Loading(t) /\ t.resume <= Len(t.watches)
    BY <2>7, <2>9 DEF TraceIsExact, Loading
  <2> HIDE DEF t
  <2>11. Sound(t) BY <2>2, <2>7, <2>8, <2>9, <2>10, StoppedSound
  <2>12. QED BY <2>1, <2>2, <2>9, <2>11
<1>3. CASE r.phase \in {"in-flight", "pause-pending"}
  <2> DEFINE q == [r EXCEPT !.phase = "stop-pending"]
             t == appendControl(q)
  <2>1. stop(r) = t BY <1>3 DEF stop
  <2>2. q \in Runners BY <1>1 DEF Runners, Phases
  <2>3. /\ q.phase = "stop-pending" /\ q.pauseReason = r.pauseReason /\ q.visible = r.visible
        /\ q.status = r.status /\ q.next = r.next /\ q.trace = r.trace /\ q.ledger = r.ledger
        /\ q.timer = r.timer /\ q.execution = r.execution /\ q.resume = r.resume
        /\ q.activeCheckpoint = r.activeCheckpoint /\ q.watches = r.watches
        /\ q.fields = r.fields /\ q.diagnostics = r.diagnostics
    BY <1>1 DEF Runners
  <2>4. TraceIsExact(q) BY <1>1, <2>3 DEF TraceIsExact
  <2> HIDE DEF q
  <2>5. /\ t \in Runners /\ TraceIsExact(t)
        /\ t.phase = "stop-pending" /\ t.pauseReason = r.pauseReason /\ t.visible = r.visible
        /\ t.status = r.status /\ t.next = r.next /\ t.ledger = r.ledger
        /\ t.timer = r.timer /\ t.execution = r.execution /\ t.resume = r.resume
        /\ t.activeCheckpoint = r.activeCheckpoint /\ t.watches = r.watches
        /\ t.fields = r.fields /\ t.diagnostics = r.diagnostics
    BY <2>2, <2>3, <2>4, ControlFacts
  <2> HIDE DEF t
  <2>6. ~Idle(r) /\ ~Ended(r) /\ r.phase # "paused" BY <1>3 DEF Idle, Ended
  <2>7. PhaseIsTrue(t) BY <1>3, <2>5 DEF Sound, PhaseIsTrue, Executing, Idle
  <2>8. ~Observing(r) /\ ~Loading(r) /\ r.timer = "none"
    BY <1>3, <2>6 DEF Sound, ObservesTheNext
  <2>9. ObservesTheNext(t) BY <2>5, <2>8 DEF Sound, ObservesTheNext, Observing, Loading
  <2>10. DriftHolds(t) /\ ControlsFit(t) BY <2>5, <2>6 DEF Sound, DriftHolds, ControlsFit
  <2>11. QED BY <2>1, <2>5, <2>7, <2>9, <2>10 DEF Sound
<1>4. QED BY <1>2, <1>3

\* A pause, by hand or because the panel is hidden: q is r before its visibility changed.
LEMMA PausingSound ==
  ASSUME NEW q, Sound(q), q.phase \in {"waiting", "checkpoint-waiting", "in-flight"},
         NEW r \in Runners, r.phase = q.phase, r.status = q.status, r.next = q.next,
         r.trace = q.trace, r.ledger = q.ledger, r.controls = q.controls, r.timer = q.timer,
         r.execution = q.execution, r.resume = q.resume, r.activeCheckpoint = q.activeCheckpoint,
         r.watches = q.watches, r.fields = q.fields, r.diagnostics = q.diagnostics,
         NEW reason \in {"USER", "HIDDEN"}
  PROVE  Sound(Pausing(r, reason)) /\ Pausing(r, reason).execution = q.execution
<1> DEFINE p == IF r.phase = "in-flight" THEN [r EXCEPT !.phase = "pause-pending", !.pauseReason = reason]
                ELSE Paused(clearScheduledTimer(r), reason)
           t == appendControl(p)
<1>1. Pausing(r, reason) = t BY DEF Pausing
<1>2. /\ r.controls \in Nat /\ AdmittedControls \in Nat /\ r.controls <= AdmittedControls - 2
      /\ TraceIsExact(r) /\ Len(r.ledger) \in 1 .. MaxLedger
      /\ r.ledger[Len(r.ledger)] = "authorization"
  <2>1. r.controls \in Nat /\ AdmittedControls \in Nat BY MembersFacts DEF Runners
  <2>2. r.controls <= AdmittedControls - 2 BY DEF Sound, ControlsFit
  <2>3. TraceIsExact(r) BY DEF Sound, TraceIsExact
  <2>4. Len(r.ledger) \in 1 .. MaxLedger /\ r.ledger[Len(r.ledger)] = "authorization"
    BY DEF Sound, DriftHolds, Ended
  <2>5. QED BY <2>1, <2>2, <2>3, <2>4
<1>3. CASE r.phase = "in-flight"
  <2>1. p = [r EXCEPT !.phase = "pause-pending", !.pauseReason = reason] BY <1>3
  <2> HIDE DEF p
  <2>2. p \in Runners BY <2>1, ZenonT(60) DEF Runners, Phases
  <2>3. /\ p.phase = "pause-pending" /\ p.pauseReason = reason /\ p.status = r.status
        /\ p.next = r.next /\ p.trace = r.trace /\ p.ledger = r.ledger /\ p.controls = r.controls
        /\ p.timer = r.timer /\ p.execution = r.execution /\ p.resume = r.resume
        /\ p.activeCheckpoint = r.activeCheckpoint /\ p.watches = r.watches
        /\ p.fields = r.fields /\ p.diagnostics = r.diagnostics
    BY <2>1 DEF Runners
  <2>4. TraceIsExact(p) BY <1>2, <2>3 DEF TraceIsExact
  <2>5. /\ t \in Runners /\ TraceIsExact(t) /\ t.controls = r.controls + 1
        /\ t.phase = "pause-pending" /\ t.pauseReason = reason /\ t.status = r.status
        /\ t.next = r.next /\ t.ledger = r.ledger
        /\ t.timer = r.timer /\ t.execution = r.execution /\ t.resume = r.resume
        /\ t.activeCheckpoint = r.activeCheckpoint /\ t.watches = r.watches
        /\ t.fields = r.fields /\ t.diagnostics = r.diagnostics
    BY <1>2, <2>2, <2>3, <2>4, ControlFacts
  <2> HIDE DEF t
  <2>6. PhaseIsTrue(t) BY <1>3, <2>5 DEF Sound, PhaseIsTrue, Executing, Idle
  <2>7. ~Observing(q) /\ ~Loading(q) /\ q.timer = "none"
    BY <1>3 DEF Sound, ObservesTheNext, Idle, Ended
  <2>8. ObservesTheNext(t) BY <2>5, <2>7 DEF Sound, ObservesTheNext, Observing, Loading
  <2>9. DriftHolds(t) /\ ControlsFit(t) BY <1>2, <2>5 DEF DriftHolds, ControlsFit
  <2>10. QED BY <1>1, <2>5, <2>6, <2>8, <2>9 DEF Sound
<1>4. CASE r.phase # "in-flight"
  <2>1. p = [r EXCEPT !.timer = "none", !.phase = "paused", !.pauseReason = reason]
    BY <1>4 DEF Paused, clearScheduledTimer, Runners
  <2> HIDE DEF p
  <2>2. p \in Runners BY <2>1, ZenonT(60) DEF Runners, Phases
  <2>3. /\ p.phase = "paused" /\ p.pauseReason = reason /\ p.status = r.status
        /\ p.next = r.next /\ p.trace = r.trace /\ p.ledger = r.ledger /\ p.controls = r.controls
        /\ p.timer = "none" /\ p.execution = r.execution /\ p.resume = r.resume
        /\ p.activeCheckpoint = r.activeCheckpoint /\ p.watches = r.watches
        /\ p.fields = r.fields /\ p.diagnostics = r.diagnostics
    BY <2>1 DEF Runners
  <2>4. TraceIsExact(p) BY <1>2, <2>3 DEF TraceIsExact
  <2>5. /\ t \in Runners /\ TraceIsExact(t) /\ t.controls = r.controls + 1
        /\ t.phase = "paused" /\ t.pauseReason = reason /\ t.status = r.status
        /\ t.next = r.next /\ t.ledger = r.ledger
        /\ t.timer = "none" /\ t.execution = r.execution /\ t.resume = r.resume
        /\ t.activeCheckpoint = r.activeCheckpoint /\ t.watches = r.watches
        /\ t.fields = r.fields /\ t.diagnostics = r.diagnostics
    BY <1>2, <2>2, <2>3, <2>4, ControlFacts
  <2> HIDE DEF t
  <2>6. Idle(q) /\ ~Ended(q) BY <1>4 DEF Idle, Ended
  <2>7. PhaseIsTrue(t) BY <2>5, <2>6 DEF Sound, PhaseIsTrue, Executing, Idle
  <2>8. Observing(t) => Observing(q) BY <2>5 DEF Observing, Loading
  <2>9. ObservesTheNext(t) BY <2>5, <2>6, <2>8 DEF Sound, ObservesTheNext, Loading, Idle, Ended
  <2>10. DriftHolds(t) /\ ControlsFit(t) BY <1>2, <2>5 DEF DriftHolds, ControlsFit
  <2>11. QED BY <1>1, <2>5, <2>7, <2>9, <2>10 DEF Sound
<1>5. QED BY <1>3, <1>4
-----------------------------------------------------------------------------
(* The actions                                                             *)

\* What the step from r to t may not do: begin an execution that is not serial and
\* authorized, or bring back a Run that is over.
Allowed(r, t) ==
  /\ t.execution = "running" /\ r.execution # "running" =>
       /\ r.execution = "none" /\ r.visible /\ r.status = "paused"
       /\ r.ledger[Len(r.ledger)] = "authorization"
  /\ r.phase \in {"stopped", "complete"} =>
       /\ t.phase \in {r.phase, "disposed"} /\ t.trace = r.trace /\ t.status = r.status

Fits(r, t) == Sound(t) /\ Allowed(r, t)

\* What the actions' proofs need of a sound Run.
LEMMA SoundFacts ==
  ASSUME NEW r, Sound(r)
  PROVE  /\ r \in Runners /\ (Idle(r) => r.execution = "none" /\ r.status = "paused")
         /\ (r.execution # "none" => Executing(r)) /\ (Ended(r) => r.execution = "none")
         /\ (Idle(r) \/ Executing(r) => ~Ended(r) /\ r.phase # "complete")
         /\ (Ended(r) \/ r.phase = "complete" => r.timer = "none" /\ ~Loading(r))
         /\ (r.phase = "complete" => r.watches = <<>>)
         /\ (r.phase = "waiting" \/ (r.phase = "paused" /\ r.pauseReason # "DRIFT_REVIEW_REQUIRED")
               => r.ledger[Len(r.ledger)] = "authorization")
         /\ AdmittedControls \in Nat /\ r.controls \in Nat /\ r.resume \in Nat
<1>1. r \in Runners /\ AdmittedControls \in Nat /\ r.controls \in Nat /\ r.resume \in Nat
  BY MembersFacts DEF Sound, Runners
<1>2. /\ (Idle(r) => r.execution = "none" /\ r.status = "paused")
      /\ (r.execution # "none" => Executing(r)) /\ (Ended(r) => r.execution = "none")
      /\ (Idle(r) \/ Executing(r) => ~Ended(r) /\ r.phase # "complete")
  BY DEF Sound, PhaseIsTrue, Executing, Idle, Ended
<1>3. Ended(r) \/ r.phase = "complete" => r.timer = "none" /\ ~Loading(r)
  BY DEF Sound, ObservesTheNext, Idle, Ended
<1>4. r.phase = "complete" => r.watches = <<>>
  BY DEF Sound, ObservesTheNext, Observing, Idle, Ended
<1>5. r.phase = "waiting" \/ (r.phase = "paused" /\ r.pauseReason # "DRIFT_REVIEW_REQUIRED")
        => r.ledger[Len(r.ledger)] = "authorization"
  BY DEF Sound, DriftHolds, Ended
<1>6. QED BY <1>1, <1>2, <1>3, <1>4, <1>5

\* A step of a Run that goes on, to one without a new execution.
LEMMA FitsOngoing ==
  ASSUME NEW r, NEW t, Sound(t), t.execution # "running" \/ r.execution = "running",
         r.phase \notin {"stopped", "complete"}
  PROVE  Fits(r, t)
BY DEF Fits, Allowed

\* The Run begins sound.
LEMMA InitSound == RunInit => Sound(runner)
<1>1. SUFFICES ASSUME RunInit PROVE Sound(runner) OBVIOUS
<1>2. /\ L \in Nat \ {0} /\ AdmittedControls \in Nat /\ AdmittedControls >= 3 /\ MaxLedger \in Nat \ {0}
  BY MembersFacts DEF L
<1>3. /\ <<>> \in Seq(TraceEntries) /\ <<>> \in Seq({"open", "reading"})
      /\ <<"authorization">> \in Seq({"authorization", "drift"}) /\ Len(<<"authorization">>) = 1
      /\ <<"authorization">>[1] = "authorization"
  OBVIOUS
<1>4. runner \in Runners
  <2>1. 1 \in 1 .. L + 1 /\ 0 \in 0 .. L + 1 /\ 0 \in 0 .. AdmittedControls BY <1>2
  <2>2. QED BY <1>1, <1>3, <2>1 DEF RunInit, Runners, Phases
<1>5. TraceIsExact(runner) BY <1>1, <1>2, SettledFacts DEF RunInit, TraceIsExact, Exact
<1>6. PhaseIsTrue(runner) /\ ObservesTheNext(runner)
  BY <1>1 DEF RunInit, PhaseIsTrue, ObservesTheNext, Executing, Idle, Ended, Observing, Loading
<1>7. DriftHolds(runner) /\ ControlsFit(runner)
  BY <1>1, <1>2, <1>3 DEF RunInit, DriftHolds, ControlsFit
<1>8. QED BY <1>4, <1>5, <1>6, <1>7 DEF Sound

\* The timer is taken from a Checkpoint, or from a Run that waits.
LEMMA TimerTaken ==
  ASSUME NEW r, Sound(r), Idle(r) PROVE LET t == [r EXCEPT !.timer = "none"]
         IN  /\ Sound(t) /\ t.phase = r.phase /\ t.next = r.next /\ t.execution = r.execution
             /\ t.visible = r.visible /\ t.controls = r.controls /\ t.ledger = r.ledger
             /\ t.resume = r.resume /\ t.timer = "none"
<1> DEFINE t == [r EXCEPT !.timer = "none"]
<1>1. r \in Runners BY DEF Sound
<1>2. t \in Runners BY <1>1 DEF Runners
<1>3. /\ t.phase = r.phase /\ t.pauseReason = r.pauseReason /\ t.visible = r.visible
      /\ t.status = r.status /\ t.next = r.next /\ t.trace = r.trace /\ t.ledger = r.ledger
      /\ t.controls = r.controls /\ t.timer = "none" /\ t.execution = r.execution
      /\ t.resume = r.resume /\ t.activeCheckpoint = r.activeCheckpoint /\ t.watches = r.watches
      /\ t.fields = r.fields /\ t.diagnostics = r.diagnostics
  BY <1>1 DEF Runners
<1> HIDE DEF t
<1>4. TraceIsExact(t) BY <1>3 DEF Sound, TraceIsExact
<1>5. PhaseIsTrue(t) BY <1>3 DEF Sound, PhaseIsTrue, Executing, Idle
<1>6. ObservesTheNext(t) BY <1>3 DEF Sound, ObservesTheNext, Observing, Loading, Idle, Ended
<1>7. DriftHolds(t) /\ ControlsFit(t) BY <1>3 DEF Sound, DriftHolds, ControlsFit, Ended
<1>8. Sound(t) BY <1>2, <1>4, <1>5, <1>6, <1>7 DEF Sound
<1>9. QED BY <1>3, <1>8 DEF t

\* The dispatch timer fires: the Run waits, so that nothing executes.
LEMMA DispatchDueFits ==
  ASSUME Sound(runner), DispatchDue, ~RetiredDuringLoad PROVE Fits(runner, runner')
<1> DEFINE r == [runner EXCEPT !.timer = "none"]
<1>1. runner.phase = "waiting" /\ runner' \in dispatch(r) BY DEF DispatchDue
<1>2. Idle(runner) /\ runner.visible /\ runner.controls <= AdmittedControls - 2
  BY <1>1 DEF Idle, Sound, PhaseIsTrue, ControlsFit
<1>3. /\ Sound(r) /\ r.phase = "waiting" /\ r.timer = "none" /\ r.visible /\ r.ledger = runner.ledger
      /\ r.controls <= AdmittedControls - 2
  BY <1>1, <1>2, TimerTaken
<1> HIDE DEF r
<1>4. runner.ledger[Len(runner.ledger)] = "authorization" /\ runner.execution = "none" /\ runner.status = "paused"
  BY <1>1, <1>2, SoundFacts
<1>5. MayDispatch(r) BY <1>3, <1>4 DEF MayDispatch
<1>6. Sound(runner') BY <1>1, <1>5, DispatchSound
<1>7. QED BY <1>1, <1>2, <1>4, <1>6 DEF Fits, Allowed

\* The deadline timer fires.
LEMMA DeadlineDueFits ==
  ASSUME Sound(runner), DeadlineDue PROVE Fits(runner, runner')
<1> DEFINE r == [runner EXCEPT !.timer = "none"]
<1>1. runner.timer = "deadline" /\ runner' \in evaluate(r, runner.resume, "due")
  BY DEF DeadlineDue
<1>2. ~Ended(runner) /\ runner.phase # "complete" BY <1>1, SoundFacts
<1>3. Idle(runner) /\ runner.next \in Checkpoints
  BY <1>1, <1>2 DEF Sound, ObservesTheNext, Observing
<1>4. Sound(r) /\ Idle(r) /\ r.next \in Checkpoints /\ r.execution = runner.execution
  BY <1>3, TimerTaken DEF Idle
<1> HIDE DEF r
<1>5. Sound(runner') /\ runner'.execution = runner.execution BY <1>1, <1>4, EvaluateSound
<1>6. QED BY <1>2, <1>5, FitsOngoing DEF Ended

\* A publication, or the answer to a query, is evaluated.
LEMMA WatchFits ==
  ASSUME Sound(runner), NEW w \in DOMAIN runner.watches, NEW moment \in {"open", "read"},
         runner' \in evaluate(runner, w, moment)
  PROVE  Fits(runner, runner')
<1>1. runner.watches \in Seq({"open", "reading"}) BY DEF Sound, Runners
<1>2. runner.watches # <<>> BY <1>1
<1>3. Observing(runner) /\ runner.phase # "complete" BY <1>2, SoundFacts DEF Observing
<1>4. Ended(runner) \/ (runner.next \in Checkpoints /\ Idle(runner))
  BY <1>3 DEF Sound, ObservesTheNext
<1>5. Sound(runner') /\ runner'.execution = runner.execution /\ (Ended(runner) => runner' = runner)
  BY <1>4, EvaluateSound
<1>6. QED BY <1>3, <1>5 DEF Fits, Allowed, Ended

\* A load is answered: it belonged to the active Checkpoint.
LEMMA LoadTaken ==
  ASSUME NEW r, Sound(r), Loading(r), NEW t \in Runners,
         t.phase = r.phase, t.pauseReason = r.pauseReason, t.visible = r.visible,
         t.status = r.status, t.next = r.next, t.trace = r.trace, t.ledger = r.ledger,
         t.controls = r.controls, t.timer = r.timer, t.execution = r.execution,
         t.resume = r.resume, t.activeCheckpoint = r.activeCheckpoint, t.watches = r.watches,
         Loading(t) => Loading(r)
  PROVE  MayBegin(t) /\ r.phase \notin {"stopped", "complete"}
<1>1. Idle(r) /\ r.next \in Checkpoints /\ r.activeCheckpoint = r.next /\ ~Ended(r) /\ r.phase # "complete"
  <2>1. Idle(r) /\ r.activeCheckpoint = r.next /\ Observing(r)
    BY DEF Sound, ObservesTheNext, Observing
  <2>2. ~Ended(r) /\ r.phase # "complete" BY <2>1 DEF Idle, Ended
  <2>3. QED BY <2>1, <2>2 DEF Sound, ObservesTheNext
<1>2. t.timer = "none" \/ t.phase \in {"waiting", "checkpoint-waiting"}
  BY DEF Sound, ObservesTheNext
<1>3. t.resume <= Len(t.watches) BY DEF Sound, ObservesTheNext
<1>4. Sound(t) BY <1>1, <1>2, <1>3, ObservationSound
<1>5. t.activeCheckpoint # 0 BY <1>1, MembersFacts
<1>6. QED BY <1>1, <1>4, <1>5 DEF MayBegin, Idle, Ended

\* Fields are loaded.
LEMMA FieldsLoadedFits ==
  ASSUME Sound(runner), FieldsLoaded PROVE Fits(runner, runner')
<1> DEFINE r == [runner EXCEPT !.fields = "none"]
           playing == runner.fields = "playing"
<1>1. runner.fields # "none" /\ runner' \in dispatchLoadedCheckpoint(r, playing)
  BY DEF FieldsLoaded
<1>2. runner \in Runners /\ Loading(runner) BY <1>1, SoundFacts DEF Loading
<1>3. r \in Runners BY <1>2 DEF Runners
<1>4. /\ r.phase = runner.phase /\ r.pauseReason = runner.pauseReason /\ r.visible = runner.visible
      /\ r.status = runner.status /\ r.next = runner.next /\ r.trace = runner.trace
      /\ r.ledger = runner.ledger /\ r.controls = runner.controls /\ r.timer = runner.timer
      /\ r.execution = runner.execution /\ r.resume = runner.resume
      /\ r.activeCheckpoint = runner.activeCheckpoint /\ r.watches = runner.watches
  BY <1>2 DEF Runners
<1> HIDE DEF r
<1>5. MayBegin(r) /\ runner.phase \notin {"stopped", "complete"} BY <1>2, <1>3, <1>4, LoadTaken
<1>6. playing \in BOOLEAN OBVIOUS
<1> HIDE DEF playing
<1>7. Sound(runner') /\ runner'.execution = "none" BY <1>1, <1>5, <1>6, DispatchLoadedSound
<1>8. QED BY <1>5, <1>7, FitsOngoing

\* Diagnostics are loaded.
LEMMA DiagnosticsLoadedFits ==
  ASSUME Sound(runner), DiagnosticsLoaded PROVE Fits(runner, runner')
<1> DEFINE r == [runner EXCEPT !.diagnostics = "none"]
           playing == runner.diagnostics = "playing"
<1>1. runner.diagnostics # "none" /\ runner' \in beginCheckpoint(r, playing)
  BY DEF DiagnosticsLoaded
<1>2. runner \in Runners /\ Loading(runner) BY <1>1, SoundFacts DEF Loading
<1>3. r \in Runners BY <1>2 DEF Runners
<1>4. /\ r.phase = runner.phase /\ r.pauseReason = runner.pauseReason /\ r.visible = runner.visible
      /\ r.status = runner.status /\ r.next = runner.next /\ r.trace = runner.trace
      /\ r.ledger = runner.ledger /\ r.controls = runner.controls /\ r.timer = runner.timer
      /\ r.execution = runner.execution /\ r.resume = runner.resume
      /\ r.activeCheckpoint = runner.activeCheckpoint /\ r.watches = runner.watches
  BY <1>2 DEF Runners
<1> HIDE DEF r
<1>5. MayBegin(r) /\ runner.phase \notin {"stopped", "complete"} BY <1>2, <1>3, <1>4, LoadTaken
<1>6. playing \in BOOLEAN OBVIOUS
<1> HIDE DEF playing
<1>7. Sound(runner') /\ runner'.execution = "none" BY <1>1, <1>5, <1>6, BeginCheckpointSound
<1>8. QED BY <1>5, <1>7, FitsOngoing

\* An execution ends with an outcome.
LEMMA ExecutedFits ==
  ASSUME Sound(runner), Executed PROVE Fits(runner, runner')
<1>1. PICK outcome \in {"delivered", "undelivered", "not-run"} :
        runner.execution = "running" /\ runner' = [stepScenarioRun(runner, outcome) EXCEPT !.execution = "settling"]
  BY DEF Executed
<1>2. /\ runner \in Runners /\ Executing(runner) /\ ~Ended(runner) /\ runner.phase # "complete" /\ ~Idle(runner)
      /\ runner.status = "paused" /\ runner.next \in Steps /\ runner.next \in 1 .. L + 1
      /\ Exact("paused", runner.next, runner.trace) /\ L \in Nat
  <2>1. runner \in Runners /\ Executing(runner) /\ ~Ended(runner) /\ runner.phase # "complete"
    BY <1>1, SoundFacts
  <2>2. runner.status = "paused" /\ runner.next \in Steps BY <1>1 DEF Sound, PhaseIsTrue
  <2>3. ~Idle(runner) BY <2>1 DEF Executing, Idle
  <2>4. runner.next \in 1 .. L + 1 /\ Exact("paused", runner.next, runner.trace) /\ L \in Nat
    BY <2>1, <2>2, MembersFacts DEF Sound, Runners, TraceIsExact, L
  <2>5. QED BY <2>1, <2>2, <2>3, <2>4
<1>3. Kind(runner.next) = "attempted" BY <1>2 DEF Kind
<1> DEFINE appended == Append(runner.trace, Entry(runner.next, "attempted"))
<1>4. \E status \in {"paused", "complete", "stopped"}, next \in 1 .. L + 1, trace \in Seq(TraceEntries) :
        /\ Exact(status, next, trace)
        /\ stepScenarioRun(runner, outcome) = [runner EXCEPT !.status = status, !.next = next, !.trace = trace]
  <2>1. runner.next \in 1 .. L BY <1>2, ExactSteps
  <2>2. CASE outcome = "delivered"
    <3> DEFINE status == IF runner.next = L THEN "complete" ELSE "paused"
    <3>1. appended \in Seq(TraceEntries) /\ Exact(status, runner.next + 1, appended)
      BY <1>2, <1>3, ExactSteps
    <3>2. stepScenarioRun(runner, outcome) =
            [runner EXCEPT !.status = status, !.next = runner.next + 1, !.trace = appended]
      BY <1>2, <2>2 DEF stepScenarioRun, Advanced, Runners, L
    <3>3. status \in {"paused", "complete", "stopped"} /\ runner.next + 1 \in 1 .. L + 1
      BY <1>2, <2>1
    <3> HIDE DEF status, appended
    <3>4. QED BY <3>1, <3>2, <3>3
  <2>3. CASE outcome = "undelivered"
    <3> DEFINE trace == appended \o NotRunFrom[runner.next + 1]
    <3>1. trace \in Seq(TraceEntries) /\ Exact("stopped", runner.next, trace)
      BY <1>2, <1>3, ExactSteps
    <3>2. stepScenarioRun(runner, outcome) = [runner EXCEPT !.status = "stopped", !.trace = trace]
      BY <2>3 DEF stepScenarioRun
    <3> HIDE DEF trace
    <3>3. [runner EXCEPT !.status = "stopped", !.trace = trace] =
            [runner EXCEPT !.status = "stopped", !.next = runner.next, !.trace = trace]
      BY <1>2 DEF Runners
    <3>4. QED BY <1>2, <3>1, <3>2, <3>3
  <2>4. CASE outcome = "not-run"
    <3> DEFINE trace == runner.trace \o NotRunFrom[runner.next]
    <3>1. trace \in Seq(TraceEntries) /\ Exact("stopped", runner.next, trace)
      BY <1>2, ExactSteps
    <3>2. stepScenarioRun(runner, outcome) = [runner EXCEPT !.status = "stopped", !.trace = trace]
      BY <2>4 DEF stepScenarioRun
    <3> HIDE DEF trace
    <3>3. [runner EXCEPT !.status = "stopped", !.trace = trace] =
            [runner EXCEPT !.status = "stopped", !.next = runner.next, !.trace = trace]
      BY <1>2 DEF Runners
    <3>4. QED BY <1>2, <3>1, <3>2, <3>3
  <2>5. QED BY <2>2, <2>3, <2>4
<1>5. PICK status \in {"paused", "complete", "stopped"}, next \in 1 .. L + 1, trace \in Seq(TraceEntries) :
        /\ Exact(status, next, trace)
        /\ stepScenarioRun(runner, outcome) = [runner EXCEPT !.status = status, !.next = next, !.trace = trace]
  BY <1>4
<1> DEFINE t == [runner EXCEPT !.status = status, !.next = next, !.trace = trace, !.execution = "settling"]
<1>6. runner' = t BY <1>1, <1>5
<1>7. t \in Runners BY <1>2, <1>5 DEF Runners
<1>8. /\ t.phase = runner.phase /\ t.pauseReason = runner.pauseReason /\ t.visible = runner.visible
      /\ t.status = status /\ t.next = next /\ t.trace = trace /\ t.ledger = runner.ledger
      /\ t.controls = runner.controls /\ t.timer = runner.timer /\ t.execution = "settling"
      /\ t.resume = runner.resume /\ t.activeCheckpoint = runner.activeCheckpoint
      /\ t.watches = runner.watches /\ t.fields = runner.fields /\ t.diagnostics = runner.diagnostics
  BY <1>2 DEF Runners
<1> HIDE DEF t
<1>9. TraceIsExact(t) BY <1>5, <1>8 DEF TraceIsExact
<1>10. PhaseIsTrue(t)
  <2>1. Executing(t) /\ ~Idle(t) /\ t.phase \notin {"complete", "stopped"}
    BY <1>2, <1>8 DEF Executing, Idle
  <2>2. t.phase \in {"waiting", "in-flight"} => t.visible BY <1>8 DEF Sound, PhaseIsTrue
  <2>3. QED BY <1>8, <2>1, <2>2 DEF PhaseIsTrue
<1>11. ~Observing(runner) /\ ~Loading(runner) /\ runner.timer = "none" /\ runner.resume <= Len(runner.watches)
  BY <1>2 DEF Sound, ObservesTheNext, Idle
<1>12. ObservesTheNext(t) BY <1>8, <1>11 DEF ObservesTheNext, Observing, Loading
<1>13. DriftHolds(t) /\ ControlsFit(t)
  <2>1. t.phase # "paused" /\ ~Ended(runner) BY <1>2, <1>8 DEF Executing
  <2>2. QED BY <1>8, <2>1 DEF Sound, DriftHolds, ControlsFit
<1>14. Sound(t) BY <1>7, <1>9, <1>10, <1>12, <1>13 DEF Sound
<1>15. QED BY <1>2, <1>6, <1>8, <1>14, FitsOngoing DEF Ended

\* What follows an execution is decided.
LEMMA SettledFits ==
  ASSUME Sound(runner), Settled PROVE Fits(runner, runner')
<1>1. PICK continue \in BOOLEAN :
        /\ runner.execution = "settling"
        /\ (HasNext(runner) /\ runner.next \in Checkpoints) => continue
        /\ runner' \in settle(runner, continue)
  BY DEF Settled
<1>2. Sound(runner') /\ runner'.execution = "none" BY <1>1, SettleSound
<1>3. runner.phase \notin {"stopped", "complete"} BY <1>1, SoundFacts DEF Ended
<1>4. QED BY <1>2, <1>3, FitsOngoing

\* A control that there is room for.
LEMMA ControlTaken ==
  ASSUME NEW r, Sound(r), MayStart(r), HasControlRoom(r) PROVE LET t == appendControl(r)
         IN  /\ Sound(t) /\ t.phase = "paused" /\ t.visible /\ t.controls <= AdmittedControls - 2
             /\ t.ledger = r.ledger /\ t.ledger[Len(t.ledger)] = "authorization"
             /\ t.activeCheckpoint = r.activeCheckpoint /\ t.resume = r.resume /\ t.next = r.next
             /\ t.timer = "none" /\ t.pauseReason = r.pauseReason
<1> DEFINE t == appendControl(r)
<1>1. /\ r \in Runners /\ r.phase = "paused" /\ r.visible /\ r.status = "paused"
      /\ r.pauseReason # "DRIFT_REVIEW_REQUIRED" /\ r.controls < AdmittedControls - 2
      /\ r.controls \in Nat /\ AdmittedControls \in Nat
  BY SoundFacts DEF MayStart, HasControlRoom
<1>2. TraceIsExact(r) /\ r.controls < AdmittedControls BY <1>1 DEF Sound
<1>3. r.ledger[Len(r.ledger)] = "authorization" /\ r.timer = "none"
  BY <1>1, SoundFacts DEF Sound, ObservesTheNext
<1>4. /\ t \in Runners /\ TraceIsExact(t) /\ t.controls = r.controls + 1
      /\ t.phase = r.phase /\ t.pauseReason = r.pauseReason /\ t.visible = r.visible
      /\ t.status = r.status /\ t.next = r.next /\ t.trace = r.trace /\ t.ledger = r.ledger
      /\ t.timer = r.timer /\ t.execution = r.execution /\ t.resume = r.resume
      /\ t.activeCheckpoint = r.activeCheckpoint /\ t.watches = r.watches
      /\ t.fields = r.fields /\ t.diagnostics = r.diagnostics
  BY <1>1, <1>2, ControlFacts
<1> HIDE DEF t
<1>5. PhaseIsTrue(t) BY <1>4 DEF Sound, PhaseIsTrue, Executing, Idle
<1>6. ObservesTheNext(t) BY <1>4 DEF Sound, ObservesTheNext, Observing, Loading, Idle, Ended
<1>7. DriftHolds(t) /\ ControlsFit(t) BY <1>1, <1>4 DEF Sound, DriftHolds, ControlsFit, Ended
<1>8. Sound(t) BY <1>4, <1>5, <1>6, <1>7 DEF Sound
<1>9. QED BY <1>1, <1>3, <1>4, <1>8 DEF t

\* The developer plays.
LEMMA PlayFits ==
  ASSUME Sound(runner), Play PROVE Fits(runner, runner')
<1> DEFINE r == appendControl(runner)
<1>1. /\ MayStart(runner) /\ HasControlRoom(runner)
      /\ IF r.activeCheckpoint # 0 /\ r.resume # 0 THEN runner' \in resumeCheckpoint(r)
         ELSE runner' = schedule(r)
  BY DEF Play
<1>2. /\ Sound(r) /\ r.phase = "paused" /\ r.visible /\ r.controls <= AdmittedControls - 2
      /\ r.ledger[Len(r.ledger)] = "authorization" /\ r.timer = "none"
  BY <1>1, ControlTaken
<1>3. runner.phase = "paused" BY <1>1 DEF MayStart
<1> HIDE DEF r
<1>4. CASE r.activeCheckpoint # 0 /\ r.resume # 0
  <2>1. Observing(r) /\ ~Ended(r) BY <1>2, <1>4 DEF Observing, Ended
  <2>2. r.next \in Checkpoints BY <1>2, <2>1 DEF Sound, ObservesTheNext
  <2>3. Sound(runner') /\ runner'.execution = "none" BY <1>1, <1>2, <1>4, <2>2, ResumeSound
  <2>4. QED BY <1>3, <2>3, FitsOngoing
<1>5. CASE ~(r.activeCheckpoint # 0 /\ r.resume # 0)
  <2>1. r \in Runners /\ r.status = "paused" /\ r.execution = "none" /\ TraceIsExact(r)
    BY <1>2, SoundFacts DEF Idle, Sound
  <2>2. Observing(r) => r.next \in Checkpoints BY <1>2 DEF Sound, ObservesTheNext, Ended
  <2>3. /\ Len(r.ledger) \in 1 .. MaxLedger /\ (Loading(r) => r.activeCheckpoint = r.next)
        /\ r.activeCheckpoint \in {0, r.next} /\ r.resume <= Len(r.watches)
    BY <1>2 DEF Sound, ObservesTheNext, DriftHolds
  <2>4. Ready(r) BY <1>2, <2>1, <2>2, <2>3 DEF Ready
  <2>5. Sound(runner') /\ runner'.execution = "none" BY <1>1, <1>5, <2>4, ScheduleSound
  <2>6. QED BY <1>3, <2>5, FitsOngoing
<1>6. QED BY <1>4, <1>5

\* The developer steps: as a dispatch by the timer, from a pause.
LEMMA StepNextFits ==
  ASSUME Sound(runner), StepNext, ~RetiredDuringLoad PROVE Fits(runner, runner')
<1> DEFINE c == appendControl(runner)
           r == [c EXCEPT !.manualOverride = TRUE]
<1>1. MayStart(runner) /\ HasControlRoom(runner) /\ runner.activeCheckpoint = 0 /\ runner' \in dispatch(r)
  BY DEF StepNext
<1>2. /\ Sound(c) /\ c.phase = "paused" /\ c.visible /\ c.controls <= AdmittedControls - 2
      /\ c.ledger[Len(c.ledger)] = "authorization" /\ c.timer = "none" /\ c.activeCheckpoint = 0
      /\ c.ledger = runner.ledger
  BY <1>1, ControlTaken
<1> HIDE DEF c
<1>3. c \in Runners BY <1>2 DEF Sound
<1>4. r \in Runners BY <1>3 DEF Runners
<1>5. /\ r.phase = c.phase /\ r.pauseReason = c.pauseReason /\ r.visible = c.visible
      /\ r.status = c.status /\ r.next = c.next /\ r.trace = c.trace /\ r.ledger = c.ledger
      /\ r.controls = c.controls /\ r.timer = c.timer /\ r.execution = c.execution
      /\ r.resume = c.resume /\ r.activeCheckpoint = c.activeCheckpoint /\ r.watches = c.watches
      /\ r.fields = c.fields /\ r.diagnostics = c.diagnostics
  BY <1>3 DEF Runners
<1> HIDE DEF r
<1>6. TraceIsExact(r) BY <1>2, <1>5 DEF Sound, TraceIsExact
<1>7. PhaseIsTrue(r) /\ ObservesTheNext(r)
  BY <1>2, <1>5 DEF Sound, PhaseIsTrue, ObservesTheNext, Executing, Idle, Ended, Observing, Loading
<1>8. DriftHolds(r) /\ ControlsFit(r) BY <1>2, <1>5 DEF Sound, DriftHolds, ControlsFit, Ended
<1>9. MayDispatch(r) BY <1>2, <1>4, <1>5, <1>6, <1>7, <1>8 DEF Sound, MayDispatch
<1>10. Sound(runner') BY <1>1, <1>9, DispatchSound
<1>11. runner.phase = "paused" /\ runner.visible /\ runner.status = "paused" /\ runner.execution = "none"
  BY <1>1, SoundFacts DEF MayStart, Idle
<1>12. QED BY <1>2, <1>10, <1>11 DEF Fits, Allowed

\* The developer pauses.
LEMMA PauseFits ==
  ASSUME Sound(runner), Pause PROVE Fits(runner, runner')
<1>1. runner.phase \in {"waiting", "checkpoint-waiting", "in-flight"} /\ runner' = Pausing(runner, "USER")
  BY DEF Pause
<1>2. runner \in Runners BY DEF Sound
<1>3. Sound(runner') /\ runner'.execution = runner.execution BY <1>1, <1>2, PausingSound
<1>4. QED BY <1>1, <1>3, FitsOngoing

\* The developer stops the Run.
LEMMA StopFits ==
  ASSUME Sound(runner), Stop PROVE Fits(runner, runner')
<1>1. /\ runner.phase \in {"waiting", "checkpoint-waiting", "paused", "in-flight", "pause-pending"}
      /\ runner' = stop(runner)
  BY DEF Stop
<1>2. Idle(runner) \/ runner.phase \in {"in-flight", "pause-pending"} BY <1>1 DEF Idle
<1>3. Sound(runner') /\ runner'.execution = runner.execution BY <1>1, <1>2, StopSound
<1>4. QED BY <1>1, <1>3, FitsOngoing

\* The panel is hidden or shown.
LEMMA SetVisibleFits ==
  ASSUME Sound(runner), SetVisible PROVE Fits(runner, runner')
<1> DEFINE r == [runner EXCEPT !.visible = ~@]
<1>1. runner' = IF runner.visible /\ r.phase \in {"waiting", "checkpoint-waiting", "in-flight"}
                  THEN Pausing(r, "HIDDEN") ELSE r
  BY DEF SetVisible
<1>2. runner \in Runners BY DEF Sound
<1>3. r \in Runners /\ r.visible = ~runner.visible BY <1>2 DEF Runners
<1>4. /\ r.phase = runner.phase /\ r.pauseReason = runner.pauseReason
      /\ r.status = runner.status /\ r.next = runner.next /\ r.trace = runner.trace
      /\ r.ledger = runner.ledger /\ r.controls = runner.controls /\ r.timer = runner.timer
      /\ r.execution = runner.execution /\ r.resume = runner.resume
      /\ r.activeCheckpoint = runner.activeCheckpoint /\ r.watches = runner.watches
      /\ r.fields = runner.fields /\ r.diagnostics = runner.diagnostics
  BY <1>2 DEF Runners
<1> HIDE DEF r
<1>5. CASE runner.visible /\ r.phase \in {"waiting", "checkpoint-waiting", "in-flight"}
  <2>1. Sound(runner') /\ runner'.execution = runner.execution
    BY <1>1, <1>3, <1>4, <1>5, PausingSound
  <2>2. QED BY <1>4, <1>5, <2>1, FitsOngoing
<1>6. CASE ~(runner.visible /\ r.phase \in {"waiting", "checkpoint-waiting", "in-flight"})
  <2>1. runner' = r BY <1>1, <1>6
  <2>2. TraceIsExact(r) BY <1>4 DEF Sound, TraceIsExact
  <2>3. r.phase \in {"waiting", "in-flight"} => r.visible BY <1>3, <1>6
  <2>4. PhaseIsTrue(r) BY <1>4, <2>3 DEF Sound, PhaseIsTrue, Executing, Idle
  <2>5. ObservesTheNext(r) BY <1>4 DEF Sound, ObservesTheNext, Observing, Loading, Idle, Ended
  <2>6. DriftHolds(r) /\ ControlsFit(r) BY <1>4 DEF Sound, DriftHolds, ControlsFit, Ended
  <2>7. QED BY <1>3, <1>4, <2>1, <2>2, <2>4, <2>5, <2>6 DEF Fits, Allowed, Sound
<1>7. QED BY <1>5, <1>6

\* A drift is reviewed again.
LEMMA ReReviewFits ==
  ASSUME Sound(runner), ReReview PROVE Fits(runner, runner')
<1> DEFINE ledger == Append(runner.ledger, "authorization")
           t == [runner EXCEPT !.ledger = ledger, !.pauseReason = "USER"]
<1>1. /\ runner.phase = "paused" /\ runner.pauseReason = "DRIFT_REVIEW_REQUIRED"
      /\ runner.status = "paused"
      /\ \/ runner' = stop(runner)
         \/ LedgerHasRoom(runner) /\ runner' = t
  BY DEF ReReview
<1>2. runner \in Runners /\ Idle(runner) /\ runner.execution = "none" /\ MaxLedger \in Nat
  BY <1>1, SoundFacts, MembersFacts DEF Idle
<1>3. CASE runner' = stop(runner)
  <2>1. Sound(runner') /\ runner'.execution = runner.execution BY <1>2, <1>3, StopSound
  <2>2. QED BY <1>1, <2>1, FitsOngoing
<1>4. CASE LedgerHasRoom(runner) /\ runner' = t
  <2>1. runner.ledger \in Seq({"authorization", "drift"}) BY <1>2 DEF Runners
  <2>2. /\ ledger \in Seq({"authorization", "drift"}) /\ Len(ledger) \in 1 .. MaxLedger
        /\ ledger[Len(ledger)] = "authorization"
    BY <1>2, <1>4, <2>1 DEF LedgerHasRoom
  <2> HIDE DEF ledger
  <2>3. t \in Runners BY <1>2, <2>2 DEF Runners
  <2>4. /\ t.phase = "paused" /\ t.pauseReason = "USER" /\ t.visible = runner.visible
        /\ t.status = "paused" /\ t.next = runner.next /\ t.trace = runner.trace
        /\ t.ledger = ledger /\ t.controls = runner.controls /\ t.timer = runner.timer
        /\ t.execution = "none" /\ t.resume = runner.resume
        /\ t.activeCheckpoint = runner.activeCheckpoint /\ t.watches = runner.watches
        /\ t.fields = runner.fields /\ t.diagnostics = runner.diagnostics
    BY <1>1, <1>2 DEF Runners
  <2> HIDE DEF t
  <2>5. TraceIsExact(t) BY <1>1, <2>4 DEF Sound, TraceIsExact
  <2>6. PhaseIsTrue(t) BY <2>4 DEF PhaseIsTrue, Executing, Idle
  <2>7. ObservesTheNext(t)
    BY <1>1, <2>4 DEF Sound, ObservesTheNext, Observing, Loading, Idle, Ended
  <2>8. DriftHolds(t) /\ ControlsFit(t) BY <1>1, <2>2, <2>4 DEF Sound, DriftHolds, ControlsFit
  <2>9. Sound(t) BY <2>3, <2>5, <2>6, <2>7, <2>8 DEF Sound
  <2>10. QED BY <1>1, <1>4, <2>4, <2>9, FitsOngoing
<1>5. QED BY <1>1, <1>3, <1>4

\* The runner is disposed.
LEMMA DisposeFits ==
  ASSUME Sound(runner), Dispose PROVE Fits(runner, runner')
<1> DEFINE u == Unobserved(runner)
           t == [u EXCEPT !.phase = "disposed", !.execution = "none"]
<1>1. runner \in Runners BY DEF Sound
<1>2. /\ u \in Runners /\ ~Observing(u) /\ ~Loading(u) /\ u.timer = "none" /\ u.resume = 0
      /\ u.activeCheckpoint = 0 /\ u.watches = <<>> /\ u.visible = runner.visible
      /\ u.status = runner.status /\ u.next = runner.next /\ u.trace = runner.trace
      /\ u.controls = runner.controls /\ u.ledger = runner.ledger
  BY <1>1, UnobservedFacts
<1>3. runner' = t BY <1>1 DEF Dispose, Unobserved, stopCheckpointObservation, Runners
<1> HIDE DEF u
<1>4. t \in Runners BY <1>2 DEF Runners, Phases
<1>5. /\ t.phase = "disposed" /\ t.execution = "none" /\ t.timer = "none" /\ t.resume = 0
      /\ t.activeCheckpoint = 0 /\ t.watches = <<>> /\ t.fields = "none" /\ t.diagnostics = "none"
      /\ t.status = runner.status /\ t.next = runner.next /\ t.trace = runner.trace
      /\ t.ledger = runner.ledger
  BY <1>2 DEF Runners, Loading
<1> HIDE DEF t
<1>6. TraceIsExact(t) BY <1>5 DEF Sound, TraceIsExact
<1>7. PhaseIsTrue(t) /\ ObservesTheNext(t)
  BY <1>5 DEF PhaseIsTrue, ObservesTheNext, Executing, Idle, Ended, Observing, Loading
<1>8. DriftHolds(t) /\ ControlsFit(t) BY <1>5 DEF Sound, DriftHolds, ControlsFit, Ended
<1>9. QED BY <1>3, <1>4, <1>5, <1>6, <1>7, <1>8 DEF Fits, Allowed, Sound
-----------------------------------------------------------------------------
(* The theorems                                                            *)

\* Every step keeps a Run sound and is allowed.
LEMMA NextFits ==
  ASSUME Sound(runner), RunNext, ~RetiredDuringLoad PROVE Fits(runner, runner')
<1>1. CASE DispatchDue BY <1>1, DispatchDueFits
<1>2. CASE DeadlineDue BY <1>2, DeadlineDueFits
<1>3. CASE FieldsLoaded BY <1>3, FieldsLoadedFits
<1>4. CASE DiagnosticsLoaded BY <1>4, DiagnosticsLoadedFits
<1>5. CASE TemporalRead BY <1>5, WatchFits DEF TemporalRead
<1>6. CASE Publication BY <1>6, WatchFits DEF Publication
<1>7. CASE Executed BY <1>7, ExecutedFits
<1>8. CASE Settled BY <1>8, SettledFits
<1>9. CASE Play BY <1>9, PlayFits
<1>10. CASE Pause BY <1>10, PauseFits
<1>11. CASE StepNext BY <1>11, StepNextFits
<1>12. CASE Stop BY <1>12, StopFits
<1>13. CASE SetVisible BY <1>13, SetVisibleFits
<1>14. CASE ReReview BY <1>14, ReReviewFits
<1>15. CASE Dispose BY <1>15, DisposeFits
<1>16. QED
  BY <1>1, <1>2, <1>3, <1>4, <1>5, <1>6, <1>7, <1>8, <1>9, <1>10, <1>11, <1>12, <1>13, <1>14, <1>15
     DEF RunNext, Asynchronous

\* So does a stuttering step.
LEMMA StepFits ==
  ASSUME Sound(runner), [RunNext]_runner, ~RetiredDuringLoad
  PROVE  Sound(runner)' /\ (Allowed(runner, runner') \/ runner' = runner)
<1>1. CASE RunNext BY <1>1, NextFits DEF Fits
<1>2. CASE UNCHANGED runner BY <1>2
<1>3. QED BY <1>1, <1>2

\* Runs are always sound.
LEMMA SoundAlways == ~RetiredDuringLoad => (RunSpec => []Sound(runner))
<1>1. SUFFICES ASSUME ~RetiredDuringLoad PROVE RunSpec => []Sound(runner) OBVIOUS
<1>2. RunInit => Sound(runner) BY InitSound
<1>3. Sound(runner) /\ [RunNext]_runner => Sound(runner)' BY <1>1, StepFits
<1>4. QED BY <1>2, <1>3, PTL DEF RunSpec

\* What TruthfulTrace says of a Trace: the members in their order, the traced ones
\* and the settled ones.
MembersOf(trace) == [k \in DOMAIN trace |-> trace[k].member]
Traced(trace) == {MembersOf(trace)[k] : k \in DOMAIN MembersOf(trace)}
SettledIn(trace) ==
  {MembersOf(trace)[k] : k \in {j \in DOMAIN MembersOf(trace) : Settlement(trace[j])}}
InOrder(trace) ==
  \A j, k \in DOMAIN MembersOf(trace) : j < k => MembersOf(trace)[j] < MembersOf(trace)[k]

\* A Trace that settles m members and then lists the remaining Steps, or nothing,
\* is in order and accounts for them.
LEMMA TraceAccounts ==
  ASSUME NEW m \in 0 .. L, NEW s \in Seq(TraceEntries), s = <<>> \/ Lists(s, m + 1)
  PROVE  LET trace == SettledTo(m) \o s
         IN  /\ InOrder(trace) /\ SettledIn(trace) = 1 .. m
             /\ s = <<>> => Traced(trace) = 1 .. m
             /\ Lists(s, m + 1) => Steps \subseteq Traced(trace)
<1> DEFINE S == SettledTo(m)
           trace == S \o s
           members == MembersOf(trace)
<1>1. /\ L \in Nat /\ m \in Nat /\ S \in Seq(TraceEntries) /\ Len(S) = m /\ Len(s) \in Nat
      /\ \A k \in 1 .. m : S[k].member = k /\ Settlement(S[k])
  <2>1. L \in Nat /\ m \in Nat BY MembersFacts DEF L
  <2>2. S \in Seq(TraceEntries) /\ Len(S) = m /\ \A k \in 1 .. m : S[k] = Entry(k, Kind(k))
    BY SettledFacts
  <2>3. QED BY <2>1, <2>2, EntryFacts
<1> HIDE DEF S
<1>2. /\ trace \in Seq(TraceEntries) /\ Len(trace) = m + Len(s) /\ DOMAIN trace = 1 .. m + Len(s)
      /\ \A k \in 1 .. m : trace[k] = S[k]
      /\ \A k \in 1 .. m + Len(s) : k > m => trace[k] = s[k - m]
  BY <1>1
<1> HIDE DEF trace
<1>3. \A k \in 1 .. m : trace[k].member = k /\ Settlement(trace[k]) BY <1>1, <1>2
<1>4. \A k \in 1 .. Len(s) : /\ s[k].kind = "not-run" /\ s[k].member \in Int /\ s[k].member >= m + 1
  <2>1. CASE s = <<>> BY <2>1
  <2>2. CASE Lists(s, m + 1)
    <3>1. \A e \in TraceEntries : e.member \in Int BY <1>1, MembersFacts DEF TraceEntries
    <3>2. QED BY <2>2, <3>1 DEF Lists
  <2>3. QED BY <2>1, <2>2
<1>5. ASSUME NEW k \in 1 .. m + Len(s), k > m PROVE k - m \in 1 .. Len(s) /\ trace[k] = s[k - m]
  BY <1>1, <1>2, <1>5
<1>6. ASSUME NEW j \in 1 .. m + Len(s), NEW k \in 1 .. m + Len(s), j < k
      PROVE  trace[j].member < trace[k].member
  <2>1. CASE k <= m
    <3>1. j \in 1 .. m /\ k \in 1 .. m BY <1>1, <1>6, <2>1
    <3>2. QED BY <1>3, <1>6, <3>1
  <2>2. CASE k > m /\ j <= m
    <3>1. j \in 1 .. m /\ trace[j].member = j BY <1>1, <1>3, <2>2
    <3>2. k - m \in 1 .. Len(s) /\ trace[k] = s[k - m] BY <1>5, <2>2
    <3>3. trace[k].member \in Int /\ trace[k].member >= m + 1 BY <1>4, <3>2
    <3>4. QED BY <1>1, <3>1, <3>3
  <2>3. CASE k > m /\ j > m
    <3>1. /\ j - m \in 1 .. Len(s) /\ trace[j] = s[j - m]
          /\ k - m \in 1 .. Len(s) /\ trace[k] = s[k - m]
      BY <1>5, <2>3
    <3>2. j - m < k - m BY <1>1, <1>6
    <3>3. Lists(s, m + 1) BY <3>1
    <3>4. s[j - m].member < s[k - m].member BY <3>1, <3>2, <3>3 DEF Lists
    <3>5. QED BY <3>1, <3>4
  <2>4. QED BY <1>1, <2>1, <2>2, <2>3
<1>7. \A k \in 1 .. m + Len(s) : Settlement(trace[k]) <=> k \in 1 .. m
  <2>1. \A k \in 1 .. Len(s) : ~Settlement(s[k]) BY <1>4 DEF Settlement
  <2>2. ASSUME NEW k \in 1 .. m + Len(s), k > m PROVE ~Settlement(trace[k]) BY <1>5, <2>1, <2>2
  <2>3. \A k \in 1 .. m + Len(s) : k > m \/ k \in 1 .. m BY <1>1
  <2>4. \A k \in 1 .. m : ~(k > m) BY <1>1
  <2>5. QED BY <1>3, <2>2, <2>3, <2>4
<1>8. DOMAIN members = 1 .. m + Len(s) /\ \A k \in 1 .. m + Len(s) : members[k] = trace[k].member
  BY <1>2 DEF MembersOf
<1>9. 1 .. m \subseteq 1 .. m + Len(s) BY <1>1
<1> HIDE DEF members
<1>10. \A k \in 1 .. m : members[k] = k BY <1>3, <1>8, <1>9
<1>11. SettledIn(trace) = 1 .. m
  <2>1. {j \in DOMAIN members : Settlement(trace[j])} = 1 .. m BY <1>7, <1>8, <1>9
  <2>2. SettledIn(trace) = {members[k] : k \in {j \in DOMAIN members : Settlement(trace[j])}}
    BY DEF SettledIn, members
  <2>3. SettledIn(trace) = {members[k] : k \in 1 .. m} BY <2>1, <2>2
  <2>4. QED BY <1>10, <2>3
<1>12. Traced(trace) = {members[k] : k \in 1 .. m + Len(s)}
  <2>1. Traced(trace) = {members[k] : k \in DOMAIN members} BY DEF Traced, members
  <2>2. QED BY <1>8, <2>1
<1>13. ASSUME s = <<>> PROVE Traced(trace) = 1 .. m
  <2>1. 1 .. m + Len(s) = 1 .. m BY <1>1, <1>13
  <2>2. QED BY <1>10, <1>12, <2>1
<1>14. ASSUME Lists(s, m + 1) PROVE Steps \subseteq Traced(trace)
  <2>1. ASSUME NEW i \in Steps PROVE i \in Traced(trace)
    <3>1. i \in 1 .. L BY MembersFacts DEF L
    <3>2. CASE i <= m
      <4>1. i \in 1 .. m /\ i \in 1 .. m + Len(s) /\ members[i] = i BY <1>1, <1>10, <3>1, <3>2
      <4>2. QED BY <1>12, <4>1
    <3>3. CASE i >= m + 1
      <4>1. PICK k \in 1 .. Len(s) : s[k].member = i BY <1>14, <3>3 DEF Lists
      <4>2. m + k \in 1 .. m + Len(s) /\ m + k > m /\ m + k - m = k BY <1>1
      <4>3. members[m + k] = i BY <1>2, <1>8, <4>1, <4>2
      <4>4. QED BY <1>12, <4>2, <4>3
    <3>4. QED BY <1>1, <3>1, <3>2, <3>3
  <2>2. QED BY <2>1
<1>15. InOrder(trace) BY <1>6, <1>8 DEF InOrder, members
<1>16. QED BY <1>11, <1>13, <1>14, <1>15 DEF trace, S

\* Where the Run is and how it ended say what its Trace accounts for.
LEMMA ExactAccounts ==
  ASSUME NEW n \in 1 .. L + 1, NEW status \in {"paused", "complete", "stopped"}, NEW trace,
         Exact(status, n, trace)
  PROVE  /\ InOrder(trace)
         /\ 1 .. n - 1 \subseteq SettledIn(trace) /\ SettledIn(trace) \subseteq 1 .. n
         /\ status = "paused" => Traced(trace) = 1 .. n - 1
         /\ status = "complete" => SettledIn(trace) = DOMAIN Members
         /\ status = "stopped" => Steps \subseteq Traced(trace)
<1>1. L \in Nat /\ n \in Nat /\ DOMAIN Members = 1 .. L /\ <<>> \in Seq(TraceEntries)
  BY MembersFacts DEF L
<1>2. \A k \in 0 .. L : SettledTo(k) \in Seq(TraceEntries) /\ SettledTo(k) \o <<>> = SettledTo(k)
  BY SettledFacts
<1>3. ASSUME NEW m \in 0 .. L, trace = SettledTo(m)
      PROVE  InOrder(trace) /\ SettledIn(trace) = 1 .. m /\ Traced(trace) = 1 .. m
  <2>1. trace = SettledTo(m) \o <<>> BY <1>2, <1>3
  <2>2. QED BY <1>1, <2>1, TraceAccounts
<1>4. ASSUME NEW m \in 0 .. L, trace = SettledTo(m) \o NotRunFrom[m + 1]
      PROVE  InOrder(trace) /\ SettledIn(trace) = 1 .. m /\ Steps \subseteq Traced(trace)
  <2>1. m + 1 \in 1 .. L + 1 BY <1>1
  <2>2. Lists(NotRunFrom[m + 1], m + 1) /\ NotRunFrom[m + 1] \in Seq(TraceEntries)
    BY <2>1, NotRunLists, NotRunTypes DEF L
  <2>3. QED BY <1>4, <2>2, TraceAccounts
<1>5. CASE status = "paused"
  <2>1. n - 1 \in 0 .. L /\ trace = SettledTo(n - 1) BY <1>1, <1>5 DEF Exact
  <2>2. InOrder(trace) /\ SettledIn(trace) = 1 .. n - 1 /\ Traced(trace) = 1 .. n - 1
    BY <1>3, <2>1
  <2>3. QED BY <1>1, <1>5, <2>2
<1>6. CASE status = "complete"
  <2>1. n = L + 1 /\ L \in 0 .. L /\ trace = SettledTo(L) BY <1>1, <1>6 DEF Exact
  <2>2. InOrder(trace) /\ SettledIn(trace) = 1 .. L BY <1>3, <2>1
  <2>3. QED BY <1>1, <1>6, <2>1, <2>2
<1>7. CASE status = "stopped"
  <2>1. n <= L /\ (trace = SettledTo(n - 1) \o NotRunFrom[n] \/ trace = SettledTo(n) \o NotRunFrom[n + 1])
    BY <1>7 DEF Exact
  <2>2. CASE trace = SettledTo(n - 1) \o NotRunFrom[n]
    <3>1. n - 1 \in 0 .. L /\ n - 1 + 1 = n BY <1>1, <2>1
    <3>2. InOrder(trace) /\ SettledIn(trace) = 1 .. n - 1 /\ Steps \subseteq Traced(trace)
      BY <1>4, <2>2, <3>1
    <3>3. QED BY <1>1, <1>7, <3>2
  <2>3. CASE trace = SettledTo(n) \o NotRunFrom[n + 1]
    <3>1. n \in 0 .. L BY <1>1, <2>1
    <3>2. InOrder(trace) /\ SettledIn(trace) = 1 .. n /\ Steps \subseteq Traced(trace)
      BY <1>4, <2>3, <3>1
    <3>3. QED BY <1>1, <1>7, <3>2
  <2>4. QED BY <2>1, <2>2, <2>3
<1>8. QED BY <1>5, <1>6, <1>7

\* A sound Run's record accounts for every member and for every control.
LEMMA SoundIsTruthful == Sound(runner) => RunIsTruthful
<1>1. SUFFICES ASSUME Sound(runner) PROVE RunIsTruthful OBVIOUS
<1>2. runner \in Runners /\ L \in Nat /\ runner.next \in 1 .. L + 1
  BY <1>1, MembersFacts DEF Sound, Runners, L
<1>3. RunTypeOK
  <2>1. /\ runner.activeCheckpoint \in {0, runner.next} /\ runner.resume <= Len(runner.watches)
        /\ Len(runner.ledger) <= MaxLedger
    BY <1>1, MembersFacts DEF Sound, ObservesTheNext, DriftHolds
  <2>2. runner.resume \in 0 .. Len(runner.watches) BY <1>2, <2>1 DEF Runners
  <2>3. QED BY <1>2, <2>1, <2>2 DEF RunTypeOK, Runners, TraceEntries, L
<1>4. ControlsAreRecorded BY <1>1 DEF Sound, ControlsFit, ControlsAreRecorded
<1>5. TruthfulTrace
  <2>1. Exact(runner.status, runner.next, runner.trace) /\ runner.status \in {"paused", "complete", "stopped"}
    BY <1>1, <1>2 DEF Sound, TraceIsExact, Runners
  <2>2. runner.phase \in {"complete", "stopped"} => runner.status = runner.phase
    BY <1>1 DEF Sound, PhaseIsTrue
  <2>3. /\ InOrder(runner.trace)
        /\ 1 .. runner.next - 1 \subseteq SettledIn(runner.trace)
        /\ SettledIn(runner.trace) \subseteq 1 .. runner.next
        /\ runner.status = "paused" => Traced(runner.trace) = 1 .. runner.next - 1
        /\ runner.status = "complete" => SettledIn(runner.trace) = DOMAIN Members
        /\ runner.status = "stopped" => Steps \subseteq Traced(runner.trace)
    BY <1>2, <2>1, ExactAccounts
  <2>4. QED BY <2>2, <2>3 DEF TruthfulTrace, InOrder, SettledIn, Traced, MembersOf
<1>6. QED BY <1>3, <1>4, <1>5 DEF RunIsTruthful

\* The Trace of a Run accounts for every member once and in order, whatever the
\* interleaving of timers, loads, executions and controls, and there is room for
\* every control.
THEOREM RunIsTruthfulHolds == ~RetiredDuringLoad => (RunSpec => []RunIsTruthful)
<1>1. SUFFICES ASSUME ~RetiredDuringLoad PROVE RunSpec => []RunIsTruthful OBVIOUS
<1>2. RunSpec => []Sound(runner) BY <1>1, SoundAlways
<1>3. Sound(runner) => RunIsTruthful BY SoundIsTruthful
<1>4. QED BY <1>2, <1>3, PTL

\* Before a Run that goes on, every earlier member is settled and in the Trace.
LEMMA OngoingTrace ==
  ASSUME Sound(runner), runner.status = "paused"
  PROVE  /\ Len(runner.trace) = runner.next - 1
         /\ \A k \in DOMAIN runner.trace :
              runner.trace[k].member = k /\ Settlement(runner.trace[k])
<1>1. L \in Nat /\ runner.next \in 1 .. L /\ runner.trace = SettledTo(runner.next - 1)
  BY MembersFacts DEF Sound, Runners, TraceIsExact, Exact, L
<1>2. runner.next - 1 \in 0 .. L BY <1>1
<1>3. /\ runner.trace \in Seq(TraceEntries) /\ Len(runner.trace) = runner.next - 1
      /\ \A k \in 1 .. runner.next - 1 : runner.trace[k] = Entry(k, Kind(k))
  BY <1>1, <1>2, SettledFacts
<1>4. DOMAIN runner.trace = 1 .. runner.next - 1 BY <1>3
<1>5. QED BY <1>3, <1>4, EntryFacts

\* A Step is dispatched only alone, in its turn, on a visible panel and with the
\* last drift re-reviewed.
THEOREM SerialDispatchHolds == ~RetiredDuringLoad => (RunSpec => SerialDispatch)
<1> DEFINE Dispatches == runner'.execution = "running" /\ runner.execution # "running"
           Serial ==
             /\ runner.execution = "none" /\ runner.visible /\ runner.status = "paused"
             /\ runner.ledger[Len(runner.ledger)] = "authorization"
             /\ Len(runner.trace) = runner.next - 1
             /\ \A k \in DOMAIN runner.trace :
                  runner.trace[k].member = k /\ Settlement(runner.trace[k])
<1>1. SUFFICES ASSUME ~RetiredDuringLoad PROVE RunSpec => SerialDispatch OBVIOUS
<1>2. RunSpec => []Sound(runner) BY <1>1, SoundAlways
<1>3. Sound(runner) /\ [RunNext]_runner => [Dispatches => Serial]_runner
  <2>1. SUFFICES ASSUME Sound(runner), [RunNext]_runner, Dispatches, runner' # runner PROVE Serial
    OBVIOUS
  <2>2. Allowed(runner, runner') BY <1>1, <2>1, StepFits
  <2>3. /\ runner.execution = "none" /\ runner.visible /\ runner.status = "paused"
        /\ runner.ledger[Len(runner.ledger)] = "authorization"
    BY <2>1, <2>2 DEF Allowed
  <2>4. QED BY <2>1, <2>3, OngoingTrace
<1>4. QED BY <1>2, <1>3, PTL DEF RunSpec, SerialDispatch

\* No late answer, timer or publication brings back or changes a Run that is over.
THEOREM TerminalIsFinalHolds == ~RetiredDuringLoad => (RunSpec => TerminalIsFinal)
<1> DEFINE Over == runner.phase \in {"stopped", "complete"}
           Final ==
             /\ runner'.phase \in {runner.phase, "disposed"}
             /\ runner'.trace = runner.trace /\ runner'.status = runner.status
<1>1. SUFFICES ASSUME ~RetiredDuringLoad PROVE RunSpec => TerminalIsFinal OBVIOUS
<1>2. RunSpec => []Sound(runner) BY <1>1, SoundAlways
<1>3. Sound(runner) /\ [RunNext]_runner => [Over => Final]_runner
  <2>1. SUFFICES ASSUME Sound(runner), [RunNext]_runner, Over, runner' # runner PROVE Final
    OBVIOUS
  <2>2. Allowed(runner, runner') BY <1>1, <2>1, StepFits
  <2>3. QED BY <2>1, <2>2 DEF Allowed
<1>4. QED BY <1>2, <1>3, PTL DEF RunSpec, TerminalIsFinal
-----------------------------------------------------------------------------
(* The Server Injection. *)
\* Nothing was done for request r, in the panel or in a page.
Unsent(r) ==
  /\ evaluation[r] = NoEvaluation /\ r \notin pendingServerInjections
  /\ r \notin starts /\ sends[r] = <<>> /\ heard[r] = "none"

Editing == document.phase \in {"edit", "review"}
OfAgent == document.agentRequestId # Human

\* What may still be sent has not been sent: requests that nobody has used, what
\* an agent prepared, and what the microtask that is due will execute.
FreshAreUnsent ==
  /\ \A r \in Requests : r >= nextHuman => Unsent(r)
  /\ \A r \in AgentRequests : receipts[r].state \in {"absent", "prepared"} => Unsent(r)
  /\ Editing /\ OfAgent => Unsent(document.agentRequestId)
  /\ executing # 0 =>
       ~disposed /\ Editing /\ document.agentRequestId = executing /\ receipts[executing].state = "pending"

\* An evaluation carries what was agreed to and was not run yet.
SubmittedIsConsented ==
  \A r \in Requests : evaluation[r].state = "submitted" =>
    /\ r \notin starts /\ sends[r] = <<>>
    /\ evaluation[r].content = consent[r] /\ consent[r] \in Content

\* What the page refused was not sent.
RefusedIsUnsent ==
  \A r \in Requests :
    evaluation[r].state \in {"unavailable", "unsupported", "stale-target"} => sends[r] = <<>>

\* An approval is of what the person agreed to.
ApprovalIsConsent ==
  ~disposed /\ document.phase = "review" /\ OfAgent /\ document.approval # None =>
    consent[document.agentRequestId] = document.approval.content

\* The document, the pending requests and the receipts are about the same request.
DocumentIsTracked ==
  /\ document.phase = "none" => ~OfAgent
  /\ \A r \in AgentRequests : r \in pendingServerInjections => receipts[r].state = "pending"
  /\ document.phase = "pending" /\ OfAgent =>
       document.sent = document.agentRequestId
         /\ receipts[document.sent].state \in {"pending", "complete"}
  /\ document.phase = "outcome" /\ OfAgent =>
       document.sent = document.agentRequestId
         /\ receipts[document.sent] = [state |-> "complete", outcome |-> document.outcome]
  /\ document.phase \in {"pending", "outcome"} /\ ~OfAgent =>
       document.sent > MaxAgentRequests /\ document.sent < nextHuman

\* An outcome is true, and of what was not sent nothing is under way.
TrulySettled(outcome, r) ==
  /\ True(outcome, r)
  /\ outcome \in {"stale-target", "bridge-error"} => evaluation[r].state # "submitted"

OutcomesAreSettled ==
  /\ document.phase = "outcome" => TrulySettled(document.outcome, document.sent)
  /\ \A r \in AgentRequests : receipts[r].state = "complete" => TrulySettled(receipts[r].outcome, r)

Facts ==
  /\ FreshAreUnsent /\ SubmittedIsConsented /\ RefusedIsUnsent /\ SentAsConsented
  /\ ApprovalIsConsent /\ DocumentIsTracked /\ OutcomesAreSettled

Inv == TypeOK /\ Facts
-----------------------------------------------------------------------------
(* Types                                                                   *)

Documents ==
  [phase : {"none", "edit", "review", "pending", "outcome"},
   agentRequestId : 0 .. MaxAgentRequests, sent : {0} \cup Requests,
   version : 0 .. MaxVersions, site : 0 .. MaxSites,
   prepared : Fingerprint \cup {None}, reviewed : Fingerprint \cup {None},
   approval : Fingerprint \cup {None}, outcome : Outcomes \cup {"none"}]

Receipts ==
  [AgentRequests -> [state : {"absent", "prepared", "pending", "complete", "aborted"},
                     outcome : Outcomes \cup {"none"}]]

Consents == [Requests -> Content \cup {NoContent}]

\* Documents as the actions make them.
LEMMA DocumentTypes ==
  ASSUME TypeOK
  PROVE  /\ document \in Documents /\ NoDocument \in Documents
         /\ \A d \in Documents :
              /\ FingerprintOf(d) \in Fingerprint /\ ContentOf(d) \in Content
              /\ Reedited(d) \in Documents /\ Published(d) \in Documents
              /\ [d EXCEPT !.approval = None] \in Documents
<1>1. document \in Documents BY DEF TypeOK, Documents
<1>2. NoDocument \in Documents BY ServerInjectionAssumption DEF NoDocument, Documents, Human
<1>3. ASSUME NEW d \in Documents
      PROVE  FingerprintOf(d) \in Fingerprint /\ ContentOf(d) \in Content
  BY DEF TypeOK, FingerprintOf, ContentOf, Fingerprint, Content, Documents
<1>4. ASSUME NEW d \in Documents
      PROVE  Reedited(d) \in Documents /\ [d EXCEPT !.approval = None] \in Documents
  BY DEF Reedited, Documents
<1>5. ASSUME NEW d \in Documents PROVE Published(d) \in Documents BY <1>4 DEF Published
<1>6. QED BY <1>1, <1>2, <1>3, <1>4, <1>5

\* The document, and what is made of it.
LEMMA TheDocument ==
  ASSUME TypeOK
  PROVE  /\ document \in Documents /\ FingerprintOf(document) \in Fingerprint
         /\ ContentOf(document) \in Content /\ document.agentRequestId \in 0 .. MaxAgentRequests
         /\ Reedited(document) \in Documents /\ Published(document) \in Documents
<1>1. document \in Documents BY DocumentTypes
<1>2. document.agentRequestId \in 0 .. MaxAgentRequests BY <1>1 DEF Documents
<1>3. QED BY <1>1, <1>2, DocumentTypes

\* Documents as they are edited, sent and repeated.
LEMMA DocumentEdits ==
  ASSUME NEW d \in Documents
  PROVE  /\ \A v \in 0 .. MaxVersions : [d EXCEPT !.version = v] \in Documents
         /\ \A s \in 0 .. MaxSites : [d EXCEPT !.phase = "edit", !.site = s] \in Documents
         /\ \A r \in Requests :
              /\ [d EXCEPT !.phase = "pending", !.sent = r] \in Documents
              /\ [d EXCEPT !.phase = "outcome", !.sent = r, !.outcome = "bridge-error"] \in Documents
         /\ \A o \in Outcomes : [d EXCEPT !.phase = "outcome", !.outcome = o] \in Documents
         /\ \A f \in Fingerprint :
              [d EXCEPT !.phase = "review", !.reviewed = f, !.approval = None] \in Documents
         /\ [d EXCEPT !.approval = d.reviewed] \in Documents
         /\ [d EXCEPT !.agentRequestId = Human, !.prepared = None,
                      !.sent = 0, !.outcome = "none"] \in Documents
<1>1. ASSUME NEW v \in 0 .. MaxVersions PROVE [d EXCEPT !.version = v] \in Documents
  BY DEF Documents
<1>2. ASSUME NEW s \in 0 .. MaxSites
      PROVE  [d EXCEPT !.phase = "edit", !.site = s] \in Documents
  BY DEF Documents
<1>3. ASSUME NEW r \in Requests
      PROVE  /\ [d EXCEPT !.phase = "pending", !.sent = r] \in Documents
             /\ [d EXCEPT !.phase = "outcome", !.sent = r, !.outcome = "bridge-error"] \in Documents
  BY DEF Documents, Outcomes
<1>4. ASSUME NEW o \in Outcomes
      PROVE  [d EXCEPT !.phase = "outcome", !.outcome = o] \in Documents
  BY DEF Documents
<1>5. ASSUME NEW f \in Fingerprint
      PROVE  [d EXCEPT !.phase = "review", !.reviewed = f, !.approval = None] \in Documents
  BY DEF Documents
<1>6. [d EXCEPT !.approval = d.reviewed] \in Documents BY DEF Documents
<1>7. [d EXCEPT !.agentRequestId = Human, !.prepared = None,
                !.sent = 0, !.outcome = "none"] \in Documents
  <2>1. Human \in 0 .. MaxAgentRequests BY ServerInjectionAssumption DEF Human
  <2>2. QED BY <2>1 DEF Documents
<1>8. QED BY <1>1, <1>2, <1>3, <1>4, <1>5, <1>6, <1>7

\* Consents as the actions make them.
LEMMA ConsentTypes ==
  ASSUME TypeOK
  PROVE  /\ consent \in Consents /\ Withdrawn \in Consents
         /\ \A c \in Content : \A r : [consent EXCEPT ![r] = c] \in Consents
BY DEF TypeOK, Withdrawn, Consents

PageEvaluations ==
  [Requests -> [state : {"none", "submitted", "unavailable", "exception", "unsupported",
                         "stale-target", "started", "send-threw"},
                content : Content \cup {NoContent}]]

\* A request that is sent.
LEMMA SendTypes ==
  ASSUME TypeOK, NEW r \in Requests, NEW content \in Content, Send(r, content)
  PROVE  document' \in Documents /\ pendingServerInjections' \subseteq Requests
         /\ evaluation' \in PageEvaluations
BY DocumentTypes, DocumentEdits DEF Send, TypeOK, PageEvaluations

\* What an outcome changes.
LEMMA FinishedTypes ==
  ASSUME TypeOK, NEW rs, NEW outcome \in Outcomes, NEW gone \in BOOLEAN,
         Finished(rs, outcome, gone)
  PROVE  pendingServerInjections' \subseteq Requests /\ document' \in Documents
         /\ receipts' \in Receipts
<1>1. document \in Documents /\ receipts \in Receipts /\ pendingServerInjections \subseteq Requests
  BY DEF TypeOK, Documents, Receipts
<1>2. pendingServerInjections' \subseteq Requests BY <1>1 DEF Finished
<1>3. [document EXCEPT !.phase = "outcome", !.outcome = outcome] \in Documents
  BY <1>1, DocumentEdits
<1>4. document' \in Documents BY <1>1, <1>3 DEF Finished
<1>5. receipts' \in Receipts BY <1>1 DEF Finished, Receipts
<1>6. QED BY <1>2, <1>4, <1>5

\* The outcomes that may be.
LEMMA OutcomeTypes ==
  /\ \A what \in Heard : CapturedOutcome(what) \in Outcomes
  /\ \A state : StartOutcome(state) \in Outcomes
BY DEF CapturedOutcome, StartOutcome, Heard, Outcomes

\* A person's steps.
LEMMA PersonTypes ==
  ASSUME TypeOK, Person PROVE TypeOK'
<1>1. CASE beginServerInjection
  <2>1. PICK s \in 0 .. currentSite : document' = [NoDocument EXCEPT !.phase = "edit", !.site = s]
    BY <1>1 DEF beginServerInjection
  <2>2. s \in 0 .. MaxSites BY <2>1, ServerInjectionAssumption DEF TypeOK
  <2>3. document' \in Documents BY <2>1, <2>2, DocumentTypes, DocumentEdits
  <2>4. QED
    BY <1>1, <2>3 DEF beginServerInjection, TypeOK, Documents, panelVars, agentVars, clientVars,
    pageVars
<1>2. CASE updateServerInjectionDraft
  <2>1. document' \in Documents
    <3>1. PICK v \in 0 .. MaxVersions : document' = [Reedited(document) EXCEPT !.version = v]
      BY <1>2 DEF updateServerInjectionDraft
    <3>2. Reedited(document) \in Documents BY TheDocument
    <3>3. QED BY <3>1, <3>2, DocumentEdits
  <2>2. QED
    BY <1>2, <2>1 DEF updateServerInjectionDraft, TypeOK, Documents, panelVars, agentVars,
    clientVars, pageVars
<1>3. CASE reviewServerInjection
  <2>1. document' \in Documents BY <1>3, DocumentTypes, DocumentEdits DEF reviewServerInjection
  <2>2. QED BY <1>3, <2>1 DEF reviewServerInjection, TypeOK, Documents, panelVars, agentVars,
    clientVars, pageVars
<1>4. CASE editServerInjection
  <2>1. document' \in Documents /\ consent' \in Consents
    BY <1>4, DocumentTypes, ConsentTypes DEF editServerInjection
  <2>2. QED
    BY <1>4, <2>1 DEF editServerInjection, TypeOK, Documents, Consents, panelVars, agentVars,
    clientVars, pageVars
<1>5. CASE approveAgentServerInjection
  <2>1. document' \in Documents
    BY <1>5, DocumentTypes, DocumentEdits DEF approveAgentServerInjection
  <2>2. consent' \in Consents
    <3>1. ContentOf(document) \in Content BY TheDocument
    <3>2. Withdrawn \in Consents BY ConsentTypes
    <3>3. [consent EXCEPT ![document.agentRequestId] = ContentOf(document)] \in Consents
      BY <3>1, ConsentTypes
    <3>4. QED BY <1>5, <3>2, <3>3 DEF approveAgentServerInjection
  <2>3. QED
    BY <1>5, <2>1, <2>2 DEF approveAgentServerInjection, TypeOK, Documents, Consents, panelVars,
    agentVars, clientVars, pageVars
<1>6. CASE executeServerInjection
  <2>1. nextHuman \in Requests BY <1>6 DEF executeServerInjection
  <2>2. CASE serverInjectionReady(document) /\ FingerprintOf(document) = document.reviewed
    <3>1. document.reviewed.content \in Content /\ ContentOf(document) \in Content
      <4>1. ContentOf(document) \in Content BY TheDocument
      <4>2. document.reviewed.content = ContentOf(document) BY <2>2 DEF FingerprintOf
      <4>3. QED BY <4>1, <4>2
    <3>2. consent' \in Consents BY <1>6, <2>2, <3>1, ConsentTypes DEF executeServerInjection
    <3>3. nextHuman' \in MaxAgentRequests + 1 .. MaxAgentRequests + MaxHumanRequests + 1
      <4>1. nextHuman' = nextHuman + 1 /\ nextHuman \in 1 .. MaxAgentRequests + MaxHumanRequests
        BY <1>6, <2>1, <2>2 DEF executeServerInjection, Requests
      <4>2. nextHuman \in MaxAgentRequests + 1 .. MaxAgentRequests + MaxHumanRequests + 1
        BY DEF TypeOK
      <4>3. QED BY <4>1, <4>2, ServerInjectionAssumption
    <3>4. document' \in Documents /\ pendingServerInjections' \subseteq Requests
          /\ evaluation' \in PageEvaluations
      <4>1. CASE Send(nextHuman, document.reviewed.content) BY <2>1, <3>1, <4>1, SendTypes
      <4>2. CASE document' = [document EXCEPT !.phase = "outcome", !.sent = nextHuman,
                                              !.outcome = "bridge-error"]
                 /\ UNCHANGED <<pendingServerInjections, evaluation>>
        BY <2>1, <4>2, DocumentTypes, DocumentEdits DEF TypeOK, PageEvaluations
      <4>3. QED BY <1>6, <2>2, <4>1, <4>2 DEF executeServerInjection
    <3>5. QED BY <1>6, <3>2, <3>3, <3>4 DEF executeServerInjection, TypeOK, Documents, Consents,
      PageEvaluations, panelVars, agentVars, pageVars
  <2>3. CASE ~(serverInjectionReady(document) /\ FingerprintOf(document) = document.reviewed)
    <3>1. document' \in Documents /\ UNCHANGED <<nextHuman, consent, clientVars>>
      BY <1>6, <2>3, DocumentTypes DEF executeServerInjection
    <3>2. QED BY <1>6, <3>1 DEF executeServerInjection, TypeOK, Documents, panelVars, agentVars,
      clientVars, pageVars
  <2>4. QED BY <2>2, <2>3
<1>7. CASE confirmDiscardServerInjection
  <2>1. document' \in Documents /\ consent' \in Consents
    BY <1>7, DocumentTypes, ConsentTypes DEF confirmDiscardServerInjection
  <2>2. QED
    BY <1>7, <2>1 DEF confirmDiscardServerInjection, TypeOK, Documents, Consents, panelVars,
    agentVars, clientVars, pageVars
<1>8. CASE prepareServerInjectionRepeat
  <2>1. document' \in Documents
    BY <1>8, DocumentTypes, DocumentEdits DEF prepareServerInjectionRepeat
  <2>2. QED
    BY <1>8, <2>1 DEF prepareServerInjectionRepeat, TypeOK, Documents, panelVars, agentVars,
    clientVars, pageVars
<1>9. CASE Hide
  <2>1. document' \in Documents BY <1>9, DocumentTypes DEF Hide, Unapproved
  <2>2. consent' \in Consents BY <1>9, ConsentTypes DEF Hide
  <2>3. breaks' \in 0 .. MaxBreaks BY <1>9, ServerInjectionAssumption DEF Hide, TypeOK
  <2>4. QED
    BY <1>9, <2>1, <2>2, <2>3 DEF Hide, TypeOK, Documents, Consents, agentVars, clientVars, pageVars
<1>10. CASE Show BY <1>10 DEF Show, TypeOK, documentVars, agentVars, clientVars, pageVars
<1>11. CASE dispose
  <2>1. pendingServerInjections' \subseteq Requests /\ document' \in Documents /\ receipts' \in Receipts
    BY <1>11, FinishedTypes DEF dispose, Outcomes
  <2>2. consent' \in Consents BY <1>11, ConsentTypes DEF dispose
  <2>3. QED BY <1>11, <2>1, <2>2 DEF dispose, TypeOK, Documents, Receipts, Consents, pageVars
<1>12. QED BY <1>1, <1>2, <1>3, <1>4, <1>5, <1>6, <1>7, <1>8, <1>9, <1>10, <1>11 DEF Person

\* What the page makes of a call: nothing new, or the message is claimed and at
\* most that call is made.
LEMMA SubmitEffects ==
  ASSUME TypeOK, NEW r \in Requests, NEW content \in Content, NEW result \in submit(r, content)
  PROVE  /\ result.state \in {"started", "unsupported", "stale-target", "send-threw"}
         /\ \/ result.starts = starts /\ result.sends = sends
            \/ /\ r \notin starts /\ result.starts = starts \cup {r}
               /\ result.state \in {"started", "send-threw"}
               /\ result.sends \in {sends, [sends EXCEPT ![r] = Append(sends[r], content)]}
<1> DEFINE Refused(state) == [state |-> state, starts |-> starts, sends |-> sends]
<1> DEFINE Claimed(state, s) == [state |-> state, starts |-> starts \cup {r}, sends |-> s]
<1> DEFINE Sent == [sends EXCEPT ![r] = Append(sends[r], [content EXCEPT !.site = site])]
<1>1. \/ result \in {Refused("started"), Refused("unsupported"), Refused("stale-target")}
      \/ /\ r \notin starts /\ content.site = site
         /\ result \in {Claimed("started", Sent), Claimed("send-threw", Sent),
                        Claimed("send-threw", sends)}
  BY DEF submit
<1>2. CASE result \in {Refused("started"), Refused("unsupported"), Refused("stale-target")}
  BY <1>2
<1>3. CASE /\ r \notin starts /\ content.site = site
           /\ result \in {Claimed("started", Sent), Claimed("send-threw", Sent),
                          Claimed("send-threw", sends)}
  <2>1. [content EXCEPT !.site = site] = content BY <1>3 DEF Content
  <2>2. Sent = [sends EXCEPT ![r] = Append(sends[r], content)] BY <2>1
  <2>3. QED
    <3> HIDE DEF Sent
    <3>1. QED BY <1>3, <2>2
<1>4. QED BY <1>1, <1>2, <1>3

\* Steps of the page.
LEMMA PageTypes ==
  ASSUME TypeOK, SubmittedIsConsented, Page PROVE TypeOK'
<1>1. CASE PageReloads
  <2>1. evaluation' \in PageEvaluations
    <3>1. PICK lost \in SUBSET {r \in Requests : evaluation[r].state = "submitted"} :
            evaluation' = [r \in Requests |-> IF r \in lost
                             THEN [evaluation[r] EXCEPT !.state = "exception"] ELSE evaluation[r]]
      BY <1>1 DEF PageReloads
    <3>2. evaluation \in PageEvaluations BY DEF TypeOK, PageEvaluations
    <3>3. QED BY <3>1, <3>2 DEF PageEvaluations
  <2>2. site' \in 0 .. MaxSites
    <3>1. site < MaxSites /\ site' = site + 1 /\ site \in 0 .. MaxSites
      BY <1>1 DEF PageReloads, TypeOK
    <3>2. QED BY <3>1, ServerInjectionAssumption
  <2>3. QED
    BY <1>1, <2>1, <2>2 DEF PageReloads, TypeOK, PageEvaluations, documentVars, panelVars,
    agentVars
<1>2. CASE SessionChanges
  <2>1. site' \in 0 .. MaxSites BY <1>2, ServerInjectionAssumption DEF SessionChanges, TypeOK
  <2>2. QED
    BY <1>2, <2>1 DEF SessionChanges, TypeOK, documentVars, panelVars, agentVars, clientVars
<1>3. ASSUME NEW r \in Requests, pageEvaluates(r) PROVE TypeOK'
  <2>1. evaluation \in PageEvaluations /\ starts \subseteq Requests /\ sends \in [Requests -> Seq(Content)]
    BY DEF TypeOK, PageEvaluations
  <2>2. CASE \E state \in {"unavailable", "exception"} :
               /\ evaluation' = [evaluation EXCEPT ![r].state = state] /\ UNCHANGED <<starts, sends>>
    <3>1. evaluation' \in PageEvaluations BY <2>1, <2>2 DEF PageEvaluations
    <3>2. QED
      BY <1>3, <2>2, <3>1 DEF pageEvaluates, TypeOK, PageEvaluations, documentVars, panelVars,
      agentVars
  <2>3. ASSUME NEW result \in submit(r, evaluation[r].content), NEW valid \in BOOLEAN,
               evaluation' = [evaluation EXCEPT ![r].state = IF valid THEN result.state ELSE "exception"],
               starts' = result.starts, sends' = result.sends
        PROVE  TypeOK'
    <3>1. evaluation[r].content \in Content BY <1>3 DEF pageEvaluates, SubmittedIsConsented
    <3>2. /\ result.state \in {"started", "unsupported", "stale-target", "send-threw"}
          /\ result.starts \in {starts, starts \cup {r}}
          /\ result.sends \in {sends, [sends EXCEPT ![r] = Append(sends[r], evaluation[r].content)]}
      BY <2>3, <3>1, SubmitEffects
    <3>3. evaluation' \in PageEvaluations BY <2>1, <2>3, <3>2 DEF PageEvaluations
    <3>4. starts' \subseteq Requests BY <2>1, <2>3, <3>2
    <3>5. sends' \in [Requests -> Seq(Content)]
      <4>1. Append(sends[r], evaluation[r].content) \in Seq(Content) BY <2>1, <3>1
      <4>2. QED BY <2>1, <2>3, <3>2, <4>1
    <3>6. QED
      BY <1>3, <3>3, <3>4, <3>5 DEF pageEvaluates, TypeOK, PageEvaluations, documentVars,
      panelVars, agentVars
  <2>4. QED BY <1>3, <2>2, <2>3 DEF pageEvaluates
<1>4. ASSUME NEW r \in Requests, ListenerHears(r) PROVE TypeOK'
  BY <1>4 DEF ListenerHears, TypeOK, documentVars, panelVars, agentVars, clientVars
<1>5. QED BY <1>1, <1>2, <1>3, <1>4 DEF Page

\* Steps of the agent's service.
LEMMA AgentTypes ==
  ASSUME TypeOK, Agent PROVE TypeOK'
<1>0. receipts \in Receipts BY DEF TypeOK, Receipts
<1>1. CASE AgentConnects
  BY <1>1 DEF AgentConnects, TypeOK, documentVars, panelVars, clientVars, pageVars
<1>2. CASE release
  <2>1. document' \in Documents
    <3>1. /\ document \in Documents /\ [document EXCEPT !.approval = None] \in Documents
          /\ Published(document) \in Documents
          /\ Published([document EXCEPT !.approval = None]) \in Documents
      BY DocumentTypes
    <3>2. QED BY <1>2, <3>1 DEF release, Unapproved
  <2>2. consent' \in Consents BY <1>2, ConsentTypes DEF release
  <2>3. breaks' \in 0 .. MaxBreaks
    <3>1. breaks \in 0 .. MaxBreaks /\ MaxBreaks \in Nat
      BY ServerInjectionAssumption DEF TypeOK, ServerInjectionAssumption
    <3>2. breaks < MaxBreaks /\ breaks' = breaks + 1 BY <1>2 DEF release
    <3> QED BY <3>1, <3>2
  <2>4. QED
    BY <1>2, <2>1, <2>2, <2>3 DEF release, TypeOK, Documents, Consents, panelVars, clientVars,
    pageVars
<1>3. ASSUME NEW r \in AgentRequests, prepareAgentServerInjection(r) PROVE TypeOK'
  <2> DEFINE doc == [NoDocument EXCEPT !.phase = "edit", !.agentRequestId = r, !.site = currentSite]
  <2>1. document' \in Documents
    <3>1. r \in 0 .. MaxAgentRequests /\ currentSite \in 0 .. MaxSites /\ NoDocument \in Documents
      <4>1. r \in 0 .. MaxAgentRequests BY ServerInjectionAssumption DEF AgentRequests
      <4>2. currentSite \in 0 .. MaxSites BY DEF TypeOK
      <4>3. QED BY <4>1, <4>2, DocumentTypes
    <3>2. doc \in Documents BY <3>1 DEF Documents
    <3>3. FingerprintOf(doc) \in Fingerprint BY <3>2, DocumentTypes
    <3>4. document' = [doc EXCEPT !.prepared = FingerprintOf(doc)]
      BY <1>3 DEF prepareAgentServerInjection
    <3>5. QED
      <4> HIDE DEF doc
      <4>1. QED BY <3>2, <3>3, <3>4 DEF Documents
  <2>2. receipts' \in Receipts BY <1>0, <1>3 DEF prepareAgentServerInjection, Receipts
  <2>3. serverPrepared' \in [requestId : 0 .. MaxAgentRequests, consumed : BOOLEAN]
    BY <1>3, ServerInjectionAssumption DEF prepareAgentServerInjection, AgentRequests
  <2>4. QED
    BY <1>3, <2>1, <2>2, <2>3 DEF prepareAgentServerInjection, TypeOK, Documents, Receipts,
    panelVars, clientVars, pageVars
<1>4. ASSUME NEW r \in AgentRequests, executeAgentRequest(r) PROVE TypeOK'
  <2>1. receipts' \in Receipts BY <1>0, <1>4 DEF executeAgentRequest, Receipts
  <2>2. serverPrepared' \in [requestId : 0 .. MaxAgentRequests, consumed : BOOLEAN]
    BY <1>4 DEF executeAgentRequest, TypeOK
  <2>3. executing' \in 0 .. MaxAgentRequests
    BY <1>4, ServerInjectionAssumption DEF executeAgentRequest, AgentRequests
  <2>4. QED BY <1>4, <2>1, <2>2, <2>3 DEF executeAgentRequest, TypeOK, Receipts, documentVars,
    panelVars, clientVars, pageVars
<1>5. ASSUME NEW r \in AgentRequests, abortServerInjection(r) PROVE TypeOK'
  <2>1. receipts' \in Receipts BY <1>0, <1>5 DEF abortServerInjection, Receipts
  <2>2. serverPrepared' \in [requestId : 0 .. MaxAgentRequests, consumed : BOOLEAN]
    BY <1>5, ServerInjectionAssumption DEF abortServerInjection
  <2>3. document' \in Documents /\ consent' \in Consents
    BY <1>5, DocumentTypes, ConsentTypes DEF abortServerInjection
  <2>4. QED
    BY <1>5, <2>1, <2>2, <2>3 DEF abortServerInjection, TypeOK, Documents, Receipts, Consents,
    panelVars, clientVars, pageVars
<1>6. QED BY <1>1, <1>2, <1>3, <1>4, <1>5 DEF Agent

\* Steps of the panel, its port and the bridge client.
LEMMA PanelTypes ==
  ASSUME TypeOK,
         \/ PanelStep \/ publish \/ PanelLearns \/ PortCloses \/ connect
         \/ \E r \in Requests : resolveServerInjectionFromCapture(r) \/ evaluationReturns(r)
  PROVE  TypeOK'
<1>0. receipts \in Receipts /\ evaluation \in PageEvaluations /\ pendingServerInjections \subseteq Requests
  BY DEF TypeOK, Receipts, PageEvaluations
<1>1. CASE executeApprovedAgentServerInjection
  <2>1. executing \in AgentRequests /\ executing \in Requests
    BY <1>1, ServerInjectionAssumption DEF executeApprovedAgentServerInjection, TypeOK,
    AgentRequests, Requests
  <2>0. executing' \in 0 .. MaxAgentRequests
        /\ UNCHANGED <<nextHuman, panelVars, agentConnected, serverPrepared, pageVars, breaks>>
    BY <1>1, ServerInjectionAssumption DEF executeApprovedAgentServerInjection
  <2>2. CASE /\ document.agentRequestId = executing /\ document.phase = "review"
             /\ agentApproved(document) /\ serverInjectionReady(document)
    <3>1. document.reviewed.content \in Content
      <4>1. ContentOf(document) \in Content BY TheDocument
      <4>2. document.reviewed.content = ContentOf(document)
        BY <2>2 DEF agentApproved, FingerprintOf
      <4>3. QED BY <4>1, <4>2
    <3>2. CASE Send(executing, document.reviewed.content) /\ UNCHANGED receipts
      <4>1. document' \in Documents /\ pendingServerInjections' \subseteq Requests
            /\ evaluation' \in PageEvaluations
        BY <2>1, <3>1, <3>2, SendTypes
      <4>2. UNCHANGED <<consent, receipts>>
        BY <1>1, <2>2, <3>2 DEF executeApprovedAgentServerInjection
      <4>3. QED BY <2>0, <4>1, <4>2 DEF TypeOK, Documents, PageEvaluations, panelVars, pageVars
    <3>3. CASE /\ document' = [document EXCEPT !.phase = "outcome", !.sent = executing,
                                               !.outcome = "bridge-error"]
               /\ receipts' = [receipts EXCEPT ![executing] =
                                 [state |-> "complete", outcome |-> "bridge-error"]]
               /\ UNCHANGED clientVars
      <4>1. document' \in Documents BY <2>1, <3>3, DocumentTypes, DocumentEdits
      <4>2. receipts' \in Receipts BY <1>0, <2>1, <3>3 DEF Receipts, Outcomes
      <4>3. UNCHANGED consent BY <1>1, <2>2 DEF executeApprovedAgentServerInjection
      <4>4. QED
        BY <2>0, <3>3, <4>1, <4>2, <4>3 DEF TypeOK, Documents, Receipts, panelVars, clientVars,
        pageVars
    <3>4. QED BY <1>1, <2>2, <3>2, <3>3 DEF executeApprovedAgentServerInjection
  <2>3. CASE ~(/\ document.agentRequestId = executing /\ document.phase = "review"
               /\ agentApproved(document) /\ serverInjectionReady(document))
    <3>1. /\ document' \in {document, Reedited(document)} /\ consent' = Withdrawn
          /\ receipts' = [receipts EXCEPT ![executing] =
                            [state |-> "complete", outcome |-> "stale-target"]]
          /\ UNCHANGED clientVars
      BY <1>1, <2>3 DEF executeApprovedAgentServerInjection
    <3>2. document' \in Documents /\ consent' \in Consents BY <3>1, TheDocument, ConsentTypes
    <3>3. receipts' \in Receipts BY <1>0, <2>1, <3>1 DEF Receipts, Outcomes
    <3>4. QED BY <2>0, <3>1, <3>2, <3>3 DEF TypeOK, Documents, Receipts, Consents, panelVars,
      clientVars, pageVars
  <2>4. QED BY <2>2, <2>3
<1>2. ASSUME NEW r \in Requests, terminalOutcomeTimesOut(r) PROVE TypeOK'
  <2>1. pendingServerInjections' \subseteq Requests /\ document' \in Documents /\ receipts' \in Receipts
    <3>1. "unknown" \in Outcomes /\ disposed \in BOOLEAN BY DEF Outcomes, TypeOK
    <3>2. QED BY <1>2, <3>1, FinishedTypes DEF terminalOutcomeTimesOut
  <2>2. QED
    BY <1>2, <2>1 DEF terminalOutcomeTimesOut, TypeOK, Documents, Receipts, panelVars, pageVars
<1>3. CASE publish
  <2>1. document' \in Documents /\ consent' \in Consents
    BY <1>3, TheDocument, ConsentTypes DEF publish
  <2>2. QED
    BY <1>3, <2>1 DEF publish, TypeOK, Documents, Consents, panelVars, agentVars, clientVars, pageVars
<1>4. CASE PanelLearns
  <2>1. currentSite' \in 0 .. MaxSites
    <3>1. PICK s \in currentSite + 1 .. site : currentSite' = s BY <1>4 DEF PanelLearns
    <3>2. QED BY <3>1, ServerInjectionAssumption DEF TypeOK
  <2>2. QED BY <1>4, <2>1 DEF PanelLearns, TypeOK, documentVars, agentVars, clientVars, pageVars
<1>5. CASE PortCloses
  <2>1. /\ pendingServerInjections' \subseteq Requests /\ document' \in Documents
        /\ receipts' \in Receipts /\ consent' \in Consents
    <3>1. CASE visible /\ document.phase = "review"
      BY <1>0, <1>5, <3>1, TheDocument, ConsentTypes DEF PortCloses
    <3>2. CASE ~(visible /\ document.phase = "review")
      <4>1. Finished(pendingServerInjections, "unknown", FALSE) /\ UNCHANGED consent
        BY <1>5, <3>2 DEF PortCloses
      <4>2. QED BY <4>1, FinishedTypes, ConsentTypes DEF Outcomes
    <3>3. QED BY <3>1, <3>2
  <2>2. breaks' \in 0 .. MaxBreaks
    <3>1. breaks < MaxBreaks /\ breaks' = breaks + 1 /\ breaks \in 0 .. MaxBreaks
      BY <1>5 DEF PortCloses, TypeOK
    <3>2. QED BY <3>1, ServerInjectionAssumption
  <2>3. UNCHANGED <<nextHuman, visible, disposed, currentSite, agentConnected, serverPrepared,
                    executing, evaluation, pageVars>> /\ port' = FALSE
    BY <1>5 DEF PortCloses
  <2>4. QED BY <2>1, <2>2, <2>3 DEF TypeOK, Documents, Receipts, Consents, pageVars
<1>6. CASE connect BY <1>6 DEF connect, TypeOK, documentVars, agentVars, clientVars, pageVars
<1>7. ASSUME NEW r \in Requests, resolveServerInjectionFromCapture(r) PROVE TypeOK'
  <2>1. CapturedOutcome(heard[r]) \in Outcomes
    BY <1>7, OutcomeTypes DEF resolveServerInjectionFromCapture, TypeOK
  <2>2. pendingServerInjections' \subseteq Requests /\ document' \in Documents /\ receipts' \in Receipts
    BY <1>7, <2>1, FinishedTypes DEF resolveServerInjectionFromCapture, TypeOK
  <2>3. QED
    BY <1>7, <2>2 DEF resolveServerInjectionFromCapture, TypeOK, Documents, Receipts, panelVars,
    pageVars
<1>8. ASSUME NEW r \in Requests, evaluationReturns(r) PROVE TypeOK'
  <2>1. pendingServerInjections' \subseteq Requests /\ document' \in Documents /\ receipts' \in Receipts
    <3>1. CASE evaluation[r].state = "started"
      BY <1>0, <1>8, <3>1, TheDocument DEF evaluationReturns
    <3>2. CASE evaluation[r].state # "started"
      <4>1. Finished({r}, StartOutcome(evaluation[r].state), disposed)
        BY <1>8, <3>2 DEF evaluationReturns
      <4>2. StartOutcome(evaluation[r].state) \in Outcomes /\ disposed \in BOOLEAN
        BY OutcomeTypes DEF TypeOK
      <4>3. QED BY <4>1, <4>2, FinishedTypes
    <3>3. QED BY <3>1, <3>2
  <2>2. evaluation' \in PageEvaluations
    BY <1>0, <1>8 DEF evaluationReturns, PageEvaluations, NoEvaluation
  <2>3. UNCHANGED <<nextHuman, consent, panelVars, agentConnected, serverPrepared, executing,
                    pageVars, breaks>>
    BY <1>8 DEF evaluationReturns
  <2>4. QED
    BY <2>1, <2>2, <2>3 DEF TypeOK, Documents, Receipts, PageEvaluations, panelVars, pageVars
<1>9. QED BY <1>1, <1>2, <1>3, <1>4, <1>5, <1>6, <1>7, <1>8 DEF PanelStep

\* Every step.
LEMMA TypeStep ==
  ASSUME TypeOK, SubmittedIsConsented, [Next]_vars PROVE TypeOK'
<1>1. CASE Next BY <1>1, PersonTypes, AgentTypes, PageTypes, PanelTypes DEF Next
<1>2. CASE UNCHANGED vars
  BY <1>2 DEF TypeOK, vars, documentVars, panelVars, agentVars, clientVars, pageVars
<1>3. QED BY <1>1, <1>2
-----------------------------------------------------------------------------
(* What the steps keep                                                     *)

\* Request ids, of which Human is none.
LEMMA Ids ==
  /\ AgentRequests \subseteq Requests
  /\ \A r \in Requests : r \in Nat /\ r # Human /\ r # 0
  /\ \A r \in 0 .. MaxAgentRequests : r # Human => r \in AgentRequests
BY ServerInjectionAssumption DEF AgentRequests, Requests, Human

\* The request of an agent's document.
LEMMA AgentsDocument ==
  ASSUME TypeOK, OfAgent
  PROVE  document.agentRequestId \in AgentRequests /\ document.agentRequestId \in Requests
BY TheDocument, Ids DEF OfAgent

\* The request of an outcome that the document shows.
LEMMA SentDocument ==
  ASSUME TypeOK, Facts, document.phase = "outcome" PROVE document.sent \in Requests
<1>1. CASE OfAgent BY <1>1, AgentsDocument DEF Facts, DocumentIsTracked
<1>2. CASE ~OfAgent
  <2>1. document.sent > MaxAgentRequests /\ document.sent \in {0} \cup Requests
    BY <1>2, TheDocument DEF Facts, DocumentIsTracked, Documents
  <2>2. QED BY <2>1, ServerInjectionAssumption
<1>3. QED BY <1>1, <1>2

\* An agent's request is none of those that nobody has used.
LEMMA AgentsAreOld ==
  ASSUME TypeOK, NEW r \in AgentRequests
  PROVE  ~(r >= nextHuman) /\ nextHuman # r /\ r <= MaxAgentRequests
BY ServerInjectionAssumption DEF TypeOK, AgentRequests

\* A step that changes nothing that the invariant is about.
LEMMA KeptByIdling ==
  ASSUME TypeOK, Facts,
         UNCHANGED <<document, nextHuman, consent, disposed, receipts, executing,
                     pendingServerInjections, evaluation, starts, sends, heard>>
  PROVE  Facts'
BY DEF Facts, FreshAreUnsent, SubmittedIsConsented, RefusedIsUnsent, SentAsConsented,
       ApprovalIsConsent, DocumentIsTracked, OutcomesAreSettled, Unsent, Editing, OfAgent, TrulySettled,
       True

\* Consent is given and withdrawn for the agent's message that is edited.
ConsentOfTheEdited ==
  \A r \in Requests : consent'[r] # consent[r] =>
    Editing /\ OfAgent /\ r = document.agentRequestId

\* What is submitted or sent keeps its consent.
LEMMA ConsentKept ==
  ASSUME TypeOK, Facts, ConsentOfTheEdited, NEW r \in Requests, ~Unsent(r)
  PROVE  consent'[r] = consent[r]
BY DEF Facts, FreshAreUnsent, ConsentOfTheEdited

\* What the document may become by editing.
DocumentIsEdited ==
  \/ document'.phase = "none" /\ ~OfAgent'
  \/ Editing' /\ (OfAgent' => Editing /\ document'.agentRequestId = document.agentRequestId)
  \/ /\ document'.phase = document.phase /\ document'.agentRequestId = document.agentRequestId
     /\ document'.sent = document.sent /\ document'.outcome = document.outcome

\* A step that edits the document and gives or takes back consent.
LEMMA KeptByEditing ==
  ASSUME TypeOK, Facts, executing = 0, ConsentOfTheEdited, DocumentIsEdited, ApprovalIsConsent',
         UNCHANGED <<nextHuman, receipts, executing, pendingServerInjections, evaluation, starts,
                     sends, heard>>
  PROVE  Facts'
<1>1. \A r \in Requests : Unsent(r)' <=> Unsent(r) BY DEF Unsent
<1>2. FreshAreUnsent'
  <2>1. /\ \A r \in Requests : r >= nextHuman => Unsent(r)'
        /\ \A r \in AgentRequests : receipts[r].state \in {"absent", "prepared"} => Unsent(r)'
    BY <1>1, Ids DEF Facts, FreshAreUnsent
  <2>2. ASSUME Editing', OfAgent' PROVE Unsent(document.agentRequestId)'
    <3>1. Editing /\ OfAgent /\ document'.agentRequestId = document.agentRequestId
      BY <2>2 DEF DocumentIsEdited, Editing, OfAgent
    <3>2. QED
      <4>1. Unsent(document.agentRequestId) /\ document.agentRequestId \in Requests
        BY <3>1, AgentsDocument DEF Facts, FreshAreUnsent
      <4>2. QED BY <3>1, <4>1 DEF Unsent
  <2>3. QED BY <2>1, <2>2 DEF FreshAreUnsent
<1>3. SubmittedIsConsented'
  <2>1. \A r \in Requests : evaluation[r].state = "submitted" => ~Unsent(r)
    BY DEF Unsent, NoEvaluation
  <2>2. QED BY <2>1, ConsentKept DEF Facts, SubmittedIsConsented
<1>4. RefusedIsUnsent' BY DEF Facts, RefusedIsUnsent
<1>5. SentAsConsented'
  <2>1. \A r \in Requests : sends[r] # <<>> => ~Unsent(r) BY DEF Unsent
  <2>2. QED BY <2>1, ConsentKept DEF Facts, SentAsConsented
<1>6. DocumentIsTracked' BY DEF Facts, DocumentIsTracked, DocumentIsEdited, Editing, OfAgent
<1>7. OutcomesAreSettled'
  BY DEF Facts, OutcomesAreSettled, DocumentIsEdited, Editing, TrulySettled, True
<1>8. QED BY <1>2, <1>3, <1>4, <1>5, <1>6, <1>7 DEF Facts

\* A message is sent: an unused one whose consent is what is evaluated.
LEMMA KeptBySending ==
  ASSUME TypeOK, Facts, NEW r \in Requests, NEW content \in Content,
         Editing, Unsent(r), Send(r, content),
         \A q \in Requests : q # r => consent'[q] = consent[q],
         consent'[r] = content, executing' = 0,
         UNCHANGED <<receipts, starts, sends, heard>>,
         nextHuman' \in Nat, nextHuman' >= nextHuman, nextHuman' > r,
         IF OfAgent THEN document.agentRequestId = r /\ receipts[r].state = "pending"
         ELSE r > MaxAgentRequests
  PROVE  Facts'
<1>1. /\ document'.phase = "pending" /\ document'.sent = r
      /\ document'.agentRequestId = document.agentRequestId
  BY TheDocument DEF Send, Documents
<1>2. evaluation \in PageEvaluations BY DEF TypeOK, PageEvaluations
<1>3. /\ evaluation'[r] = [state |-> "submitted", content |-> content]
      /\ \A q \in Requests : q # r => evaluation'[q] = evaluation[q]
  BY <1>2 DEF Send, PageEvaluations
<1>4. \A q \in Requests : q # r /\ Unsent(q) => Unsent(q)' BY <1>3 DEF Unsent, Send
<1>5. FreshAreUnsent'
  <2>1. ASSUME NEW q \in Requests, q >= nextHuman' PROVE Unsent(q)'
    <3>1. q # r /\ q >= nextHuman BY <2>1, Ids DEF TypeOK
    <3>2. QED BY <3>1, <1>4 DEF Facts, FreshAreUnsent
  <2>2. ASSUME NEW q \in AgentRequests, receipts[q].state \in {"absent", "prepared"}
        PROVE  Unsent(q)'
    <3>1. q # r /\ q \in Requests
      BY <2>2, AgentsAreOld, Ids, ServerInjectionAssumption DEF AgentRequests
    <3>2. QED BY <2>2, <3>1, <1>4 DEF Facts, FreshAreUnsent
  <2>3. ~Editing' BY <1>1 DEF Editing
  <2>4. QED BY <2>1, <2>2, <2>3 DEF FreshAreUnsent
<1>6. SubmittedIsConsented' BY <1>3 DEF Facts, SubmittedIsConsented, Unsent
<1>7. RefusedIsUnsent' BY <1>3 DEF Facts, RefusedIsUnsent, Unsent
<1>8. SentAsConsented' BY DEF Facts, SentAsConsented, Unsent
<1>9. ApprovalIsConsent' BY <1>1 DEF ApprovalIsConsent
<1>10. DocumentIsTracked'
  <2>1. \A q \in AgentRequests : q \in pendingServerInjections' => receipts'[q].state = "pending"
    BY Ids, ServerInjectionAssumption DEF Facts, DocumentIsTracked, Send, AgentRequests
  <2>2. QED BY <1>1, <2>1 DEF DocumentIsTracked, OfAgent
<1>11. OutcomesAreSettled'
  <2>1. ASSUME NEW q \in AgentRequests, receipts[q].state = "complete"
        PROVE  TrulySettled(receipts[q].outcome, q)'
    <3>1. q # r /\ q \in Requests BY <2>1, Ids, ServerInjectionAssumption DEF AgentRequests
    <3>2. TrulySettled(receipts[q].outcome, q) BY <2>1 DEF Facts, OutcomesAreSettled
    <3>3. QED BY <1>3, <3>1, <3>2 DEF TrulySettled, True
  <2>2. QED BY <1>1, <2>1 DEF OutcomesAreSettled
<1>12. QED BY <1>5, <1>6, <1>7, <1>8, <1>9, <1>10, <1>11 DEF Facts

\* A message that cannot be sent: the outcome says so.
LEMMA KeptByFailing ==
  ASSUME TypeOK, Facts, NEW r \in Requests, Editing, Unsent(r),
         document' = [document EXCEPT !.phase = "outcome", !.sent = r, !.outcome = "bridge-error"],
         \A q \in Requests : q # r => consent'[q] = consent[q], executing' = 0,
         UNCHANGED <<pendingServerInjections, evaluation, starts, sends, heard>>,
         nextHuman' \in Nat, nextHuman' >= nextHuman, nextHuman' > r,
         IF OfAgent
         THEN /\ document.agentRequestId = r /\ r \in AgentRequests
              /\ receipts' = [receipts EXCEPT ![r] = [state |-> "complete", outcome |-> "bridge-error"]]
         ELSE r > MaxAgentRequests /\ receipts' = receipts
  PROVE  Facts'
<1>1. /\ document'.phase = "outcome" /\ document'.sent = r /\ document'.outcome = "bridge-error"
      /\ document'.agentRequestId = document.agentRequestId
  BY TheDocument DEF Documents
<1>2. \A q \in Requests : Unsent(q)' <=> Unsent(q) BY DEF Unsent
<1>3. receipts \in Receipts BY DEF TypeOK, Receipts
<1>4. /\ \A q \in AgentRequests : q # r => receipts'[q] = receipts[q]
      /\ OfAgent => receipts'[r] = [state |-> "complete", outcome |-> "bridge-error"]
      /\ r \in AgentRequests => OfAgent
  BY <1>3, ServerInjectionAssumption DEF Receipts, AgentRequests
<1>5. FreshAreUnsent'
  <2>1. ASSUME NEW q \in Requests, q >= nextHuman' PROVE Unsent(q)'
    <3>1. q >= nextHuman BY <2>1, Ids DEF TypeOK
    <3>2. QED BY <3>1, <1>2 DEF Facts, FreshAreUnsent
  <2>2. ASSUME NEW q \in AgentRequests, receipts'[q].state \in {"absent", "prepared"}
        PROVE  Unsent(q)'
    BY <2>2, <1>2, <1>4, Ids DEF Facts, FreshAreUnsent
  <2>3. ~Editing' BY <1>1 DEF Editing
  <2>4. QED BY <2>1, <2>2, <2>3 DEF FreshAreUnsent
<1>6. SubmittedIsConsented' BY DEF Facts, SubmittedIsConsented, Unsent, NoEvaluation
<1>7. RefusedIsUnsent' BY DEF Facts, RefusedIsUnsent
<1>8. SentAsConsented' BY DEF Facts, SentAsConsented, Unsent
<1>9. ApprovalIsConsent' BY <1>1 DEF ApprovalIsConsent
<1>10. DocumentIsTracked'
  <2>1. ASSUME NEW q \in AgentRequests, q \in pendingServerInjections
        PROVE  receipts'[q].state = "pending"
    <3>1. q # r BY <2>1 DEF Unsent
    <3>2. QED BY <2>1, <3>1, <1>4 DEF Facts, DocumentIsTracked
  <2>2. QED BY <1>1, <1>4, <2>1 DEF DocumentIsTracked, OfAgent
<1>11. OutcomesAreSettled'
  <2>1. TrulySettled("bridge-error", r)' BY DEF TrulySettled, True, Unsent, NoEvaluation
  <2>2. ASSUME NEW q \in AgentRequests, receipts'[q].state = "complete"
        PROVE  TrulySettled(receipts[q].outcome, q)'
    <3>1. CASE q = r BY <1>4, <2>1, <3>1
    <3>2. CASE q # r
      <4>1. receipts'[q] = receipts[q] /\ TrulySettled(receipts[q].outcome, q)
        BY <1>4, <2>2, <3>2 DEF Facts, OutcomesAreSettled
      <4>2. QED BY <4>1 DEF TrulySettled, True
    <3>3. QED BY <3>1, <3>2
  <2>3. QED BY <1>1, <2>1, <2>2 DEF OutcomesAreSettled
<1>12. QED BY <1>5, <1>6, <1>7, <1>8, <1>9, <1>10, <1>11 DEF Facts

\* Requests end, of which the outcome is true.
LEMMA KeptByFinishing ==
  ASSUME TypeOK, Facts, executing = 0, NEW rs, NEW outcome \in Outcomes, NEW gone \in BOOLEAN,
         Finished(rs, outcome, gone),
         \A r \in rs \cap pendingServerInjections : TrulySettled(outcome, r)',
         \A r \in Requests : evaluation'[r] \in {evaluation[r], NoEvaluation},
         ConsentOfTheEdited, disposed' \/ UNCHANGED <<consent, disposed>>,
         UNCHANGED <<nextHuman, executing, starts, sends, heard>>
  PROVE  Facts'
<1> DEFINE ending == rs \cap pendingServerInjections
<1>0. /\ document \in Documents /\ pendingServerInjections \subseteq Requests
      /\ receipts \in Receipts
  BY TheDocument DEF TypeOK, Receipts
<1>1. /\ pendingServerInjections' = pendingServerInjections \ ending
      /\ \A q \in AgentRequests :
           receipts'[q] = IF q \in ending THEN [state |-> "complete", outcome |-> outcome] ELSE receipts[q]
  BY DEF Finished
<1>2. /\ document'.agentRequestId = document.agentRequestId /\ document'.sent = document.sent
      /\ \/ document' = document /\ (document.phase = "pending" => document.sent \notin ending \/ gone)
         \/ /\ document.phase = "pending" /\ document.sent \in ending
            /\ document'.phase = "outcome" /\ document'.outcome = outcome
  BY <1>0 DEF Finished, Documents
<1>3. \A q \in Requests : Unsent(q) => Unsent(q)' BY <1>1 DEF Unsent
<1>4. Editing' => Editing /\ document' = document BY <1>2 DEF Editing
<1>5. \A q \in AgentRequests : q \in ending => receipts[q].state = "pending"
  BY DEF Facts, DocumentIsTracked
<1>6. ASSUME NEW q, NEW o, TrulySettled(o, q), q \in Requests PROVE TrulySettled(o, q)'
  BY <1>6 DEF TrulySettled, True, NoEvaluation
<1> HIDE DEF ending
<1>7. FreshAreUnsent'
  <2>1. ASSUME NEW q \in Requests, q >= nextHuman' PROVE Unsent(q)'
    BY <2>1, <1>3 DEF Facts, FreshAreUnsent
  <2>2. ASSUME NEW q \in AgentRequests, receipts'[q].state \in {"absent", "prepared"}
        PROVE  Unsent(q)'
    <3>1. receipts[q].state \in {"absent", "prepared"} /\ q \in Requests BY <2>2, <1>1, Ids
    <3>2. QED BY <3>1, <1>3 DEF Facts, FreshAreUnsent
  <2>3. ASSUME Editing', OfAgent' PROVE Unsent(document.agentRequestId)'
    <3>1. Editing /\ OfAgent /\ document' = document BY <2>3, <1>4 DEF OfAgent
    <3>2. Unsent(document.agentRequestId) /\ document.agentRequestId \in Requests
      BY <3>1, AgentsDocument DEF Facts, FreshAreUnsent
    <3>3. QED BY <1>1, <3>1, <3>2 DEF Unsent
  <2>4. QED BY <2>1, <2>2, <2>3 DEF FreshAreUnsent
<1>8. SubmittedIsConsented'
  <2>1. ASSUME NEW q \in Requests, evaluation'[q].state = "submitted"
        PROVE  evaluation'[q] = evaluation[q] /\ evaluation[q].state = "submitted" /\ ~Unsent(q)
    BY <2>1 DEF NoEvaluation, Unsent
  <2>2. QED BY <2>1, ConsentKept DEF Facts, SubmittedIsConsented
<1>9. RefusedIsUnsent' BY DEF Facts, RefusedIsUnsent, NoEvaluation
<1>10. SentAsConsented'
  <2>1. \A q \in Requests : sends[q] # <<>> => ~Unsent(q) BY DEF Unsent
  <2>2. QED BY <2>1, ConsentKept DEF Facts, SentAsConsented
<1>11. ApprovalIsConsent' BY <1>2 DEF Facts, ApprovalIsConsent, OfAgent
<1>12. DocumentIsTracked'
  <2>1. \A q \in AgentRequests : q \in pendingServerInjections' => receipts'[q].state = "pending"
    BY <1>1 DEF Facts, DocumentIsTracked
  <2>2. document'.phase = "none" => ~OfAgent' BY <1>2 DEF Facts, DocumentIsTracked, OfAgent
  <2>3. ASSUME OfAgent', document'.phase \in {"pending", "outcome"}
        PROVE  /\ document'.sent = document'.agentRequestId
               /\ document'.phase = "pending" => receipts'[document'.sent].state \in {"pending", "complete"}
               /\ document'.phase = "outcome" =>
                    receipts'[document'.sent] = [state |-> "complete", outcome |-> document'.outcome]
    <3>1. OfAgent /\ document.phase \in {"pending", "outcome"} BY <2>3, <1>2 DEF OfAgent
    <3>2. /\ document.sent = document.agentRequestId /\ document.sent \in AgentRequests
          /\ document.phase = "pending" => receipts[document.sent].state \in {"pending", "complete"}
          /\ document.phase = "outcome" =>
               receipts[document.sent] = [state |-> "complete", outcome |-> document.outcome]
      BY <3>1, AgentsDocument DEF Facts, DocumentIsTracked
    <3>3. QED BY <1>1, <1>2, <1>5, <3>2
  <2>4. document'.phase \in {"pending", "outcome"} /\ ~OfAgent' =>
          document'.sent > MaxAgentRequests /\ document'.sent < nextHuman'
    BY <1>2 DEF Facts, DocumentIsTracked, OfAgent
  <2>5. QED BY <2>1, <2>2, <2>3, <2>4 DEF DocumentIsTracked
<1>13. OutcomesAreSettled'
  <2>1. ASSUME NEW q \in AgentRequests, receipts'[q].state = "complete"
        PROVE  TrulySettled(receipts[q].outcome, q)'
    <3>1. CASE q \in ending BY <1>1, <3>1 DEF ending
    <3>2. CASE q \notin ending
      <4>1. receipts'[q] = receipts[q] /\ TrulySettled(receipts[q].outcome, q) /\ q \in Requests
        BY <1>1, <2>1, <3>2, Ids DEF Facts, OutcomesAreSettled
      <4>2. QED BY <1>6, <4>1
    <3>3. QED BY <3>1, <3>2
  <2>2. ASSUME document'.phase = "outcome" PROVE TrulySettled(document.outcome, document.sent)'
    <3>1. CASE document' = document
      <4>1. document.sent \in Requests BY <2>2, <3>1, SentDocument
      <4>2. TrulySettled(document.outcome, document.sent)
        BY <2>2, <3>1 DEF Facts, OutcomesAreSettled
      <4>3. QED BY <1>6, <3>1, <4>1, <4>2
    <3>2. CASE document' # document BY <1>2, <3>2 DEF ending
    <3>3. QED BY <3>1, <3>2
  <2>3. QED BY <2>1, <2>2 DEF OutcomesAreSettled
<1>14. QED BY <1>7, <1>8, <1>9, <1>10, <1>11, <1>12, <1>13 DEF Facts
-----------------------------------------------------------------------------
(* Every step keeps them                                                   *)

\* Withdrawing consent, or leaving it.
LEMMA Withdrawing ==
  ASSUME TypeOK, consent' \in {consent, Withdrawn} PROVE ConsentOfTheEdited
BY Ids DEF TypeOK, Withdrawn, ConsentOfTheEdited, Editing, OfAgent

\* Editing again takes the approval back.
LEMMA ReeditedDocument ==
  ASSUME TypeOK
  PROVE  /\ Reedited(document).phase = "edit"
         /\ Reedited(document).agentRequestId = document.agentRequestId
         /\ Reedited(document).sent = document.sent
         /\ Reedited(document).outcome = document.outcome
BY TheDocument DEF Reedited, Documents

\* A document that is edited again, or as it was.
LEMMA KeptByReediting ==
  ASSUME TypeOK, Facts, executing = 0, consent' \in {consent, Withdrawn},
         \/ document' = Reedited(document) /\ Editing
         \/ document' = NoDocument
         \/ document' = document /\ UNCHANGED <<consent, disposed>>
         \/ document' = document /\ document.approval = None
         \/ document' = document /\ ~OfAgent
         \/ document' = [document EXCEPT !.approval = None],
         UNCHANGED <<nextHuman, receipts, executing, pendingServerInjections, evaluation, starts,
                     sends, heard>>
  PROVE  Facts'
<1>1. ConsentOfTheEdited BY Withdrawing
<1>2. DocumentIsEdited /\ ApprovalIsConsent'
  <2>1. CASE document' = Reedited(document) /\ Editing
    BY <2>1, ReeditedDocument DEF DocumentIsEdited, ApprovalIsConsent, Editing, OfAgent
  <2>2. CASE document' = NoDocument
    BY <2>2 DEF DocumentIsEdited, ApprovalIsConsent, NoDocument, OfAgent
  <2>3. CASE document' = document /\ UNCHANGED <<consent, disposed>>
    BY <2>3 DEF Facts, DocumentIsEdited, ApprovalIsConsent, OfAgent
  <2>4. CASE document' = document /\ (document.approval = None \/ ~OfAgent)
    BY <2>4 DEF DocumentIsEdited, ApprovalIsConsent, OfAgent
  <2>5. CASE document' = [document EXCEPT !.approval = None]
    <3>1. /\ document'.phase = document.phase /\ document'.agentRequestId = document.agentRequestId
          /\ document'.sent = document.sent /\ document'.outcome = document.outcome
          /\ document'.approval = None
      BY <2>5, TheDocument DEF Documents
    <3>2. QED BY <3>1 DEF DocumentIsEdited, ApprovalIsConsent
  <2>6. QED BY <2>1, <2>2, <2>3, <2>4, <2>5
<1>3. QED BY <1>1, <1>2, KeptByEditing

\* What a publication makes of the document.
LEMMA PublishedDocument ==
  ASSUME TypeOK
  PROVE  Published(document) = document \/ (Published(document) = Reedited(document) /\ Editing)
BY DEF Published, Editing

\* What a publication makes of it when the approval is taken back.
LEMMA UnapprovedDocument ==
  ASSUME TypeOK
  PROVE  \/ Unapproved = Reedited(document) /\ Editing
         \/ Unapproved = document /\ ~OfAgent
         \/ Unapproved = [document EXCEPT !.approval = None]
<1>1. CASE ~OfAgent BY <1>1, PublishedDocument DEF Unapproved, OfAgent
<1>2. CASE OfAgent
  <2> DEFINE d == [document EXCEPT !.approval = None]
  <2>1. Reedited(d) = Reedited(document) /\ d.phase = document.phase
    BY TheDocument DEF Reedited, Documents
  <2>2. Unapproved = Published(d) BY <1>2 DEF Unapproved, OfAgent
  <2>3. Published(d) = d \/ (Published(d) = Reedited(d) /\ d.phase = "review") BY DEF Published
  <2>4. QED BY <2>1, <2>2, <2>3 DEF Editing
<1>3. QED BY <1>1, <1>2

\* A person's steps.
LEMMA PersonKeeps ==
  ASSUME TypeOK, Facts, Person PROVE Facts'
<1>1. CASE beginServerInjection
  <2>1. PICK s : document' = [NoDocument EXCEPT !.phase = "edit", !.site = s]
    BY <1>1 DEF beginServerInjection
  <2>2. document'.phase = "edit" /\ ~OfAgent' BY <2>1 DEF NoDocument, OfAgent
  <2>3. DocumentIsEdited /\ ApprovalIsConsent'
    BY <2>2 DEF DocumentIsEdited, ApprovalIsConsent, Editing
  <2>4. /\ executing = 0 /\ UNCHANGED consent
        /\ UNCHANGED <<nextHuman, receipts, executing, pendingServerInjections, evaluation, starts,
                       sends, heard>>
    BY <1>1 DEF beginServerInjection, Turn, agentVars, clientVars, pageVars
  <2>5. QED BY <2>3, <2>4, Withdrawing, KeptByEditing
<1>2. CASE updateServerInjectionDraft
  <2>1. PICK v \in 0 .. MaxVersions : document' = [Reedited(document) EXCEPT !.version = v]
    BY <1>2 DEF updateServerInjectionDraft
  <2>2. Reedited(document) \in Documents BY TheDocument
  <2>3. document'.phase = "edit" /\ document'.agentRequestId = document.agentRequestId
    BY <2>1, <2>2, ReeditedDocument DEF Documents
  <2>4. document.phase = "edit" BY <1>2 DEF updateServerInjectionDraft
  <2>5. DocumentIsEdited /\ ApprovalIsConsent'
    BY <2>3, <2>4 DEF DocumentIsEdited, ApprovalIsConsent, Editing
  <2>6. /\ executing = 0 /\ UNCHANGED consent
        /\ UNCHANGED <<nextHuman, receipts, executing, pendingServerInjections, evaluation, starts,
                       sends, heard>>
    BY <1>2 DEF updateServerInjectionDraft, Turn, agentVars, clientVars, pageVars
  <2>7. QED BY <2>5, <2>6, Withdrawing, KeptByEditing
<1>3. CASE reviewServerInjection
  <2>1. document' = [document EXCEPT !.phase = "review", !.reviewed = FingerprintOf(document),
                                     !.approval = None]
        /\ document.phase = "edit"
    BY <1>3 DEF reviewServerInjection
  <2>2. /\ document'.phase = "review" /\ document'.agentRequestId = document.agentRequestId
        /\ document'.approval = None
    BY <2>1, TheDocument DEF Documents
  <2>3. DocumentIsEdited /\ ApprovalIsConsent'
    BY <2>1, <2>2 DEF DocumentIsEdited, ApprovalIsConsent, Editing
  <2>4. /\ executing = 0 /\ UNCHANGED consent
        /\ UNCHANGED <<nextHuman, receipts, executing, pendingServerInjections, evaluation, starts,
                       sends, heard>>
    BY <1>3 DEF reviewServerInjection, Turn, agentVars, clientVars, pageVars
  <2>5. QED BY <2>3, <2>4, Withdrawing, KeptByEditing
<1>4. CASE editServerInjection
  BY <1>4, KeptByReediting DEF editServerInjection, Turn, Editing, agentVars, clientVars, pageVars
<1>5. CASE approveAgentServerInjection
  <2>1. /\ executing = 0 /\ Editing /\ document.phase = "review" /\ OfAgent
        /\ UNCHANGED <<nextHuman, receipts, executing, pendingServerInjections, evaluation, starts,
                       sends, heard>>
    BY <1>5 DEF approveAgentServerInjection, Turn, Editing, OfAgent, agentVars, clientVars, pageVars
  <2>2. CASE serverInjectionReady(document) /\ FingerprintOf(document) = document.reviewed
    <3>1. /\ document' = [document EXCEPT !.approval = document.reviewed]
          /\ consent' = [consent EXCEPT ![document.agentRequestId] = ContentOf(document)]
      BY <1>5, <2>2 DEF approveAgentServerInjection
    <3>2. document.reviewed.content = ContentOf(document) BY <2>2 DEF FingerprintOf
    <3>3. /\ document'.phase = "review" /\ document'.agentRequestId = document.agentRequestId
          /\ document'.approval.content = ContentOf(document)
      BY <2>1, <3>1, <3>2, TheDocument DEF Documents
    <3>4. consent \in Consents /\ document.agentRequestId \in Requests
      BY <2>1, ConsentTypes, AgentsDocument
    <3>5. /\ consent'[document.agentRequestId] = ContentOf(document)
          /\ \A r \in Requests : r # document.agentRequestId => consent'[r] = consent[r]
      BY <3>1, <3>4 DEF Consents
    <3>6. ConsentOfTheEdited BY <2>1, <3>5 DEF ConsentOfTheEdited
    <3>7. DocumentIsEdited /\ ApprovalIsConsent'
      BY <2>1, <3>3, <3>5 DEF DocumentIsEdited, ApprovalIsConsent, Editing
    <3>8. QED BY <2>1, <3>6, <3>7, KeptByEditing
  <2>3. CASE ~(serverInjectionReady(document) /\ FingerprintOf(document) = document.reviewed)
    <3>1. document' = Reedited(document) /\ consent' = Withdrawn
      BY <1>5, <2>3 DEF approveAgentServerInjection
    <3>2. QED BY <2>1, <3>1, KeptByReediting
  <2>4. QED BY <2>2, <2>3
<1>6. CASE executeServerInjection
  <2>1. /\ executing = 0 /\ executing' = 0 /\ Editing /\ ~OfAgent /\ nextHuman \in Requests
        /\ UNCHANGED <<receipts, executing, starts, sends, heard>>
    BY <1>6 DEF executeServerInjection, Turn, Editing, OfAgent, agentVars, pageVars
  <2>2. CASE serverInjectionReady(document) /\ FingerprintOf(document) = document.reviewed
    <3>1. /\ nextHuman' = nextHuman + 1
          /\ consent' = [consent EXCEPT ![nextHuman] = ContentOf(document)]
          /\ \/ Send(nextHuman, document.reviewed.content)
             \/ /\ document' = [document EXCEPT !.phase = "outcome", !.sent = nextHuman,
                                                !.outcome = "bridge-error"]
                /\ UNCHANGED <<pendingServerInjections, evaluation>>
      BY <1>6, <2>2 DEF executeServerInjection
    <3>2. nextHuman' \in Nat /\ nextHuman' >= nextHuman /\ nextHuman' > nextHuman
          /\ nextHuman > MaxAgentRequests
      <4>1. nextHuman \in MaxAgentRequests + 1 .. MaxAgentRequests + MaxHumanRequests + 1
        BY DEF TypeOK
      <4>2. QED BY <3>1, <4>1, ServerInjectionAssumption
    <3>3. Unsent(nextHuman)
      <4>1. nextHuman >= nextHuman BY <2>1, Ids
      <4>2. \A r \in Requests : r >= nextHuman => Unsent(r) BY DEF Facts, FreshAreUnsent
      <4>3. QED BY <2>1, <4>1, <4>2
    <3>4. document.reviewed.content = ContentOf(document) BY <2>2 DEF FingerprintOf
    <3>5. ContentOf(document) \in Content BY TheDocument
    <3>6. /\ consent'[nextHuman] = ContentOf(document)
          /\ \A q \in Requests : q # nextHuman => consent'[q] = consent[q]
      BY <2>1, <3>1, ConsentTypes DEF Consents
    <3>7. CASE Send(nextHuman, ContentOf(document))
      BY <2>1, <3>2, <3>3, <3>5, <3>6, <3>7, KeptBySending
    <3>8. CASE /\ document' = [document EXCEPT !.phase = "outcome", !.sent = nextHuman,
                                               !.outcome = "bridge-error"]
               /\ UNCHANGED <<pendingServerInjections, evaluation>>
      BY <2>1, <3>2, <3>3, <3>6, <3>8, KeptByFailing
    <3>9. QED BY <3>1, <3>4, <3>7, <3>8
  <2>3. CASE ~(serverInjectionReady(document) /\ FingerprintOf(document) = document.reviewed)
    <3>1. document' = Reedited(document) /\ UNCHANGED <<nextHuman, consent, clientVars>>
      BY <1>6, <2>3 DEF executeServerInjection
    <3>2. QED BY <2>1, <3>1, KeptByReediting DEF clientVars
  <2>4. QED BY <2>2, <2>3
<1>7. CASE confirmDiscardServerInjection
  BY <1>7, KeptByReediting DEF confirmDiscardServerInjection, Turn, agentVars, clientVars, pageVars
<1>8. CASE prepareServerInjectionRepeat
  <2>1. document' = [Reedited(document) EXCEPT !.agentRequestId = Human, !.prepared = None,
                                               !.sent = 0, !.outcome = "none"]
    BY <1>8 DEF prepareServerInjectionRepeat
  <2>2. document'.phase = "edit" /\ ~OfAgent'
    BY <2>1, TheDocument, ReeditedDocument DEF Documents, OfAgent
  <2>3. DocumentIsEdited /\ ApprovalIsConsent'
    BY <2>2 DEF DocumentIsEdited, ApprovalIsConsent, Editing
  <2>4. /\ executing = 0 /\ UNCHANGED consent
        /\ UNCHANGED <<nextHuman, receipts, executing, pendingServerInjections, evaluation, starts,
                       sends, heard>>
    BY <1>8 DEF prepareServerInjectionRepeat, Turn, agentVars, clientVars, pageVars
  <2>5. QED BY <2>3, <2>4, Withdrawing, KeptByEditing
<1>9. CASE Hide
  BY <1>9, UnapprovedDocument, KeptByReediting DEF Hide, Turn, agentVars, clientVars, pageVars
<1>10. CASE Show BY <1>10, KeptByIdling DEF Show, documentVars, agentVars, clientVars, pageVars
<1>11. CASE dispose
  <2>1. /\ executing = 0 /\ Finished(pendingServerInjections, "unknown", TRUE) /\ disposed'
        /\ consent' = Withdrawn
        /\ UNCHANGED <<nextHuman, executing, evaluation, starts, sends, heard>>
    BY <1>11 DEF dispose, Turn, pageVars
  <2>2. \A r : TrulySettled("unknown", r)' BY DEF TrulySettled, True
  <2>3. "unknown" \in Outcomes BY DEF Outcomes
  <2>4. QED BY <2>1, <2>2, <2>3, Withdrawing, KeptByFinishing
<1>12. QED BY <1>1, <1>2, <1>3, <1>4, <1>5, <1>6, <1>7, <1>8, <1>9, <1>10, <1>11 DEF Person

\* Steps of the agent's service.
LEMMA AgentKeeps ==
  ASSUME TypeOK, Facts, Agent PROVE Facts'
<1>0. receipts \in Receipts BY DEF TypeOK, Receipts
<1>1. CASE AgentConnects
  BY <1>1, KeptByIdling DEF AgentConnects, documentVars, panelVars, clientVars, pageVars
<1>2. CASE release
  <2>1. /\ executing = 0
        /\ UNCHANGED <<nextHuman, disposed, receipts, executing, pendingServerInjections, evaluation,
                       starts, sends, heard>>
    BY <1>2 DEF release, Turn, panelVars, clientVars, pageVars
  <2>2. \/ document' \in {Unapproved, [document EXCEPT !.approval = None]} /\ consent' = Withdrawn
        \/ UNCHANGED <<document, consent>>
    BY <1>2 DEF release
  <2>3. QED BY <2>1, <2>2, UnapprovedDocument, KeptByReediting
<1>3. ASSUME NEW r \in AgentRequests, prepareAgentServerInjection(r) PROVE Facts'
  <2> DEFINE doc == [NoDocument EXCEPT !.phase = "edit", !.agentRequestId = r, !.site = currentSite]
  <2>1. document' = [doc EXCEPT !.prepared = FingerprintOf(doc)]
    BY <1>3 DEF prepareAgentServerInjection
  <2>2. document'.phase = "edit" /\ document'.agentRequestId = r BY <2>1 DEF NoDocument
  <2>3. /\ executing = 0 /\ receipts[r].state = "absent"
        /\ receipts' = [receipts EXCEPT ![r].state = "prepared"]
        /\ UNCHANGED <<nextHuman, consent, executing, pendingServerInjections, evaluation, starts,
                       sends, heard>>
    BY <1>3 DEF prepareAgentServerInjection, Turn, clientVars, pageVars
  <2>4. /\ receipts'[r].state = "prepared"
        /\ \A q \in AgentRequests : q # r => receipts'[q] = receipts[q]
    BY <1>0, <2>3 DEF Receipts
  <2>5. Unsent(r) /\ r \in Requests BY <2>3, Ids DEF Facts, FreshAreUnsent
  <2>6. \A q \in Requests : Unsent(q) <=> Unsent(q)' BY <2>3 DEF Unsent
  <2>7. FreshAreUnsent'
    <3>1. \A q \in Requests : q >= nextHuman' => Unsent(q)'
      BY <2>3, <2>6 DEF Facts, FreshAreUnsent
    <3>2. \A q \in AgentRequests : receipts'[q].state \in {"absent", "prepared"} => Unsent(q)'
      BY <2>4, <2>5, <2>6, Ids DEF Facts, FreshAreUnsent
    <3>3. Unsent(r)' BY <2>5, <2>6
    <3>4. QED BY <2>2, <2>3, <3>1, <3>2, <3>3 DEF FreshAreUnsent, Unsent
  <2>8. SubmittedIsConsented' /\ RefusedIsUnsent' /\ SentAsConsented'
    BY <2>3 DEF Facts, SubmittedIsConsented, RefusedIsUnsent, SentAsConsented
  <2>9. ApprovalIsConsent' BY <2>2 DEF ApprovalIsConsent
  <2>10. DocumentIsTracked'
    <3>1. r \notin pendingServerInjections BY <2>5 DEF Unsent
    <3>2. QED BY <2>2, <2>3, <2>4, <3>1 DEF Facts, DocumentIsTracked
  <2>11. OutcomesAreSettled'
    BY <2>2, <2>3, <2>4 DEF Facts, OutcomesAreSettled, TrulySettled, True
  <2>12. QED BY <2>7, <2>8, <2>9, <2>10, <2>11 DEF Facts
<1>4. ASSUME NEW r \in AgentRequests, executeAgentRequest(r) PROVE Facts'
  <2>1. /\ executing = 0 /\ ~disposed /\ receipts[r].state = "prepared"
        /\ document.agentRequestId = r /\ receipts' = [receipts EXCEPT ![r].state = "pending"]
        /\ executing' = r
        /\ UNCHANGED <<document, nextHuman, consent, disposed, pendingServerInjections, evaluation,
                       starts, sends, heard>>
    BY <1>4 DEF executeAgentRequest, Turn, documentVars, panelVars, clientVars, pageVars
  <2>2. /\ receipts'[r].state = "pending"
        /\ \A q \in AgentRequests : q # r => receipts'[q] = receipts[q]
    BY <1>0, <2>1 DEF Receipts
  <2>3. OfAgent BY <2>1, Ids DEF OfAgent
  <2>4. Editing
    <3>1. document.phase \in {"none", "edit", "review", "pending", "outcome"}
      BY TheDocument DEF Documents
    <3>2. document.phase \notin {"none", "pending", "outcome"}
      BY <2>1, <2>3 DEF Facts, DocumentIsTracked
    <3>3. QED BY <3>1, <3>2 DEF Editing
  <2>5. FreshAreUnsent'
    BY <2>1, <2>2, <2>3, <2>4 DEF Facts, FreshAreUnsent, Unsent, Editing, OfAgent
  <2>6. SubmittedIsConsented' /\ RefusedIsUnsent' /\ SentAsConsented' /\ ApprovalIsConsent'
    BY <2>1 DEF Facts, SubmittedIsConsented, RefusedIsUnsent, SentAsConsented, ApprovalIsConsent,
                OfAgent
  <2>7. DocumentIsTracked' BY <2>1, <2>2, <2>4 DEF Facts, DocumentIsTracked, Editing, OfAgent
  <2>8. OutcomesAreSettled' BY <2>1, <2>2 DEF Facts, OutcomesAreSettled, TrulySettled, True
  <2>9. QED BY <2>5, <2>6, <2>7, <2>8 DEF Facts
<1>5. ASSUME NEW r \in AgentRequests, abortServerInjection(r) PROVE Facts'
  <2>1. /\ executing = 0 /\ Editing /\ document.agentRequestId = r /\ document' = NoDocument
        /\ consent' = Withdrawn /\ receipts' = [receipts EXCEPT ![r].state = "aborted"]
        /\ UNCHANGED <<nextHuman, executing, pendingServerInjections, evaluation, starts, sends, heard>>
    BY <1>5 DEF abortServerInjection, Turn, Editing, clientVars, pageVars
  <2>2. /\ receipts'[r].state = "aborted"
        /\ \A q \in AgentRequests : q # r => receipts'[q] = receipts[q]
    BY <1>0, <2>1 DEF Receipts
  <2>3. Unsent(r) BY <2>1, Ids DEF Facts, FreshAreUnsent, OfAgent
  <2>4. document'.phase = "none" /\ document'.agentRequestId = Human BY <2>1 DEF NoDocument
  <2>5. ConsentOfTheEdited BY <2>1, Withdrawing
  <2>6. FreshAreUnsent'
    <3>1. \A q \in AgentRequests : receipts'[q].state \in {"absent", "prepared"} => Unsent(q)
      BY <2>2 DEF Facts, FreshAreUnsent
    <3>2. QED BY <2>1, <2>4, <3>1 DEF Facts, FreshAreUnsent, Unsent, Editing
  <2>7. SubmittedIsConsented'
    <3>1. \A q \in Requests : evaluation[q].state = "submitted" => ~Unsent(q)
      BY DEF Unsent, NoEvaluation
    <3>2. QED BY <2>1, <2>5, <3>1, ConsentKept DEF Facts, SubmittedIsConsented
  <2>8. SentAsConsented'
    <3>1. \A q \in Requests : sends[q] # <<>> => ~Unsent(q) BY DEF Unsent
    <3>2. QED BY <2>1, <2>5, <3>1, ConsentKept DEF Facts, SentAsConsented
  <2>9. RefusedIsUnsent' /\ ApprovalIsConsent'
    BY <2>1, <2>4 DEF Facts, RefusedIsUnsent, ApprovalIsConsent
  <2>10. DocumentIsTracked'
    <3>1. r \notin pendingServerInjections BY <2>3 DEF Unsent
    <3>2. QED BY <2>1, <2>2, <2>4, <3>1 DEF Facts, DocumentIsTracked, OfAgent
  <2>11. OutcomesAreSettled'
    BY <2>1, <2>2, <2>4 DEF Facts, OutcomesAreSettled, TrulySettled, True
  <2>12. QED BY <2>6, <2>7, <2>8, <2>9, <2>10, <2>11 DEF Facts
<1>6. QED BY <1>1, <1>2, <1>3, <1>4, <1>5 DEF Agent

\* A step that uses no request that is fresh.
LEMMA StillFresh ==
  ASSUME TypeOK, Facts, \A r \in Requests : Unsent(r) => Unsent(r)',
         UNCHANGED <<document, nextHuman, disposed, receipts, executing>>
  PROVE  FreshAreUnsent'
<1>1. Editing /\ OfAgent => Unsent(document.agentRequestId)'
  BY AgentsDocument DEF Facts, FreshAreUnsent
<1>2. \A r \in Requests : r >= nextHuman => Unsent(r)' BY DEF Facts, FreshAreUnsent
<1>3. \A r \in AgentRequests : receipts[r].state \in {"absent", "prepared"} => Unsent(r)'
  BY Ids DEF Facts, FreshAreUnsent
<1>4. executing # 0 => ~disposed /\ Editing /\ document.agentRequestId = executing
                         /\ receipts[executing].state = "pending"
  BY DEF Facts, FreshAreUnsent
<1>5. QED BY <1>1, <1>2, <1>3, <1>4 DEF FreshAreUnsent, Editing, OfAgent, Unsent

\* What the panel can learn of an evaluation that sends nothing.
Refusals(state) == state \in {"unavailable", "exception", "unsupported", "stale-target", "started"}

\* An evaluation sends nothing, or once what was agreed to.
LEMMA EvaluationEffects ==
  ASSUME TypeOK, Facts, NEW r \in Requests, pageEvaluates(r)
  PROVE  /\ \A q \in Requests : q # r => evaluation'[q] = evaluation[q] /\ sends'[q] = sends[q]
         /\ starts \subseteq starts' /\ starts' \subseteq starts \cup {r}
         /\ \/ Refusals(evaluation'[r].state) /\ sends'[r] = <<>>
            \/ /\ evaluation'[r].state \in {"started", "send-threw", "exception"}
               /\ sends'[r] \in {<<>>, <<consent[r]>>}
<1>1. evaluation \in PageEvaluations /\ sends \in [Requests -> Seq(Content)] /\ starts \subseteq Requests
  BY DEF TypeOK, PageEvaluations
<1>2. r \notin starts /\ sends[r] = <<>> /\ consent[r] \in Content /\ evaluation[r].content = consent[r]
  BY DEF pageEvaluates, Facts, SubmittedIsConsented
<1>3. CASE \E state \in {"unavailable", "exception"} :
             evaluation' = [evaluation EXCEPT ![r].state = state] /\ UNCHANGED <<starts, sends>>
  BY <1>1, <1>2, <1>3 DEF PageEvaluations, Refusals
<1>4. CASE \E result \in submit(r, consent[r]), valid \in BOOLEAN :
             /\ evaluation' = [evaluation EXCEPT ![r].state = IF valid THEN result.state ELSE "exception"]
             /\ starts' = result.starts /\ sends' = result.sends
  <2>1. PICK result \in submit(r, consent[r]), valid \in BOOLEAN :
             /\ evaluation' = [evaluation EXCEPT ![r].state = IF valid THEN result.state ELSE "exception"]
             /\ starts' = result.starts /\ sends' = result.sends
    BY <1>4
  <2>2. /\ evaluation'[r].state \in {result.state, "exception"}
        /\ \A q \in Requests : q # r => evaluation'[q] = evaluation[q]
    BY <1>1, <2>1 DEF PageEvaluations
  <2>3. /\ result.state \in {"started", "unsupported", "stale-target", "send-threw"}
        /\ \/ result.starts = starts /\ result.sends = sends
           \/ /\ r \notin starts /\ result.starts = starts \cup {r}
              /\ result.state \in {"started", "send-threw"}
              /\ result.sends \in {sends, [sends EXCEPT ![r] = Append(sends[r], consent[r])]}
    BY <1>2, SubmitEffects
  <2>4. Append(sends[r], consent[r]) = <<consent[r]>> BY <1>2
  <2>5. QED BY <1>1, <1>2, <2>1, <2>2, <2>3, <2>4 DEF Refusals
<1>5. QED BY <1>2, <1>3, <1>4 DEF pageEvaluates

\* A step of the page, which sends what is submitted and what the listener hears.
LEMMA PageKeeps ==
  ASSUME TypeOK, Facts, Page PROVE Facts'
<1>0. evaluation \in PageEvaluations /\ sends \in [Requests -> Seq(Content)] /\ starts \subseteq Requests
  BY DEF TypeOK, PageEvaluations
<1>1. CASE PageReloads
  <2>1. /\ starts' = {}
        /\ UNCHANGED <<document, nextHuman, consent, disposed, receipts, executing,
                       pendingServerInjections, sends, heard>>
    BY <1>1 DEF PageReloads, documentVars, panelVars, agentVars
  <2>2. PICK lost \in SUBSET {r \in Requests : evaluation[r].state = "submitted"} :
          evaluation' = [r \in Requests |-> IF r \in lost
                           THEN [evaluation[r] EXCEPT !.state = "exception"] ELSE evaluation[r]]
    BY <1>1 DEF PageReloads
  <2>3. \A r \in Requests :
          \/ evaluation'[r] = evaluation[r]
          \/ evaluation[r].state = "submitted" /\ evaluation'[r].state = "exception"
    BY <1>0, <2>2 DEF PageEvaluations
  <2>4. \A r \in Requests : Unsent(r) => Unsent(r)' BY <2>1, <2>3 DEF Unsent, NoEvaluation
  <2>5. FreshAreUnsent' BY <2>1, <2>4, StillFresh
  <2>6. SubmittedIsConsented' /\ RefusedIsUnsent' /\ SentAsConsented'
    BY <2>1, <2>3 DEF Facts, SubmittedIsConsented, RefusedIsUnsent, SentAsConsented
  <2>7. ApprovalIsConsent' /\ DocumentIsTracked'
    BY <2>1 DEF Facts, ApprovalIsConsent, DocumentIsTracked, OfAgent
  <2>8. OutcomesAreSettled'
    <3>1. document.phase = "outcome" => document.sent \in Requests BY SentDocument
    <3>2. ASSUME NEW q \in Requests, NEW o, TrulySettled(o, q) PROVE TrulySettled(o, q)'
      BY <2>1, <2>3, <3>2 DEF TrulySettled, True
    <3>3. QED BY <2>1, <3>1, <3>2, Ids DEF Facts, OutcomesAreSettled
  <2>9. QED BY <2>5, <2>6, <2>7, <2>8 DEF Facts
<1>2. CASE SessionChanges
  BY <1>2, KeptByIdling DEF SessionChanges, documentVars, panelVars, agentVars, clientVars
<1>3. ASSUME NEW r \in Requests, pageEvaluates(r) PROVE Facts'
  <2>1. /\ evaluation[r].state = "submitted"
        /\ UNCHANGED <<document, nextHuman, consent, disposed, receipts, executing,
                       pendingServerInjections, heard>>
    BY <1>3 DEF pageEvaluates, documentVars, panelVars, agentVars
  <2>2. r \notin starts /\ sends[r] = <<>> /\ consent[r] \in Content /\ evaluation[r].content = consent[r]
    BY <2>1 DEF Facts, SubmittedIsConsented
  <2>3. /\ \A q \in Requests : q # r => evaluation'[q] = evaluation[q] /\ sends'[q] = sends[q]
        /\ starts \subseteq starts' /\ starts' \subseteq starts \cup {r}
        /\ \/ Refusals(evaluation'[r].state) /\ sends'[r] = <<>>
           \/ /\ evaluation'[r].state \in {"started", "send-threw", "exception"}
              /\ sends'[r] \in {<<>>, <<consent[r]>>}
    BY <1>3, EvaluationEffects
  <2>4. \A q \in Requests : Unsent(q) => q # r BY <2>1 DEF Unsent, NoEvaluation
  <2>5. \A q \in Requests : Unsent(q) => Unsent(q)' BY <2>1, <2>3, <2>4 DEF Unsent
  <2>6. FreshAreUnsent' BY <2>1, <2>5, StillFresh
  <2>7. SubmittedIsConsented'
    <3>1. evaluation'[r].state # "submitted" BY <2>3 DEF Refusals
    <3>2. ASSUME NEW q \in Requests, evaluation'[q].state = "submitted"
          PROVE  /\ q \notin starts' /\ sends'[q] = <<>>
                 /\ evaluation'[q].content = consent'[q] /\ consent'[q] \in Content
      <4>1. q # r BY <3>1, <3>2
      <4>2. QED BY <2>1, <2>3, <3>2, <4>1 DEF Facts, SubmittedIsConsented
    <3>3. QED BY <3>2 DEF SubmittedIsConsented
  <2>8. RefusedIsUnsent' /\ SentAsConsented'
    BY <2>1, <2>3 DEF Facts, RefusedIsUnsent, SentAsConsented, Refusals
  <2>9. ApprovalIsConsent' /\ DocumentIsTracked'
    BY <2>1 DEF Facts, ApprovalIsConsent, DocumentIsTracked, OfAgent
  <2>10. OutcomesAreSettled'
    <3>1. ASSUME NEW q \in Requests, NEW o, TrulySettled(o, q) PROVE TrulySettled(o, q)'
      <4>1. CASE q = r BY <2>1, <2>3, <3>1, <4>1 DEF TrulySettled, True
      <4>2. CASE q # r BY <2>1, <2>3, <3>1, <4>2 DEF TrulySettled, True
      <4>3. QED BY <4>1, <4>2
    <3>2. QED BY <2>1, <3>1, SentDocument, Ids DEF Facts, OutcomesAreSettled
  <2>11. QED BY <2>6, <2>7, <2>8, <2>9, <2>10 DEF Facts
<1>4. ASSUME NEW r \in Requests, ListenerHears(r) PROVE Facts'
  <2>1. /\ sends[r] # <<>> /\ heard[r] = "none"
        /\ \A q \in Requests : q # r => heard'[q] = heard[q]
        /\ UNCHANGED <<document, nextHuman, consent, disposed, receipts, executing,
                       pendingServerInjections, evaluation, starts, sends>>
    BY <1>4 DEF ListenerHears, TypeOK, documentVars, panelVars, agentVars, clientVars
  <2>2. \A q \in Requests : Unsent(q) => Unsent(q)' BY <2>1 DEF Unsent
  <2>3. FreshAreUnsent' BY <2>1, <2>2, StillFresh
  <2>4. SubmittedIsConsented' /\ RefusedIsUnsent' /\ SentAsConsented'
    BY <2>1 DEF Facts, SubmittedIsConsented, RefusedIsUnsent, SentAsConsented
  <2>5. ApprovalIsConsent' /\ DocumentIsTracked'
    BY <2>1 DEF Facts, ApprovalIsConsent, DocumentIsTracked, OfAgent
  <2>6. OutcomesAreSettled'
    <3>1. ASSUME NEW q \in Requests, NEW o, TrulySettled(o, q) PROVE TrulySettled(o, q)'
      <4>1. CASE q = r BY <2>1, <3>1, <4>1 DEF TrulySettled, True
      <4>2. CASE q # r BY <2>1, <3>1, <4>2 DEF TrulySettled, True
      <4>3. QED BY <4>1, <4>2
    <3>2. QED BY <2>1, <3>1, SentDocument, Ids DEF Facts, OutcomesAreSettled
  <2>7. QED BY <2>3, <2>4, <2>5, <2>6 DEF Facts
<1>5. QED BY <1>1, <1>2, <1>3, <1>4 DEF Page

\* What the page refused was not sent, and what the listener was told is the end.
LEMMA TrueOutcomes ==
  ASSUME Facts, NEW r \in Requests
  PROVE  /\ True("unknown", r) /\ TrulySettled("unknown", r)'
         /\ heard[r] \in Heard => True(CapturedOutcome(heard[r]), r)
                                  /\ CapturedOutcome(heard[r]) \notin {"stale-target", "bridge-error"}
         /\ True(StartOutcome(evaluation[r].state), r)
<1>1. True("unknown", r) /\ TrulySettled("unknown", r)' BY DEF True, TrulySettled
<1>2. ASSUME heard[r] \in Heard PROVE True(CapturedOutcome(heard[r]), r)
             /\ CapturedOutcome(heard[r]) \notin {"stale-target", "bridge-error"}
  BY <1>2 DEF Heard, CapturedOutcome, True
<1>3. True(StartOutcome(evaluation[r].state), r)
  <2>1. CASE evaluation[r].state \in {"unavailable", "unsupported", "stale-target"}
    BY <2>1 DEF Facts, RefusedIsUnsent, StartOutcome, True
  <2>2. CASE evaluation[r].state \notin {"unavailable", "unsupported", "stale-target"}
    <3>1. StartOutcome(evaluation[r].state) = "unknown" BY <2>2 DEF StartOutcome
    <3>2. QED BY <1>1, <3>1
  <2>3. QED BY <2>1, <2>2
<1>4. QED BY <1>1, <1>2, <1>3

\* The steps of the panel, its port and the bridge client.
LEMMA PanelKeeps ==
  ASSUME TypeOK, Facts,
         \/ PanelStep \/ publish \/ PanelLearns \/ PortCloses \/ connect
         \/ \E r \in Requests : resolveServerInjectionFromCapture(r) \/ evaluationReturns(r)
  PROVE  Facts'
<1>0. receipts \in Receipts /\ evaluation \in PageEvaluations
  BY DEF TypeOK, Receipts, PageEvaluations
<1>1. CASE executeApprovedAgentServerInjection
  <2>1. /\ executing # 0 /\ executing' = 0 /\ executing \in AgentRequests /\ executing \in Requests
        /\ UNCHANGED <<nextHuman, disposed, starts, sends, heard>>
    BY <1>1, Ids DEF executeApprovedAgentServerInjection, TypeOK, Human, panelVars, pageVars
  <2>2. /\ ~disposed /\ Editing /\ document.agentRequestId = executing
        /\ receipts[executing].state = "pending"
    BY <2>1 DEF Facts, FreshAreUnsent
  <2>3. OfAgent BY <2>1, <2>2, Ids DEF OfAgent
  <2>4. Unsent(executing) BY <2>2, <2>3 DEF Facts, FreshAreUnsent
  <2>5. nextHuman' \in Nat /\ nextHuman' >= nextHuman /\ nextHuman' > executing
    <3>1. nextHuman \in MaxAgentRequests + 1 .. MaxAgentRequests + MaxHumanRequests + 1
      BY DEF TypeOK
    <3>2. QED BY <2>1, <3>1, ServerInjectionAssumption DEF AgentRequests
  <2>6. CASE /\ document.agentRequestId = executing /\ document.phase = "review"
             /\ agentApproved(document) /\ serverInjectionReady(document)
    <3>1. UNCHANGED consent BY <1>1, <2>6 DEF executeApprovedAgentServerInjection
    <3>2. CASE Send(executing, document.reviewed.content) /\ UNCHANGED receipts
      <4>1. ContentOf(document) \in Content BY TheDocument
      <4>2. document.approval = document.reviewed /\ document.approval # None
        BY <2>6 DEF agentApproved
      <4>3. document.reviewed.content = ContentOf(document)
        BY <2>6 DEF agentApproved, FingerprintOf
      <4>4. consent[executing] = document.reviewed.content
        BY <2>2, <2>3, <2>6, <4>2 DEF Facts, ApprovalIsConsent
      <4>5. document.reviewed.content \in Content BY <4>1, <4>3
      <4>6. QED BY <2>1, <2>2, <2>3, <2>4, <2>5, <3>1, <3>2, <4>4, <4>5, KeptBySending
    <3>3. CASE /\ document' = [document EXCEPT !.phase = "outcome", !.sent = executing,
                                               !.outcome = "bridge-error"]
               /\ receipts' = [receipts EXCEPT ![executing] =
                                 [state |-> "complete", outcome |-> "bridge-error"]]
               /\ UNCHANGED clientVars
      BY <2>1, <2>2, <2>3, <2>4, <2>5, <3>1, <3>3, KeptByFailing DEF clientVars
    <3>4. QED BY <1>1, <2>6, <3>2, <3>3 DEF executeApprovedAgentServerInjection
  <2>7. CASE ~(/\ document.agentRequestId = executing /\ document.phase = "review"
               /\ agentApproved(document) /\ serverInjectionReady(document))
    <3>1. /\ document' = IF document.phase = "review" THEN Reedited(document) ELSE document
          /\ consent' = Withdrawn
          /\ receipts' = [receipts EXCEPT ![executing] =
                            [state |-> "complete", outcome |-> "stale-target"]]
          /\ UNCHANGED <<pendingServerInjections, evaluation>>
      BY <1>1, <2>7 DEF executeApprovedAgentServerInjection, clientVars
    <3>2. PICK e : e = executing OBVIOUS
    <3>3. /\ document'.phase = "edit" /\ document'.agentRequestId = e
      BY <2>2, <3>1, <3>2, ReeditedDocument DEF Editing
    <3>4. /\ receipts'[e] = [state |-> "complete", outcome |-> "stale-target"]
          /\ \A q \in AgentRequests : q # e => receipts'[q] = receipts[q]
      BY <1>0, <2>1, <3>1, <3>2 DEF Receipts
    <3>5. ConsentOfTheEdited BY <3>1, Withdrawing
    <3>6. \A q \in Requests : Unsent(q)' <=> Unsent(q) BY <2>1, <3>1 DEF Unsent
    <3>7. FreshAreUnsent'
      <4>1. \A q \in Requests : q >= nextHuman' => Unsent(q)'
        BY <2>1, <3>6 DEF Facts, FreshAreUnsent
      <4>2. \A q \in AgentRequests : receipts'[q].state \in {"absent", "prepared"} => Unsent(q)'
        BY <3>4, <3>6, Ids DEF Facts, FreshAreUnsent
      <4>3. Unsent(e)' BY <2>1, <2>4, <3>2, <3>6
      <4>4. QED BY <2>1, <3>3, <4>1, <4>2, <4>3 DEF FreshAreUnsent, Unsent
    <3>8. SubmittedIsConsented' /\ RefusedIsUnsent' /\ SentAsConsented'
      <4>1. \A q \in Requests : evaluation[q].state = "submitted" \/ sends[q] # <<>> => ~Unsent(q)
        BY DEF Unsent, NoEvaluation
      <4>2. \A q \in Requests :
              evaluation[q].state = "submitted" \/ sends[q] # <<>> => consent'[q] = consent[q]
        BY <3>5, <4>1, ConsentKept
      <4>3. QED
        BY <2>1, <3>1, <4>2 DEF Facts, SubmittedIsConsented, RefusedIsUnsent, SentAsConsented
    <3>9. ApprovalIsConsent' BY <3>3 DEF ApprovalIsConsent
    <3>10. DocumentIsTracked'
      <4>1. executing \notin pendingServerInjections BY <2>4 DEF Unsent
      <4>2. QED BY <3>1, <3>2, <3>3, <3>4, <4>1 DEF Facts, DocumentIsTracked
    <3>11. OutcomesAreSettled'
      <4>1. TrulySettled("stale-target", e)'
        BY <2>1, <2>4, <3>1, <3>2 DEF TrulySettled, True, Unsent, NoEvaluation
      <4>2. ASSUME NEW q \in AgentRequests, receipts'[q].state = "complete"
            PROVE  TrulySettled(receipts[q].outcome, q)'
        <5>1. CASE q = e BY <3>4, <4>1, <5>1
        <5>2. CASE q # e
          <6>1. receipts'[q] = receipts[q] /\ TrulySettled(receipts[q].outcome, q)
            BY <3>4, <4>2, <5>2 DEF Facts, OutcomesAreSettled
          <6>2. QED BY <2>1, <3>1, <6>1 DEF TrulySettled, True
        <5>3. QED BY <5>1, <5>2
      <4>3. QED BY <3>3, <4>2 DEF OutcomesAreSettled
    <3>12. QED BY <3>7, <3>8, <3>9, <3>10, <3>11 DEF Facts
  <2>8. QED BY <2>6, <2>7
<1>2. ASSUME NEW r \in Requests, terminalOutcomeTimesOut(r) PROVE Facts'
  <2>1. /\ executing = 0 /\ Finished({r}, "unknown", disposed)
        /\ UNCHANGED <<nextHuman, consent, disposed, executing, evaluation, starts, sends, heard>>
    BY <1>2 DEF terminalOutcomeTimesOut, panelVars, pageVars
  <2>2. "unknown" \in Outcomes /\ disposed \in BOOLEAN BY DEF Outcomes, TypeOK
  <2>3. QED BY <2>1, <2>2, TrueOutcomes, Withdrawing, KeptByFinishing
<1>3. CASE publish
  BY <1>3, PublishedDocument, KeptByReediting DEF publish, Turn, panelVars, agentVars, clientVars, pageVars
<1>4. CASE PanelLearns
  BY <1>4, KeptByIdling DEF PanelLearns, documentVars, agentVars, clientVars, pageVars
<1>5. CASE PortCloses
  <2>1. /\ executing = 0
        /\ UNCHANGED <<nextHuman, disposed, executing, evaluation, starts, sends, heard>>
    BY <1>5 DEF PortCloses, Turn, pageVars
  <2>2. CASE visible /\ document.phase = "review"
    <3>1. /\ document' = Reedited(document) /\ consent' = Withdrawn
          /\ UNCHANGED <<pendingServerInjections, receipts>>
      BY <1>5, <2>2 DEF PortCloses
    <3>2. QED BY <2>1, <2>2, <3>1, KeptByReediting DEF Editing
  <2>3. CASE ~(visible /\ document.phase = "review")
    <3>1. Finished(pendingServerInjections, "unknown", FALSE) /\ UNCHANGED consent
      BY <1>5, <2>3 DEF PortCloses
    <3>2. "unknown" \in Outcomes BY DEF Outcomes
    <3>3. \A r : TrulySettled("unknown", r)' BY DEF TrulySettled, True
    <3>4. QED BY <2>1, <3>1, <3>2, <3>3, Withdrawing, KeptByFinishing
  <2>4. QED BY <2>2, <2>3
<1>6. CASE connect
  BY <1>6, KeptByIdling DEF connect, documentVars, agentVars, clientVars, pageVars
<1>7. ASSUME NEW r \in Requests, resolveServerInjectionFromCapture(r) PROVE Facts'
  <2>1. /\ executing = 0 /\ Finished({r}, CapturedOutcome(heard[r]), disposed) /\ heard[r] # "none"
        /\ UNCHANGED <<nextHuman, consent, disposed, executing, evaluation, starts, sends, heard>>
    BY <1>7 DEF resolveServerInjectionFromCapture, panelVars, pageVars
  <2>2. heard[r] \in Heard BY <2>1 DEF TypeOK
  <2>3. CapturedOutcome(heard[r]) \in Outcomes /\ disposed \in BOOLEAN
    BY <2>2, OutcomeTypes DEF TypeOK
  <2>4. TrulySettled(CapturedOutcome(heard[r]), r) BY <2>2, TrueOutcomes DEF TrulySettled
  <2>5. TrulySettled(CapturedOutcome(heard[r]), r)' BY <2>1, <2>4 DEF TrulySettled, True
  <2>6. ConsentOfTheEdited BY <2>1, Withdrawing
  <2>7. \A q \in {r} \cap pendingServerInjections : TrulySettled(CapturedOutcome(heard[r]), q)'
    BY <2>5
  <2>8. QED BY <2>1, <2>3, <2>6, <2>7, KeptByFinishing
<1>8. ASSUME NEW r \in Requests, evaluationReturns(r) PROVE Facts'
  <2>1. /\ executing = 0 /\ evaluation' = [evaluation EXCEPT ![r] = NoEvaluation]
        /\ UNCHANGED <<nextHuman, consent, disposed, executing, starts, sends, heard>>
    BY <1>8 DEF evaluationReturns, panelVars, pageVars
  <2>2. \A q \in Requests : evaluation'[q] \in {evaluation[q], NoEvaluation}
    BY <1>0, <2>1 DEF PageEvaluations
  <2>3. ConsentOfTheEdited BY <2>1, Withdrawing
  <2>4. CASE evaluation[r].state # "started"
    <3>1. Finished({r}, StartOutcome(evaluation[r].state), disposed)
      BY <1>8, <2>4 DEF evaluationReturns
    <3>2. StartOutcome(evaluation[r].state) \in Outcomes /\ disposed \in BOOLEAN
      BY OutcomeTypes DEF TypeOK
    <3>3. evaluation'[r].state # "submitted" BY <1>0, <2>1 DEF PageEvaluations, NoEvaluation
    <3>4. PICK o : o = StartOutcome(evaluation[r].state) OBVIOUS
    <3>5. TrulySettled(o, r)'
      <4>1. True(o, r) BY <3>4, TrueOutcomes
      <4>2. QED BY <2>1, <3>3, <4>1 DEF TrulySettled, True
    <3>6. \A q \in {r} \cap pendingServerInjections : TrulySettled(o, q)' BY <3>5
    <3>7. QED BY <2>1, <2>2, <2>3, <3>1, <3>2, <3>4, <3>6, KeptByFinishing
  <2>5. CASE evaluation[r].state = "started"
    <3>1. Finished({}, "unknown", disposed)
      <4>1. UNCHANGED <<pendingServerInjections, document, receipts>>
        BY <1>8, <2>5 DEF evaluationReturns
      <4>2. receipts' = [q \in AgentRequests |-> receipts[q]] BY <1>0, <4>1 DEF Receipts
      <4>3. QED BY <4>1, <4>2 DEF Finished
    <3>2. "unknown" \in Outcomes /\ disposed \in BOOLEAN BY DEF Outcomes, TypeOK
    <3>3. QED BY <2>1, <2>2, <2>3, <3>1, <3>2, KeptByFinishing
  <2>6. QED BY <2>4, <2>5
<1>9. QED BY <1>1, <1>2, <1>3, <1>4, <1>5, <1>6, <1>7, <1>8 DEF PanelStep
-----------------------------------------------------------------------------
(* The invariant, and the theorems                                         *)

\* The invariant holds initially.
LEMMA InvInit ==
  ASSUME Init PROVE Inv
<1>1. TypeOK
  <2>1. document \in Documents
    BY ServerInjectionAssumption DEF Init, NoDocument, Documents, Human
  <2>2. consent \in Consents /\ receipts \in Receipts /\ evaluation \in PageEvaluations
    BY DEF Init, Consents, Receipts, PageEvaluations, NoEvaluation
  <2>3. nextHuman \in MaxAgentRequests + 1 .. MaxAgentRequests + MaxHumanRequests + 1
    <3>1. nextHuman = MaxAgentRequests + 1 BY DEF Init
    <3>2. QED BY <3>1, ServerInjectionAssumption
  <2>4. serverPrepared \in [requestId : 0 .. MaxAgentRequests, consumed : BOOLEAN]
    <3>1. serverPrepared = [requestId |-> 0, consumed |-> FALSE] BY DEF Init
    <3>2. QED BY <3>1, ServerInjectionAssumption
  <2>5. sends \in [Requests -> Seq(Content)] /\ heard \in [Requests -> Heard \cup {"none"}]
    BY DEF Init
  <2>6. visible \in BOOLEAN /\ disposed \in BOOLEAN /\ port \in BOOLEAN /\ agentConnected \in BOOLEAN
    BY Zenon DEF Init
  <2>7. /\ currentSite \in 0 .. MaxSites /\ site \in 0 .. MaxSites
        /\ executing \in 0 .. MaxAgentRequests /\ breaks \in 0 .. MaxBreaks
    <3>1. currentSite = 0 /\ executing = 0 /\ site = 0 /\ breaks = 0 BY DEF Init
    <3>2. QED BY <3>1, ServerInjectionAssumption
  <2>8. pendingServerInjections \subseteq Requests /\ starts \subseteq Requests BY DEF Init
  <2>9. QED
    BY <2>1, <2>2, <2>3, <2>4, <2>5, <2>6, <2>7, <2>8 DEF TypeOK, Documents, Consents, Receipts, PageEvaluations
<1>2. document.phase = "none" /\ document.agentRequestId = Human BY DEF Init, NoDocument
<1>3. \A r \in Requests : Unsent(r) BY DEF Init, Unsent
<1>4. FreshAreUnsent BY <1>2, <1>3, Ids DEF Init, FreshAreUnsent, Editing
<1>5. SubmittedIsConsented /\ RefusedIsUnsent /\ SentAsConsented
  BY <1>3 DEF SubmittedIsConsented, RefusedIsUnsent, SentAsConsented, Unsent, NoEvaluation
<1>6. ApprovalIsConsent /\ DocumentIsTracked /\ OutcomesAreSettled
  BY <1>2 DEF Init, ApprovalIsConsent, DocumentIsTracked, OutcomesAreSettled, OfAgent
<1>7. QED BY <1>1, <1>4, <1>5, <1>6 DEF Inv, Facts

\* Every step keeps it.
LEMMA InvStep ==
  ASSUME Inv, [Next]_vars PROVE Inv'
<1>1. TypeOK' BY TypeStep DEF Inv, Facts
<1>2. CASE Next BY <1>1, <1>2, PersonKeeps, AgentKeeps, PageKeeps, PanelKeeps DEF Next, Inv
<1>3. CASE UNCHANGED vars
  BY <1>1, <1>3, KeptByIdling DEF Inv, vars, documentVars, panelVars, agentVars, clientVars,
  pageVars
<1>4. QED BY <1>2, <1>3

\* Whatever repeats, reloads and late answers do, a request is sent at most once,
\* and what is sent, in the page and Session that gets it, is what a person agreed
\* to for that request.
THEOREM SentAsConsentedHolds == Spec => []SentAsConsented
<1>1. Inv => SentAsConsented BY DEF Inv, Facts
<1>2. QED BY <1>1, InvInit, InvStep, PTL DEF Spec

\* The outcome that the document shows and the receipt that the agent gets are
\* true, stay true, and agree.
THEOREM AnswersAreTrueHolds == Spec => []AnswersAreTrue
<1>1. Inv => AnswersAreTrue
  BY AgentsDocument DEF Inv, Facts, AnswersAreTrue, OutcomesAreTrue, OutcomesAreSettled,
  TrulySettled, DocumentIsTracked, OfAgent, Human, AgentRequests
<1>2. QED BY <1>1, InvInit, InvStep, PTL DEF Spec
=============================================================================
