---------------------------- MODULE EvidenceLog ----------------------------
(***************************************************************************)
(* What an Event History promises to the panel, whichever journal backs    *)
(* it: every valid captured candidate takes a capture ordinal, every       *)
(* ordinal is decided exactly once and in capture order, what is retained  *)
(* is the newest part of what was accepted, a Clear cuts the stream of     *)
(* ordinals at the moment it was requested, and a Close decides everything *)
(* that was queued before it.                                              *)
(*                                                                         *)
(* MemoryHistory and IndexedDbHistory implement this specification.        *)
(***************************************************************************)
EXTENDS Integers, Sequences

CONSTANTS
  MaxCaptured,  \* bound: capture ordinals handed out
  MaxIntervals  \* bound: History Intervals opened

VARIABLES
  captured,     \* capture ordinals handed out so far
  verdict,      \* verdict[o]: what became of ordinal o; a prefix is decided
  retained,     \* ordinals whose Evidence is still retained
  interval,     \* ordinal of the current History Interval
  cut,          \* ordinals up to the pending Clear's cut, or NoCut
  closed

vars == <<captured, verdict, retained, interval, cut, closed>>

NoCut == -1
Verdicts == {"BECAME_EVIDENCE", "NOT_EVIDENCE"}

Init ==
  /\ captured = 0
  /\ verdict = <<>>
  /\ retained = {}
  /\ interval = 1
  /\ cut = NoCut
  /\ closed = FALSE

\* A valid candidate is offered.
Capture ==
  /\ ~closed
  /\ captured < MaxCaptured
  /\ captured' = captured + 1
  /\ UNCHANGED <<verdict, retained, interval, cut, closed>>

\* While a Clear is pending, only what was captured before it is decided.
Decidable == IF cut = NoCut THEN captured ELSE cut

\* r keeps the newest part of s.
IsNewestPart(r, s) == r \subseteq s /\ \A kept \in r, lost \in s \ r : lost < kept

\* The next n ordinals are decided; retention may advance in the same step.
Decide(n) ==
  \E decided \in [1..n -> Verdicts] :
    LET o(i) == Len(verdict) + i
        fresh == {o(i) : i \in {j \in 1..n : decided[j] = "BECAME_EVIDENCE"}}
    IN  /\ Len(verdict) + n <= Decidable
        /\ verdict' = verdict \o decided
        /\ \E kept \in SUBSET (retained \cup fresh) :
             /\ IsNewestPart(kept, retained \cup fresh)
             /\ retained' = kept
        /\ UNCHANGED <<captured, interval, cut, closed>>

\* Retention advances on its own.
Retire ==
  /\ \E kept \in SUBSET retained :
       /\ kept # retained
       /\ IsNewestPart(kept, retained)
       /\ retained' = kept
  /\ UNCHANGED <<captured, verdict, interval, cut, closed>>

RequestClear ==
  /\ ~closed
  /\ cut = NoCut
  /\ cut' = captured
  /\ UNCHANGED <<captured, verdict, retained, interval, closed>>

\* The interval ends exactly at the cut: all of it is decided, nothing after.
CompleteClear ==
  /\ cut # NoCut
  /\ Len(verdict) = cut
  /\ interval < MaxIntervals
  /\ interval' = interval + 1
  /\ retained' = {}
  /\ cut' = NoCut
  /\ UNCHANGED <<captured, verdict, closed>>

\* A failed Clear leaves the interval and its retained Evidence unchanged.
FailClear ==
  /\ cut # NoCut
  /\ cut' = NoCut
  /\ UNCHANGED <<captured, verdict, retained, interval, closed>>

Close ==
  /\ ~closed
  /\ cut = NoCut
  /\ Len(verdict) = captured
  /\ closed' = TRUE
  /\ retained' \in {retained, {}}
  /\ UNCHANGED <<captured, verdict, interval, cut>>

Next ==
  \/ Capture
  \/ \E n \in 1..MaxCaptured : Decide(n)
  \/ Retire
  \/ RequestClear
  \/ CompleteClear
  \/ FailClear
  \/ Close

Spec == Init /\ [][Next]_vars
=============================================================================
