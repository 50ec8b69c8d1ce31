------------------------- MODULE MCJournalOwnership -------------------------
(***************************************************************************)
(* Instances of JournalOwnership for TLC.                                  *)
(***************************************************************************)
EXTENDS JournalOwnership, TLC

CONSTANTS p1, p2, p3, d1, d2

\* Two panels, each with a session id of its own.
OwnNameOf == (p1 :> d1) @@ (p2 :> d2)

\* Two panels of one session id and one of another, for larger instances.
SharedNameOf == (p1 :> d1) @@ (p2 :> d1) @@ (p3 :> d2)
=============================================================================
