--------------------------- MODULE MCMemoryHistory ---------------------------
(***************************************************************************)
(* Instances of MemoryHistory for TLC.                                     *)
(***************************************************************************)
EXTENDS MemoryHistory

\* Room for two or three candidates of size 1, so that retention and pending
\* overflow happen within three captures.  The normal tier overflows by its bytes; the
\* smaller one, which keeps one candidate, also by its count with bytes to spare.
\* One of size 4 is admitted by neither.
MCLimits ==
  [NORMAL |-> [maxRetainedCount |-> 2, maxRetainedBytes |-> 3, pendingStopBytes |-> 3],
   LOWER |-> [maxRetainedCount |-> 1, maxRetainedBytes |-> 2, pendingStopBytes |-> 3]]
=============================================================================
