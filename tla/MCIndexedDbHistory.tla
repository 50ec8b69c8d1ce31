------------------------- MODULE MCIndexedDbHistory -------------------------
(***************************************************************************)
(* Instances of IndexedDbHistory for TLC.                                  *)
(***************************************************************************)
EXTENDS IndexedDbHistory

\* Room for three candidates in the journal and two in memory, so that
\* batches of two, a durable trim and a trim after the fallback happen
\* within a few captures; a candidate of size 4 is admitted by neither tier.
MCLimits ==
  [NORMAL |-> [maxRetainedCount |-> 3, maxRetainedBytes |-> 3, pendingStopBytes |-> 3],
   LOWER |-> [maxRetainedCount |-> 2, maxRetainedBytes |-> 2, pendingStopBytes |-> 3]]
=============================================================================
