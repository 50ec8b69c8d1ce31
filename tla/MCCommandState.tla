--------------------------- MODULE MCCommandState ---------------------------
\* CommandState for TLC: keys and values are interchangeable.
EXTENDS CommandState, TLC

Symmetry == Permutations(Keys) \cup Permutations(Values)
=============================================================================
