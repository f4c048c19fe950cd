---------------------------- MODULE MCCleanTemp ----------------------------
EXTENDS CleanTemp, TLC

CONSTANTS host, p1, c1

\* Each writer has a parser of its own, which is named after it.
Parser == [w \in Writers |-> w]
Names == [p \in Procs |-> "trufflehog"]
Owner == [c \in Cleaners |-> p1]
Symmetry == Permutations(Writers) \cup Permutations(Buffers) \cup Permutations(Pids)
=============================================================================
