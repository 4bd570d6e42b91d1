----------------------------- MODULE MCUploads -----------------------------
EXTENDS Uploads, TLC

\* Every caller in one process, or one process each.
MCOneProcess == [c \in Callers |-> CHOOSE p \in Procs : TRUE]
\* A bucket that is stored as it is, or compressed and encrypted.
MCSettings == {[gz |-> FALSE, enc |-> FALSE], [gz |-> TRUE, enc |-> TRUE]}
MCSymmetry == Permutations(Callers) \cup Permutations(Chunks)
=============================================================================
