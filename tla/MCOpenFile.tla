----------------------------- MODULE MCOpenFile -----------------------------
EXTENDS OpenFile, TLC

CONSTANTS t1, t2

MCThreads == {t1, t2}

\* The threads make the same calls, and only invariants are checked.
MCSymmetry == Permutations(MCThreads)
=============================================================================
