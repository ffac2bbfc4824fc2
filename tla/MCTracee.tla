------------------------------ MODULE MCTracee ------------------------------
\* Instances of Tracee for TLC.
EXTENDS Tracee, TLC

\* Threads and coroutines are interchangeable.
TraceeSymmetry == Permutations(Threads) \cup Permutations(Coros)
=============================================================================
