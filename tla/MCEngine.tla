------------------------------ MODULE MCEngine ------------------------------
\* Instances of Engine for TLC.
EXTENDS Engine, TLC

\* All coroutines in one process.
OneProcess == [q \in Probes |-> CHOOSE p \in Procs : TRUE]

\* Coroutines in every process.
EachProcess ==
  CHOOSE f \in [Probes -> Procs] : \A p \in Procs : \E q \in Probes : f[q] = p

\* Probes of one process are interchangeable.
ProbeSymmetry == Permutations(Probes)
=============================================================================
