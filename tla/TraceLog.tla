------------------------------ MODULE TraceLog ------------------------------
(***************************************************************************)
(* What a station promises to whoever reads the trace, with no memory      *)
(* accesses in it: events are published one at a time, each in the next    *)
(* slot of the ring, and the log receives complete events only, each at    *)
(* most once and never an older event of a slot after a newer one.  Events *)
(* may be missing from the log (the ring overwrites them), never invented. *)
(***************************************************************************)
EXTENDS Naturals, Sequences

CONSTANTS RingSize, MaxEvents, Fields

VARIABLES
  emitted,   \* events published so far
  version,   \* Slots -> sequence number the slot was published under last
  log        \* records written to the trace, oldest first

vars == <<emitted, version, log>>

Slots    == 0 .. RingSize - 1
Versions == {2 * n : n \in 1 .. MaxEvents}

Init ==
  /\ emitted = 0
  /\ version = [i \in Slots |-> 0]
  /\ log = <<>>

\* One write_trace, as the tracee sees it.
Emit ==
  /\ emitted < MaxEvents
  /\ emitted' = emitted + 1
  /\ version' = [version EXCEPT ![emitted % RingSize] = @ + 2]
  /\ UNCHANGED log

\* One record handed to the log: an event that was published in slot i under
\* sequence number s, newer than whatever was reported of that slot before.
Report(i, s) ==
  /\ s <= version[i]
  /\ \A k \in DOMAIN log : log[k].slot = i => log[k].seq < s
  /\ log' = Append(log, [slot |-> i, seq |-> s, data |-> [f \in Fields |-> s]])
  /\ UNCHANGED <<emitted, version>>

Next == Emit \/ \E i \in Slots, s \in Versions : Report(i, s)

Spec == Init /\ [][Next]_vars
=============================================================================
