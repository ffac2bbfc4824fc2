----------------------------- MODULE AtomicLoad -----------------------------
(***************************************************************************)
(* What an export into a database server promises: the rows of its input   *)
(* reach the table all at once or not at all, and before it reports        *)
(* success, whichever exports run beside it.  If it reports an error while *)
(* the server has its COMMIT and has not answered, the rows may still come;*)
(* after any other error they do not.                                      *)
(* Export.tla implements this for mysql and postgres.                      *)
(***************************************************************************)
EXTENDS Sequences

CONSTANTS
  Runs,     \* exports
  Loads     \* the sequences of rows an export may be asked to load

VARIABLES
  rows,     \* the table
  want,     \* Runs -> the rows this export is to load
  status    \* Runs -> new, open, asked, loaded, ok, error, or unknown: an error,
            \*         with the COMMIT still out

vars == <<rows, want, status>>

Init ==
  /\ rows = <<>>
  /\ want = [r \in Runs |-> <<>>]
  /\ status = [r \in Runs |-> "new"]

Becomes(r, s) == status' = [status EXCEPT ![r] = s]

Begin(r) ==
  /\ status[r] = "new" /\ Becomes(r, "open")
  /\ \E l \in Loads : want' = [want EXCEPT ![r] = l]
  /\ UNCHANGED rows

Ask(r) == status[r] = "open" /\ Becomes(r, "asked") /\ UNCHANGED <<rows, want>>

Load(r) ==
  /\ \/ status[r] = "asked" /\ Becomes(r, "loaded")
     \/ status[r] = "unknown" /\ Becomes(r, "error")
  /\ rows' = rows \o want[r]
  /\ UNCHANGED want

Succeed(r) == status[r] = "loaded" /\ Becomes(r, "ok") /\ UNCHANGED <<rows, want>>

Fail(r) ==
  /\ \/ status[r] \in {"open", "loaded"} /\ Becomes(r, "error")
     \/ status[r] = "asked" /\ Becomes(r, "unknown")
  /\ UNCHANGED <<rows, want>>

Next == \E r \in Runs : Begin(r) \/ Ask(r) \/ Load(r) \/ Succeed(r) \/ Fail(r)

Spec == Init /\ [][Next]_vars
=============================================================================
