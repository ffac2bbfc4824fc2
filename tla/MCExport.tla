------------------------------ MODULE MCExport ------------------------------
\* Trace files for Export: empty, with a blank line, with a line that was cut off
\* when its tracer was killed (the next run appends to it), and with the extension
\* of an output.
EXTENDS Export

TraceFiles ==
  {[ext |-> "jsonl", lines |-> <<>>], [ext |-> "jsonl", lines |-> <<"row", "bad", "row">>]}
    \cup {[ext |-> e, lines |-> <<"row", "blank", "row">>] : e \in {"jsonl", "csv", "sqlite"}}
=============================================================================
