------------------------------- MODULE Export -------------------------------
(***************************************************************************)
(* Export mode: runs of -export, one after another or at the same time,    *)
(* over trace files, into a CSV file or, through the database's            *)
(* command-line client, into a table.                                      *)
(*                                                                         *)
(* The exporter streams statements into the client's stdin, a bounded pipe;*)
(* the client (sqlite3, mysql, psql: external) executes them in order,     *)
(* behind it.  sqlite3 is the database; the others send each statement to  *)
(* a server, which takes its own steps: it executes a COMMIT it has been   *)
(* asked for even if the client dies before the answer.  Any statement may *)
(* fail, and exporter and client may die at any time.                      *)
(* A row is the run and the line it comes from.  Exports of different      *)
(* kinds share nothing, so a behaviour has one kind.  Exports into one CSV *)
(* or SQLite file are taken not to overlap.                                *)
(***************************************************************************)
EXTENDS Naturals, Sequences, FiniteSets, SequencesExt

CONSTANTS
  Kinds,    \* a subset of {"csv", "sqlite", "mysql", "postgres"}
  Traces,   \* trace files: [ext, lines], lines over {"row", "blank", "bad"}
  MaxRuns,  \* bound on the exports
  PipeCap   \* statements that fit in the bufio.Writer and the client's stdin

ASSUME ExportAssumption ==
  /\ Kinds \subseteq {"csv", "sqlite", "mysql", "postgres"}
  /\ \A f \in Traces : f.lines \in Seq({"row", "blank", "bad"})
  /\ MaxRuns \in Nat /\ PipeCap \in Nat \ {0}

Runs == 1 .. MaxRuns

VARIABLES
  kind,
  db,       \* the database exists (postgres)
  table,    \* rows in the CSV file or committed in the table
  ex,       \* Runs -> the exporter:
            \*   pc, result, what it returned,
            \*   trace, the lines it was given, and input, the lines it finds,
            \*   own, whether its output is its own input,
            \*   pos, the next line, and sent, the statements or CSV rows written
  cl        \* Runs -> its client:
            \*   state, none, running, ok or failed,
            \*   done, statements executed, tx, its open transaction,
            \*   errs, whether one has failed, auto, whether it is in autocommit,
            \*   commit, no, asked of a server, done or dropped by it

vars == <<kind, db, table, ex, cl>>

NoExporter == [pc |-> "new", result |-> "none", trace |-> <<>>, input |-> <<>>,
               own |-> FALSE, pos |-> 1, sent |-> <<>>]
NoClient   == [state |-> "none", done |-> 0, tx |-> <<>>, errs |-> FALSE, auto |-> FALSE,
               commit |-> "no"]

Init ==
  /\ kind \in Kinds /\ db \in BOOLEAN /\ (kind # "postgres" => db) /\ table = <<>>
  /\ ex = [r \in Runs |-> NoExporter] /\ cl = [r \in Runs |-> NoClient]

\* What an exporter writes: a row for a line; before the rows, the statements that
\* make tables and indexes if they do not exist, and BEGIN; after them COMMIT.
Row(r, i) == [run |-> r, sql |-> "insert", line |-> i]
Schema(r) == [run |-> r, sql |-> "schema", line |-> 0]
Commit(r) == [run |-> r, sql |-> "commit", line |-> 0]

\* The elements of s at the positions I, in order: the k-th of them is at the
\* position with k of I up to it.
Picked(s, I) ==
  [k \in 1 .. Cardinality(I) |-> s[CHOOSE i \in I : Cardinality({j \in I : j <= i}) = k]]

\* The rows StreamJSONL hands to its callback, in order.
RowsOf(r, lines) ==
  Picked([i \in DOMAIN lines |-> Row(r, i)], {i \in DOMAIN lines : lines[i] = "row"})

At(r, pc)      == ex[r].pc = pc
Running(r)     == cl[r].state = "running"
Busy(r)        == ex[r].pc \notin {"new", "returned"} \/ Running(r)
More(r)        == ex[r].pos <= Len(ex[r].input)
NextLine(r)    == ex[r].input[ex[r].pos]
Goes(r, pc)    == ex' = [ex EXCEPT ![r].pc = pc]
Return(r, res) == ex' = [ex EXCEPT ![r].pc = "returned", ![r].result = res]

(***************************************************************************)
(* main and runExport: what is exported where.                             *)
(***************************************************************************)
Replaces == kind \in {"csv", "sqlite"}
Server   == kind \in {"mysql", "postgres"}

\* deriveOutputPath replaces the extension: without -csv-out or -sqlite-out the
\* output of a trace that has the output's extension is that trace.
OwnOutput(f) == Replaces /\ f.ext = kind

Begin(r, f) ==
  /\ At(r, "new") /\ \A q \in 1 .. r - 1 : ~At(q, "new")
  /\ Replaces => \A q \in Runs : ~Busy(q)
  /\ \E own \in {FALSE, OwnOutput(f)} :
       ex' = [ex EXCEPT ![r] = [NoExporter EXCEPT
                !.pc = IF kind = "postgres" THEN "check" ELSE "start",
                !.trace = f.lines, !.input = f.lines, !.own = own]]
  /\ UNCHANGED <<kind, db, table, cl>>

\* The binary is missing, the directory or the file cannot be made, the database
\* cannot be asked for or created: nothing has been touched.
Refuse(r) ==
  /\ ex[r].pc \in {"check", "create", "start"}
  /\ Return(r, "error")
  /\ UNCHANGED <<kind, db, table, cl>>

(***************************************************************************)
(* ensurePostgreSQLDatabaseExists: two clients, one to look, one to create.*)
(***************************************************************************)
CheckDatabase(r) ==
  /\ At(r, "check")
  /\ Goes(r, IF db THEN "start" ELSE "create")
  /\ UNCHANGED <<kind, db, table, cl>>

\* If another export has created it meanwhile, the server refuses.
CreateDatabase(r) ==
  /\ At(r, "create")
  /\ IF db THEN Return(r, "error") ELSE Goes(r, "start")
  /\ db' = TRUE
  /\ UNCHANGED <<kind, table, cl>>

(***************************************************************************)
(* The client is started.  csv and sqlite drop what an earlier run left,   *)
(* before they read a line; mysql and postgres add to the table.           *)
(***************************************************************************)
Cleared == IF Replaces THEN <<>> ELSE table

\* What is left to read when the output was the input: nothing, or the beginning
\* of the database sqlite3 has made in its place.
Found(r) ==
  IF ex[r].own THEN {<<>>} \cup {<<"bad">> : k \in {kind} \cap {"sqlite"}} ELSE {ex[r].trace}

\* The client cannot be started: an earlier sqlite database is gone already.
StartFails(r) ==
  /\ At(r, "start") /\ kind # "csv"
  /\ Return(r, "error") /\ table' = Cleared
  /\ UNCHANGED <<kind, db, cl>>

\* Mutant: the old output is kept.
Mutant_Start(r) ==
  /\ At(r, "start") /\ UNCHANGED table
  /\ \E lines \in Found(r) :
       ex' = [ex EXCEPT ![r].pc = "stream", ![r].input = lines,
                        ![r].sent = IF kind = "csv" THEN <<>> ELSE <<Schema(r)>>]
  /\ cl' = IF kind = "csv" THEN cl ELSE [cl EXCEPT ![r].state = "running"]
  /\ UNCHANGED <<kind, db>>

Start(r) ==
  /\ At(r, "start") /\ table' = Cleared
  /\ \E lines \in Found(r) :
       ex' = [ex EXCEPT ![r].pc = "stream", ![r].input = lines,
                        ![r].sent = IF kind = "csv" THEN <<>> ELSE <<Schema(r)>>]
  /\ cl' = IF kind = "csv" THEN cl ELSE [cl EXCEPT ![r].state = "running"]
  /\ UNCHANGED <<kind, db>>

(***************************************************************************)
(* StreamJSONL and its callback.                                           *)
(***************************************************************************)
\* Mutant: the line is looked at again.
Mutant_SkipBlank(r) == At(r, "stream") /\ More(r) /\ NextLine(r) = "blank" /\ UNCHANGED vars

SkipBlank(r) ==
  /\ At(r, "stream") /\ More(r) /\ NextLine(r) = "blank"
  /\ ex' = [ex EXCEPT ![r].pos = @ + 1]
  /\ UNCHANGED <<kind, db, table, cl>>

\* The client is slower than the exporter: a write waits while the pipe is full.
Room(r) == Len(ex[r].sent) < cl[r].done + PipeCap

WriteRow(r) ==
  /\ At(r, "stream") /\ More(r) /\ NextLine(r) = "row"
  /\ kind = "csv" \/ Room(r)
  /\ ex' = [ex EXCEPT ![r].pos = @ + 1, ![r].sent = Append(@, Row(r, ex[r].pos))]
  /\ UNCHANGED <<kind, db, table, cl>>

\* Mutant: a line that does not decode ends the stream as its end does.
Mutant_StreamFails(r) ==
  /\ At(r, "stream") /\ More(r) /\ NextLine(r) = "bad"
  /\ ex' = [ex EXCEPT ![r].pc = "wait", ![r].sent = Append(@, Commit(r))]
  /\ UNCHANGED <<kind, db, table, cl>>

\* csv just returns the error, the others abort.
GiveUp(r) ==
  /\ IF kind = "csv" THEN Return(r, "error") ELSE Goes(r, "abort")
  /\ UNCHANGED <<kind, db, table, cl>>

\* A line does not decode, or the client that is written to is gone.
StreamFails(r) ==
  /\ At(r, "stream")
  /\ \/ More(r) /\ NextLine(r) = "bad"
     \/ kind # "csv" /\ ~Running(r)
  /\ GiveUp(r)

\* The trace cannot be opened or read on, or the CSV file not written.
StreamBreaks(r) == At(r, "stream") /\ GiveUp(r)

\* COMMIT, Flush, and end of the client's input.
SendCommit(r) ==
  /\ At(r, "stream") /\ ~More(r) /\ kind # "csv" /\ Room(r)
  /\ ex' = [ex EXCEPT ![r].pc = "wait", ![r].sent = Append(@, Commit(r))]
  /\ UNCHANGED <<kind, db, table, cl>>

\* The last Flush fails because the client is gone.
FlushFails(r) ==
  /\ At(r, "wait") /\ ~Running(r) /\ cl[r].done < Len(ex[r].sent)
  /\ Goes(r, "abort")
  /\ UNCHANGED <<kind, db, table, cl>>

\* Flush or stdin.Close fails although the client is there.
CloseFails(r) ==
  /\ At(r, "wait") /\ Running(r)
  /\ Goes(r, "abort")
  /\ UNCHANGED <<kind, db, table, cl>>

\* cmd.Wait: the client's exit status decides.
Wait(r) ==
  /\ At(r, "wait") /\ ~Running(r)
  /\ Return(r, IF cl[r].state = "ok" THEN "ok" ELSE "error")
  /\ UNCHANGED <<kind, db, table, cl>>

\* The client goes.  sqlite3's open transaction goes with it, a server's is the
\* server's.
Gone(r, s) == cl' = [cl EXCEPT ![r].state = s, ![r].tx = IF Server THEN @ ELSE <<>>]

\* Mutant: the error is returned and the client left to go on.
Mutant_Abort(r) ==
  /\ At(r, "abort") /\ Return(r, "error")
  /\ UNCHANGED <<kind, db, table, cl>>

\* abort: stdin closed, the client killed and reaped.  The client may get some
\* way further before the kill.
Abort(r) ==
  /\ At(r, "abort")
  /\ Gone(r, "failed") /\ Return(r, "error")
  /\ UNCHANGED <<kind, db, table>>

\* coroTracer itself is killed.  What its bufio.Writer held is lost, the client
\* lives on and finds the end of its input.
Killed(r) ==
  /\ ex[r].pc \notin {"new", "returned"}
  /\ \E n \in cl[r].done .. Len(ex[r].sent) :
       ex' = [ex EXCEPT ![r].pc = "returned", ![r].result = "killed",
                        ![r].sent = SubSeq(@, 1, n)]
  /\ UNCHANGED <<kind, db, table, cl>>

(***************************************************************************)
(* The CSV file: the writer's buffer may spill at any time.                *)
(***************************************************************************)
Unwritten(r) == SubSeq(ex[r].sent, cl[r].done + 1, Len(ex[r].sent))

CsvSpill(r) ==
  /\ kind = "csv" /\ At(r, "stream") /\ cl[r].done < Len(ex[r].sent)
  /\ cl' = [cl EXCEPT ![r].done = @ + 1]
  /\ table' = Append(table, ex[r].sent[cl[r].done + 1])
  /\ UNCHANGED <<kind, db, ex>>

\* Mutant: rows that have spilled are counted again.
Mutant_CsvFlush(r) ==
  /\ kind = "csv" /\ At(r, "stream") /\ ~More(r)
  /\ table' = table \o Unwritten(r)
  /\ cl' = [cl EXCEPT ![r].done = @ + Len(ex[r].sent)]
  /\ Return(r, "ok")
  /\ UNCHANGED <<kind, db>>

CsvFlush(r) ==
  /\ kind = "csv" /\ At(r, "stream") /\ ~More(r)
  /\ table' = table \o Unwritten(r)
  /\ cl' = [cl EXCEPT ![r].done = Len(ex[r].sent)]
  /\ Return(r, "ok")
  /\ UNCHANGED <<kind, db>>

CsvFlushFails(r) ==
  /\ kind = "csv" /\ At(r, "stream") /\ ~More(r)
  /\ Return(r, "error")
  /\ UNCHANGED <<kind, db, table, cl>>

(***************************************************************************)
(* The client.                                                             *)
(***************************************************************************)
HasStatement(r) == Running(r) /\ cl[r].done < Len(ex[r].sent)
Statement(r)    == ex[r].sent[cl[r].done + 1]

\* In postgres making an index waits for the transactions that have inserted.
CliSchema(r) ==
  /\ HasStatement(r) /\ Statement(r) = Schema(r)
  /\ kind = "postgres" => \A q \in Runs \ {r} : cl[q].tx = <<>>
  /\ cl' = [cl EXCEPT ![r].done = @ + 1]
  /\ UNCHANGED <<kind, db, table, ex>>

CliRow(r) ==
  /\ HasStatement(r) /\ Statement(r) \notin {Schema(r), Commit(r)}
  /\ IF cl[r].auto
     THEN /\ table' = Append(table, Statement(r))
          /\ cl' = [cl EXCEPT ![r].done = @ + 1]
     ELSE /\ cl' = [cl EXCEPT ![r].done = @ + 1, ![r].tx = Append(@, Statement(r))]
          /\ UNCHANGED table
  /\ UNCHANGED <<kind, db, ex>>

\* sqlite3 commits, the others ask their server to.
CliCommit(r) ==
  /\ HasStatement(r) /\ Statement(r) = Commit(r)
  /\ IF Server
     THEN /\ cl' = [cl EXCEPT ![r].done = @ + 1, ![r].commit = "asked"]
          /\ UNCHANGED table
     ELSE /\ cl' = [cl EXCEPT ![r].done = @ + 1, ![r].tx = <<>>, ![r].commit = "done"]
          /\ table' = table \o cl[r].tx
  /\ UNCHANGED <<kind, db, ex>>

\* A statement fails: mysql, and psql with ON_ERROR_STOP, exit.
CliStops(r) ==
  /\ HasStatement(r) /\ kind # "sqlite"
  /\ cl' = [cl EXCEPT ![r].done = @ + 1, ![r].errs = TRUE, ![r].state = "failed"]
  /\ UNCHANGED <<kind, db, table, ex>>

\* sqlite3 without -bail goes on with the next statement, in the transaction or,
\* if the error has rolled that back (disk full, I/O error), in autocommit mode.
SqliteGoesOn(r) ==
  /\ HasStatement(r) /\ kind = "sqlite"
  /\ \/ cl' = [cl EXCEPT ![r].done = @ + 1, ![r].errs = TRUE]
     \/ cl' = [cl EXCEPT ![r].done = @ + 1, ![r].errs = TRUE, ![r].tx = <<>>,
                         ![r].auto = TRUE]
  /\ UNCHANGED <<kind, db, table, ex>>

\* End of input, when the last statement has been answered.
CliEnd(r) ==
  /\ Running(r) /\ ex[r].pc \in {"wait", "abort", "returned"}
  /\ cl[r].done = Len(ex[r].sent) /\ cl[r].commit # "asked"
  /\ Gone(r, IF cl[r].errs THEN "failed" ELSE "ok")
  /\ UNCHANGED <<kind, db, table, ex>>

CliDies(r) ==
  /\ Running(r) /\ Gone(r, "failed")
  /\ UNCHANGED <<kind, db, table, ex>>

(***************************************************************************)
(* The server.  It has a COMMIT in its connection whether or not the client*)
(* still lives, and learns in its own time that the client is gone.        *)
(***************************************************************************)
ServerCommit(r) ==
  /\ cl[r].commit = "asked"
  /\ table' = table \o cl[r].tx
  /\ cl' = [cl EXCEPT ![r].tx = <<>>, ![r].commit = "done"]
  /\ UNCHANGED <<kind, db, ex>>

\* The transaction of a client that is gone is rolled back; a COMMIT on its way
\* may be lost with the connection.
ServerDrops(r) ==
  /\ Server /\ ~Running(r) /\ (cl[r].tx # <<>> \/ cl[r].commit = "asked")
  /\ cl' = [cl EXCEPT ![r].tx = <<>>,
                      ![r].commit = IF @ = "asked" THEN "dropped" ELSE @]
  /\ UNCHANGED <<kind, db, table, ex>>

Exporter(r) ==
  \/ CheckDatabase(r) \/ CreateDatabase(r) \/ Start(r) \/ SkipBlank(r) \/ WriteRow(r)
  \/ StreamFails(r) \/ SendCommit(r) \/ FlushFails(r) \/ Wait(r) \/ Abort(r)
  \/ CsvSpill(r) \/ CsvFlush(r) \/ CsvFlushFails(r)
Client(r)  == CliSchema(r) \/ CliRow(r) \/ CliCommit(r) \/ CliEnd(r)
Backend(r) == ServerCommit(r) \/ ServerDrops(r)
Fault(r)   ==
  \/ Refuse(r) \/ StartFails(r) \/ StreamBreaks(r) \/ CloseFails(r) \/ Killed(r)
  \/ CliStops(r) \/ SqliteGoesOn(r) \/ CliDies(r)

Next ==
  \E r \in Runs :
    (\E f \in Traces : Begin(r, f)) \/ Exporter(r) \/ Client(r) \/ Backend(r) \/ Fault(r)

\* All processes are scheduled; nothing need fail.
Spec ==
  /\ Init /\ [][Next]_vars
  /\ \A r \in Runs : WF_vars(Exporter(r)) /\ WF_vars(Client(r)) /\ WF_vars(Backend(r))

-----------------------------------------------------------------------------
\* Every variable keeps its type.
TypeOK ==
  /\ kind \in Kinds /\ db \in BOOLEAN
  /\ \A r \in Runs :
       /\ ex[r].pc \in {"new", "check", "create", "start", "stream", "wait", "abort", "returned"}
       /\ ex[r].result \in {"none", "ok", "error", "killed"}
       /\ ex[r].pos \in 1 .. Len(ex[r].input) + 1
       /\ cl[r].state \in {"none", "running", "ok", "failed"}
       /\ cl[r].done \in 0 .. Len(ex[r].sent)
       /\ cl[r].commit \in {"no", "asked", "done", "dropped"}

Added(r)   == Picked(table, {i \in DOMAIN table : table[i].run = r})
Overtaken(r) == \E q \in Runs : q > r /\ ~At(q, "new")

\* An export that reports success has added every record of its input, once and in
\* order, whatever runs beside it; for csv and sqlite the output then holds
\* nothing else (an earlier run leaves no rows behind) until the next run begins.
\* The exception is an output that is its own input.
OkMeansComplete ==
  \A r \in Runs : ex[r].result = "ok" /\ ~ex[r].own =>
    IF Replaces THEN Overtaken(r) \/ table = RowsOf(r, ex[r].trace)
                ELSE Added(r) = RowsOf(r, ex[r].trace)

\* The transaction around the inserts: whatever fails and whenever, mysql and
\* postgres hold all the rows of a run or none of them, and none unless the
\* exporter has got as far as COMMIT.
AllOrNothing ==
  Server => \A r \in Runs :
    \/ Added(r) = <<>>
    \/ Added(r) = RowsOf(r, ex[r].trace) /\ Contains(ex[r].sent, Commit(r))

\* Every export returns, whatever becomes of the client, although a write may have
\* to wait for a full pipe and in postgres an export for another one's transaction.
ExportReturns == \A r \in Runs : ~At(r, "new") ~> At(r, "returned")

(***************************************************************************)
(* Refinement.  csv and sqlite promise less: they map to no run at all.    *)
(***************************************************************************)
Landed(r) == cl[r].commit = "done"

absStatus == [r \in Runs |->
  IF ~Server \/ At(r, "new") THEN "new"
  ELSE IF ex[r].result = "ok" THEN "ok"
  ELSE IF ex[r].result = "error"
    THEN IF cl[r].commit \in {"asked", "dropped"} THEN "unknown" ELSE "error"
  ELSE IF cl[r].commit = "no" THEN "open"
  ELSE IF Landed(r) THEN "loaded" ELSE "asked"]

absWant == [r \in Runs |->
  IF ~Server \/ At(r, "new") THEN <<>> ELSE RowsOf(r, ex[r].trace)]

Abstract == INSTANCE AtomicLoad WITH
  Loads <- {RowsOf(r, f.lines) : r \in Runs, f \in Traces},
  rows <- IF Server THEN table ELSE <<>>, want <- absWant, status <- absStatus

\* mysql and postgres exports implement AtomicLoad: the rows of a run appear in one
\* step, before success is reported, and after an error has been reported only if
\* the server had been asked to COMMIT by then.
ImplementsAtomicLoad == Abstract!Spec
=============================================================================
