----------------------------- MODULE RunSummary -----------------------------
(***************************************************************************)
(* runs.jsonl and the two caches of its last row and last success: the     *)
(* index runs.jsonl.summary.index.json and last_run_summary in state.json  *)
(* (checkpoint_store.py), with the commands that read, rebuild, archive    *)
(* and restore them (health.py, status/_doctor.py, retention.py).          *)
(*                                                                         *)
(* A row is one run; torn rows are EventLog's subject, which reads its log *)
(* with the same code.  Offsets and sizes are counted in rows.  The write  *)
(* of last_run_summary happens under the lock of state.json, see StateFile.*)
(***************************************************************************)
EXTENDS Naturals, Sequences, FiniteSets

CONSTANTS
    Runners,    \* processes that execute run_once
    Readers,    \* processes that execute --health-check
    Operators,  \* rebuild, archive and restore
    MaxRuns,    \* bound on the runs ever recorded
    MaxBusy,    \* bound on the processes at work at once
    MaxFaults   \* bound on failed writes and kills

ASSUME MaxRunsNat   == MaxRuns \in Nat
ASSUME MaxBusyNat   == MaxBusy \in Nat
ASSUME MaxFaultsNat == MaxFaults \in Nat
ASSUME Roles        == /\ Runners \intersect (Readers \union Operators) = {}
                       /\ Readers \intersect Operators = {}

Procs == Runners \union Readers \union Operators

Row == [run: 1..MaxRuns, ok: BOOLEAN]

\* What _normalize_summary keeps: the last run, and the last successful one.
Summary == [run: 0..MaxRuns, success: 0..MaxRuns]
NoSummary == [run |-> 0, success |-> 0]

\* The offset of a row is the number of rows before it.
Index == [summary: Summary, offset: 0..MaxRuns, eof: 0..MaxRuns]
NoIndex == [summary |-> NoSummary, offset |-> 0, eof |-> 0]

\* What there is of an archive; each has a label of its own.
NoArchive == [runs |-> <<>>, snapshot |-> NoSummary, index |-> NoIndex]

VARIABLES
    runs,          \* runs.jsonl
    index,         \* the summary index, NoIndex when there is no file
    snapshot,      \* last_run_summary in state.json
    archived,      \* the last archive: copies of the three, not all of one moment
    begun,         \* runs recorded so far, restored away or not
    pc, job,       \* what every process is doing
    faults,
    halfRestored,  \* a restore was begun and its rebuild has not ended
    exact          \* nothing failed or overlapped since the last rebuild
                   \* (both for the specification only)

disk    == <<runs, index, snapshot>>
history == <<archived, begun, halfRestored>>
vars    == <<disk, history, pc, job, faults, exact>>

Job == [summary: Summary, offset: 0..MaxRuns, eof: 0..MaxRuns, since: 0..MaxRuns,
        guess: BOOLEAN]
NoJob == [summary |-> NoSummary, offset |-> 0, eof |-> 0, since |-> 0, guess |-> FALSE]

Labels == {"idle", "opened", "appended", "measured", "index", "snapshot", "payload", "state", "scan",
           "answered", "copy_state", "copy_index", "put_state", "put_index", "rebuild"}

Init ==
    /\ runs = <<>> /\ index = NoIndex /\ snapshot = NoSummary
    /\ archived = NoArchive
    /\ begun = 0
    /\ pc = [p \in Procs |-> "idle"]
    /\ job = [p \in Procs |-> NoJob]
    /\ faults = 0
    /\ halfRestored = FALSE
    /\ exact = TRUE

AllIdle == \A p \in Procs : pc[p] = "idle"

\* Services are stopped while an operator restores (OPERATIONS.en.md, "Restore").
Restoring == halfRestored /\ \E p \in Operators : pc[p] # "idle"

\* A process may begin.
MayBegin(p) ==
    /\ pc[p] = "idle" /\ ~Restoring
    /\ Cardinality({q \in Procs : pc[q] # "idle"}) < MaxBusy

\* It begins beside others.
Overlap == exact' = (exact /\ AllIdle)

Goto(p, label) == pc' = [pc EXCEPT ![p] = label]
Fault == faults < MaxFaults /\ faults' = faults + 1 /\ exact' = FALSE
Calm == UNCHANGED <<faults, exact>>

-----------------------------------------------------------------------------
(* Summaries.                                                               *)

\* _summary_from_result and _summary_from_run_payload.  (Mutant: a failed run
\* counts as a success.)
ExtendedAlways(summary, row) == [run |-> row.run, success |-> row.run]
Extended(summary, row) ==
    [run |-> row.run, success |-> IF row.ok THEN row.run ELSE summary.success]

\* _build_summary_from_runs.  (Mutant: the first success is taken.)
BuiltFromFirst(rows) ==
    LET ok == {k \in DOMAIN rows : rows[k].ok} IN
    [run |-> rows[Len(rows)].run,
     success |-> IF ok = {} THEN 0
                 ELSE rows[CHOOSE k \in ok : \A i \in ok : k <= i].run]
Built(rows) ==
    LET ok == {k \in DOMAIN rows : rows[k].ok} IN
    [run |-> rows[Len(rows)].run,
     success |-> IF ok = {} THEN 0
                 ELSE rows[CHOOSE k \in ok : \A i \in ok : i <= k].run]

\* The rows behind the first `from`, taken into a summary one after the other.
CaughtUp(summary, from) ==
    LET upTo[k \in from..Len(runs)] ==
            IF k = from THEN summary ELSE Extended(upTo[k - 1], runs[k])
    IN upTo[Len(runs)]

\* scan_runs_jsonl.
Scanned == CaughtUp(NoSummary, 0)

\* What an index says of the log is true: the row at its offset is of its run,
\* and the log is as long as it was.
Fits(i) ==
    /\ i.offset + 1 \in DOMAIN runs /\ runs[i.offset + 1].run = i.summary.run
    /\ i.eof <= Len(runs)

-----------------------------------------------------------------------------
(* append_run_result, at the end of every run.                              *)

\* The log is opened, and its size taken for the offset of the row to come.
Open(r) ==
    /\ MayBegin(r)
    /\ begun < MaxRuns
    /\ job' = [job EXCEPT ![r] = [NoJob EXCEPT !.offset = Len(runs)]]
    /\ Goto(r, "opened")
    /\ Overlap
    /\ UNCHANGED <<disk, history, faults>>

\* Another's row may have come in between.  Where its own row ends is read after
\* it is written.
AppendRun(r) ==
    /\ pc[r] = "opened"
    /\ begun < MaxRuns
    /\ begun' = begun + 1
    /\ \E ok \in BOOLEAN : runs' = Append(runs, [run |-> begun', ok |-> ok])
    /\ job' = [job EXCEPT ![r].eof = Len(runs')]
    /\ Goto(r, "appended")
    /\ Calm
    /\ UNCHANGED <<index, snapshot, archived, halfRestored>>

\* The cached summary is taken as it is, without the rows behind it.
ReadPrevious(r) ==
    /\ pc[r] = "appended"
    /\ LET previous == IF index # NoIndex THEN index.summary ELSE snapshot IN
       job' = [job EXCEPT ![r].summary = Extended(previous, runs[job[r].eof])]
    /\ Goto(r, "index")
    /\ Calm
    /\ UNCHANGED <<disk, history>>

\* (Mutant: the size is one too large.)
IndexEntryTooFar(p) ==
    [summary |-> job[p].summary, offset |-> job[p].offset, eof |-> job[p].eof + 1]
IndexEntry(p) ==
    [summary |-> job[p].summary, offset |-> job[p].offset, eof |-> job[p].eof]

\* From here on the place of the row does not matter.
AfterIndex(p) ==
    /\ Goto(p, "snapshot")
    /\ job' = [job EXCEPT ![p].offset = 0, ![p].eof = 0]

WriteIndex(p) ==
    /\ pc[p] = "index"
    /\ index' = IndexEntry(p)
    /\ AfterIndex(p)
    /\ Calm
    /\ UNCHANGED <<runs, snapshot, history>>

\* The failure is logged, nothing else.
WriteIndexFails(p) ==
    /\ pc[p] = "index"
    /\ Fault
    /\ AfterIndex(p)
    /\ UNCHANGED <<disk, history>>

\* An operator's rebuild ends here, a reader answers.
AfterSnapshot(p) ==
    /\ Goto(p, IF p \in Readers THEN "answered" ELSE "idle")
    /\ job' = [job EXCEPT ![p] = IF p \in Readers THEN @ ELSE NoJob]

WriteSnapshot(p) ==
    /\ pc[p] = "snapshot"
    /\ snapshot' = job[p].summary
    /\ AfterSnapshot(p)
    /\ halfRestored' = (halfRestored /\ ~(p \in Operators /\ exact))
    /\ Calm
    /\ UNCHANGED <<runs, index, archived, begun>>

WriteSnapshotFails(p) ==
    /\ pc[p] = "snapshot"
    /\ Fault
    /\ AfterSnapshot(p)
    /\ UNCHANGED <<disk, history>>

-----------------------------------------------------------------------------
(* load_last_run_summary.                                                   *)

Load(p) ==
    /\ MayBegin(p)
    /\ job' = [job EXCEPT ![p] = [NoJob EXCEPT !.summary = index.summary,
                   !.offset = index.offset, !.eof = index.eof, !.since = Len(runs)]]
    /\ Goto(p, IF index = NoIndex THEN "state" ELSE "payload")
    /\ Overlap
    /\ UNCHANGED <<disk, history, faults>>

\* The index and the rows behind it.  (Mutant: the index alone.)
IndexAlone(p) == job[p].summary
Current(p) == CaughtUp(job[p].summary, job[p].eof)

\* The size the log had at some moment between the question and the end of the
\* scan: _load_jsonl_entries takes it first, and reads what came after it, too.
Measured(p) == job[p].since..Len(runs)

LoadThroughIndex(p) ==
    /\ pc[p] = "payload"
    /\ Fits(IndexEntry(p))
    /\ IF job[p].eof = Len(runs)
         THEN AfterIndex(p)
         ELSE /\ \E size \in Measured(p) :
                  /\ size > job[p].eof
                  /\ job' = [job EXCEPT ![p].summary = Current(p), ![p].eof = size,
                                        ![p].offset = Len(runs) - 1]
              /\ Goto(p, "index")
    /\ Calm
    /\ UNCHANGED <<disk, history>>

IndexRefused(p) ==
    /\ pc[p] = "payload"
    /\ ~Fits(IndexEntry(p))
    /\ job' = [job EXCEPT ![p] = [NoJob EXCEPT !.since = job[p].since]]
    /\ Goto(p, "state")
    /\ Calm
    /\ UNCHANGED <<disk, history>>

\* state.json is believed without a look at runs.jsonl.
LoadFromState(p) ==
    /\ pc[p] = "state"
    /\ snapshot # NoSummary
    /\ job' = [job EXCEPT ![p] = [NoJob EXCEPT !.summary = snapshot, !.guess = TRUE]]
    /\ Goto(p, "answered")
    /\ Calm
    /\ UNCHANGED <<disk, history>>

StateHasNone(p) ==
    /\ pc[p] = "state"
    /\ snapshot = NoSummary
    /\ Goto(p, "scan")
    /\ Calm
    /\ UNCHANGED <<disk, history, job>>

\* The summary of the whole log, and where its last row begins.
FromScan(p, size) ==
    [job[p] EXCEPT !.summary = Built(runs), !.offset = Len(runs) - 1, !.eof = size]

ScanRuns(p) ==
    /\ pc[p] = "scan"
    /\ IF runs = <<>>
         THEN job' = [job EXCEPT ![p].summary = NoSummary] /\ Goto(p, "answered")
         ELSE /\ \E size \in Measured(p) : job' = [job EXCEPT ![p] = FromScan(p, size)]
              /\ Goto(p, "index")
    /\ Calm
    /\ UNCHANGED <<disk, history>>

Report(p) ==
    /\ pc[p] = "answered"
    /\ Goto(p, "idle")
    /\ job' = [job EXCEPT ![p] = NoJob]
    /\ Calm
    /\ UNCHANGED <<disk, history>>

-----------------------------------------------------------------------------
(* --rebuild-indexes, --archive-runtime, --restore-runtime.                  *)

\* A rebuild makes up for what failed before it, unless a run goes on beside it.
\* It takes the size of the log first.
Measure(p) ==
    /\ pc[p] = "rebuild" \/ MayBegin(p)
    /\ exact' = \A q \in Procs \ {p} : pc[q] = "idle"
    /\ job' = [job EXCEPT ![p] = [NoJob EXCEPT !.eof = Len(runs)]]
    /\ Goto(p, "measured")
    /\ UNCHANGED <<disk, history, faults>>

Rebuild(p) ==
    /\ pc[p] = "measured"
    /\ runs # <<>>
    /\ job' = [job EXCEPT ![p] = FromScan(p, job[p].eof)]
    /\ Goto(p, "index")
    /\ Calm
    /\ UNCHANGED <<disk, history>>

\* There was no log when it was looked for.
RebuildNothing(p) ==
    /\ pc[p] = "measured"
    /\ job[p].eof = 0
    /\ index' = NoIndex
    /\ Goto(p, "idle")
    /\ Calm
    /\ UNCHANGED <<runs, snapshot, history, job>>

ArchiveRuns(p) ==
    /\ MayBegin(p)
    /\ archived' = [NoArchive EXCEPT !.runs = runs]
    /\ Goto(p, "copy_state")
    /\ Calm
    /\ UNCHANGED <<disk, begun, halfRestored, job>>

ArchiveState(p) ==
    /\ pc[p] = "copy_state"
    /\ archived' = [archived EXCEPT !.snapshot = snapshot]
    /\ Goto(p, "copy_index")
    /\ Calm
    /\ UNCHANGED <<disk, begun, halfRestored, job>>

ArchiveIndex(p) ==
    /\ pc[p] = "copy_index"
    /\ archived' = [archived EXCEPT !.index = index]
    /\ Goto(p, "idle")
    /\ Calm
    /\ UNCHANGED <<disk, begun, halfRestored, job>>

\* A file that is not in the archive stays as it is.
RestoreRuns(p) ==
    /\ AllIdle
    /\ archived.runs # <<>>
    /\ runs' = archived.runs
    /\ halfRestored' = TRUE
    /\ Goto(p, "put_state")
    /\ Calm
    /\ UNCHANGED <<index, snapshot, archived, begun, job>>

RestoreState(p) ==
    /\ pc[p] = "put_state"
    /\ snapshot' \in {archived.snapshot} \union
                     (IF archived.snapshot = NoSummary THEN {snapshot} ELSE {})
    /\ Goto(p, "put_index")
    /\ Calm
    /\ UNCHANGED <<runs, index, history, job>>

RestoreIndex(p) ==
    /\ pc[p] = "put_index"
    /\ index' = IF archived.index = NoIndex THEN index ELSE archived.index
    /\ Goto(p, "rebuild")
    /\ Calm
    /\ UNCHANGED <<runs, snapshot, history, job>>

-----------------------------------------------------------------------------

Crash(p) ==
    /\ pc[p] # "idle"
    /\ Fault
    /\ Goto(p, "idle")
    /\ job' = [job EXCEPT ![p] = NoJob]
    /\ UNCHANGED <<disk, history>>

WriteFails(p) == WriteIndexFails(p) \/ WriteSnapshotFails(p)

Write(p) == WriteIndex(p) \/ WriteSnapshot(p)

Read(p) ==
    \/ Load(p) \/ LoadThroughIndex(p) \/ IndexRefused(p)
    \/ LoadFromState(p) \/ StateHasNone(p) \/ ScanRuns(p) \/ Report(p)

Operate(p) ==
    \/ Measure(p) \/ Rebuild(p) \/ RebuildNothing(p) \/ ArchiveRuns(p) \/ ArchiveState(p) \/ ArchiveIndex(p)
    \/ RestoreRuns(p) \/ RestoreState(p) \/ RestoreIndex(p)

Next ==
    \/ \E r \in Runners : Open(r) \/ AppendRun(r) \/ ReadPrevious(r)
    \/ \E p \in Readers : Read(p)
    \/ \E p \in Operators : Operate(p)
    \/ \E p \in Procs : Write(p) \/ WriteFails(p) \/ Crash(p)

Spec == Init /\ [][Next]_vars

-----------------------------------------------------------------------------
(* Properties.                                                              *)

TypeOK ==
    /\ runs \in Seq(Row)
    /\ index \in Index
    /\ snapshot \in Summary
    /\ archived \in [runs: Seq(Row), snapshot: Summary, index: Index]
    /\ begun \in 0..MaxRuns
    /\ pc \in [Procs -> Labels]
    /\ job \in [Procs -> Job]
    /\ faults \in 0..MaxFaults
    /\ halfRestored \in BOOLEAN /\ exact \in BOOLEAN

\* A summary speaks of runs that are in the log, and calls only those a success
\* that were one.
Sound(summary) ==
    summary # NoSummary =>
        \E k \in DOMAIN runs :
            /\ runs[k].run = summary.run
            /\ summary.success = 0
               \/ \E i \in DOMAIN runs : runs[i].ok /\ runs[i].run = summary.success

\* The row of an index's run ends no earlier than the index says, and does not
\* begin earlier either.
SkipsNothing(i) ==
    \E k \in DOMAIN runs : runs[k].run = i.summary.run /\ i.offset < k /\ i.eof <= k

\* Whatever is cut short or overlaps, what the caches and the health check say
\* is never made up: it is about recorded runs, unless a restore was cut short.
\* The offset of an index may be wrong, another's row having come in between, and
\* so may its size; but it never skips a row: who believes it and catches up
\* from where it ends sees every run after the one it is about.
CachesAreSound ==
    ~halfRestored =>
        /\ Sound(snapshot) /\ Sound(index.summary)
        /\ index = NoIndex \/ SkipsNothing(index)
        /\ \A p \in Readers : pc[p] = "answered" => Sound(job[p].summary)

\* An answer that goes through the index or the log names the last run that was
\* recorded before the question, or a later one.
AnswerNamesLastRun ==
    ~halfRestored =>
        \A p \in Readers :
            pc[p] = "answered" /\ ~job[p].guess /\ job[p].since > 0
                => job[p].summary.run >= runs[job[p].since].run

\* run_summary_state_consistent and run_summary_index_consistent of --doctor.
Doctor ==
    /\ snapshot = Scanned
    /\ index = NoIndex \/ (Fits(index) /\ index.summary = Scanned)

\* After a rebuild that nothing disturbed, and for as long as no write fails and
\* no two processes overlap, --doctor has nothing to complain of (OPERATIONS.en.md:
\* rebuild, then expect "status: ok").
DoctorAccepts == exact /\ AllIdle => Doctor
=============================================================================
