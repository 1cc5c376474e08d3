------------------------------ MODULE EventLog ------------------------------
(***************************************************************************)
(* JsonlCheckpointStore (checkpoint_store.py): the append-only events.jsonl *)
(* that is the truth about the checkpoint, the index file that caches its  *)
(* last checkpoint event, and the state.json snapshot it is migrated from. *)
(*                                                                         *)
(* The file is a sequence of tokens.  An append writes a record and a      *)
(* newline; a write that is cut short leaves a fragment, or the record     *)
(* without its newline.  Offsets are numbers of tokens, so a row is one    *)
(* line, and one that starts inside a line can be read as well.            *)
(*                                                                         *)
(* Procs are processes that hold a store: the service, the fallback, an    *)
(* operator's command.  No lock covers the log or the index.               *)
(***************************************************************************)
EXTENDS Naturals, Sequences, FiniteSetsExt

CONSTANTS
    Procs,      \* processes that use the store
    Ids,        \* message ids that are committed
    None,       \* checkpoint: null
    MaxLog,     \* size of the disk, in tokens: bounds the log
    MaxFaults   \* bound on failed or torn writes, lost index updates, crashes

ASSUME NoneIsNoId == None \notin Ids
ASSUME BoundsNat  == MaxLog \in Nat /\ MaxFaults \in Nat

VARIABLES
    log,      \* events.jsonl
    index,    \* events.jsonl.checkpoint.index.json
    snap,     \* last_message_id in state.json
    legacy,   \* what snap was before this version ran (specification only)
    acked,    \* size of the log when the last append returned (specification only)
    pc, job,  \* what every process is doing
    faults

vars == <<log, index, snap, legacy, acked, pc, job, faults>>

Checkpoint == Ids \union {None}

Record(event, c) == [event |-> event, checkpoint |-> c]

Records  == {Record("checkpoint", c) : c \in Checkpoint} \union {Record("other", None)}
NewLine  == Record("newline", None)
Fragment == Record("fragment", None)

NoIndex == [checkpoint |-> None, offset |-> MaxLog + 1, eof |-> 0]

Indexes == [checkpoint: Checkpoint, offset: 0..(MaxLog + 1), eof: 0..MaxLog]

Jobs == [mode: {"load", "append", "bootstrap", "rebuild"},
         idx: Indexes,          \* the index payload this process has read
         from: 0..MaxLog,       \* where its scan of the log begins
         size: 0..MaxLog,       \* the file size the scan compares tails with
         rec: Records,          \* the event it appends
         new: Indexes,          \* the index payload it is about to write
         since: 0..MaxLog,      \* acked when the load began
         result: Checkpoint]    \* what load_checkpoint returned

IdleJob == [mode |-> "load", idx |-> NoIndex, from |-> 0, size |-> 0,
            rec |-> Record("other", None), new |-> NoIndex, since |-> 0,
            result |-> None]

-----------------------------------------------------------------------------
(* Reading the log.                                                         *)

Size == Len(log)

LineStarts(from) == {o \in from..(Size - 1) : o = from \/ log[o] = NewLine}

LineEnd(o) == Min({i \in (o + 1)..Size : log[i] = NewLine} \union {Size})

Blank(o) == log[o + 1] = NewLine

\* json.loads succeeds: the line holds one record and nothing else.
Parses(o) == log[o + 1] \in Records /\ (o + 2 <= Size => log[o + 2] = NewLine)

\* The line _load_jsonl_entries stumbles over: unreadable and not the tail,
\* where the tail is the line that ends at the size taken before the scan.
\* (Mutant: no tolerance for the tail.)
CorruptAnywhere(from, size) == \E o \in LineStarts(from) : ~Blank(o) /\ ~Parses(o)

Corrupt(from, size) ==
    \E o \in LineStarts(from) : ~Blank(o) /\ ~Parses(o) /\ LineEnd(o) # size

\* _find_last_checkpoint_entry over the entries of a scan.
CheckpointRows(from) ==
    {o \in LineStarts(from) : Parses(o) /\ log[o + 1].event = "checkpoint"}

HasEntries(from) == \E o \in LineStarts(from) : Parses(o)

LastRow(rows) == Max(rows)

\* _validate_checkpoint_index: the row the index points at is the checkpoint
\* event it was made from.
ValidIndex(i) ==
    /\ i.offset < Size
    /\ Parses(i.offset)
    /\ log[i.offset + 1] = Record("checkpoint", i.checkpoint)

-----------------------------------------------------------------------------

InitCommon ==
    /\ log = <<>>
    /\ index = NoIndex
    /\ legacy = snap
    /\ acked = 0
    /\ pc = [p \in Procs |-> "idle"]
    /\ job = [p \in Procs |-> IdleJob]
    /\ faults = 0

\* A new installation, or one whose checkpoint is still in state.json.
Init == snap \in Checkpoint /\ InitCommon

Goto(p, label) == pc' = [pc EXCEPT ![p] = label]

Fault == faults < MaxFaults /\ faults' = faults + 1

files == <<log, index, snap, legacy, acked>>

Forget(p) == job' = [job EXCEPT ![p] = IdleJob]

\* load_checkpoint returns.
Loaded(p, c) ==
    /\ job' = [job EXCEPT ![p] = [IdleJob EXCEPT !.since = job[p].since, !.result = c]]
    /\ Goto(p, "loaded")

\* load_checkpoint begins by reading the index file.
Load(p) ==
    /\ pc[p] = "idle"
    /\ job' = [job EXCEPT ![p] = [IdleJob EXCEPT !.idx = index, !.since = acked]]
    /\ Goto(p, "check")
    /\ UNCHANGED <<files, faults>>

\* The CLI's index rebuild scans the whole file.
Rebuild(p) ==
    /\ pc[p] = "idle"
    /\ job' = [job EXCEPT ![p] = [IdleJob EXCEPT !.mode = "rebuild", !.size = Size]]
    /\ Goto(p, "scan")
    /\ UNCHANGED <<files, faults>>

\* The index is current: its checkpoint is the answer.
\* (Mutant: the file size is not compared.)
IndexHitOnRow(p) ==
    LET i == job[p].idx IN
    /\ pc[p] = "check"
    /\ ValidIndex(i)
    /\ i.checkpoint # None
    /\ Loaded(p, i.checkpoint)
    /\ UNCHANGED <<files, faults>>

IndexHit(p) ==
    LET i == job[p].idx IN
    /\ pc[p] = "check"
    /\ ValidIndex(i)
    /\ Size = i.eof
    /\ i.checkpoint # None
    /\ Loaded(p, i.checkpoint)
    /\ UNCHANGED <<files, faults>>

\* The log has grown: scan what was appended behind the index.
IndexBehind(p) ==
    LET i == job[p].idx IN
    /\ pc[p] = "check"
    /\ ValidIndex(i)
    /\ Size > i.eof
    /\ job' = [job EXCEPT ![p].from = i.eof, ![p].size = Size]
    /\ Goto(p, "scan")
    /\ UNCHANGED <<files, faults>>

\* No usable index, or one without a message id: scan the whole log.
IndexMiss(p) ==
    LET i == job[p].idx IN
    /\ pc[p] = "check"
    /\ ~ValidIndex(i) \/ Size < i.eof \/ (Size = i.eof /\ i.checkpoint = None)
    /\ job' = [job EXCEPT ![p].idx = NoIndex, ![p].from = 0, ![p].size = Size]
    /\ Goto(p, "scan")
    /\ UNCHANGED <<files, faults>>

\* A scan raises CheckpointError.
ScanRaises(p) ==
    /\ pc[p] = "scan"
    /\ Corrupt(job[p].from, job[p].size)
    /\ job' = [job EXCEPT ![p] = [IdleJob EXCEPT !.size = job[p].size]]
    /\ Goto(p, "raised")
    /\ UNCHANGED <<files, faults>>

\* The index payload a scan leads to: its last checkpoint event, or the row
\* known before with the new size.  (Mutant: what was found is not noted.)
PayloadWithoutRows(rows, j) == [j.idx EXCEPT !.eof = j.size]

Payload(rows, j) ==
    IF rows = {} THEN [j.idx EXCEPT !.eof = j.size]
    ELSE [checkpoint |-> log[LastRow(rows) + 1].checkpoint,
          offset |-> LastRow(rows), eof |-> j.size]

\* The scan found the checkpoint, or, behind a usable index, nothing newer.
ScanFinds(p) ==
    LET j == job[p]
        rows == CheckpointRows(j.from)
    IN
    /\ pc[p] = "scan"
    /\ ~Corrupt(j.from, j.size)
    /\ rows # {} \/ j.idx # NoIndex
    /\ job' = [job EXCEPT ![p].new = Payload(rows, j)]
    /\ Goto(p, "index")
    /\ UNCHANGED <<files, faults>>

\* No checkpoint in the log: what state.json has is the answer, and becomes
\* the first event of an empty log.
ScanFindsNothing(p) ==
    LET j == job[p] IN
    /\ pc[p] = "scan"
    /\ j.mode = "load"
    /\ ~Corrupt(j.from, j.size)
    /\ CheckpointRows(j.from) = {} /\ j.idx = NoIndex
    /\ IF snap # None /\ ~HasEntries(0)
         THEN /\ job' = [job EXCEPT ![p].mode = "bootstrap", ![p].result = snap,
                           ![p].rec = Record("checkpoint", snap),
                           ![p].new.offset = Size]
              /\ Goto(p, "append")
         ELSE Loaded(p, snap)
    /\ UNCHANGED <<files, faults>>

RebuildFindsNothing(p) ==
    /\ pc[p] = "scan"
    /\ job[p].mode = "rebuild"
    /\ ~Corrupt(0, job[p].size)
    /\ CheckpointRows(0) = {}
    /\ index' = NoIndex
    /\ Forget(p)
    /\ Goto(p, "idle")
    /\ UNCHANGED <<log, snap, legacy, acked, faults>>

\* Where a process continues after its index update: a load that learnt only
\* "no message id" behind the index reads the whole log after all.
AfterIndex(p) ==
    LET j == job[p]
        noId == j.new.checkpoint = None /\ j.idx # NoIndex
    IN
    \/ /\ j.mode = "load" /\ noId
       /\ job' = [job EXCEPT ![p].idx = NoIndex, ![p].from = 0, ![p].size = Size,
                             ![p].new = NoIndex]
       /\ Goto(p, "scan")
    \/ j.mode = "load" /\ ~noId /\ Loaded(p, j.new.checkpoint)
    \/ j.mode = "bootstrap" /\ Loaded(p, j.result)
    \/ j.mode = "rebuild" /\ Forget(p) /\ Goto(p, "idle")
    \/ j.mode = "append" /\ job' = job /\ Goto(p, "snapshot")

\* _CheckpointIndex.update: an atomic replace of the index file ...
UpdateIndex(p) ==
    /\ pc[p] = "index"
    /\ index' = job[p].new
    /\ AfterIndex(p)
    /\ UNCHANGED <<log, snap, legacy, acked, faults>>

\* ... that only logs a warning when it fails.
UpdateIndexFails(p) ==
    /\ pc[p] = "index"
    /\ Fault
    /\ AfterIndex(p)
    /\ UNCHANGED files

\* load_initial_sync_state reads the whole log once more before a run works.
LoadInitialSyncState(p) ==
    /\ pc[p] = "loaded"
    /\ job' = [job EXCEPT ![p].size = Size]
    /\ Goto(p, "sync")
    /\ UNCHANGED <<files, faults>>

InitialSyncStateLoaded(p) ==
    /\ pc[p] = "sync"
    /\ job' = [job EXCEPT ![p].size = 0]
    /\ Goto(p, IF Corrupt(0, job[p].size) THEN "raised" ELSE "ready")
    /\ UNCHANGED <<files, faults>>

\* _append_jsonl opens the file for appending; tell() is its size now.
\* A run whose store raised still records its failure.
Open(p, rec) ==
    /\ pc[p] = "ready" \/ (pc[p] = "raised" /\ rec.event = "other")
    /\ job' = [job EXCEPT ![p] = [IdleJob EXCEPT !.mode = "append", !.rec = rec,
                                     !.new = [NoIndex EXCEPT !.offset = Size]]]
    /\ Goto(p, "append")
    /\ UNCHANGED <<files, faults>>

Working(p) ==
    /\ job' = [job EXCEPT ![p] = [IdleJob EXCEPT !.mode = "append"]]
    /\ Goto(p, "ready")

\* write, flush, fsync: O_APPEND puts the record at the end of the file.
\* (Mutant: the append returns before anything is written.)
AppendRowBuffered(p) ==
    /\ pc[p] = "append"
    /\ Size + 2 <= MaxLog
    /\ acked' = Size + 2
    /\ Working(p)
    /\ UNCHANGED <<log, index, snap, legacy, faults>>

AppendRow(p) ==
    /\ pc[p] = "append"
    /\ Size + 2 <= MaxLog
    /\ log' = log \o <<job[p].rec, NewLine>>
    /\ acked' = Len(log')
    /\ IF job[p].rec.event = "checkpoint"
         THEN /\ job' = [job EXCEPT ![p].new.checkpoint = job[p].rec.checkpoint,
                                    ![p].new.eof = Len(log')]
              /\ Goto(p, "index")
         ELSE Working(p)
    /\ UNCHANGED <<index, snap, legacy, faults>>

\* What is in the file after an append that did not return.
TornAppend(rec) ==
    \E part \in {<<>>, <<Fragment>>, <<rec>>, <<rec, NewLine>>} :
        /\ Size + Len(part) <= MaxLog
        /\ log' = log \o part

\* The append raises OSError (an I/O error, fsync, or always on a full disk)
\* and the process lives on.
AppendRowFails(p) ==
    /\ pc[p] = "append"
    /\ IF Size + 2 > MaxLog THEN UNCHANGED faults ELSE Fault
    /\ TornAppend(job[p].rec)
    /\ IF job[p].mode = "bootstrap"
         THEN Forget(p) /\ Goto(p, "idle")
         ELSE Working(p)
    /\ UNCHANGED <<index, snap, legacy, acked>>

\* advance_checkpoint: the compatibility snapshot in state.json, best effort.
UpdateSnapshot(p) ==
    /\ pc[p] = "snapshot"
    /\ snap' \in {snap, job[p].rec.checkpoint}
    /\ Working(p)
    /\ UNCHANGED <<log, index, legacy, acked, faults>>

Finish(p) ==
    /\ pc[p] \in {"ready", "raised"}
    /\ Forget(p)
    /\ Goto(p, "idle")
    /\ UNCHANGED <<files, faults>>

\* The process is killed; a write in progress may be cut short.
Crash(p) ==
    /\ pc[p] # "idle"
    /\ Fault
    /\ IF pc[p] = "append" THEN TornAppend(job[p].rec) ELSE UNCHANGED log
    /\ Forget(p)
    /\ Goto(p, "idle")
    /\ UNCHANGED <<index, snap, legacy, acked>>

Next ==
    \E p \in Procs :
        \/ Load(p) \/ Rebuild(p)
        \/ IndexHit(p) \/ IndexBehind(p) \/ IndexMiss(p)
        \/ ScanRaises(p) \/ ScanFinds(p) \/ ScanFindsNothing(p)
        \/ RebuildFindsNothing(p)
        \/ UpdateIndex(p) \/ UpdateIndexFails(p)
        \/ LoadInitialSyncState(p) \/ InitialSyncStateLoaded(p)
        \/ \E rec \in Records : Open(p, rec)
        \/ AppendRow(p) \/ AppendRowFails(p)
        \/ UpdateSnapshot(p)
        \/ Finish(p)
        \/ Crash(p)

Spec == Init /\ [][Next]_vars

-----------------------------------------------------------------------------
(* Properties.                                                              *)

Labels == {"idle", "check", "scan", "index", "loaded", "sync", "ready",
           "append", "snapshot", "raised"}

TypeOK ==
    /\ log \in Seq(Records \union {NewLine, Fragment}) /\ Size <= MaxLog
    /\ index \in Indexes
    /\ snap \in Checkpoint
    /\ legacy \in Checkpoint
    /\ acked \in 0..Size
    /\ pc \in [Procs -> Labels]
    /\ job \in [Procs -> Jobs]
    /\ faults \in 0..MaxFaults

\* Nothing was appended behind a torn write: at most the tail is damaged, by
\* one write.
Clean == \A o \in LineStarts(0) : Blank(o) \/ Parses(o) \/ o + 1 = Size

\* The checkpoint the first k tokens of the log stand for.
CheckpointAt(k) ==
    LET rows == {o \in CheckpointRows(0) : o < k} IN
    IF rows = {} THEN legacy ELSE log[LastRow(rows) + 1].checkpoint

\* A load returns a checkpoint the log stood for at some moment since the
\* load began: never one older than an append that had returned before it,
\* whatever the index file said and whoever wrote to the log meanwhile.
LoadIsCurrent ==
    \A p \in Procs :
        pc[p] \in {"loaded", "sync", "ready"} /\ job[p].mode = "load" /\ Clean =>
            \E k \in job[p].since..Size : job[p].result = CheckpointAt(k)

\* Whatever index file is on disk, a load through it gives what a scan of the
\* whole log gives: the index is a cache that is never wrong.
IndexAnswer ==
    LET newer == CheckpointRows(index.eof) IN
    IF newer = {} THEN index.checkpoint ELSE log[LastRow(newer) + 1].checkpoint

IndexAgreesWithLog ==
    Clean /\ ValidIndex(index) /\ index.eof <= Size => IndexAnswer = CheckpointAt(Size)

\* A store refuses to read a log only when a line before the tail is damaged, or
\* when another process tore the tail after this one had taken the size.
RaisedOnlyWhenCorrupt ==
    \A p \in Procs : pc[p] = "raised" =>
        \E o \in LineStarts(0) : /\ ~Blank(o) /\ ~Parses(o)
                                 /\ o + 1 # Size \/ o >= job[p].size
=============================================================================
