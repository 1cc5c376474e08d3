# TLA+ models of amazon-notify

amazon-notify watches a Gmail inbox, posts the mail that matches a pattern to a
Discord webhook, and remembers how far it got in an append-only event log.  It
runs as a main service (Pub/Sub StreamingPull or plain polling), with a
timer-driven watchdog that polls as a fallback, and with commands an operator
starts by hand.  All of them are separate processes over one set of files, and
no lock excludes one from another for the length of a run.

The modules here model the parts of that system in which a mail can be lost,
notified twice or left waiting, and in which the system can lose track of its
own failures.  TLC checks them on small instances.  TLAPS proves, for every
value of the constants, the type invariants, the safety invariants and the action
properties of all of them, under the conditions section 5 names; liveness is left
to TLC.

Paths are relative to `src/amazon_notify/` of the source tree unless they begin
with `docs/`, `deployment/`, `tests/`, `README.md` or `CHANGELOG.md`.

1. [The system](#1-the-system)
2. [The modules](#2-the-modules)
3. [What is checked](#3-what-is-checked)
4. [Fairness](#4-fairness)
5. [What is proved](#5-what-is-proved)
6. [What the code does differently from its documents](#6-what-the-code-does-differently-from-its-documents)
7. [What is not modelled](#7-what-is-not-modelled)
8. [Plan](#8-plan)
9. [Running the checks](#9-running-the-checks)

## 1. The system

### Components

| Component | State it keeps | Operations | Interacts with |
|---|---|---|---|
| Notification pipeline (`pipeline.py`, `gmail_source.py`, `domain.py`) | one `_RunState` per run, in memory | `run_once`: recover, initial sync, list, classify, deliver, commit, persist the result | calls source, store and notifier; started by polling, the streaming worker, `--once`, the fallback |
| Event log (`checkpoint_store.py`) | `events.jsonl`, its checkpoint index, the snapshot keys of `state.json` | load, append, rebuild the index | every process, without a lock |
| Run summaries (`checkpoint_store.py`) | `runs.jsonl`, its summary index, `last_run_summary` in `state.json` | append a run, load, rebuild | runs, health check, doctor, archive and restore |
| Discord notifier (`discord_client.py`) | `.discord_dedupe_state.json` | claim, post with retries, settle, prune | every process, under a file lock |
| StreamingPull runtime (`streaming_pull.py`, `commands/streaming.py`) | stop and trigger events, pending notification, last history id, counters and heartbeat snapshot of one session; heartbeat file | callbacks, worker thread, main loop, reconnect | Pub/Sub threads, pipeline, systemd |
| Failover watchdog (`failover.py`, `commands/polling.py`, `commands/watch.py`) | watchdog keys of `state.json` | judge the main service, alert, poll instead, recover | heartbeat, `systemctl`, `state.json`, pipeline |
| Incident lifecycle (`notifier.py`, `incident_store.py`) | incident keys of `state.json`, incident events in the log | open, suppress, recover | lock of `state.json`, event log, Discord |
| Transient and token issues (`gmail_transient_state.py`) | transient and token keys of `state.json` | record, alert, announce recovery | lock of `state.json`, Discord |
| Gmail client and authentication (`gmail_client.py`, `gmail_auth.py`, `gmail_api.py`, `errors.py`) | `token.json` | load, refresh with retries, rewrite, build the service, classify errors | source, `--reauth` |
| Backoff (`backoff.py`) | none | exponential delay with jitter | reconnects, retries |
| Configuration (`config.py`, `runtime.py`) | `config.json`, environment | read, validate, resolve paths; `load_state`, `save_state` | everything |
| Retention (`retention.py`, `commands/retention.py`) | archive directory | plan, archive, restore, drill | all logs, indexes and `state.json` |
| Verification and scenarios (`verify_state.py`, `scenario_harness.py`, `scenarios/`) | none | replay the logs, compare with `state.json` and indexes | reads all files |
| Status, doctor, health, metrics (`status/`, `health.py`, `metrics.py`) | none of their own | report; a read may rewrite the summary caches | reads all files |
| Command line (`cli.py`, `commands/arguments.py`, `commands/dispatch.py`, `commands/reauth.py`) | none | argument parsing, `run_once_with_guard`, signals | wires the rest |
| Text, time, external notifiers (`text.py`, `time_utils.py`, `notification_bridge.py`) | none | formatting | - |
| systemd deployment (`deployment/systemd/`) | unit files | `Restart=always`, fallback timer | processes |

### How they interact

A run (`NotificationPipeline.run_once`) is the unit of work.  It loads the
checkpoint from the event log, lists the inbox down to that checkpoint, and for
each mail, oldest first, classifies it, posts it if it matches, and appends a
checkpoint event: *the append is the commit*.  Everything else it writes is
derived: the snapshot in `state.json`, the two index files, the run summary.
When the run is over, `notifier.py` compares its failure kind with the active
incident in `state.json` and opens, suppresses or recovers an incident, with an
alert posted *before* the state is changed and an event appended *after*.

Runs are started by four kinds of process, and several of them inside one
process: the streaming service runs one at startup and one per trigger on the
worker thread of each session, and leaves a worker behind after five seconds
when a session ends.  The files are the only thing these runs share.
`state.json` and the dedupe file are guarded by `flock`s that are held for one
read-modify-write; `events.jsonl`, `runs.jsonl`, the indexes and `token.json`
have no lock.

### What is hard about it, and what must hold

| Component | Hard behaviour | What makes it correct |
|---|---|---|
| Pipeline | a failure, a kill or another run between any two steps; a checkpoint whose append raised but was written; the checkpoint's mail leaves the inbox | no hole behind the durable or the reported checkpoint; nothing behind it is notified again by one runner; mail is settled in the end |
| Event log | torn writes; a reader beside a writer; a stale index | a load is not older than an acknowledged append; the index agrees with the log; only real damage stops a load |
| Run summaries | a kill between append and caches; read-modify-write of two processes; offsets told and sizes taken before a row or a scan | caches speak of recorded runs only and skip none; answers are not behind; the doctor accepts a rebuild |
| Discord notifier | a clock read before a lock is waited for; claims that expire while their owner posts; pruning; a file that cannot be read | unexpired claims are exclusive, and there is no second post within the window, since the file was last taken for empty; what counts as notified was displayed, up to claims left unsettled |
| Streaming | the gap between the worker's wait and its clearing of the trigger; collapsed and redelivered notifications; workers of old sessions; a worker that dies | no lost wakeup; no lost trigger; all mail covered in the end; a session without a worker ends |
| Heartbeat | several threads, some of them left behind, write one file; a worker that hangs while other threads go on | judged healthy only when alive; a silent service is replaced by polling |
| Incidents, watchdog | decisions made from state read before a post; two files, one crash between them; one writer without the lock | log and state agree about recovered incidents; no lost update; outages open, recoveries close; the fallback polls and stops polling |
| Gmail access | two runs over one issue; a token written in place; messages that were not delivered | recovery follows alert; issues close; an unusable token is on record |

All hazards, each at its line and with the properties that would notice it, are
in `PROJECT.json` under `hazards`.

## 2. The modules

| Module | Models | Used with |
|---|---|---|
| `Frontier` | the abstract promise: a frontier that never has a hole behind it | refined by `Pipeline` |
| `Pipeline` | `run_once` with the source, the commit and the first synchronisation | `PipelineProofs` |
| `EventLog` | `JsonlCheckpointStore`: log, index, snapshot | `MCEventLog` (symmetry), `EventLogProofs` |
| `RunSummary` | run summaries, their caches, readers, archive and restore | `MCRunSummary` (symmetry), `RunSummaryProofs` |
| `Dedupe` | the dedupe file and its senders | `DeliveryProofs` |
| `Delivery` | `Pipeline` and `Dedupe` as one system, and what Discord displays | extends one, instance of the other; `DeliveryProofs` |
| `Streaming` | callbacks, worker and main thread over several sessions | `StreamingProofs` |
| `Heartbeat` | the snapshots in memory, their file, and the judge that reads it | `HeartbeatProofs` |
| `StateFile` | `state.json` with its lock, incident lifecycle, watchdog | `StateFileProofs` |
| `Failover` | `Heartbeat` and the watchdog of `StateFile` as one system | extends one, instance of the other; `HeartbeatProofs` |
| `GmailAccess` | token, transient and token issues | `GmailAccessProofs` |

They meet at the seams the code has.  `Pipeline` treats `ckpt` as one durable
value, a source that may fail and a notifier that answers yes or no; `EventLog`
shows what stands behind the durable value, `GmailAccess` behind the source,
`Dedupe` behind the notifier; `Delivery` puts pipeline and notifier together,
because "True" from the one does not mean to the other what it says.  `Streaming` treats a run as something that sees
all mail which arrived before it began, which is what `Pipeline` does.
`StateFile` takes over where a run has ended with a failure kind; its input
`healthy` is free there, and derived from `Heartbeat` in `Failover`.

In each module a variable is a file or a thread's local state under the name
the code gives it, where TLA+ permits, and an action is a section of the code
between two points where another process can get in: an append, a locked
section, a request.  Variables that exist only to state properties are marked
"specification only".  `PROJECT.json` lists for each definition the lines it
models.

**Pipeline.**  Mail is numbered by arrival; 0 is the absent checkpoint.  `ckpt`
is what `load_checkpoint` returns, `sync` the initial-sync events of the log,
`stateFile` whether `state.json` exists, `handled` the mail that the notifier
accepted or the classifier rejected.  `run[r]` is `_RunState` with `before` and
`after` (the reported checkpoints), `todo` (the rest of the source's generator)
and `cur`.  `ListMail` is `iter_new_messages`: `Pending` walks the pages to the
checkpoint or stops after the first page without one, `Oldest` reverses and then
cuts to `MaxMessages`.  `CommitFails` may or may not have written its event.
The incident handling after a run is in `StateFile`.

**EventLog.**  `log` is a sequence of tokens (record, newline, fragment), so
that a write may be cut inside a record or before its newline and a later
append continues the same line, as in the file.  `Load` reads the index,
`IndexHit` / `IndexBehind` / `IndexMiss` validate it and choose where to scan
from; `ScanRaises` is the refusal of a damaged line that is not the tail at the
size taken *before* the scan.  The size and the bytes are read at two moments.

**RunSummary.**  A row of `runs` is one run with its outcome.  `Open` (which tells
the offset), `AppendRun`, `ReadPrevious`, `WriteIndex`, `WriteSnapshot` are the five
steps of `append_run_result`: another service's row may come between the first
two, and then the index names one run and the place of another's row.  `Load` to
`Report` is a health check, which may rewrite the caches; `Measure` and `Rebuild`,
`ArchiveX` and `RestoreX` are the operator's commands, one copied file per action,
and an archive has a label of its own.  Whoever scans takes the size of the log
first and also reads what is appended after that (`Measured`), so an index may end
before the row it is about.  `SkipsNothing` is what the index keeps in spite of
both: its run's row lies behind its offset and not before its end, so who catches
up from there misses nothing, and who finds another's row at the offset
(`Fits`) does not use it.

**Dedupe.**  A sender reads the clock (`Send`), gets the lock up to `LockWait`
later (`Reserve`, with `Suppress` and `Bypass` for the two early answers),
posts with retries, and settles (`Finalize`).  A file that cannot be read or parsed
is taken for an empty one (`_read_dedupe_entries`): in `ReserveUnread` the sender
claims all the same and writes a file with nothing but its own claim, so that
every other claim and sent time is forgotten; at the end of a post it settles
nothing (`FinalizeFails`).  `claimants` are those who have claimed, `confirmed` the
times at which messages were settled as sent, both since the file was last taken
for empty.  `Pruned` drops expired claims,
entries past retention, and, in a full file, the oldest entries.

**Delivery.**  Every action is one of `Pipeline`, one of `Dedupe`, or one of each
at once, where the code returns from one into the other: `Suppressed` and
`Answered` are the two returns of `_post_webhook_with_dedupe` and carry the
pipeline's `DeliverOk` or `DeliverFails` with them; a kill ends both.  The key of
a claim is the mail, since the text names the mail's own URL (`KeysAreMail`), and
a runner is one sender; `stage` and `runFaults` are `Pipeline`'s `pc` and
`faults`.  `shown` is what
Discord displayed, a lost answer included; `vouched` is the mail a runner was
told True about because a claim on it was unsettled.

**Streaming.**  Each session has its own `stop`, `trigger`, `failed`, `pending`
and worker, as `_StreamingPullRunner.__init__` creates them anew.  A callback
takes three steps (queue, set the trigger, acknowledge); the worker's `Wake`
ends the wait, `Dequeue` takes the pending event and clears the trigger under the
lock.
`LoopChecksStop`, `LoopChecksWorker`, `ResultTimesOut` are the three steps of
the main loop, in the code's order.  The worker is started before the stream is
subscribed (`StartWorker`); when that raises (`ConnectFails`), nothing stops the
session, and its worker goes on beside those of later sessions until the process
ends.

**Heartbeat.**  A snapshot is the age of its two times in ticks, up to one past
the limit.  `Loop` is the only place that refreshes `worker_last_seen_at`;
`BeginRun`, `EndRun` and `Callback` refresh `updated_at`; `Rewrite`, the heartbeat
thread, refreshes nothing and writes the snapshot again.  A session that ends
while its worker is in a run leaves that worker in `left`, which writes its own
snapshot once more when the run ends (`last`).  A session whose subscribe raises
(`SubscribeFails`) leaves worker and heartbeat thread in `left` as they are, and
they go on looping, running and writing.  The actions of threads have a session
before and after the step as parameters, so that `now` and `left` share them.
Every write may fail and leave the old
file.  `Healthy` is `evaluate_main_health`; a host without `systemctl` is judged
by the heartbeat alone.  Time does not pass while a worker that is not in a run
has not polled (0.5 s in the code).

**StateFile.**  `LockAndLoad` takes the lock and reads, `Save` writes and
releases, `Append` logs the event afterwards.  The watchdog (`Watch`,
`WatchdogSaves`) does the same without the lock, with a post in between.  An
incident's number stands for `active_incident_at`.

**GmailAccess.**  `issue` holds the transient keys with ages in place of times,
`tokenIssue` the reason of the active token issue.  Messages are posted under
the lock in the code, so recording and alerting are one step that may be cut
short.  `Truncate` and `WriteToken` are the two steps of writing `token.json`
in place, `ReauthTruncates` and `ReauthWrites` those of `--reauth`; a writer that
finishes over another's text may leave a mixture of both (`Written`).

## 3. What is checked

Every property has a mutant in `PROJECT.json`: a plausible bug in a mapped
definition, under which TLC finds the property violated with the same bounds.

| Run | Instance | Properties | Shows |
|---|---|---|---|
| `pipeline_one` | 1 runner, 4 mails, at most 2 per run, 3 faults, new and running installations, both initial sync modes | `TypeOK` `NoGap` `FrontierNeverBack` `NothingBehindFrontierIsNotified` `EveryMailSettled` | no failure or crash makes one runner skip a mail, go back, or repeat what lies behind the checkpoint; mail is settled in the end |
| `pipeline_two` | service and fallback, 3 mails, pages of 1, 2 faults, running installation | `IInv` `ReportedCheckpointHasNoGap` `ImplementsFrontier` | overlapping runs keep the inductive invariant, report sound checkpoints, and implement `Frontier` |
| `log` | 2 processes, 4 tokens, 2 faults | `TypeOK` `LoadIsCurrent` `IndexAgreesWithLog` `RaisedOnlyWhenCorrupt` | reading and writing without a lock is safe up to one damaged tail |
| `summary` (`MCRunSummary`) | service, fallback, health check, operator, 3 at a time; 2 runs, 1 fault | `TypeOK` `CachesAreSound` `AnswerNamesLastRun` `DoctorAccepts` | caches may be behind, never made up; an index may misplace its row, never skip one; answers through log or index are current |
| `dedupe` | 2 senders, 1 message, window 3, claims of 2, lock delay 1, 2 faults | `TypeOK` `IInv` `ClaimsExclusive` `NoRepeatWithinWindow` | claims exclude each other in spite of stale clocks, and so do those taken after the file was lost |
| `delivery` | 2 overlapping runners, 2 mails, 1 message, window 2, claims of 1, a retry, 1 + 2 faults | `NotifiedWasShown` | nothing but an unsettled claim makes the pipeline commit a mail nobody saw |
| `streaming` | 2 mails, up to 3 sessions, 2 faults, 3 mails and faults together, 2 reconnects | `TypeOK` `NoLostWakeup` `AcceptedTriggersRun` `EveryMailCovered` `DeadWorkerEndsSession` | no wakeup is lost; collapsing and skipping lose no trigger; mail is seen by a successful run whatever is dropped; a dead worker ends its session |
| `incident` | 2 runners, 2 failure kinds, 2 incidents, 2 faults | `TypeOK` `RecoveredStaysClosed` `OtherKeysKept` `OutageOpens` `RecoveryCloses` | locked writers lose no update; log and state agree |
| `failover` | fallback, main service with one session left behind, limit of 1 tick, with and without `systemctl`, 1 fault | `IInv` `HealthyWasAlive` `StallIsPolled` `FailoverEnds` | a stalled or dead service is not taken for alive; the fallback polls while it must and stops being the failover |
| `gmail` | 2 runners and `--reauth`, threshold 2, cooldown 1, 2 attempts, 1 fault | `TypeOK` `RecoveryFollowsAlert` `IssueCloses` `TokenIssueReported` `TokenIssueCloses` | overlapping runs announce only what was alerted; issues open and close with their cause |
| `processed_unseen` | 1 runner, otherwise as `delivery` | `ProcessedWasShown` | *violated*, see section 6 |
| `transient_alert` | 1 runner, threshold 2, no faults | `PersistentFailureAlerted` | *violated*, see section 6 |

**Bounds, and why they are enough.**  Three or four mails with at most two per
run give runs that leave mail behind and a second run that continues; pages of
one make every listing cross a page boundary.  Faults are counted together
(failures, kills, redeliveries, dry runs), and two suffice for every pair: a
failed write and a kill, a kill in each of two processes.  Four tokens hold two
complete lines, or one with a torn write before or behind it.  The clock of
`dedupe` runs to 6, past the window plus the lock delay and past a second claim.
One more session than there are faults is all that can be reached, because a
session ends early only by a fault.  In `summary` two runs make the difference
between a cache of the last and of the last but one row, and at most three
processes are at work at once (`MaxBusy`): two services between whose steps a
third process reads, rebuilds or archives.  The two services are alike, which
is the run's symmetry; all its properties are safety.  In `incident` two
incidents let a slow recovery meet the next incident.  `MaxEvents` of `streaming`
counts mail and faults together and leaves out only that two mails and two
faults meet in one behaviour.  In `delivery` one mail is posted by two runners,
which is what claims are about, and the clock passes both the claim's end and
the window; a failed post costs a fault of each module.  `MaxAge` 1 lets a run
last a tick without becoming stale; the proofs are for every limit.  One session
left behind, by a slow run or by a failed subscribe, stands for several: each
writes its own snapshot and shares nothing but the file.

Deadlock checking is on in all runs.

## 4. Fairness

Nothing is assumed about the environment: mail need not arrive, Pub/Sub need
not deliver, Discord and Gmail need not answer well.  Faults are bounded, which
says that disturbances end, not when.  Assumed is

- `Pipeline`: weak fairness of a runner's undisturbed steps.  `run_polling_mode`
  loops for ever, every request has a timeout, and systemd restarts the process.
- `Streaming`: weak fairness of the main thread, of each worker and of each
  callback that runs: threads are scheduled, waits have timeouts, `Restart=always`.
- `Failover`: that of `StateFile` for the watchdog and its runs; nothing of the
  main service, not even that time passes.  `StallIsPolled` has as its premise
  that the service stays silent beyond the limit.
- `StateFile`: weak fairness of a process's own steps and of the timer; strong
  fairness of taking the lock, which is held for one write and tried again until
  a timeout, and of a run having an outcome at all while it also may write
  snapshots.  Which outcome is open; `OutageOpens` and `RecoveryCloses` state
  their assumption about outcomes as a premise.
- `GmailAccess`: weak fairness of a run's steps *including its failures*, so it
  goes on but need not succeed; strong fairness of `Tick`: time passes between
  runs again and again.

Safety runs use specifications without fairness.

## 5. What is proved

TLAPS proves, for any number of processes and every value of the bounds under
the named assumptions of each module:

| Theorem (module) | Statement |
|---|---|
| `TypeCorrect` (`PipelineProofs`) | `Spec => []TypeOK` |
| `Invariance` | `InstalledSpec => []IInv` |
| `NoGapTheorem` | `InstalledSpec => []NoGap` |
| `ReportedTheorem` | `InstalledSpec => []ReportedCheckpointHasNoGap` |
| `Refinement` | `InstalledSpec => ImplementsFrontier` |
| `FrontierTheorem`, `NotifiedAheadTheorem` | `Spec => FrontierNeverBack`, `Spec => NothingBehindFrontierIsNotified`, for one runner |
| `FirstStartTheorem`, `FirstStartRefinement` | `Spec /\ []OnePage => []NoGap`, `... => ImplementsFrontier`, for one runner |
| `TypeCorrect` (`EventLogProofs`) | `Spec => []TypeOK` |
| `LoadTheorem`, `IndexTheorem`, `RaisedTheorem` | `[]LoadIsCurrent`, `[]IndexAgreesWithLog`, `[]RaisedOnlyWhenCorrupt` |
| `RegisterTheorem` | `Spec => LogIsRegister` |
| `TypeCorrect` (`RunSummaryProofs`) | `Spec => []TypeOK` |
| `CachesTheorem`, `AnswerTheorem`, `DoctorTheorem` | `[]CachesAreSound` (with `SkipsNothing`), `[]AnswerNamesLastRun`, `[]DoctorAccepts` |
| `TypeCorrect` (`DeliveryProofs`, of `Dedupe`) | `Spec => []TypeOK` |
| `Invariance`, `Exclusive`, `NoRepeat` | `[]IInv`, `[]ClaimsExclusive`, `NoRepeatWithinWindow`, as long as `Cardinality(Keys) <= MaxEntries`; all three about claims taken and posts settled since the file was last taken for empty |
| `NotifiedTheorem` (`DeliveryProofs`, of `Delivery`) | `DeliverySpec => []NotifiedWasShown` |
| `ComposedPipeline`, `ComposedDedupe` | `DeliverySpec => P!InstalledSpec`, `DeliverySpec => Spec` |
| `ProcessedTheorem` | `DeliverySpec => []ProcessedWasAnswered` |
| `OneNotifiesTheorem` | `DeliverySpec => []OneNotifies`, as long as `Cardinality(Keys) <= MaxEntries` |
| `Typed`, `NeverLosesWakeup` (`StreamingProofs`) | `Spec => []TypeOK`, `Spec => []NoLostWakeup` |
| `AcceptedIsHeard` | `(NoHistory = {}) /\ Spec => []AcceptedTriggersRun` |
| `Invariance`, `Alive` (`HeartbeatProofs`, of `Heartbeat`) | `Spec => []IInv`, `Spec => []HealthyWasAlive` |
| `ComposedHeartbeat`, `ComposedStateFile` (`HeartbeatProofs`, of `Failover`) | `BothSpec => Spec`, `BothSpec => S!Spec` |
| `StepsDownTheorem` | `BothSpec => StepsDownWhenAlive` |
| `GmailInvariance` (`GmailAccessProofs`) | `Spec => []TypeOK /\ []RecordedAlertWasShown` |
| `RecoveryTheorem` | `Spec => RecoveryFollowsAlert` |
| `TypeCorrect` (`StateFileProofs`) | `Spec => []TypeOK` |
| `RecoveredTheorem`, `KeysTheorem` | `[]RecoveredStaysClosed`, `OtherKeysKept`, when `Watchdogs = {}` |
| `LoneWatchdogTheorem` | `[]RecoveredStaysClosed`, `FlagIsVerdict`, when there is one process |

The assumptions say that bounds are natural numbers, that lengths and sizes by
which something is cut are positive, that roles are not shared (`Roles`,
`NobodyIsNoOne`, `NoneIsNoId`) and, for the dedupe file, how its times relate.
TLC evaluates them in every run of the module.

**Pipeline.**  `NoGap` alone is not inductive: a run commits the mail it has in
hand, so one must know that everything before that mail is settled or still in
the run's hand (`RunInv`), that the run started at a checkpoint without a hole,
and that it takes the oldest mail it has.  Nothing in `RunInv` mentions other
runners, which is why overlapping runs do no harm: settled mail stays settled,
and a slow run can only move the checkpoint to another place without a hole.
`IInv` is about running installations.  On a fresh one with two runners it does
not hold: each draws its own starting line (`RecordInitialSync`), and these
theorems leave that out.

**One runner, from the first start.**  A second runner can move the checkpoint
back (it appends what it has in hand, without a comparison), so
`FrontierTheorem` and `NotifiedAheadTheorem` assume that there is no other.
`OneRunnerInv` says that the run knows the durable checkpoint and that all mail in
its hand lies ahead of it, oldest first; `FirstStartInv` adds that nothing is
handled before the initial synchronisation is done.
`FirstStartTheorem` brings `NoGap` to the first start.  Its condition `OnePage`,
that one page lists the whole inbox while there is no checkpoint, is the hazard
at `gmail_source.py:298`: TLC finds the hole with two pages (section 6), and the
theorem says that with one runner there is no other way to it, whichever
initial sync mode is chosen, whatever fails, and also through the detour of a
failed first run that is taken for an old installation.

**Refinement.**  `Frontier` is the promise without the mechanism.  A step of
`Pipeline` maps to `Settle` (mail handled or archived), `MoveFrontier` (commit)
or a stutter; `Invariance` supplies that the new frontier has no hole.  In
`FirstStartRefinement` the first synchronisation maps to `Establish`.

**EventLog.**  Appends never begin with a newline, so a log is either framed
(records and newlines in turn, with at most a torn tail) or damaged before its
tail, and stays so.  In a framed log the rows a scan finds are the checkpoint
records, wherever it begins.  What a process has read is old by the time it is
used; `JobKnows` says that it is nevertheless what the log stood for at some size
since the process began, and `Knows` the same of the index file, which any
process may write at any time.  "The last checkpoint" is a greatest element of
a set of rows, so the proofs need least elements (`Least`, from the
well-founded order of the numbers), not an induction over the log.
`RegisterTheorem` is what `Pipeline` takes for granted when it treats `ckpt` as
one value: while the log is clean, what it stands for changes only when a
process appends a checkpoint event, and then to the checkpoint of that event,
although the append is torn, lost or killed half-way.  `CommitFails` of
`Pipeline` is the append that raised but was written.

**RunSummary.**  A summary is a fold over rows.  Its closed form, `Tally` (the last
row, and the last that succeeded), is proved of the scan of every log
(`CaughtUpIs`) by looking at the first row where the two would differ.  The
invariant then has three parts.  Rows are in the order of their runs
(`Ordered`), which is what "not behind" means.  Of the index the invariant does
not say that its offset is that of its run's row, which two services that append
at once can break, but that its row is not earlier (`SkipsNothing`).  What a process is about to cache
or answer is sound (`SoundInv`), not only what is cached; while an operator has
put back one file of an archive and not the others, nothing is claimed.  And
since the last rebuild, as long as nothing failed or overlapped, the one process
at work holds what a scan finds, phase by phase (`ExactInv`).

**Dedupe.**  `IInv` says, of the claims taken and the posts settled since the file
was last taken for empty, that the file's entry for a key names the sender with
the unexpired claim on it, and that the time of the last settled post is in the
file or was dropped past its window.  That is as much as the code keeps: a file
that cannot be read lets one more sender claim a message that is claimed or was
just sent, and from its claim on the exclusion begins anew.  The stale clock is the crux: `Reserve`
decides by a time up to `LockWait` old, and the proof needs `Retention >= Window
+ LockWait` (`KeptForWindow`; 31 days in the code) and a positive
`TTL`.  The assumption about `MaxEntries` is that the file is not full (20,000
entries in the code): eviction drops claims in flight first, and nothing is
claimed then.

**Delivery.**  `NotifiedWasShown` is not inductive: a suppressed mail is committed
because the file says that it was sent, an answered one because the call says so.
`DeliveryIInv` therefore says that what the file calls sent was displayed, that a
call under way is about the mail its runner has in hand, and that it calls
nothing sent that was not displayed.  Neither the windows nor the claims'
lifetime nor the size of the file matter: what is pruned or evicted calls nothing
sent.

`ComposedPipeline` and `ComposedDedupe` show that the composition implements both
of its parts: every step of it is a step of the pipeline or leaves the pipeline
alone, and likewise for the file.  So what is proved of the parts holds of the
whole.  The two conclusions drawn from that are about neither part alone.
`ProcessedTheorem`: a matching mail that came after the starting line, lies behind
the durable checkpoint and is still in the inbox was displayed by Discord, or a
runner was told so while another's claim on it was unsettled.  It is the true
form of the guarantee that `processed_unseen` refutes.  `OneNotifiesTheorem`: of
all overlapping runs with one mail in hand, at most one holds an unexpired claim
to post it that was taken since the file was last taken for empty.

**StateFile.**  `IInv` says that whoever is about to save holds the lock and has
what is in `state.json` in hand, and that an incident whose recovery is about to
be logged has left the file for good.  `Watchdogs = {}` cannot be dropped: section
6 has the counterexample.  What remains of it is `LoneWatchdogTheorem`: a watchdog
that nothing runs beside, as when it polls for a main service that is gone, keeps
log and state in agreement although it writes without the lock, and the failover
flag is exactly what it decided last.

**Streaming.**  `NoLostWakeup` needs to know of each worker that its session's
trigger is set, or about to be set by a callback that has queued, whenever there
is a pending event; of a session that is stopping nothing is claimed.
`AcceptedTriggersRun` needs that `last_history_id` is never ahead of the mail
some run has begun for or is about to begin for, and that a pending event is at
least as late as any acknowledged notification it replaced, which is where
`NoHistory = {}` comes in: an event without a history id replaces a later one.

**Heartbeat.**  `IInv` says of the file and of each snapshot in memory, that of a
session left behind included, that the worker's time in it is no younger than the
last sign of life, and of a snapshot without such a time that it is no younger
than its session.  Whichever thread writes last, the file then says at most what
was true, and `Healthy` reads both times.

**Failover.**  `ComposedHeartbeat` and `ComposedStateFile` show that the composition
implements both parts; to the watchdog, the heartbeat is a health that changes
when it likes.  `StepsDownTheorem` is about the two together: a watchdog that
decides to end the failover does so while one is active and the main service has
been alive within the limit.  Where the watchdog
runs alone, `FlagIsVerdict` adds that nothing else clears the flag.

**GmailAccess.**  `RecoveryFollowsAlert` needs `RecordedAlertWasShown`: the file
never says that the operator was notified when they were not.  The lock makes
each section that posts and saves one step; one that is cut short has posted
without saving, which is the harmless way round.

**Only model-checked:** all liveness (`EveryMailSettled`, `EveryMailCovered`,
`DeadWorkerEndsSession`, `OutageOpens`, `RecoveryCloses`, `StallIsPolled`,
`FailoverEnds`, `IssueCloses`, `TokenIssueReported`, `TokenIssueCloses`), which
needs fairness and ENABLED, beyond these provers; and the two claims of section 6
that do not hold, which have counterexamples instead.

## 6. What the code does differently from its documents

**Mail behind the checkpoint that nobody saw** (`processed_unseen`;
`discord_client.py:463`).  A claim that another sender has not settled makes
`_post_webhook_with_dedupe` return True without a post, and the pipeline commits
on it.  The shortest trace has one process: it is killed between claim and post,
systemd starts it again after 10 or 30 s, the claim of its earlier life lasts
120 s (`_DEDUPE_INFLIGHT_TTL_SECONDS`), and the new life commits the mail.  With
two runners it is enough that the one that posts fails after the other was told
True.  `README.md:57` guarantees that "a message is treated as processed only
after the notification path succeeds".  `NotifiedWasShown` (run `delivery`) shows
that there is no third way.

**A lasting transient failure is never alerted** (`transient_alert`;
`pipeline.py:80`).  Each run begins with `notify_recovery_if_needed`, before it
has contacted Gmail, and an issue that was not alerted yet is cleared there with
the time it was first seen.  The next failure in the same run starts the
threshold anew; the threshold (600 s by default) is longer than a run.
`docs/IMPLEMENTATION_RATIONALE.en.md:19` promises to "notify on persistent
failures".

The following are visible in the models and have no run of their own.

- *The watchdog resurrects a recovered incident* (`failover.py:210`).  It loads
  `state.json`, posts to Discord, and saves what it loaded, without
  `state_update_lock`.  A run that recovers an incident in between has its update
  overwritten: the log says recovered, `state.json` says active, until the next
  successful run closes it again.  `docs/engineering-decisions.en.md:277` wants to
  avoid exactly that.  `StateFile` with one runner, one watchdog and no faults
  violates `RecoveredStaysClosed` and `OtherKeysKept`.
- *A service that works may be judged stalled* (`streaming_pull.py:396`): the
  inner loop of the worker runs as long as notifications keep coming and never
  refreshes `worker_last_seen_at`, nor does a single run that takes longer than
  the limit (300 s).  The worker of an ended session may also put its old time
  into the file until the next write.  The fallback then polls beside a working
  service, which `pipeline_two` shows to be harmless for the frontier.
- *The heartbeat thread proves nothing* (`streaming_pull.py:442`): it rewrites the
  snapshot without touching its times, so its interval does not matter to the
  judge, except that it repeats a write that failed.

- *A backfill of more than one page leaves a hole* (`gmail_source.py:298`).
  Without a checkpoint the listing counts the boundary as found and stops after
  the first, newest page; its first commit puts the older pages behind the
  checkpoint.  `docs/engineering-decisions.en.md:203`: "Avoid checkpoint holes
  under backlog pressure."  `pipeline_one` with `PageSize = 2`, no fault, and
  three mails at the start violates `NoGap`; as it stands, `PageSize = MaxMsgs`
  keeps to backfills of one page.
- *A failed first run ends the initial synchronisation*
  (`checkpoint_store.py:202`).  A run that fails before `complete_initial_sync`
  still persists its result, and with it `state.json`; the next run takes this
  for a legacy installation, lists without a checkpoint and notifies mail that
  was there before, against `README.md:141`.  In `Pipeline`: `SourceFails` at
  `init`, `PersistResult`, and then `Legacy` holds.  A dry run leads there too.
- *An append behind a torn tail* (`checkpoint_store.py:446`) continues the torn
  line.  The glued line is damaged and no longer the tail, so every later load
  raises until the file is edited; `docs/engineering-decisions.en.md:90` promises
  to "tolerate only tail-line corruption".  `LoadIsCurrent` and `IndexAgreesWithLog` are
  therefore stated for logs that are `Clean`.
- *A worker that gives up ends the service instead of reconnecting*
  (`streaming_pull.py:507`): it sets `worker_failed` and then `stop_event`, and
  the main loop tests `stop_event` first.  systemd restarts the service, which
  is why `EveryMailCovered` holds.
- *A run summary can stay behind* (`checkpoint_store.py:686`): after a kill
  between the row and the caches, the next run extends a summary that lacks the
  row, so `last_success_at` is old until the next success.  When the index is
  missing, the snapshot in `state.json` is believed without looking at the log.
  `CachesAreSound` is what remains true.
- *A dedupe file that cannot be read is forgotten* (`discord_client.py:106`): a read
  or parse error gives no entries, and the next claim overwrites the file with
  itself alone.  A message that another sender has claimed may then be posted
  twice, and one that was sent may be sent again within its window, against
  `CHANGELOG.md` ("to suppress duplicate sends under concurrent runtimes");
  `tests/unit/test_discord_client.py:306` wants the reading.  It never loses a mail:
  `NotifiedWasShown` holds in spite of it.
- *The index of the run log may misplace its row* (`checkpoint_store.py:447`): the
  offset is told before the row is written.  When two services append at once,
  one index has the offset of the other's row.  A load refuses it (line 638) and
  falls back to the snapshot in `state.json` without looking at the log, and the
  doctor warns until the next run.
- *A session that cannot subscribe leaves its threads running*
  (`streaming_pull.py:493`): the client is made and subscribed outside the `try`
  whose `finally` sets the stop event.  Every failed attempt leaves one more
  worker with its idle triggers, and one more heartbeat thread, until the process
  ends.  For the frontier that is one more overlapping run; the heartbeat file may
  show the service alive while it only polls.
- *A failover alert that was not delivered* is not sent again, because the state
  says failover all the same (`failover.py:244`).
- *A change of failure kind* opens a second incident over an active one
  (`notifier.py:161`); `verify_state.py:106` rejects such a log.
- *Dry runs write*: a dry watchdog run records the failover, a dry pipeline run
  writes `state.json`.
- `docs/OPERATIONS.en.md:98` describes an in-memory suppression the code no
  longer has.

## 7. What is not modelled

- The text of embeds, log lines and reports; HTTP; OAuth with a browser; the
  Gmail watch registration.
- A heartbeat file that exists and cannot be read, where the judge falls back to
  its modification time (`failover.py:91`); clocks that are set back.
- The race of the watchdog's unlocked write with other writers in a passing run:
  `Failover` has the fallback as the only writer of `state.json`.
- De-duplicated alerts: `Delivery` composes `Dedupe` with the pipeline's mail, not
  with the alerts of `StateFile` and `GmailAccess`.
- `events.jsonl` in archive and restore: `RunSummary` models the same code for
  the run log.  The restore drill works on a copy.
- `verify_state.py`, the scenario harness, metrics, status: they read.
- Backoff: delays change nothing the models can see.
- Platforms without `fcntl`, on which the locks do nothing.
- Mail ids as strings, mail that arrives out of the order Gmail lists it in, and
  mail that returns to the inbox.

## 8. Plan

Done: inventory and hazards; all modules of section 2; the proofs of section 5,
one module of them per component.

What a further step would take up:

1. Two runners on a fresh installation: what can be said about `base`.
2. Alerts in the composition: an alert that Dedupe suppresses opens an incident.
3. `events.jsonl` in archive and restore, with the checkpoint index; a restore
   moves the frontier back, which `Frontier` permits and `FrontierNeverBack`
   does not.

## 9. Running the checks

```
tlc -workers 2 -config <run>.cfg <module>.tla    # modules per run: PROJECT.json
tlapm PipelineProofs.tla                         # likewise the other *Proofs modules
```

Runs `summary`, `streaming` and `delivery` take one to two minutes, the others less
than one.
