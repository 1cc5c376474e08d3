------------------------------ MODULE Pipeline ------------------------------
(***************************************************************************)
(* NotificationPipeline.run_once (pipeline.py) over the Gmail source       *)
(* (gmail_source.py) and the checkpoint that checkpoint_store.py makes     *)
(* durable.  Mail is numbered in order of arrival, 0 is "no checkpoint".   *)
(*                                                                         *)
(* Runners are the processes that execute run_once: the main service, the  *)
(* timer-driven fallback, an operator's --once.  Nothing in the code       *)
(* excludes two of them from each other, so they interleave freely here.   *)
(* A runner is killed at any point (Crash) and keeps nothing but what is   *)
(* durable: ckpt, sync and stateFile.                                      *)
(*                                                                         *)
(* The log behind ckpt is refined in EventLog, the notifier's answer in    *)
(* Dedupe, the failing source in GmailAccess, the incidents in StateFile.  *)
(***************************************************************************)
EXTENDS Naturals, FiniteSets

CONSTANTS
    Runners,          \* processes that may execute run_once
    MaxMsgs,          \* bound on the mail that ever arrives
    MaxMessages,      \* config max_messages: mail handled by one run
    PageSize,         \* size of one page of the Gmail listing
    Target,           \* the mail RegexClassifier.classify accepts
    SyncModes,        \* the config initial_sync_mode of a run is one of these
    MaxFaults         \* bound on failures, crashes and dry runs

ASSUME MaxMsgsNat      == MaxMsgs \in Nat
ASSUME MaxMessagesPos  == MaxMessages \in Nat \ {0}
ASSUME PageSizePos     == PageSize \in Nat \ {0}
ASSUME TargetNat       == Target \subseteq Nat
ASSUME SyncModesKnown  == SyncModes \subseteq {"skip_existing", "backfill"}
ASSUME MaxFaultsNat    == MaxFaults \in Nat

None == 0   \* Checkpoint(message_id=None)

VARIABLES
    arrived,    \* mail 1..arrived has been received so far
    inbox,      \* the part of it that "in:inbox" still lists
    ckpt,       \* what load_checkpoint returns
    sync,       \* initial_sync events in the log: none, done, announced
    stateFile,  \* does state.json exist
    handled,    \* accepted by the notifier or classified as no target
    base,       \* where this installation began (specification only)
    pc, run,    \* control state and _RunState of every runner
    faults      \* faults so far

vars == <<arrived, inbox, ckpt, sync, stateFile, handled, base, pc, run, faults>>

mail    == <<arrived, inbox>>
durable == <<ckpt, sync, stateFile>>

Labels == {"idle", "init", "complete", "announce", "list",
           "loop", "deliver", "commit", "persist"}

Failures == {"ok", "source_failed", "auth_failed", "message_detail_failed",
             "delivery_failed", "checkpoint_failed"}

RunState == [before: Nat, after: Nat, todo: SUBSET Nat, cur: Nat,
             dry: BOOLEAN, failure: Failures]

FreshRun == [before |-> None, after |-> None, todo |-> {}, cur |-> None,
             dry |-> FALSE, failure |-> "ok"]

\* Mail the inbox owner filed away needs no notification any more.
Settled == handled \union ((1..arrived) \ inbox)

-----------------------------------------------------------------------------
(* Gmail listing, gmail_source._iter_new_messages_with_service.             *)

\* A page lists the newest mail first.
FirstPage == {m \in inbox : Cardinality({k \in inbox : k > m}) < PageSize}

\* Pages are read until the checkpoint shows up.  Without a checkpoint the
\* boundary counts as found at once, so only the first page is read.
\* (Mutants: the checkpoint itself listed again; the scan after one page.)
PendingWithCheckpoint(c) == IF c = None THEN FirstPage
                            ELSE {m \in inbox : m >= c}
PendingOnePage(c) == {m \in FirstPage : m > c}

Pending(c) == IF c = None THEN FirstPage ELSE {m \in inbox : m > c}

\* pending_messages.reverse() followed by the cut to max_messages.
\* (Mutant: the cut before the reversal keeps the newest.)
CutBeforeReverse(S) == {m \in S : Cardinality({k \in S : k > m}) < MaxMessages}

Oldest(S) == {m \in S : Cardinality({k \in S : k < m}) < MaxMessages}

\* get_latest_message_id: the newest mail, None for an empty inbox.
IsLatestMessageId(c) == c \in inbox \union {None} /\ \A k \in inbox : k <= c

-----------------------------------------------------------------------------
(* Initial states.                                                          *)

InitCommon ==
    /\ handled = {}
    /\ pc = [r \in Runners |-> "idle"]
    /\ run = [r \in Runners |-> FreshRun]
    /\ faults = 0

\* First start: mail may already be there, no file of ours is.
InitFresh ==
    /\ arrived \in 0..MaxMsgs
    /\ inbox = 1..arrived
    /\ ckpt = None
    /\ sync = "none"
    /\ stateFile = FALSE
    /\ base = None
    /\ InitCommon

\* A running installation: the checkpoint is a mail of the inbox; sync is
\* "none" when it was set up by a version without initial_sync events.
InitInstalled ==
    /\ arrived \in 1..MaxMsgs
    /\ inbox = 1..arrived
    /\ ckpt \in 1..arrived
    /\ sync \in {"none", "done", "announced"}
    /\ stateFile = TRUE
    /\ base = ckpt
    /\ InitCommon

Init == InitFresh \/ InitInstalled

-----------------------------------------------------------------------------
(* The mailbox.                                                             *)

Arrive ==
    /\ arrived < MaxMsgs
    /\ arrived' = arrived + 1
    /\ inbox' = inbox \union {arrived'}
    /\ UNCHANGED <<durable, handled, base, pc, run, faults>>

\* The owner archives or deletes a mail.
Archive(m) ==
    /\ m \in inbox
    /\ faults < MaxFaults
    /\ faults' = faults + 1
    /\ inbox' = inbox \ {m}
    /\ UNCHANGED <<arrived, durable, handled, base, pc, run>>

-----------------------------------------------------------------------------
(* One run.                                                                 *)

Goto(r, label) == pc' = [pc EXCEPT ![r] = label]

Fault == faults < MaxFaults /\ faults' = faults + 1

\* _handle_pipeline_error and _handle_unexpected_error: note the failure,
\* stop the loop, go on to build and persist the result.
\* (Mutant: the kind is not set.)
FailUnclassified(r, kind) ==
    /\ run' = [run EXCEPT ![r].failure = "pending"]
    /\ Goto(r, "persist")

Fail(r, kind) ==
    /\ run' = [run EXCEPT ![r].failure = kind]
    /\ Goto(r, "persist")

\* state.json is written best effort: when it fails, a warning is logged.
SnapshotState == stateFile' \in {stateFile, TRUE}

\* load_checkpoint, before the try block.
Start(r, dry) ==
    /\ pc[r] = "idle"
    /\ run' = [run EXCEPT ![r] = [FreshRun EXCEPT !.before = ckpt,
                                                  !.after = ckpt, !.dry = dry]]
    /\ Goto(r, "init")
    /\ IF dry THEN Fault ELSE UNCHANGED faults
    /\ UNCHANGED <<mail, durable, handled, base>>

\* load_checkpoint raises: run_once_with_guard reports the exception, which
\* persists a failed RunResult (and with it state.json) and ends the run.
StartFails(r) ==
    /\ pc[r] = "idle"
    /\ sync # "none" \/ ckpt # None   \* there is a log that can be unreadable
    /\ Fault
    /\ SnapshotState
    /\ UNCHANGED <<mail, ckpt, sync, handled, base, pc, run>>

\* load_initial_sync_state: an installation with a checkpoint event or with a
\* state.json but without initial_sync events counts as a completed legacy one.
Legacy == sync = "none" /\ (stateFile \/ ckpt # None)

InitialSyncCompleted == sync # "none" \/ Legacy

AnnouncementDue == sync = "done"

\* _initialize_if_needed when nothing is left to initialise.
AlreadyInitialized(r) ==
    /\ pc[r] = "init"
    /\ run[r].dry \/ InitialSyncCompleted
    /\ Goto(r, IF ~run[r].dry /\ AnnouncementDue THEN "announce" ELSE "list")
    /\ UNCHANGED <<mail, durable, handled, base, run, faults>>

\* _initialize_if_needed on a new installation: the newest mail becomes the
\* checkpoint to record (skip_existing), or the loaded one stays (backfill).
ChooseInitialCheckpoint(r) ==
    /\ pc[r] = "init"
    /\ ~run[r].dry /\ ~InitialSyncCompleted
    /\ \E c \in inbox \union {run[r].before} :
          /\ \/ "skip_existing" \in SyncModes /\ IsLatestMessageId(c)
             \/ "backfill" \in SyncModes /\ c = run[r].before
          /\ run' = [run EXCEPT ![r].cur = c]
    /\ Goto(r, "complete")
    /\ UNCHANGED <<mail, durable, handled, base, faults>>

\* The first initial_sync_completed event begins this installation.
RecordInitialSync(r) ==
    /\ ckpt' = run[r].cur
    /\ sync' = IF sync = "announced" THEN sync ELSE "done"
    /\ base' = IF sync = "none" /\ handled = {} THEN run[r].cur ELSE base

\* complete_initial_sync: the event, then the state.json snapshot.
CompleteInitialSync(r) ==
    /\ pc[r] = "complete"
    /\ RecordInitialSync(r)
    /\ SnapshotState
    /\ run' = [run EXCEPT ![r].before = run[r].cur, ![r].after = run[r].cur]
    /\ Goto(r, "announce")
    /\ UNCHANGED <<mail, handled, faults>>

\* _send_setup_notification: only a delivered setup message is recorded; an
\* undelivered one does not stop the run.
AnnounceSetup(r) ==
    /\ pc[r] = "announce"
    /\ sync' = "announced"
    /\ Goto(r, "list")
    /\ UNCHANGED <<mail, ckpt, stateFile, handled, base, run, faults>>

AnnounceSetupFails(r) ==
    /\ pc[r] = "announce"
    /\ Fault
    /\ Goto(r, "list")
    /\ UNCHANGED <<mail, durable, handled, base, run>>

\* iter_new_messages: the frontier of this run, oldest mail first.
ListMail(r) ==
    /\ pc[r] = "list"
    /\ run[r].before = None \/ run[r].before \in inbox
    /\ run' = [run EXCEPT ![r].todo = Oldest(Pending(run[r].before))]
    /\ Goto(r, "loop")
    /\ UNCHANGED <<mail, durable, handled, base, faults>>

\* checkpoint_not_found_in_listing: never guess where the frontier was.
CheckpointNotFound(r) ==
    /\ pc[r] = "list"
    /\ run[r].before # None /\ run[r].before \notin inbox
    /\ Fail(r, "source_failed")
    /\ UNCHANGED <<mail, durable, handled, base, faults>>

\* A Gmail call of the run fails for good after its retries: listing, the
\* service (auth), the newest mail for the first sync, a mail's details; or the
\* event that records the setup message cannot be written.
SourceFails(r) ==
    /\ Fault
    /\ \/ /\ pc[r] \in {"init", "list"}
          /\ \E kind \in {"source_failed", "auth_failed"} : Fail(r, kind)
       \/ pc[r] = "announce" /\ Fail(r, "source_failed")
       \/ /\ pc[r] = "loop" /\ run[r].todo # {}
          /\ Fail(r, "message_detail_failed")
    /\ UNCHANGED <<mail, durable, handled, base>>

\* The generator yields the oldest mail first.  (Mutant: no reversal.)
IsNextUnreversed(r, m) == m \in run[r].todo /\ \A k \in run[r].todo : k <= m

IsNext(r, m) == m \in run[r].todo /\ \A k \in run[r].todo : m <= k

\* The next envelope of the generator is classified.
TakeMessage(r, m) ==
    /\ pc[r] = "loop"
    /\ IsNext(r, m)
    /\ run' = [run EXCEPT ![r].cur = m, ![r].todo = @ \ {m}]
    /\ IF m \in Target
         THEN Goto(r, "deliver") /\ UNCHANGED handled
         ELSE /\ Goto(r, "commit")
              /\ handled' = IF run[r].dry THEN handled ELSE handled \union {m}
    /\ UNCHANGED <<mail, durable, base, faults>>

\* notifier.notify returned True (a dry run only logs).
DeliverOk(r) ==
    /\ pc[r] = "deliver"
    /\ handled' = IF run[r].dry THEN handled ELSE handled \union {run[r].cur}
    /\ Goto(r, "commit")
    /\ UNCHANGED <<mail, durable, base, run, faults>>

\* notifier.notify returned False: DeliveryError stops the run at this mail.
\* (Mutants: the failed mail is reported as processed; the run goes on with it.)
DeliverFailsAdvances(r) ==
    /\ pc[r] = "deliver"
    /\ Fault
    /\ run' = [run EXCEPT ![r].failure = "delivery_failed", ![r].after = run[r].cur]
    /\ Goto(r, "persist")
    /\ UNCHANGED <<mail, durable, handled, base>>

DeliverFailsStillCommits(r) ==
    /\ pc[r] = "deliver"
    /\ Fault
    /\ Goto(r, "commit")
    /\ UNCHANGED <<mail, durable, handled, base, run>>

DeliverFails(r) ==
    /\ pc[r] = "deliver"
    /\ Fault
    /\ Fail(r, "delivery_failed")
    /\ UNCHANGED <<mail, durable, handled, base>>

\* advance_checkpoint: the event is the commit, state.json follows best effort.
Commit(r) ==
    /\ pc[r] = "commit"
    /\ IF run[r].dry
         THEN UNCHANGED durable
         ELSE ckpt' = run[r].cur /\ SnapshotState /\ UNCHANGED sync
    /\ run' = [run EXCEPT ![r].after = run[r].cur]
    /\ Goto(r, "loop")
    /\ UNCHANGED <<mail, handled, base, faults>>

\* The append or its fsync raises OSError: the event may have reached the file.
CommitFails(r) ==
    /\ pc[r] \in {"commit", "complete"}
    /\ ~run[r].dry
    /\ Fault
    /\ \/ UNCHANGED <<durable, base>>
       \/ /\ pc[r] = "commit"
          /\ ckpt' = run[r].cur
          /\ UNCHANGED <<sync, stateFile, base>>
       \/ pc[r] = "complete" /\ RecordInitialSync(r) /\ UNCHANGED stateFile
    /\ Fail(r, "checkpoint_failed")
    /\ UNCHANGED <<mail, handled>>

\* The generator is exhausted.
NoMoreMail(r) ==
    /\ pc[r] = "loop"
    /\ run[r].todo = {}
    /\ Goto(r, "persist")
    /\ UNCHANGED <<mail, durable, handled, base, run, faults>>

\* append_run_result, in a dry run too: runs.jsonl, the summary index and the
\* summary inside state.json.
PersistResult(r) ==
    /\ pc[r] = "persist"
    /\ SnapshotState
    /\ run' = [run EXCEPT ![r] = FreshRun]
    /\ Goto(r, "idle")
    /\ UNCHANGED <<mail, ckpt, sync, handled, base, faults>>

PersistResultFails(r) ==
    /\ pc[r] = "persist"
    /\ Fault
    /\ run' = [run EXCEPT ![r] = FreshRun]
    /\ Goto(r, "idle")
    /\ UNCHANGED <<mail, durable, handled, base>>

\* The process is killed and started again by systemd or the next timer.
Crash(r) ==
    /\ pc[r] # "idle"
    /\ Fault
    /\ run' = [run EXCEPT ![r] = FreshRun]
    /\ Goto(r, "idle")
    /\ UNCHANGED <<mail, durable, handled, base>>

\* The steps of a run in which nothing goes wrong.
Progress(r) ==
    \/ Start(r, FALSE)
    \/ AlreadyInitialized(r)
    \/ ChooseInitialCheckpoint(r)
    \/ CompleteInitialSync(r)
    \/ AnnounceSetup(r)
    \/ ListMail(r)
    \/ CheckpointNotFound(r)
    \/ \E m \in run[r].todo : TakeMessage(r, m)
    \/ DeliverOk(r)
    \/ Commit(r)
    \/ NoMoreMail(r)
    \/ PersistResult(r)

Disturbance(r) ==
    \/ Start(r, TRUE)
    \/ StartFails(r)
    \/ AnnounceSetupFails(r)
    \/ SourceFails(r)
    \/ DeliverFails(r)
    \/ CommitFails(r)
    \/ PersistResultFails(r)
    \/ Crash(r)

Next ==
    \/ Arrive
    \/ \E m \in inbox : Archive(m)
    \/ \E r \in Runners : Progress(r) \/ Disturbance(r)

Spec          == Init /\ [][Next]_vars
InstalledSpec == InitInstalled /\ [][Next]_vars

\* The polling loop and the streaming worker start run after run, and a run
\* that is not disturbed goes on; nothing is assumed about failures.
FairSpec == Spec /\ \A r \in Runners : WF_vars(Progress(r))

-----------------------------------------------------------------------------
(* Properties.                                                              *)

TypeOK ==
    /\ arrived \in Nat
    /\ inbox \subseteq 1..arrived
    /\ ckpt \in Nat
    /\ sync \in {"none", "done", "announced"}
    /\ stateFile \in BOOLEAN
    /\ handled \subseteq Nat
    /\ base \in Nat
    /\ pc \in [Runners -> Labels]
    /\ run \in [Runners -> RunState]
    /\ faults \in 0..MaxFaults

NoGapUpTo(c) == \A m \in (base + 1)..c : m \in Settled

\* No hole behind the checkpoint: every mail between the start of this
\* installation and the checkpoint was handed to the notifier, classified as
\* no target, or filed away by its owner.
NoGap == NoGapUpTo(ckpt)

\* The mail a run still has to finish.
InHand(r) == run[r].todo \union
             (IF pc[r] \in {"deliver", "commit"} THEN {run[r].cur} ELSE {})

\* Why NoGap survives every interleaving.  A run starts and reports at
\* checkpoints without a hole behind them; mail before one it has in hand is
\* settled or in hand as well; and it commits the oldest mail it has in hand.
RunInv(r) ==
    /\ run[r].before # None
    /\ NoGapUpTo(run[r].before)
    /\ NoGapUpTo(run[r].after)
    /\ pc[r] \in {"loop", "deliver", "commit"} =>
         \A h \in InHand(r) :
            /\ h # None
            /\ \A m \in (base + 1)..h : m \in Settled \union InHand(r)
    /\ pc[r] \in {"deliver", "commit"} => \A k \in run[r].todo : run[r].cur < k
    /\ pc[r] = "commit" => run[r].cur \in handled

\* The inductive invariant of a running installation, for any number of
\* runners: its checkpoint is a mail, and no run takes the first-start path.
IInv ==
    /\ TypeOK
    /\ ckpt # None
    /\ NoGap
    /\ \A r \in Runners : /\ pc[r] # "complete"
                          /\ pc[r] # "idle" /\ ~run[r].dry => RunInv(r)

\* The checkpoint a run reports as checkpoint_after has no hole behind it,
\* whatever failed in the run.
ReportedCheckpointHasNoGap ==
    \A r \in Runners :
        pc[r] = "persist" /\ ~run[r].dry => NoGapUpTo(run[r].after)

\* With one runner the durable checkpoint never moves back to older mail.
FrontierNeverBack == [][ckpt' >= ckpt]_ckpt

\* With one runner a mail at or behind the checkpoint is not notified again:
\* duplicates come only from a run that ended between delivery and commit.
NothingBehindFrontierIsNotified ==
    [][\A r \in Runners : DeliverOk(r) /\ ~run[r].dry => run[r].cur > ckpt]_vars

\* Mail that has arrived is eventually settled (or lies before the start of the
\* installation), unless the checkpoint itself left the inbox: then every run
\* stops at checkpoint_not_found until an operator intervenes.
EveryMailSettled ==
    \A m \in 1..MaxMsgs :
        (m <= arrived) ~> (m \in Settled \/ m <= base \/ ckpt \notin inbox)

\* The promise of module Frontier, for the checkpoint and the settled mail.
F == INSTANCE Frontier WITH frontier <- ckpt, settled <- Settled

ImplementsFrontier == F!Spec
=============================================================================
