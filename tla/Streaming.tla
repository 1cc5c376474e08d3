------------------------------ MODULE Streaming ------------------------------
(***************************************************************************)
(* The main service: handle_streaming_mode (commands/streaming.py) runs     *)
(* one session of _StreamingPullRunner (streaming_pull.py) after the other. *)
(* Each session has a worker thread that runs the pipeline when Pub/Sub     *)
(* callbacks ask for it, or when nothing was heard for a while.             *)
(*                                                                         *)
(* Mail is numbered in order of arrival; mail m moves the mailbox to        *)
(* history m and publishes one notification, named m too.  Pub/Sub delivers *)
(* it at least once, in any order.  A run sees all mail that has arrived    *)
(* when it begins.                                                          *)
(*                                                                         *)
(* A session that ends waits a few seconds for its worker and then leaves   *)
(* it behind, and one that cannot subscribe does not even stop it, so the   *)
(* workers of several sessions may be at work at once.                      *)
(***************************************************************************)
EXTENDS Naturals

CONSTANTS
    MaxMail,          \* bound on the mail that ever arrives
    NoHistory,        \* notifications whose payload has no historyId
    MaxFailures,      \* trigger_failure_max_consecutive
    MaxReconnects,    \* stream_reconnect_max_attempts, 0 for no limit
    MaxFaults,        \* bound on failures, redeliveries and kills
    MaxEvents         \* bound on mail and faults together

ASSUME MaxMailNat       == MaxMail \in Nat
ASSUME NoHistoryMail    == NoHistory \subseteq Nat \ {0}
ASSUME MaxFailuresPos   == MaxFailures \in Nat \ {0}
ASSUME MaxReconnectsNat == MaxReconnects \in Nat
ASSUME MaxFaultsNat     == MaxFaults \in Nat
ASSUME MaxEventsNat     == MaxEvents \in Nat

None == 0

\* A session ends early only by a fault, so there is one more than faults.
Sessions == 1..(MaxFaults + 1)

Mail == 1..MaxMail

VARIABLES
    mailbox,    \* the mail that has arrived
    msg,        \* where every notification is ...
    via,        \* ... and the session it was delivered to
    stop, trigger, failed,   \* stop_event, trigger_event, worker_failed
    pending,    \* pending_event
    worker,     \* the worker thread
    main,       \* the main thread
    session,    \* number of the current session
    attempts,   \* reconnect_attempt
    began,      \* mail seen by some run that began (specification only)
    covered,    \* mail seen by some run that succeeded (specification only)
    faults

session_vars == <<stop, trigger, failed, pending, worker>>
vars == <<mailbox, msg, via, session_vars, main, session, attempts, began,
          covered, faults>>

MsgStates == {"none", "published", "callback", "parsed", "queued", "set",
              "accepted", "dropped"}

WorkerStates == {"off", "wait", "take", "run", "running", "backoff", "failing",
                 "stopping", "done"}

MainStates == {"start", "first", "connect", "loop", "check", "result", "closing",
               "join", "retry", "exited"}

Worker == [at: WorkerStates,
           idle: BOOLEAN,          \* the run is an idle trigger
           sees: Nat,              \* the mailbox as its run found it
           last: Nat,              \* last_history_id
           fails: 0..MaxFailures]  \* consecutive_failures

NewWorker == [at |-> "off", idle |-> FALSE, sees |-> 0, last |-> None, fails |-> 0]

MainThread == [at: MainStates, raised: BOOLEAN, sees: Nat]

Larger(a, b) == IF a >= b THEN a ELSE b

\* One more mail or fault is within the bound.
Bounded == mailbox + faults < MaxEvents

Fault == faults < MaxFaults /\ Bounded /\ faults' = faults + 1

InEvery(v) == [s \in Sessions |-> v]

Init ==
    /\ mailbox = 0
    /\ msg = [m \in Mail |-> "none"]
    /\ via = [m \in Mail |-> 1]
    /\ stop = InEvery(FALSE) /\ trigger = InEvery(FALSE) /\ failed = InEvery(FALSE)
    /\ pending = InEvery(None)
    /\ worker = InEvery(NewWorker)
    /\ main = [at |-> "start", raised |-> FALSE, sees |-> 0]
    /\ session = 1
    /\ attempts = 0
    /\ began = 0
    /\ covered = 0
    /\ faults = 0

-----------------------------------------------------------------------------
(* Gmail and Pub/Sub.                                                       *)

pubsub == <<mailbox, msg, via>>
progress == <<began, covered>>
control == <<main, session, attempts>>

Arrive ==
    /\ mailbox < MaxMail /\ Bounded
    /\ mailbox' = mailbox + 1
    /\ msg' = [msg EXCEPT ![mailbox'] = "published"]
    /\ UNCHANGED <<via, session_vars, control, progress, faults>>

\* At-least-once: a notification that was acknowledged comes again.
Redeliver(m) ==
    /\ msg[m] \in {"accepted", "dropped"}
    /\ Fault
    /\ msg' = [msg EXCEPT ![m] = "published"]
    /\ UNCHANGED <<mailbox, via, session_vars, control, progress>>

\* The stream hands a notification to a callback thread.
Deliver(m) ==
    /\ msg[m] = "published"
    /\ main.at \in {"loop", "check", "result", "closing"}
    /\ msg' = [msg EXCEPT ![m] = "callback"]
    /\ via' = [via EXCEPT ![m] = session]
    /\ UNCHANGED <<mailbox, session_vars, control, progress, faults>>

-----------------------------------------------------------------------------
(* _callback, in a thread of its own.                                       *)

Advance(m, from, to) == msg[m] = from /\ msg' = [msg EXCEPT ![m] = to]

calling == <<mailbox, via, control, progress>>

\* A session that is stopping acknowledges without doing anything.
CallbackStopped(m) ==
    /\ Advance(m, "callback", "dropped")
    /\ stop[via[m]]
    /\ UNCHANGED <<session_vars, faults, calling>>

CallbackParses(m) ==
    /\ Advance(m, "callback", "parsed")
    /\ ~stop[via[m]]
    /\ UNCHANGED <<session_vars, faults, calling>>

\* An unreadable payload is logged and acknowledged.
ParseFails(m) ==
    /\ Advance(m, "callback", "dropped")
    /\ ~stop[via[m]]
    /\ Fault
    /\ UNCHANGED <<session_vars, calling>>

History(m) == IF m \in NoHistory THEN None ELSE m

\* The notification kept of two: the later history, or the one that came last
\* when one of them has none.  (Mutant: the first one stays.)
CollapseToFirst(p, m) == IF p = None THEN m ELSE p

Collapse(p, m) ==
    IF \/ p = None \/ History(m) = None \/ History(p) = None
       \/ History(m) >= History(p)
      THEN m ELSE p

\* _queue_event under pending_lock ...
Queue(m) ==
    /\ Advance(m, "parsed", "queued")
    /\ pending' = [pending EXCEPT ![via[m]] = Collapse(@, m)]
    /\ UNCHANGED <<stop, trigger, failed, worker, faults, calling>>

\* ... and, the lock released, trigger_event.set().  (Mutant: forgotten.)
SetTriggerForgotten(m) ==
    /\ Advance(m, "queued", "set")
    /\ UNCHANGED <<session_vars, faults, calling>>

SetTrigger(m) ==
    /\ Advance(m, "queued", "set")
    /\ trigger' = [trigger EXCEPT ![via[m]] = TRUE]
    /\ UNCHANGED <<stop, failed, pending, worker, faults, calling>>

\* message.ack() comes last, in the finally clause.
Ack(m) ==
    /\ Advance(m, "set", "accepted")
    /\ UNCHANGED <<session_vars, faults, calling>>

Callback(m) ==
    \/ CallbackStopped(m) \/ CallbackParses(m)
    \/ Queue(m) \/ SetTrigger(m) \/ Ack(m)

-----------------------------------------------------------------------------
(* _worker_loop.                                                            *)

At(s, label) == worker[s].at = label

Goto(s, label) == worker' = [worker EXCEPT ![s].at = label]

working == <<pubsub, control>>

\* trigger_event.wait returns.
Wake(s) ==
    /\ At(s, "wait") /\ ~stop[s] /\ trigger[s]
    /\ Goto(s, "take")
    /\ UNCHANGED <<stop, trigger, failed, pending, working, progress, faults>>

\* trigger_event.wait times out and the last run was long ago.
\* (Mutant: no idle trigger.)
IdleTriggerNever(s) == FALSE /\ UNCHANGED vars

IdleTrigger(s) ==
    /\ At(s, "wait") /\ ~stop[s] /\ ~trigger[s]
    /\ worker' = [worker EXCEPT ![s].at = "run", ![s].idle = TRUE]
    /\ UNCHANGED <<stop, trigger, failed, pending, working, progress, faults>>

\* _dequeue_event takes the pending event and clears the trigger under the lock.
Dequeue(s) ==
    /\ At(s, "take") /\ ~stop[s]
    /\ pending' = [pending EXCEPT ![s] = None]
    /\ trigger' = [trigger EXCEPT ![s] = FALSE]
    /\ UNCHANGED <<stop, failed, working, progress, faults>>

TakeNothing(s) ==
    /\ pending[s] = None
    /\ Dequeue(s)
    /\ Goto(s, "wait")

\* A run for this history or a later one has begun already.
Duplicate(s) ==
    LET h == History(pending[s]) IN
    h # None /\ worker[s].last # None /\ h <= worker[s].last

SkipDuplicate(s) ==
    /\ pending[s] # None
    /\ Duplicate(s)
    /\ Dequeue(s)
    /\ UNCHANGED worker

Take(s) ==
    /\ pending[s] # None
    /\ ~Duplicate(s)
    /\ Dequeue(s)
    /\ worker' = [worker EXCEPT
          ![s].at = "run", ![s].idle = FALSE,
          ![s].last = IF History(pending[s]) = None THEN @ ELSE History(pending[s])]

\* on_trigger: run_once_with_guard begins a run of the pipeline.
BeginRun(s) ==
    /\ At(s, "run")
    /\ worker' = [worker EXCEPT ![s].at = "running", ![s].sees = mailbox]
    /\ began' = mailbox
    /\ UNCHANGED <<stop, trigger, failed, pending, working, covered, faults>>

\* After a run the worker goes on where it was.
AfterRun(s, fails) ==
    worker' = [worker EXCEPT ![s].at = IF worker[s].idle THEN "wait" ELSE "take",
                             ![s].idle = FALSE, ![s].sees = 0, ![s].fails = fails]

RunSucceeds(s) ==
    /\ At(s, "running")
    /\ covered' = Larger(covered, worker[s].sees)
    /\ AfterRun(s, 0)
    /\ UNCHANGED <<stop, trigger, failed, pending, working, began, faults>>

\* A run that ends with a failed RunResult is no failure for the worker:
\* run_once_with_guard returns True.
RunFailsQuietly(s) ==
    /\ At(s, "running")
    /\ Fault
    /\ AfterRun(s, 0)
    /\ UNCHANGED <<stop, trigger, failed, pending, working, progress>>

\* Only an unhandled exception makes it return False: the worker backs off,
\* or gives up after MaxFailures in a row.
FatalRaise(s) == worker[s].fails + 1 >= MaxFailures

\* Mutant: gives up after one more.
RunRaisesOnceMore(s) ==
    /\ At(s, "running")
    /\ Fault
    /\ worker' = [worker EXCEPT
          ![s].at = IF worker[s].fails >= MaxFailures THEN "failing" ELSE "backoff",
          ![s].fails = @ + 1, ![s].sees = 0]
    /\ UNCHANGED <<stop, trigger, failed, pending, working, progress>>

RunRaises(s) ==
    /\ At(s, "running")
    /\ Fault
    /\ worker' = [worker EXCEPT
          ![s].at = IF FatalRaise(s) THEN "failing" ELSE "backoff",
          ![s].fails = @ + 1, ![s].sees = 0]
    /\ UNCHANGED <<stop, trigger, failed, pending, working, progress>>

BackoffEnds(s) ==
    /\ At(s, "backoff")
    /\ AfterRun(s, worker[s].fails)
    /\ UNCHANGED <<stop, trigger, failed, pending, working, progress, faults>>

\* The except clause: worker_failed first, stop_event after it.
WorkerFails(s) ==
    /\ At(s, "failing")
    /\ failed' = [failed EXCEPT ![s] = TRUE]
    /\ Goto(s, "stopping")
    /\ UNCHANGED <<stop, trigger, pending, working, progress, faults>>

WorkerStopsSession(s) ==
    /\ At(s, "stopping")
    /\ stop' = [stop EXCEPT ![s] = TRUE]
    /\ Goto(s, "done")
    /\ UNCHANGED <<trigger, failed, pending, working, progress, faults>>

\* The loops end at stop_event.
WorkerStopped(s) ==
    /\ worker[s].at \in {"wait", "take", "backoff"} /\ stop[s]
    /\ worker' = [worker EXCEPT ![s] = [NewWorker EXCEPT !.at = "done"]]
    /\ UNCHANGED <<stop, trigger, failed, pending, working, progress, faults>>

WorkerStep(s) ==
    \/ Wake(s) \/ IdleTrigger(s)
    \/ TakeNothing(s) \/ SkipDuplicate(s) \/ Take(s)
    \/ BeginRun(s) \/ RunSucceeds(s)
    \/ BackoffEnds(s)
    \/ WorkerFails(s) \/ WorkerStopsSession(s) \/ WorkerStopped(s)

-----------------------------------------------------------------------------
(* handle_streaming_mode and _StreamingPullRunner.run: the main thread.     *)

MainGoto(from, to) == main.at = from /\ main' = [main EXCEPT !.at = to]

\* The process ends: its threads are gone, and what was not acknowledged will
\* be delivered again.
ProcessEnds ==
    /\ main' = [main EXCEPT !.at = "exited", !.raised = FALSE]
    /\ msg' = [m \in Mail |->
                 IF msg[m] \in {"callback", "parsed", "queued", "set"}
                   THEN "published" ELSE msg[m]]
    /\ stop' = InEvery(FALSE) /\ trigger' = InEvery(FALSE) /\ failed' = InEvery(FALSE)
    /\ pending' = InEvery(None)
    /\ worker' = InEvery(NewWorker)
    /\ session' = 1
    /\ attempts' = 0
    /\ UNCHANGED <<mailbox, via, progress>>

running == <<session_vars, pubsub, session, attempts>>

\* The run at startup, whatever comes of it.
FirstRunBegins ==
    /\ main.at = "start"
    /\ main' = [main EXCEPT !.at = "first", !.sees = mailbox]
    /\ began' = mailbox
    /\ UNCHANGED <<running, covered, faults>>

FirstRunEnds ==
    /\ main.at = "first"
    /\ main' = [main EXCEPT !.at = "connect", !.sees = 0]
    /\ \/ covered' = Larger(covered, main.sees) /\ UNCHANGED faults
       \/ Fault /\ UNCHANGED covered
    /\ UNCHANGED <<running, began>>

\* A new runner: fresh events, and its worker started ...
StartWorker ==
    /\ worker' = [worker EXCEPT ![session].at = "wait"]
    /\ UNCHANGED <<stop, trigger, failed, pending, pubsub, session, attempts, progress>>

\* ... before the stream is subscribed.
Connect ==
    /\ MainGoto("connect", "loop")
    /\ StartWorker
    /\ UNCHANGED faults

\* When that raises, nothing stops the session: its worker goes on beside those
\* of later sessions, with its idle triggers, until the process ends.
ConnectFails ==
    /\ main.at = "connect"
    /\ Fault
    /\ main' = [main EXCEPT !.at = "retry", !.raised = TRUE]
    /\ StartWorker

\* while not self.stop_event.is_set()
LoopChecksStop ==
    /\ main.at = "loop"
    /\ main' = IF stop[session] THEN [main EXCEPT !.at = "closing", !.raised = FALSE]
               ELSE [main EXCEPT !.at = "check"]
    /\ UNCHANGED <<running, progress, faults>>

\* if self.worker_failed.is_set(): raise
LoopChecksWorker ==
    /\ main.at = "check"
    /\ main' = IF failed[session] THEN [main EXCEPT !.at = "closing", !.raised = TRUE]
               ELSE [main EXCEPT !.at = "result"]
    /\ UNCHANGED <<running, progress, faults>>

\* stream_future.result(timeout=1.0).  (Mutant: without the timeout.)
ResultBlocks == main.at = "result" /\ UNCHANGED vars

ResultTimesOut ==
    /\ MainGoto("result", "loop")
    /\ UNCHANGED <<running, progress, faults>>

\* The stream ends: with an error, or regularly.
StreamEnds ==
    /\ main.at = "result"
    /\ Fault
    /\ \E raised \in BOOLEAN : main' = [main EXCEPT !.at = "closing", !.raised = raised]
    /\ UNCHANGED <<running, progress>>

\* The finally clause: the session stops, the worker is woken, the stream ends.
Close ==
    /\ MainGoto("closing", "join")
    /\ stop' = [stop EXCEPT ![session] = TRUE]
    /\ trigger' = [trigger EXCEPT ![session] = TRUE]
    /\ UNCHANGED <<failed, pending, worker, pubsub, session, attempts, progress, faults>>

\* worker.join(timeout=5): the worker may still be in a run.
JoinAndReconnect ==
    /\ main.raised
    /\ MainGoto("join", "retry")
    /\ UNCHANGED <<running, progress, faults>>

\* run() returns, and with it handle_streaming_mode.
JoinAndReturn ==
    /\ main.at = "join" /\ ~main.raised
    /\ ProcessEnds
    /\ UNCHANGED faults

\* The session failed: connect again after a delay, or give up.
Reconnect ==
    /\ main.at = "retry"
    /\ attempts' = attempts + 1
    /\ MaxReconnects = 0 \/ attempts' < MaxReconnects
    /\ session' = session + 1
    /\ main' = [main EXCEPT !.at = "connect", !.raised = FALSE]
    /\ UNCHANGED <<session_vars, pubsub, progress, faults>>

GiveUp ==
    /\ main.at = "retry"
    /\ MaxReconnects # 0 /\ attempts + 1 >= MaxReconnects
    /\ ProcessEnds
    /\ UNCHANGED faults

Kill ==
    /\ main.at # "exited"
    /\ Fault
    /\ ProcessEnds

\* systemd: Restart=always.
Restart ==
    /\ MainGoto("exited", "start")
    /\ UNCHANGED <<running, progress, faults>>

MainStep ==
    \/ FirstRunBegins \/ FirstRunEnds \/ Connect
    \/ LoopChecksStop \/ LoopChecksWorker \/ ResultTimesOut
    \/ Close \/ JoinAndReconnect \/ JoinAndReturn
    \/ Reconnect \/ GiveUp \/ Restart

Next ==
    \/ Arrive
    \/ \E m \in Mail : Redeliver(m) \/ Deliver(m) \/ Callback(m) \/ ParseFails(m)
    \/ \E s \in Sessions : WorkerStep(s) \/ RunFailsQuietly(s) \/ RunRaises(s)
    \/ MainStep \/ ConnectFails \/ StreamEnds \/ Kill

Spec == Init /\ [][Next]_vars

\* Threads that can go on do go on, and systemd restarts the service.  Nothing
\* is assumed about Gmail or about what Pub/Sub delivers.
FairSpec == /\ Spec
            /\ WF_vars(MainStep)
            /\ \A s \in Sessions : WF_vars(WorkerStep(s))
            /\ \A m \in Mail : WF_vars(Callback(m))

-----------------------------------------------------------------------------
(* Properties.                                                              *)

TypeOK ==
    /\ mailbox \in 0..MaxMail
    /\ msg \in [Mail -> MsgStates]
    /\ via \in [Mail -> Sessions]
    /\ stop \in [Sessions -> BOOLEAN]
    /\ trigger \in [Sessions -> BOOLEAN]
    /\ failed \in [Sessions -> BOOLEAN]
    /\ pending \in [Sessions -> Mail \union {None}]
    /\ worker \in [Sessions -> Worker]
    /\ \A s \in Sessions : worker[s].fails = MaxFailures =>
          worker[s].at \in {"failing", "stopping", "done"}
    /\ main \in MainThread
    /\ session \in Sessions
    /\ attempts \in Nat
    /\ began \in 0..mailbox
    /\ covered \in 0..began
    /\ faults \in 0..MaxFaults

\* A worker in its inner loop looks at pending_event again before it waits.
WillDequeue(s) ==
    \/ At(s, "take")
    \/ worker[s].at \in {"run", "running", "backoff"} /\ ~worker[s].idle

\* No lost wakeup: while an event is pending in a session that goes on, its
\* trigger is set, or about to be set by a callback, or the worker will look.
NoLostWakeup ==
    \A s \in Sessions :
        pending[s] # None /\ ~stop[s] =>
            \/ trigger[s]
            \/ WillDequeue(s)
            \/ worker[s].at \in {"failing", "stopping"}
            \/ \E m \in Mail : msg[m] = "queued" /\ via[m] = s

\* Collapsing and skipping lose no trigger: for every notification that a
\* session accepted, a run that sees its mail has begun since the mail
\* arrived, or will begin because of what is pending or in hand.  (The comment
\* at streaming_pull.py:406: a skipped trigger "already triggered from an
\* equivalent or newer frontier".)
AcceptedTriggersRun ==
    \A m \in Mail :
        msg[m] \in {"set", "accepted"} /\ ~stop[via[m]] =>
            \/ m <= began
            \/ pending[via[m]] # None /\ ~Duplicate(via[m])
            \/ At(via[m], "run")
            \/ main.at \in {"start", "exited"}
            \/ worker[via[m]].at \in {"failing", "stopping"}

\* A session whose worker has ended does not go on listening.
DeadWorkerEndsSession ==
    \A s \in Sessions :
        At(s, "stopping") ~> (main.at \notin {"loop", "check", "result"} \/ session # s)

\* Mail is eventually seen by a successful run, although notifications are
\* lost, dropped or collapsed and runs fail: by a later trigger, the idle
\* trigger, or the first run after a restart.
EveryMailCovered == \A m \in Mail : (m <= mailbox) ~> (m <= covered)
=============================================================================
