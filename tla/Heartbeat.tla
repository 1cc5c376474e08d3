------------------------------ MODULE Heartbeat ------------------------------
(***************************************************************************)
(* The heartbeat of the main service (streaming_pull.py) and how the       *)
(* fallback watchdog reads it (failover.evaluate_main_health).             *)
(*                                                                         *)
(* Every session keeps a snapshot in memory, and several of its threads    *)
(* write that to the one heartbeat file.  What matters of a snapshot is    *)
(* how old its two times are, in ticks of the clock; older than the limit  *)
(* is as old as it gets.  The worker's polls of 0.5 s, the heartbeat       *)
(* interval and the joins are much shorter than a tick.                    *)
(*                                                                         *)
(* A snapshot is copied and written in one step here: one that another     *)
(* thread overtakes in between only makes the file older until the next.   *)
(* The worker's own control (events, failures, reconnects) is in module    *)
(* Streaming; here it is reduced to when the snapshot is touched.          *)
(***************************************************************************)
EXTENDS Naturals

CONSTANT MaxAge   \* heartbeat_max_age_seconds, in ticks

ASSUME MaxAgeNat == MaxAge \in Nat

\* worker_last_seen_at is None.
Unseen == MaxAge + 2

Older(age) == IF age <= MaxAge THEN age + 1 ELSE age

VARIABLES
    systemctl,  \* can systemctl be run on this host
    active,     \* is the process of the main service running
    now,        \* the current session's worker and snapshot ...
    left,       \* ... and those of an earlier one that are still there
    file,       \* the heartbeat file
    quiet       \* time since a worker passed its loop or a session began
                \* (specification only)

vars == <<systemctl, active, now, left, file, quiet>>

Snapshot == [updated: 0..(MaxAge + 1), worker: 0..(MaxAge + 2)]

\* off: no worker; between: at the top of its loops; runs: in on_trigger;
\* pauses: backing off after a failed run; last: in on_trigger when its session
\* has ended.
Session == [at: {"off", "between", "runs", "pauses", "last"}, beat: Snapshot]

Fresh == [updated |-> 0, worker |-> Unseen]
Gone  == [at |-> "off", beat |-> Fresh]
Begun == [at |-> "between", beat |-> Fresh]

\* A missing file is judged like one that is too old.
NoFile == [updated |-> MaxAge + 1, worker |-> MaxAge + 1]

Init ==
    /\ systemctl \in BOOLEAN
    /\ active = FALSE
    /\ now = Gone /\ left = Gone
    /\ file = NoFile
    /\ quiet = MaxAge + 1

\* _update_heartbeat without and with worker_last_seen_at.  (Mutant: always
\* with it.)
UpdatedAsSeen(beat) == [updated |-> 0, worker |-> 0]
Updated(beat) == [beat EXCEPT !.updated = 0]
Seen(beat)    == [updated |-> 0, worker |-> 0]

\* _mark_heartbeat: an OSError is logged and the old file stays.
Mark(beat) == file' \in {file, beat}

-----------------------------------------------------------------------------
(* The process and its sessions.                                            *)

\* systemd starts the process, which runs the pipeline once before it listens.
ProcessStarts ==
    /\ ~active
    /\ active' = TRUE
    /\ UNCHANGED <<systemctl, now, left, file, quiet>>

\* A new _StreamingPullRunner, the first one or after a reconnect.
BeginSession ==
    /\ active /\ now.at = "off"
    /\ now' = Begun
    /\ quiet' = 0
    /\ UNCHANGED <<systemctl, active, left, file>>

\* Its subscribe raises: nothing stops its threads, which go on beside those of
\* the sessions to come.  No more than one session leaves threads (a bound).
SubscribeFails ==
    /\ active /\ now.at = "off"
    /\ left.at = "off" /\ left' = Begun
    /\ quiet' = 0
    /\ UNCHANGED <<systemctl, active, now, file>>

\* The stream fails, or a worker that failed for good stops its session.  A
\* worker in a run is left behind; others end at once.
EndSession ==
    /\ now.at # "off"
    /\ now' = Gone
    /\ IF now.at = "runs"
         THEN left.at = "off" /\ left' = [now EXCEPT !.at = "last"]
         ELSE UNCHANGED left
    /\ UNCHANGED <<systemctl, active, file, quiet>>

\* The process exits or is killed, with all its threads.
ProcessEnds ==
    /\ active
    /\ active' = FALSE
    /\ now' = Gone /\ left' = Gone
    /\ UNCHANGED <<systemctl, file, quiet>>

-----------------------------------------------------------------------------
(* The threads of a session, now or left; s before the step, t after it.    *)

\* The worker passes the top of its outer loop.
Loop(s, t) ==
    /\ s.at = "between"
    /\ t = [s EXCEPT !.beat = Seen(@)]
    /\ Mark(Seen(s.beat))
    /\ quiet' = 0

\* _run_trigger_once, from the outer loop or from the inner one, which does not
\* touch worker_last_seen_at however many runs it makes.
BeginRun(s, t) ==
    /\ s.at = "between" /\ s.beat.worker # Unseen
    /\ t = [at |-> "runs", beat |-> Updated(s.beat)]
    /\ UNCHANGED <<file, quiet>>

\* It succeeds, or the worker backs off.
EndRun(s, t) ==
    /\ s.at = "runs"
    /\ \E label \in {"between", "pauses"} : t = [at |-> label, beat |-> Updated(s.beat)]
    /\ Mark(Updated(s.beat))
    /\ UNCHANGED quiet

\* The worker of a session that has ended makes its last run, and the last
\* failure in a row ends any worker and its session.
EndLastRun(s, t) ==
    /\ s.at \in {"runs", "last"}
    /\ t = Gone
    /\ Mark(Updated(s.beat))
    /\ UNCHANGED quiet

PauseEnds(s, t) ==
    /\ s.at = "pauses"
    /\ t = [s EXCEPT !.at = "between"]
    /\ UNCHANGED <<file, quiet>>

\* _heartbeat_loop, and the main thread once, write the snapshot as it is.
Rewrite(s, t) ==
    /\ s.at \notin {"off", "last"}
    /\ Mark(s.beat)
    /\ t = s /\ UNCHANGED quiet

Thread(s, t) ==
    \/ Loop(s, t) \/ BeginRun(s, t) \/ EndRun(s, t) \/ EndLastRun(s, t)
    \/ PauseEnds(s, t) \/ Rewrite(s, t)

ThreadNow  == Thread(now, now') /\ UNCHANGED <<systemctl, active, left>>
ThreadLeft == Thread(left, left') /\ UNCHANGED <<systemctl, active, now>>

\* A callback queues an event or fails to parse it; only then is no mark made.
Callback ==
    /\ now.at # "off"
    /\ now' = [now EXCEPT !.beat = Updated(@)]
    /\ Mark(Updated(now.beat))
    /\ UNCHANGED <<systemctl, active, left, quiet>>

\* A worker that is not in a run polls at least once in a tick.
Polled == \A s \in {now, left} : s.at = "between" => s.beat.worker = 0

Aged(beat) == [updated |-> Older(beat.updated), worker |-> Older(beat.worker)]

AgedSession(s) == IF s.at = "off" THEN s ELSE [s EXCEPT !.beat = Aged(@)]

Tick ==
    /\ Polled
    /\ now' = AgedSession(now) /\ left' = AgedSession(left)
    /\ file' = Aged(file)
    /\ quiet' = Older(quiet)
    /\ UNCHANGED <<systemctl, active>>

Next ==
    \/ ProcessStarts \/ BeginSession \/ SubscribeFails \/ EndSession \/ ProcessEnds
    \/ ThreadNow \/ ThreadLeft \/ Callback
    \/ Tick

Spec == Init /\ [][Next]_vars

-----------------------------------------------------------------------------
(* The watchdog's judgement, failover.evaluate_main_health.                 *)

\* heartbeat_age_seconds and worker_heartbeat_age_seconds.
FileFresh   == file.updated <= MaxAge
WorkerStale == file.worker # Unseen /\ file.worker > MaxAge

\* get_systemd_service_state; without systemctl only the heartbeat counts.
ServiceActive == systemctl => active

\* (Mutant: the age of the worker is not looked at.)
HealthyByFile == ServiceActive /\ FileFresh

Healthy == ServiceActive /\ FileFresh /\ ~WorkerStale

-----------------------------------------------------------------------------
(* Properties.                                                              *)

TypeOK ==
    /\ systemctl \in BOOLEAN /\ active \in BOOLEAN
    /\ now \in Session /\ left \in Session
    /\ file \in Snapshot
    /\ quiet \in 0..(MaxAge + 1)

\* A main service that is judged healthy has really been alive: within the
\* limit a worker passed its loop or a session began.  Neither the heartbeat
\* thread nor callbacks that go on, nor a worker left behind in its last run
\* that writes its own snapshot over the file, can make a stalled service look
\* alive ("process alive but functionally stalled", HYBRID_ARCHITECTURE.en.md,
\* 4).  Any worker counts that still looks for work, the one of a session that
\* could not subscribe, too: it listens to nothing, but it polls when idle.
HealthyWasAlive == Healthy => quiet <= MaxAge

\* Why: no snapshot shows a worker younger than the last sign of life, and one
\* that shows no worker is as old as its session at least.
Honest(beat) == quiet <= (IF beat.worker = Unseen THEN beat.updated ELSE beat.worker)

SessionInv(s) ==
    s.at # "off" =>
        /\ Honest(s.beat)
        /\ s.beat.worker = Unseen => quiet = 0 /\ s.at = "between"

IInv == TypeOK /\ Honest(file) /\ SessionInv(now) /\ SessionInv(left)
=============================================================================
