----------------------------- MODULE StateFile -----------------------------
(***************************************************************************)
(* state.json and those who read it, change it and write it back: the      *)
(* checkpoint store (snapshot keys), the incident lifecycle of notifier.py *)
(* and incident_store.py, and the failover watchdog.  All but the watchdog *)
(* do so under state_update_lock, an flock that the kernel releases when   *)
(* the process dies; os.replace makes each write atomic.                   *)
(*                                                                         *)
(* A runner executes run_once again and again.  A watchdog is a process of *)
(* the fallback timer: it judges the main service, and executes run_once   *)
(* when that is unhealthy.                                                  *)
(*                                                                         *)
(* Incidents are numbered in the order they are opened; the number stands  *)
(* for active_incident_at.  Counters and texts are left out, and so is the *)
(* de-duplication of what is posted (module Dedupe).                       *)
(***************************************************************************)
EXTENDS Naturals

CONSTANTS
    Runners,      \* the main service, --once
    Watchdogs,    \* --once --fallback-watchdog
    Kinds,        \* failure kinds a run may alert about
    Snapshots,    \* values of the snapshot keys
    MaxOpens,     \* bound on the incidents that are opened
    MaxFaults     \* bound on failures and kills

ASSUME Roles        == Runners \intersect Watchdogs = {}
ASSUME MaxOpensNat  == MaxOpens \in Nat
ASSUME MaxFaultsNat == MaxFaults \in Nat

Procs == Runners \union Watchdogs

None == "none"
Nobody == "nobody"
ASSUME NobodyRuns == Nobody \notin Procs
ASSUME NoneIsNone == None \notin Kinds \union Snapshots

VARIABLES
    state,       \* state.json
    holder,      \* who holds state_update_lock
    healthy,     \* evaluate_main_health(...).healthy
    opened,      \* number of incidents opened so far
    recovered,   \* incidents whose incident_recovered event is in the log
    pc, job,     \* control state and data of every process
    faults

files == <<state, holder, opened, recovered>>
vars  == <<files, healthy, pc, job, faults>>

State == [snapshot: Snapshots \union {None}, incident: Kinds \union {None},
          at: Nat, failover: BOOLEAN]

\* load_state of a missing file.
NoState == [snapshot |-> None, incident |-> None, at |-> 0, failover |-> FALSE]

Job == [kind: Kinds \union {None},   \* failure kind of the run
        op: {"none", "snapshot", "suppress", "open", "recover",
             "failover", "again", "clear"},
        at: Nat,                     \* the incident being recovered
        copy: State]                 \* state.json as it was loaded

NoJob == [kind |-> None, op |-> "none", at |-> 0, copy |-> NoState]

Labels == {"idle", "poll", "run", "alert", "announce", "suppress", "open",
           "recover", "save", "append", "watch"}

Init ==
    /\ state = NoState
    /\ holder = Nobody
    /\ healthy \in BOOLEAN
    /\ opened = 0
    /\ recovered = {}
    /\ pc = [p \in Procs |-> "idle"]
    /\ job = [p \in Procs |-> NoJob]
    /\ faults = 0

Goto(p, label) == pc' = [pc EXCEPT ![p] = label]

\* The job goes on at a label, or is done.
Continue(p, label, j) == Goto(p, label) /\ job' = [job EXCEPT ![p] = j]

Done(p) == Continue(p, "idle", NoJob)

Fault == faults < MaxFaults /\ faults' = faults + 1

-----------------------------------------------------------------------------
(* A run, and what notifier._handle_incident_lifecycle makes of its result.  *)

BeginRun(p) ==
    /\ \/ p \in Runners /\ pc[p] = "idle"
       \/ pc[p] = "poll"
    /\ Goto(p, "run")
    /\ UNCHANGED <<files, healthy, job, faults>>

\* The incident of a failing run is active already.  (Mutant: any incident is.)
ContinuesAny(kind) == state.incident # None
Continues(kind) == state.incident = kind

\* The run failed with a kind that alerts: its incident goes on, or an alert is
\* due.
Failed(p, kind) ==
    /\ pc[p] = "run"
    /\ opened < MaxOpens \/ Continues(kind)
    /\ Continue(p, IF Continues(kind) THEN "suppress" ELSE "alert",
                [NoJob EXCEPT !.kind = kind])
    /\ UNCHANGED <<files, healthy, faults>>

\* The run succeeded: an active incident is over.
Succeeded(p) ==
    /\ pc[p] = "run"
    /\ Goto(p, IF state.incident # None THEN "announce" ELSE "idle")
    /\ UNCHANGED <<files, healthy, job, faults>>

\* A dry run, no webhook, or a failure without an alert.
EndedQuietly(p) ==
    /\ pc[p] = "run"
    /\ Goto(p, "idle")
    /\ UNCHANGED <<files, healthy, job, faults>>

\* Discord accepts the alert or the recovery message.
Post(p) ==
    /\ pc[p] \in {"alert", "announce"}
    /\ Goto(p, IF pc[p] = "alert" THEN "open" ELSE "recover")
    /\ UNCHANGED <<files, healthy, job, faults>>

PostFails(p) ==
    /\ pc[p] \in {"alert", "announce"}
    /\ Fault
    /\ Done(p)
    /\ UNCHANGED <<files, healthy>>

-----------------------------------------------------------------------------
(* Under state_update_lock.                                                 *)

\* (Mutant: the lock is not waited for.)
LockIgnored == TRUE
LockFree == holder = Nobody

\* The lock is taken and state.json loaded.
LockAndLoad(p) ==
    /\ pc[p] \in {"run", "suppress", "open", "recover"}
    /\ LockFree
    /\ holder' = p
    /\ Continue(p, "save",
                [job[p] EXCEPT !.copy = state,
                               !.op = IF pc[p] = "run" THEN "snapshot" ELSE pc[p]])
    /\ UNCHANGED <<state, opened, recovered, healthy, faults>>

\* What the operation makes of the state it loaded.  (Mutant: the kind is left.)
Opened(p, c) == [c EXCEPT !.incident = job[p].kind, !.at = opened + 1]

ClosedKeepsKind(c) == [c EXCEPT !.at = 0]
Closed(c) == [c EXCEPT !.incident = None, !.at = 0]

Updated(p) ==
    LET c == job[p].copy IN
    CASE job[p].op = "snapshot" -> {[c EXCEPT !.snapshot = s] : s \in Snapshots}
      [] job[p].op = "suppress" -> {c}
      [] job[p].op = "open"     -> {Opened(p, c)}
      [] OTHER                  -> {Closed(c)}

\* recover_incident returns early when somebody else has recovered it.
NothingToRecover(p) == job[p].op = "recover" /\ job[p].copy.incident = None

\* save_state.  (Mutant: the opening time is not new.)
WriteUncounted(p) == state' \in Updated(p) /\ UNCHANGED opened

Write(p) ==
    /\ state' \in Updated(p)
    /\ opened' = IF job[p].op = "open" THEN opened + 1 ELSE opened

Saved(p) ==
    IF job[p].op = "snapshot" THEN Continue(p, "run", NoJob)
    ELSE Continue(p, "append", [job[p] EXCEPT !.at = job[p].copy.at, !.copy = NoState])

\* An incident event is appended after the lock has been released.
Save(p) ==
    /\ pc[p] = "save"
    /\ ~NothingToRecover(p)
    /\ Write(p)
    /\ holder' = Nobody
    /\ Saved(p)
    /\ UNCHANGED <<recovered, healthy, faults>>

RecoverNothing(p) ==
    /\ pc[p] = "save"
    /\ NothingToRecover(p)
    /\ holder' = Nobody
    /\ Done(p)
    /\ UNCHANGED <<state, opened, recovered, healthy, faults>>

\* OSError, before or after os.replace: no incident event is appended; a
\* snapshot is best effort.  (Mutant: the event is appended all the same.)
SaveFailsUnnoticed(p) ==
    /\ pc[p] = "save"
    /\ ~NothingToRecover(p)
    /\ Fault
    /\ Write(p) \/ UNCHANGED <<state, opened>>
    /\ holder' = Nobody
    /\ Saved(p)
    /\ UNCHANGED <<recovered, healthy>>

SaveFails(p) ==
    /\ pc[p] = "save"
    /\ ~NothingToRecover(p)
    /\ Fault
    /\ Write(p) \/ UNCHANGED <<state, opened>>
    /\ holder' = Nobody
    /\ IF job[p].op = "snapshot" THEN Continue(p, "run", NoJob) ELSE Done(p)
    /\ UNCHANGED <<recovered, healthy>>

\* The event of what was saved.
Logged(p) ==
    recovered' = IF job[p].op = "recover" THEN recovered \union {job[p].at}
                 ELSE recovered

Append(p) ==
    /\ pc[p] = "append"
    /\ Logged(p)
    /\ Done(p)
    /\ UNCHANGED <<state, holder, opened, healthy, faults>>

AppendFails(p) ==
    /\ pc[p] = "append"
    /\ Fault
    /\ Logged(p) \/ UNCHANGED recovered
    /\ Done(p)
    /\ UNCHANGED <<state, holder, opened, healthy>>

-----------------------------------------------------------------------------
(* failover.evaluate_failover_watchdog, without the lock.                    *)

\* A healthy main service without a failover needs nothing.
Watch(w) ==
    /\ pc[w] = "idle"
    /\ ~healthy \/ state.failover
    /\ Continue(w, "watch",
                [NoJob EXCEPT !.copy = state,
                              !.op = IF healthy THEN "clear"
                                     ELSE IF state.failover THEN "again" ELSE "failover"])
    /\ UNCHANGED <<files, healthy, faults>>

\* The recovery could not be announced: tried again by the next timer.
AnnounceFails(w) ==
    /\ pc[w] = "watch"
    /\ job[w].op = "clear"
    /\ Fault
    /\ Done(w)
    /\ UNCHANGED <<files, healthy>>

\* (Mutant: the failover flag is left in place.)
WatchdogKeepsFlag(w) == state' = [job[w].copy EXCEPT !.failover = TRUE]
WatchdogWrites(w) == state' = [job[w].copy EXCEPT !.failover = job[w].op # "clear"]

\* Whether the run that follows may poll.  (Mutant: a failover that goes on is
\* suppressed like its alert.)
PollsOnce(op) == op = "failover"
Polls(op) == op # "clear"

\* An alert that could not be delivered is not tried again.
WatchdogSaves(w) ==
    /\ pc[w] = "watch"
    /\ WatchdogWrites(w)
    /\ Continue(w, IF Polls(job[w].op) THEN "poll" ELSE "idle", NoJob)
    /\ UNCHANGED <<holder, opened, recovered, healthy, faults>>

\* OSError ends the process before it polls.
WatchdogSaveFails(w) ==
    /\ pc[w] = "watch"
    /\ Fault
    /\ WatchdogWrites(w) \/ UNCHANGED state
    /\ Done(w)
    /\ UNCHANGED <<holder, opened, recovered, healthy>>

-----------------------------------------------------------------------------

HealthChanges ==
    /\ healthy' = ~healthy
    /\ UNCHANGED <<files, pc, job, faults>>

Crash(p) ==
    /\ pc[p] # "idle"
    /\ Fault
    /\ holder' = IF holder = p THEN Nobody ELSE holder
    /\ Done(p)
    /\ UNCHANGED <<state, opened, recovered, healthy>>

Outcome(p) == (\E k \in Kinds : Failed(p, k)) \/ Succeeded(p) \/ EndedQuietly(p)

Progress(p) ==
    \/ BeginRun(p) \/ Post(p) \/ Save(p) \/ RecoverNothing(p) \/ Append(p)

Disturbance(p) ==
    PostFails(p) \/ SaveFails(p) \/ AppendFails(p) \/ Crash(p)

WatchdogStep(w) == Watch(w) \/ WatchdogSaves(w)

Next ==
    \/ \E p \in Procs :
          Outcome(p) \/ LockAndLoad(p) \/ Progress(p) \/ Disturbance(p)
    \/ \E w \in Watchdogs : WatchdogStep(w) \/ AnnounceFails(w) \/ WatchdogSaveFails(w)
    \/ HealthChanges

Spec == Init /\ [][Next]_vars

\* Processes and the timer go on; the lock, held only for a write, is got by
\* whoever waits for it, and a run ends in the end.
FairSpec ==
    /\ Spec
    /\ \A p \in Procs : /\ WF_vars(Progress(p))
                        /\ SF_vars(Outcome(p))
                        /\ SF_vars(LockAndLoad(p) /\ pc[p] # "run")
    /\ \A w \in Watchdogs : WF_vars(WatchdogStep(w))

-----------------------------------------------------------------------------
(* Properties.                                                              *)

TypeOK ==
    /\ state \in State
    /\ holder \in Procs \union {Nobody}
    /\ healthy \in BOOLEAN
    /\ opened \in Nat
    /\ recovered \subseteq 0..opened
    /\ pc \in [Procs -> Labels]
    /\ job \in [Procs -> Job]
    /\ state.at <= opened
    /\ \A p \in Procs : job[p].at <= opened /\ job[p].copy.at <= opened
    /\ faults \in 0..MaxFaults

\* An incident that the log says is recovered is not active in state.json,
\* whatever fails between the two writes (engineering-decisions.en.md, 28:
\* avoid that "the event log says "recovered" while persistent state still
\* marks an active incident").
RecoveredStaysClosed == state.at \notin recovered

\* Why it holds as long as no watchdog writes: what a process saves under the
\* lock is made from the state.json of that moment, and the incident whose
\* recovery it is about to log has left state.json for good.
Numbered(s) == s.incident = None <=> s.at = 0

LockInv(p) ==
    /\ pc[p] = "save" => /\ holder = p
                         /\ job[p].copy = state
                         /\ job[p].op \in {"snapshot", "suppress", "open", "recover"}
    /\ pc[p] \in {"alert", "open"} => job[p].kind # None
    /\ pc[p] = "save" /\ job[p].op = "open" => job[p].kind # None
    /\ pc[p] = "append" /\ job[p].op = "recover" => job[p].at \notin {0, state.at}

IInv ==
    /\ TypeOK
    /\ Numbered(state)
    /\ 0 \notin recovered
    /\ RecoveredStaysClosed
    /\ \A p \in Procs : LockInv(p)

\* No update is lost: a write changes only the keys its operation is about.
OtherKeysKept ==
    [][/\ state'.snapshot # state.snapshot =>
            \E p \in Procs : pc[p] = "save" /\ pc'[p] # "save" /\ job[p].op = "snapshot"
       /\ state'.at # state.at =>
            \E p \in Procs : pc[p] = "save" /\ pc'[p] # "save"
                             /\ job[p].op \in {"open", "recover"}
       /\ state'.failover # state.failover =>
            \E w \in Watchdogs : pc[w] = "watch" /\ pc'[w] # "watch"]_vars

\* When from some time on every run fails with the same kind, the incident of
\* that kind is opened and stays open.
OnlyFails(k) ==
    <>[][\A p \in Procs : ~Succeeded(p) /\ ~EndedQuietly(p)
                          /\ \A j \in Kinds \ {k} : ~Failed(p, j)]_vars

OutageOpens ==
    \A k \in Kinds : OnlyFails(k) => \/ <>[](state.incident = k)
                                     \/ <>(opened >= MaxOpens)

\* When from some time on runs only succeed, an incident that is active in
\* state.json, even one the watchdog wrote back, is closed again.
RecoveryCloses ==
    <>[][\A p \in Procs : ~EndedQuietly(p) /\ \A k \in Kinds : ~Failed(p, k)]_vars
        => []<>(state.incident = None)
=============================================================================
