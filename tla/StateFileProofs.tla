-------------------------- MODULE StateFileProofs --------------------------
(* Proofs about module StateFile, for any number of processes and kinds: as  *)
(* long as all writers take the lock, and for a watchdog alone.              *)
EXTENDS StateFile, TLAPS

LEMMA NoJobType == NoJob \in Job /\ NoState \in State
BY NoneIsNone DEF NoJob, Job, NoState, State, None

LEMMA InitTypeOK == Init => TypeOK
<1> SUFFICES ASSUME Init PROVE TypeOK
  OBVIOUS
<1>1. state \in State /\ job \in [Procs -> Job]
  BY NoJobType DEF Init
<1>2. state.at = 0 /\ \A p \in Procs : job[p].at = 0 /\ job[p].copy.at = 0
  BY DEF Init, NoState, NoJob
<1> QED BY <1>1, <1>2, MaxFaultsNat DEF Init, TypeOK, Labels

\* What an operation writes is a state.json again, and names no incident
\* beyond the next one.
LEMMA UpdatedType ==
    ASSUME TypeOK, NEW p \in Procs, NEW s \in Updated(p)
    PROVE  /\ s \in State
           /\ s.at <= opened + 1
           /\ job[p].op # "open" => s.at <= opened
<1> DEFINE c == job[p].copy
<1>1. c \in State /\ job[p] \in Job /\ c.at <= opened /\ opened \in Nat
  BY DEF TypeOK, Job
<1>2. \A x \in Snapshots : /\ [c EXCEPT !.snapshot = x] \in State
                           /\ [c EXCEPT !.snapshot = x].at = c.at
  BY <1>1 DEF State
<1>3. Opened(p, c) \in State /\ Opened(p, c).at = opened + 1
  <2>1. job[p].kind \in Kinds \union {None} /\ opened + 1 \in Nat
    BY <1>1 DEF Job
  <2>2. [c EXCEPT !.incident = job[p].kind] \in State
    BY <1>1, <2>1 DEF State
  <2>3. [[c EXCEPT !.incident = job[p].kind] EXCEPT !.at = opened + 1] \in State
    BY <2>1, <2>2 DEF State
  <2>4. [[c EXCEPT !.incident = job[p].kind] EXCEPT !.at = opened + 1].at = opened + 1
    BY <2>2 DEF State
  <2>5. Opened(p, c) = [[c EXCEPT !.incident = job[p].kind] EXCEPT !.at = opened + 1]
    BY DEF Opened
  <2> QED BY <2>3, <2>4, <2>5
<1>4. Closed(c) \in State /\ Closed(c).at = 0
  BY <1>1 DEF State, Closed
<1>5. c.at \in Nat
  BY <1>1 DEF State
<1>6. CASE job[p].op = "snapshot"
  <2>1. PICK x \in Snapshots : s = [c EXCEPT !.snapshot = x]
    BY <1>6 DEF Updated
  <2> QED BY <2>1, <1>1, <1>2, <1>5, <1>6
<1>7. CASE job[p].op = "suppress"
  BY <1>7, <1>1, <1>5 DEF Updated
<1>8. CASE job[p].op = "open"
  BY <1>8, <1>1, <1>3 DEF Updated
<1>9. CASE job[p].op \notin {"snapshot", "suppress", "open"}
  BY <1>9, <1>1, <1>4 DEF Updated
<1> QED BY <1>6, <1>7, <1>8, <1>9

\* The bounds on the numbers of incidents survive any step that opens at most
\* one and changes at most one job.
LEMMA StepTypeOK ==
    ASSUME TypeOK, NEW p \in Procs, NEW j \in Job, NEW l \in Labels,
           pc' = [pc EXCEPT ![p] = l], job' = [job EXCEPT ![p] = j],
           state' \in State, holder' \in Procs \union {Nobody},
           UNCHANGED healthy, faults' \in 0..MaxFaults,
           opened' \in {opened, opened + 1}, state'.at <= opened',
           recovered' \subseteq 0..opened', j.at <= opened, j.copy.at <= opened
    PROVE  TypeOK'
<1>1. opened \in Nat /\ opened' \in Nat /\ opened <= opened'
  BY DEF TypeOK
<1>2. pc' \in [Procs -> Labels] /\ job' \in [Procs -> Job]
  BY DEF TypeOK
<1>3. ASSUME NEW q \in Procs PROVE job'[q].at <= opened' /\ job'[q].copy.at <= opened'
  <2>1. job'[q] = IF q = p THEN j ELSE job[q]
    BY DEF TypeOK
  <2>2. job'[q].at <= opened /\ job'[q].copy.at <= opened
    BY <2>1 DEF TypeOK
  <2>3. job'[q].at \in Nat /\ job'[q].copy.at \in Nat
    BY <1>2 DEF Job, State
  <2> QED BY <2>2, <2>3, <1>1
<1> QED BY <1>1, <1>2, <1>3 DEF TypeOK

\* A step that only moves on keeps the types.
LEMMA MoveTypeOK ==
    ASSUME TypeOK, NEW p \in Procs, NEW l \in Labels, Goto(p, l),
           job' = job \/ job' = [job EXCEPT ![p] = NoJob],
           UNCHANGED <<files, healthy>>, faults' \in 0..MaxFaults
    PROVE  TypeOK'
<1>1. job[p] \in Job /\ job[p].at <= opened /\ job[p].copy.at <= opened
  BY DEF TypeOK
<1>2. NoJob.at = 0 /\ NoJob.copy.at = 0 /\ opened \in Nat
  BY DEF NoJob, NoState, TypeOK
<1>3. PICK j \in Job : /\ job' = [job EXCEPT ![p] = j]
                       /\ j.at <= opened /\ j.copy.at <= opened
  <2>1. CASE job' = job
    <3>1. job' = [job EXCEPT ![p] = job[p]]
      BY <2>1 DEF TypeOK
    <3> QED BY <3>1, <1>1
  <2>2. CASE job' = [job EXCEPT ![p] = NoJob]
    <3>1. NoJob \in Job /\ NoJob.at <= opened /\ NoJob.copy.at <= opened
      BY <1>2, NoJobType
    <3> QED BY <2>2, <3>1
  <2> QED BY <2>1, <2>2
<1> QED BY <1>2, <1>3, StepTypeOK DEF Goto, TypeOK, files

LEMMA FaultType == TypeOK /\ (Fault \/ UNCHANGED faults) => faults' \in 0..MaxFaults
BY MaxFaultsNat DEF TypeOK, Fault

LEMMA RunStepTypeOK ==
    ASSUME TypeOK, NEW p \in Procs, Outcome(p) \/ LockAndLoad(p) \/ Progress(p)
    PROVE  TypeOK'
<1>1. /\ job[p] \in Job /\ job[p].copy \in State /\ state \in State
      /\ opened \in Nat /\ opened + 1 \in Nat
      /\ state.at <= opened /\ job[p].at <= opened /\ job[p].copy.at <= opened
  BY DEF TypeOK, Job
<1>2. NoJob \in Job /\ NoJob.at = 0 /\ NoJob.copy.at = 0 /\ NoState \in State /\ NoState.at = 0
  BY NoJobType DEF NoJob, NoState
<1>3. ASSUME NEW k \in Kinds, Failed(p, k) PROVE TypeOK'
  <2> DEFINE l == IF Continues(k) THEN "suppress" ELSE "alert"
             j == [NoJob EXCEPT !.kind = k]
  <2>1. l \in Labels /\ j \in Job /\ j.at = 0 /\ j.copy.at = 0
    BY <1>2 DEF Labels, Job, NoJob
  <2>2. pc' = [pc EXCEPT ![p] = l] /\ job' = [job EXCEPT ![p] = j]
    BY <1>3 DEF Failed, Continue, Goto
  <2> HIDE DEF l, j
  <2> QED BY <1>1, <1>3, <2>1, <2>2, StepTypeOK, FaultType DEF Failed, files, TypeOK
<1>4. CASE Succeeded(p) \/ EndedQuietly(p)
  <2>1. PICK l \in Labels : Goto(p, l)
    BY <1>4 DEF Succeeded, EndedQuietly, Labels
  <2> QED BY <1>4, <2>1, MoveTypeOK, FaultType DEF Succeeded, EndedQuietly
<1>5. CASE LockAndLoad(p)
  <2> DEFINE op == IF pc[p] = "run" THEN "snapshot" ELSE pc[p]
             j == [job[p] EXCEPT !.copy = state, !.op = op]
  <2>1. op \in {"snapshot", "suppress", "open", "recover"}
    BY <1>5 DEF LockAndLoad
  <2>2. j \in Job /\ j.at = job[p].at /\ j.copy.at = state.at
    BY <1>1, <2>1 DEF Job
  <2>3. pc' = [pc EXCEPT ![p] = "save"] /\ job' = [job EXCEPT ![p] = j]
    BY <1>5 DEF LockAndLoad, Continue, Goto
  <2>4. "save" \in Labels
    BY DEF Labels
  <2> HIDE DEF j
  <2> QED BY <1>1, <1>5, <2>2, <2>3, <2>4, StepTypeOK, FaultType DEF LockAndLoad, TypeOK
<1>6. CASE BeginRun(p) \/ Post(p)
  <2>1. PICK l \in Labels : Goto(p, l)
    BY <1>6 DEF BeginRun, Post, Labels
  <2> QED BY <1>6, <2>1, MoveTypeOK, FaultType DEF BeginRun, Post
<1>7. CASE Save(p)
  <2> DEFINE j == IF job[p].op = "snapshot" THEN NoJob
                  ELSE [job[p] EXCEPT !.at = job[p].copy.at, !.copy = NoState]
             l == IF job[p].op = "snapshot" THEN "run" ELSE "append"
  <2>1. j \in Job /\ j.at <= opened /\ j.copy.at <= opened
    <3>1. [job[p] EXCEPT !.at = job[p].copy.at, !.copy = NoState] \in Job
      BY <1>1, <1>2 DEF Job, State
    <3>2. job[p].copy.at \in Nat
      BY <1>1 DEF State
    <3> QED BY <1>1, <1>2, <3>1, <3>2 DEF Job
  <2>2. l \in Labels /\ pc' = [pc EXCEPT ![p] = l] /\ job' = [job EXCEPT ![p] = j]
    BY <1>7 DEF Save, Saved, Continue, Goto, Labels
  <2>3. state' \in Updated(p) /\ opened' = IF job[p].op = "open" THEN opened + 1 ELSE opened
    BY <1>7 DEF Save, Write
  <2>4. state' \in State /\ state'.at <= opened'
    BY <2>3, UpdatedType
  <2>5. recovered' \subseteq 0..opened'
    BY <1>1, <1>7, <2>3 DEF Save, TypeOK
  <2>6. /\ holder' \in Procs \union {Nobody} /\ UNCHANGED healthy
        /\ faults' \in 0..MaxFaults /\ opened' \in {opened, opened + 1}
    BY <1>7, <2>3, FaultType DEF Save
  <2> HIDE DEF j, l
  <2> QED BY <2>1, <2>2, <2>4, <2>5, <2>6, StepTypeOK
<1>8. CASE RecoverNothing(p)
  <2>1. Goto(p, "idle") /\ job' = [job EXCEPT ![p] = NoJob] /\ "idle" \in Labels
    BY <1>8 DEF RecoverNothing, Done, Continue, Labels
  <2>2. holder' = Nobody /\ UNCHANGED <<state, opened, recovered, healthy, faults>>
    BY <1>8 DEF RecoverNothing
  <2>3. NoJob.at <= opened /\ NoJob.copy.at <= opened
    BY <1>1, <1>2
  <2> QED BY <1>1, <1>2, <2>1, <2>2, <2>3, StepTypeOK DEF Goto, TypeOK
<1>9. CASE Append(p)
  <2>1. recovered' \subseteq 0..opened
    <3>1. job[p].at \in 0..opened
      BY <1>1 DEF Job
    <3>2. recovered' \subseteq recovered \union {job[p].at}
      BY <1>9 DEF Append, Logged
    <3>3. recovered \subseteq 0..opened
      BY DEF TypeOK
    <3> QED BY <3>1, <3>2, <3>3
  <2>2. Goto(p, "idle") /\ job' = [job EXCEPT ![p] = NoJob] /\ "idle" \in Labels
    BY <1>9 DEF Append, Done, Continue, Labels
  <2>3. UNCHANGED <<state, holder, opened, healthy, faults>>
    BY <1>9 DEF Append
  <2>4. NoJob.at <= opened /\ NoJob.copy.at <= opened
    BY <1>1, <1>2
  <2> QED BY <1>1, <1>2, <2>1, <2>2, <2>3, <2>4, StepTypeOK DEF Goto, TypeOK
<1> QED BY <1>3, <1>4, <1>5, <1>6, <1>7, <1>8, <1>9 DEF Outcome, Progress

LEMMA FaultStepTypeOK ==
    ASSUME TypeOK, NEW p \in Procs, Disturbance(p)
    PROVE  TypeOK'
<1>1. /\ job[p] \in Job /\ opened \in Nat /\ opened + 1 \in Nat
      /\ state \in State /\ state.at <= opened /\ job[p].at <= opened
      /\ recovered \subseteq 0..opened /\ holder \in Procs \union {Nobody}
  BY DEF TypeOK
<1>2. NoJob \in Job /\ NoJob.at <= opened /\ NoJob.copy.at <= opened
  BY <1>1, NoJobType DEF NoJob, NoState
<1>3. faults' \in 0..MaxFaults /\ UNCHANGED healthy
  BY FaultType DEF Disturbance, PostFails, SaveFails, AppendFails, Crash
<1>4. PICK l \in Labels : Goto(p, l) /\ job' = [job EXCEPT ![p] = NoJob]
  BY DEF Disturbance, PostFails, SaveFails, AppendFails, Crash, Done, Continue, Labels
<1>5. /\ state' \in State /\ state'.at <= opened' /\ opened' \in {opened, opened + 1}
      /\ holder' \in Procs \union {Nobody} /\ recovered' \subseteq 0..opened'
  <2>1. CASE PostFails(p)
    BY <2>1, <1>1 DEF PostFails, files
  <2>2. CASE SaveFails(p)
    <3>1. CASE Write(p)
      BY <2>2, <3>1, <1>1, UpdatedType DEF SaveFails, Write
    <3>2. CASE UNCHANGED <<state, opened>>
      BY <2>2, <3>2, <1>1 DEF SaveFails
    <3> QED BY <2>2, <3>1, <3>2 DEF SaveFails
  <2>3. CASE AppendFails(p)
    <3>1. job[p].at \in 0..opened
      BY <1>1 DEF Job
    <3>2. recovered' \subseteq recovered \union {job[p].at}
      BY <2>3 DEF AppendFails, Logged
    <3> QED BY <2>3, <1>1, <3>1, <3>2 DEF AppendFails
  <2>4. CASE Crash(p)
    BY <2>4, <1>1 DEF Crash
  <2> QED BY <2>1, <2>2, <2>3, <2>4 DEF Disturbance
<1> QED BY <1>2, <1>3, <1>4, <1>5, StepTypeOK DEF Goto

LEMMA WatchTypeOK ==
    ASSUME TypeOK, NEW w \in Watchdogs,
           WatchdogStep(w) \/ AnnounceFails(w) \/ WatchdogSaveFails(w)
    PROVE  TypeOK'
<1>1. /\ w \in Procs /\ job[w] \in Job /\ opened \in Nat
      /\ state \in State /\ state.at <= opened /\ holder \in Procs \union {Nobody}
      /\ job[w].copy \in State /\ job[w].copy.at <= opened
      /\ recovered \subseteq 0..opened
  BY DEF TypeOK, Job, Procs
<1>2. NoJob \in Job /\ NoJob.at <= opened /\ NoJob.copy.at <= opened
  BY <1>1, NoJobType DEF NoJob, NoState
<1>3. faults' \in 0..MaxFaults /\ UNCHANGED <<holder, opened, recovered, healthy>>
  BY FaultType DEF WatchdogStep, Watch, WatchdogSaves, AnnounceFails,
                   WatchdogSaveFails, files
<1>4. CASE Watch(w)
  <2> DEFINE j == [NoJob EXCEPT !.copy = state,
                                !.op = IF healthy THEN "clear"
                                       ELSE IF state.failover THEN "again" ELSE "failover"]
  <2>1. j \in Job /\ j.at = NoJob.at /\ j.copy = state
    BY <1>1, <1>2 DEF Job
  <2>2. Goto(w, "watch") /\ job' = [job EXCEPT ![w] = j] /\ state' = state
    BY <1>4 DEF Watch, Continue, files
  <2>3. "watch" \in Labels
    BY DEF Labels
  <2> HIDE DEF j
  <2> QED BY <1>1, <1>2, <1>3, <2>1, <2>2, <2>3, StepTypeOK DEF Goto
<1>5. CASE ~Watch(w)
  <2>1. PICK l \in Labels : Goto(w, l) /\ job' = [job EXCEPT ![w] = NoJob]
    BY <1>5 DEF WatchdogStep, WatchdogSaves, AnnounceFails, WatchdogSaveFails,
                Done, Continue, Labels
  <2>2. state' \in State /\ state'.at <= opened
    <3>1. CASE WatchdogWrites(w)
      <4>1. \A b \in BOOLEAN : /\ [job[w].copy EXCEPT !.failover = b] \in State
                              /\ [job[w].copy EXCEPT !.failover = b].at = job[w].copy.at
        BY <1>1 DEF State
      <4> QED BY <3>1, <4>1, <1>1 DEF WatchdogWrites
    <3>2. CASE state' = state
      BY <3>2, <1>1
    <3> QED BY <1>5, <3>1, <3>2 DEF WatchdogStep, WatchdogSaves, AnnounceFails,
                                   WatchdogSaveFails, files
  <2> QED BY <1>1, <1>2, <1>3, <2>1, <2>2, StepTypeOK DEF Goto
<1> QED BY <1>4, <1>5

LEMMA NextTypeOK == TypeOK /\ [Next]_vars => TypeOK'
<1> SUFFICES ASSUME TypeOK, [Next]_vars PROVE TypeOK'
  OBVIOUS
<1>1. CASE HealthChanges \/ UNCHANGED vars
  BY <1>1 DEF HealthChanges, vars, files, TypeOK
<1> QED BY <1>1, RunStepTypeOK, FaultStepTypeOK, WatchTypeOK DEF Next

\* Every reachable state is well typed.
THEOREM TypeCorrect == Spec => []TypeOK
<1>1. TypeOK /\ [Next]_vars => TypeOK'
  BY NextTypeOK
<1> QED BY <1>1, InitTypeOK, PTL DEF Spec

-----------------------------------------------------------------------------
(* Without a watchdog, that is, when all writers hold the lock.              *)

LEMMA InitIInv == Init => IInv
<1> SUFFICES ASSUME Init PROVE IInv
  OBVIOUS
<1>1. state.incident = None /\ state.at = 0 /\ recovered = {}
  BY DEF Init, NoState
<1>2. \A p \in Procs : pc[p] = "idle"
  BY DEF Init
<1> QED BY <1>1, <1>2, InitTypeOK DEF IInv, Numbered, RecoveredStaysClosed, LockInv

\* What is written under the lock.
LEMMA WriteUnderLock ==
    ASSUME IInv, NEW p \in Procs, pc[p] = "save", ~NothingToRecover(p), Write(p)
    PROVE  /\ Numbered(state')
           /\ state'.at \in {state.at, 0, opened + 1}
           /\ job[p].op = "recover" => state'.at = 0 /\ state.at # 0
           /\ job[p].op # "snapshot" => state'.snapshot = state.snapshot
           /\ job[p].op \notin {"open", "recover"} => state'.at = state.at
           /\ state'.failover = state.failover
<1>1. /\ state \in State /\ job[p] \in Job /\ opened \in Nat
      /\ job[p].copy = state /\ Numbered(state)
      /\ job[p].op = "open" => job[p].kind # None
      /\ job[p].op \in {"snapshot", "suppress", "open", "recover"}
      /\ state' \in Updated(p)
  BY DEF IInv, TypeOK, LockInv, Write
<1>2. CASE job[p].op = "snapshot"
  <2>1. PICK x \in Snapshots : state' = [state EXCEPT !.snapshot = x]
    BY <1>1, <1>2 DEF Updated
  <2> QED BY <1>1, <1>2, <2>1 DEF State, Numbered
<1>3. CASE job[p].op = "suppress"
  BY <1>1, <1>3 DEF Updated
<1>4. CASE job[p].op = "open"
  <2>1. state' = [state EXCEPT !.incident = job[p].kind, !.at = opened + 1]
    BY <1>1, <1>4 DEF Updated, Opened
  <2>2. /\ state'.incident = job[p].kind /\ state'.at = opened + 1
        /\ state'.snapshot = state.snapshot /\ state'.failover = state.failover
    BY <1>1, <2>1 DEF State
  <2>3. opened + 1 # 0
    BY <1>1
  <2> QED BY <1>1, <1>4, <2>2, <2>3 DEF Numbered
<1>5. CASE job[p].op = "recover"
  <2>1. state' = [state EXCEPT !.incident = None, !.at = 0]
    BY <1>1, <1>5 DEF Updated, Closed
  <2>2. /\ state'.incident = None /\ state'.at = 0
        /\ state'.snapshot = state.snapshot /\ state'.failover = state.failover
    BY <1>1, <2>1 DEF State
  <2>3. state.at # 0
    BY <1>1, <1>5 DEF Numbered, NothingToRecover
  <2> QED BY <1>5, <2>2, <2>3 DEF Numbered
<1> QED BY <1>1, <1>2, <1>3, <1>4, <1>5

\* The other processes are not disturbed by one that moves, holds the lock
\* when it writes, and opens at most the next incident.
LEMMA OthersKept ==
    ASSUME IInv, NEW p \in Procs, NEW q \in Procs \ {p},
           pc'[q] = pc[q], job'[q] = job[q],
           state' = state \/ pc[p] = "save",
           holder' = holder \/ holder \in {p, Nobody},
           state'.at \in {state.at, 0, opened + 1}
    PROVE  LockInv(q)'
<1>1. LockInv(q) /\ q # Nobody /\ job[q].at \in Nat /\ job[q].at <= opened /\ opened \in Nat
  BY NobodyRuns DEF IInv, TypeOK, Job
<1>2. ASSUME pc[q] = "save" PROVE holder' = q /\ state' = state
  <2>1. holder = q /\ q # p
    BY <1>1, <1>2 DEF LockInv
  <2>2. pc[p] # "save"
    BY <2>1 DEF IInv, LockInv
  <2> QED BY <1>1, <2>1, <2>2
<1>3. ASSUME pc[q] = "append", job[q].op = "recover"
      PROVE  job[q].at \notin {0, state'.at}
  <2>1. job[q].at \notin {0, state.at}
    BY <1>1, <1>3 DEF LockInv
  <2>2. job[q].at # opened + 1
    BY <1>1
  <2> QED BY <2>1, <2>2
<1> QED BY <1>1, <1>2, <1>3 DEF LockInv

\* A step that logs no recovery preserves the invariant if it writes as an
\* operation under the lock does and leaves its own process in order.
LEMMA QuietStep ==
    ASSUME IInv, TypeOK', NEW p \in Procs, NEW l, NEW j,
           pc' = [pc EXCEPT ![p] = l], job' = [job EXCEPT ![p] = j],
           state' = state \/ pc[p] = "save",
           holder' = holder \/ holder \in {p, Nobody},
           Numbered(state'), state'.at \in {state.at, 0, opened + 1},
           UNCHANGED recovered, LockInv(p)'
    PROVE  IInv'
<1>1. \A q \in Procs \ {p} : pc'[q] = pc[q] /\ job'[q] = job[q]
  BY DEF IInv, TypeOK
<1>2. \A q \in Procs : LockInv(q)'
  BY <1>1, OthersKept
<1>3. RecoveredStaysClosed' /\ (0 \notin recovered)'
  <2>1. opened \in Nat /\ recovered \subseteq 0..opened
    BY DEF IInv, TypeOK
  <2>2. 0 \notin recovered /\ opened + 1 \notin recovered /\ state.at \notin recovered
    BY <2>1 DEF IInv, RecoveredStaysClosed
  <2> QED BY <2>2 DEF RecoveredStaysClosed
<1> QED BY <1>2, <1>3 DEF IInv, Numbered

\* The numbers that were given do not change when a process only moves on.
LEMMA MoveIInv ==
    ASSUME IInv, TypeOK', NEW p \in Procs, NEW l, Goto(p, l),
           \/ l \in {"idle", "run", "announce", "recover"}
           \/ pc[p] = "alert" /\ l = "open" /\ job' = job,
           job' = job \/ job' = [job EXCEPT ![p] = NoJob],
           state' = state, recovered' = recovered,
           holder' = holder \/ holder \in {p, Nobody}
    PROVE  IInv'
<1>1. pc' = [pc EXCEPT ![p] = l] /\ pc'[p] = l
  BY DEF Goto, IInv, TypeOK
<1>2. LockInv(p) /\ Numbered(state)
  BY DEF IInv
<1>3. PICK j : job' = [job EXCEPT ![p] = j]
  BY DEF IInv, TypeOK
<1>4. LockInv(p)'
  BY <1>1, <1>2 DEF LockInv
<1> QED BY <1>1, <1>2, <1>3, <1>4, QuietStep

\* Only an append logs a recovery, of an incident that has left state.json.
LEMMA AppendIInv ==
    ASSUME IInv, TypeOK', NEW p \in Procs, pc[p] = "append",
           Logged(p) \/ UNCHANGED recovered, Done(p), UNCHANGED <<state, holder>>
    PROVE  IInv'
<1>1. LockInv(p) /\ pc \in [Procs -> Labels] /\ job \in [Procs -> Job]
  BY DEF IInv, TypeOK
<1>2. pc'[p] = "idle" /\ \A q \in Procs \ {p} : pc'[q] = pc[q] /\ job'[q] = job[q]
  BY <1>1 DEF Done, Continue, Goto
<1>3. LockInv(p)'
  BY <1>2 DEF LockInv
<1>4. \A q \in Procs : LockInv(q)'
  BY <1>2, <1>3, OthersKept
<1>5. RecoveredStaysClosed' /\ (0 \notin recovered)'
  BY <1>1 DEF IInv, Logged, LockInv, RecoveredStaysClosed
<1> QED BY <1>4, <1>5 DEF IInv, Numbered

LEMMA RunStepIInv ==
    ASSUME IInv, TypeOK', NEW p \in Procs, Outcome(p) \/ LockAndLoad(p) \/ Progress(p)
    PROVE  IInv'
<1>1. /\ job[p] \in Job /\ job[p].copy \in State /\ state \in State /\ opened \in Nat
      /\ LockInv(p) /\ Numbered(state)
      /\ pc \in [Procs -> Labels] /\ job \in [Procs -> Job]
  BY DEF IInv, TypeOK, Job
<1>2. ASSUME NEW k \in Kinds, Failed(p, k) PROVE IInv'
  <2> DEFINE l == IF Continues(k) THEN "suppress" ELSE "alert"
             j == [NoJob EXCEPT !.kind = k]
  <2>1. pc' = [pc EXCEPT ![p] = l] /\ job' = [job EXCEPT ![p] = j]
    BY <1>2 DEF Failed, Continue, Goto
  <2>2. UNCHANGED files
    BY <1>2 DEF Failed
  <2>3. j.kind # None /\ l \in {"suppress", "alert"}
    BY NoneIsNone DEF NoJob
  <2>4. pc'[p] = l /\ job'[p] = j
    BY <1>1, <2>1
  <2> HIDE DEF l, j
  <2>5. LockInv(p)'
    BY <2>3, <2>4 DEF LockInv
  <2> QED BY <1>1, <2>1, <2>2, <2>5, QuietStep DEF files
<1>3. CASE Succeeded(p) \/ EndedQuietly(p) \/ BeginRun(p) \/ Post(p)
  <2>1. UNCHANGED files /\ job' = job
    BY <1>3 DEF Succeeded, EndedQuietly, BeginRun, Post
  <2>2. PICK l : Goto(p, l) /\ \/ l \in {"announce", "idle", "run", "recover"}
                               \/ pc[p] = "alert" /\ l = "open"
    BY <1>3 DEF Succeeded, EndedQuietly, BeginRun, Post
  <2> QED BY <2>1, <2>2, MoveIInv DEF files
<1>4. CASE LockAndLoad(p)
  <2> DEFINE op == IF pc[p] = "run" THEN "snapshot" ELSE pc[p]
             j == [job[p] EXCEPT !.copy = state, !.op = op]
  <2>1. /\ op \in {"snapshot", "suppress", "open", "recover"}
        /\ op = "open" => pc[p] = "open"
    BY <1>4 DEF LockAndLoad
  <2>2. j.copy = state /\ j.op = op /\ j.kind = job[p].kind
    BY <1>1 DEF Job
  <2>3. op = "open" => j.kind # None
    BY <1>1, <2>1, <2>2 DEF LockInv
  <2>4. /\ pc' = [pc EXCEPT ![p] = "save"] /\ job' = [job EXCEPT ![p] = j]
        /\ holder = Nobody /\ holder' = p /\ UNCHANGED <<state, opened, recovered>>
    BY <1>4 DEF LockAndLoad, LockFree, Continue, Goto
  <2>5. pc'[p] = "save" /\ job'[p] = j
    BY <1>1, <2>4
  <2> HIDE DEF j, op
  <2>6. LockInv(p)'
    BY <2>1, <2>2, <2>3, <2>4, <2>5 DEF LockInv
  <2> QED BY <1>1, <2>4, <2>6, QuietStep
<1>5. CASE Save(p)
  <2> DEFINE j == IF job[p].op = "snapshot" THEN NoJob
                  ELSE [job[p] EXCEPT !.at = job[p].copy.at, !.copy = NoState]
             l == IF job[p].op = "snapshot" THEN "run" ELSE "append"
  <2>1. /\ pc' = [pc EXCEPT ![p] = l] /\ job' = [job EXCEPT ![p] = j]
        /\ pc[p] = "save" /\ ~NothingToRecover(p) /\ Write(p)
        /\ holder' = Nobody /\ UNCHANGED recovered
    BY <1>5 DEF Save, Saved, Continue, Goto
  <2>2. /\ Numbered(state') /\ state'.at \in {state.at, 0, opened + 1}
        /\ job[p].op = "recover" => state'.at = 0 /\ state.at # 0
    BY <2>1, WriteUnderLock
  <2>3. holder = p /\ job[p].copy = state
    BY <1>1, <2>1 DEF LockInv
  <2>4. l \in {"run", "append"} /\ j.op = "recover" => j.at = state.at /\ job[p].op = "recover"
    BY <1>1, <2>3 DEF NoJob, Job
  <2>5. pc'[p] = l /\ job'[p] = j /\ l \in {"run", "append"}
    BY <1>1, <2>1
  <2> HIDE DEF j, l
  <2>6. LockInv(p)'
    BY <2>2, <2>4, <2>5 DEF LockInv
  <2> QED BY <2>1, <2>2, <2>3, <2>6, QuietStep
<1>6. CASE RecoverNothing(p)
  <2>1. /\ Goto(p, "idle") /\ job' = [job EXCEPT ![p] = NoJob]
        /\ pc[p] = "save" /\ UNCHANGED <<state, recovered>>
    BY <1>6 DEF RecoverNothing, Done, Continue
  <2>2. holder = p
    BY <1>1, <2>1 DEF LockInv
  <2> QED BY <2>1, <2>2, MoveIInv
<1>7. CASE Append(p)
  BY <1>7, AppendIInv DEF Append
<1> QED BY <1>2, <1>3, <1>4, <1>5, <1>6, <1>7 DEF Outcome, Progress

LEMMA FaultStepIInv ==
    ASSUME IInv, TypeOK', NEW p \in Procs, Disturbance(p)
    PROVE  IInv'
<1>1. LockInv(p) /\ Numbered(state) /\ pc \in [Procs -> Labels] /\ job \in [Procs -> Job]
  BY DEF IInv, TypeOK
<1>2. CASE PostFails(p) \/ Crash(p)
  <2>1. /\ Goto(p, "idle") /\ job' = [job EXCEPT ![p] = NoJob]
        /\ UNCHANGED <<state, recovered>> /\ (holder' = holder \/ holder \in {p, Nobody})
    BY <1>2 DEF PostFails, Crash, Done, Continue, files
  <2> QED BY <2>1, MoveIInv
<1>3. CASE SaveFails(p)
  <2>1. /\ pc[p] = "save" /\ ~NothingToRecover(p) /\ holder' = Nobody /\ UNCHANGED recovered
        /\ job' = [job EXCEPT ![p] = NoJob]
    BY <1>3 DEF SaveFails, Done, Continue
  <2>2. PICK l \in {"run", "idle"} : pc' = [pc EXCEPT ![p] = l]
    BY <1>3 DEF SaveFails, Done, Continue, Goto
  <2>3. holder = p
    BY <1>1, <2>1 DEF LockInv
  <2>4. Numbered(state') /\ state'.at \in {state.at, 0, opened + 1}
    <3>1. CASE Write(p)
      BY <2>1, <3>1, WriteUnderLock
    <3>2. CASE UNCHANGED <<state, opened>>
      BY <1>1, <3>2
    <3> QED BY <1>3, <3>1, <3>2 DEF SaveFails
  <2>5. pc'[p] = l
    BY <1>1, <2>2
  <2>6. LockInv(p)'
    BY <2>5 DEF LockInv
  <2> QED BY <2>1, <2>2, <2>3, <2>4, <2>6, QuietStep
<1>4. CASE AppendFails(p)
  BY <1>4, AppendIInv DEF AppendFails
<1> QED BY <1>2, <1>3, <1>4 DEF Disturbance

LEMMA NextIInv ==
    ASSUME Watchdogs = {}, IInv, [Next]_vars
    PROVE  IInv'
<1>1. TypeOK'
  BY NextTypeOK DEF IInv
<1>2. CASE HealthChanges \/ UNCHANGED vars
  BY <1>1, <1>2 DEF HealthChanges, vars, files, IInv, Numbered, RecoveredStaysClosed, LockInv
<1>3. CASE \E p \in Procs : Outcome(p) \/ LockAndLoad(p) \/ Progress(p) \/ Disturbance(p)
  BY <1>1, <1>3, RunStepIInv, FaultStepIInv
<1> QED BY <1>2, <1>3 DEF Next

\* When the watchdog does not run, the log and state.json never contradict each
\* other about an incident, whatever fails and whoever is killed.
THEOREM RecoveredTheorem ==
    ASSUME Watchdogs = {}
    PROVE  Spec => []RecoveredStaysClosed
<1>1. IInv /\ [Next]_vars => IInv'
  BY NextIInv
<1>2. IInv => RecoveredStaysClosed
  BY DEF IInv
<1> QED BY <1>1, <1>2, InitIInv, PTL DEF Spec

LEMMA StepKeepsKeys ==
    ASSUME Watchdogs = {}, IInv, Next
    PROVE  /\ state'.snapshot # state.snapshot =>
                \E p \in Procs : pc[p] = "save" /\ pc'[p] # "save" /\ job[p].op = "snapshot"
           /\ state'.at # state.at =>
                \E p \in Procs : pc[p] = "save" /\ pc'[p] # "save"
                                 /\ job[p].op \in {"open", "recover"}
           /\ state'.failover # state.failover =>
                \E w \in Watchdogs : pc[w] = "watch" /\ pc'[w] # "watch"
<1>1. CASE state' = state
  BY <1>1
<1>2. ASSUME NEW p \in Procs, Save(p) \/ SaveFails(p), state' # state
      PROVE  /\ pc[p] = "save" /\ pc'[p] # "save"
             /\ job[p].op # "snapshot" => state'.snapshot = state.snapshot
             /\ job[p].op \notin {"open", "recover"} => state'.at = state.at
             /\ state'.failover = state.failover
  <2>1. pc[p] = "save" /\ ~NothingToRecover(p) /\ Write(p)
    BY <1>2 DEF Save, SaveFails
  <2>2. PICK l : l # "save" /\ pc' = [pc EXCEPT ![p] = l]
    BY <1>2 DEF Save, SaveFails, Saved, Done, Continue, Goto
  <2>3. pc'[p] # "save"
    BY <2>2 DEF IInv, TypeOK
  <2> QED BY <2>1, <2>3, WriteUnderLock
<1>3. state' = state \/ \E p \in Procs : Save(p) \/ SaveFails(p)
  BY DEF Next, Outcome, Failed, Succeeded, EndedQuietly, LockAndLoad, Progress,
         Disturbance, BeginRun, Post, RecoverNothing, Append, PostFails, AppendFails,
         Crash, HealthChanges, files
<1> QED BY <1>1, <1>2, <1>3

\* When the watchdog does not run, no process undoes what another wrote.
THEOREM KeysTheorem ==
    ASSUME Watchdogs = {}
    PROVE  Spec => OtherKeysKept
<1> DEFINE A == /\ state'.snapshot # state.snapshot =>
                    \E p \in Procs : pc[p] = "save" /\ pc'[p] # "save" /\ job[p].op = "snapshot"
                /\ state'.at # state.at =>
                    \E p \in Procs : pc[p] = "save" /\ pc'[p] # "save"
                                     /\ job[p].op \in {"open", "recover"}
                /\ state'.failover # state.failover =>
                    \E w \in Watchdogs : pc[w] = "watch" /\ pc'[w] # "watch"
<1>1. IInv /\ [Next]_vars => IInv'
  BY NextIInv
<1>2. IInv /\ [Next]_vars => [A]_vars
  BY StepKeepsKeys
<1>3. OtherKeysKept <=> [][A]_vars
  BY DEF OtherKeysKept
<1> HIDE DEF A
<1> QED BY <1>1, <1>2, <1>3, InitIInv, PTL DEF Spec
-----------------------------------------------------------------------------
(* A watchdog alone, as when the timer polls for a main service that is gone. *)

\* What the watchdog is about to write is made from the state.json of now.
WatchInv(p) ==
    pc[p] = "watch" =>
        /\ p \in Watchdogs
        /\ job[p].copy = state
        /\ job[p].op \in {"failover", "again", "clear"}
        /\ job[p].op = "failover" <=> ~state.failover

LoneInv == IInv /\ \A p \in Procs : WatchInv(p)

\* Only Watch leads to "watch", and only the watchdog leaves it.
LEMMA LoneStep ==
    ASSUME \A p, q \in Procs : p = q, LoneInv, NEW p \in Procs,
           Outcome(p) \/ LockAndLoad(p) \/ Progress(p) \/ Disturbance(p)
    PROVE  LoneInv' /\ state'.failover = state.failover
<1>1. TypeOK' /\ IInv'
  BY NextTypeOK, RunStepIInv, FaultStepIInv DEF LoneInv, IInv, Next
<1>2. PICK l : l # "watch" /\ pc' = [pc EXCEPT ![p] = l]
  BY DEF Outcome, Failed, Succeeded, EndedQuietly, LockAndLoad, Progress, BeginRun,
         Post, Save, Saved, RecoverNothing, Append, Disturbance, PostFails, SaveFails,
         AppendFails, Crash, Done, Continue, Goto
<1>3. pc'[p] # "watch"
  BY <1>2 DEF LoneInv, IInv, TypeOK
<1>4. \A q \in Procs : WatchInv(q)'
  BY <1>3 DEF WatchInv
<1>5. state' = state \/ (pc[p] = "save" /\ ~NothingToRecover(p) /\ Write(p))
  BY DEF Outcome, Failed, Succeeded, EndedQuietly, LockAndLoad, Progress, BeginRun,
         Post, Save, RecoverNothing, Append, Disturbance, PostFails, SaveFails,
         AppendFails, Crash, files
<1>6. state'.failover = state.failover
  BY <1>5, WriteUnderLock DEF LoneInv
<1> QED BY <1>1, <1>4, <1>6 DEF LoneInv

\* The watchdog's own steps.
LEMMA LoneWatch ==
    ASSUME \A p, q \in Procs : p = q, LoneInv, NEW w \in Watchdogs,
           WatchdogStep(w) \/ AnnounceFails(w) \/ WatchdogSaveFails(w)
    PROVE  /\ LoneInv'
           /\ state'.failover # state.failover =>
                 pc[w] = "watch" /\ job[w].op = IF state.failover THEN "clear" ELSE "failover"
<1>1. /\ TypeOK /\ TypeOK' /\ w \in Procs /\ LockInv(w) /\ WatchInv(w)
      /\ \A q \in Procs : q = w
      /\ state \in State /\ job[w] \in Job /\ pc \in [Procs -> Labels] /\ job \in [Procs -> Job]
      /\ Numbered(state) /\ RecoveredStaysClosed /\ 0 \notin recovered
  BY NextTypeOK DEF LoneInv, IInv, TypeOK, Next, Procs
<1>2. CASE Watch(w)
  <2> DEFINE op == IF healthy THEN "clear" ELSE IF state.failover THEN "again" ELSE "failover"
             j == [NoJob EXCEPT !.copy = state, !.op = op]
  <2>1. /\ pc' = [pc EXCEPT ![w] = "watch"] /\ job' = [job EXCEPT ![w] = j]
        /\ UNCHANGED <<state, recovered>> /\ (~healthy \/ state.failover)
    BY <1>2 DEF Watch, Continue, Goto, files
  <2>2. j.copy = state /\ j.op = op
    BY DEF NoJob
  <2>3. op \in {"failover", "again", "clear"} /\ (op = "failover" <=> ~state.failover)
    BY <2>1
  <2>4. pc'[w] = "watch" /\ job'[w] = j
    BY <1>1, <2>1
  <2> HIDE DEF op, j
  <2>5. WatchInv(w)' /\ LockInv(w)'
    BY <2>1, <2>2, <2>3, <2>4 DEF WatchInv, LockInv
  <2> QED BY <1>1, <2>1, <2>5 DEF LoneInv, IInv, Numbered, RecoveredStaysClosed
<1>3. CASE AnnounceFails(w)
  <2>1. pc' = [pc EXCEPT ![w] = "idle"] /\ UNCHANGED <<state, recovered>>
    BY <1>3 DEF AnnounceFails, Done, Continue, Goto, files
  <2>2. pc'[w] = "idle"
    BY <1>1, <2>1
  <2>3. WatchInv(w)' /\ LockInv(w)'
    BY <2>2 DEF WatchInv, LockInv
  <2> QED BY <1>1, <2>1, <2>3 DEF LoneInv, IInv, Numbered, RecoveredStaysClosed
<1>4. CASE WatchdogSaves(w) \/ WatchdogSaveFails(w)
  <2>1. pc[w] = "watch" /\ UNCHANGED recovered /\ (WatchdogWrites(w) \/ state' = state)
    BY <1>4 DEF WatchdogSaves, WatchdogSaveFails
  <2>2. PICK l \in {"poll", "idle"} : pc' = [pc EXCEPT ![w] = l]
    BY <1>4 DEF WatchdogSaves, WatchdogSaveFails, Done, Continue, Goto
  <2>3. pc'[w] \in {"poll", "idle"}
    BY <1>1, <2>2
  <2>4. WatchInv(w)' /\ LockInv(w)'
    BY <2>3 DEF WatchInv, LockInv
  <2>5. \/ state' = state
        \/ state' = [state EXCEPT !.failover = job[w].op # "clear"]
    BY <1>1, <2>1 DEF WatchdogWrites, WatchInv
  <2>6. state'.at = state.at /\ state'.incident = state.incident
        /\ (state'.failover = state.failover \/ state'.failover = (job[w].op # "clear"))
    BY <1>1, <2>5 DEF State
  <2>7. state.failover \in BOOLEAN
    BY <1>1 DEF State
  <2>8. state'.failover # state.failover =>
           job[w].op = IF state.failover THEN "clear" ELSE "failover"
    BY <1>1, <2>1, <2>6, <2>7 DEF WatchInv
  <2>9. IInv'
    BY <1>1, <2>1, <2>4, <2>6 DEF IInv, Numbered, RecoveredStaysClosed
  <2> QED BY <1>1, <2>1, <2>4, <2>8, <2>9 DEF LoneInv
<1> QED BY <1>2, <1>3, <1>4 DEF WatchdogStep

\* The failover flag is what the watchdog last decided: it is set only by one
\* that found the main service unhealthy and no failover active, and cleared
\* only by one that found it healthy again (evaluate_failover_watchdog).
FlagIsVerdict ==
    [][state'.failover # state.failover =>
         \E w \in Watchdogs :
            /\ pc[w] = "watch"
            /\ job[w].op = IF state.failover THEN "clear" ELSE "failover"]_vars

\* A single watchdog and nothing else that writes: the runs it makes and its
\* own writes without the lock never undo each other.
THEOREM LoneWatchdogTheorem ==
    ASSUME \A p, q \in Procs : p = q
    PROVE  Spec => []RecoveredStaysClosed /\ FlagIsVerdict
<1> DEFINE A == state'.failover # state.failover =>
                  \E w \in Watchdogs :
                     /\ pc[w] = "watch"
                     /\ job[w].op = IF state.failover THEN "clear" ELSE "failover"
<1>1. Init => LoneInv
  <2> SUFFICES ASSUME Init PROVE LoneInv
    OBVIOUS
  <2>1. \A p \in Procs : pc[p] = "idle"
    BY DEF Init
  <2> QED BY <2>1, InitIInv DEF LoneInv, WatchInv
<1>2. LoneInv /\ [Next]_vars => LoneInv' /\ [A]_vars
  <2> SUFFICES ASSUME LoneInv, [Next]_vars PROVE LoneInv' /\ A
    OBVIOUS
  <2>1. CASE HealthChanges \/ UNCHANGED vars
    <3>1. TypeOK'
      BY NextTypeOK DEF LoneInv, IInv
    <3>2. UNCHANGED <<state, holder, opened, recovered, pc, job>>
      BY <2>1 DEF HealthChanges, vars, files
    <3> QED BY <3>1, <3>2 DEF LoneInv, IInv, Numbered, RecoveredStaysClosed, LockInv, WatchInv
  <2> QED BY <2>1, LoneStep, LoneWatch DEF Next
<1>3. LoneInv => RecoveredStaysClosed
  BY DEF LoneInv, IInv
<1>4. FlagIsVerdict <=> [][A]_vars
  BY DEF FlagIsVerdict
<1> HIDE DEF A
<1> QED BY <1>1, <1>2, <1>3, <1>4, PTL DEF Spec
=============================================================================
