--------------------------- MODULE HeartbeatProofs ---------------------------
(***************************************************************************)
(* A main service that is judged healthy has been alive within the limit,  *)
(* for every limit; and beside it the watchdog of Failover, which implements *)
(* both Heartbeat and StateFile, steps down only from such a service.        *)
(***************************************************************************)
EXTENDS Failover, TLAPS

\* The operators on snapshots keep them well typed.
LEMMA BeatTypes ==
    ASSUME NEW beat \in Snapshot
    PROVE  Updated(beat) \in Snapshot /\ Seen(beat) \in Snapshot /\ Aged(beat) \in Snapshot
<1>1. Updated(beat) = [updated |-> 0, worker |-> beat.worker]
  BY DEF Updated, Snapshot
<1> QED BY <1>1, MaxAgeNat DEF Snapshot, Seen, Aged, Older

LEMMA FreshType == Fresh \in Snapshot /\ Gone \in Session
BY MaxAgeNat DEF Fresh, Gone, Snapshot, Session, Unseen

\* Updating a snapshot keeps what it says of the worker.
LEMMA UpdatedFields ==
    ASSUME NEW beat \in Snapshot
    PROVE  Updated(beat).updated = 0 /\ Updated(beat).worker = beat.worker
BY DEF Updated, Snapshot

-----------------------------------------------------------------------------
(* The invariant, for a snapshot or a session and a time without a sign of  *)
(* life.                                                                    *)

Time == 0..(MaxAge + 1)

\* Honest.
Fits(beat, q) ==
    /\ beat \in Snapshot
    /\ q <= (IF beat.worker = Unseen THEN beat.updated ELSE beat.worker)

\* SessionInv.
Kept(s, q) ==
    /\ s \in Session
    /\ s.at # "off" =>
         /\ Fits(s.beat, q)
         /\ s.beat.worker = Unseen => q = 0 /\ s.at = "between"

RestInv == systemctl \in BOOLEAN /\ active \in BOOLEAN /\ quiet \in Time

LEMMA Parts ==
    IInv <=> RestInv /\ Fits(file, quiet) /\ Kept(now, quiet) /\ Kept(left, quiet)
<1>1. \A s \in Session : s.beat \in Snapshot
  BY DEF Session
<1> QED BY <1>1 DEF IInv, TypeOK, SessionInv, Honest, RestInv, Time, Fits, Kept

LEMMA PartsNext ==
    IInv' <=> RestInv' /\ Fits(file', quiet') /\ Kept(now', quiet') /\ Kept(left', quiet')
<1>1. \A s \in Session : s.beat \in Snapshot
  BY DEF Session
<1> QED BY <1>1 DEF IInv, TypeOK, SessionInv, Honest, RestInv, Time, Fits, Kept

LEMMA GoneKept == \A q : Kept(Gone, q)
BY FreshType DEF Kept, Gone

\* A session that begins is a sign of life.
LEMMA BegunKept == Kept(Begun, 0)
BY FreshType, MaxAgeNat DEF Kept, Begun, Fits, Fresh, Session, Snapshot, Unseen

\* What fits, fits when there has been a sign of life.
LEMMA AliveKept ==
    /\ \A beat, q : Fits(beat, q) => Fits(beat, 0)
    /\ \A s, q : Kept(s, q) => Kept(s, 0)
<1>1. \A beat, q : Fits(beat, q) => Fits(beat, 0)
  BY MaxAgeNat DEF Fits, Snapshot
<1> QED BY <1>1 DEF Kept

\* Time passes for the snapshots as for the sign of life.
LEMMA AgedFits ==
    ASSUME NEW q \in Time, NEW beat, Fits(beat, q)
    PROVE  /\ Fits(Aged(beat), Older(q))
           /\ beat.worker # Unseen => Aged(beat).worker # Unseen
<1>1. beat.updated \in 0..(MaxAge + 1) /\ beat.worker \in 0..(MaxAge + 2)
  BY DEF Fits, Snapshot
<1>2. Aged(beat).updated = Older(beat.updated) /\ Aged(beat).worker = Older(beat.worker)
      /\ Aged(beat) \in Snapshot
  BY BeatTypes DEF Aged, Fits
<1>3. Aged(beat).worker = Unseen <=> beat.worker = Unseen
  BY <1>1, <1>2, MaxAgeNat DEF Older, Unseen
<1>4. CASE beat.worker = Unseen
  BY <1>1, <1>2, <1>3, <1>4, MaxAgeNat DEF Fits, Older, Time
<1>5. CASE beat.worker # Unseen
  BY <1>1, <1>2, <1>3, <1>5, MaxAgeNat DEF Fits, Older, Time
<1> QED BY <1>3, <1>4, <1>5

\* The initial states satisfy the invariant.
LEMMA InitIInv == Init => IInv
<1> SUFFICES ASSUME Init PROVE IInv
  OBVIOUS
<1>1. Fits(file, quiet) /\ quiet \in Time
  BY MaxAgeNat DEF Init, Fits, NoFile, Unseen, Snapshot, Time
<1> QED BY <1>1, GoneKept, Parts DEF Init, RestInv

-----------------------------------------------------------------------------
(* Every action.                                                            *)

LEMMA StutterInv == IInv /\ UNCHANGED vars => IInv'
BY Parts, PartsNext DEF RestInv, vars

LEMMA SessionSteps ==
    ASSUME IInv, ProcessStarts \/ BeginSession \/ SubscribeFails \/ EndSession \/ ProcessEnds
    PROVE  IInv'
<1> USE Parts, PartsNext
<1>0. 0 \in Time
  BY MaxAgeNat DEF Time
<1>1. CASE ProcessStarts
  BY <1>1 DEF ProcessStarts, RestInv
<1>2. CASE BeginSession \/ SubscribeFails
  <2>1. Kept(now', 0) /\ Kept(left', 0)
    BY <1>2, AliveKept, BegunKept DEF BeginSession, SubscribeFails
  <2>2. quiet' = 0 /\ Fits(file', 0) /\ UNCHANGED <<systemctl, active>>
    BY <1>2, AliveKept DEF BeginSession, SubscribeFails
  <2> QED BY <1>0, <2>1, <2>2 DEF RestInv
<1>3. CASE EndSession
  <2>1. now' = Gone /\ UNCHANGED <<systemctl, active, file, quiet>>
    BY <1>3 DEF EndSession
  <2>2. Kept(left', quiet)
    <3>1. CASE now.at = "runs"
      <4>1. left' = [now EXCEPT !.at = "last"] /\ now \in Session
        BY <1>3, <3>1 DEF EndSession, Kept
      <4>2. left' \in Session /\ left'.at = "last" /\ left'.beat = now.beat
        BY <4>1 DEF Session
      <4> QED BY <3>1, <4>2 DEF Kept
    <3>2. CASE now.at # "runs"
      BY <1>3, <3>2 DEF EndSession
    <3> QED BY <3>1, <3>2
  <2> QED BY <2>1, <2>2, GoneKept DEF RestInv
<1>4. CASE ProcessEnds
  BY <1>4, GoneKept DEF ProcessEnds, RestInv
<1> QED BY <1>1, <1>2, <1>3, <1>4

\* Updating the snapshot of a worker that has been seen, and of any worker right
\* after a sign of life, is honest.
LEMMA UpdatedFits ==
    ASSUME NEW q \in Time, NEW beat, Fits(beat, q), beat.worker # Unseen \/ q = 0
    PROVE  Fits(Updated(beat), q) /\ Updated(beat).worker = beat.worker
<1>1. beat \in Snapshot
  BY DEF Fits
<1>2. Updated(beat) \in Snapshot /\ Updated(beat).updated = 0
      /\ Updated(beat).worker = beat.worker
  BY <1>1, BeatTypes, UpdatedFields
<1> QED BY <1>2 DEF Fits

\* A mark leaves an honest file, whether the write fails or not.
LEMMA MarkFits ==
    ASSUME NEW q, Fits(file, q), NEW beat, Fits(beat, q), Mark(beat)
    PROVE  Fits(file', q)
BY DEF Mark

\* A step of the threads of a session keeps that session and the file, and is
\* either no sign of life or one that counts from now.
LEMMA ThreadKept ==
    ASSUME NEW s, NEW t, quiet \in Time, Fits(file, quiet), Kept(s, quiet), Thread(s, t)
    PROVE  Kept(t, quiet') /\ Fits(file', quiet') /\ quiet' \in {0, quiet}
<1>0. s \in Session /\ s.beat \in Snapshot
  BY DEF Kept, Session
<1>1. CASE Loop(s, t)
  <2>1. quiet' = 0 /\ t = [s EXCEPT !.beat = Seen(s.beat)] /\ s.at = "between"
        /\ Mark(Seen(s.beat))
    BY <1>1 DEF Loop
  <2>2. Fits(Seen(s.beat), 0) /\ Seen(s.beat).worker # Unseen
    BY <1>0, BeatTypes, MaxAgeNat DEF Fits, Seen, Unseen
  <2>3. t \in Session /\ t.beat = Seen(s.beat)
    BY <1>0, <2>1, BeatTypes DEF Session
  <2>4. Fits(file', 0)
    BY <2>1, <2>2, AliveKept, MarkFits
  <2> QED BY <2>1, <2>2, <2>3, <2>4 DEF Kept
<1>2. CASE BeginRun(s, t) \/ EndRun(s, t)
  <2>1. s.at # "off" /\ s.beat.worker # Unseen
    BY <1>2 DEF BeginRun, EndRun, Kept
  <2>2. Fits(Updated(s.beat), quiet) /\ Updated(s.beat).worker # Unseen
    BY <2>1, UpdatedFits DEF Kept
  <2>3. PICK label \in {"runs", "between", "pauses"} :
          t = [at |-> label, beat |-> Updated(s.beat)]
    BY <1>2 DEF BeginRun, EndRun
  <2>4. t \in Session
    BY <2>2, <2>3 DEF Session, Fits
  <2>5. quiet' = quiet /\ (file' = file \/ Mark(Updated(s.beat)))
    BY <1>2 DEF BeginRun, EndRun
  <2>6. Fits(file', quiet)
    BY <2>2, <2>5, MarkFits
  <2> QED BY <2>2, <2>3, <2>4, <2>5, <2>6 DEF Kept
<1>3. CASE EndLastRun(s, t)
  <2>1. s.at # "off" /\ s.beat.worker # Unseen
    BY <1>3 DEF EndLastRun, Kept
  <2>2. Fits(Updated(s.beat), quiet)
    BY <2>1, UpdatedFits DEF Kept
  <2>3. t = Gone /\ quiet' = quiet /\ Mark(Updated(s.beat))
    BY <1>3 DEF EndLastRun
  <2> QED BY <2>2, <2>3, MarkFits, GoneKept
<1>4. CASE PauseEnds(s, t)
  <2>1. t = [s EXCEPT !.at = "between"] /\ s.at = "pauses" /\ file' = file /\ quiet' = quiet
    BY <1>4 DEF PauseEnds
  <2>2. t \in Session /\ t.beat = s.beat
    BY <1>0, <2>1 DEF Session
  <2> QED BY <2>1, <2>2 DEF Kept
<1>5. CASE Rewrite(s, t)
  <2>1. t = s /\ quiet' = quiet /\ s.at # "off" /\ Mark(s.beat)
    BY <1>5 DEF Rewrite
  <2>2. Fits(s.beat, quiet)
    BY <2>1 DEF Kept
  <2> QED BY <2>1, <2>2, MarkFits
<1> QED BY <1>1, <1>2, <1>3, <1>4, <1>5 DEF Thread

LEMMA ThreadSteps == ASSUME IInv, ThreadNow \/ ThreadLeft PROVE IInv'
<1>0. quiet \in Time /\ Fits(file, quiet) /\ Kept(now, quiet) /\ Kept(left, quiet)
      /\ systemctl \in BOOLEAN /\ active \in BOOLEAN /\ 0 \in Time
  BY Parts, MaxAgeNat DEF RestInv, Time
<1>1. UNCHANGED <<systemctl, active>>
  BY DEF ThreadNow, ThreadLeft
<1>2. CASE ThreadNow
  <2>1. Kept(now', quiet') /\ Fits(file', quiet') /\ quiet' \in {0, quiet} /\ left' = left
    BY <1>0, <1>2, ThreadKept DEF ThreadNow
  <2>2. Kept(left', quiet')
    BY <1>0, <2>1, AliveKept
  <2> QED BY <1>0, <1>1, <2>1, <2>2, PartsNext DEF RestInv
<1>3. CASE ThreadLeft
  <2>1. Kept(left', quiet') /\ Fits(file', quiet') /\ quiet' \in {0, quiet} /\ now' = now
    BY <1>0, <1>3, ThreadKept DEF ThreadLeft
  <2>2. Kept(now', quiet')
    BY <1>0, <2>1, AliveKept
  <2> QED BY <1>0, <1>1, <2>1, <2>2, PartsNext DEF RestInv
<1> QED BY <1>2, <1>3

LEMMA CallbackStep == ASSUME IInv, Callback PROVE IInv'
<1>0. quiet \in Time /\ Fits(file, quiet) /\ Kept(now, quiet) /\ Kept(left, quiet)
      /\ now \in Session
  BY Parts DEF RestInv, Kept
<1>1. now' = [now EXCEPT !.beat = Updated(now.beat)] /\ now.at # "off"
      /\ Mark(Updated(now.beat)) /\ UNCHANGED <<systemctl, active, left, quiet>>
  BY DEF Callback
<1>2. Fits(Updated(now.beat), quiet) /\ Updated(now.beat).worker = now.beat.worker
  BY <1>0, <1>1, UpdatedFits DEF Kept
<1>3. now' \in Session /\ now'.at = now.at /\ now'.beat = Updated(now.beat)
  BY <1>0, <1>1, <1>2 DEF Session, Fits
<1>4. Kept(now', quiet)
  BY <1>0, <1>1, <1>2, <1>3 DEF Kept
<1>5. Fits(file', quiet)
  BY <1>0, <1>1, <1>2, MarkFits
<1> QED BY <1>0, <1>1, <1>4, <1>5, Parts, PartsNext DEF RestInv

\* No worker is unseen when the clock ticks, as each has polled.
LEMMA TickStep == ASSUME IInv, Tick PROVE IInv'
<1>0. quiet \in Time /\ Fits(file, quiet) /\ Kept(now, quiet) /\ Kept(left, quiet)
  BY Parts DEF RestInv
<1>1. Polled /\ now' = AgedSession(now) /\ left' = AgedSession(left) /\ file' = Aged(file)
      /\ quiet' = Older(quiet) /\ UNCHANGED <<systemctl, active>>
  BY DEF Tick
<1>2. ASSUME NEW s, Kept(s, quiet), s.at = "between" => s.beat.worker = 0
      PROVE  Kept(AgedSession(s), Older(quiet))
  <2>1. CASE s.at = "off"
    BY <1>2, <2>1 DEF AgedSession, Kept
  <2>2. CASE s.at # "off"
    <3>1. s \in Session /\ Fits(s.beat, quiet) /\ s.beat.worker # Unseen
      BY <1>2, <2>2, MaxAgeNat DEF Kept, Unseen
    <3>2. Fits(Aged(s.beat), Older(quiet)) /\ Aged(s.beat).worker # Unseen
      BY <1>0, <3>1, AgedFits
    <3>3. AgedSession(s) = [s EXCEPT !.beat = Aged(s.beat)]
      BY <2>2 DEF AgedSession
    <3>4. AgedSession(s) \in Session /\ AgedSession(s).beat = Aged(s.beat)
      BY <3>1, <3>2, <3>3 DEF Session, Fits
    <3> QED BY <3>2, <3>4 DEF Kept
  <2> QED BY <2>1, <2>2
<1>3. Kept(now', quiet') /\ Kept(left', quiet')
  BY <1>0, <1>1, <1>2 DEF Polled
<1>4. Fits(file', quiet')
  BY <1>0, <1>1, AgedFits
<1>5. RestInv'
  BY <1>0, <1>1, Parts, MaxAgeNat DEF RestInv, Older, Time
<1> QED BY <1>3, <1>4, <1>5, PartsNext

-----------------------------------------------------------------------------

\* Every step keeps the invariant.
LEMMA NextIInv == IInv /\ [Next]_vars => IInv'
<1> SUFFICES ASSUME IInv, [Next]_vars PROVE IInv'
  OBVIOUS
<1>1. CASE UNCHANGED vars
  BY <1>1, StutterInv
<1>2. CASE Next
  BY <1>2, SessionSteps, ThreadSteps, CallbackStep, TickStep DEF Next
<1> QED BY <1>1, <1>2

\* Snapshots never show a younger worker than there was, in any reachable state
\* of the main service (streaming_pull.py, _update_heartbeat, _mark_heartbeat).
THEOREM Invariance == Spec => []IInv
BY InitIInv, NextIInv, PTL DEF Spec

\* The watchdog's verdict "healthy" (failover.evaluate_main_health) is never
\* wrong about a service that stopped working longer ago than the limit.
THEOREM Alive == Spec => []HealthyWasAlive
<1>1. IInv => HealthyWasAlive
  <2> SUFFICES ASSUME IInv, Healthy PROVE quiet <= MaxAge
    BY DEF HealthyWasAlive
  <2>1. file \in Snapshot /\ Honest(file) /\ quiet \in 0..(MaxAge + 1)
    BY DEF IInv, TypeOK
  <2>2. file.updated <= MaxAge /\ (file.worker = Unseen \/ file.worker <= MaxAge)
    BY <2>1, MaxAgeNat DEF Healthy, FileFresh, WorkerStale, Unseen, Snapshot
  <2> QED BY <2>1, <2>2, MaxAgeNat DEF Honest, Snapshot, Unseen
<1> QED BY <1>1, Invariance, PTL
-----------------------------------------------------------------------------
(* The main service and the watchdog together (Failover).                   *)

\* What the main service does beside the watchdog is what it does without.
THEOREM ComposedHeartbeat == BothSpec => Spec
<1>1. InitBoth => Init
  BY DEF InitBoth
<1>2. [NextBoth]_allVars => [Next]_vars
  BY DEF NextBoth, MainService, Others, allVars
<1> QED BY <1>1, <1>2, PTL DEF BothSpec, Spec

\* To the watchdog and its runs, the heartbeat is a health that changes freely:
\* Failover implements StateFile.
THEOREM ComposedStateFile == BothSpec => S!Spec
<1>1. InitBoth => S!Init
  BY DEF InitBoth
<1>2. [NextBoth]_allVars => [S!Next]_(S!vars)
  <2> SUFFICES ASSUME [NextBoth]_allVars PROVE [S!Next]_(S!vars)
    OBVIOUS
  <2>1. CASE UNCHANGED stateVars
    <3>1. UNCHANGED <<S!files, pc, job, faults>>
      BY <2>1 DEF stateVars, S!files
    <3>2. CASE Healthy' = Healthy
      BY <3>1, <3>2 DEF S!vars
    <3>3. CASE Healthy' = ~Healthy
      BY <3>1, <3>3 DEF S!Next, S!HealthChanges
    <3>4. Healthy \in BOOLEAN /\ Healthy' \in BOOLEAN
      BY DEF Healthy
    <3> QED BY <3>2, <3>3, <3>4
  <2>2. CASE Others
    BY <2>2 DEF Others, S!Next
  <2> QED BY <2>1, <2>2 DEF NextBoth, MainService, allVars
<1> QED BY <1>1, <1>2, PTL DEF BothSpec, S!Spec

\* pc and job have an entry for each process.
Shaped == DOMAIN pc = S!Procs /\ DOMAIN job = S!Procs

\* The failover ends for a reason: a watchdog that decides to step down does so
\* while a failover is active and the main service has been alive within the
\* limit.  The decision is made from the heartbeat file alone, which the threads
\* of the main service and workers left behind write without a lock.
StepsDownWhenAlive ==
    [][\A w \in Watchdogs :
         pc[w] # "watch" /\ pc'[w] = "watch" /\ job'[w].op = "clear"
             => state.failover /\ quiet <= MaxAge]_allVars

THEOREM StepsDownTheorem == BothSpec => StepsDownWhenAlive
<1> DEFINE A == \A w \in Watchdogs :
                  pc[w] # "watch" /\ pc'[w] = "watch" /\ job'[w].op = "clear"
                      => state.failover /\ quiet <= MaxAge
<1>1. InitBoth => Shaped
  BY DEF InitBoth, S!Init, Shaped
<1>2. Shaped /\ [NextBoth]_allVars => Shaped'
  <2> SUFFICES ASSUME Shaped, [NextBoth]_allVars PROVE Shaped'
    OBVIOUS
  <2>1. CASE UNCHANGED stateVars
    BY <2>1 DEF stateVars, Shaped
  <2>2. CASE Others
    <3>1. \A p, l, j : S!Continue(p, l, j) => DOMAIN pc' = DOMAIN pc /\ DOMAIN job' = DOMAIN job
      BY DEF S!Continue, S!Goto
    <3>2. \A p, l : S!Goto(p, l) => DOMAIN pc' = DOMAIN pc
      BY DEF S!Goto
    <3>3. ASSUME NEW p \in S!Procs,
                 S!Outcome(p) \/ S!LockAndLoad(p) \/ S!Progress(p) \/ S!Disturbance(p)
          PROVE  DOMAIN pc' = DOMAIN pc /\ DOMAIN job' = DOMAIN job
      BY <3>1, <3>2, <3>3 DEF S!Outcome, S!Failed, S!Succeeded, S!EndedQuietly,
         S!LockAndLoad, S!Progress, S!BeginRun, S!Post, S!Save, S!Saved,
         S!RecoverNothing, S!Append, S!Disturbance, S!PostFails, S!SaveFails,
         S!AppendFails, S!Crash, S!Done
    <3>4. ASSUME NEW w \in Watchdogs,
                 S!WatchdogStep(w) \/ S!AnnounceFails(w) \/ S!WatchdogSaveFails(w)
          PROVE  DOMAIN pc' = DOMAIN pc /\ DOMAIN job' = DOMAIN job
      BY <3>1, <3>4 DEF S!WatchdogStep, S!Watch, S!WatchdogSaves, S!AnnounceFails,
         S!WatchdogSaveFails, S!Done
    <3> QED BY <2>2, <3>3, <3>4 DEF Others, Shaped
  <2> QED BY <2>1, <2>2 DEF NextBoth, MainService, allVars
<1>3. Shaped /\ HealthyWasAlive /\ [NextBoth]_allVars => [A]_allVars
  <2> SUFFICES ASSUME Shaped, HealthyWasAlive, NextBoth, NEW w \in Watchdogs,
                      pc[w] # "watch", pc'[w] = "watch", job'[w].op = "clear"
               PROVE  state.failover /\ quiet <= MaxAge
    OBVIOUS
  <2>0. w \in DOMAIN pc /\ w \in DOMAIN job
    BY DEF Shaped, S!Procs
  <2>1. \A p, l : S!Goto(p, l) => l = "watch" \/ pc'[w] # "watch"
    BY <2>0 DEF S!Goto
  <2>2. Others
    BY DEF NextBoth, MainService, stateVars
  <2>3. ASSUME NEW p \in S!Procs,
               S!Outcome(p) \/ S!LockAndLoad(p) \/ S!Progress(p) \/ S!Disturbance(p)
        PROVE  \E l : l # "watch" /\ S!Goto(p, l)
    BY <2>3 DEF S!Outcome, S!Failed, S!Succeeded, S!EndedQuietly,
       S!LockAndLoad, S!Progress, S!BeginRun, S!Post, S!Save, S!Saved,
       S!RecoverNothing, S!Append, S!Disturbance, S!PostFails, S!SaveFails,
       S!AppendFails, S!Crash, S!Done, S!Continue
  <2>4. ASSUME NEW v \in Watchdogs, S!AnnounceFails(v) \/ S!WatchdogSaveFails(v) \/ S!WatchdogSaves(v)
        PROVE  \E l : l # "watch" /\ S!Goto(v, l)
    BY <2>4 DEF S!WatchdogSaves, S!AnnounceFails, S!WatchdogSaveFails, S!Done, S!Continue
  <2>5. PICK v \in Watchdogs : S!Watch(v)
    BY <2>1, <2>2, <2>3, <2>4 DEF Others, S!WatchdogStep
  <2>6. v = w
    BY <2>0, <2>5 DEF S!Watch, S!Continue, S!Goto
  <2> DEFINE op == IF Healthy THEN "clear" ELSE IF state.failover THEN "again" ELSE "failover"
             j == [S!NoJob EXCEPT !.copy = state, !.op = op]
  <2>7. job'[w] = j
    BY <2>0, <2>5, <2>6 DEF S!Watch, S!Continue
  <2>8. j.op = op
    BY DEF S!NoJob
  <2>9. Healthy /\ (~Healthy \/ state.failover)
    BY <2>5, <2>7, <2>8 DEF S!Watch
  <2> QED BY <2>9 DEF HealthyWasAlive
<1>4. StepsDownWhenAlive <=> [][A]_allVars
  BY DEF StepsDownWhenAlive
<1> HIDE DEF A
<1> QED BY <1>1, <1>2, <1>3, <1>4, ComposedHeartbeat, Alive, PTL DEF BothSpec
=============================================================================
