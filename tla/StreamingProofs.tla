--------------------------- MODULE StreamingProofs ---------------------------
(***************************************************************************)
(* Theorems about module Streaming, for every number of mails, sessions    *)
(* and faults: type correctness, no wakeup is lost, and, when every        *)
(* notification has a history id, no notification is lost by collapsing    *)
(* or skipping.                                                            *)
(***************************************************************************)
EXTENDS Streaming, Integers, TLAPS

\* A session that has not connected yet has touched none of its events.
Unconnected(s) ==
    \/ s > session
    \/ s = session /\ main.at \in {"start", "first", "connect", "exited"}

Fresh == \A s \in Sessions : Unconnected(s) => worker[s] = NewWorker /\ ~failed[s]

\* The current session is about to end, or has ended, by a fault.
Broken ==
    \/ main.raised
    \/ failed[session]
    \/ worker[session].at = "failing"

\* Every session that ended was ended by a fault of its own.
Charged ==
    /\ session - 1 <= faults
    /\ Broken => session <= faults
    /\ main.at = "retry" => main.raised

\* What a run has seen is mail that some run began with.
Seen ==
    /\ main.sees <= began
    /\ \A s \in Sessions : worker[s].sees <= began

\* Only mail that has arrived is notified.
Arrived == \A m \in Mail : msg[m] # "none" => m <= mailbox

Base == TypeOK /\ Fresh /\ Charged /\ Seen /\ Arrived

USE MaxMailNat, MaxFailuresPos, MaxFaultsNat DEF None, Mail

LEMMA SessionsType ==
    /\ Sessions \subseteq Nat
    /\ 1 \in Sessions
    /\ \A n \in Nat : n >= 1 /\ n - 1 <= MaxFaults => n \in Sessions
BY DEF Sessions

LEMMA FaultType ==
    ASSUME TypeOK, faults' = faults \/ Fault
    PROVE  faults' \in 0..MaxFaults /\ faults <= faults'
BY DEF TypeOK, Fault

LEMMA InitBase == Init => Base
<1> SUFFICES ASSUME Init PROVE Base
  OBVIOUS
<1> USE SessionsType DEF Init, InEvery
<1>1. NewWorker \in Worker /\ NewWorker.fails = 0 /\ NewWorker.at = "off"
      /\ NewWorker.sees = 0
  BY DEF NewWorker, Worker, WorkerStates
<1>2. TypeOK
  BY <1>1 DEF TypeOK, MsgStates, MainThread, MainStates
<1>3. Fresh /\ Charged /\ Seen /\ Arrived
  BY <1>1 DEF Fresh, Unconnected, Charged, Broken, Seen, Arrived
<1> QED BY <1>2, <1>3 DEF Base

\* A fault on the way of a notification that has been published.
LEMMA MessageFaultBase ==
    ASSUME Base, Fault, NEW m \in Mail, NEW a \in MsgStates, msg[m] # "none",
           msg' = [msg EXCEPT ![m] = a],
           UNCHANGED <<mailbox, via, session_vars, control, progress>>
    PROVE  Base'
<1> USE DEF Base, session_vars, control, progress
<1>1. TypeOK'
  BY FaultType DEF TypeOK
<1>2. Fresh' /\ Seen'
  BY DEF Fresh, Unconnected, Seen
<1>3. Charged'
  <2>1. session - 1 <= faults /\ (Broken => session <= faults)
        /\ (main.at = "retry" => main.raised)
    BY DEF Charged
  <2>2. session \in Nat /\ faults \in Nat /\ faults' \in Nat /\ faults <= faults'
    BY FaultType, SessionsType DEF TypeOK
  <2>3. session' = session /\ (Broken' => Broken) /\ main' = main
    BY DEF Broken
  <2> QED BY <2>1, <2>2, <2>3 DEF Charged
<1>4. Arrived'
  BY DEF Arrived, TypeOK
<1> QED BY <1>1, <1>2, <1>3, <1>4

\* Gmail, Pub/Sub and the callbacks.
LEMMA MessageBase ==
    ASSUME Base,
           Arrive \/ \E m \in Mail : Redeliver(m) \/ Deliver(m) \/ Callback(m) \/ ParseFails(m)
    PROVE  Base'
<1> USE DEF Base, TypeOK, MsgStates, session_vars, control, progress, calling,
            Advance
<1>1. CASE Arrive
  <2>1. TypeOK'
    BY <1>1 DEF Arrive
  <2>2. (Fresh /\ Charged /\ Seen /\ Arrived)'
    BY <1>1 DEF Arrive, Fresh, Unconnected, Charged, Broken, Seen, Arrived
  <2> QED BY <2>1, <2>2
<1>2. ASSUME NEW m \in Mail, Redeliver(m) PROVE Base'
  BY <1>2, MessageFaultBase DEF Redeliver
<1>3. ASSUME NEW m \in Mail, Deliver(m) PROVE Base'
  BY <1>3 DEF Deliver, Fresh, Unconnected, Charged, Broken, Seen, Arrived
<1>4. ASSUME NEW m \in Mail, ParseFails(m) PROVE Base'
  BY <1>4, MessageFaultBase DEF ParseFails
<1>5. ASSUME NEW m \in Mail, Callback(m) PROVE Base'
  <2> USE DEF Fresh, Unconnected, Charged, Broken, Seen, Arrived
  <2>1. CASE CallbackStopped(m)
    BY <2>1 DEF CallbackStopped
  <2>4. CASE CallbackParses(m)
    BY <2>4 DEF CallbackParses
  <2>5. CASE Ack(m)
    BY <2>5 DEF Ack
  <2>2. CASE Queue(m)
    <3>1. Collapse(pending[via[m]], m) \in Mail
      BY DEF Collapse
    <3> QED BY <2>2, <3>1 DEF Queue
  <2>3. CASE SetTrigger(m)
    BY <2>3 DEF SetTrigger
  <2> QED BY <1>5, <2>1, <2>2, <2>3, <2>4, <2>5 DEF Callback
<1> QED BY <1>1, <1>2, <1>3, <1>4, <1>5

LEMMA NewWorkerType ==
    /\ NewWorker \in Worker
    /\ NewWorker.at = "off"
    /\ NewWorker.fails = 0
    /\ NewWorker.sees = 0
    /\ NewWorker.last = 0
BY DEF NewWorker, Worker, WorkerStates

\* A worker thread goes from a state to another, w, in a run that counts what
\* it has seen and the failures before it ...
WorkerGoes(s, w) ==
    /\ worker[s].at # "off"
    /\ w \in Worker
    /\ w.at # "off"
    /\ w.fails = MaxFailures => w.at \in {"failing", "stopping", "done"}
    /\ w.at = "failing" => worker[s].at = "failing" \/ faults' = faults + 1
    /\ w.sees <= began'
    /\ worker' = [worker EXCEPT ![s] = w]

\* ... and changes the events of its session, nothing else.
WorkerKeeps(s) ==
    /\ \/ failed' = failed
       \/ worker[s].at = "failing" /\ failed' = [failed EXCEPT ![s] = TRUE]
    /\ stop' \in [Sessions -> BOOLEAN]
    /\ trigger' \in [Sessions -> BOOLEAN]
    /\ pending' \in [Sessions -> Mail \union {None}]
    /\ began <= began' /\ began' \in 0..mailbox
    /\ covered' \in 0..began'
    /\ faults <= faults' /\ faults' \in 0..MaxFaults
    /\ UNCHANGED mailbox /\ UNCHANGED msg /\ UNCHANGED via
    /\ UNCHANGED main /\ UNCHANGED session /\ UNCHANGED attempts

\* The worker's record after a run (AfterRun).
AfterRunOf(v, f) ==
    [v EXCEPT !.at = IF v.idle THEN "wait" ELSE "take",
              !.idle = FALSE, !.sees = 0, !.fails = f]

LEMMA WorkerAfterRun ==
    ASSUME NEW v \in Worker, NEW f \in 0..MaxFailures
    PROVE  /\ AfterRunOf(v, f) \in Worker
           /\ AfterRunOf(v, f).sees = 0
           /\ AfterRunOf(v, f).fails = f
           /\ AfterRunOf(v, f).at \in {"wait", "take"}
<1> DEFINE a == IF v.idle THEN "wait" ELSE "take"
           w == [v EXCEPT !.at = a, !.idle = FALSE, !.sees = 0, !.fails = f]
<1>1. a \in {"wait", "take"}
  OBVIOUS
<1>2. AfterRunOf(v, f) = w
  BY DEF AfterRunOf
<1> HIDE DEF a
<1>3. w \in Worker
  BY <1>1 DEF Worker, WorkerStates
<1>4. w.sees = 0 /\ w.fails = f /\ w.at = a
  BY DEF Worker
<1> QED BY <1>1, <1>2, <1>3, <1>4

LEMMA OneMore ==
    ASSUME NEW n \in 0..MaxFailures, n # MaxFailures
    PROVE  n + 1 \in 0..MaxFailures
OBVIOUS

LEMMA WorkerMovesBase ==
    ASSUME Base, NEW s \in Sessions, NEW w, WorkerGoes(s, w), WorkerKeeps(s)
    PROVE  Base'
<1>a. session \in Nat /\ s \in Nat /\ faults \in Nat /\ faults' \in Nat
      /\ began \in Nat /\ began' \in Nat
  BY SessionsType DEF Base, TypeOK, WorkerKeeps
<1>b. \A t \in Sessions : worker'[t] = IF t = s THEN w ELSE worker[t]
  BY DEF Base, TypeOK, WorkerGoes
<1>c. main' = main /\ session' = session /\ faults <= faults' /\ began <= began'
  BY DEF WorkerKeeps
<1>d. worker[s].at # "off" /\ w.at # "off" /\ w.sees <= began'
      /\ (w.at = "failing" => worker[s].at = "failing" \/ faults' = faults + 1)
  BY DEF WorkerGoes
<1>e. \/ failed' = failed
      \/ worker[s].at = "failing" /\ failed' = [failed EXCEPT ![s] = TRUE]
  BY DEF WorkerKeeps
<1>f. failed \in [Sessions -> BOOLEAN] /\ session \in Sessions
  BY DEF Base, TypeOK
<1>g. \A t \in Sessions : failed'[t] = failed[t]
         \/ (t = s /\ worker[s].at = "failing" /\ failed'[t] = TRUE)
  <2>1. CASE failed' = failed
    BY <2>1
  <2>2. CASE worker[s].at = "failing" /\ failed' = [failed EXCEPT ![s] = TRUE]
    BY <1>f, <2>2
  <2> QED BY <1>e, <2>1, <2>2
<1>1. TypeOK'
  <2>1. worker' \in [Sessions -> Worker]
    BY DEF Base, TypeOK, WorkerGoes
  <2>2. failed' \in [Sessions -> BOOLEAN]
    BY <1>e, <1>f
  <2>3. \A t \in Sessions : worker'[t].fails = MaxFailures =>
          worker'[t].at \in {"failing", "stopping", "done"}
    BY <1>b DEF Base, TypeOK, WorkerGoes
  <2> QED BY <2>1, <2>2, <2>3 DEF Base, TypeOK, WorkerKeeps
<1>2. ~Unconnected(s)
  <2>1. worker[s] # NewWorker
    BY <1>d, NewWorkerType
  <2> QED BY <2>1 DEF Base, Fresh
<1>3. Fresh'
  <2>1. ASSUME NEW t \in Sessions, Unconnected(t)
        PROVE  worker'[t] = NewWorker /\ ~failed'[t]
    <3>1. t # s
      BY <1>2, <2>1
    <3>2. worker[t] = NewWorker /\ ~failed[t]
      BY <2>1 DEF Base, Fresh
    <3> QED BY <1>b, <1>g, <3>1, <3>2
  <2>2. \A t \in Sessions : Unconnected(t)' => Unconnected(t)
    BY <1>c DEF Unconnected
  <2> QED BY <2>1, <2>2 DEF Fresh
<1>4. Charged'
  <2>1. session - 1 <= faults /\ (Broken => session <= faults)
        /\ (main.at = "retry" => main.raised)
    BY DEF Base, Charged
  <2>2. session' - 1 <= faults'
    BY <1>a, <1>c, <2>1
  <2>3. ASSUME Broken PROVE session' <= faults'
    BY <1>a, <1>c, <2>1, <2>3
  <2>4. ASSUME ~Broken, Broken' PROVE session' <= faults'
    <3>1. ~main.raised /\ ~failed[session] /\ worker[session].at # "failing"
      BY <2>4 DEF Broken
    <3>2. failed'[session] \/ worker'[session].at = "failing"
      BY <1>c, <2>4, <3>1 DEF Broken
    <3>3. worker'[session].at = "failing"
      BY <1>f, <1>g, <3>1, <3>2
    <3>4. session = s /\ w.at = "failing"
      BY <1>b, <1>f, <3>1, <3>3
    <3>5. faults' = faults + 1
      BY <1>d, <3>1, <3>4
    <3> QED BY <1>a, <1>c, <2>1, <3>5
  <2>5. main'.at = "retry" => main'.raised
    BY <1>c, <2>1
  <2> QED BY <2>2, <2>3, <2>4, <2>5 DEF Charged
<1>5. Seen'
  <2>1. main.sees \in Nat /\ main.sees <= began
    BY DEF Base, TypeOK, MainThread, Seen
  <2>2. main'.sees <= began'
    BY <1>a, <1>c, <2>1
  <2>3. ASSUME NEW t \in Sessions PROVE worker'[t].sees <= began'
    <3>1. worker[t].sees \in Nat /\ worker[t].sees <= began
      BY DEF Base, TypeOK, Worker, Seen
    <3> QED BY <1>a, <1>b, <1>c, <1>d, <3>1
  <2> QED BY <2>2, <2>3 DEF Seen
<1>6. Arrived'
  BY DEF Base, Arrived, WorkerKeeps
<1> QED BY <1>1, <1>3, <1>4, <1>5, <1>6 DEF Base

\* The worker of a session.
LEMMA WorkerBase ==
    ASSUME Base, NEW s \in Sessions,
           WorkerStep(s) \/ RunFailsQuietly(s) \/ RunRaises(s)
    PROVE  Base'
<1> SUFFICES WorkerKeeps(s) /\ \E w : WorkerGoes(s, w)
  BY WorkerMovesBase
<1>0. worker[s] \in Worker /\ pending[s] \in Nat
  BY DEF Base, TypeOK
<1>a. worker[s].sees <= began /\ began \in Nat /\ mailbox \in Nat /\ began <= mailbox
      /\ covered \in Nat /\ covered <= began /\ faults \in Nat /\ faults <= MaxFaults
  BY DEF Base, TypeOK, Seen
<1>b. worker[s].fails = MaxFailures => worker[s].at \in {"failing", "stopping", "done"}
  BY DEF Base, TypeOK
<1>c. worker \in [Sessions -> Worker] /\ stop \in [Sessions -> BOOLEAN]
      /\ trigger \in [Sessions -> BOOLEAN] /\ failed \in [Sessions -> BOOLEAN]
      /\ pending \in [Sessions -> Mail \union {None}]
  BY DEF Base, TypeOK
<1> USE <1>0, <1>a, <1>b, <1>c DEF WorkerGoes, WorkerKeeps, working, progress, pubsub,
        control, Fault, At, Goto, Dequeue, AfterRun
<1>1. CASE Wake(s)
  <2> DEFINE w == [worker[s] EXCEPT !.at = "take"]
  <2>1. w \in Worker /\ w.sees = worker[s].sees /\ w.fails = worker[s].fails
        /\ w.at = "take"
    BY DEF Worker, WorkerStates
  <2>2. worker' = [worker EXCEPT ![s] = w]
    BY <1>1 DEF Wake
  <2> HIDE DEF w
  <2>3. WorkerGoes(s, w)
    BY <1>1, <2>1, <2>2 DEF Wake
  <2>4. WorkerKeeps(s)
    BY <1>1 DEF Wake
  <2> QED BY <2>3, <2>4
<1>2. CASE IdleTrigger(s)
  <2> DEFINE w == [worker[s] EXCEPT !.at = "run", !.idle = TRUE]
  <2>1. w \in Worker /\ w.sees = worker[s].sees /\ w.fails = worker[s].fails
        /\ w.at = "run"
    BY DEF Worker, WorkerStates
  <2>2. worker' = [worker EXCEPT ![s] = w]
    BY <1>2 DEF IdleTrigger
  <2> HIDE DEF w
  <2>3. WorkerGoes(s, w)
    BY <1>2, <2>1, <2>2 DEF IdleTrigger
  <2>4. WorkerKeeps(s)
    BY <1>2 DEF IdleTrigger
  <2> QED BY <2>3, <2>4
<1>3. CASE TakeNothing(s)
  <2> DEFINE w == [worker[s] EXCEPT !.at = "wait"]
  <2>1. w \in Worker /\ w.sees = worker[s].sees /\ w.fails = worker[s].fails
        /\ w.at = "wait"
    BY DEF Worker, WorkerStates
  <2>2. worker' = [worker EXCEPT ![s] = w]
    BY <1>3 DEF TakeNothing
  <2> HIDE DEF w
  <2>3. WorkerGoes(s, w)
    BY <1>3, <2>1, <2>2 DEF TakeNothing
  <2>4. WorkerKeeps(s)
    BY <1>3 DEF TakeNothing
  <2> QED BY <2>3, <2>4
<1>4. CASE SkipDuplicate(s)
  <2>1. worker' = [worker EXCEPT ![s] = worker[s]]
    BY <1>4 DEF SkipDuplicate
  <2>2. WorkerGoes(s, worker[s])
    BY <1>4, <2>1 DEF SkipDuplicate
  <2>3. WorkerKeeps(s)
    BY <1>4 DEF SkipDuplicate
  <2> QED BY <2>2, <2>3
<1>5. CASE Take(s)
  <2> DEFINE w == [worker[s] EXCEPT !.at = "run",
                           !.idle = FALSE,
                           !.last = IF History(pending[s]) = None THEN worker[s].last
                                    ELSE History(pending[s])]
  <2>0. History(pending[s]) \in Nat
    BY DEF History
  <2>1. w \in Worker /\ w.sees = worker[s].sees /\ w.fails = worker[s].fails
        /\ w.at = "run"
    BY <2>0 DEF Worker, WorkerStates
  <2>2. worker' = [worker EXCEPT ![s] = w]
    BY <1>5 DEF Take
  <2> HIDE DEF w
  <2>3. WorkerGoes(s, w)
    BY <1>5, <2>1, <2>2 DEF Take
  <2>4. WorkerKeeps(s)
    BY <1>5 DEF Take
  <2> QED BY <2>3, <2>4
<1>6. CASE BeginRun(s)
  <2> DEFINE w == [worker[s] EXCEPT !.at = "running", !.sees = mailbox]
  <2>1. w \in Worker /\ w.sees = mailbox /\ w.fails = worker[s].fails
        /\ w.at = "running"
    BY DEF Worker, WorkerStates
  <2>2. worker' = [worker EXCEPT ![s] = w]
    BY <1>6 DEF BeginRun
  <2> HIDE DEF w
  <2>3. WorkerGoes(s, w)
    <3>1. began' = mailbox /\ worker[s].at = "run"
      BY <1>6 DEF BeginRun
    <3>2. w.sees <= began'
      BY <2>1, <3>1
    <3> QED BY <2>1, <2>2, <3>1, <3>2
  <2>4. WorkerKeeps(s)
    BY <1>6 DEF BeginRun
  <2> QED BY <2>3, <2>4
<1>7. CASE RunSucceeds(s)
  <2> DEFINE w == AfterRunOf(worker[s], 0)
  <2>0. 0 \in 0..MaxFailures
    BY MaxFailuresPos
  <2>1. w \in Worker /\ w.sees = 0 /\ w.fails = 0 /\ w.at \in {"wait", "take"}
    BY <2>0, WorkerAfterRun
  <2>2. worker' = [worker EXCEPT ![s] = w]
    BY <1>7 DEF RunSucceeds, AfterRunOf
  <2> HIDE DEF w
  <2>3. WorkerGoes(s, w)
    <3>1. began' = began /\ worker[s].at \in {"running", "backoff"}
      BY <1>7 DEF RunSucceeds
    <3> QED BY <2>1, <2>2, <3>1
  <2>4. WorkerKeeps(s)
    <3>1. covered' \in 0..began /\ began' = began
      BY <1>7 DEF RunSucceeds, Larger, Worker
    <3> QED BY <1>7, <3>1 DEF RunSucceeds
  <2> QED BY <2>3, <2>4
<1>8. CASE RunFailsQuietly(s)
  <2> DEFINE w == AfterRunOf(worker[s], 0)
  <2>0. 0 \in 0..MaxFailures
    BY MaxFailuresPos
  <2>1. w \in Worker /\ w.sees = 0 /\ w.fails = 0 /\ w.at \in {"wait", "take"}
    BY <2>0, WorkerAfterRun
  <2>2. worker' = [worker EXCEPT ![s] = w]
    BY <1>8 DEF RunFailsQuietly, AfterRunOf
  <2> HIDE DEF w
  <2>3. WorkerGoes(s, w)
    <3>1. began' = began /\ worker[s].at \in {"running", "backoff"}
      BY <1>8 DEF RunFailsQuietly
    <3> QED BY <2>1, <2>2, <3>1
  <2>4. WorkerKeeps(s)
    BY <1>8 DEF RunFailsQuietly
  <2> QED BY <2>3, <2>4
<1>9. CASE RunRaises(s)
  <2> DEFINE a == IF FatalRaise(s) THEN "failing" ELSE "backoff"
             w == [worker[s] EXCEPT !.at = a, !.fails = worker[s].fails + 1, !.sees = 0]
  <2>0. worker[s].at = "running" /\ began' = began /\ faults' = faults + 1
    BY <1>9 DEF RunRaises
  <2>a. worker[s].fails \in 0..MaxFailures /\ worker[s].fails # MaxFailures
    BY <2>0 DEF Worker
  <2>c. worker[s].fails + 1 \in 0..MaxFailures
    BY <2>a, OneMore
  <2>b. a \in {"failing", "backoff"}
        /\ (worker[s].fails + 1 = MaxFailures => a = "failing")
    BY <2>a, <2>c DEF FatalRaise
  <2>2. worker' = [worker EXCEPT ![s] = w]
    BY <1>9 DEF RunRaises
  <2> HIDE DEF a
  <2>1. w \in Worker /\ w.sees = 0 /\ w.fails = worker[s].fails + 1 /\ w.at = a
    BY <2>a, <2>b, <2>c DEF Worker, WorkerStates
  <2> HIDE DEF w
  <2>3. WorkerGoes(s, w)
    BY <2>0, <2>1, <2>2, <2>b
  <2>4. WorkerKeeps(s)
    BY <1>9 DEF RunRaises
  <2> QED BY <2>3, <2>4
<1>10. CASE BackoffEnds(s)
  <2> DEFINE w == AfterRunOf(worker[s], worker[s].fails)
  <2>0. worker[s].fails \in 0..MaxFailures
    BY DEF Worker
  <2>1. w \in Worker /\ w.sees = 0 /\ w.fails = worker[s].fails /\ w.at \in {"wait", "take"}
    BY <2>0, WorkerAfterRun
  <2>2. worker' = [worker EXCEPT ![s] = w]
    BY <1>10 DEF BackoffEnds, AfterRunOf
  <2> HIDE DEF w
  <2>3. WorkerGoes(s, w)
    <3>1. began' = began /\ worker[s].at \in {"running", "backoff"}
      BY <1>10 DEF BackoffEnds
    <3> QED BY <2>1, <2>2, <3>1
  <2>4. WorkerKeeps(s)
    BY <1>10 DEF BackoffEnds
  <2> QED BY <2>3, <2>4
<1>11. CASE WorkerFails(s)
  <2> DEFINE w == [worker[s] EXCEPT !.at = "stopping"]
  <2>1. w \in Worker /\ w.sees = worker[s].sees /\ w.fails = worker[s].fails
        /\ w.at = "stopping"
    BY DEF Worker, WorkerStates
  <2>2. worker' = [worker EXCEPT ![s] = w]
    BY <1>11 DEF WorkerFails
  <2> HIDE DEF w
  <2>3. WorkerGoes(s, w)
    BY <1>11, <2>1, <2>2 DEF WorkerFails
  <2>4. WorkerKeeps(s)
    BY <1>11 DEF WorkerFails
  <2> QED BY <2>3, <2>4
<1>12. CASE WorkerStopsSession(s)
  <2> DEFINE w == [worker[s] EXCEPT !.at = "done"]
  <2>1. w \in Worker /\ w.sees = worker[s].sees /\ w.fails = worker[s].fails
        /\ w.at = "done"
    BY DEF Worker, WorkerStates
  <2>2. worker' = [worker EXCEPT ![s] = w]
    BY <1>12 DEF WorkerStopsSession
  <2> HIDE DEF w
  <2>3. WorkerGoes(s, w)
    BY <1>12, <2>1, <2>2 DEF WorkerStopsSession
  <2>4. WorkerKeeps(s)
    BY <1>12 DEF WorkerStopsSession
  <2> QED BY <2>3, <2>4
<1>13. CASE WorkerStopped(s)
  <2> DEFINE w == [NewWorker EXCEPT !.at = "done"]
  <2>1. w \in Worker /\ w.sees = 0 /\ w.at = "done"
    BY NewWorkerType DEF Worker, WorkerStates
  <2>2. worker' = [worker EXCEPT ![s] = w]
    BY <1>13 DEF WorkerStopped
  <2> HIDE DEF w
  <2>3. WorkerGoes(s, w)
    <3>1. began' = began /\ worker[s].at # "off"
      BY <1>13 DEF WorkerStopped
    <3> QED BY <2>1, <2>2, <3>1
  <2>4. WorkerKeeps(s)
    BY <1>13 DEF WorkerStopped
  <2> QED BY <2>3, <2>4
<1> QED BY <1>1, <1>2, <1>3, <1>4, <1>5, <1>6, <1>7, <1>8, <1>9, <1>10, <1>11,
           <1>12, <1>13 DEF WorkerStep

\* The main thread goes to another state, m ...
MainGoes(m) ==
    /\ m \in MainThread
    /\ main' = m
    /\ m.at = "retry" => m.raised
    /\ m.raised => main.raised \/ failed[session] \/ faults' = faults + 1
    /\ m.at \in {"start", "first", "connect", "exited"} =>
          main.at \in {"start", "first", "connect", "exited"}
    /\ m.sees <= began'

\* ... and leaves the messages and the workers as they are.
MainKeeps ==
    /\ began <= began' /\ began' \in 0..mailbox
    /\ covered' \in 0..began'
    /\ faults <= faults' /\ faults' \in 0..MaxFaults
    /\ stop' \in [Sessions -> BOOLEAN]
    /\ trigger' \in [Sessions -> BOOLEAN]
    /\ UNCHANGED failed /\ UNCHANGED pending /\ UNCHANGED worker
    /\ UNCHANGED mailbox /\ UNCHANGED msg /\ UNCHANGED via
    /\ UNCHANGED session /\ UNCHANGED attempts

LEMMA MainMovesBase ==
    ASSUME Base, NEW m, MainGoes(m), MainKeeps
    PROVE  Base'
<1>a. session \in Nat /\ faults \in Nat /\ faults' \in Nat
      /\ began \in Nat /\ began' \in Nat
  BY SessionsType DEF Base, TypeOK, MainGoes, MainKeeps
<1>b. main' = m /\ session' = session /\ worker' = worker /\ failed' = failed
      /\ faults <= faults' /\ began <= began'
  BY DEF MainGoes, MainKeeps
<1>1. TypeOK'
  BY DEF Base, TypeOK, MainGoes, MainKeeps
<1>2. Fresh'
  <2>1. main'.at \in {"start", "first", "connect", "exited"} =>
          main.at \in {"start", "first", "connect", "exited"}
    BY DEF MainGoes, MainKeeps
  <2> QED BY <1>b, <2>1 DEF Base, Fresh, Unconnected
<1>3. Charged'
  <2>1. session - 1 <= faults /\ (Broken => session <= faults)
    BY DEF Base, Charged
  <2>2. session' - 1 <= faults'
    BY <1>a, <1>b, <2>1
  <2>3. Broken' => Broken \/ faults' = faults + 1
    BY DEF Broken, MainGoes, MainKeeps
  <2>4. Broken' => session' <= faults'
    BY <1>a, <1>b, <2>1, <2>3
  <2>5. main'.at = "retry" => main'.raised
    BY DEF MainGoes, MainKeeps
  <2> QED BY <2>2, <2>4, <2>5 DEF Charged
<1>4. Seen'
  <2>1. ASSUME NEW t \in Sessions PROVE worker'[t].sees <= began'
    <3>1. worker[t].sees \in Nat /\ worker[t].sees <= began
      BY DEF Base, TypeOK, Worker, Seen
    <3> QED BY <1>a, <1>b, <3>1
  <2>2. main'.sees <= began'
    BY DEF MainGoes, MainKeeps
  <2> QED BY <2>1, <2>2 DEF Seen
<1>5. Arrived'
  BY DEF Base, Arrived, MainGoes, MainKeeps
<1> QED BY <1>1, <1>2, <1>3, <1>4, <1>5 DEF Base

LEMMA ProcessEndsBase ==
    ASSUME Base, ProcessEnds, faults' \in 0..MaxFaults, faults' >= faults
    PROVE  Base'
<1> USE NewWorkerType, SessionsType DEF Base, ProcessEnds, InEvery, progress
<1>1. TypeOK'
  <2>1. main' \in MainThread
    BY DEF TypeOK, MainThread, MainStates
  <2>2. msg' \in [Mail -> MsgStates]
    BY DEF TypeOK, MsgStates
  <2>3. worker' \in [Sessions -> Worker]
        /\ \A s \in Sessions : worker'[s].fails # MaxFailures
    OBVIOUS
  <2>4. /\ stop' \in [Sessions -> BOOLEAN] /\ trigger' \in [Sessions -> BOOLEAN]
        /\ failed' \in [Sessions -> BOOLEAN]
        /\ pending' \in [Sessions -> Mail \union {None}]
    OBVIOUS
  <2>5. session' \in Sessions /\ attempts' \in Nat
    OBVIOUS
  <2> QED BY <2>1, <2>2, <2>3, <2>4, <2>5 DEF TypeOK
<1>2. Fresh'
  BY DEF Fresh, Unconnected
<1>3. Charged'
  <2>1. main'.at = "exited" /\ main'.raised = FALSE
    BY DEF TypeOK, MainThread
  <2>2. session' = 1 /\ worker'[1].at = "off" /\ failed'[1] = FALSE
    OBVIOUS
  <2>3. faults' \in Nat
    OBVIOUS
  <2> QED BY <2>1, <2>2, <2>3 DEF Charged, Broken
<1>4. Seen'
  <2>1. main'.sees = main.sees /\ began' = began /\ main.sees <= began
    BY DEF TypeOK, MainThread, Seen
  <2>2. \A s \in Sessions : worker'[s].sees = 0
    OBVIOUS
  <2> QED BY <2>1, <2>2 DEF Seen, TypeOK
<1>5. Arrived'
  BY DEF Arrived
<1> QED BY <1>1, <1>2, <1>3, <1>4, <1>5

\* The main thread.
LEMMA MainBase ==
    ASSUME Base, MainStep \/ ConnectFails \/ StreamEnds \/ Kill
    PROVE  Base'
<1>a. main \in MainThread /\ (main.at = "retry" => main.raised)
  BY DEF Base, TypeOK, Charged
<1>b. began \in Nat /\ mailbox \in Nat /\ began <= mailbox /\ covered \in Nat
      /\ covered <= began /\ faults \in Nat /\ faults <= MaxFaults
      /\ main.sees <= began
  BY DEF Base, TypeOK, Seen
<1>c. stop \in [Sessions -> BOOLEAN] /\ trigger \in [Sessions -> BOOLEAN]
  BY DEF Base, TypeOK
<1>d. ASSUME faults' = faults \/ Fault
      PROVE  faults' \in 0..MaxFaults /\ faults' >= faults
  BY <1>d, FaultType DEF Base
<1> USE <1>a, <1>b, <1>c DEF MainThread, MainStates, MainGoto, MainGoes, MainKeeps,
        running, pubsub, session_vars, progress
<1>1. CASE FirstRunBegins
  <2> DEFINE m == [main EXCEPT !.at = "first", !.sees = mailbox]
  <2>0. /\ m \in MainThread /\ m.at = "first" /\ m.sees = mailbox
        /\ m.raised = main.raised /\ main' = m
    BY <1>1 DEF FirstRunBegins
  <2> HIDE DEF m
  <2>1. MainGoes(m)
    BY <1>1, <2>0 DEF FirstRunBegins
  <2>2. MainKeeps
    BY <1>1, <1>d DEF FirstRunBegins
  <2> QED BY <2>1, <2>2, MainMovesBase
<1>2. CASE FirstRunEnds
  <2> DEFINE m == [main EXCEPT !.at = "connect", !.sees = 0]
  <2>0. /\ m \in MainThread /\ m.at = "connect" /\ m.sees = 0
        /\ m.raised = main.raised /\ main' = m
    BY <1>2 DEF FirstRunEnds
  <2> HIDE DEF m
  <2>1. MainGoes(m)
    BY <1>2, <2>0 DEF FirstRunEnds
  <2>2. MainKeeps
    BY <1>2, <1>d DEF FirstRunEnds, Larger
  <2> QED BY <2>1, <2>2, MainMovesBase
<1>3. CASE Connect \/ ConnectFails
  <2> USE DEF Base, StartWorker
  <2>0. StartWorker /\ main.at = "connect"
    BY <1>3 DEF Connect, ConnectFails
  <2>1. /\ session \in Sessions /\ worker[session] = NewWorker
        /\ main' \in MainThread /\ main'.sees = main.sees
        /\ \/ main'.at = "loop" /\ main'.raised = main.raised /\ faults' = faults
           \/ main'.at = "retry" /\ main'.raised /\ faults' = faults + 1
        /\ faults' \in 0..MaxFaults
    <3>1. session \in Sessions /\ worker[session] = NewWorker
      BY <2>0 DEF Fresh, Unconnected, TypeOK
    <3>2. CASE Connect
      BY <1>d, <3>1, <3>2 DEF Connect
    <3>3. CASE ConnectFails
      <4>1. main' = [main EXCEPT !.at = "retry", !.raised = TRUE] /\ Fault
        BY <3>3 DEF ConnectFails
      <4> QED BY <1>d, <3>1, <4>1 DEF Fault
    <3> QED BY <1>3, <3>2, <3>3
  <2>2. [NewWorker EXCEPT !.at = "wait"] \in Worker
        /\ [NewWorker EXCEPT !.at = "wait"].fails = 0
        /\ [NewWorker EXCEPT !.at = "wait"].sees = 0
        /\ [NewWorker EXCEPT !.at = "wait"].at = "wait"
    BY NewWorkerType DEF Worker, WorkerStates
  <2>3. worker' = [worker EXCEPT ![session] = [NewWorker EXCEPT !.at = "wait"]]
    BY <2>0, <2>1
  <2>4. \A t \in Sessions : worker'[t] =
          IF t = session THEN [NewWorker EXCEPT !.at = "wait"] ELSE worker[t]
    BY <2>3 DEF TypeOK
  <2>5. TypeOK'
    <3>1. worker' \in [Sessions -> Worker]
      BY <2>2, <2>3 DEF TypeOK
    <3>2. \A t \in Sessions : worker'[t].fails = MaxFailures =>
            worker'[t].at \in {"failing", "stopping", "done"}
      BY <2>2, <2>4 DEF TypeOK
    <3>3. main' \in MainThread
      BY <2>1
    <3> QED BY <2>0, <2>1, <3>1, <3>2, <3>3 DEF TypeOK
  <2>6. Fresh'
    <3>1. session \in Nat /\ session' = session /\ failed' = failed /\ main'.at \in {"loop", "retry"}
      BY <2>0, <2>1, SessionsType
    <3> QED BY <2>4, <3>1, SessionsType DEF Fresh, Unconnected
  <2>7. Charged'
    <3>1. session' = session /\ session \in Nat /\ faults \in Nat
          /\ failed' = failed /\ worker'[session].at = "wait"
      BY <2>0, <2>1, <2>2, <2>4, SessionsType
    <3>2. session - 1 <= faults /\ (main.raised \/ failed[session] => session <= faults)
      BY DEF Charged, Broken
    <3>3. CASE main'.at = "loop" /\ main'.raised = main.raised /\ faults' = faults
      BY <3>1, <3>2, <3>3 DEF Charged, Broken
    <3>4. CASE main'.at = "retry" /\ main'.raised /\ faults' = faults + 1
      BY <3>1, <3>2, <3>4 DEF Charged, Broken
    <3> QED BY <2>1, <3>3, <3>4
  <2>8. Seen'
    <3>1. main'.sees = main.sees /\ began' = began
      BY <2>0, <2>1
    <3>2. ASSUME NEW t \in Sessions PROVE worker'[t].sees <= began'
      <4>1. worker[t].sees <= began
        BY DEF Seen
      <4>2. CASE t = session
        <5>1. worker'[t] = [NewWorker EXCEPT !.at = "wait"]
          BY <2>4, <4>2
        <5> QED BY <2>2, <3>1, <5>1
      <4>3. CASE t # session
        BY <2>4, <3>1, <4>1, <4>3
      <4> QED BY <4>2, <4>3
    <3> QED BY <3>1, <3>2 DEF Seen
  <2>9. Arrived'
    BY <2>0 DEF Arrived
  <2> QED BY <2>5, <2>6, <2>7, <2>8, <2>9
<1>4. CASE LoopChecksStop
  <2>1. MainGoes(main')
    BY <1>4 DEF LoopChecksStop
  <2>2. MainKeeps
    BY <1>4, <1>d DEF LoopChecksStop
  <2> QED BY <2>1, <2>2, MainMovesBase
<1>5. CASE LoopChecksWorker
  <2>1. MainGoes(main')
    BY <1>5 DEF LoopChecksWorker
  <2>2. MainKeeps
    BY <1>5, <1>d DEF LoopChecksWorker
  <2> QED BY <2>1, <2>2, MainMovesBase
<1>6. CASE ResultTimesOut
  <2>1. MainGoes(main')
    BY <1>6 DEF ResultTimesOut
  <2>2. MainKeeps
    BY <1>6, <1>d DEF ResultTimesOut
  <2> QED BY <2>1, <2>2, MainMovesBase
<1>7. CASE StreamEnds
  <2>1. MainGoes(main')
    <3>1. PICK raised \in BOOLEAN : main' = [main EXCEPT !.at = "closing", !.raised = raised]
      BY <1>7 DEF StreamEnds
    <3>2. main' \in MainThread /\ main'.at = "closing" /\ main'.sees = main.sees
      BY <3>1
    <3>3. faults' = faults + 1 /\ began' = began
      BY <1>7 DEF StreamEnds, Fault
    <3> QED BY <3>2, <3>3
  <2>2. MainKeeps
    <3>1. faults' \in 0..MaxFaults /\ faults' >= faults
      BY <1>d, <1>7 DEF StreamEnds
    <3>2. UNCHANGED <<running, progress>>
      BY <1>7 DEF StreamEnds
    <3> QED BY <3>1, <3>2
  <2> QED BY <2>1, <2>2, MainMovesBase
<1>8. CASE Close
  <2>1. MainGoes(main')
    BY <1>8 DEF Close
  <2>2. MainKeeps
    <3>1. stop' \in [Sessions -> BOOLEAN] /\ trigger' \in [Sessions -> BOOLEAN]
      BY <1>8 DEF Close
    <3> QED BY <1>8, <3>1 DEF Close
  <2> QED BY <2>1, <2>2, MainMovesBase
<1>9. CASE JoinAndReconnect
  <2>1. MainGoes(main')
    BY <1>9 DEF JoinAndReconnect
  <2>2. MainKeeps
    BY <1>9, <1>d DEF JoinAndReconnect
  <2> QED BY <2>1, <2>2, MainMovesBase
<1>10. CASE JoinAndReturn
  BY <1>d, <1>10, ProcessEndsBase DEF JoinAndReturn
<1>11. CASE Reconnect
  <2> USE DEF Base, Reconnect
  <2>1. main.raised /\ main' = [main EXCEPT !.at = "connect", !.raised = FALSE]
    BY <1>11
  <2>2. session \in Nat /\ session >= 1 /\ session <= faults /\ session' = session + 1
    BY <1>11, <2>1 DEF Charged, Broken, TypeOK, Sessions
  <2>3. session' \in Sessions
    BY <2>2, SessionsType
  <2>4. TypeOK'
    <3>1. main' \in MainThread
      BY <2>1
    <3>2. attempts' \in Nat
      BY <1>11 DEF TypeOK
    <3> QED BY <1>11, <2>3, <3>1, <3>2 DEF TypeOK
  <2>5. \A t \in Sessions : t > session => worker[t] = NewWorker /\ ~failed[t]
    BY DEF Fresh, Unconnected
  <2>6. \A t \in Sessions : t > session' \/ t = session' => t > session
    BY <2>2, SessionsType
  <2>7. Fresh'
    BY <1>11, <2>5, <2>6 DEF Fresh, Unconnected
  <2>8. Charged'
    <3>1. worker'[session'] = NewWorker /\ ~failed'[session']
      BY <1>11, <2>3, <2>5, <2>6
    <3>2. main'.raised = FALSE /\ main'.at = "connect" /\ faults' = faults
      BY <1>11, <2>1
    <3>3. ~Broken'
      BY <3>1, <3>2, NewWorkerType DEF Broken
    <3> QED BY <2>2, <3>2, <3>3 DEF Charged
  <2>9. Seen' /\ Arrived'
    BY <1>11, <2>1 DEF Seen, Arrived
  <2> QED BY <2>4, <2>7, <2>8, <2>9
<1>12. CASE GiveUp
  BY <1>d, <1>12, ProcessEndsBase DEF GiveUp
<1>13. CASE Kill
  BY <1>d, <1>13, ProcessEndsBase DEF Kill
<1>14. CASE Restart
  <2>1. MainGoes(main')
    BY <1>14 DEF Restart
  <2>2. MainKeeps
    BY <1>14, <1>d DEF Restart
  <2> QED BY <2>1, <2>2, MainMovesBase
<1> QED BY <1>1, <1>2, <1>3, <1>4, <1>5, <1>6, <1>7, <1>8, <1>9, <1>10, <1>11,
           <1>12, <1>13, <1>14 DEF MainStep

LEMMA NextBase == Base /\ [Next]_vars => Base'
<1> SUFFICES ASSUME Base, [Next]_vars PROVE Base'
  OBVIOUS
<1>1. CASE Next
  BY <1>1, MessageBase, WorkerBase, MainBase DEF Next
<1>2. CASE UNCHANGED vars
  BY <1>2 DEF vars, session_vars, Base, TypeOK, Fresh, Unconnected, Charged, Broken, Seen, Arrived
<1> QED BY <1>1, <1>2

\* Every variable of the streaming runtime keeps its type, whatever threads
\* and sessions do.
THEOREM Typed == Spec => []TypeOK
<1>1. Base => TypeOK
  BY DEF Base
<1> QED BY <1>1, InitBase, NextBase, PTL DEF Spec

-----------------------------------------------------------------------------

\* NoLostWakeup for one session.
Wakeup(s) ==
    pending[s] # None /\ ~stop[s] =>
        \/ trigger[s]
        \/ WillDequeue(s)
        \/ worker[s].at \in {"failing", "stopping"}
        \/ \E m \in Mail : msg[m] = "queued" /\ via[m] = s

\* A step that leaves the worker and the pending event of a session, forgets
\* neither its trigger nor that it stops, and finishes no callback of it.
LEMMA WakeupFrame ==
    ASSUME NEW s \in Sessions, Wakeup(s),
           worker'[s] = worker[s], pending'[s] = pending[s],
           stop[s] => stop'[s], trigger[s] => trigger'[s],
           \A m \in Mail : msg[m] = "queued" /\ via[m] = s =>
               msg'[m] = "queued" /\ via'[m] = s
    PROVE  Wakeup(s)'
BY DEF Wakeup, WillDequeue, At

LEMMA MessageWakeup ==
    ASSUME Base, NEW s \in Sessions, Wakeup(s),
           Arrive \/ \E m \in Mail : Redeliver(m) \/ Deliver(m) \/ Callback(m) \/ ParseFails(m)
    PROVE  Wakeup(s)'
<1>a. msg \in [Mail -> MsgStates] /\ via \in [Mail -> Sessions] /\ mailbox \in Nat
      /\ pending \in [Sessions -> Mail \union {None}]
      /\ trigger \in [Sessions -> BOOLEAN]
  BY DEF Base, TypeOK
<1> USE <1>a DEF session_vars, control, progress, calling, Advance
<1>1. CASE Arrive
  <2>1. mailbox + 1 \in Mail => msg[mailbox + 1] = "none"
    BY DEF Base, Arrived
  <2>2. \A m \in Mail : msg[m] = "queued" => msg'[m] = "queued"
    BY <1>1, <2>1 DEF Arrive
  <2> QED BY <1>1, <2>2, WakeupFrame DEF Arrive
<1>2. ASSUME NEW m \in Mail, Redeliver(m) \/ Deliver(m) \/ ParseFails(m)
      PROVE  Wakeup(s)'
  <2>1. msg[m] # "queued" /\ \A k \in Mail : k # m => msg'[k] = msg[k] /\ via'[k] = via[k]
    BY <1>2 DEF Redeliver, Deliver, ParseFails
  <2>2. worker' = worker /\ pending' = pending /\ stop' = stop /\ trigger' = trigger
    BY <1>2 DEF Redeliver, Deliver, ParseFails
  <2> QED BY <2>1, <2>2, WakeupFrame
<1>3. ASSUME NEW m \in Mail, CallbackStopped(m) \/ CallbackParses(m) \/ Ack(m)
      PROVE  Wakeup(s)'
  <2>1. msg[m] # "queued" /\ via' = via /\ \A k \in Mail : k # m => msg'[k] = msg[k]
    BY <1>3 DEF CallbackStopped, CallbackParses, Ack
  <2>2. worker' = worker /\ pending' = pending /\ stop' = stop /\ trigger' = trigger
    BY <1>3 DEF CallbackStopped, CallbackParses, Ack
  <2> QED BY <2>1, <2>2, WakeupFrame
<1>4. ASSUME NEW m \in Mail, Queue(m) PROVE Wakeup(s)'
  <2>1. msg'[m] = "queued" /\ via' = via /\ \A k \in Mail : k # m => msg'[k] = msg[k]
    BY <1>4 DEF Queue
  <2>2. CASE via[m] = s
    BY <2>1, <2>2 DEF Wakeup
  <2>3. CASE via[m] # s
    <3>1. worker' = worker /\ stop' = stop /\ trigger' = trigger /\ pending'[s] = pending[s]
      BY <1>4, <2>3 DEF Queue
    <3> QED BY <2>1, <3>1, WakeupFrame
  <2> QED BY <2>2, <2>3
<1>5. ASSUME NEW m \in Mail, SetTrigger(m) PROVE Wakeup(s)'
  <2>1. via' = via /\ \A k \in Mail : k # m => msg'[k] = msg[k]
    BY <1>5 DEF SetTrigger
  <2>2. CASE via[m] = s
    <3>1. trigger'[s] = TRUE
      BY <1>5, <2>2 DEF SetTrigger
    <3> QED BY <3>1 DEF Wakeup
  <2>3. CASE via[m] # s
    <3>1. worker' = worker /\ stop' = stop /\ trigger'[s] = trigger[s] /\ pending' = pending
      BY <1>5, <2>3 DEF SetTrigger
    <3> QED BY <2>1, <2>3, <3>1, WakeupFrame
  <2> QED BY <2>2, <2>3
<1> QED BY <1>1, <1>2, <1>3, <1>4, <1>5 DEF Callback

LEMMA WorkerWakeup ==
    ASSUME Base, NEW s \in Sessions, Wakeup(s), NEW t \in Sessions,
           WorkerStep(t) \/ RunFailsQuietly(t) \/ RunRaises(t)
    PROVE  Wakeup(s)'
<1>a. worker \in [Sessions -> Worker] /\ pending \in [Sessions -> Mail \union {None}]
      /\ trigger \in [Sessions -> BOOLEAN] /\ stop \in [Sessions -> BOOLEAN]
  BY DEF Base, TypeOK
<1>b. msg' = msg /\ via' = via
  BY DEF WorkerStep, Wake, IdleTrigger, TakeNothing, SkipDuplicate, Take, Dequeue,
         BeginRun, RunSucceeds, RunFailsQuietly, RunRaises, BackoffEnds, WorkerFails,
         WorkerStopsSession, WorkerStopped, working, pubsub
<1> USE <1>a, <1>b DEF At, Goto, Dequeue, AfterRun, working, pubsub, control, Worker
<1>1. CASE t # s
  <2>1. worker'[s] = worker[s] /\ pending'[s] = pending[s]
        /\ stop'[s] = stop[s] /\ trigger'[s] = trigger[s]
    BY <1>1 DEF WorkerStep, Wake, IdleTrigger, TakeNothing, SkipDuplicate, Take,
         BeginRun, RunSucceeds, RunFailsQuietly, RunRaises, BackoffEnds, WorkerFails,
         WorkerStopsSession, WorkerStopped
  <2> QED BY <2>1, WakeupFrame
<1>2. CASE t = s
  <2> USE <1>2 DEF Wakeup, WillDequeue
  <2>1. CASE Wake(s)
    BY <2>1 DEF Wake
  <2>2. CASE IdleTrigger(s)
    BY <2>2 DEF IdleTrigger
  <2>3. CASE TakeNothing(s) \/ SkipDuplicate(s) \/ Take(s)
    <3>1. pending'[s] = None
      BY <2>3 DEF TakeNothing, SkipDuplicate, Take
    <3> QED BY <3>1
  <2>4. CASE BeginRun(s)
    BY <2>4 DEF BeginRun
  <2>5. CASE RunSucceeds(s) \/ RunFailsQuietly(s) \/ BackoffEnds(s)
    <3>1. worker'[s].at = IF worker[s].idle THEN "wait" ELSE "take"
      BY <2>5 DEF RunSucceeds, RunFailsQuietly, BackoffEnds
    <3>2. worker[s].at \in {"running", "backoff"} /\ pending' = pending
          /\ stop' = stop /\ trigger' = trigger
      BY <2>5 DEF RunSucceeds, RunFailsQuietly, BackoffEnds
    <3> QED BY <3>1, <3>2
  <2>6. CASE RunRaises(s)
    <3>1. worker'[s].at \in {"failing", "backoff"} /\ worker'[s].idle = worker[s].idle
      BY <2>6 DEF RunRaises
    <3>2. worker[s].at = "running" /\ pending' = pending /\ stop' = stop
          /\ trigger' = trigger
      BY <2>6 DEF RunRaises
    <3> QED BY <3>1, <3>2
  <2>7. CASE WorkerFails(s)
    BY <2>7 DEF WorkerFails
  <2>8. CASE WorkerStopsSession(s) \/ WorkerStopped(s)
    <3>1. stop'[s]
      BY <2>8 DEF WorkerStopsSession, WorkerStopped
    <3> QED BY <3>1
  <2> QED BY <2>1, <2>2, <2>3, <2>4, <2>5, <2>6, <2>7, <2>8 DEF WorkerStep
<1> QED BY <1>1, <1>2

LEMMA MainWakeup ==
    ASSUME Base, NEW s \in Sessions, Wakeup(s), MainStep \/ ConnectFails \/ StreamEnds \/ Kill
    PROVE  Wakeup(s)'
<1>1. CASE ProcessEnds
  <2>1. pending'[s] = None
    BY <1>1 DEF ProcessEnds, InEvery
  <2> QED BY <2>1 DEF Wakeup
<1>2. CASE Connect \/ ConnectFails
  <2>0. StartWorker /\ main.at = "connect"
    BY <1>2 DEF Connect, ConnectFails, MainGoto
  <2>1. msg' = msg /\ via' = via /\ pending' = pending /\ stop' = stop /\ trigger' = trigger
    BY <2>0 DEF StartWorker, pubsub
  <2>2. CASE s = session
    <3>1. worker[s].at = "off"
      BY <2>0, <2>2, NewWorkerType DEF Base, Fresh, Unconnected
    <3> QED BY <2>1, <3>1 DEF Wakeup, WillDequeue, At
  <2>3. CASE s # session
    <3>1. worker'[s] = worker[s]
      BY <2>0, <2>3 DEF StartWorker, Base, TypeOK
    <3> QED BY <2>1, <3>1, WakeupFrame
  <2> QED BY <2>2, <2>3
<1>3. CASE Close
  <2>1. worker' = worker /\ pending' = pending /\ msg' = msg /\ via' = via
    BY <1>3 DEF Close, pubsub
  <2>2. (stop[s] => stop'[s]) /\ (trigger[s] => trigger'[s])
    BY <1>3 DEF Close, Base, TypeOK
  <2> QED BY <2>1, <2>2, WakeupFrame
<1>4. ASSUME UNCHANGED <<session_vars, pubsub>> PROVE Wakeup(s)'
  <2>1. worker' = worker /\ pending' = pending /\ msg' = msg /\ via' = via
        /\ stop' = stop /\ trigger' = trigger
    BY <1>4 DEF session_vars, pubsub
  <2> QED BY <2>1, WakeupFrame
<1>5. CASE FirstRunBegins \/ FirstRunEnds \/ LoopChecksStop \/ LoopChecksWorker
           \/ ResultTimesOut \/ JoinAndReconnect \/ Reconnect \/ Restart \/ StreamEnds
  BY <1>4, <1>5 DEF FirstRunBegins, FirstRunEnds, LoopChecksStop, LoopChecksWorker,
     ResultTimesOut, JoinAndReconnect, Reconnect, Restart, StreamEnds, running
<1> QED BY <1>1, <1>2, <1>3, <1>5 DEF MainStep, JoinAndReturn, GiveUp, Kill

LEMMA NextWakeup ==
    ASSUME Base, NoLostWakeup, [Next]_vars
    PROVE  NoLostWakeup'
<1> SUFFICES ASSUME NEW s \in Sessions PROVE Wakeup(s)'
  BY DEF NoLostWakeup, Wakeup
<1>1. Wakeup(s)
  BY DEF NoLostWakeup, Wakeup
<1>2. CASE Next
  BY <1>1, <1>2, MessageWakeup, WorkerWakeup, MainWakeup DEF Next
<1>3. CASE UNCHANGED vars
  BY <1>1, <1>3, WakeupFrame DEF vars, session_vars
<1> QED BY <1>2, <1>3

\* No wakeup of a worker is lost between the callbacks, the trigger event and
\* the pending event, however they interleave.
THEOREM NeverLosesWakeup == Spec => []NoLostWakeup
<1>1. Init => NoLostWakeup
  BY DEF Init, InEvery, NoLostWakeup
<1>2. Base /\ NoLostWakeup /\ [Next]_vars => NoLostWakeup'
  BY NextWakeup
<1> QED BY <1>1, <1>2, InitBase, NextBase, PTL DEF Spec

-----------------------------------------------------------------------------

\* Sessions hear of mail that has arrived; the last history a worker triggered
\* for has been seen by a run, or the run is about to begin.
LastBegan ==
    \A s \in Sessions :
        /\ pending[s] <= mailbox
        /\ worker[s].last <= mailbox
        /\ worker[s].last <= began \/ worker[s].at = "run"

\* What makes AcceptedTriggersRun inductive: it holds from the moment a
\* notification is queued, and what is pending is as new as the notification.
Heard(m) ==
    msg[m] \in {"queued", "set", "accepted"} /\ ~stop[via[m]] =>
        \/ m <= began
        \/ pending[via[m]] >= m
        \/ worker[via[m]].at \in {"run", "failing", "stopping"}
        \/ main.at \in {"start", "exited"}

AllHeard == LastBegan /\ \A m \in Mail : Heard(m)

\* A step that leaves the notification, its session's pending event and the
\* label of its worker.
LEMMA HeardFrame ==
    ASSUME Base, Base', NEW m \in Mail, Heard(m),
           msg'[m] \in {"queued", "set", "accepted"} =>
               msg[m] \in {"queued", "set", "accepted"} /\ via'[m] = via[m],
           pending'[via[m]] = pending[via[m]],
           worker'[via[m]].at = worker[via[m]].at
               \/ worker[via[m]].at \notin {"run", "failing", "stopping"},
           stop[via[m]] => stop'[via[m]], began <= began',
           main'.at = main.at \/ main.at \notin {"start", "exited"}
    PROVE  Heard(m)'
<1>1. began \in Nat /\ began' \in Nat /\ m \in Nat
  BY DEF Base, TypeOK
<1> QED BY <1>1 DEF Heard

LEMMA MessageHeard ==
    ASSUME Base, Base', AllHeard, NoHistory = {},
           Arrive \/ \E m \in Mail : Redeliver(m) \/ Deliver(m) \/ Callback(m) \/ ParseFails(m)
    PROVE  AllHeard'
<1>a. /\ msg \in [Mail -> MsgStates] /\ via \in [Mail -> Sessions]
      /\ mailbox \in Nat /\ began \in Nat
      /\ pending \in [Sessions -> Mail \union {None}]
  BY DEF Base, TypeOK
<1>b. worker' = worker /\ began' = began /\ main' = main /\ stop' = stop
  BY DEF Arrive, Redeliver, Deliver, Callback, ParseFails, CallbackStopped,
         CallbackParses, Queue, SetTrigger, Ack, calling, control, progress, session_vars
<1>e. mailbox' \in Nat /\ mailbox <= mailbox'
  BY <1>a DEF Arrive, Redeliver, Deliver, Callback, ParseFails, CallbackStopped,
         CallbackParses, Queue, SetTrigger, Ack, calling
<1>f. \A s \in Sessions : pending'[s] = pending[s] \/ pending'[s] <= mailbox'
  <2>1. CASE \E m \in Mail : Queue(m)
    <3>1. PICK m \in Mail : Queue(m)
      BY <2>1
    <3>2. m <= mailbox /\ mailbox' = mailbox
      BY <3>1 DEF Queue, Advance, Base, Arrived, calling
    <3>3. Collapse(pending[via[m]], m) \in {pending[via[m]], m}
      BY DEF Collapse
    <3>4. pending' = [pending EXCEPT ![via[m]] = Collapse(pending[via[m]], m)]
      BY <3>1 DEF Queue
    <3> QED BY <1>a, <3>2, <3>3, <3>4
  <2>2. CASE ~ \E m \in Mail : Queue(m)
    <3>1. pending' = pending
      BY <2>2 DEF Arrive, Redeliver, Deliver, Callback, ParseFails, CallbackStopped,
         CallbackParses, SetTrigger, Ack, session_vars
    <3> QED BY <3>1
  <2> QED BY <2>1, <2>2
<1>c. LastBegan'
  <2> SUFFICES ASSUME NEW s \in Sessions
               PROVE  /\ pending'[s] <= mailbox'
                      /\ worker[s].last <= mailbox'
                      /\ worker[s].last <= began \/ worker[s].at = "run"
    BY <1>b DEF LastBegan
  <2>1. /\ pending[s] <= mailbox
        /\ worker[s].last <= mailbox
        /\ worker[s].last <= began \/ worker[s].at = "run"
    BY DEF AllHeard, LastBegan
  <2>2. pending[s] \in Nat /\ worker[s].last \in Nat
    <3>1. worker[s] \in Worker
      BY DEF Base, TypeOK
    <3> QED BY <1>a, <3>1 DEF Worker
  <2> QED BY <1>a, <1>e, <1>f, <2>1, <2>2
<1> SUFFICES ASSUME NEW k \in Mail PROVE Heard(k)'
  BY <1>c DEF AllHeard
<1>d. Heard(k)
  BY DEF AllHeard
<1> USE <1>a DEF session_vars, control, progress, calling, Advance
<1>1. CASE Arrive
  <2>1. pending' = pending /\ via' = via
        /\ (msg'[k] = msg[k] \/ msg'[k] = "published")
    BY <1>1 DEF Arrive
  <2> QED BY <1>b, <1>d, <2>1, HeardFrame
<1>2. ASSUME NEW m \in Mail,
             Redeliver(m) \/ Deliver(m) \/ ParseFails(m) \/ CallbackStopped(m)
               \/ CallbackParses(m)
      PROVE  Heard(k)'
  <2>1. pending' = pending
    BY <1>2 DEF Redeliver, Deliver, ParseFails, CallbackStopped, CallbackParses
  <2>2. msg'[k] \in {"queued", "set", "accepted"} => msg[k] = msg'[k] /\ via'[k] = via[k]
    BY <1>2 DEF Redeliver, Deliver, ParseFails, CallbackStopped, CallbackParses
  <2> QED BY <1>b, <1>d, <2>1, <2>2, HeardFrame
<1>3. ASSUME NEW m \in Mail, SetTrigger(m) \/ Ack(m) PROVE Heard(k)'
  <2>1. pending' = pending /\ via' = via
    BY <1>3 DEF SetTrigger, Ack
  <2>2. msg'[k] \in {"queued", "set", "accepted"} =>
          msg[k] \in {"queued", "set", "accepted"}
    BY <1>3 DEF SetTrigger, Ack
  <2> QED BY <1>b, <1>d, <2>1, <2>2, HeardFrame
<1>4. ASSUME NEW m \in Mail, Queue(m) PROVE Heard(k)'
  <2> DEFINE v == via[m]
  <2>1. via' = via /\ v \in Sessions /\ (k # m => msg'[k] = msg[k])
    BY <1>4 DEF Queue
  <2>2. pending'[v] = Collapse(pending[v], m)
        /\ \A t \in Sessions : t # v => pending'[t] = pending[t]
    BY <1>4 DEF Queue
  <2>3. pending[v] \in Nat /\ m \in Nat /\ k \in Nat
    OBVIOUS
  <2>4. Collapse(pending[v], m) >= m /\ Collapse(pending[v], m) >= pending[v]
        /\ Collapse(pending[v], m) \in Nat
    BY <2>3 DEF Collapse, History
  <2>5. CASE via[k] # v
    <3>1. k # m /\ pending'[via[k]] = pending[via[k]]
      BY <2>2, <2>5
    <3> QED BY <1>b, <1>d, <2>1, <3>1, HeardFrame
  <2>6. CASE via[k] = v /\ k # m
    <3>1. pending'[via'[k]] >= pending[via[k]] /\ pending'[via'[k]] \in Nat
          /\ pending[via[k]] \in Nat
      BY <2>1, <2>2, <2>3, <2>4, <2>6
    <3>2. pending[via[k]] >= k => pending'[via'[k]] >= k
      BY <2>3, <3>1
    <3> QED BY <1>b, <1>d, <2>1, <2>6, <3>2 DEF Heard
  <2>7. CASE k = m
    <3>1. pending'[via'[k]] >= k
      BY <2>1, <2>2, <2>4, <2>7
    <3> QED BY <3>1 DEF Heard
  <2> QED BY <2>5, <2>6, <2>7
<1> QED BY <1>1, <1>2, <1>3, <1>4 DEF Callback

LEMMA WorkerHeard ==
    ASSUME Base, Base', AllHeard, NoHistory = {}, NEW s \in Sessions,
           WorkerStep(s) \/ RunFailsQuietly(s) \/ RunRaises(s)
    PROVE  AllHeard'
<1>a. /\ worker \in [Sessions -> Worker] /\ via \in [Mail -> Sessions]
      /\ pending \in [Sessions -> Mail \union {None}]
      /\ stop \in [Sessions -> BOOLEAN]
      /\ began \in Nat /\ began' \in Nat /\ mailbox \in Nat /\ began <= mailbox
  BY DEF Base, TypeOK
<1>b. msg' = msg /\ via' = via /\ main' = main /\ mailbox' = mailbox
  BY DEF WorkerStep, Wake, IdleTrigger, TakeNothing, SkipDuplicate, Take, Dequeue,
         BeginRun, RunSucceeds, RunFailsQuietly, RunRaises, BackoffEnds, WorkerFails,
         WorkerStopsSession, WorkerStopped, working, pubsub, control
<1>c. \A t \in Sessions : t # s => worker'[t] = worker[t] /\ pending'[t] = pending[t]
        /\ stop'[t] = stop[t]
  BY <1>a DEF WorkerStep, Wake, IdleTrigger, TakeNothing, SkipDuplicate, Take, Dequeue,
         BeginRun, RunSucceeds, RunFailsQuietly, RunRaises, BackoffEnds, WorkerFails,
         WorkerStopsSession, WorkerStopped, working, Goto, AfterRun
<1>d. began' = began \/ (began' = mailbox /\ BeginRun(s))
  BY DEF WorkerStep, Wake, IdleTrigger, TakeNothing, SkipDuplicate, Take, Dequeue,
         BeginRun, RunSucceeds, RunFailsQuietly, RunRaises, BackoffEnds, WorkerFails,
         WorkerStopsSession, WorkerStopped, progress
<1>e. began <= began'
  BY <1>a, <1>d
<1>f. \A t \in Sessions : worker[t].last \in Nat
  BY <1>a DEF Worker
<1>g. /\ worker[s].last <= began \/ worker[s].at = "run"
      /\ worker[s].last <= mailbox
      /\ pending[s] <= mailbox
  BY DEF AllHeard, LastBegan
<1>h. ASSUME NEW k \in Mail, via[k] # s PROVE Heard(k)'
  <2>1. Heard(k) /\ via[k] \in Sessions
    BY <1>a DEF AllHeard
  <2> QED BY <1>b, <1>c, <1>e, <1>h, <2>1, HeardFrame
<1>i. ASSUME worker'[s].last <= began' \/ worker'[s].at = "run",
             worker'[s].last <= mailbox, pending'[s] <= mailbox
      PROVE  LastBegan'
  <2> SUFFICES ASSUME NEW t \in Sessions, t # s
               PROVE  /\ pending'[t] <= mailbox'
                      /\ worker'[t].last <= mailbox'
                      /\ worker'[t].last <= began' \/ worker'[t].at = "run"
    BY <1>b, <1>i DEF LastBegan
  <2>1. /\ pending[t] <= mailbox
        /\ worker[t].last <= mailbox
        /\ worker[t].last <= began \/ worker[t].at = "run"
    BY DEF AllHeard, LastBegan
  <2> QED BY <1>a, <1>b, <1>c, <1>e, <1>f, <2>1
<1>j. ASSUME worker'[s].last = worker[s].last, worker[s].at # "run",
             pending'[s] = pending[s], stop[s] => stop'[s],
             worker[s].at \in {"failing", "stopping"} =>
                 worker'[s].at \in {"failing", "stopping"} \/ stop'[s]
      PROVE  AllHeard'
  <2>1. LastBegan'
    BY <1>a, <1>e, <1>f, <1>g, <1>i, <1>j
  <2>2. ASSUME NEW k \in Mail, via[k] = s PROVE Heard(k)'
    <3>1. Heard(k) /\ k \in Nat
      BY DEF AllHeard
    <3> QED BY <1>a, <1>b, <1>e, <1>j, <2>2, <3>1 DEF Heard
  <2> QED BY <1>h, <2>1, <2>2 DEF AllHeard
<1> USE <1>a DEF At, Goto, Dequeue, AfterRun, working, Worker
<1>1. CASE Wake(s)
  BY <1>1, <1>j DEF Wake
<1>2. CASE IdleTrigger(s)
  BY <1>2, <1>j DEF IdleTrigger
<1>3. CASE TakeNothing(s) \/ SkipDuplicate(s)
  <2>1. worker[s].at = "take" /\ stop' = stop /\ pending[s] \in Nat
        /\ worker'[s].last = worker[s].last
        /\ worker[s].last <= began
    BY <1>3, <1>g DEF TakeNothing, SkipDuplicate, Dequeue
  <2>2. pending[s] <= began
    BY <1>3, <1>f, <2>1 DEF TakeNothing, SkipDuplicate, Duplicate, History
  <2>5. pending'[s] = None
    BY <1>3 DEF TakeNothing, SkipDuplicate
  <2>3. LastBegan'
    BY <1>a, <1>e, <1>f, <1>g, <1>i, <2>1, <2>5
  <2>4. ASSUME NEW k \in Mail, via[k] = s PROVE Heard(k)'
    <3>1. Heard(k) /\ k \in Nat
      BY DEF AllHeard
    <3>2. msg[k] \in {"queued", "set", "accepted"} /\ ~stop[s] =>
            k <= began \/ main.at \in {"start", "exited"}
      BY <2>1, <2>2, <2>4, <3>1 DEF Heard
    <3> QED BY <1>b, <1>e, <2>1, <2>4, <3>1, <3>2 DEF Heard
  <2> QED BY <1>h, <2>3, <2>4 DEF AllHeard
<1>4. CASE Take(s)
  <2>1. worker'[s].at = "run"
    BY <1>4 DEF Take
  <2>4. worker'[s].last = worker[s].last \/ worker'[s].last = pending[s]
    BY <1>4 DEF Take, History
  <2>5. pending'[s] = None
    BY <1>4 DEF Take
  <2>2. LastBegan'
    BY <1>a, <1>g, <1>i, <2>1, <2>4, <2>5
  <2>3. ASSUME NEW k \in Mail, via[k] = s PROVE Heard(k)'
    BY <1>b, <2>1, <2>3 DEF Heard
  <2> QED BY <1>h, <2>2, <2>3 DEF AllHeard
<1>5. CASE BeginRun(s)
  <2>1. began' = mailbox
    BY <1>5 DEF BeginRun
  <2>2. worker'[s].last = worker[s].last /\ pending' = pending
    BY <1>5 DEF BeginRun
  <2>3. LastBegan'
    BY <1>g, <1>i, <2>1, <2>2
  <2>4. ASSUME NEW k \in Mail PROVE Heard(k)'
    <3>1. msg[k] # "none" => k <= mailbox
      BY DEF Base, Arrived
    <3> QED BY <1>b, <2>1, <3>1 DEF Heard
  <2> QED BY <2>3, <2>4 DEF AllHeard
<1>6. CASE RunSucceeds(s) \/ RunFailsQuietly(s) \/ BackoffEnds(s)
  <2>1. worker[s].at \in {"running", "backoff"} /\ worker'[s].last = worker[s].last
        /\ pending' = pending /\ stop' = stop
    BY <1>6 DEF RunSucceeds, RunFailsQuietly, BackoffEnds
  <2> QED BY <1>j, <2>1
<1>7. CASE RunRaises(s)
  <2>1. worker[s].at = "running" /\ worker'[s].last = worker[s].last
        /\ pending' = pending /\ stop' = stop
    BY <1>7 DEF RunRaises
  <2> QED BY <1>j, <2>1
<1>8. CASE WorkerFails(s)
  <2>1. worker[s].at = "failing" /\ worker'[s].at = "stopping"
        /\ worker'[s].last = worker[s].last /\ pending' = pending /\ stop' = stop
    BY <1>8 DEF WorkerFails
  <2> QED BY <1>j, <2>1
<1>9. CASE WorkerStopsSession(s)
  <2>1. worker[s].at = "stopping" /\ worker'[s].last = worker[s].last
        /\ pending' = pending /\ stop'[s]
    BY <1>9 DEF WorkerStopsSession
  <2> QED BY <1>j, <2>1
<1>10. CASE WorkerStopped(s)
  <2>1. stop[s] /\ stop' = stop /\ pending' = pending
    BY <1>10 DEF WorkerStopped
  <2>2. worker'[s] = [NewWorker EXCEPT !.at = "done"]
    BY <1>10 DEF WorkerStopped
  <2>3. worker'[s].last = 0
    BY <2>2, NewWorkerType
  <2>4. LastBegan'
    BY <1>g, <1>i, <2>1, <2>3
  <2>5. ASSUME NEW k \in Mail, via[k] = s PROVE Heard(k)'
    BY <1>b, <2>1, <2>5 DEF Heard
  <2> QED BY <1>h, <2>4, <2>5 DEF AllHeard
<1> QED BY <1>1, <1>2, <1>3, <1>4, <1>5, <1>6, <1>7, <1>8, <1>9, <1>10 DEF WorkerStep

LEMMA MainHeard ==
    ASSUME Base, Base', AllHeard, MainStep \/ ConnectFails \/ StreamEnds \/ Kill
    PROVE  AllHeard'
<1>a. /\ began \in Nat /\ mailbox \in Nat /\ began <= mailbox
      /\ via \in [Mail -> Sessions] /\ stop \in [Sessions -> BOOLEAN]
      /\ pending \in [Sessions -> Mail \union {None}]
      /\ worker \in [Sessions -> Worker]
  BY DEF Base, TypeOK
<1>b. \A s \in Sessions : worker[s].last \in Nat /\ pending[s] \in Nat
  BY <1>a DEF Worker
<1>1. CASE ProcessEnds
  <2>1. main'.at = "exited"
    BY <1>1 DEF ProcessEnds, Base, TypeOK, MainThread
  <2>2. \A s \in Sessions : pending'[s] = 0 /\ worker'[s].last = 0
    BY <1>1, NewWorkerType DEF ProcessEnds, InEvery
  <2>3. mailbox' = mailbox /\ began' = began
    BY <1>1 DEF ProcessEnds, progress
  <2> QED BY <1>a, <1>b, <2>1, <2>2, <2>3 DEF AllHeard, LastBegan, Heard
<1>2. CASE FirstRunBegins
  <2>1. began' = mailbox /\ mailbox' = mailbox /\ pending' = pending /\ worker' = worker
        /\ msg' = msg
    BY <1>2 DEF FirstRunBegins, running, session_vars, pubsub
  <2>2. \A k \in Mail : msg[k] # "none" => k <= mailbox
    BY DEF Base, Arrived
  <2> QED BY <2>1, <2>2 DEF AllHeard, LastBegan, Heard
<1>3. CASE Connect \/ ConnectFails
  <2>0. StartWorker /\ main.at = "connect" /\ main'.at \in {"loop", "retry"}
    BY <1>3 DEF Connect, ConnectFails, MainGoto, Base, TypeOK, MainThread
  <2>1. /\ msg' = msg /\ via' = via /\ pending' = pending /\ stop' = stop
        /\ began' = began /\ mailbox' = mailbox
    BY <2>0 DEF StartWorker, pubsub, progress
  <2>2. worker[session].at = "off"
    BY <2>0, NewWorkerType DEF Base, TypeOK, Fresh, Unconnected
  <2>3. \A s \in Sessions : worker'[s].last = worker[s].last
          /\ (worker'[s].at = worker[s].at \/ worker[s].at = "off")
    <3>1. worker' = [worker EXCEPT ![session] = [worker[session] EXCEPT !.at = "wait"]]
      BY <2>0 DEF StartWorker
    <3>2. [worker[session] EXCEPT !.at = "wait"].last = worker[session].last
      BY <1>a DEF Worker, Base, TypeOK
    <3> QED BY <1>a, <2>2, <3>1, <3>2
  <2>4. LastBegan'
    <3> SUFFICES ASSUME NEW s \in Sessions
                 PROVE  /\ pending[s] <= mailbox
                        /\ worker'[s].last <= mailbox
                        /\ worker'[s].last <= began \/ worker'[s].at = "run"
      BY <2>1 DEF LastBegan
    <3>1. /\ pending[s] <= mailbox
          /\ worker[s].last <= mailbox
          /\ worker[s].last <= began \/ worker[s].at = "run"
      BY DEF AllHeard, LastBegan
    <3> QED BY <2>3, <3>1
  <2>5. ASSUME NEW k \in Mail PROVE Heard(k)'
    <3>1. Heard(k) /\ via[k] \in Sessions
      BY <1>a DEF AllHeard
    <3>2. worker'[via[k]].at = worker[via[k]].at
            \/ worker[via[k]].at \notin {"run", "failing", "stopping"}
      BY <2>3, <3>1
    <3> QED BY <2>0, <2>1, <3>1, <3>2 DEF Heard
  <2> QED BY <2>4, <2>5 DEF AllHeard
<1>4. ASSUME /\ UNCHANGED <<msg, via, pending, worker, mailbox, began>>
             /\ \A s \in Sessions : stop[s] => stop'[s]
             /\ main'.at = main.at \/ main.at \notin {"start", "exited"}
                  \/ main'.at = "start"
      PROVE  AllHeard'
  <2>1. LastBegan'
    BY <1>4 DEF AllHeard, LastBegan
  <2>2. ASSUME NEW k \in Mail PROVE Heard(k)'
    <3>1. Heard(k) /\ via[k] \in Sessions
      BY <1>a DEF AllHeard
    <3> QED BY <1>4, <3>1 DEF Heard
  <2> QED BY <2>1, <2>2 DEF AllHeard
<1>5. CASE Close
  <2>1. UNCHANGED <<msg, via, pending, worker, mailbox, began>>
    BY <1>5 DEF Close, pubsub, progress
  <2>2. \A s \in Sessions : stop[s] => stop'[s]
    BY <1>a, <1>5 DEF Close
  <2>3. main.at = "closing"
    BY <1>5 DEF Close, MainGoto
  <2> QED BY <1>4, <2>1, <2>2, <2>3
<1>6. CASE FirstRunEnds \/ LoopChecksStop \/ LoopChecksWorker
           \/ ResultTimesOut \/ JoinAndReconnect \/ Reconnect \/ Restart \/ StreamEnds
  <2>1. UNCHANGED <<msg, via, pending, worker, mailbox, began, stop>>
    BY <1>6 DEF FirstRunEnds, LoopChecksStop, LoopChecksWorker, ResultTimesOut,
       JoinAndReconnect, Reconnect, Restart, StreamEnds, running, session_vars, pubsub,
       progress
  <2>2. main.at \notin {"start", "exited"} \/ main'.at = "start"
    BY <1>6 DEF FirstRunEnds, LoopChecksStop, LoopChecksWorker, ResultTimesOut,
       JoinAndReconnect, Reconnect, Restart, StreamEnds, MainGoto, Base, TypeOK, MainThread
  <2> QED BY <1>4, <2>1, <2>2
<1> QED BY <1>1, <1>2, <1>3, <1>5, <1>6 DEF MainStep, JoinAndReturn, GiveUp, Kill

LEMMA NextHeard ==
    ASSUME Base, Base', AllHeard, NoHistory = {}, [Next]_vars
    PROVE  AllHeard'
<1>1. CASE Next
  BY <1>1, MessageHeard, WorkerHeard, MainHeard DEF Next
<1>2. CASE UNCHANGED vars
  BY <1>2 DEF vars, session_vars, AllHeard, LastBegan, Heard
<1> QED BY <1>1, <1>2

LEMMA HeardTriggersRun ==
    ASSUME Base, AllHeard, NoHistory = {}
    PROVE  AcceptedTriggersRun
<1> SUFFICES ASSUME NEW m \in Mail, msg[m] \in {"set", "accepted"}, ~stop[via[m]],
                    ~(m <= began), ~At(via[m], "run"), main.at \notin {"start", "exited"},
                    worker[via[m]].at \notin {"failing", "stopping"}
             PROVE  pending[via[m]] # None /\ ~Duplicate(via[m])
  BY DEF AcceptedTriggersRun
<1>1. /\ via[m] \in Sessions /\ m \in Nat /\ m >= 1 /\ began \in Nat
      /\ pending[via[m]] \in Nat /\ worker[via[m]].last \in Nat
  BY DEF Base, TypeOK, Worker
<1>2. pending[via[m]] >= m
  BY DEF AllHeard, Heard, At
<1>3. worker[via[m]].last <= began
  BY <1>1 DEF AllHeard, LastBegan, At
<1>4. History(pending[via[m]]) = pending[via[m]]
  BY DEF History
<1> QED BY <1>1, <1>2, <1>3, <1>4 DEF Duplicate

\* When every notification has a history id, no accepted notification is
\* forgotten by collapsing pending events or by skipping duplicates.
THEOREM AcceptedIsHeard == (NoHistory = {}) /\ Spec => []AcceptedTriggersRun
<1> SUFFICES ASSUME NoHistory = {} PROVE Spec => []AcceptedTriggersRun
  OBVIOUS
<1>1. Init => AllHeard
  <2> SUFFICES ASSUME Init PROVE AllHeard
    OBVIOUS
  <2>1. \A s \in Sessions : pending[s] = 0 /\ worker[s].last = 0
    BY NewWorkerType DEF Init, InEvery
  <2>2. mailbox = 0 /\ began = 0 /\ main.at = "start"
    BY DEF Init
  <2> QED BY <2>1, <2>2 DEF AllHeard, LastBegan, Heard
<1>2. Base /\ Base' /\ AllHeard /\ [Next]_vars => AllHeard'
  BY NextHeard
<1>3. Base /\ AllHeard => AcceptedTriggersRun
  BY HeardTriggersRun
<1> QED BY <1>1, <1>2, <1>3, InitBase, NextBase, PTL DEF Spec

=============================================================================
