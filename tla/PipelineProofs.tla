--------------------------- MODULE PipelineProofs ---------------------------
(***************************************************************************)
(* Theorems about module Pipeline, for every number of runners, mails and  *)
(* faults: type correctness of Spec, and, for a running installation, the  *)
(* inductive invariant IInv and what follows from it; and, for every       *)
(* installation that only one runner works on, from its first start, that  *)
(* the frontier never moves back.                                          *)
(***************************************************************************)
EXTENDS Pipeline, FiniteSetTheorems, TLAPS

\* The oldest max_messages of a set of mail are downward closed in it: what
\* the cut to max_messages drops is newer than all that it keeps
\* (gmail_source.py, the reversal and the cut of pending_messages).
LEMMA OldestDownClosed ==
    ASSUME NEW S \in SUBSET Nat, IsFiniteSet(S),
           NEW h \in Oldest(S), NEW m \in S, m < h
    PROVE  m \in Oldest(S)
<1> DEFINE below(x) == {k \in S : k < x}
<1>1. ASSUME NEW k \in below(m) PROVE k \in below(h)
  <2>1. h \in Nat /\ m \in Nat
    BY DEF Oldest
  <2>2. k \in S /\ k \in Nat /\ k < m
    OBVIOUS
  <2>3. k < h
    BY <2>1, <2>2
  <2> QED BY <2>2, <2>3
<1>2. IsFiniteSet(below(h))
  <2>1. below(h) \subseteq S
    OBVIOUS
  <2> QED BY <2>1, FS_Subset
<1>3. IsFiniteSet(below(m)) /\ Cardinality(below(m)) <= Cardinality(below(h))
  BY <1>1, <1>2, FS_Subset
<1>4. Cardinality(below(h)) < MaxMessages
  BY DEF Oldest
<1>5. Cardinality(below(m)) \in Nat /\ Cardinality(below(h)) \in Nat
  BY <1>2, <1>3, FS_CardinalityType
<1>6. Cardinality(below(m)) < MaxMessages
  BY <1>3, <1>4, <1>5, MaxMessagesPos
<1> QED BY <1>6 DEF Oldest

\* A listing returns mail of the inbox, a finite set.
LEMMA PendingFinite ==
    ASSUME TypeOK, NEW c
    PROVE  Pending(c) \subseteq inbox /\ Pending(c) \in SUBSET Nat
           /\ IsFiniteSet(Pending(c))
<1>1. Pending(c) \subseteq inbox
  BY DEF Pending, FirstPage
<1>2. arrived \in Int /\ inbox \subseteq 1..arrived
  BY DEF TypeOK
<1>3. IsFiniteSet(1..arrived)
  BY <1>2, FS_Interval
<1>4. Pending(c) \subseteq 1..arrived
  BY <1>1, <1>2
<1>5. IsFiniteSet(Pending(c))
  BY <1>3, <1>4, FS_Subset
<1> QED BY <1>1, <1>4, <1>5

-----------------------------------------------------------------------------

LEMMA InitTypeOK == Init => TypeOK
<1> SUFFICES ASSUME Init PROVE TypeOK
  OBVIOUS
<1>1. FreshRun \in RunState /\ "idle" \in Labels
  BY DEF FreshRun, RunState, Failures, None, Labels
<1>2. InitCommon
  BY DEF Init, InitFresh, InitInstalled
<1>3. /\ handled \subseteq Nat
      /\ pc \in [Runners -> Labels]
      /\ run \in [Runners -> RunState]
      /\ faults \in 0..MaxFaults
  BY <1>1, <1>2, MaxFaultsNat DEF InitCommon
<1>4. /\ arrived \in Nat
      /\ inbox \subseteq 1..arrived
      /\ ckpt \in Nat
      /\ sync \in {"none", "done", "announced"}
      /\ stateFile \in BOOLEAN
      /\ base \in Nat
  <2>1. CASE InitFresh
    <3>1. arrived \in Nat /\ inbox = 1..arrived /\ ckpt = 0 /\ base = 0
      BY <2>1, MaxMsgsNat DEF InitFresh, None
    <3>2. sync = "none" /\ stateFile \in BOOLEAN
      BY <2>1, Zenon DEF InitFresh
    <3> QED BY <3>1, <3>2
  <2>2. CASE InitInstalled
    BY <2>2, MaxMsgsNat DEF InitInstalled
  <2> QED BY <2>1, <2>2 DEF Init
<1> QED BY <1>3, <1>4 DEF TypeOK

LEMMA NextTypeOK == TypeOK /\ [Next]_vars => TypeOK'
<1> SUFFICES ASSUME TypeOK, [Next]_vars PROVE TypeOK'
  OBVIOUS
<1> USE MaxFaultsNat
<1>1. FreshRun \in RunState /\ "idle" \in Labels
  BY DEF FreshRun, RunState, Failures, None, Labels
<1>2. CASE Arrive
  BY <1>2 DEF Arrive, TypeOK, durable
<1>3. CASE \E m \in inbox : Archive(m)
  BY <1>3 DEF Archive, TypeOK, durable
<1>4. ASSUME NEW r \in Runners, Progress(r) PROVE TypeOK'
  <2> USE DEF TypeOK, Goto, Fault, mail, durable, SnapshotState
  <2>1. CASE Start(r, FALSE)
    BY <2>1 DEF Start, FreshRun, RunState, Failures, None, Labels
  <2>2. CASE AlreadyInitialized(r)
    BY <2>2 DEF AlreadyInitialized, Labels
  <2>3. CASE ChooseInitialCheckpoint(r)
    BY <2>3 DEF ChooseInitialCheckpoint, RunState, None, Labels
  <2>4. CASE CompleteInitialSync(r)
    <3>1. run[r].cur \in Nat /\ stateFile' \in BOOLEAN
      BY <2>4, Zenon DEF CompleteInitialSync, RunState
    <3>2. ckpt' \in Nat /\ sync' \in {"none", "done", "announced"} /\ base' \in Nat
      BY <2>4, <3>1 DEF CompleteInitialSync, RecordInitialSync
    <3>3. run' \in [Runners -> RunState] /\ pc' \in [Runners -> Labels]
      <4>1. [run[r] EXCEPT !.before = run[r].cur, !.after = run[r].cur] \in RunState
        BY <3>1 DEF RunState
      <4>2. run' = [run EXCEPT ![r] = [run[r] EXCEPT !.before = run[r].cur,
                                                    !.after = run[r].cur]]
        BY <2>4 DEF CompleteInitialSync
      <4>3. pc' = [pc EXCEPT ![r] = "announce"]
        BY <2>4 DEF CompleteInitialSync
      <4> QED BY <4>1, <4>2, <4>3 DEF Labels
    <3>4. UNCHANGED <<mail, handled, faults>>
      BY <2>4 DEF CompleteInitialSync
    <3> QED BY <3>1, <3>2, <3>3, <3>4
  <2>5. CASE AnnounceSetup(r)
    BY <2>5 DEF AnnounceSetup, Labels
  <2>6. CASE ListMail(r)
    <3>1. Oldest(Pending(run[r].before)) \in SUBSET Nat
      BY PendingFinite DEF Oldest
    <3> QED BY <2>6, <3>1 DEF ListMail, RunState, Labels
  <2>7. CASE CheckpointNotFound(r)
    BY <2>7 DEF CheckpointNotFound, Fail, RunState, Failures, Labels
  <2>8. CASE \E m \in run[r].todo : TakeMessage(r, m)
    BY <2>8 DEF TakeMessage, IsNext, RunState, Labels
  <2>9. CASE DeliverOk(r)
    BY <2>9 DEF DeliverOk, RunState, Labels
  <2>10. CASE Commit(r)
    BY <2>10 DEF Commit, RunState, Labels
  <2>11. CASE NoMoreMail(r)
    BY <2>11 DEF NoMoreMail, Labels
  <2>12. CASE PersistResult(r)
    BY <2>12, <1>1 DEF PersistResult
  <2> QED BY <1>4, <2>1, <2>2, <2>3, <2>4, <2>5, <2>6, <2>7, <2>8, <2>9,
             <2>10, <2>11, <2>12 DEF Progress
<1>5. ASSUME NEW r \in Runners, Disturbance(r) PROVE TypeOK'
  <2> USE DEF TypeOK, Goto, Fault, mail, durable, SnapshotState
  <2>1. CASE Start(r, TRUE)
    <3>1. run' \in [Runners -> RunState] /\ pc' \in [Runners -> Labels]
      BY <2>1 DEF Start, FreshRun, RunState, Failures, None, Labels
    <3>2. Fault /\ UNCHANGED <<mail, durable, handled, base>>
      BY <2>1 DEF Start
    <3> QED BY <3>1, <3>2
  <2>2. CASE StartFails(r)
    <3>1. stateFile' \in BOOLEAN
      BY <2>2, Zenon DEF StartFails
    <3>2. Fault /\ UNCHANGED <<mail, ckpt, sync, handled, base, pc, run>>
      BY <2>2 DEF StartFails
    <3> QED BY <3>1, <3>2
  <2>3. CASE AnnounceSetupFails(r)
    BY <2>3 DEF AnnounceSetupFails, Labels
  <2>4. CASE SourceFails(r)
    BY <2>4 DEF SourceFails, Fail, RunState, Failures, Labels
  <2>5. CASE DeliverFails(r)
    BY <2>5 DEF DeliverFails, Fail, RunState, Failures, Labels
  <2>6. CASE CommitFails(r)
    BY <2>6 DEF CommitFails, RecordInitialSync, Fail, RunState, Failures, Labels
  <2>7. CASE PersistResultFails(r)
    BY <2>7, <1>1 DEF PersistResultFails
  <2>8. CASE Crash(r)
    BY <2>8, <1>1 DEF Crash
  <2> QED BY <1>5, <2>1, <2>2, <2>3, <2>4, <2>5, <2>6, <2>7, <2>8
          DEF Disturbance
<1>6. CASE UNCHANGED vars
  BY <1>6 DEF vars, TypeOK
<1> QED BY <1>2, <1>3, <1>4, <1>5, <1>6 DEF Next

\* Every reachable state is well typed.
THEOREM TypeCorrect == Spec => []TypeOK
<1>1. Init => TypeOK
  BY InitTypeOK
<1>2. TypeOK /\ [Next]_vars => TypeOK'
  BY NextTypeOK
<1> QED BY <1>1, <1>2, PTL DEF Spec

-----------------------------------------------------------------------------
(* The invariant of a running installation.                                 *)

\* A step never unsettles a mail, and leaves the beginning of a running
\* installation where it is.
LEMMA SettledGrows ==
    ASSUME IInv, [Next]_vars
    PROVE  handled \subseteq handled' /\ Settled \subseteq Settled' /\ base' = base
<1> USE DEF mail, durable
<1>1. CASE Arrive
  BY <1>1 DEF Arrive, Settled, IInv, TypeOK
<1>2. CASE \E m \in inbox : Archive(m)
  BY <1>2 DEF Archive, Settled
<1>3. ASSUME NEW r \in Runners, Progress(r) \/ Disturbance(r)
      PROVE  handled \subseteq handled' /\ base' = base /\ UNCHANGED mail
  <2>1. pc[r] # "complete" /\ ~CompleteInitialSync(r)
    BY DEF IInv, CompleteInitialSync
  <2> QED BY <1>3, <2>1
      DEF Progress, Disturbance, Start, AlreadyInitialized,
          ChooseInitialCheckpoint, AnnounceSetup, ListMail, CheckpointNotFound,
          TakeMessage, DeliverOk, Commit, NoMoreMail, PersistResult, StartFails,
          AnnounceSetupFails, SourceFails, DeliverFails, CommitFails,
          PersistResultFails, Crash
<1>4. CASE UNCHANGED vars
  BY <1>4 DEF vars, Settled
<1> QED BY <1>1, <1>2, <1>3, <1>4 DEF Next, Settled

\* A gapless checkpoint stays gapless while mail only becomes settled.
LEMMA NoGapStays ==
    ASSUME Settled \subseteq Settled', base' = base, NEW c, NoGapUpTo(c)
    PROVE  \A m \in (base' + 1)..c : m \in Settled'
BY DEF NoGapUpTo

\* What a run knows stays true while it takes no step itself.
LEMMA RunInvStays ==
    ASSUME handled \subseteq handled', Settled \subseteq Settled', base' = base,
           NEW r, pc'[r] = pc[r], run'[r] = run[r], RunInv(r)
    PROVE  RunInv(r)'
BY DEF RunInv, NoGapUpTo, InHand

\* Only the run that takes a step, and the checkpoint, have to be looked at.
LEMMA StepOfOneRun ==
    ASSUME IInv, TypeOK', Settled \subseteq Settled', handled \subseteq handled',
           base' = base, ckpt' # None, NoGap', NEW r \in Runners,
           \A q \in Runners \ {r} : pc'[q] = pc[q] /\ run'[q] = run[q],
           pc'[r] # "complete",
           pc'[r] # "idle" /\ ~run'[r].dry => RunInv(r)'
    PROVE  IInv'
<1>1. ASSUME NEW q \in Runners
      PROVE  pc'[q] # "complete" /\ (pc'[q] # "idle" /\ ~run'[q].dry => RunInv(q)')
  <2>1. CASE q = r
    BY <2>1
  <2>2. CASE q # r
    BY <2>2, RunInvStays DEF IInv
  <2> QED BY <2>1, <2>2
<1> QED BY <1>1 DEF IInv

\* A step that hands out no mail and moves no checkpoint.
LEMMA QuietStep ==
    ASSUME IInv, TypeOK', Settled \subseteq Settled', handled \subseteq handled',
           base' = base, ckpt' = ckpt, NEW r \in Runners,
           \A q \in Runners \ {r} : pc'[q] = pc[q] /\ run'[q] = run[q],
           pc'[r] \notin {"complete", "loop", "deliver", "commit"},
           pc'[r] # "idle" /\ ~run'[r].dry =>
               /\ run'[r].before # None
               /\ NoGapUpTo(run'[r].before)
               /\ NoGapUpTo(run'[r].after)
    PROVE  IInv'
<1>1. NoGap'
  BY DEF IInv, NoGap, NoGapUpTo
<1>2. pc'[r] # "idle" /\ ~run'[r].dry => RunInv(r)'
  BY DEF RunInv, NoGapUpTo
<1> QED BY <1>1, <1>2, StepOfOneRun DEF IInv

\* What a real run knows between two of its steps.
LEMMA InRun ==
    ASSUME IInv, NEW r \in Runners, pc[r] # "idle", ~run[r].dry
    PROVE  RunInv(r)
BY DEF IInv

LEMMA InitIInv == InitInstalled => IInv
<1> SUFFICES ASSUME InitInstalled PROVE IInv
  OBVIOUS
<1>1. TypeOK
  BY InitTypeOK DEF Init
<1>2. ckpt # None /\ NoGap
  BY <1>1 DEF InitInstalled, None, NoGap, NoGapUpTo, TypeOK
<1>3. \A r \in Runners : pc[r] = "idle"
  BY DEF InitInstalled, InitCommon
<1> QED BY <1>1, <1>2, <1>3 DEF IInv

\* The listing of a run: mail behind the checkpoint it starts from is settled,
\* and what the cut to max_messages drops is newer than what it keeps.
LEMMA ListMailKeepsIInv ==
    ASSUME IInv, TypeOK', Settled \subseteq Settled', handled \subseteq handled',
           base' = base, NEW r \in Runners, ListMail(r)
    PROVE  IInv'
<1> DEFINE S == Pending(run[r].before)
<1>1. TypeOK /\ ckpt' = ckpt /\ ckpt # None /\ NoGap
  BY DEF IInv, ListMail, durable
<1>2. NoGap'
  BY <1>1 DEF NoGap, NoGapUpTo
<1>3. /\ pc[r] = "list" /\ pc'[r] = "loop" /\ pc' = [pc EXCEPT ![r] = "loop"]
      /\ run' = [run EXCEPT ![r].todo = Oldest(S)]
  BY <1>1 DEF ListMail, Goto, TypeOK
<1>4. ASSUME ~run'[r].dry PROVE RunInv(r)'
  <2>1. RunInv(r)
    BY <1>1, <1>3, <1>4, InRun DEF TypeOK, RunState
  <2>2. /\ run'[r].before = run[r].before /\ run'[r].after = run[r].after
        /\ run'[r].todo = Oldest(S) /\ InHand(r)' = Oldest(S)
    BY <1>1, <1>3 DEF TypeOK, RunState, InHand
  <2>3. S = {m \in inbox : m > run[r].before} /\ run[r].before \in Nat
    BY <1>1, <2>1 DEF RunInv, Pending, TypeOK, RunState
  <2>4. ASSUME NEW h \in Oldest(S), NEW m \in (base + 1)..h
        PROVE  m \in Settled \union Oldest(S)
    <3>1. h \in inbox /\ h \in 1..arrived /\ m \in Nat /\ m >= 1
      <4>1. h \in inbox
        BY <2>3 DEF Oldest
      <4>2. base \in Nat /\ inbox \subseteq 1..arrived /\ arrived \in Nat
        BY <1>1 DEF TypeOK
      <4> QED BY <4>1, <4>2
    <3>2. CASE m <= run[r].before
      BY <2>1, <2>3, <3>1, <3>2, <1>1 DEF RunInv, NoGapUpTo, TypeOK
    <3>3. CASE m > run[r].before /\ m \notin inbox
      BY <1>1, <3>1, <3>3 DEF Settled, TypeOK
    <3>4. CASE m > run[r].before /\ m \in inbox
      <4>1. m \in S
        BY <2>3, <3>4
      <4>2. CASE m < h
        BY <1>1, <4>1, <4>2, OldestDownClosed, PendingFinite
      <4>3. CASE m = h
        BY <4>3
      <4> QED BY <1>1, <3>1, <4>2, <4>3 DEF TypeOK
    <3> QED BY <2>3, <3>1, <3>2, <3>3, <3>4
  <2>5. NoGapUpTo(run[r].before)' /\ NoGapUpTo(run[r].after)'
    BY <2>1, <2>2 DEF RunInv, NoGapUpTo
  <2>6. \A h \in InHand(r)' :
           h # None /\ \A m \in (base' + 1)..h : m \in Settled' \union InHand(r)'
    <3>1. \A h \in Oldest(S) : h \in inbox /\ h # None
      BY <1>1, <2>3 DEF Oldest, TypeOK, None
    <3> QED BY <2>2, <2>4, <3>1
  <2>7. pc'[r] = "loop"
    BY <1>3
  <2>8. run'[r].before # None
    BY <2>1, <2>2 DEF RunInv
  <2> QED BY <2>5, <2>6, <2>7, <2>8 DEF RunInv
<1> QED BY <1>1, <1>2, <1>3, <1>4, StepOfOneRun DEF TypeOK

\* The oldest mail in hand is taken: what the run has in hand stays the same,
\* or shrinks by a mail that is no target and settled with it.
LEMMA TakeMessageKeepsIInv ==
    ASSUME IInv, TypeOK', Settled \subseteq Settled', handled \subseteq handled',
           base' = base, NEW r \in Runners, NEW m \in run[r].todo, TakeMessage(r, m)
    PROVE  IInv'
<1>1. TypeOK /\ ckpt' = ckpt /\ ckpt # None /\ NoGap
  BY DEF IInv, TakeMessage, IsNext, durable
<1>2. NoGap'
  BY <1>1 DEF NoGap, NoGapUpTo
<1>3. /\ pc[r] = "loop" /\ pc'[r] \in {"deliver", "commit"}
      /\ \A q \in Runners \ {r} : pc'[q] = pc[q] /\ run'[q] = run[q]
      /\ run'[r].before = run[r].before /\ run'[r].after = run[r].after
      /\ run'[r].todo = run[r].todo \ {m} /\ run'[r].cur = m
      /\ run'[r].dry = run[r].dry
      /\ m \in Nat /\ run[r].todo \subseteq Nat
      /\ \A k \in run[r].todo : m <= k
  BY <1>1 DEF TakeMessage, IsNext, Goto, TypeOK, RunState
<1>4. ASSUME ~run'[r].dry PROVE RunInv(r)'
  <2>1. RunInv(r)
    BY <1>1, <1>3, <1>4, InRun
  <2>2. InHand(r) = run[r].todo /\ InHand(r)' = run[r].todo
    BY <1>3 DEF InHand
  <2>3. NoGapUpTo(run[r].before)' /\ NoGapUpTo(run[r].after)'
    BY <1>3, <2>1 DEF RunInv, NoGapUpTo
  <2>4. \A h \in InHand(r)' :
           h # None /\ \A k \in (base' + 1)..h : k \in Settled' \union InHand(r)'
    BY <1>3, <2>1, <2>2 DEF RunInv
  <2>5. \A k \in run'[r].todo : run'[r].cur < k
    BY <1>3
  <2>6. pc'[r] = "commit" => run'[r].cur \in handled'
    BY <1>1, <1>3, <1>4 DEF TakeMessage, IsNext, Goto, TypeOK
  <2>7. run'[r].before # None
    BY <1>3, <2>1 DEF RunInv
  <2> QED BY <2>3, <2>4, <2>5, <2>6, <2>7 DEF RunInv
<1> QED BY <1>1, <1>2, <1>3, <1>4, StepOfOneRun

\* A delivered mail is settled and stays in hand until it is committed.
LEMMA DeliverOkKeepsIInv ==
    ASSUME IInv, TypeOK', Settled \subseteq Settled', handled \subseteq handled',
           base' = base, NEW r \in Runners, DeliverOk(r)
    PROVE  IInv'
<1>1. TypeOK /\ ckpt' = ckpt /\ ckpt # None /\ NoGap
  BY DEF IInv, DeliverOk, durable
<1>2. NoGap'
  BY <1>1 DEF NoGap, NoGapUpTo
<1>3. /\ pc[r] = "deliver" /\ pc'[r] = "commit" /\ run' = run
      /\ \A q \in Runners \ {r} : pc'[q] = pc[q]
  BY <1>1 DEF DeliverOk, Goto, TypeOK
<1>4. ASSUME ~run[r].dry PROVE RunInv(r)'
  <2>1. RunInv(r)
    BY <1>1, <1>3, <1>4, InRun
  <2>2. InHand(r)' = InHand(r)
    BY <1>3 DEF InHand
  <2>3. run[r].cur \in handled'
    BY <1>4 DEF DeliverOk
  <2>4. NoGapUpTo(run[r].before)' /\ NoGapUpTo(run[r].after)'
    BY <1>3, <2>1 DEF RunInv, NoGapUpTo
  <2>5. \A h \in InHand(r)' :
           h # None /\ \A k \in (base' + 1)..h : k \in Settled' \union InHand(r)'
    BY <1>3, <2>1, <2>2 DEF RunInv
  <2> QED BY <1>3, <2>1, <2>3, <2>4, <2>5 DEF RunInv
<1> QED BY <1>1, <1>2, <1>3, <1>4, StepOfOneRun

\* The heart of the matter: when a run commits the mail in hand, everything
\* behind that mail is settled, because what else it has in hand is newer.
LEMMA CommittedHasNoGap ==
    ASSUME IInv, NEW r \in Runners, pc[r] = "commit", ~run[r].dry
    PROVE  run[r].cur # None /\ NoGapUpTo(run[r].cur)
<1>1. TypeOK /\ RunInv(r)
  BY InRun DEF IInv
<1>2. run[r].cur \in Nat /\ run[r].todo \subseteq Nat /\ base \in Nat
  BY <1>1 DEF TypeOK, RunState
<1>3. ASSUME NEW m \in (base + 1)..run[r].cur PROVE m \in Settled
  <2>1. m \in Settled \union InHand(r) /\ m \in Nat /\ m <= run[r].cur
    BY <1>1, <1>2 DEF RunInv, InHand
  <2>2. m \notin run[r].todo
    BY <1>1, <1>2, <2>1 DEF RunInv
  <2>3. m = run[r].cur => m \in Settled
    BY <1>1 DEF RunInv, Settled
  <2> QED BY <2>1, <2>2, <2>3 DEF InHand
<1>4. run[r].cur # None
  BY <1>1 DEF RunInv, InHand
<1> QED BY <1>3, <1>4 DEF NoGapUpTo

LEMMA CommitKeepsIInv ==
    ASSUME IInv, TypeOK', Settled \subseteq Settled', handled \subseteq handled',
           base' = base, NEW r \in Runners, Commit(r)
    PROVE  IInv'
<1>1. TypeOK /\ ckpt # None /\ NoGap
  BY DEF IInv
<1>2. /\ pc[r] = "commit" /\ pc'[r] = "loop"
      /\ \A q \in Runners \ {r} : pc'[q] = pc[q] /\ run'[q] = run[q]
      /\ run'[r] = [run[r] EXCEPT !.after = run[r].cur]
      /\ run'[r].todo = run[r].todo /\ run'[r].before = run[r].before
      /\ run'[r].after = run[r].cur /\ run'[r].dry = run[r].dry
      /\ ckpt' = IF run[r].dry THEN ckpt ELSE run[r].cur
  BY <1>1 DEF Commit, Goto, TypeOK, RunState, durable
<1>3. ckpt' # None /\ NoGap'
  <2>1. NoGapUpTo(ckpt') /\ ckpt' # None
    BY <1>1, <1>2, CommittedHasNoGap DEF NoGap
  <2> QED BY <2>1 DEF NoGap, NoGapUpTo
<1>4. ASSUME ~run'[r].dry PROVE RunInv(r)'
  <2>1. RunInv(r) /\ NoGapUpTo(run[r].cur)
    BY <1>1, <1>2, <1>4, InRun, CommittedHasNoGap
  <2>2. NoGapUpTo(run[r].before)' /\ NoGapUpTo(run[r].after)'
    BY <1>2, <2>1 DEF RunInv, NoGapUpTo
  <2>3. InHand(r)' = run[r].todo /\ InHand(r) = run[r].todo \union {run[r].cur}
    BY <1>2 DEF InHand
  <2>4. run[r].cur \in Settled'
    BY <1>2, <2>1 DEF RunInv, Settled
  <2>5. \A h \in InHand(r)' :
           h # None /\ \A k \in (base' + 1)..h : k \in Settled' \union InHand(r)'
    BY <1>2, <2>1, <2>3, <2>4 DEF RunInv
  <2> QED BY <1>2, <2>1, <2>2, <2>5 DEF RunInv
<1> QED BY <1>2, <1>3, <1>4, StepOfOneRun

LEMMA CommitFailsKeepsIInv ==
    ASSUME IInv, TypeOK', Settled \subseteq Settled', handled \subseteq handled',
           base' = base, NEW r \in Runners, CommitFails(r)
    PROVE  IInv'
<1>1. TypeOK /\ ckpt # None /\ NoGap
  BY DEF IInv
<1>2. /\ pc[r] = "commit" /\ ~run[r].dry /\ pc'[r] = "persist"
      /\ \A q \in Runners \ {r} : pc'[q] = pc[q] /\ run'[q] = run[q]
      /\ run'[r].before = run[r].before /\ run'[r].after = run[r].after
      /\ ckpt' \in {ckpt, run[r].cur}
  BY <1>1 DEF CommitFails, Fail, Goto, TypeOK, RunState, durable, IInv
<1>3. ckpt' # None /\ NoGap'
  <2>1. NoGapUpTo(ckpt') /\ ckpt' # None
    BY <1>1, <1>2, CommittedHasNoGap DEF NoGap
  <2> QED BY <2>1 DEF NoGap, NoGapUpTo
<1>4. RunInv(r)'
  <2>1. RunInv(r)
    BY <1>1, <1>2, InRun
  <2>2. NoGapUpTo(run[r].before)' /\ NoGapUpTo(run[r].after)'
    BY <1>2, <2>1 DEF RunInv, NoGapUpTo
  <2> QED BY <1>2, <2>1, <2>2 DEF RunInv
<1> QED BY <1>2, <1>3, <1>4, StepOfOneRun

LEMMA NextIInv == IInv /\ [Next]_vars => IInv'
<1> SUFFICES ASSUME IInv, [Next]_vars PROVE IInv'
  OBVIOUS
<1>1. TypeOK /\ TypeOK' /\ ckpt # None /\ NoGap
  BY NextTypeOK DEF IInv
<1>2. handled \subseteq handled' /\ Settled \subseteq Settled' /\ base' = base
  BY SettledGrows
<1>3. ASSUME UNCHANGED <<ckpt, pc, run>> PROVE IInv'
  <2>1. NoGap' /\ ckpt' # None
    BY <1>1, <1>2, <1>3 DEF NoGap, NoGapUpTo
  <2>2. ASSUME NEW q \in Runners
        PROVE  pc'[q] # "complete" /\ (pc'[q] # "idle" /\ ~run'[q].dry => RunInv(q)')
    BY <1>2, <1>3, RunInvStays DEF IInv
  <2> QED BY <1>1, <2>1, <2>2 DEF IInv
<1>4. CASE Arrive
  BY <1>3, <1>4 DEF Arrive, durable
<1>5. CASE \E m \in inbox : Archive(m)
  BY <1>3, <1>5 DEF Archive, durable
<1>6. ASSUME NEW r \in Runners,
             \/ AlreadyInitialized(r) \/ AnnounceSetup(r) \/ AnnounceSetupFails(r)
             \/ CheckpointNotFound(r) \/ SourceFails(r) \/ DeliverFails(r)
             \/ NoMoreMail(r)
      PROVE IInv'
  <2>1. /\ pc[r] \in {"init", "announce", "list", "loop", "deliver"}
        /\ pc'[r] \in {"announce", "list", "persist"}
        /\ \A q \in Runners \ {r} : pc'[q] = pc[q] /\ run'[q] = run[q]
        /\ run'[r].before = run[r].before /\ run'[r].after = run[r].after
        /\ run'[r].dry = run[r].dry /\ ckpt' = ckpt
    BY <1>1, <1>6 DEF AlreadyInitialized, AnnounceSetup, AnnounceSetupFails,
       CheckpointNotFound, SourceFails, DeliverFails, NoMoreMail, Fail, Goto,
       durable, TypeOK, RunState
  <2>2. ~run[r].dry => RunInv(r)
    BY <1>1, <2>1, InRun
  <2> QED BY <1>1, <1>2, <2>1, <2>2, QuietStep DEF RunInv
<1>7. ASSUME NEW r \in Runners,
             PersistResult(r) \/ PersistResultFails(r) \/ Crash(r)
      PROVE IInv'
  <2>1. /\ pc'[r] = "idle" /\ ckpt' = ckpt
        /\ \A q \in Runners \ {r} : pc'[q] = pc[q] /\ run'[q] = run[q]
    BY <1>1, <1>7 DEF PersistResult, PersistResultFails, Crash, Goto, durable, TypeOK
  <2> QED BY <1>1, <1>2, <2>1, QuietStep
<1>8. ASSUME NEW r \in Runners, NEW dry \in BOOLEAN, Start(r, dry) PROVE IInv'
  <2>1. /\ pc' = [pc EXCEPT ![r] = "init"] /\ ckpt' = ckpt
        /\ run' = [run EXCEPT ![r] = [FreshRun EXCEPT !.before = ckpt,
                                                     !.after = ckpt, !.dry = dry]]
    BY <1>8 DEF Start, Goto, durable
  <2>2. /\ pc'[r] = "init"
        /\ \A q \in Runners \ {r} : pc'[q] = pc[q] /\ run'[q] = run[q]
        /\ run'[r].before = ckpt /\ run'[r].after = ckpt
    BY <1>1, <2>1 DEF TypeOK, FreshRun
  <2> QED BY <1>1, <1>2, <2>1, <2>2, QuietStep DEF NoGap
<1>9. ASSUME NEW r \in Runners, StartFails(r) PROVE IInv'
  BY <1>3, <1>9 DEF StartFails
<1>10. ASSUME NEW r \in Runners PROVE ~ChooseInitialCheckpoint(r) /\ ~CompleteInitialSync(r)
  BY DEF ChooseInitialCheckpoint, CompleteInitialSync, IInv, InitialSyncCompleted, Legacy
<1>11. ASSUME NEW r \in Runners, Progress(r) \/ Disturbance(r) PROVE IInv'
  BY <1>1, <1>2, <1>6, <1>7, <1>8, <1>9, <1>10, <1>11, ListMailKeepsIInv,
     TakeMessageKeepsIInv, DeliverOkKeepsIInv, CommitKeepsIInv,
     CommitFailsKeepsIInv DEF Progress, Disturbance
<1>12. CASE UNCHANGED vars
  BY <1>3, <1>12 DEF vars
<1> QED BY <1>4, <1>5, <1>11, <1>12 DEF Next

\* A running installation never takes the first-start path again and keeps
\* the invariant, with any number of runners.
THEOREM Invariance == InstalledSpec => []IInv
<1>1. IInv /\ [Next]_vars => IInv'
  BY NextIInv
<1> QED BY <1>1, InitIInv, PTL DEF InstalledSpec

\* No hole behind the checkpoint, whichever runners overlap, crash or fail.
THEOREM NoGapTheorem == InstalledSpec => []NoGap
<1>1. IInv => NoGap
  BY DEF IInv
<1> QED BY <1>1, Invariance, PTL

\* The checkpoint_after of a run is gapless, whatever failed in the run.
THEOREM ReportedTheorem == InstalledSpec => []ReportedCheckpointHasNoGap
<1>1. IInv => ReportedCheckpointHasNoGap
  BY DEF IInv, RunInv, ReportedCheckpointHasNoGap
<1> QED BY <1>1, Invariance, PTL

\* The checkpoint and its base change in three places only.
LEMMA OnlyCommitsMove ==
    ASSUME [Next]_vars, ~UNCHANGED <<ckpt, base>>
    PROVE  \E r \in Runners : Commit(r) \/ CommitFails(r) \/ CompleteInitialSync(r)
<1>1. ~UNCHANGED vars /\ ~Arrive /\ ~(\E m \in inbox : Archive(m))
  BY DEF vars, durable, Arrive, Archive
<1>2. PICK r \in Runners : Progress(r) \/ Disturbance(r)
  BY <1>1 DEF Next
<1>3. Progress(r) => Commit(r) \/ CompleteInitialSync(r)
  BY DEF Progress, Start, AlreadyInitialized, ChooseInitialCheckpoint, AnnounceSetup,
     ListMail, CheckpointNotFound, TakeMessage, DeliverOk, NoMoreMail, PersistResult, durable
<1>4. Disturbance(r) => CommitFails(r)
  BY DEF Disturbance, Start, StartFails, AnnounceSetupFails, SourceFails, DeliverFails,
     PersistResultFails, Crash, durable
<1> QED BY <1>2, <1>3, <1>4

\* The pipeline does what module Frontier promises.
THEOREM Refinement == InstalledSpec => ImplementsFrontier
<1>1. InitInstalled => F!Init
  <2> SUFFICES ASSUME InitInstalled PROVE F!Init
    OBVIOUS
  <2>1. TypeOK
    BY InitIInv DEF IInv
  <2> QED BY <2>1 DEF InitInstalled, F!Init, TypeOK, Settled
<1>2. IInv /\ IInv' /\ [Next]_vars => [F!Next]_(F!vars)
  <2> SUFFICES ASSUME IInv, IInv', [Next]_vars PROVE [F!Next]_(F!vars)
    OBVIOUS
  <2>1. Settled \subseteq Settled' /\ base' = base /\ ckpt' \in Nat /\ NoGap'
    BY SettledGrows DEF IInv, TypeOK
  <2>2. CASE ckpt' = ckpt
    BY <2>1, <2>2 DEF F!Next, F!Settle, F!vars
  <2>3. CASE ckpt' # ckpt
    <3>1. \E r \in Runners : Commit(r) \/ CommitFails(r)
      BY <2>3, OnlyCommitsMove DEF CompleteInitialSync, IInv
    <3>2. UNCHANGED Settled
      BY <3>1 DEF Commit, CommitFails, Settled, mail
    <3>3. F!NoHoleUpTo(ckpt')
      BY <2>1, <3>2 DEF NoGap, NoGapUpTo, F!NoHoleUpTo
    <3> QED BY <2>1, <3>2, <3>3 DEF F!Next, F!MoveFrontier
  <2> QED BY <2>2, <2>3
<1> QED BY <1>1, <1>2, Invariance, PTL DEF InstalledSpec, ImplementsFrontier, F!Spec

-----------------------------------------------------------------------------
(* One runner.                                                              *)

\* What a run that is alone has in hand is ahead of the frontier, oldest first;
\* the checkpoint it loaded is the frontier; and a first start has none.
AheadOfFrontier(r) ==
    /\ pc[r] = "complete" => ckpt = None
    /\ pc[r] \in {"init", "announce", "list"} => run[r].before = ckpt
    /\ pc[r] \in {"loop", "deliver", "commit"} => \A h \in InHand(r) : h > ckpt
    /\ pc[r] \in {"deliver", "commit"} => \A k \in run[r].todo : run[r].cur < k

OneRunnerInv == TypeOK /\ \A r \in Runners : AheadOfFrontier(r)

\* A listing names only mail behind which the frontier lies.
LEMMA ListedIsAhead ==
    ASSUME TypeOK, NEW m \in Oldest(Pending(ckpt))
    PROVE  m > ckpt
<1>1. m \in Pending(ckpt) /\ m \in inbox
  BY PendingFinite DEF Oldest
<1>2. m \in Nat /\ m > 0
  BY <1>1 DEF TypeOK
<1> QED BY <1>1, <1>2 DEF Pending, None

LEMMA OneRunnerStep ==
    ASSUME \A r, s \in Runners : r = s, OneRunnerInv, [Next]_vars
    PROVE  /\ OneRunnerInv'
           /\ ckpt' >= ckpt
<1>1. TypeOK /\ TypeOK' /\ ckpt \in Nat
  BY NextTypeOK DEF OneRunnerInv, TypeOK
<1>2. ASSUME UNCHANGED <<ckpt, pc, run>> PROVE OneRunnerInv' /\ ckpt' >= ckpt
  BY <1>1, <1>2 DEF OneRunnerInv, AheadOfFrontier, InHand
<1>3. ASSUME Arrive \/ (\E m \in inbox : Archive(m)) \/ UNCHANGED vars
      PROVE  OneRunnerInv' /\ ckpt' >= ckpt
  BY <1>2, <1>3 DEF Arrive, Archive, vars, durable
<1>4. ASSUME NEW r \in Runners, AheadOfFrontier(r)', ckpt' >= ckpt
      PROVE  OneRunnerInv' /\ ckpt' >= ckpt
  BY <1>1, <1>4 DEF OneRunnerInv
<1>5. ASSUME NEW r \in Runners, Progress(r) \/ Disturbance(r)
      PROVE  AheadOfFrontier(r)' /\ ckpt' >= ckpt
  <2>1. /\ AheadOfFrontier(r)
        /\ run[r] \in RunState /\ run \in [Runners -> RunState] /\ pc \in [Runners -> Labels]
        /\ run[r].cur \in Nat /\ run[r].todo \subseteq Nat
    BY <1>1 DEF OneRunnerInv, TypeOK, RunState
  <2>2. ASSUME UNCHANGED <<ckpt, pc, run>> PROVE AheadOfFrontier(r)' /\ ckpt' >= ckpt
    BY <1>1, <2>1, <2>2 DEF AheadOfFrontier, InHand
  <2>3. ASSUME ckpt' \in Nat, ckpt' >= ckpt, pc'[r] \in {"persist", "idle"}
        PROVE  AheadOfFrontier(r)' /\ ckpt' >= ckpt
    BY <2>3 DEF AheadOfFrontier
  <2>4. CASE \E dry \in BOOLEAN : Start(r, dry)
    <3>1. pc'[r] = "init" /\ run'[r].before = ckpt /\ ckpt' = ckpt
      BY <2>1, <2>4 DEF Start, Goto, FreshRun, durable
    <3> QED BY <1>1, <3>1 DEF AheadOfFrontier
  <2>5. CASE AlreadyInitialized(r) \/ AnnounceSetup(r) \/ AnnounceSetupFails(r)
    <3>1. /\ pc[r] \in {"init", "announce"} /\ pc'[r] \in {"announce", "list"}
          /\ run' = run /\ ckpt' = ckpt
      BY <2>1, <2>5 DEF AlreadyInitialized, AnnounceSetup, AnnounceSetupFails, Goto, durable
    <3> QED BY <1>1, <2>1, <3>1 DEF AheadOfFrontier
  <2>6. CASE ChooseInitialCheckpoint(r)
    <3>1. pc'[r] = "complete" /\ ckpt' = ckpt /\ ckpt = None
      BY <2>1, <2>6 DEF ChooseInitialCheckpoint, Goto, durable, InitialSyncCompleted, Legacy
    <3> QED BY <1>1, <3>1 DEF AheadOfFrontier
  <2>7. CASE CompleteInitialSync(r)
    <3>1. /\ pc[r] = "complete" /\ pc'[r] = "announce" /\ ckpt' = run[r].cur
          /\ run'[r].before = run[r].cur
      BY <2>1, <2>7 DEF CompleteInitialSync, RecordInitialSync, Goto, RunState
    <3>2. ckpt' >= ckpt
      BY <2>1, <3>1 DEF AheadOfFrontier, None
    <3> QED BY <3>1, <3>2 DEF AheadOfFrontier
  <2>8. CASE ListMail(r)
    <3>1. /\ pc[r] = "list" /\ pc'[r] = "loop" /\ ckpt' = ckpt
          /\ run'[r].todo = Oldest(Pending(run[r].before))
      BY <2>1, <2>8 DEF ListMail, Goto, durable, RunState
    <3>2. InHand(r)' = Oldest(Pending(ckpt))
      BY <2>1, <3>1 DEF AheadOfFrontier, InHand
    <3> QED BY <1>1, <3>1, <3>2, ListedIsAhead DEF AheadOfFrontier
  <2>9. CASE \E m \in run[r].todo : TakeMessage(r, m)
    <3>1. PICK m \in run[r].todo : TakeMessage(r, m)
      BY <2>9
    <3>2. /\ pc[r] = "loop" /\ pc'[r] \in {"deliver", "commit"} /\ ckpt' = ckpt
          /\ run'[r].todo = run[r].todo \ {m} /\ run'[r].cur = m
          /\ \A k \in run[r].todo : m <= k
      BY <2>1, <3>1 DEF TakeMessage, IsNext, Goto, durable, RunState
    <3>3. InHand(r)' = run[r].todo /\ InHand(r) = run[r].todo
      BY <3>1, <3>2 DEF InHand
    <3>4. \A k \in run'[r].todo : run'[r].cur < k
      BY <2>1, <3>2
    <3> QED BY <1>1, <2>1, <3>2, <3>3, <3>4 DEF AheadOfFrontier
  <2>10. CASE DeliverOk(r)
    <3>1. pc[r] = "deliver" /\ pc'[r] = "commit" /\ run' = run /\ ckpt' = ckpt
      BY <2>1, <2>10 DEF DeliverOk, Goto, durable
    <3>2. InHand(r)' = InHand(r)
      BY <3>1 DEF InHand
    <3> QED BY <1>1, <2>1, <3>1, <3>2 DEF AheadOfFrontier
  <2>11. CASE Commit(r)
    <3>1. /\ pc[r] = "commit" /\ pc'[r] = "loop" /\ run'[r].todo = run[r].todo
          /\ ckpt' = ckpt \/ ckpt' = run[r].cur
      BY <2>1, <2>11 DEF Commit, Goto, durable, RunState
    <3>2. InHand(r)' = run[r].todo /\ InHand(r) = run[r].todo \union {run[r].cur}
      BY <3>1 DEF InHand
    <3>3. /\ run[r].cur > ckpt
          /\ \A k \in run[r].todo : k > ckpt /\ k > run[r].cur
      BY <2>1, <3>1, <3>2 DEF AheadOfFrontier
    <3> QED BY <1>1, <2>1, <3>1, <3>2, <3>3 DEF AheadOfFrontier
  <2>12. CASE CommitFails(r)
    <3>1. /\ pc'[r] = "persist" /\ pc[r] \in {"commit", "complete"}
          /\ ckpt' = ckpt \/ ckpt' = run[r].cur
      BY <2>1, <2>12 DEF CommitFails, RecordInitialSync, Fail, Goto, durable
    <3>2. run[r].cur >= ckpt
      BY <1>1, <2>1, <3>1 DEF AheadOfFrontier, InHand, None
    <3> QED BY <1>1, <2>1, <2>3, <3>1, <3>2
  <2>13. ASSUME \/ CheckpointNotFound(r) \/ SourceFails(r) \/ DeliverFails(r)
                \/ NoMoreMail(r) \/ PersistResult(r) \/ PersistResultFails(r) \/ Crash(r)
         PROVE  AheadOfFrontier(r)' /\ ckpt' >= ckpt
    <3>1. pc'[r] \in {"persist", "idle"} /\ ckpt' = ckpt
      BY <2>1, <2>13 DEF CheckpointNotFound, SourceFails, DeliverFails, NoMoreMail,
         PersistResult, PersistResultFails, Crash, Fail, Goto, durable
    <3> QED BY <1>1, <2>3, <3>1
  <2>14. CASE StartFails(r)
    BY <2>2, <2>14 DEF StartFails
  <2> QED BY <1>5, <2>4, <2>5, <2>6, <2>7, <2>8, <2>9, <2>10, <2>11, <2>12, <2>13, <2>14
          DEF Progress, Disturbance
<1> QED BY <1>3, <1>4, <1>5 DEF Next

\* An installation only one runner works on, from its first start.
THEOREM OneRunner ==
    ASSUME \A r, s \in Runners : r = s
    PROVE  Spec => []OneRunnerInv
<1>1. Init => OneRunnerInv
  BY InitTypeOK DEF Init, InitFresh, InitInstalled, InitCommon, OneRunnerInv, AheadOfFrontier
<1>2. OneRunnerInv /\ [Next]_vars => OneRunnerInv'
  BY OneRunnerStep
<1> QED BY <1>1, <1>2, PTL DEF Spec

\* FrontierNeverBack: with one runner, the durable checkpoint of an installation
\* never moves back to older mail, whatever fails and wherever it is killed.
THEOREM FrontierTheorem ==
    ASSUME \A r, s \in Runners : r = s
    PROVE  Spec => FrontierNeverBack
<1>1. OneRunnerInv /\ [Next]_vars => [ckpt' >= ckpt]_ckpt
  BY OneRunnerStep
<1> QED BY <1>1, OneRunner, PTL DEF Spec, FrontierNeverBack

\* NothingBehindFrontierIsNotified: with one runner, mail at or behind the
\* durable checkpoint is never notified again.
THEOREM NotifiedAheadTheorem ==
    ASSUME \A r, s \in Runners : r = s
    PROVE  Spec => NothingBehindFrontierIsNotified
<1>1. ASSUME OneRunnerInv, NEW r \in Runners, DeliverOk(r), ~run[r].dry
      PROVE  run[r].cur > ckpt
  BY <1>1 DEF OneRunnerInv, AheadOfFrontier, InHand, DeliverOk
<1>2. OneRunnerInv /\ [Next]_vars =>
        [\A r \in Runners : DeliverOk(r) /\ ~run[r].dry => run[r].cur > ckpt]_vars
  BY <1>1
<1> QED BY <1>2, OneRunner, PTL DEF Spec, NothingBehindFrontierIsNotified

-----------------------------------------------------------------------------
(* The first start.                                                         *)

\* While there is no checkpoint, one page lists the whole inbox.
OnePage == ckpt = None => inbox = FirstPage

\* RunInv of a run that may be the first: it draws the line (base) itself.
GapFree(r) ==
    /\ NoGapUpTo(run[r].before)
    /\ NoGapUpTo(run[r].after)
    /\ pc[r] \in {"init", "complete"} => run[r].before = ckpt /\ run[r].after = ckpt
    /\ pc[r] \in {"loop", "deliver", "commit"} =>
         \A h \in InHand(r) : \A m \in (base + 1)..h : m \in Settled \union InHand(r)
    /\ pc[r] = "commit" => run[r].cur \in handled
    /\ pc[r] \notin {"init", "complete", "persist"} => InitialSyncCompleted

FirstStartInv ==
    /\ OneRunnerInv
    /\ NoGap
    /\ ~InitialSyncCompleted => handled = {} /\ base = None
    /\ \A r \in Runners : /\ pc[r] = "complete" => ~InitialSyncCompleted
                          /\ pc[r] # "idle" /\ ~run[r].dry => GapFree(r)

\* What is settled stays settled, and an installation that was set up stays so.
LEMMA NeverUndone ==
    ASSUME TypeOK, TypeOK', ckpt' >= ckpt, [Next]_vars
    PROVE  /\ handled \subseteq handled' /\ Settled \subseteq Settled'
           /\ InitialSyncCompleted => InitialSyncCompleted'
<1> USE DEF mail, durable
<1>1. CASE Arrive
  BY <1>1 DEF Arrive, Settled, TypeOK, InitialSyncCompleted, Legacy
<1>2. CASE \E m \in inbox : Archive(m)
  BY <1>2 DEF Archive, Settled, InitialSyncCompleted, Legacy
<1>3. ASSUME NEW r \in Runners, Progress(r) \/ Disturbance(r)
      PROVE  /\ handled \subseteq handled' /\ UNCHANGED mail
             /\ sync # "none" => sync' # "none"
             /\ stateFile => stateFile'
  <2>1. handled \subseteq handled' /\ UNCHANGED mail
    BY <1>3
      DEF Progress, Disturbance, Start, AlreadyInitialized, CompleteInitialSync,
          ChooseInitialCheckpoint, AnnounceSetup, ListMail, CheckpointNotFound,
          TakeMessage, DeliverOk, Commit, NoMoreMail, PersistResult, StartFails,
          AnnounceSetupFails, SourceFails, DeliverFails, CommitFails,
          PersistResultFails, Crash
  <2>2. sync' = sync \/ AnnounceSetup(r) \/ RecordInitialSync(r)
    BY <1>3
      DEF Progress, Disturbance, Start, AlreadyInitialized, CompleteInitialSync,
          ChooseInitialCheckpoint, ListMail, CheckpointNotFound,
          TakeMessage, DeliverOk, Commit, NoMoreMail, PersistResult, StartFails,
          AnnounceSetupFails, SourceFails, DeliverFails, CommitFails,
          PersistResultFails, Crash
  <2>3. stateFile' = stateFile \/ SnapshotState
    BY <1>3
      DEF Progress, Disturbance, Start, AlreadyInitialized, CompleteInitialSync,
          ChooseInitialCheckpoint, AnnounceSetup, ListMail, CheckpointNotFound,
          TakeMessage, DeliverOk, Commit, NoMoreMail, PersistResult, StartFails,
          AnnounceSetupFails, SourceFails, DeliverFails, CommitFails,
          PersistResultFails, Crash
  <2>4. (AnnounceSetup(r) \/ RecordInitialSync(r)) /\ sync # "none" => sync' # "none"
    BY DEF AnnounceSetup, RecordInitialSync
  <2>5. SnapshotState /\ stateFile => stateFile'
    BY DEF SnapshotState
  <2> QED BY <2>1, <2>2, <2>3, <2>4, <2>5
<1>4. CASE UNCHANGED vars
  BY <1>4 DEF vars, Settled, InitialSyncCompleted, Legacy
<1>5. ASSUME sync # "none" => sync' # "none", stateFile => stateFile'
      PROVE  InitialSyncCompleted => InitialSyncCompleted'
  <2>1. ckpt # None => ckpt' # None
    BY DEF TypeOK, None
  <2> QED BY <1>5, <2>1 DEF InitialSyncCompleted, Legacy
<1> QED BY <1>1, <1>2, <1>3, <1>4, <1>5 DEF Next, Settled

\* What a run knows stays true while the mailbox changes.
LEMMA GapFreeStays ==
    ASSUME handled \subseteq handled', Settled \subseteq Settled', base' = base,
           ckpt' = ckpt, InitialSyncCompleted => InitialSyncCompleted',
           NEW r, pc'[r] = pc[r], run'[r] = run[r], GapFree(r)
    PROVE  GapFree(r)'
BY DEF GapFree, NoGapUpTo, InHand

\* The mail in hand at a commit has no gap behind it.
LEMMA CommitPoint ==
    ASSUME TypeOK, NEW r \in Runners, AheadOfFrontier(r), GapFree(r), pc[r] = "commit"
    PROVE  NoGapUpTo(run[r].cur)
<1>1. run[r].cur \in Nat /\ run[r].todo \subseteq Nat /\ base \in Nat
  BY DEF TypeOK, RunState
<1>2. ASSUME NEW m \in (base + 1)..run[r].cur PROVE m \in Settled
  <2>1. m \in Settled \union InHand(r) /\ m \in Nat /\ m <= run[r].cur
    <3>1. run[r].cur \in InHand(r)
      BY DEF InHand
    <3>2. m \in Settled \union InHand(r)
      BY <3>1 DEF GapFree
    <3> QED BY <1>1, <3>2
  <2>2. m \notin run[r].todo
    BY <1>1, <2>1 DEF AheadOfFrontier
  <2>3. m = run[r].cur => m \in Settled
    BY DEF GapFree, Settled
  <2> QED BY <2>1, <2>2, <2>3 DEF InHand
<1> QED BY <1>2 DEF NoGapUpTo

\* A listing leaves nothing behind that is not settled: what lies before one of
\* its mails is before the checkpoint, gone from the inbox, or listed as well.
LEMMA ListingHasNoGap ==
    ASSUME TypeOK, OnePage, NoGap, NEW h \in Oldest(Pending(ckpt)), NEW m \in (base + 1)..h
    PROVE  m \in Settled \union Oldest(Pending(ckpt))
<1>1. Pending(ckpt) = {k \in inbox : k > ckpt}
  <2>1. \A k \in inbox : k > 0
    BY DEF TypeOK
  <2> QED BY <2>1 DEF Pending, OnePage, None
<1>2. h \in inbox /\ h \in 1..arrived /\ m \in Nat /\ m >= 1 /\ ckpt \in Nat /\ h \in Nat
  <2>1. h \in inbox
    BY <1>1 DEF Oldest
  <2>2. base \in Nat /\ inbox \subseteq 1..arrived /\ arrived \in Nat /\ ckpt \in Nat
    BY DEF TypeOK
  <2> QED BY <2>1, <2>2
<1>3. CASE m <= ckpt
  BY <1>2, <1>3 DEF NoGap, NoGapUpTo, TypeOK
<1>4. CASE m > ckpt /\ m \notin inbox
  BY <1>2, <1>4 DEF Settled, TypeOK
<1>5. CASE m > ckpt /\ m \in inbox
  <2>1. m \in Pending(ckpt)
    BY <1>1, <1>5
  <2>2. CASE m < h
    BY <2>1, <2>2, OldestDownClosed, PendingFinite
  <2>3. CASE m = h
    BY <2>3
  <2> QED BY <1>2, <2>2, <2>3 DEF TypeOK
<1> QED BY <1>2, <1>3, <1>4, <1>5

LEMMA FirstStartStep ==
    ASSUME \A r, s \in Runners : r = s, FirstStartInv, OnePage, [Next]_vars
    PROVE  FirstStartInv'
<1>1. /\ TypeOK /\ TypeOK' /\ OneRunnerInv' /\ ckpt \in Nat /\ ckpt' \in Nat /\ ckpt' >= ckpt
      /\ NoGap /\ (~InitialSyncCompleted => handled = {} /\ base = None)
  BY OneRunnerStep DEF FirstStartInv, OneRunnerInv, TypeOK
<1>2. /\ handled \subseteq handled' /\ Settled \subseteq Settled'
      /\ InitialSyncCompleted => InitialSyncCompleted'
  BY <1>1, NeverUndone
<1>3. ASSUME UNCHANGED <<ckpt, pc, run, handled, base>>,
             InitialSyncCompleted' = InitialSyncCompleted
      PROVE  FirstStartInv'
  <2>1. NoGap'
    BY <1>1, <1>2, <1>3 DEF NoGap, NoGapUpTo
  <2>2. ASSUME NEW q \in Runners
        PROVE  /\ pc'[q] = "complete" => ~InitialSyncCompleted'
               /\ pc'[q] # "idle" /\ ~run'[q].dry => GapFree(q)'
    BY <1>2, <1>3, GapFreeStays DEF FirstStartInv
  <2> QED BY <1>1, <1>3, <2>1, <2>2 DEF FirstStartInv
<1>4. CASE Arrive \/ (\E m \in inbox : Archive(m)) \/ UNCHANGED vars
  <2>1. UNCHANGED <<ckpt, pc, run, handled, base, sync, stateFile>>
    BY <1>4 DEF Arrive, Archive, vars, durable
  <2> QED BY <1>3, <2>1 DEF InitialSyncCompleted, Legacy
<1>5. ASSUME NEW r \in Runners, NoGap', ~InitialSyncCompleted' => handled' = {} /\ base' = None,
             pc'[r] = "complete" => ~InitialSyncCompleted',
             pc'[r] # "idle" /\ ~run'[r].dry => GapFree(r)'
      PROVE  FirstStartInv'
  BY <1>1, <1>5 DEF FirstStartInv
<1>6. ASSUME NEW r \in Runners, Progress(r) \/ Disturbance(r)
      PROVE  FirstStartInv'
  <2>1. /\ AheadOfFrontier(r)
        /\ pc[r] = "complete" => ~InitialSyncCompleted
        /\ pc[r] # "idle" /\ ~run[r].dry => GapFree(r)
        /\ run[r] \in RunState /\ run \in [Runners -> RunState] /\ pc \in [Runners -> Labels]
        /\ run[r].cur \in Nat /\ run[r].todo \subseteq Nat /\ run[r].dry \in BOOLEAN
    BY <1>1 DEF FirstStartInv, OneRunnerInv, TypeOK, RunState
  <2>2. ASSUME NEW c, base' = base, NoGapUpTo(c) PROVE \A m \in (base' + 1)..c : m \in Settled'
    BY <1>2, <2>2 DEF NoGapUpTo
  \* A step that notifies nobody and leaves the durable state to itself.
  <2>3. ASSUME base' = base, ckpt' = ckpt, handled' = handled,
               pc'[r] = "complete" => ~InitialSyncCompleted',
               pc'[r] # "idle" /\ ~run'[r].dry => GapFree(r)'
        PROVE  FirstStartInv'
    <3>1. NoGap'
      BY <1>1, <2>2, <2>3 DEF NoGap, NoGapUpTo
    <3> QED BY <1>1, <1>2, <1>5, <2>3, <3>1
  <2>4. ASSUME base' = base, ckpt' = ckpt, handled' = handled,
               pc'[r] = "persist", pc[r] # "idle",
               run'[r].before = run[r].before, run'[r].after = run[r].after,
               run'[r].dry = run[r].dry
        PROVE  FirstStartInv'
    <3>1. ASSUME ~run[r].dry PROVE GapFree(r)'
      BY <2>1, <2>2, <2>4, <3>1 DEF GapFree, NoGapUpTo
    <3> QED BY <2>3, <2>4, <3>1
  <2>5. CASE \E dry \in BOOLEAN : Start(r, dry)
    <3>1. /\ pc'[r] = "init" /\ run'[r].before = ckpt /\ run'[r].after = ckpt
          /\ ckpt' = ckpt /\ base' = base /\ handled' = handled
      BY <2>1, <2>5 DEF Start, Goto, FreshRun, durable
    <3>2. GapFree(r)'
      BY <1>1, <2>2, <3>1 DEF GapFree, NoGap, NoGapUpTo
    <3> QED BY <2>3, <3>1, <3>2
  <2>6. CASE AlreadyInitialized(r)
    <3>1. /\ pc[r] = "init" /\ pc'[r] \in {"announce", "list"} /\ run' = run
          /\ ckpt' = ckpt /\ base' = base /\ handled' = handled
          /\ run[r].dry \/ InitialSyncCompleted
      BY <2>1, <2>6 DEF AlreadyInitialized, Goto, durable
    <3>2. ASSUME ~run[r].dry PROVE GapFree(r)'
      BY <1>2, <2>1, <2>2, <3>1, <3>2 DEF GapFree, NoGapUpTo
    <3> QED BY <2>3, <3>1, <3>2
  <2>7. CASE ChooseInitialCheckpoint(r)
    <3>1. /\ pc[r] = "init" /\ pc'[r] = "complete" /\ ~InitialSyncCompleted /\ ~run[r].dry
          /\ run'[r].before = run[r].before /\ run'[r].after = run[r].after
          /\ ckpt' = ckpt /\ base' = base /\ handled' = handled
          /\ UNCHANGED <<sync, stateFile>>
      BY <2>1, <2>7 DEF ChooseInitialCheckpoint, Goto, durable, RunState
    <3>2. GapFree(r)'
      BY <1>2, <2>1, <2>2, <3>1 DEF GapFree, NoGapUpTo
    <3>3. ~InitialSyncCompleted'
      BY <3>1 DEF InitialSyncCompleted, Legacy
    <3> QED BY <2>3, <3>1, <3>2, <3>3
  \* The first initial_sync event draws the line: nothing lies between base
  \* and the checkpoint.
  <2>8. ASSUME pc[r] = "complete", RecordInitialSync(r), handled' = handled,
               pc'[r] \in {"announce", "persist"},
               \/ run'[r].before = run[r].cur /\ run'[r].after = run[r].cur
               \/ ~run[r].dry /\ run'[r].before = run[r].before
                  /\ run'[r].after = run[r].after
        PROVE  FirstStartInv'
    <3>1. /\ ~InitialSyncCompleted /\ handled = {} /\ sync = "none" /\ ckpt = None
      BY <1>1, <2>1, <2>8 DEF InitialSyncCompleted, Legacy
    <3>2. ckpt' = run[r].cur /\ base' = run[r].cur /\ sync' # "none"
      BY <2>8, <3>1 DEF RecordInitialSync
    <3>3. InitialSyncCompleted'
      BY <3>2 DEF InitialSyncCompleted
    <3>4. NoGap'
      BY <2>1, <3>2 DEF NoGap, NoGapUpTo
    <3>5. run'[r].before \in {0, run[r].cur} /\ run'[r].after \in {0, run[r].cur}
      BY <2>1, <2>8, <3>1 DEF GapFree, None
    <3>6. GapFree(r)'
      <4>1. NoGapUpTo(run[r].before)' /\ NoGapUpTo(run[r].after)'
        BY <2>1, <3>2, <3>5 DEF NoGapUpTo
      <4> QED BY <2>8, <3>3, <4>1 DEF GapFree, NoGapUpTo
    <3> QED BY <1>5, <2>8, <3>3, <3>4, <3>6
  <2>9. CASE CompleteInitialSync(r)
    <3>1. /\ pc[r] = "complete" /\ RecordInitialSync(r) /\ handled' = handled
          /\ pc'[r] = "announce" /\ run'[r].before = run[r].cur /\ run'[r].after = run[r].cur
      BY <2>1, <2>9 DEF CompleteInitialSync, Goto, RunState
    <3> QED BY <2>8, <3>1
  <2>10. CASE AnnounceSetup(r) \/ AnnounceSetupFails(r)
    <3>1. /\ pc[r] = "announce" /\ pc'[r] = "list" /\ run' = run
          /\ ckpt' = ckpt /\ base' = base /\ handled' = handled
      BY <2>1, <2>10 DEF AnnounceSetup, AnnounceSetupFails, Goto, durable
    <3>2. ASSUME ~run[r].dry PROVE GapFree(r)'
      BY <1>2, <2>1, <2>2, <3>1, <3>2 DEF GapFree, NoGapUpTo
    <3> QED BY <2>3, <3>1, <3>2
  <2>11. CASE ListMail(r)
    <3>1. /\ pc[r] = "list" /\ pc'[r] = "loop" /\ run'[r].todo = Oldest(Pending(run[r].before))
          /\ run'[r].before = run[r].before /\ run'[r].after = run[r].after
          /\ run'[r].dry = run[r].dry
          /\ ckpt' = ckpt /\ base' = base /\ handled' = handled
      BY <2>1, <2>11 DEF ListMail, Goto, durable, RunState
    <3>2. InHand(r)' = Oldest(Pending(ckpt))
      BY <2>1, <3>1 DEF AheadOfFrontier, InHand
    <3>3. \A h \in InHand(r)' : \A m \in (base' + 1)..h : m \in Settled' \union InHand(r)'
      BY <1>1, <1>2, <3>1, <3>2, ListingHasNoGap
    <3>4. ASSUME ~run[r].dry PROVE GapFree(r)'
      BY <1>2, <2>1, <2>2, <3>1, <3>3, <3>4 DEF GapFree, NoGapUpTo
    <3> QED BY <2>3, <3>1, <3>4
  <2>12. CASE \E m \in run[r].todo : TakeMessage(r, m)
    <3>1. PICK m \in run[r].todo : TakeMessage(r, m)
      BY <2>12
    <3>2. /\ pc[r] = "loop" /\ pc'[r] \in {"deliver", "commit"} /\ ckpt' = ckpt /\ base' = base
          /\ run'[r].todo = run[r].todo \ {m} /\ run'[r].cur = m
          /\ run'[r].before = run[r].before /\ run'[r].after = run[r].after
          /\ run'[r].dry = run[r].dry
          /\ run[r].dry => handled' = handled
          /\ pc'[r] = "commit" /\ ~run[r].dry => m \in handled'
      BY <2>1, <3>1 DEF TakeMessage, IsNext, Goto, durable, RunState
    <3>3. InHand(r)' = run[r].todo /\ InHand(r) = run[r].todo
      BY <3>1, <3>2 DEF InHand
    <3>4. ASSUME ~run[r].dry PROVE GapFree(r)' /\ InitialSyncCompleted'
      BY <1>2, <2>1, <2>2, <3>2, <3>3, <3>4 DEF GapFree, NoGapUpTo
    <3>5. NoGap'
      BY <1>1, <2>2, <3>2 DEF NoGap, NoGapUpTo
    <3> QED BY <1>1, <1>2, <1>5, <3>2, <3>4, <3>5
  <2>13. CASE DeliverOk(r)
    <3>1. /\ pc[r] = "deliver" /\ pc'[r] = "commit" /\ run' = run /\ ckpt' = ckpt /\ base' = base
          /\ run[r].dry => handled' = handled
          /\ ~run[r].dry => run[r].cur \in handled'
      BY <2>1, <2>13 DEF DeliverOk, Goto, durable
    <3>2. InHand(r)' = InHand(r)
      BY <3>1 DEF InHand
    <3>3. ASSUME ~run[r].dry PROVE GapFree(r)' /\ InitialSyncCompleted'
      BY <1>2, <2>1, <2>2, <3>1, <3>2, <3>3 DEF GapFree, NoGapUpTo
    <3>4. NoGap'
      BY <1>1, <2>2, <3>1 DEF NoGap, NoGapUpTo
    <3> QED BY <1>1, <1>2, <1>5, <3>1, <3>3, <3>4
  <2>14. CASE Commit(r)
    <3>1. /\ pc[r] = "commit" /\ pc'[r] = "loop" /\ run'[r].todo = run[r].todo
          /\ run'[r].before = run[r].before /\ run'[r].after = run[r].cur
          /\ run'[r].dry = run[r].dry /\ base' = base /\ handled' = handled
          /\ ckpt' = IF run[r].dry THEN ckpt ELSE run[r].cur
      BY <2>1, <2>14 DEF Commit, Goto, durable, RunState
    <3>2. InHand(r)' = run[r].todo /\ InHand(r) = run[r].todo \union {run[r].cur}
      BY <3>1 DEF InHand
    <3>3. ~run[r].dry => NoGapUpTo(run[r].cur)
      BY <1>1, <2>1, <3>1, CommitPoint
    <3>4. NoGap'
      <4>1. NoGapUpTo(ckpt')
        BY <1>1, <3>1, <3>3 DEF NoGap
      <4> QED BY <2>2, <3>1, <4>1 DEF NoGap, NoGapUpTo
    <3>5. ASSUME ~run[r].dry PROVE GapFree(r)'
      <4>1. run[r].cur \in Settled'
        BY <1>2, <2>1, <3>1, <3>5 DEF GapFree, Settled
      <4> QED BY <1>2, <2>1, <2>2, <3>1, <3>2, <3>3, <3>5, <4>1 DEF GapFree, NoGapUpTo
    <3> QED BY <1>1, <1>2, <1>5, <3>1, <3>4, <3>5
  <2>15. CASE CommitFails(r)
    <3>1. /\ ~run[r].dry /\ pc'[r] = "persist" /\ handled' = handled
          /\ run'[r].before = run[r].before /\ run'[r].after = run[r].after
          /\ run'[r].dry = run[r].dry
          /\ \/ ckpt' = ckpt /\ base' = base /\ pc[r] \in {"commit", "complete"}
             \/ pc[r] = "commit" /\ ckpt' = run[r].cur /\ base' = base
             \/ pc[r] = "complete" /\ RecordInitialSync(r)
      BY <2>1, <2>15 DEF CommitFails, Fail, Goto, durable, RunState
    <3>2. CASE ckpt' = ckpt /\ base' = base /\ pc[r] \in {"commit", "complete"}
      BY <2>4, <3>1, <3>2
    <3>3. CASE pc[r] = "commit" /\ ckpt' = run[r].cur /\ base' = base
      <4>1. NoGapUpTo(run[r].cur)
        BY <1>1, <2>1, <3>1, <3>3, CommitPoint
      <4>2. NoGap'
        BY <2>2, <3>3, <4>1 DEF NoGap, NoGapUpTo
      <4>3. GapFree(r)'
        BY <2>1, <2>2, <3>1, <3>3 DEF GapFree, NoGapUpTo
      <4>4. ~InitialSyncCompleted' => handled' = {} /\ base' = None
        BY <1>1, <1>2, <3>1, <3>3
      <4> QED BY <1>5, <3>1, <4>2, <4>3, <4>4
    <3>4. CASE pc[r] = "complete" /\ RecordInitialSync(r)
      BY <2>8, <3>1, <3>4
    <3> QED BY <3>1, <3>2, <3>3, <3>4
  <2>16. CASE \/ CheckpointNotFound(r) \/ SourceFails(r) \/ DeliverFails(r) \/ NoMoreMail(r)
    <3>1. /\ pc[r] # "idle" /\ pc'[r] = "persist" /\ ckpt' = ckpt /\ base' = base
          /\ handled' = handled
          /\ run'[r].before = run[r].before /\ run'[r].after = run[r].after
          /\ run'[r].dry = run[r].dry
      BY <2>1, <2>16 DEF CheckpointNotFound, SourceFails, DeliverFails, NoMoreMail,
         Fail, Goto, durable, RunState
    <3> QED BY <2>4, <3>1
  <2>17. CASE PersistResult(r) \/ PersistResultFails(r) \/ Crash(r)
    <3>1. pc'[r] = "idle" /\ ckpt' = ckpt /\ base' = base /\ handled' = handled
      BY <2>1, <2>17 DEF PersistResult, PersistResultFails, Crash, Goto, durable
    <3> QED BY <2>3, <3>1
  <2>18. CASE StartFails(r)
    <3>1. UNCHANGED <<ckpt, pc, run, handled, base>> /\ InitialSyncCompleted
      BY <2>18 DEF StartFails, InitialSyncCompleted, Legacy
    <3>2. InitialSyncCompleted' = InitialSyncCompleted
      BY <1>2, <3>1 DEF InitialSyncCompleted, Legacy
    <3> QED BY <1>3, <3>1, <3>2
  <2> QED BY <1>6, <2>5, <2>6, <2>7, <2>9, <2>10, <2>11, <2>12, <2>13, <2>14, <2>15,
             <2>16, <2>17, <2>18 DEF Progress, Disturbance
<1> QED BY <1>4, <1>6 DEF Next

LEMMA InitFirstStart == Init => FirstStartInv
<1> SUFFICES ASSUME Init PROVE FirstStartInv
  OBVIOUS
<1>1. TypeOK /\ \A r \in Runners : pc[r] = "idle"
  BY InitTypeOK DEF Init, InitFresh, InitInstalled, InitCommon
<1>2. ckpt = base /\ handled = {} /\ (~InitialSyncCompleted => base = None)
  BY DEF Init, InitFresh, InitInstalled, InitCommon, InitialSyncCompleted, Legacy
<1>3. NoGap
  BY <1>1, <1>2 DEF NoGap, NoGapUpTo, TypeOK
<1> QED BY <1>1, <1>2, <1>3 DEF FirstStartInv, OneRunnerInv, AheadOfFrontier

\* NoGap from the first start on: with one runner, and as long as one page of
\* the listing holds the whole inbox while there is no checkpoint, no mail is
\* ever left behind the checkpoint.  Without that condition it can be: the
\* listing of a run without a checkpoint ends after its first page.
THEOREM FirstStartTheorem ==
    ASSUME \A r, s \in Runners : r = s
    PROVE  Spec /\ []OnePage => []NoGap
<1>1. FirstStartInv /\ OnePage /\ [Next]_vars => FirstStartInv'
  BY FirstStartStep
<1>2. FirstStartInv => NoGap
  BY DEF FirstStartInv
<1> QED BY <1>1, <1>2, InitFirstStart, PTL DEF Spec

\* A step of the one runner maps to a step of module Frontier: the event of the
\* initial sync establishes the frontier, a commit moves it, everything else
\* settles mail or is a stutter.
LEMMA FirstStartImplements ==
    ASSUME FirstStartInv, FirstStartInv', [Next]_vars, ckpt' >= ckpt
    PROVE  [F!Next]_(F!vars)
<1>1. /\ TypeOK /\ TypeOK' /\ NoGap' /\ ckpt' \in Nat /\ Settled \subseteq Settled'
  BY NeverUndone DEF FirstStartInv, OneRunnerInv, TypeOK
<1>2. CASE UNCHANGED <<ckpt, base>>
  BY <1>1, <1>2 DEF F!Next, F!Settle, F!vars
<1>3. CASE ~UNCHANGED <<ckpt, base>>
  <2>1. PICK r \in Runners : Commit(r) \/ CommitFails(r) \/ CompleteInitialSync(r)
    BY <1>3, OnlyCommitsMove
  <2>2. UNCHANGED Settled
    BY <2>1 DEF Commit, CommitFails, CompleteInitialSync, Settled, mail
  <2>3. CASE base' = base
    <3>1. F!NoHoleUpTo(ckpt')
      BY <1>1, <2>2, <2>3 DEF NoGap, NoGapUpTo, F!NoHoleUpTo
    <3> QED BY <1>1, <2>2, <2>3, <3>1 DEF F!Next, F!MoveFrontier
  <2>4. CASE base' # base
    <3>1. pc[r] = "complete" /\ RecordInitialSync(r)
      BY <2>1, <2>4 DEF Commit, CommitFails, CompleteInitialSync, durable
    <3>2. ckpt = 0 /\ base = 0 /\ base' = ckpt'
      BY <2>4, <3>1 DEF FirstStartInv, OneRunnerInv, AheadOfFrontier, RecordInitialSync, None
    <3> QED BY <1>1, <2>2, <3>2 DEF F!Next, F!Establish
  <2> QED BY <2>3, <2>4
<1> QED BY <1>2, <1>3

\* ImplementsFrontier from the first start on, under the same condition: one
\* runner establishes the frontier once and never moves it past a hole.
THEOREM FirstStartRefinement ==
    ASSUME \A r, s \in Runners : r = s
    PROVE  Spec /\ []OnePage => ImplementsFrontier
<1>1. Init => F!Init
  <2> SUFFICES ASSUME Init PROVE F!Init
    OBVIOUS
  <2>1. TypeOK /\ ckpt = base
    BY InitTypeOK DEF Init, InitFresh, InitInstalled
  <2>2. Settled \in SUBSET Nat
    BY <2>1 DEF TypeOK, Settled
  <2> QED BY <2>1, <2>2 DEF F!Init, TypeOK
<1>2. FirstStartInv /\ OnePage /\ [Next]_vars => FirstStartInv'
  BY FirstStartStep
<1>3. FirstStartInv /\ FirstStartInv' /\ [Next]_vars => [F!Next]_(F!vars)
  BY OneRunnerStep, FirstStartImplements DEF FirstStartInv
<1> QED BY <1>1, <1>2, <1>3, InitFirstStart, PTL DEF Spec, ImplementsFrontier, F!Spec
=============================================================================
