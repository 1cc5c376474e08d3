-------------------------- MODULE GmailAccessProofs --------------------------
(***************************************************************************)
(* Proofs about GmailAccess, for any number of runs, any delays and any     *)
(* number of faults: type correctness, and that no recovery is announced    *)
(* for a transient issue nobody was alerted of.                             *)
(*                                                                         *)
(* The second needs one fact beside the types, RecordedAlertWasShown: the   *)
(* file never says that the operator was notified when they were not.  A    *)
(* run may be cut short between the post and the save, so the converse does *)
(* not hold, and need not.                                                  *)
(***************************************************************************)
EXTENDS GmailAccess, TLAPS

RecordedAlertWasShown == issue.notified => alarmed

IInv == TypeOK /\ RecordedAlertWasShown

-----------------------------------------------------------------------------
(* The parts of a step.                                                     *)

\* Where a run goes next keeps the types of what every run is doing.
LEMMA GotoType ==
    ASSUME TypeOK, NEW r \in Runners, NEW label \in Labels, Goto(r, label)
    PROVE  pc' \in [Runners -> Labels] /\ job' \in [Runners -> Job]
BY DEF TypeOK, Goto

\* So does the end of a run.
LEMMA EndType ==
    ASSUME TypeOK, NEW r \in Runners, End(r)
    PROVE  pc' \in [Runners -> Labels] /\ job' \in [Runners -> Job]
<1>1. NoJob \in Job
  BY RetriesPos DEF NoJob, Job
<1>2. "idle" \in Labels
  BY DEF Labels
<1> QED BY <1>1, <1>2 DEF TypeOK, End

\* And the turn to the report of refused credentials.
LEMMA RefuseType ==
    ASSUME TypeOK, NEW r \in Runners, NEW reason \in Reasons, Refuse(r, reason)
    PROVE  pc' \in [Runners -> Labels] /\ job' \in [Runners -> Job]
<1>1. [NoJob EXCEPT !.reason = reason] \in Job
  BY RetriesPos DEF NoJob, Job
<1>2. "mark" \in Labels
  BY DEF Labels
<1> QED BY <1>1, <1>2 DEF TypeOK, Refuse

\* A run that drops what it was doing and goes on elsewhere.
LEMMA FreshType ==
    ASSUME TypeOK, NEW r \in Runners, NEW label \in Labels,
           pc' = [pc EXCEPT ![r] = label], job' = [job EXCEPT ![r] = NoJob]
    PROVE  pc' \in [Runners -> Labels] /\ job' \in [Runners -> Job]
<1>1. NoJob \in Job
  BY RetriesPos DEF NoJob, Job
<1> QED BY <1>1 DEF TypeOK

\* A fault stays within the bound.
LEMMA FaultType ==
    ASSUME TypeOK, Fault
    PROVE  faults' \in 0..MaxFaults
BY MaxFaultsNat DEF TypeOK, Fault

\* A noted issue is an issue, and noting it does not claim an alert.
LEMMA SeenType ==
    ASSUME TypeOK
    PROVE  Seen \in Issue /\ Seen.notified = issue.notified
<1> DEFINE aged == IF issue.age = Never THEN 0 ELSE issue.age
<1>1. aged \in 0..MinDuration \union {Never}
  BY TimesNat DEF TypeOK, Issue
<1>2. Seen = [issue EXCEPT !.active = TRUE, !.age = aged]
  BY DEF Seen, TypeOK, Issue
<1> HIDE DEF aged
<1> QED BY <1>1, <1>2 DEF TypeOK, Issue

\* Whatever a writer leaves in token.json is a token.
LEMMA WrittenType == Written \subseteq Tokens
BY DEF Written, Tokens, Unusable

LEMMA NoIssueType == NoIssue \in Issue /\ ~NoIssue.notified
BY DEF NoIssue, Issue, Never

\* The step after a note.
LEMMA AfterNoteType ==
    ASSUME TypeOK, NEW r \in Runners, AfterNote(r)
    PROVE  pc' \in [Runners -> Labels] /\ job' \in [Runners -> Job]
<1>1. CASE Goto(r, "note")
  BY <1>1, GotoType, "note" \in Labels DEF Labels
<1>2. CASE End(r)
  BY <1>2, EndType
<1> QED BY <1>1, <1>2 DEF AfterNote

-----------------------------------------------------------------------------
(* The invariant.                                                           *)

LEMMA InitIInv == Init => IInv
<1> SUFFICES ASSUME Init PROVE IInv
  OBVIOUS
<1>1. NoJob \in Job /\ "idle" \in Labels
  BY RetriesPos DEF NoJob, Job, Labels
<1>2. pc \in [Runners -> Labels] /\ job \in [Runners -> Job]
  BY <1>1 DEF Init
<1>3. token \in Tokens /\ tokenIssue \in Reasons \union {None} /\ faults \in 0..MaxFaults
  BY MaxFaultsNat DEF Init, Tokens, Unusable
<1> QED BY <1>2, <1>3, NoIssueType DEF Init, IInv, TypeOK, RecordedAlertWasShown

\* What a run does when nothing goes wrong in it.
LEMMA StepIInv ==
    ASSUME IInv, NEW r \in Runners, Step(r)
    PROVE  IInv'
<1> USE DEF IInv
<1> USE DEF RecordedAlertWasShown
<1> USE DEF notes, tokenFile
<1>1. CASE Begin(r)
  <2>1. "recover" \in Labels
    BY DEF Labels
  <2> QED BY <1>1, <2>1, GotoType DEF Begin, TypeOK
<1>2. CASE ClearSilently(r)
  <2>1. "auth" \in Labels
    BY DEF Labels
  <2> QED BY <1>2, <2>1, GotoType, NoIssueType DEF ClearSilently, Clear, TypeOK
<1>3. CASE AnnounceRecovery(r)
  <2>1. "auth" \in Labels
    BY DEF Labels
  <2> QED BY <1>3, <2>1, GotoType, NoIssueType DEF AnnounceRecovery, Clear, TypeOK
<1>4. CASE LoadUsable(r)
  <2>1. "build" \in Labels /\ "refresh" \in Labels
    BY DEF Labels
  <2>2. pc' \in [Runners -> Labels] /\ job' \in [Runners -> Job]
    <3>1. CASE token = "valid"
      BY <1>4, <2>1, <3>1, GotoType DEF LoadUsable
    <3>2. CASE token # "valid"
      BY <1>4, <2>1, <3>2, GotoType DEF LoadUsable
    <3> QED BY <3>1, <3>2
  <2> QED BY <1>4, <2>2 DEF LoadUsable, TypeOK
<1>5. CASE LoadUnusable(r)
  <2>1. token \in Reasons
    BY <1>5 DEF LoadUnusable, Reasons
  <2> QED BY <1>5, <2>1, RefuseType DEF LoadUnusable, TypeOK
<1>6. CASE RefreshOk(r)
  <2>1. "write" \in Labels
    BY DEF Labels
  <2> QED BY <1>6, <2>1, GotoType DEF RefreshOk, TypeOK
<1>7. CASE Truncate(r)
  <2>1. "writing" \in Labels /\ "unreadable" \in Tokens
    BY DEF Labels, Tokens, Unusable
  <2> QED BY <1>7, <2>1, GotoType DEF Truncate, TypeOK
<1>8. CASE WriteToken(r)
  <2>1. "build" \in Labels
    BY DEF Labels
  <2> QED BY <1>8, <2>1, FreshType, WrittenType DEF WriteToken, TypeOK
<1>9. CASE Build(r)
  <2>1. "restored" \in Labels
    BY DEF Labels
  <2> QED BY <1>9, <2>1, GotoType DEF Build, TypeOK
<1>10. CASE TokenRestored(r)
  <2>1. "list" \in Labels
    BY DEF Labels
  <2> QED BY <1>10, <2>1, GotoType DEF TokenRestored, ClearTokenIssue, TypeOK
<1>11. CASE ListEnds(r)
  BY <1>11, EndType DEF ListEnds, TypeOK
<1>12. CASE Note(r)
  BY <1>12, AfterNoteType, SeenType DEF Note, TypeOK
<1>13. CASE NoteAndAlert(r)
  <2>1. issue' \in Issue
    <3>1. Seen \in Issue /\ 0 \in 0..Cooldown \union {Never}
      BY SeenType, TimesNat
    <3> QED BY <1>13, <3>1 DEF NoteAndAlert, Issue
  <2> QED BY <1>13, <2>1, AfterNoteType DEF NoteAndAlert, TypeOK
<1>14. CASE MarkTokenIssue(r)
  <2>1. job[r].reason \in Reasons \union {None}
    BY DEF TypeOK, Job
  <2>2. pc' \in [Runners -> Labels] /\ job' \in [Runners -> Job]
    <3>1. CASE tokenIssue = job[r].reason
      BY <1>14, <3>1, EndType DEF MarkTokenIssue
    <3>2. CASE tokenIssue # job[r].reason
      <4>1. "alert" \in Labels
        BY DEF Labels
      <4> QED BY <1>14, <3>2, <4>1, GotoType DEF MarkTokenIssue
    <3> QED BY <3>1, <3>2
  <2> QED BY <1>14, <2>1, <2>2 DEF MarkTokenIssue, LastReason, TypeOK
<1>15. CASE AlertTokenIssue(r)
  BY <1>15, EndType DEF AlertTokenIssue, TypeOK
<1> QED BY <1>1, <1>2, <1>3, <1>4, <1>5, <1>6, <1>7, <1>8, <1>9, <1>10, <1>11,
           <1>12, <1>13, <1>14, <1>15 DEF Step

\* What Google answers otherwise.
LEMMA FailsIInv ==
    ASSUME IInv, NEW r \in Runners, Fails(r)
    PROVE  IInv'
<1> USE DEF IInv
<1> USE DEF RecordedAlertWasShown
<1> USE DEF notes, tokenFile
<1>1. CASE RefreshAgain(r)
  <2>1. [job[r] EXCEPT !.attempt = @ + 1] \in Job
    BY <1>1, RetriesPos DEF RefreshAgain, TypeOK, Job
  <2>2. job' = [job EXCEPT ![r] = [job[r] EXCEPT !.attempt = @ + 1]]
    BY <1>1 DEF RefreshAgain
  <2>3. job' \in [Runners -> Job]
    BY <2>1, <2>2 DEF TypeOK
  <2> QED BY <1>1, <2>3 DEF RefreshAgain, TypeOK
<1>2. CASE RefreshGivenUp(r)
  <2>1. "client" \in Labels
    BY DEF Labels
  <2> QED BY <1>2, <2>1, FreshType DEF RefreshGivenUp, TypeOK
<1>3. CASE RefreshRejected(r)
  <2>1. "rejected" \in Reasons
    BY DEF Reasons
  <2> QED BY <1>3, <2>1, RefuseType DEF RefreshRejected, TypeOK
<1>4. CASE BuildFails(r)
  <2>1. "client" \in Labels
    BY DEF Labels
  <2>2. pc' \in [Runners -> Labels] /\ job' \in [Runners -> Job]
    BY <1>4, <2>1, GotoType, EndType DEF BuildFails
  <2> QED BY <1>4, <2>2 DEF BuildFails, TypeOK
<1>5. CASE ListFails(r)
  <2>1. "note" \in Labels
    BY DEF Labels
  <2> QED BY <1>5, <2>1, GotoType DEF ListFails, TypeOK
<1> QED BY <1>1, <1>2, <1>3, <1>4, <1>5 DEF Fails

\* What is lost on the way: a post, a write, or the process.
LEMMA DisturbanceIInv ==
    ASSUME IInv, NEW r \in Runners, Disturbance(r)
    PROVE  IInv'
<1> USE DEF IInv
<1> USE DEF RecordedAlertWasShown
<1> USE DEF notes, tokenFile
<1>1. CASE AnnounceFails(r)
  <2>1. "auth" \in Labels
    BY DEF Labels
  <2> QED BY <1>1, <2>1, GotoType, FaultType DEF AnnounceFails, TypeOK
<1>2. CASE ClearFails(r)
  <2>1. "note" \in Labels
    BY DEF Labels
  <2> QED BY <1>2, <2>1, GotoType, FaultType DEF ClearFails, TypeOK
<1>3. CASE WriteTokenFails(r)
  <2>1. "note" \in Labels
    BY DEF Labels
  <2> QED BY <1>3, <2>1, FreshType, FaultType DEF WriteTokenFails, TypeOK
<1>4. CASE TokenRecoveryNotAnnounced(r)
  <2>1. "list" \in Labels
    BY DEF Labels
  <2> QED BY <1>4, <2>1, GotoType, FaultType DEF TokenRecoveryNotAnnounced, TypeOK
<1>5. CASE ClearTokenIssueFails(r)
  BY <1>5, EndType, FaultType DEF ClearTokenIssueFails, TypeOK
<1>6. CASE NoteAlertFails(r)
  BY <1>6, AfterNoteType, FaultType, SeenType DEF NoteAlertFails, NotedUnsent, TypeOK
<1>7. CASE NoteFails(r)
  <2>1. alarmed' \in BOOLEAN /\ (alarmed => alarmed')
    BY <1>7 DEF NoteFails, TypeOK, AlertDue
  <2> QED BY <1>7, <2>1, AfterNoteType, FaultType DEF NoteFails, TypeOK
<1>8. CASE MarkTokenIssueFails(r)
  <2>1. "note" \in Labels
    BY DEF Labels
  <2> QED BY <1>8, <2>1, FreshType, FaultType DEF MarkTokenIssueFails, TypeOK
<1>9. CASE Crash(r)
  BY <1>9, EndType, FaultType DEF Crash, TypeOK
<1> QED BY <1>1, <1>2, <1>3, <1>4, <1>5, <1>6, <1>7, <1>8, <1>9 DEF Disturbance

\* The token lapses, the operator renews it, time passes.
LEMMA OutsideIInv ==
    ASSUME IInv, Expire \/ Reauth \/ Tick
    PROVE  IInv'
<1> USE DEF IInv
<1> USE DEF RecordedAlertWasShown
<1> USE DEF notes, tokenFile
<1>1. CASE Expire
  BY <1>1 DEF Expire, TypeOK, Tokens, Unusable
<1>2. CASE Reauth
  <2>1. CASE ReauthTruncates
    BY <2>1 DEF ReauthTruncates, TypeOK, Tokens, Unusable
  <2>2. CASE ReauthWrites
    BY <2>2, WrittenType DEF ReauthWrites, TypeOK
  <2>3. CASE ReauthFails
    BY <2>3, FaultType DEF ReauthFails, TypeOK
  <2> QED BY <1>2, <2>1, <2>2, <2>3 DEF Reauth
<1>3. CASE Tick
  <2>1. Older(issue.age, MinDuration) \in 0..MinDuration \union {Never}
    BY TimesNat DEF TypeOK, Issue, Older, Never
  <2>2. Older(issue.quiet, Cooldown) \in 0..Cooldown \union {Never}
    BY TimesNat DEF TypeOK, Issue, Older, Never
  <2>3. issue' \in Issue /\ issue'.notified = issue.notified
    BY <1>3, <2>1, <2>2 DEF Tick, TypeOK, Issue
  <2> QED BY <1>3, <2>3 DEF Tick, TypeOK
<1> QED BY <1>1, <1>2, <1>3

LEMMA NextIInv == IInv /\ [Next]_vars => IInv'
<1>1. ASSUME IInv, NEW r \in Runners, Step(r) \/ Fails(r) \/ Disturbance(r)
      PROVE  IInv'
  BY <1>1, StepIInv, FailsIInv, DisturbanceIInv
<1>2. ASSUME IInv, UNCHANGED vars
      PROVE  IInv'
  BY <1>2 DEF IInv, TypeOK, RecordedAlertWasShown, vars, notes, tokenFile
<1> QED BY <1>1, <1>2, OutsideIInv DEF Next

\* The types of token.json, of the transient and token keys of state.json and of
\* every run are kept, and a recorded alert was shown.
THEOREM GmailInvariance == Spec => []TypeOK /\ []RecordedAlertWasShown
<1>1. IInv => TypeOK /\ RecordedAlertWasShown
  BY DEF IInv
<1> QED BY InitIInv, NextIInv, <1>1, PTL DEF Spec

\* A recovery is only announced after an alert for the same issue was shown,
\* whatever posts and saves fail in between and however many runs overlap
\* (notify_recovery_if_needed, record_transient_issue).
THEOREM RecoveryTheorem == Spec => RecoveryFollowsAlert
<1> DEFINE A == \A r \in Runners : AnnounceRecovery(r) => alarmed
<1>1. IInv /\ [Next]_vars => [A]_vars
  BY DEF IInv, RecordedAlertWasShown, AnnounceRecovery
<1>2. RecoveryFollowsAlert <=> [][A]_vars
  BY DEF RecoveryFollowsAlert
<1> QED BY InitIInv, NextIInv, <1>1, <1>2, PTL DEF Spec
=============================================================================
