----------------------------- MODULE GmailAccess -----------------------------
(***************************************************************************)
(* How a run gets at Gmail: the credentials of token.json (gmail_auth.py,  *)
(* gmail_client.py), the listing (gmail_source.py), and what it writes     *)
(* down about a source that fails (gmail_transient_state.py).              *)
(*                                                                         *)
(* The transient state file is read, changed and saved under its lock, and *)
(* messages about it are posted under that lock too, so these sections are *)
(* single steps; one that is cut short may have posted without saving.     *)
(* token.json has no lock and is written in place.                         *)
(*                                                                         *)
(* Times are kept as ages in ticks, up to the limit they are compared to.  *)
(* Runs here are neither dry nor the first of an installation.             *)
(***************************************************************************)
EXTENDS Integers

CONSTANTS
    Runners,      \* processes that execute run_once
    MinDuration,  \* transient_alert_min_duration_seconds
    Cooldown,     \* transient_alert_cooldown_seconds
    Retries,      \* attempts of one token refresh
    MaxFaults     \* bound on failed posts, failed writes and kills

ASSUME TimesNat     == MinDuration \in Nat /\ Cooldown \in Nat
ASSUME RetriesPos   == Retries \in Nat \ {0}
ASSUME MaxFaultsNat == MaxFaults \in Nat

None == "none"
Never == -1    \* the age of what did not happen

VARIABLES
    token,       \* what token.json holds
    reauth,      \* is amazon-notify --reauth writing it
    issue,       \* the transient_network_issue keys
    tokenIssue,  \* token_issue_reason, None when no issue is active
    alarmed,     \* an alert for the issue was shown (specification only)
    pc, job,     \* what every run is doing
    faults

tokenFile == <<token, reauth>>
notes     == <<issue, tokenIssue, alarmed>>
vars      == <<tokenFile, notes, pc, job, faults>>

\* What is wrong with a token that needs the operator.
Unusable == {"missing", "unreadable", "no_refresh"}
Reasons  == Unusable \union {"rejected"}
Tokens   == Unusable \union {"valid", "expired"}

Issue == [active: BOOLEAN, notified: BOOLEAN,
          age: 0..MinDuration \union {Never},    \* since first_seen_at
          quiet: 0..Cooldown \union {Never}]     \* since last_alert_at

NoIssue == [active |-> FALSE, notified |-> FALSE, age |-> Never, quiet |-> Never]

Job == [attempt: 1..Retries, reason: Reasons \union {None}]
NoJob == [attempt |-> 1, reason |-> None]

Labels == {"idle", "recover", "auth", "refresh", "write", "writing", "build",
           "restored", "list", "client", "note", "mark", "alert"}

Init ==
    /\ token \in {"missing", "valid"} /\ reauth = FALSE
    /\ issue = NoIssue
    /\ tokenIssue = None
    /\ alarmed = FALSE
    /\ pc = [r \in Runners |-> "idle"]
    /\ job = [r \in Runners |-> NoJob]
    /\ faults = 0

Goto(r, label) == pc' = [pc EXCEPT ![r] = label] /\ UNCHANGED job

End(r) == pc' = [pc EXCEPT ![r] = "idle"] /\ job' = [job EXCEPT ![r] = NoJob]

\* The credentials are refused for a reason.
Refuse(r, reason) ==
    /\ pc' = [pc EXCEPT ![r] = "mark"]
    /\ job' = [job EXCEPT ![r] = [NoJob EXCEPT !.reason = reason]]

Fault == faults < MaxFaults /\ faults' = faults + 1

-----------------------------------------------------------------------------
(* notify_recovery_if_needed, the first thing a run does.                    *)

Begin(r) ==
    /\ pc[r] = "idle"
    /\ Goto(r, "recover")
    /\ UNCHANGED <<tokenFile, notes, faults>>

Clear == issue' = NoIssue /\ alarmed' = FALSE

\* Nothing to announce: the issue was never alerted, or there is none.
\* (Mutant: an issue that was never alerted is left open.)
ReturnSilently(r) ==
    /\ pc[r] = "recover"
    /\ ~issue.notified
    /\ Goto(r, "auth")
    /\ UNCHANGED <<tokenFile, notes, faults>>

ClearSilently(r) ==
    /\ pc[r] = "recover"
    /\ ~issue.notified
    /\ Clear
    /\ Goto(r, "auth")
    /\ UNCHANGED <<tokenFile, tokenIssue, faults>>

\* The recovery is announced.
AnnounceRecovery(r) ==
    /\ pc[r] = "recover"
    /\ issue.notified
    /\ Clear
    /\ Goto(r, "auth")
    /\ UNCHANGED <<tokenFile, tokenIssue, faults>>

\* It could not be announced, and is announced by a later run.
AnnounceFails(r) ==
    /\ pc[r] = "recover"
    /\ issue.notified
    /\ Fault
    /\ Goto(r, "auth")
    /\ UNCHANGED <<tokenFile, notes>>

\* OSError: an unexpected error of the run.
ClearFails(r) ==
    /\ pc[r] = "recover"
    /\ issue.active
    /\ Fault
    /\ Goto(r, "note")
    /\ UNCHANGED <<tokenFile, notes>>

-----------------------------------------------------------------------------
(* get_gmail_service_with_status.                                            *)

LoadUsable(r) ==
    /\ pc[r] = "auth"
    /\ token \notin Unusable
    /\ Goto(r, IF token = "valid" THEN "build" ELSE "refresh")
    /\ UNCHANGED <<tokenFile, notes, faults>>

LoadUnusable(r) ==
    /\ pc[r] = "auth"
    /\ token \in Unusable
    /\ Refuse(r, token)
    /\ UNCHANGED <<tokenFile, notes, faults>>

RefreshOk(r) ==
    /\ pc[r] = "refresh"
    /\ Goto(r, "write")
    /\ UNCHANGED <<tokenFile, notes, faults>>

\* A network error is tried again.  (Mutant: one attempt too many.)
RefreshOnceMore(r) ==
    /\ pc[r] = "refresh"
    /\ job[r].attempt <= Retries
    /\ job' = [job EXCEPT ![r].attempt = @ + 1]
    /\ UNCHANGED <<pc, tokenFile, notes, faults>>

RefreshAgain(r) ==
    /\ pc[r] = "refresh"
    /\ job[r].attempt < Retries
    /\ job' = [job EXCEPT ![r].attempt = @ + 1]
    /\ UNCHANGED <<pc, tokenFile, notes, faults>>

\* In the end it is noted as a transient issue.
RefreshGivenUp(r) ==
    /\ pc[r] = "refresh"
    /\ job[r].attempt = Retries
    /\ pc' = [pc EXCEPT ![r] = "client"]
    /\ job' = [job EXCEPT ![r] = NoJob]
    /\ UNCHANGED <<tokenFile, notes, faults>>

RefreshRejected(r) ==
    /\ pc[r] = "refresh"
    /\ Refuse(r, "rejected")
    /\ UNCHANGED <<tokenFile, notes, faults>>

\* open("w") truncates token.json ...
Truncate(r) ==
    /\ pc[r] = "write"
    /\ token' = "unreadable"
    /\ Goto(r, "writing")
    /\ UNCHANGED <<reauth, notes, faults>>

\* ... and the credentials are written from its start.  Over those of a writer
\* that came in between, the shorter text keeps the tail of the longer.
Written == IF token = "unreadable" THEN {"valid"} ELSE {"valid", "unreadable"}

WriteToken(r) ==
    /\ pc[r] = "writing"
    /\ token' \in Written
    /\ pc' = [pc EXCEPT ![r] = "build"] /\ job' = [job EXCEPT ![r] = NoJob]
    /\ UNCHANGED <<reauth, notes, faults>>

\* OSError, from either.
WriteTokenFails(r) ==
    /\ pc[r] \in {"write", "writing"}
    /\ Fault
    /\ pc' = [pc EXCEPT ![r] = "note"] /\ job' = [job EXCEPT ![r] = NoJob]
    /\ UNCHANGED <<tokenFile, notes>>

\* _build_gmail_service.
Build(r) ==
    /\ pc[r] = "build"
    /\ Goto(r, "restored")
    /\ UNCHANGED <<tokenFile, notes, faults>>

BuildFails(r) ==
    /\ pc[r] = "build"
    /\ Goto(r, "client") \/ End(r)
    /\ UNCHANGED <<tokenFile, notes, faults>>

\* notify_token_recovery_if_needed.  (Mutant: the issue is left active.)
KeepTokenIssue == UNCHANGED tokenIssue
ClearTokenIssue == tokenIssue' = None

TokenRestored(r) ==
    /\ pc[r] = "restored"
    /\ ClearTokenIssue
    /\ Goto(r, "list")
    /\ UNCHANGED <<tokenFile, issue, alarmed, faults>>

TokenRecoveryNotAnnounced(r) ==
    /\ pc[r] = "restored"
    /\ tokenIssue # None
    /\ Fault
    /\ Goto(r, "list")
    /\ UNCHANGED <<tokenFile, notes>>

\* OSError: taken for a token that cannot be used.
ClearTokenIssueFails(r) ==
    /\ pc[r] = "restored"
    /\ tokenIssue # None
    /\ Fault
    /\ End(r)
    /\ UNCHANGED <<tokenFile, notes>>

-----------------------------------------------------------------------------
(* The listing.                                                             *)

\* Also a permanent error, which is left to the incident lifecycle.
ListEnds(r) ==
    /\ pc[r] = "list"
    /\ End(r)
    /\ UNCHANGED <<tokenFile, notes, faults>>

\* A network error that outlasts its retries, or an unexpected one.
ListFails(r) ==
    /\ pc[r] = "list"
    /\ Goto(r, "note")
    /\ UNCHANGED <<tokenFile, notes, faults>>

-----------------------------------------------------------------------------
(* record_transient_issue: by the Gmail client, and once more by the run,    *)
(* to which the client's failure is a TransientSourceError.                  *)

Seen == [issue EXCEPT !.active = TRUE, !.age = IF @ = Never THEN 0 ELSE @]

\* should_send_transient_alert.
AlertDue == Seen.age = MinDuration /\ Seen.quiet \in {Never, Cooldown}

AfterNote(r) == IF pc[r] = "client" THEN Goto(r, "note") ELSE End(r)

Note(r) ==
    /\ pc[r] \in {"client", "note"}
    /\ ~AlertDue
    /\ issue' = Seen
    /\ AfterNote(r)
    /\ UNCHANGED <<tokenFile, tokenIssue, alarmed, faults>>

NoteAndAlert(r) ==
    /\ pc[r] \in {"client", "note"}
    /\ AlertDue
    /\ issue' = [Seen EXCEPT !.notified = TRUE, !.quiet = 0]
    /\ alarmed' = TRUE
    /\ AfterNote(r)
    /\ UNCHANGED <<tokenFile, tokenIssue, faults>>

\* What is kept of an alert that Discord did not take.  (Mutant: it counts.)
NotedAsSent == [Seen EXCEPT !.notified = TRUE]
NotedUnsent == Seen

NoteAlertFails(r) ==
    /\ pc[r] \in {"client", "note"}
    /\ AlertDue
    /\ Fault
    /\ issue' = NotedUnsent
    /\ AfterNote(r)
    /\ UNCHANGED <<tokenFile, tokenIssue, alarmed>>

\* OSError, possibly after the alert was shown.
NoteFails(r) ==
    /\ pc[r] \in {"client", "note"}
    /\ Fault
    /\ alarmed' \in {alarmed, alarmed \/ AlertDue}
    /\ AfterNote(r)
    /\ UNCHANGED <<tokenFile, issue, tokenIssue>>

-----------------------------------------------------------------------------
(* record_token_issue_and_maybe_alert.                                       *)

\* The reason on record.  (Mutant: an issue that is active keeps the one it has.)
FirstReason(reason) == IF tokenIssue = None THEN reason ELSE tokenIssue
LastReason(reason) == reason

\* Noted first; only a new reason is alerted.
MarkTokenIssue(r) ==
    /\ pc[r] = "mark"
    /\ tokenIssue' = LastReason(job[r].reason)
    /\ IF tokenIssue = job[r].reason THEN End(r) ELSE Goto(r, "alert")
    /\ UNCHANGED <<tokenFile, issue, alarmed, faults>>

MarkTokenIssueFails(r) ==
    /\ pc[r] = "mark"
    /\ Fault
    /\ pc' = [pc EXCEPT ![r] = "note"] /\ job' = [job EXCEPT ![r] = NoJob]
    /\ UNCHANGED <<tokenFile, notes>>

\* Whether Discord takes it or not, it is not sent again.
AlertTokenIssue(r) ==
    /\ pc[r] = "alert"
    /\ End(r)
    /\ UNCHANGED <<tokenFile, notes, faults>>

-----------------------------------------------------------------------------

Crash(r) ==
    /\ pc[r] # "idle"
    /\ Fault
    /\ End(r)
    /\ UNCHANGED <<tokenFile, notes>>

\* The access token lapses, with or without a refresh token beside it.
Expire ==
    /\ token = "valid"
    /\ token' \in {"expired", "no_refresh"}
    /\ UNCHANGED <<reauth, notes, pc, job, faults>>

\* amazon-notify --reauth has the operator's consent and truncates the file ...
ReauthTruncates ==
    /\ ~reauth /\ reauth' = TRUE
    /\ token' = "unreadable"
    /\ UNCHANGED <<notes, pc, job, faults>>

\* ... writes it ...
ReauthWrites ==
    /\ reauth /\ reauth' = FALSE
    /\ token' \in Written
    /\ UNCHANGED <<notes, pc, job, faults>>

\* ... or fails to, or is killed.
ReauthFails ==
    /\ reauth /\ reauth' = FALSE
    /\ Fault
    /\ UNCHANGED <<token, notes, pc, job>>

Reauth == ReauthTruncates \/ ReauthWrites \/ ReauthFails

Older(age, limit) == IF age \in {Never, limit} THEN age ELSE age + 1

Tick ==
    /\ issue' = [issue EXCEPT !.age = Older(@, MinDuration), !.quiet = Older(@, Cooldown)]
    /\ UNCHANGED <<tokenFile, tokenIssue, alarmed, pc, job, faults>>

Fails(r) ==
    \/ RefreshAgain(r) \/ RefreshGivenUp(r) \/ RefreshRejected(r)
    \/ BuildFails(r) \/ ListFails(r)

Step(r) ==
    \/ Begin(r) \/ ClearSilently(r) \/ AnnounceRecovery(r)
    \/ LoadUsable(r) \/ LoadUnusable(r) \/ RefreshOk(r)
    \/ Truncate(r) \/ WriteToken(r) \/ Build(r) \/ TokenRestored(r)
    \/ ListEnds(r) \/ Note(r) \/ NoteAndAlert(r)
    \/ MarkTokenIssue(r) \/ AlertTokenIssue(r)

Disturbance(r) ==
    \/ AnnounceFails(r) \/ ClearFails(r) \/ WriteTokenFails(r)
    \/ TokenRecoveryNotAnnounced(r) \/ ClearTokenIssueFails(r)
    \/ NoteAlertFails(r) \/ NoteFails(r) \/ MarkTokenIssueFails(r) \/ Crash(r)

Next ==
    \/ \E r \in Runners : Step(r) \/ Fails(r) \/ Disturbance(r)
    \/ Expire \/ Reauth \/ Tick

Spec == Init /\ [][Next]_vars

\* Runs go on, and an age that runs again and again grows; how Gmail answers is
\* anybody's guess.
FairSpec == Spec /\ (\A r \in Runners : WF_vars(Step(r) \/ Fails(r))) /\ SF_vars(Tick)

-----------------------------------------------------------------------------
(* Properties.                                                              *)

TypeOK ==
    /\ token \in Tokens /\ reauth \in BOOLEAN
    /\ issue \in Issue
    /\ tokenIssue \in Reasons \union {None}
    /\ alarmed \in BOOLEAN
    /\ pc \in [Runners -> Labels]
    /\ job \in [Runners -> Job]
    /\ faults \in 0..MaxFaults

\* A recovery is only announced after an alert for the same issue was shown,
\* whichever runs recorded and alerted it (OPERATIONS.en.md: a failure that never
\* crossed the threshold is "silently cleared").
RecoveryFollowsAlert ==
    [][\A r \in Runners : AnnounceRecovery(r) => alarmed]_vars

\* A transient issue does not outlive the failures: when from some time on no
\* run fails for a transient reason, it is closed.
IssueCloses ==
    <>[][\A r \in Runners : ~ListFails(r) /\ ~RefreshGivenUp(r) /\ ~BuildFails(r)]_vars
        => <>[](~issue.active)

\* A token that stays unusable is on record as such, with its reason, in the
\* end and for as long as it lasts.
TokenIssueReported ==
    \A t \in Unusable : <>[](token = t) => <>[](tokenIssue = t)

\* A token issue ends with a token that works.
TokenIssueCloses ==
    /\ <>[](token \in {"valid", "expired"})
    /\ <>[][\A r \in Runners : ~RefreshGivenUp(r) /\ ~RefreshRejected(r) /\ ~BuildFails(r)]_vars
    => <>[](tokenIssue = None)

\* Failures that go on are alerted in the end (IMPLEMENTATION_RATIONALE.en.md:
\* "notify on persistent failures").
PersistentFailureAlerted ==
    /\ <>[](token = "valid")
    /\ <>[][\A r \in Runners : ~BuildFails(r) /\ ~ListEnds(r)]_vars
    => <>alarmed
=============================================================================
