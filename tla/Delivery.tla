------------------------------ MODULE Delivery ------------------------------
(***************************************************************************)
(* The pipeline and the de-duplication layer as they run together: a run   *)
(* that reaches "deliver" calls notifier.notify, whose answer is that of   *)
(* send_discord_notification (discord_client.py), and the pipeline commits *)
(* on True.  Each runner is one sender of Dedupe.  The message names the   *)
(* mail's own Gmail URL, so the key of a claim is the mail.                *)
(*                                                                         *)
(* What Discord has really displayed is compared with what the checkpoint  *)
(* says was notified.                                                      *)
(***************************************************************************)
EXTENDS Dedupe

CONSTANTS
    MaxMsgs, MaxMessages, PageSize, Target, SyncModes,
    MaxRunFaults   \* Pipeline's bound on failures and kills

\* The mail there can be a message about.
ASSUME KeysAreMail    == Keys = Target \intersect (1..MaxMsgs)
ASSUME MaxMsgsNat     == MaxMsgs \in Nat
ASSUME MaxMessagesPos == MaxMessages \in Nat \ {0}
ASSUME PageSizePos    == PageSize \in Nat \ {0}
ASSUME TargetNat      == Target \subseteq Nat
ASSUME SyncModesKnown == SyncModes \subseteq {"skip_existing", "backfill"}
ASSUME MaxRunFaultsNat == MaxRunFaults \in Nat

VARIABLES
    arrived, inbox, ckpt, sync, stateFile, handled, base, run,
    stage, runFaults,   \* Pipeline's pc and faults
    shown,      \* mail Discord has displayed
    vouched     \* mail a runner was told True about while another's claim
                \* on it was unsettled

pipelineVars == <<arrived, inbox, ckpt, sync, stateFile, handled, base, stage, run, runFaults>>
outcome      == <<shown, vouched>>
deliveryVars == <<pipelineVars, vars, outcome>>

P == INSTANCE Pipeline WITH
         Runners <- Senders, MaxFaults <- MaxRunFaults, pc <- stage, faults <- runFaults

DeliveryInit ==
    /\ P!InitInstalled
    /\ Init
    /\ shown = {}
    /\ vouched = {}

\* The runner waits for notifier.notify.
Notifying(r) == stage[r] = "deliver" /\ ~run[r].dry

-----------------------------------------------------------------------------

\* Everything a run does outside of notifier.notify.
OwnStep(r) ==
    /\ ~Notifying(r)
    /\ P!Progress(r) \/ P!Disturbance(r)
    /\ UNCHANGED <<vars, outcome>>

Mailbox ==
    /\ P!Arrive \/ \E m \in inbox : P!Archive(m)
    /\ UNCHANGED <<vars, outcome>>

\* DiscordNotifier.notify calls send_discord_notification.
Notify(r) ==
    /\ Notifying(r)
    /\ Send(r, run[r].cur)
    /\ UNCHANGED <<pipelineVars, outcome>>

\* The claim is taken, or the lock or the file is out of reach: the post follows.
Claim(r) ==
    /\ Reserve(r) \/ ReserveUnread(r) \/ Bypass(r)
    /\ UNCHANGED <<pipelineVars, outcome>>

\* The message is suppressed and the runner told True.
Suppressed(r) ==
    /\ Suppress(r)
    /\ P!DeliverOk(r)
    /\ vouched' = IF SentRecently(entries[run[r].cur], call[r].now)
                    THEN vouched ELSE vouched \union {run[r].cur}
    /\ UNCHANGED shown

Posted(r) ==
    /\ PostOk(r)
    /\ shown' = shown \union {run[r].cur}
    /\ UNCHANGED <<pipelineVars, vouched>>

\* A refused attempt shows nothing, one whose answer is lost does.
PostFailed(r) ==
    /\ \E retryable \in BOOLEAN : PostFails(r, retryable)
    /\ shown' \in {shown, shown \union {run[r].cur}}
    /\ UNCHANGED <<pipelineVars, vouched>>

\* The claim is settled, if it can be, and the post's result returned.
Answered(r) ==
    /\ Finalize(r) \/ FinalizeFails(r)
    /\ IF call[r].sent THEN P!DeliverOk(r) ELSE P!DeliverFails(r)
    /\ UNCHANGED outcome

\* The process is killed while it notifies.
KilledNotifying(r) ==
    /\ Notifying(r)
    /\ P!Crash(r)
    /\ IF pc[r] = "idle" THEN UNCHANGED vars ELSE Crash(r)
    /\ UNCHANGED outcome

Elsewhere ==
    /\ Summarise \/ Tick
    /\ UNCHANGED <<pipelineVars, outcome>>

DeliveryNext ==
    \/ \E r \in Senders :
          \/ OwnStep(r) \/ Notify(r) \/ Claim(r) \/ Suppressed(r)
          \/ Posted(r) \/ PostFailed(r) \/ Answered(r) \/ KilledNotifying(r)
    \/ Mailbox
    \/ Elsewhere

DeliverySpec == DeliveryInit /\ [][DeliveryNext]_deliveryVars

-----------------------------------------------------------------------------
(* Properties.                                                              *)

\* Mail counts as notified (checkpoint, or about to be) only when Discord has
\* displayed it, or when its runner was told so on the strength of a claim that
\* another one, or an earlier life of the same one, had not settled: nothing
\* else that fails, expires, is pruned or is retried makes the pipeline commit
\* a mail nobody has seen.
NotifiedWasShown == \A m \in handled \intersect Target : m \in shown \union vouched

\* "A message is treated as processed only after the notification path
\* succeeds" (README.md, Guarantees): mail behind the checkpoint was displayed.
ProcessedWasShown ==
    \A m \in Target : base < m /\ m <= ckpt /\ m \in inbox => m \in shown
=============================================================================
