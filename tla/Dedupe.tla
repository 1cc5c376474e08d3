------------------------------- MODULE Dedupe -------------------------------
(***************************************************************************)
(* The Discord de-duplication layer (discord_client.py).  A sender claims  *)
(* the key of its message in a file shared by all processes, posts the     *)
(* message, and settles the claim.  The file is read and replaced under a  *)
(* file lock, so those sections are single steps here; the clock is read   *)
(* before the lock is taken, and may be stale inside.                      *)
(*                                                                         *)
(* A sender is one thread of one process.  Times are ticks from 1 on.      *)
(***************************************************************************)
EXTENDS Naturals, FiniteSets

CONSTANTS
    Senders,     \* threads that send
    Keys,        \* notification kind and content
    Window,      \* dedupe_window_seconds of the kind
    TTL,         \* _DEDUPE_INFLIGHT_TTL_SECONDS
    LockWait,    \* _LOCK_TIMEOUT_SECONDS
    Retention,   \* _DEDUPE_MAX_RETENTION_SECONDS
    MaxEntries,  \* _DEDUPE_MAX_ENTRIES
    MaxAttempts, \* attempts of one post
    MaxClock,    \* bound on time
    MaxFaults    \* bound on failed posts, unusable locks or files, and crashes

ASSUME TimesNat       == {Window, TTL, LockWait, Retention, MaxClock, MaxFaults} \subseteq Nat
ASSUME ClaimsLast     == TTL > 0
ASSUME KeptForWindow  == Retention >= Window + LockWait
ASSUME AttemptsNat    == MaxAttempts \in Nat \ {0}
ASSUME MaxEntriesNat  == MaxEntries \in Nat
ASSUME NobodyIsNoOne  == "nobody" \notin Senders

Never  == 0
Nobody == "nobody"

VARIABLES
    entries,    \* .discord_dedupe_state.json
    clock,
    pc, call,   \* what every sender is doing
    confirmed,  \* when a post was last settled as sent, and
    claimants,  \* who has claimed, since the file was last taken for empty
                \* (specification only)
    faults

history == <<confirmed, claimants>>
vars    == <<entries, clock, pc, call, history, faults>>

Entry == [sent: Nat, until: Nat, owner: Senders \union {Nobody}]

\* An absent entry.
NoEntry == [sent |-> Never, until |-> 0, owner |-> Nobody]

Call == [key: Keys, now: Nat, until: Nat, claimed: BOOLEAN, sent: BOOLEAN,
         attempt: 1..MaxAttempts]

NewCall(k) == [key |-> k, now |-> clock, until |-> 0, claimed |-> FALSE,
               sent |-> FALSE, attempt |-> 1]

-----------------------------------------------------------------------------
(* _prune_dedupe_entries.                                                   *)

Expired(e, now) ==
    LET live == IF e.until # 0 /\ e.until <= now
                  THEN [e EXCEPT !.until = 0, !.owner = Nobody] ELSE e
    IN IF live.until = 0 /\ (live.sent = Never \/ now > live.sent + Retention)
         THEN NoEntry ELSE live

\* Entries beyond the limit go, those sent longest ago, or never, first.
Pruned(now) ==
    LET kept == [k \in Keys |-> Expired(entries[k], now)]
        present == {k \in Keys : kept[k] # NoEntry}
        surplus == IF Cardinality(present) > MaxEntries
                     THEN Cardinality(present) - MaxEntries ELSE 0
    IN {[k \in Keys |-> IF k \in evicted THEN NoEntry ELSE kept[k]] :
          evicted \in {E \in SUBSET present :
                         /\ Cardinality(E) = surplus
                         /\ \A e \in E, o \in present \ E : kept[e].sent <= kept[o].sent}}

-----------------------------------------------------------------------------

NoEntries == [k \in Keys |-> NoEntry]

Init ==
    /\ entries = NoEntries
    /\ clock = 1
    /\ pc = [s \in Senders |-> "idle"]
    /\ call \in [Senders -> {NewCall(k) : k \in Keys}]
    /\ confirmed = [k \in Keys |-> Never]
    /\ claimants = {}
    /\ faults = 0

Goto(s, label) == pc' = [pc EXCEPT ![s] = label]

Fault == faults < MaxFaults /\ faults' = faults + 1

\* The lock was got before the wait for it, which began at call[s].now, ran out.
GotLock(s) == clock <= call[s].now + LockWait

\* The lock is not got in time or not at all, or the file cannot be written.
NoLock(s) == IF GotLock(s) THEN Fault ELSE UNCHANGED faults

outside == <<clock, history, faults>>

\* A message is to be sent: the clock is read, then the lock is waited for.
Send(s, k) ==
    /\ pc[s] = "idle"
    /\ call' = [call EXCEPT ![s] = NewCall(k)]
    /\ Goto(s, "reserve")
    /\ UNCHANGED <<entries, outside>>

\* (Mutant: only claims are looked at, not what was sent before.)
SentRecentlyNever(e, now) == FALSE

SentRecently(e, now) == e.sent # Never /\ now < e.sent + Window

InFlight(e, now) == e.until > now

ClaimedUntil(now) == now + TTL

Return(s) ==
    /\ call' = [call EXCEPT ![s] = NewCall(@.key)]
    /\ Goto(s, "idle")

\* The claim of s, in a file that holds es besides.
TakeClaim(s, es) ==
    LET k == call[s].key
        until == ClaimedUntil(call[s].now)
    IN /\ entries' = [es EXCEPT ![k] = [sent |-> @.sent, until |-> until, owner |-> s]]
       /\ call' = [call EXCEPT ![s].claimed = TRUE, ![s].until = until]
       /\ Goto(s, "post")

\* _reserve_dedupe_claim: the message was sent within the window, or another
\* sender is about to send it.  The caller is told True.
Suppress(s) ==
    /\ pc[s] = "reserve" /\ GotLock(s)
    /\ \E es \in Pruned(call[s].now) :
          LET e == es[call[s].key] IN
          /\ SentRecently(e, call[s].now) \/ InFlight(e, call[s].now)
          /\ entries' = es
    /\ Return(s)
    /\ UNCHANGED outside

\* _reserve_dedupe_claim: the key is claimed for TTL.
Reserve(s) ==
    /\ pc[s] = "reserve" /\ GotLock(s)
    /\ \E es \in Pruned(call[s].now) :
          LET e == es[call[s].key] IN
          /\ ~SentRecently(e, call[s].now) /\ ~InFlight(e, call[s].now)
          /\ TakeClaim(s, es)
    /\ claimants' = claimants \union {s}
    /\ UNCHANGED <<clock, confirmed, faults>>

\* _read_dedupe_entries takes a file it cannot read or parse for an empty one.
\* What is written back has this claim alone: all others are forgotten, and so
\* is what was sent.
ReserveUnread(s) ==
    /\ pc[s] = "reserve" /\ GotLock(s)
    /\ Fault
    /\ TakeClaim(s, NoEntries)
    /\ claimants' = {s}
    /\ confirmed' = [k \in Keys |-> Never]
    /\ UNCHANGED clock

\* Without the lock, or when the write fails (OSError), the message is sent
\* unclaimed.
Bypass(s) ==
    /\ pc[s] = "reserve"
    /\ NoLock(s)
    /\ Goto(s, "post")
    /\ UNCHANGED <<entries, clock, call, history>>

\* _post_webhook: Discord answers 2xx.
PostOk(s) ==
    /\ pc[s] = "post"
    /\ call' = [call EXCEPT ![s].sent = TRUE, ![s].now = clock]
    /\ Goto(s, "finalize")
    /\ UNCHANGED <<entries, clock, history, faults>>

\* (Mutant: one attempt too many.)
PostFailsOnceMore(s, retryable) ==
    /\ pc[s] = "post"
    /\ Fault
    /\ IF retryable /\ call[s].attempt <= MaxAttempts
         THEN call' = [call EXCEPT ![s].attempt = @ + 1] /\ UNCHANGED pc
         ELSE call' = [call EXCEPT ![s].now = clock] /\ Goto(s, "finalize")
    /\ UNCHANGED <<entries, clock, history>>

\* An attempt fails: the answer is lost behind a message Discord has shown, or
\* Discord refuses.  Retryable failures are tried again.
PostFails(s, retryable) ==
    /\ pc[s] = "post"
    /\ Fault
    /\ IF retryable /\ call[s].attempt < MaxAttempts
         THEN /\ call' = [call EXCEPT ![s].attempt = @ + 1]
              /\ UNCHANGED pc
         ELSE /\ call' = [call EXCEPT ![s].now = clock]
              /\ Goto(s, "finalize")
    /\ UNCHANGED <<entries, clock, history>>

\* What a settled claim leaves behind.  (Mutant: whether it was sent or not.)
SettledAsSent(e, s) == [sent |-> call[s].now, until |-> 0, owner |-> Nobody]

SettledEntry(e, s) ==
    [sent |-> IF call[s].sent THEN call[s].now ELSE e.sent, until |-> 0, owner |-> Nobody]

\* (Mutant: a claim is settled whoever owns it now.)
OwnsAny(e, s) == e # NoEntry

OwnsClaim(e, s) == e.owner = s

\* _finalize_dedupe_claim, under the lock again; a claim that has expired or
\* changed hands is left alone.
Finalize(s) ==
    /\ pc[s] = "finalize"
    /\ \/ ~call[s].claimed /\ UNCHANGED <<entries, confirmed>>
       \/ /\ call[s].claimed /\ GotLock(s)
          /\ \E es \in Pruned(call[s].now) :
               LET k == call[s].key IN
               IF OwnsClaim(es[k], s)
                 THEN /\ entries' = [es EXCEPT ![k] = SettledEntry(es[k], s)]
                      /\ confirmed' = IF call[s].sent
                           THEN [confirmed EXCEPT ![k] = call[s].now] ELSE confirmed
                 ELSE UNCHANGED <<entries, confirmed>>
    /\ Return(s)
    /\ UNCHANGED <<clock, claimants, faults>>

\* Without the lock, or when the write fails, nothing is settled; nor is it when
\* the file cannot be read, for an empty one names no owner.  Either way the
\* file stays as it is, and the claim with it until it expires.
FinalizeFails(s) ==
    /\ pc[s] = "finalize"
    /\ call[s].claimed
    /\ NoLock(s)
    /\ Return(s)
    /\ UNCHANGED <<entries, clock, history>>

\* load_dedupe_summary, from a status command.
Summarise ==
    /\ entries' \in Pruned(clock)
    /\ UNCHANGED <<clock, pc, call, history, faults>>

Crash(s) ==
    /\ pc[s] # "idle"
    /\ Fault
    /\ Return(s)
    /\ UNCHANGED <<entries, clock, history>>

Tick ==
    /\ clock < MaxClock
    /\ clock' = clock + 1
    /\ UNCHANGED <<entries, pc, call, history, faults>>

Next ==
    \/ \E s \in Senders :
          \/ \E k \in Keys : Send(s, k)
          \/ Suppress(s) \/ Reserve(s) \/ ReserveUnread(s) \/ Bypass(s)
          \/ PostOk(s)
          \/ \E retryable \in BOOLEAN : PostFails(s, retryable)
          \/ Finalize(s) \/ FinalizeFails(s)
          \/ Crash(s)
    \/ Summarise
    \/ Tick

Spec == Init /\ [][Next]_vars

-----------------------------------------------------------------------------
(* Properties.                                                              *)

TypeOK ==
    /\ entries \in [Keys -> Entry]
    /\ clock \in Nat
    /\ pc \in [Senders -> {"idle", "reserve", "post", "finalize"}]
    /\ call \in [Senders -> Call]
    /\ confirmed \in [Keys -> Nat]
    /\ claimants \subseteq Senders
    /\ faults \in 0..MaxFaults

HoldsClaim(s) ==
    pc[s] \in {"post", "finalize"} /\ call[s].claimed /\ call[s].until > clock

\* Of the senders that hold an unexpired claim on one message, at most one took
\* it after the file was last taken for empty, although each may have read the
\* clock long before it got the lock (CHANGELOG.md, "to suppress duplicate sends
\* under concurrent runtimes").  So nothing but a file that cannot be read lets
\* two believe that they may post one message; and once one has replaced it,
\* its claim excludes the others again.
ClaimsExclusive ==
    \A s, t \in claimants :
        HoldsClaim(s) /\ HoldsClaim(t) /\ call[s].key = call[t].key => s = t

\* A message that was sent and settled since the file was last taken for empty is
\* not claimed again within its window, whatever was pruned, expired or failed
\* in between, unless the claim is taken in a file that again cannot be read.
NoRepeatWithinWindow ==
    [][\A s \in Senders :
         pc[s] = "reserve" /\ pc'[s] = "post" /\ call'[s].claimed =>
             \/ confirmed[call[s].key] = Never
             \/ call[s].now >= confirmed[call[s].key] + Window
             \/ confirmed' # confirmed]_vars

\* Why the two hold while the file is not full.  Since the file was last taken
\* for empty, the entry of a key names the sender with the unexpired claim on
\* it, and the time of the last settled post is in the file, or was dropped
\* from it long after its window; and no sender's clock is ahead of time.
ClaimsRecorded(es) ==
    \A s \in claimants : HoldsClaim(s) =>
        es[call[s].key].owner = s /\ es[call[s].key].until = call[s].until

SentRecorded(es) ==
    \A k \in Keys : \/ es[k].sent = confirmed[k]
                    \/ es[k].sent = Never /\ clock > confirmed[k] + Retention

IInv ==
    /\ TypeOK
    /\ ClaimsRecorded(entries)
    /\ SentRecorded(entries)
    /\ \A s \in Senders :
          /\ call[s].now <= clock
          /\ pc[s] = "reserve" => ~call[s].claimed
=============================================================================
