--------------------------- MODULE DeliveryProofs ---------------------------
(***************************************************************************)
(* Theorems about the dedupe file and about the pipeline above it, for any *)
(* number of runners, mails, entries and faults, and any timing.           *)
(*                                                                         *)
(* First the file by itself (Dedupe): while it is not full, and since it   *)
(* was last taken for empty, claims are exclusive, and a message settled   *)
(* as sent is not claimed again within its window.                         *)
(*                                                                         *)
(* Then NotifiedWasShown of Delivery.                                      *)
(* It is not inductive: a suppressed mail is committed because the file    *)
(* says that it was sent, and an answered one because the call says so.    *)
(* So what the file calls sent, and what a call under way calls sent, must *)
(* have been displayed, and the call under way must be about the mail its  *)
(* runner has in hand.  That the file may be full does not matter: what is *)
(* evicted or pruned calls nothing sent, and neither does a file taken for *)
(* empty.                                                                  *)
(*                                                                         *)
(* Last, that the composition implements both of its parts, so that what   *)
(* is proved of either holds of the two together.                          *)
(***************************************************************************)
EXTENDS Delivery, FiniteSetTheorems, TLAPS

-----------------------------------------------------------------------------
(* The dedupe file by itself.  Types.                                       *)

\* As long as the keys fit, pruning only drops what has expired.
LEMMA PrunedExpires ==
    ASSUME IsFiniteSet(Keys), Cardinality(Keys) <= MaxEntries, NEW now,
           NEW es \in Pruned(now)
    PROVE  es = [k \in Keys |-> Expired(entries[k], now)]
<1> DEFINE kept == [k \in Keys |-> Expired(entries[k], now)]
           present == {k \in Keys : kept[k] # NoEntry}
<1>1. IsFiniteSet(present) /\ Cardinality(present) <= Cardinality(Keys)
  BY FS_Subset
<1>2. Cardinality(present) \in Nat /\ Cardinality(Keys) \in Nat
  BY <1>1, FS_CardinalityType
<1>3. ~(Cardinality(present) > MaxEntries)
  BY <1>1, <1>2, MaxEntriesNat
<1>4. PICK evicted \in SUBSET present :
         /\ Cardinality(evicted) = 0
         /\ es = [k \in Keys |-> IF k \in evicted THEN NoEntry ELSE kept[k]]
  BY <1>3 DEF Pruned
<1>5. evicted = {}
  BY <1>1, <1>4, FS_Subset, FS_EmptySet
<1> QED BY <1>4, <1>5

\* Pruning leaves an unexpired claim as it is.
LEMMA ExpiredKeepsClaim ==
    ASSUME NEW e \in Entry, NEW now \in Nat, e.until > now
    PROVE  Expired(e, now) = e
BY DEF Expired, Entry

LEMMA ExpiredType ==
    ASSUME NEW e \in Entry, NEW now \in Nat
    PROVE  Expired(e, now) \in Entry
BY DEF Expired, Entry, NoEntry, Never, Nobody

LEMMA PrunedType ==
    ASSUME TypeOK, NEW now \in Nat, NEW es \in Pruned(now)
    PROVE  es \in [Keys -> Entry]
<1> DEFINE kept == [k \in Keys |-> Expired(entries[k], now)]
<1>1. kept \in [Keys -> Entry]
  BY ExpiredType DEF TypeOK
<1>2. NoEntry \in Entry
  BY DEF NoEntry, Entry, Never, Nobody
<1>3. PICK evicted : es = [k \in Keys |-> IF k \in evicted THEN NoEntry ELSE kept[k]]
  BY DEF Pruned
<1> QED BY <1>1, <1>2, <1>3

LEMMA InitTypeOK == Init => TypeOK
<1> SUFFICES ASSUME Init PROVE TypeOK
  OBVIOUS
<1>1. NoEntry \in Entry
  BY DEF NoEntry, Entry, Never, Nobody
<1>2. \A k \in Keys : NewCall(k) \in Call
  BY AttemptsNat DEF Init, NewCall, Call
<1>3. call \in [Senders -> Call]
  BY <1>2 DEF Init
<1> QED BY <1>1, <1>3, TimesNat DEF Init, NoEntries, TypeOK, Never

LEMMA NextTypeOK == TypeOK /\ [Next]_vars => TypeOK'
<1> SUFFICES ASSUME TypeOK, [Next]_vars PROVE TypeOK'
  OBVIOUS
<1> USE TimesNat, AttemptsNat DEF Goto, outside, history
<1>1. ASSUME NEW s \in Senders PROVE call[s] \in Call /\ call[s].now \in Nat /\ call[s].key \in Keys
  BY DEF TypeOK, Call
<1>2. ASSUME NEW s \in Senders, Fault \/ UNCHANGED faults PROVE faults' \in 0..MaxFaults
  BY <1>2 DEF Fault, TypeOK
<1>3. ASSUME NEW s \in Senders, NEW k \in Keys, Send(s, k) PROVE TypeOK'
  <2>1. NewCall(k) \in Call
    BY DEF NewCall, Call, TypeOK
  <2> QED BY <1>3, <2>1 DEF Send, TypeOK
<1>4. ASSUME NEW s \in Senders, Return(s)
      PROVE  call' \in [Senders -> Call] /\ pc' \in [Senders -> {"idle", "reserve", "post", "finalize"}]
  <2>1. NewCall(call[s].key) \in Call
    BY <1>1 DEF NewCall, Call, TypeOK
  <2> QED BY <1>4, <2>1 DEF Return, TypeOK
<1>5. ASSUME NEW s \in Senders, Suppress(s) PROVE TypeOK'
  <2>1. entries' \in [Keys -> Entry]
    BY <1>1, <1>5, PrunedType DEF Suppress
  <2> QED BY <1>4, <1>5, <2>1 DEF Suppress, TypeOK
<1>6. ASSUME NEW s \in Senders, NEW es \in [Keys -> Entry], TakeClaim(s, es)
      PROVE  /\ entries' \in [Keys -> Entry] /\ call' \in [Senders -> Call]
             /\ pc' \in [Senders -> {"idle", "reserve", "post", "finalize"}]
  <2>1. ClaimedUntil(call[s].now) \in Nat
    BY <1>1 DEF ClaimedUntil
  <2>2. entries' \in [Keys -> Entry]
    BY <1>1, <1>6, <2>1 DEF TakeClaim, Entry
  <2>3. call' \in [Senders -> Call]
    <3> DEFINE c == [call[s] EXCEPT !.claimed = TRUE,
                                   !.until = ClaimedUntil(call[s].now)]
    <3>1. c \in Call
      BY <1>1, <2>1 DEF Call
    <3>2. call' = [call EXCEPT ![s] = c]
      BY <1>6 DEF TakeClaim
    <3> QED BY <3>1, <3>2 DEF TypeOK
  <2> QED BY <1>6, <2>2, <2>3 DEF TakeClaim, TypeOK
<1>16. ASSUME NEW s \in Senders, Reserve(s) PROVE TypeOK'
  <2>1. PICK es \in Pruned(call[s].now) : TakeClaim(s, es)
    BY <1>16 DEF Reserve
  <2>2. es \in [Keys -> Entry]
    BY <1>1, <2>1, PrunedType
  <2> QED BY <1>6, <1>16, <2>1, <2>2 DEF Reserve, TypeOK
<1>17. ASSUME NEW s \in Senders, ReserveUnread(s) PROVE TypeOK'
  <2>1. NoEntries \in [Keys -> Entry] /\ confirmed' \in [Keys -> Nat]
    BY <1>17 DEF NoEntries, NoEntry, Entry, Never, Nobody, ReserveUnread
  <2> QED BY <1>2, <1>6, <1>17, <2>1 DEF ReserveUnread, TypeOK
<1>7. ASSUME NEW s \in Senders, Bypass(s) PROVE TypeOK'
  BY <1>2, <1>7 DEF Bypass, NoLock, TypeOK
<1>8. ASSUME NEW s \in Senders, PostOk(s) PROVE TypeOK'
  <2>1. call' \in [Senders -> Call]
    <3> DEFINE c == [call[s] EXCEPT !.sent = TRUE, !.now = clock]
    <3>1. c \in Call
      BY <1>1 DEF Call, TypeOK
    <3>2. call' = [call EXCEPT ![s] = c]
      BY <1>8 DEF PostOk
    <3> QED BY <3>1, <3>2 DEF TypeOK
  <2> QED BY <1>1, <1>8, <2>1 DEF PostOk, TypeOK
<1>9. ASSUME NEW s \in Senders, NEW retryable \in BOOLEAN, PostFails(s, retryable)
      PROVE  TypeOK'
  <2>1. call' \in [Senders -> Call]
    BY <1>9 DEF PostFails, TypeOK, Call
  <2> QED BY <1>2, <1>9, <2>1 DEF PostFails, TypeOK
<1>10. ASSUME NEW s \in Senders, Finalize(s) PROVE TypeOK'
  <2>1. ASSUME NEW es \in Pruned(call[s].now)
        PROVE  [es EXCEPT ![call[s].key] = SettledEntry(es[call[s].key], s)] \in [Keys -> Entry]
    <3>1. es \in [Keys -> Entry]
      BY <1>1, PrunedType
    <3>2. SettledEntry(es[call[s].key], s) \in Entry
      BY <1>1, <3>1 DEF SettledEntry, Entry, Nobody
    <3> QED BY <1>1, <3>1, <3>2
  <2>2. entries' \in [Keys -> Entry] /\ confirmed' \in [Keys -> Nat]
    BY <1>1, <1>10, <2>1 DEF Finalize, TypeOK
  <2> QED BY <1>4, <1>10, <2>2 DEF Finalize, TypeOK
<1>11. ASSUME NEW s \in Senders, FinalizeFails(s) PROVE TypeOK'
  BY <1>2, <1>4, <1>11 DEF FinalizeFails, NoLock, TypeOK
<1>12. ASSUME NEW s \in Senders, Crash(s) PROVE TypeOK'
  BY <1>2, <1>4, <1>12 DEF Crash, TypeOK
<1>13. CASE Summarise
  <2>1. entries' \in [Keys -> Entry]
    BY <1>13, PrunedType DEF Summarise, TypeOK
  <2> QED BY <1>13, <2>1 DEF Summarise, TypeOK
<1>14. CASE Tick
  BY <1>14 DEF Tick, TypeOK
<1>15. CASE UNCHANGED vars
  BY <1>15 DEF vars, TypeOK
<1> QED BY <1>3, <1>5, <1>6, <1>7, <1>8, <1>9, <1>10, <1>11, <1>12, <1>13,
           <1>14, <1>15, <1>16, <1>17 DEF Next

-----------------------------------------------------------------------------
(* The invariant, while all keys fit into the file.                         *)

\* A pruned file records the same claims and the same posts.
LEMMA PrunedRecords ==
    ASSUME IsFiniteSet(Keys), Cardinality(Keys) <= MaxEntries, IInv,
           NEW now \in Nat, now <= clock, NEW es \in Pruned(now)
    PROVE  ClaimsRecorded(es) /\ SentRecorded(es)
<1>1. es = [k \in Keys |-> Expired(entries[k], now)]
  BY PrunedExpires
<1>2. TypeOK /\ clock \in Nat /\ entries \in [Keys -> Entry] /\ call \in [Senders -> Call]
      /\ confirmed \in [Keys -> Nat]
  BY DEF IInv, TypeOK
<1>3. ASSUME NEW s \in claimants, HoldsClaim(s)
      PROVE  es[call[s].key].owner = s /\ es[call[s].key].until = call[s].until
  <2>1. /\ entries[call[s].key].owner = s
        /\ entries[call[s].key].until = call[s].until
    BY <1>3 DEF IInv, ClaimsRecorded
  <2>2. call[s].key \in Keys /\ entries[call[s].key] \in Entry /\ call[s].until \in Nat
    BY <1>2 DEF Call, TypeOK
  <2>3. entries[call[s].key].until > now
    BY <1>2, <1>3, <2>1, <2>2 DEF HoldsClaim
  <2>4. es[call[s].key] = entries[call[s].key]
    BY <1>1, <2>2, <2>3, ExpiredKeepsClaim
  <2> QED BY <2>1, <2>4
<1>4. ASSUME NEW k \in Keys
      PROVE  \/ es[k].sent = confirmed[k]
             \/ es[k].sent = Never /\ clock > confirmed[k] + Retention
  <2>1. \/ entries[k].sent = confirmed[k]
        \/ entries[k].sent = Never /\ clock > confirmed[k] + Retention
    BY DEF IInv, SentRecorded
  <2>2. es[k] = Expired(entries[k], now) /\ entries[k] \in Entry /\ confirmed[k] \in Nat
    BY <1>1, <1>2
  <2>3. \/ es[k].sent = entries[k].sent
        \/ es[k].sent = Never /\ now > entries[k].sent + Retention
    BY <2>2 DEF Expired, NoEntry, Entry, Never
  <2> QED BY <1>2, <2>1, <2>2, <2>3, TimesNat DEF Entry
<1> QED BY <1>3, <1>4 DEF ClaimsRecorded, SentRecorded

LEMMA InitIInv == Init => IInv
<1> SUFFICES ASSUME Init PROVE IInv
  OBVIOUS
<1>1. TypeOK
  BY InitTypeOK
<1>2. ClaimsRecorded(entries)
  BY DEF Init, ClaimsRecorded, HoldsClaim
<1>3. SentRecorded(entries)
  BY DEF Init, SentRecorded, NoEntries, NoEntry
<1>4. ASSUME NEW s \in Senders
      PROVE  call[s].now <= clock /\ (pc[s] = "reserve" => ~call[s].claimed)
  BY DEF Init, NewCall
<1> QED BY <1>1, <1>2, <1>3, <1>4 DEF IInv

\* Steps in which one sender moves, no claim is gained and the file is at most
\* pruned.
LEMMA StepWithoutClaim ==
    ASSUME IInv, TypeOK', ClaimsRecorded(entries'), SentRecorded(entries'),
           UNCHANGED <<clock, history>>, NEW s \in Senders,
           \A t \in Senders \ {s} : pc'[t] = pc[t] /\ call'[t] = call[t],
           call'[s].now <= clock,
           pc'[s] = "reserve" => ~call'[s].claimed,
           HoldsClaim(s)' => /\ HoldsClaim(s)
                             /\ call'[s].key = call[s].key
                             /\ call'[s].until = call[s].until
    PROVE  IInv'
<1>1. \A t \in Senders : HoldsClaim(t)' =>
          HoldsClaim(t) /\ call'[t].key = call[t].key /\ call'[t].until = call[t].until
  BY DEF HoldsClaim
<1>2. ClaimsRecorded(entries)'
  BY <1>1 DEF ClaimsRecorded, history, TypeOK
<1>3. SentRecorded(entries)'
  BY DEF SentRecorded, history
<1>4. \A t \in Senders : call'[t].now <= clock' /\ (pc'[t] = "reserve" => ~call'[t].claimed)
  BY DEF IInv
<1> QED BY <1>2, <1>3, <1>4 DEF IInv

\* A claim taken in a file that records the claims of others, none of them on
\* this message, and the posts.
LEMMA TakeClaimKeepsIInv ==
    ASSUME IInv, TypeOK', NEW s \in Senders, pc[s] = "reserve",
           NEW es \in [Keys -> Entry], TakeClaim(s, es),
           claimants' \subseteq claimants \union {s},
           \A t \in claimants' \ {s} : HoldsClaim(t) =>
               /\ es[call[t].key].owner = t /\ es[call[t].key].until = call[t].until
               /\ call[t].key # call[s].key,
           SentRecorded(es)', clock' = clock
    PROVE  IInv'
<1> DEFINE k == call[s].key
           until == ClaimedUntil(call[s].now)
<1>1. TypeOK /\ k \in Keys /\ call \in [Senders -> Call] /\ pc' = [pc EXCEPT ![s] = "post"]
  BY DEF IInv, TypeOK, Call, TakeClaim, Goto
<1>2. /\ entries' = [es EXCEPT ![k] = [sent |-> es[k].sent, until |-> until, owner |-> s]]
      /\ call' = [call EXCEPT ![s].claimed = TRUE, ![s].until = until]
  BY DEF TakeClaim
<1>3. /\ call'[s].key = k /\ call'[s].now = call[s].now /\ call'[s].until = until
      /\ \A t \in Senders \ {s} : call'[t] = call[t] /\ pc'[t] = pc[t]
      /\ pc'[s] = "post"
  BY <1>1, <1>2 DEF Call, TypeOK
<1>4. ASSUME NEW t \in claimants', HoldsClaim(t)'
      PROVE  entries'[call'[t].key].owner = t /\ entries'[call'[t].key].until = call'[t].until
  <2>1. CASE t = s
    BY <1>1, <1>2, <1>3, <2>1
  <2>2. CASE t # s
    <3>1. t \in Senders
      BY DEF TypeOK
    <3>2. HoldsClaim(t) /\ call'[t] = call[t]
      BY <1>3, <1>4, <2>2, <3>1 DEF HoldsClaim
    <3> QED BY <1>2, <2>2, <3>2
  <2> QED BY <2>1, <2>2
<1>5. \A j \in Keys : entries'[j].sent = es[j].sent
  BY <1>1, <1>2
<1>6. SentRecorded(entries)'
  BY <1>5 DEF SentRecorded
<1>7. \A t \in Senders : call'[t].now <= clock' /\ (pc'[t] = "reserve" => ~call'[t].claimed)
  BY <1>1, <1>3 DEF IInv
<1> QED BY <1>4, <1>6, <1>7 DEF IInv, ClaimsRecorded

LEMMA ReserveKeepsIInv ==
    ASSUME IsFiniteSet(Keys), Cardinality(Keys) <= MaxEntries, IInv, TypeOK',
           NEW s \in Senders, Reserve(s)
    PROVE  IInv'
<1> DEFINE k == call[s].key
           now == call[s].now
<1>1. PICK es \in Pruned(now) : ~InFlight(es[k], now) /\ TakeClaim(s, es)
  BY DEF Reserve
<1>2. TypeOK /\ now \in Nat /\ now <= clock /\ clock \in Nat /\ call \in [Senders -> Call]
  BY DEF IInv, TypeOK, Call
<1>3. es \in [Keys -> Entry] /\ ClaimsRecorded(es) /\ SentRecorded(es)
  BY <1>1, <1>2, PrunedRecords, PrunedType
<1>4. UNCHANGED <<clock, confirmed>> /\ pc[s] = "reserve" /\ claimants' = claimants \union {s}
  BY DEF Reserve
<1>5. ASSUME NEW t \in claimants' \ {s}, HoldsClaim(t)
      PROVE  /\ es[call[t].key].owner = t /\ es[call[t].key].until = call[t].until
             /\ call[t].key # k
  <2>1. es[call[t].key].owner = t /\ es[call[t].key].until = call[t].until
    BY <1>3, <1>4, <1>5 DEF ClaimsRecorded
  <2>2. call[t].until \in Nat /\ call[t].until > now
    BY <1>2, <1>4, <1>5 DEF HoldsClaim, Call, TypeOK
  <2> QED BY <1>1, <2>1, <2>2 DEF InFlight
<1>6. SentRecorded(es)'
  BY <1>3, <1>4 DEF SentRecorded
<1> QED BY <1>1, <1>3, <1>4, <1>5, <1>6, TakeClaimKeepsIInv

\* In a file taken for empty there is this claim alone, and nothing was sent.
LEMMA ReserveUnreadKeepsIInv ==
    ASSUME IInv, TypeOK', NEW s \in Senders, ReserveUnread(s)
    PROVE  IInv'
<1>1. TakeClaim(s, NoEntries) /\ pc[s] = "reserve" /\ clock' = clock /\ claimants' = {s}
      /\ confirmed' = [k \in Keys |-> Never]
  BY DEF ReserveUnread
<1>2. NoEntries \in [Keys -> Entry]
  BY DEF NoEntries, NoEntry, Entry, Never, Nobody
<1>3. SentRecorded(NoEntries)'
  BY <1>1 DEF SentRecorded, NoEntries, NoEntry
<1> QED BY <1>1, <1>2, <1>3, TakeClaimKeepsIInv

LEMMA FinalizeKeepsIInv ==
    ASSUME IsFiniteSet(Keys), Cardinality(Keys) <= MaxEntries, IInv, TypeOK',
           NEW s \in Senders, Finalize(s)
    PROVE  IInv'
<1> DEFINE k == call[s].key
           now == call[s].now
<1>1. TypeOK /\ now \in Nat /\ now <= clock /\ k \in Keys /\ clock \in Nat /\ call \in [Senders -> Call]
      /\ confirmed \in [Keys -> Nat]
  BY DEF IInv, TypeOK, Call
<1>2. /\ clock' = clock /\ claimants' = claimants /\ claimants \subseteq Senders
      /\ pc'[s] = "idle"
      /\ \A t \in Senders \ {s} : call'[t] = call[t] /\ pc'[t] = pc[t]
      /\ call'[s].now = clock /\ ~HoldsClaim(s)'
  BY <1>1 DEF Finalize, Return, Goto, NewCall, HoldsClaim, TypeOK
<1>3. \A t \in claimants' : HoldsClaim(t)' =>
          t \in claimants /\ t # s /\ HoldsClaim(t) /\ call'[t] = call[t]
  BY <1>2 DEF HoldsClaim
<1>4. \A t \in Senders : call'[t].now <= clock' /\ (pc'[t] = "reserve" => ~call'[t].claimed)
  BY <1>1, <1>2 DEF IInv
<1>5. CASE UNCHANGED <<entries, confirmed>>
  <2>1. ClaimsRecorded(entries)' /\ SentRecorded(entries)'
    BY <1>2, <1>3, <1>5 DEF IInv, ClaimsRecorded, SentRecorded
  <2> QED BY <1>4, <2>1 DEF IInv
<1>6. ASSUME NEW es \in Pruned(now), OwnsClaim(es[k], s),
             entries' = [es EXCEPT ![k] = SettledEntry(es[k], s)],
             confirmed' = IF call[s].sent THEN [confirmed EXCEPT ![k] = now] ELSE confirmed
      PROVE  IInv'
  <2>1. es \in [Keys -> Entry] /\ ClaimsRecorded(es) /\ SentRecorded(es)
    BY <1>1, PrunedRecords, PrunedType
  <2>2. ASSUME NEW t \in claimants', HoldsClaim(t)'
        PROVE  entries'[call'[t].key].owner = t /\ entries'[call'[t].key].until = call'[t].until
    <3>1. t \in claimants /\ t # s /\ HoldsClaim(t) /\ call'[t] = call[t]
      BY <1>3, <2>2
    <3>2. es[call[t].key].owner = t /\ es[call[t].key].until = call[t].until
      BY <2>1, <3>1 DEF ClaimsRecorded
    <3>3. call[t].key # k
      BY <1>6, <3>1, <3>2 DEF OwnsClaim
    <3> QED BY <1>6, <2>1, <3>1, <3>2, <3>3
  <2>3. SentRecorded(entries)'
    <3>1. ASSUME NEW j \in Keys
          PROVE  \/ entries'[j].sent = confirmed'[j]
                 \/ entries'[j].sent = Never /\ clock' > confirmed'[j] + Retention
      <4>1. CASE j # k
        <5>1. entries'[j] = es[j] /\ confirmed'[j] = confirmed[j]
          BY <1>1, <1>6, <2>1, <4>1
        <5> QED BY <1>2, <2>1, <5>1 DEF SentRecorded
      <4>2. CASE j = k /\ call[s].sent
        BY <1>1, <1>6, <2>1, <4>2 DEF SettledEntry
      <4>3. CASE j = k /\ ~call[s].sent
        <5>1. entries'[j].sent = es[j].sent /\ confirmed'[j] = confirmed[j]
          BY <1>6, <2>1, <4>3 DEF SettledEntry
        <5> QED BY <1>2, <2>1, <5>1 DEF SentRecorded
      <4> QED BY <4>1, <4>2, <4>3
    <3> QED BY <3>1 DEF SentRecorded
  <2> QED BY <1>4, <2>2, <2>3 DEF IInv, ClaimsRecorded
<1> QED BY <1>5, <1>6 DEF Finalize

LEMMA NextIInv ==
    ASSUME IsFiniteSet(Keys), Cardinality(Keys) <= MaxEntries, IInv, [Next]_vars
    PROVE  IInv'
<1>1. TypeOK /\ TypeOK' /\ ClaimsRecorded(entries) /\ SentRecorded(entries) /\ clock \in Nat
  BY NextTypeOK DEF IInv, TypeOK
<1>2. ASSUME NEW s \in Senders
      PROVE  call[s] \in Call /\ call[s].now \in Nat /\ call[s].now <= clock
  BY <1>1 DEF IInv, TypeOK, Call
<1>3. ASSUME NEW s \in Senders, NEW k \in Keys, Send(s, k) PROVE IInv'
  <2>1. /\ UNCHANGED <<entries, clock, history>>
        /\ pc'[s] = "reserve" /\ call'[s] = NewCall(k)
        /\ \A t \in Senders \ {s} : pc'[t] = pc[t] /\ call'[t] = call[t]
    BY <1>1, <1>3 DEF Send, Goto, outside, TypeOK
  <2>2. call'[s].now <= clock /\ ~call'[s].claimed /\ ~HoldsClaim(s)'
    BY <1>1, <2>1 DEF NewCall, HoldsClaim
  <2> QED BY <1>1, <2>1, <2>2, StepWithoutClaim
<1>4. ASSUME NEW s \in Senders, Suppress(s) PROVE IInv'
  <2>1. ClaimsRecorded(entries') /\ SentRecorded(entries')
    BY <1>2, <1>4, PrunedRecords DEF Suppress
  <2>2. /\ UNCHANGED <<clock, history>> /\ pc'[s] = "idle" /\ call'[s].now = clock
        /\ \A t \in Senders \ {s} : pc'[t] = pc[t] /\ call'[t] = call[t]
    BY <1>1, <1>4 DEF Suppress, Return, Goto, outside, NewCall, TypeOK
  <2> QED BY <1>1, <2>1, <2>2, StepWithoutClaim DEF HoldsClaim
<1>5. ASSUME NEW s \in Senders, FinalizeFails(s) \/ Crash(s) PROVE IInv'
  <2>1. /\ UNCHANGED <<entries, clock, history>> /\ pc'[s] = "idle" /\ call'[s].now = clock
        /\ \A t \in Senders \ {s} : pc'[t] = pc[t] /\ call'[t] = call[t]
    BY <1>1, <1>5 DEF FinalizeFails, Crash, Return, Goto, NewCall, TypeOK
  <2> QED BY <1>1, <2>1, StepWithoutClaim DEF HoldsClaim
<1>6. ASSUME NEW s \in Senders, Bypass(s) PROVE IInv'
  <2>1. /\ UNCHANGED <<entries, clock, history, call>> /\ pc[s] = "reserve" /\ pc'[s] = "post"
        /\ \A t \in Senders \ {s} : pc'[t] = pc[t]
    BY <1>1, <1>6 DEF Bypass, Goto, TypeOK
  <2>2. ~HoldsClaim(s)'
    BY <2>1 DEF HoldsClaim, IInv
  <2> QED BY <1>1, <1>2, <2>1, <2>2, StepWithoutClaim
<1>7. ASSUME NEW s \in Senders, NEW retryable \in BOOLEAN, PostOk(s) \/ PostFails(s, retryable)
      PROVE  IInv'
  <2>1. /\ UNCHANGED <<entries, clock, history>>
        /\ pc[s] = "post" /\ pc'[s] \in {"post", "finalize"}
        /\ call'[s].now \in {call[s].now, clock}
        /\ call'[s].key = call[s].key /\ call'[s].until = call[s].until
        /\ call'[s].claimed = call[s].claimed
        /\ \A t \in Senders \ {s} : pc'[t] = pc[t] /\ call'[t] = call[t]
    BY <1>1, <1>2, <1>7 DEF PostOk, PostFails, Goto, TypeOK, Call
  <2>2. HoldsClaim(s)' => HoldsClaim(s)
    BY <2>1 DEF HoldsClaim
  <2>3. call'[s].now <= clock
    BY <1>1, <1>2, <2>1
  <2> QED BY <1>1, <2>1, <2>2, <2>3, StepWithoutClaim
<1>8. CASE Summarise
  <2>1. ClaimsRecorded(entries') /\ SentRecorded(entries')
    BY <1>1, <1>8, PrunedRecords DEF Summarise
  <2> QED BY <1>1, <1>8, <2>1 DEF Summarise, IInv, ClaimsRecorded, SentRecorded, HoldsClaim, history
<1>9. CASE Tick
  <2>1. /\ clock' = clock + 1 /\ UNCHANGED <<entries, pc, call, history>>
    BY <1>9 DEF Tick
  <2>2. ASSUME NEW s \in Senders, HoldsClaim(s)' PROVE HoldsClaim(s)
    BY <1>1, <1>2, <2>1, <2>2 DEF HoldsClaim, Call
  <2>3. ClaimsRecorded(entries)'
    BY <1>1, <2>1, <2>2 DEF ClaimsRecorded, history, TypeOK
  <2>4. SentRecorded(entries)'
    BY <1>1, <2>1, TimesNat DEF SentRecorded, TypeOK, history
  <2>5. ASSUME NEW s \in Senders
        PROVE  call'[s].now <= clock' /\ (pc'[s] = "reserve" => ~call'[s].claimed)
    BY <1>1, <1>2, <2>1 DEF IInv
  <2> QED BY <1>1, <2>3, <2>4, <2>5 DEF IInv
<1>10. CASE UNCHANGED vars
  BY <1>1, <1>10 DEF vars, history, IInv, ClaimsRecorded, SentRecorded, HoldsClaim
<1> QED BY <1>3, <1>4, <1>5, <1>6, <1>7, <1>8, <1>9, <1>10, ReserveKeepsIInv, ReserveUnreadKeepsIInv,
           FinalizeKeepsIInv, NextTypeOK DEF Next, IInv

-----------------------------------------------------------------------------
(* Theorems.                                                                *)

\* Every reachable state is well typed, full file or not.
THEOREM TypeCorrect == Spec => []TypeOK
<1>1. TypeOK /\ [Next]_vars => TypeOK'
  BY NextTypeOK
<1> QED BY <1>1, InitTypeOK, PTL DEF Spec

\* While all messages fit into the file, it records every claim and post since
\* it was last taken for empty, which happens whenever it cannot be read.
THEOREM Invariance ==
    ASSUME IsFiniteSet(Keys), Cardinality(Keys) <= MaxEntries
    PROVE  Spec => []IInv
<1>1. IInv /\ [Next]_vars => IInv'
  BY NextIInv
<1> QED BY <1>1, InitIInv, PTL DEF Spec

\* Of the senders that have claimed since the file was last taken for empty, no
\* two hold an unexpired claim on one message.
THEOREM Exclusive ==
    ASSUME IsFiniteSet(Keys), Cardinality(Keys) <= MaxEntries
    PROVE  Spec => []ClaimsExclusive
<1>1. IInv => ClaimsExclusive
  <2> SUFFICES ASSUME IInv, NEW s \in claimants, NEW t \in claimants,
                      HoldsClaim(s), HoldsClaim(t), call[s].key = call[t].key
               PROVE  s = t
    BY DEF ClaimsExclusive
  <2> QED BY DEF IInv, ClaimsRecorded
<1> QED BY <1>1, Invariance, PTL

\* A message settled as sent is not claimed again within its window, unless the
\* file cannot be read, then or in between: what was pruned from the file is
\* older than the window and the wait for the lock.
THEOREM NoRepeat ==
    ASSUME IsFiniteSet(Keys), Cardinality(Keys) <= MaxEntries
    PROVE  Spec => NoRepeatWithinWindow
<1> DEFINE Allowed ==
      \A s \in Senders :
         pc[s] = "reserve" /\ pc'[s] = "post" /\ call'[s].claimed =>
             \/ confirmed[call[s].key] = Never
             \/ call[s].now >= confirmed[call[s].key] + Window
             \/ confirmed' # confirmed
<1>1. IInv /\ [Next]_vars => [Allowed]_vars
  <2> SUFFICES ASSUME IInv, Next, NEW s \in Senders,
                      pc[s] = "reserve", pc'[s] = "post", call'[s].claimed,
                      confirmed' = confirmed
               PROVE  \/ confirmed[call[s].key] = Never
                      \/ call[s].now >= confirmed[call[s].key] + Window
    OBVIOUS
  <2>1. Reserve(s) \/ ReserveUnread(s)
    <3>1. ~Bypass(s)
      BY DEF Bypass, IInv
    <3>2. TypeOK
      BY DEF IInv
    <3> QED BY <3>1, <3>2, ZenonT(40)
            DEF Next, Send, Suppress, Reserve, ReserveUnread, TakeClaim, PostOk, PostFails, Finalize,
               FinalizeFails, Crash, Return, Goto, Summarise, Tick, TypeOK, Bypass
  <2> DEFINE k == call[s].key
             now == call[s].now
  <2>7. CASE ReserveUnread(s)
    <3>1. k \in Keys /\ confirmed' = [j \in Keys |-> Never]
      BY <2>7 DEF ReserveUnread, IInv, TypeOK, Call
    <3> QED BY <3>1
  <2> SUFFICES ASSUME Reserve(s) PROVE confirmed[k] = Never \/ now >= confirmed[k] + Window
    BY <2>1, <2>7
  <2>2. PICK es \in Pruned(now) : ~SentRecently(es[k], now)
    BY DEF Reserve
  <2>3. TypeOK /\ now \in Nat /\ now <= clock /\ k \in Keys /\ clock \in Nat /\ confirmed[k] \in Nat
    BY DEF IInv, TypeOK, Call
  <2>4. SentRecorded(es)
    BY <2>3, PrunedRecords
  <2>5. CASE es[k].sent = confirmed[k]
    BY <2>2, <2>3, <2>5, TimesNat DEF SentRecently, Never
  <2>6. CASE clock > confirmed[k] + Retention
    <3>1. clock <= now + LockWait
      BY DEF Reserve, GotLock
    <3> QED BY <2>3, <2>6, <3>1, TimesNat, KeptForWindow
  <2> QED BY <2>3, <2>4, <2>5, <2>6 DEF SentRecorded
<1> QED BY <1>1, Invariance, PTL DEF Spec, NoRepeatWithinWindow
-----------------------------------------------------------------------------
(* The pipeline above it.                                                   *)


Calls == [key: Keys, now: Nat, until: Nat, claimed: BOOLEAN,
          sent: BOOLEAN, attempt: Nat]

PipelineTypes ==
    /\ arrived \in Nat
    /\ inbox \subseteq 1..MaxMsgs
    /\ ckpt \in Nat
    /\ stage \in [Senders -> P!Labels]
    /\ run \in [Senders -> P!RunState]

DedupeTypes ==
    /\ entries \in [Keys -> Entry]
    /\ clock \in Nat
    /\ pc \in [Senders -> {"idle", "reserve", "post", "finalize"}]
    /\ call \in [Senders -> Calls]

\* What a run has in hand is mail, and mail there can be a message about when
\* it is about to be notified.
HasMail(r) ==
    /\ run[r].todo \subseteq 1..MaxMsgs
    /\ stage[r] = "deliver" => run[r].cur \in Keys

\* A call under way is about the mail in hand, and speaks the truth about it.
CallIsTrue(r) ==
    pc[r] # "idle" =>
        /\ Notifying(r)
        /\ call[r].key = run[r].cur
        /\ call[r].sent => run[r].cur \in shown

\* The file calls nothing sent that was not displayed.
FileIsTrue(es) == \A k \in Keys : es[k].sent # Never => k \in shown

DeliveryIInv ==
    /\ PipelineTypes
    /\ DedupeTypes
    /\ \A r \in Senders : HasMail(r) /\ CallIsTrue(r)
    /\ FileIsTrue(entries)
    /\ NotifiedWasShown

-----------------------------------------------------------------------------
(* The pipeline's own steps.                                                *)

\* A run outside of notify touches nothing of other runs, counts no target as
\* notified, and takes only mail.
LEMMA OwnStepKeeps ==
    ASSUME PipelineTypes, NEW r \in Senders, HasMail(r), ~Notifying(r),
           P!Progress(r) \/ P!Disturbance(r)
    PROVE  /\ PipelineTypes'
           /\ HasMail(r)'
           /\ \A q \in Senders \ {r} : run'[q] = run[q] /\ stage'[q] = stage[q]
           /\ handled' \intersect Target \subseteq handled
<1> USE DEF PipelineTypes, HasMail, P!Goto, P!mail, P!durable
<1>0. P!FreshRun \in P!RunState /\ "idle" \in P!Labels /\ P!FreshRun.todo = {}
  BY DEF P!FreshRun, P!RunState, P!Failures, P!None, P!Labels
<1>1. ASSUME NEW dry \in BOOLEAN, P!Start(r, dry)
      PROVE  /\ PipelineTypes' /\ HasMail(r)'
             /\ \A q \in Senders \ {r} : run'[q] = run[q] /\ stage'[q] = stage[q]
             /\ handled' = handled
  BY <1>1 DEF P!Start, P!FreshRun, P!RunState, P!Failures, P!None, P!Labels
<1>2. CASE P!AlreadyInitialized(r)
  BY <1>2 DEF P!AlreadyInitialized, P!Labels
<1>3. CASE P!ChooseInitialCheckpoint(r)
  BY <1>3, MaxMsgsNat DEF P!ChooseInitialCheckpoint, P!RunState, P!None, P!Labels
<1>4. CASE P!CompleteInitialSync(r)
  BY <1>4, ZenonT(40) DEF P!CompleteInitialSync, P!RecordInitialSync, P!RunState, P!Labels
<1>5. CASE P!AnnounceSetup(r)
  BY <1>5 DEF P!AnnounceSetup, P!Labels
<1>6. CASE P!ListMail(r)
  <2>1. P!Oldest(P!Pending(run[r].before)) \subseteq inbox
    BY DEF P!Oldest, P!Pending, P!FirstPage
  <2>2. P!Oldest(P!Pending(run[r].before)) \in SUBSET Nat
    <3>1. 1..MaxMsgs \subseteq Nat
      BY MaxMsgsNat
    <3> QED BY <2>1, <3>1
  <2> QED BY <1>6, <2>1, <2>2 DEF P!ListMail, P!RunState, P!Labels
<1>7. CASE P!CheckpointNotFound(r)
  BY <1>7 DEF P!CheckpointNotFound, P!Fail, P!RunState, P!Failures, P!Labels
<1>8. CASE \E m \in run[r].todo : P!TakeMessage(r, m)
  <2> PICK m \in run[r].todo : P!TakeMessage(r, m)
    BY <1>8
  <2>1. m \in 1..MaxMsgs /\ m \in Nat
    BY MaxMsgsNat
  <2>2. run' = [run EXCEPT ![r].cur = m, ![r].todo = @ \ {m}]
    BY DEF P!TakeMessage
  <2>3. run' \in [Senders -> P!RunState] /\ run'[r].todo \subseteq 1..MaxMsgs
        /\ run'[r].cur = m /\ \A q \in Senders \ {r} : run'[q] = run[q]
    BY <2>1, <2>2 DEF P!RunState
  <2>4. /\ stage' \in [Senders -> P!Labels]
        /\ stage'[r] = "deliver" => m \in Target
        /\ \A q \in Senders \ {r} : stage'[q] = stage[q]
    BY DEF P!TakeMessage, P!Labels
  <2>5. handled' \intersect Target \subseteq handled
    BY DEF P!TakeMessage
  <2>6. arrived' = arrived /\ inbox' = inbox /\ ckpt' = ckpt
    BY DEF P!TakeMessage
  <2> QED BY <2>1, <2>3, <2>4, <2>5, <2>6, KeysAreMail
<1>9. CASE P!DeliverOk(r)
  BY <1>9 DEF P!DeliverOk, P!Labels, Notifying
<1>10. CASE P!Commit(r)
  BY <1>10 DEF P!Commit, P!RunState, P!Labels
<1>11. CASE P!NoMoreMail(r)
  BY <1>11 DEF P!NoMoreMail, P!Labels
<1>12. CASE P!PersistResult(r)
  BY <1>12, <1>0 DEF P!PersistResult
<1>13. CASE P!StartFails(r)
  BY <1>13 DEF P!StartFails
<1>14. CASE P!AnnounceSetupFails(r)
  BY <1>14 DEF P!AnnounceSetupFails, P!Labels
<1>15. CASE P!SourceFails(r)
  <2>1. PICK kind \in P!Failures :
           run' = [run EXCEPT ![r].failure = kind] /\ stage' = [stage EXCEPT ![r] = "persist"]
    BY <1>15 DEF P!SourceFails, P!Fail, P!Failures
  <2>2. UNCHANGED <<arrived, inbox, ckpt, handled>>
    BY <1>15 DEF P!SourceFails
  <2> QED BY <2>1, <2>2 DEF P!RunState, P!Labels
<1>16. CASE P!DeliverFails(r)
  BY <1>16 DEF P!DeliverFails, P!Fail, P!RunState, P!Failures, P!Labels
<1>17. CASE P!CommitFails(r)
  BY <1>17 DEF P!CommitFails, P!RecordInitialSync, P!Fail, P!RunState, P!Failures, P!Labels
<1>18. CASE P!PersistResultFails(r)
  BY <1>18, <1>0 DEF P!PersistResultFails
<1>19. CASE P!Crash(r)
  BY <1>19, <1>0 DEF P!Crash
<1> QED BY <1>1, <1>2, <1>3, <1>4, <1>5, <1>6, <1>7, <1>8, <1>9, <1>10, <1>11,
           <1>12, <1>13, <1>14, <1>15, <1>16, <1>17, <1>18, <1>19
        DEF P!Progress, P!Disturbance

\* The pipeline goes on with the answer of notify.
LEMMA AnswerKeeps ==
    ASSUME PipelineTypes, NEW r \in Senders, HasMail(r),
           P!DeliverOk(r) \/ P!DeliverFails(r) \/ P!Crash(r)
    PROVE  /\ PipelineTypes'
           /\ HasMail(r)'
           /\ \A q \in Senders \ {r} : run'[q] = run[q] /\ stage'[q] = stage[q]
<1> USE DEF PipelineTypes, HasMail, P!Goto, P!mail, P!durable
<1>1. CASE P!DeliverOk(r)
  BY <1>1 DEF P!DeliverOk, P!Labels
<1>2. CASE P!DeliverFails(r)
  BY <1>2 DEF P!DeliverFails, P!Fail, P!RunState, P!Failures, P!Labels
<1>3. CASE P!Crash(r)
  <2>1. P!FreshRun \in P!RunState /\ "idle" \in P!Labels /\ P!FreshRun.todo = {}
    BY DEF P!FreshRun, P!RunState, P!Failures, P!None, P!Labels
  <2> QED BY <1>3, <2>1 DEF P!Crash
<1> QED BY <1>1, <1>2, <1>3

-----------------------------------------------------------------------------
(* The file and the calls.                                                  *)

\* Pruning invents nothing.
LEMMA PrunedIsTrue ==
    ASSUME DedupeTypes, FileIsTrue(entries), NEW now \in Nat, NEW es \in Pruned(now)
    PROVE  es \in [Keys -> Entry] /\ FileIsTrue(es)
<1> DEFINE kept == [k \in Keys |-> Expired(entries[k], now)]
<1>0. NoEntry \in Entry /\ NoEntry.sent = Never
  BY DEF NoEntry, Entry, Never
<1>1. ASSUME NEW k \in Keys
      PROVE  kept[k] \in Entry /\ kept[k].sent \in {entries[k].sent, Never}
  <2>1. entries[k] \in Entry
    BY DEF DedupeTypes
  <2>2. [entries[k] EXCEPT !.until = 0, !.owner = Nobody] \in Entry
        /\ [entries[k] EXCEPT !.until = 0, !.owner = Nobody].sent = entries[k].sent
    BY <2>1 DEF Entry
  <2>3. Expired(entries[k], now) \in {NoEntry, entries[k],
           [entries[k] EXCEPT !.until = 0, !.owner = Nobody]}
    BY DEF Expired
  <2> QED BY <1>0, <2>1, <2>2, <2>3
<1>2. PICK gone : es = [k \in Keys |-> IF k \in gone THEN NoEntry ELSE kept[k]]
  BY DEF Pruned
<1> HIDE DEF kept
<1> QED BY <1>0, <1>1, <1>2 DEF FileIsTrue

\* A call returns to its runner.
LEMMA ReturnKeeps ==
    ASSUME DedupeTypes, NEW r \in Senders, Return(r)
    PROVE  /\ call' \in [Senders -> Calls]
           /\ pc' \in [Senders -> {"idle", "reserve", "post", "finalize"}]
           /\ pc'[r] = "idle"
           /\ \A q \in Senders \ {r} : call'[q] = call[q] /\ pc'[q] = pc[q]
<1>1. NewCall(call[r].key) \in Calls
  BY DEF DedupeTypes, NewCall, Calls
<1> QED BY <1>1 DEF Return, Goto, DedupeTypes

\* Another runner's step leaves a runner's part of the invariant alone.
LEMMA OthersKeep ==
    ASSUME NEW q \in Senders, HasMail(q), CallIsTrue(q),
           run'[q] = run[q], stage'[q] = stage[q],
           call'[q] = call[q], pc'[q] = pc[q], shown \subseteq shown'
    PROVE  HasMail(q)' /\ CallIsTrue(q)'
BY DEF HasMail, CallIsTrue, Notifying

-----------------------------------------------------------------------------
(* The invariant.                                                           *)

LEMMA InitDeliveryIInv == DeliveryInit => DeliveryIInv
<1> SUFFICES ASSUME DeliveryInit PROVE DeliveryIInv
  OBVIOUS
<1>1. P!FreshRun \in P!RunState /\ "idle" \in P!Labels /\ P!FreshRun.todo = {}
  BY DEF P!FreshRun, P!RunState, P!Failures, P!None, P!Labels
<1>2. arrived \in 1..MaxMsgs /\ inbox = 1..arrived /\ ckpt \in 1..arrived
      /\ stage = [r \in Senders |-> "idle"] /\ run = [r \in Senders |-> P!FreshRun]
      /\ handled = {}
  BY DEF DeliveryInit, P!InitInstalled, P!InitCommon
<1>3. PipelineTypes
  BY <1>1, <1>2, MaxMsgsNat DEF PipelineTypes
<1>4. entries = [k \in Keys |-> NoEntry] /\ clock = 1
      /\ pc = [s \in Senders |-> "idle"]
      /\ call \in [Senders -> {NewCall(k) : k \in Keys}]
  BY DEF DeliveryInit, Init, NoEntries
<1>5. NoEntry \in Entry /\ NoEntry.sent = Never
  BY DEF NoEntry, Entry, Never
<1>6. \A k \in Keys : NewCall(k) \in Calls
  BY <1>4 DEF NewCall, Calls
<1>7. DedupeTypes
  BY <1>4, <1>5, <1>6 DEF DedupeTypes
<1>8. \A r \in Senders : HasMail(r) /\ CallIsTrue(r)
  BY <1>1, <1>2, <1>4 DEF HasMail, CallIsTrue
<1>9. FileIsTrue(entries)
  BY <1>4, <1>5 DEF FileIsTrue
<1> QED BY <1>2, <1>3, <1>7, <1>8, <1>9 DEF DeliveryIInv, NotifiedWasShown

LEMMA OwnStepIInv ==
    ASSUME DeliveryIInv, NEW r \in Senders, OwnStep(r)
    PROVE  DeliveryIInv'
<1>1. UNCHANGED <<entries, clock, pc, call, shown, vouched>>
  BY DEF OwnStep, vars, outcome
<1>2. /\ PipelineTypes' /\ HasMail(r)'
      /\ \A q \in Senders \ {r} : run'[q] = run[q] /\ stage'[q] = stage[q]
      /\ handled' \intersect Target \subseteq handled
  BY OwnStepKeeps DEF DeliveryIInv, OwnStep
<1>3. pc[r] = "idle"
  BY DEF OwnStep, DeliveryIInv, CallIsTrue
<1>4. \A q \in Senders : HasMail(q)' /\ CallIsTrue(q)'
  BY <1>1, <1>2, <1>3, OthersKeep DEF DeliveryIInv, CallIsTrue
<1>5. DedupeTypes' /\ FileIsTrue(entries)'
  BY <1>1 DEF DeliveryIInv, DedupeTypes, FileIsTrue
<1>6. NotifiedWasShown'
  BY <1>1, <1>2 DEF DeliveryIInv, NotifiedWasShown
<1> QED BY <1>2, <1>4, <1>5, <1>6 DEF DeliveryIInv

\* A step of a runner's call, while the pipeline waits for it.
LEMMA CallStepIInv ==
    ASSUME DeliveryIInv, NEW r \in Senders, UNCHANGED pipelineVars, UNCHANGED vouched,
           shown \subseteq shown', DedupeTypes', FileIsTrue(entries)',
           \A q \in Senders \ {r} : call'[q] = call[q] /\ pc'[q] = pc[q],
           CallIsTrue(r)'
    PROVE  DeliveryIInv'
<1>1. UNCHANGED <<arrived, inbox, ckpt, handled, stage, run>>
  BY DEF pipelineVars
<1>2. \A q \in Senders : HasMail(q)' /\ CallIsTrue(q)'
  BY <1>1, OthersKeep DEF DeliveryIInv, HasMail
<1>3. PipelineTypes'
  BY <1>1 DEF DeliveryIInv, PipelineTypes
<1>4. NotifiedWasShown'
  BY <1>1 DEF DeliveryIInv, NotifiedWasShown
<1> QED BY <1>2, <1>3, <1>4 DEF DeliveryIInv

LEMMA NotifyIInv ==
    ASSUME DeliveryIInv, NEW r \in Senders, Notify(r)
    PROVE  DeliveryIInv'
<1> DEFINE c == NewCall(run[r].cur)
<1>1. Notifying(r) /\ UNCHANGED <<stage, run, shown, vouched, entries, clock>>
      /\ UNCHANGED pipelineVars
  BY DEF Notify, Send, outside, pipelineVars, outcome
<1>2. run[r].cur \in Keys
  BY <1>1 DEF DeliveryIInv, HasMail, Notifying
<1>3. c \in Calls /\ c.key = run[r].cur /\ ~c.sent
  BY <1>2 DEF DeliveryIInv, DedupeTypes, NewCall, Calls
<1>4. call' = [call EXCEPT ![r] = c] /\ pc' = [pc EXCEPT ![r] = "reserve"]
  BY DEF Notify, Send, Goto
<1> HIDE DEF c
<1>5. DedupeTypes' /\ FileIsTrue(entries)'
  BY <1>1, <1>3, <1>4 DEF DeliveryIInv, DedupeTypes, FileIsTrue
<1>6. call'[r] = c /\ \A q \in Senders \ {r} : call'[q] = call[q] /\ pc'[q] = pc[q]
  BY <1>4 DEF DeliveryIInv, DedupeTypes
<1>7. CallIsTrue(r)'
  BY <1>1, <1>3, <1>6 DEF CallIsTrue, Notifying
<1> QED BY <1>1, <1>5, <1>6, <1>7, CallStepIInv

LEMMA ClaimIInv ==
    ASSUME DeliveryIInv, NEW r \in Senders, Claim(r)
    PROVE  DeliveryIInv'
<1>1. UNCHANGED <<stage, run, shown, vouched>> /\ UNCHANGED pipelineVars
  BY DEF Claim, pipelineVars, outcome
<1>2. pc[r] = "reserve" /\ Notifying(r) /\ call[r].key = run[r].cur
      /\ (call[r].sent => run[r].cur \in shown)
  BY DEF Claim, Reserve, ReserveUnread, Bypass, DeliveryIInv, CallIsTrue
<1>3. clock' = clock /\ pc' = [pc EXCEPT ![r] = "post"]
  BY DEF Claim, Reserve, ReserveUnread, TakeClaim, Bypass, Goto
<1>4. CASE Bypass(r)
  <2>1. UNCHANGED <<entries, call>>
    BY <1>4 DEF Bypass
  <2>2. DedupeTypes' /\ FileIsTrue(entries)' /\ CallIsTrue(r)'
    BY <1>1, <1>2, <1>3, <2>1 DEF DeliveryIInv, DedupeTypes, FileIsTrue, CallIsTrue, Notifying
  <2> QED BY <1>1, <1>3, <2>1, <2>2, CallStepIInv DEF DeliveryIInv, DedupeTypes
<1>5. ASSUME NEW es \in [Keys -> Entry], FileIsTrue(es), TakeClaim(r, es)
      PROVE  DeliveryIInv'
  <2> DEFINE until == ClaimedUntil(call[r].now)
             key == call[r].key
  <2>1. /\ entries' = [es EXCEPT ![key] = [sent |-> es[key].sent, until |-> until, owner |-> r]]
        /\ call' = [call EXCEPT ![r].claimed = TRUE, ![r].until = until]
    BY <1>5 DEF TakeClaim
  <2>2. call[r] \in Calls /\ call[r].now \in Nat /\ key \in Keys
    BY DEF DeliveryIInv, DedupeTypes, Calls
  <2>3. until \in Nat
    BY <2>2, TimesNat DEF ClaimedUntil
  <2> HIDE DEF until, key
  <2>5. [sent |-> es[key].sent, until |-> until, owner |-> r] \in Entry
    BY <1>5, <2>2, <2>3 DEF Entry
  <2>6. entries' \in [Keys -> Entry] /\ FileIsTrue(entries)'
    BY <1>1, <1>5, <2>1, <2>2, <2>5 DEF FileIsTrue
  <2>7. /\ call' \in [Senders -> Calls] /\ call'[r].key = call[r].key
        /\ call'[r].sent = call[r].sent
        /\ \A q \in Senders \ {r} : call'[q] = call[q]
    <3> DEFINE c == [call[r] EXCEPT !.claimed = TRUE, !.until = until]
    <3>1. c \in Calls /\ c.key = call[r].key /\ c.sent = call[r].sent
      BY <2>2, <2>3 DEF Calls
    <3>2. call' = [call EXCEPT ![r] = c] /\ call \in [Senders -> Calls]
      BY <2>1 DEF DeliveryIInv, DedupeTypes
    <3> HIDE DEF c
    <3> QED BY <3>1, <3>2
  <2>8. DedupeTypes' /\ CallIsTrue(r)'
    BY <1>1, <1>2, <1>3, <2>6, <2>7 DEF DeliveryIInv, DedupeTypes, CallIsTrue, Notifying
  <2> QED BY <1>1, <1>3, <2>6, <2>7, <2>8, CallStepIInv DEF DeliveryIInv, DedupeTypes
<1>6. CASE Reserve(r)
  <2>1. PICK es \in Pruned(call[r].now) : TakeClaim(r, es)
    BY <1>6 DEF Reserve
  <2>2. call[r].now \in Nat
    BY DEF DeliveryIInv, DedupeTypes, Calls
  <2>3. es \in [Keys -> Entry] /\ FileIsTrue(es)
    BY <2>1, <2>2, PrunedIsTrue DEF DeliveryIInv
  <2> QED BY <1>5, <2>1, <2>3
<1>7. CASE ReserveUnread(r)
  <2>1. NoEntries \in [Keys -> Entry] /\ FileIsTrue(NoEntries)
    BY DEF NoEntries, NoEntry, Entry, Never, Nobody, FileIsTrue
  <2> QED BY <1>5, <1>7, <2>1 DEF ReserveUnread
<1> QED BY <1>4, <1>6, <1>7 DEF Claim

\* The answer of a call that ends makes the pipeline go on.
LEMMA EndedCallIInv ==
    ASSUME DeliveryIInv, NEW r \in Senders,
           P!DeliverOk(r) \/ P!DeliverFails(r) \/ P!Crash(r),
           UNCHANGED shown, vouched \subseteq vouched', clock' = clock,
           pc'[r] = "idle",
           pc' \in [Senders -> {"idle", "reserve", "post", "finalize"}],
           call' \in [Senders -> Calls],
           \A q \in Senders \ {r} : call'[q] = call[q] /\ pc'[q] = pc[q],
           entries' \in [Keys -> Entry], FileIsTrue(entries)',
           P!DeliverOk(r) => run[r].cur \in shown \union vouched'
    PROVE  DeliveryIInv'
<1>1. /\ PipelineTypes' /\ HasMail(r)'
      /\ \A q \in Senders \ {r} : run'[q] = run[q] /\ stage'[q] = stage[q]
  BY AnswerKeeps DEF DeliveryIInv
<1>2. \A q \in Senders : HasMail(q)' /\ CallIsTrue(q)'
  BY <1>1, OthersKeep DEF DeliveryIInv, CallIsTrue
<1>3. DedupeTypes'
  BY DEF DeliveryIInv, DedupeTypes
<1>4. handled' \subseteq handled \union (IF P!DeliverOk(r) THEN {run[r].cur} ELSE {})
  BY DEF P!DeliverOk, P!DeliverFails, P!Crash
<1>5. NotifiedWasShown'
  BY <1>4 DEF DeliveryIInv, NotifiedWasShown
<1> QED BY <1>1, <1>2, <1>3, <1>5 DEF DeliveryIInv

LEMMA SuppressedIInv ==
    ASSUME DeliveryIInv, NEW r \in Senders, Suppressed(r)
    PROVE  DeliveryIInv'
<1> DEFINE cur == run[r].cur
<1>1. call[r].now \in Nat /\ cur \in Keys
  BY DEF DeliveryIInv, DedupeTypes, Calls, Suppressed, P!DeliverOk, HasMail
<1>2. PICK es \in Pruned(call[r].now) : entries' = es
  BY DEF Suppressed, Suppress
<1>3. entries' \in [Keys -> Entry] /\ FileIsTrue(entries')
  BY <1>1, <1>2, PrunedIsTrue DEF DeliveryIInv
<1>4. Return(r) /\ P!DeliverOk(r) /\ shown' = shown /\ clock' = clock
  BY DEF Suppressed, Suppress, outside
<1>5. FileIsTrue(entries)'
  BY <1>3, <1>4 DEF FileIsTrue
<1>6. vouched \subseteq vouched' /\ cur \in shown \union vouched'
  <2>1. CASE SentRecently(entries[cur], call[r].now)
    BY <1>1, <2>1 DEF Suppressed, SentRecently, DeliveryIInv, FileIsTrue
  <2>2. CASE ~SentRecently(entries[cur], call[r].now)
    BY <2>2 DEF Suppressed
  <2> QED BY <2>1, <2>2
<1> QED BY <1>3, <1>4, <1>5, <1>6, ReturnKeeps, EndedCallIInv DEF DeliveryIInv

LEMMA PostIInv ==
    ASSUME DeliveryIInv, NEW r \in Senders, Posted(r) \/ PostFailed(r)
    PROVE  DeliveryIInv'
<1>1. UNCHANGED <<stage, run, vouched, entries, clock>> /\ UNCHANGED pipelineVars
      /\ shown \subseteq shown'
  BY DEF Posted, PostFailed, PostOk, PostFails, pipelineVars
<1>2. pc[r] = "post" /\ Notifying(r) /\ call[r].key = run[r].cur
      /\ (call[r].sent => run[r].cur \in shown)
  BY DEF Posted, PostFailed, PostOk, PostFails, DeliveryIInv, CallIsTrue
<1>3. FileIsTrue(entries)'
  BY <1>1 DEF DeliveryIInv, FileIsTrue
<1>4. CASE Posted(r)
  <2>1. call' = [call EXCEPT ![r].sent = TRUE, ![r].now = clock]
        /\ pc' = [pc EXCEPT ![r] = "finalize"] /\ run[r].cur \in shown'
    BY <1>4 DEF Posted, PostOk, Goto
  <2>2. DedupeTypes' /\ call'[r].key = call[r].key
        /\ \A q \in Senders \ {r} : call'[q] = call[q] /\ pc'[q] = pc[q]
    <3>1. call[r] \in Calls /\ clock \in Nat
      BY DEF DeliveryIInv, DedupeTypes
    <3> DEFINE c == [call[r] EXCEPT !.sent = TRUE, !.now = clock]
    <3>2. c \in Calls /\ c.key = call[r].key
      BY <3>1 DEF Calls
    <3>3. call' = [call EXCEPT ![r] = c]
      BY <2>1
    <3> HIDE DEF c
    <3> QED BY <1>1, <2>1, <3>2, <3>3 DEF DeliveryIInv, DedupeTypes
  <2>3. CallIsTrue(r)'
    BY <1>1, <1>2, <2>1, <2>2 DEF CallIsTrue, Notifying
  <2> QED BY <1>1, <1>3, <2>2, <2>3, CallStepIInv
<1>5. CASE PostFailed(r)
  <2>1. \/ call' = [call EXCEPT ![r].attempt = @ + 1] /\ pc' = pc
        \/ /\ call' = [call EXCEPT ![r].now = clock]
           /\ pc' = [pc EXCEPT ![r] = "finalize"]
    BY <1>5 DEF PostFailed, PostFails, Goto
  <2>2. DedupeTypes' /\ call'[r].key = call[r].key /\ call'[r].sent = call[r].sent
        /\ \A q \in Senders \ {r} : call'[q] = call[q] /\ pc'[q] = pc[q]
    BY <1>1, <2>1 DEF DeliveryIInv, DedupeTypes, Calls
  <2>3. CallIsTrue(r)'
    BY <1>1, <1>2, <2>2 DEF CallIsTrue, Notifying
  <2> QED BY <1>1, <1>3, <2>2, <2>3, CallStepIInv
<1> QED BY <1>4, <1>5

LEMMA AnsweredIInv ==
    ASSUME DeliveryIInv, NEW r \in Senders, Answered(r)
    PROVE  DeliveryIInv'
<1>1. pc[r] = "finalize" /\ Return(r) /\ clock' = clock
      /\ shown' = shown /\ vouched' = vouched
  BY DEF Answered, Finalize, FinalizeFails, outcome
<1>2. call[r].key = run[r].cur /\ (call[r].sent => run[r].cur \in shown)
      /\ call[r] \in Calls /\ call[r].now \in Nat /\ call[r].key \in Keys
  BY <1>1 DEF DeliveryIInv, CallIsTrue, DedupeTypes, Calls
<1>3. entries' \in [Keys -> Entry] /\ FileIsTrue(entries')
  <2>1. CASE entries' = entries
    BY <2>1 DEF DeliveryIInv, DedupeTypes
  <2>2. CASE entries' # entries
    <3> DEFINE key == call[r].key
    <3>1. PICK es \in Pruned(call[r].now) :
             entries' = [es EXCEPT ![key] = SettledEntry(es[key], r)]
      BY <2>2 DEF Answered, Finalize, FinalizeFails
    <3>2. es \in [Keys -> Entry] /\ FileIsTrue(es)
      BY <1>2, <3>1, PrunedIsTrue DEF DeliveryIInv
    <3>3. SettledEntry(es[key], r) \in Entry
          /\ SettledEntry(es[key], r).sent =
                (IF call[r].sent THEN call[r].now ELSE es[key].sent)
      BY <1>2, <3>2 DEF SettledEntry, Entry
    <3> QED BY <1>2, <3>1, <3>2, <3>3 DEF FileIsTrue
  <2> QED BY <2>1, <2>2
<1>4. FileIsTrue(entries)'
  BY <1>1, <1>3 DEF FileIsTrue
<1>5. CASE call[r].sent
  BY <1>1, <1>2, <1>3, <1>4, <1>5, ReturnKeeps, EndedCallIInv DEF Answered, DeliveryIInv
<1>6. CASE ~call[r].sent
  <2>1. P!DeliverFails(r) /\ ~P!DeliverOk(r)
    BY <1>6 DEF Answered, P!DeliverFails, P!DeliverOk, P!Fail, P!Goto, DeliveryIInv, PipelineTypes
  <2> QED BY <1>1, <1>3, <1>4, <2>1, ReturnKeeps, EndedCallIInv DEF DeliveryIInv
<1> QED BY <1>5, <1>6

LEMMA KilledIInv ==
    ASSUME DeliveryIInv, NEW r \in Senders, KilledNotifying(r)
    PROVE  DeliveryIInv'
<1>1. P!Crash(r) /\ ~P!DeliverOk(r) /\ shown' = shown /\ vouched' = vouched
  BY DEF KilledNotifying, P!Crash, P!DeliverOk, P!Goto, DeliveryIInv, PipelineTypes, outcome
<1>2. entries' = entries /\ clock' = clock
  BY DEF KilledNotifying, Crash, vars
<1>3. /\ call' \in [Senders -> Calls] /\ pc'[r] = "idle"
      /\ pc' \in [Senders -> {"idle", "reserve", "post", "finalize"}]
      /\ \A q \in Senders \ {r} : call'[q] = call[q] /\ pc'[q] = pc[q]
  <2>1. CASE pc[r] = "idle"
    BY <2>1 DEF KilledNotifying, vars, DeliveryIInv, DedupeTypes
  <2>2. CASE pc[r] # "idle"
    BY <2>2, ReturnKeeps DEF KilledNotifying, Crash, DeliveryIInv
  <2> QED BY <2>1, <2>2
<1>4. entries' \in [Keys -> Entry] /\ FileIsTrue(entries)'
  BY <1>1, <1>2 DEF DeliveryIInv, DedupeTypes, FileIsTrue
<1> QED BY <1>1, <1>2, <1>3, <1>4, EndedCallIInv

LEMMA MailboxIInv ==
    ASSUME DeliveryIInv, Mailbox
    PROVE  DeliveryIInv'
<1>1. UNCHANGED <<handled, ckpt, stage, run, entries, clock, pc, call, shown, vouched>>
  BY DEF Mailbox, P!Arrive, P!Archive, P!durable, vars, outcome
<1>2. arrived' \in Nat /\ inbox' \subseteq 1..MaxMsgs
  <2>1. CASE P!Arrive
    <3>1. arrived' \in 1..MaxMsgs /\ arrived' \in Nat /\ inbox' = inbox \union {arrived'}
      BY <2>1, MaxMsgsNat DEF P!Arrive, DeliveryIInv, PipelineTypes
    <3> QED BY <3>1 DEF DeliveryIInv, PipelineTypes
  <2>2. CASE \E m \in inbox : P!Archive(m)
    BY <2>2 DEF P!Archive, DeliveryIInv, PipelineTypes
  <2> QED BY <2>1, <2>2 DEF Mailbox
<1> QED BY <1>1, <1>2
        DEF DeliveryIInv, PipelineTypes, DedupeTypes, HasMail, CallIsTrue, Notifying,
            FileIsTrue, NotifiedWasShown

LEMMA ElsewhereIInv ==
    ASSUME DeliveryIInv, Elsewhere
    PROVE  DeliveryIInv'
<1>1. UNCHANGED <<arrived, inbox, handled, ckpt, stage, run, pc, call, shown, vouched>>
  BY DEF Elsewhere, Summarise, Tick, pipelineVars, outcome
<1>2. clock' \in Nat
  BY DEF DeliveryIInv, DedupeTypes, Elsewhere, Summarise, Tick
<1>3. entries' \in [Keys -> Entry] /\ FileIsTrue(entries')
  <2>1. CASE entries' = entries
    BY <2>1 DEF DeliveryIInv, DedupeTypes
  <2>2. CASE entries' \in Pruned(clock)
    BY <2>2, PrunedIsTrue DEF DeliveryIInv, DedupeTypes
  <2> QED BY <2>1, <2>2 DEF Elsewhere, Summarise, Tick
<1> QED BY <1>1, <1>2, <1>3
        DEF DeliveryIInv, PipelineTypes, DedupeTypes, HasMail, CallIsTrue, Notifying,
            FileIsTrue, NotifiedWasShown

LEMMA NextDeliveryIInv == DeliveryIInv /\ [DeliveryNext]_deliveryVars => DeliveryIInv'
<1>1. ASSUME DeliveryIInv, UNCHANGED deliveryVars
      PROVE  DeliveryIInv'
  BY <1>1 DEF deliveryVars, pipelineVars, vars, outcome, DeliveryIInv, PipelineTypes, DedupeTypes,
      HasMail, CallIsTrue, Notifying, FileIsTrue, NotifiedWasShown
<1> QED BY <1>1, OwnStepIInv, NotifyIInv, ClaimIInv, SuppressedIInv, PostIInv,
           AnsweredIInv, KilledIInv, MailboxIInv, ElsewhereIInv DEF DeliveryNext

\* Whatever fails, expires, is pruned, evicted or retried, and however many
\* processes overlap, mail counts as notified only when Discord has displayed
\* it or on the strength of another's unsettled claim (run_once,
\* _post_webhook_with_dedupe).
THEOREM NotifiedTheorem == DeliverySpec => []NotifiedWasShown
<1>1. DeliveryIInv => NotifiedWasShown
  BY DEF DeliveryIInv
<1> QED BY InitDeliveryIInv, NextDeliveryIInv, <1>1, PTL DEF DeliverySpec
-----------------------------------------------------------------------------
(* The pipeline within the composition.                                     *)

\* The steps of the composition are steps of the pipeline, or leave it alone:
\* notify, which is one step of Pipeline, takes many here.
LEMMA PipelineStep ==
    ASSUME [DeliveryNext]_deliveryVars
    PROVE  [P!Next]_(P!vars)
<1>1. UNCHANGED pipelineVars => UNCHANGED P!vars
  BY DEF pipelineVars, P!vars
<1>2. ASSUME NEW r \in Senders, OwnStep(r) PROVE P!Next
  BY <1>2 DEF OwnStep, P!Next
<1>3. CASE Mailbox
  BY <1>3 DEF Mailbox, P!Next
<1>4. ASSUME NEW r \in Senders, Notify(r) \/ Claim(r) \/ Posted(r) \/ PostFailed(r)
      PROVE  UNCHANGED pipelineVars
  BY <1>4 DEF Notify, Claim, Posted, PostFailed
<1>5. ASSUME NEW r \in Senders, Suppressed(r) \/ Answered(r) \/ KilledNotifying(r)
      PROVE  P!Next
  <2>1. P!DeliverOk(r) \/ P!DeliverFails(r) \/ P!Crash(r)
    BY <1>5 DEF Suppressed, Answered, KilledNotifying
  <2>2. P!Progress(r) \/ P!Disturbance(r)
    BY <2>1 DEF P!Progress, P!Disturbance
  <2> QED BY <2>2 DEF P!Next
<1>6. CASE Elsewhere
  BY <1>1, <1>6 DEF Elsewhere
<1>7. CASE UNCHANGED deliveryVars
  BY <1>1, <1>7 DEF deliveryVars
<1> QED BY <1>1, <1>2, <1>3, <1>4, <1>5, <1>6, <1>7 DEF DeliveryNext

\* The composition implements the pipeline of a running installation, with
\* notify taking as long as it takes and answering as the claims decide.
THEOREM ComposedPipeline == DeliverySpec => P!InstalledSpec
<1>1. DeliveryInit => P!InitInstalled
  BY DEF DeliveryInit
<1> QED BY <1>1, PipelineStep, PTL DEF DeliverySpec, P!InstalledSpec

\* What PipelineProofs shows of the pipeline.
PP == INSTANCE PipelineProofs WITH
          Runners <- Senders, MaxFaults <- MaxRunFaults, pc <- stage, faults <- runFaults

\* P and PP are one module: each action of the one is that of the other.
LEMMA SameRunner ==
    ASSUME NEW r \in Senders
    PROVE  P!Progress(r) \/ P!Disturbance(r) => PP!Progress(r) \/ PP!Disturbance(r)
<1>1. \A dry \in BOOLEAN : P!Start(r, dry) => PP!Start(r, dry)
  BY DEF P!Start, PP!Start, P!FreshRun, PP!FreshRun, P!None, PP!None, P!Goto,
     PP!Goto, P!Fault, PP!Fault, P!mail, PP!mail, P!durable, PP!durable
<1>2. \A m : P!TakeMessage(r, m) => PP!TakeMessage(r, m)
  BY DEF P!TakeMessage, PP!TakeMessage, P!IsNext, PP!IsNext, P!Goto, PP!Goto,
     P!mail, PP!mail, P!durable, PP!durable
<1>3. P!AlreadyInitialized(r) => PP!AlreadyInitialized(r)
  BY DEF P!AlreadyInitialized, PP!AlreadyInitialized, P!InitialSyncCompleted,
     PP!InitialSyncCompleted, P!Legacy, PP!Legacy, P!None, PP!None, P!Goto,
     PP!Goto, P!AnnouncementDue, PP!AnnouncementDue, P!mail, PP!mail, P!durable,
     PP!durable
<1>4. P!ChooseInitialCheckpoint(r) => PP!ChooseInitialCheckpoint(r)
  BY DEF P!ChooseInitialCheckpoint, PP!ChooseInitialCheckpoint,
     P!InitialSyncCompleted, PP!InitialSyncCompleted, P!Legacy, PP!Legacy,
     P!None, PP!None, P!IsLatestMessageId, PP!IsLatestMessageId, P!Goto,
     PP!Goto, P!mail, PP!mail, P!durable, PP!durable
<1>5. P!CompleteInitialSync(r) => PP!CompleteInitialSync(r)
  BY DEF P!CompleteInitialSync, PP!CompleteInitialSync, P!RecordInitialSync,
     PP!RecordInitialSync, P!SnapshotState, PP!SnapshotState, P!Goto, PP!Goto,
     P!mail, PP!mail
<1>6. P!AnnounceSetup(r) => PP!AnnounceSetup(r)
  BY DEF P!AnnounceSetup, PP!AnnounceSetup, P!Goto, PP!Goto, P!mail, PP!mail
<1>7. P!ListMail(r) => PP!ListMail(r)
  <2>0. \A S : P!Cardinality(S) = PP!Cardinality(S)
    BY DEF P!Cardinality, PP!Cardinality
  <2>1. P!FirstPage = PP!FirstPage
    BY <2>0 DEF P!FirstPage, PP!FirstPage
  <2>2. \A c : P!Pending(c) = PP!Pending(c)
    BY <2>1 DEF P!Pending, PP!Pending, P!None, PP!None
  <2>3. \A S : P!Oldest(S) = PP!Oldest(S)
    BY <2>0 DEF P!Oldest, PP!Oldest
  <2> QED BY <2>2, <2>3
          DEF P!ListMail, PP!ListMail, P!None, PP!None, P!Goto, PP!Goto, P!mail, PP!mail,
              P!durable, PP!durable
<1>8. P!CheckpointNotFound(r) => PP!CheckpointNotFound(r)
  BY DEF P!CheckpointNotFound, PP!CheckpointNotFound, P!None, PP!None, P!Fail,
     PP!Fail, P!Goto, PP!Goto, P!mail, PP!mail, P!durable, PP!durable
<1>9. P!DeliverOk(r) => PP!DeliverOk(r)
  BY DEF P!DeliverOk, PP!DeliverOk, P!Goto, PP!Goto, P!mail, PP!mail, P!durable,
     PP!durable
<1>10. P!Commit(r) => PP!Commit(r)
  BY DEF P!Commit, PP!Commit, P!durable, PP!durable, P!SnapshotState,
     PP!SnapshotState, P!Goto, PP!Goto, P!mail, PP!mail
<1>11. P!NoMoreMail(r) => PP!NoMoreMail(r)
  BY DEF P!NoMoreMail, PP!NoMoreMail, P!Goto, PP!Goto, P!mail, PP!mail,
     P!durable, PP!durable
<1>12. P!PersistResult(r) => PP!PersistResult(r)
  BY DEF P!PersistResult, PP!PersistResult, P!SnapshotState, PP!SnapshotState,
     P!FreshRun, PP!FreshRun, P!None, PP!None, P!Goto, PP!Goto, P!mail, PP!mail
<1>13. P!StartFails(r) => PP!StartFails(r)
  BY DEF P!StartFails, PP!StartFails, P!None, PP!None, P!Fault, PP!Fault,
     P!SnapshotState, PP!SnapshotState, P!mail, PP!mail
<1>14. P!AnnounceSetupFails(r) => PP!AnnounceSetupFails(r)
  BY DEF P!AnnounceSetupFails, PP!AnnounceSetupFails, P!Fault, PP!Fault, P!Goto,
     PP!Goto, P!mail, PP!mail, P!durable, PP!durable
<1>15. P!SourceFails(r) => PP!SourceFails(r)
  BY DEF P!SourceFails, PP!SourceFails, P!Fault, PP!Fault, P!Fail, PP!Fail,
     P!Goto, PP!Goto, P!mail, PP!mail, P!durable, PP!durable
<1>16. P!DeliverFails(r) => PP!DeliverFails(r)
  BY DEF P!DeliverFails, PP!DeliverFails, P!Fault, PP!Fault, P!Fail, PP!Fail,
     P!Goto, PP!Goto, P!mail, PP!mail, P!durable, PP!durable
<1>17. P!CommitFails(r) => PP!CommitFails(r)
  BY DEF P!CommitFails, PP!CommitFails, P!Fault, PP!Fault, P!durable,
     PP!durable, P!RecordInitialSync, PP!RecordInitialSync, P!Fail, PP!Fail,
     P!Goto, PP!Goto, P!mail, PP!mail
<1>18. P!PersistResultFails(r) => PP!PersistResultFails(r)
  BY DEF P!PersistResultFails, PP!PersistResultFails, P!Fault, PP!Fault,
     P!FreshRun, PP!FreshRun, P!None, PP!None, P!Goto, PP!Goto, P!mail, PP!mail,
     P!durable, PP!durable
<1>19. P!Crash(r) => PP!Crash(r)
  BY DEF P!Crash, PP!Crash, P!Fault, PP!Fault, P!FreshRun, PP!FreshRun, P!None,
     PP!None, P!Goto, PP!Goto, P!mail, PP!mail, P!durable, PP!durable
<1> QED BY <1>1, <1>2, <1>3, <1>4, <1>5, <1>6, <1>7, <1>8, <1>9, <1>10,
           <1>11, <1>12, <1>13, <1>14, <1>15, <1>16, <1>17, <1>18, <1>19
        DEF P!Progress, PP!Progress, P!Disturbance, PP!Disturbance

LEMMA SamePipeline ==
    /\ P!InitInstalled => PP!InitInstalled
    /\ [P!Next]_(P!vars) => [PP!Next]_(PP!vars)
<1>1. P!InitInstalled => PP!InitInstalled
  BY DEF P!InitInstalled, PP!InitInstalled, P!InitCommon, PP!InitCommon, P!FreshRun, PP!FreshRun, P!None, PP!None
<1>2. UNCHANGED P!vars => UNCHANGED PP!vars
  BY DEF P!vars, PP!vars
<1>3. P!Arrive => PP!Arrive
  BY DEF P!Arrive, PP!Arrive, P!durable, PP!durable
<1>4. \A m : P!Archive(m) => PP!Archive(m)
  BY DEF P!Archive, PP!Archive, P!durable, PP!durable
<1>5. P!Next => PP!Next
  BY <1>3, <1>4, SameRunner DEF P!Next, PP!Next
<1> QED BY <1>1, <1>2, <1>5

\* The inductive invariant of the pipeline holds of the composition, too.
LEMMA ComposedInvariance == DeliverySpec => []PP!IInv
<1>1. DeliveryInit => PP!IInv
  BY SamePipeline, PP!InitIInv, MaxMsgsNat, MaxMessagesPos, PageSizePos, TargetNat,
     SyncModesKnown, MaxRunFaultsNat DEF DeliveryInit
<1>2. PP!IInv /\ [DeliveryNext]_deliveryVars => PP!IInv'
  BY PipelineStep, SamePipeline, PP!NextIInv, MaxMsgsNat, MaxMessagesPos, PageSizePos,
     TargetNat, SyncModesKnown, MaxRunFaultsNat
<1> QED BY <1>1, <1>2, PTL DEF DeliverySpec

\* Mail behind the checkpoint was displayed, or vouched for by a claim.
ProcessedWasAnswered ==
    \A m \in Target :
        base < m /\ m <= ckpt /\ m \in inbox => m \in shown \union vouched

\* End to end: a target mail that lies behind the durable checkpoint and is
\* still in the inbox has been displayed by Discord, or a runner was told so
\* because of a claim that another had not settled.  The unsettled claim is the
\* only way in which "processed only after the notification path succeeds"
\* (README.md, Guarantees) fails.
THEOREM ProcessedTheorem == DeliverySpec => []ProcessedWasAnswered
<1>1. ASSUME PP!IInv, NotifiedWasShown, NEW m \in Target,
             base < m, m <= ckpt, m \in inbox
      PROVE  m \in shown \union vouched
  <2>1. base \in Nat /\ ckpt \in Nat /\ m \in Nat
    BY <1>1, TargetNat DEF PP!IInv, PP!TypeOK
  <2>2. m \in PP!Settled
    BY <1>1, <2>1 DEF PP!IInv, PP!NoGap, PP!NoGapUpTo
  <2>3. m \in handled
    BY <1>1, <2>2 DEF PP!Settled
  <2> QED BY <1>1, <2>3 DEF NotifiedWasShown
<1>2. PP!IInv /\ NotifiedWasShown => ProcessedWasAnswered
  BY <1>1 DEF ProcessedWasAnswered
<1> QED BY <1>2, ComposedInvariance, NotifiedTheorem, PTL
-----------------------------------------------------------------------------
(* The dedupe layer within the composition.                                 *)

\* The steps of the composition are steps of the dedupe layer, or leave it
\* alone: a runner notifies mail there can be a message about.
LEMMA DedupeStep ==
    ASSUME DeliveryIInv, [DeliveryNext]_deliveryVars
    PROVE  [Next]_vars
<1>1. UNCHANGED vars => UNCHANGED vars
  BY DEF vars, vars
<1>2. ASSUME NEW r \in Senders, Notify(r)
      PROVE  Next
  <2>1. run[r].cur \in Keys
    BY <1>2 DEF Notify, Notifying, DeliveryIInv, HasMail
  <2> QED BY <1>2, <2>1 DEF Notify, Next
<1>3. ASSUME NEW r \in Senders, Claim(r) \/ Suppressed(r) \/ Posted(r) \/ Answered(r)
      PROVE  Next
  BY <1>3 DEF Claim, Suppressed, Posted, Answered, Next
<1>4. ASSUME NEW r \in Senders, PostFailed(r)
      PROVE  Next
  BY <1>4 DEF PostFailed, Next
<1>5. ASSUME NEW r \in Senders, KilledNotifying(r)
      PROVE  UNCHANGED vars \/ Next
  BY <1>5 DEF KilledNotifying, Next
<1>6. ASSUME NEW r \in Senders, OwnStep(r)
      PROVE  UNCHANGED vars
  BY <1>6 DEF OwnStep
<1>7. CASE Mailbox
  BY <1>1, <1>7 DEF Mailbox
<1>8. CASE Elsewhere
  BY <1>8 DEF Elsewhere, Next
<1>9. CASE UNCHANGED deliveryVars
  BY <1>1, <1>9 DEF deliveryVars
<1> QED BY <1>1, <1>2, <1>3, <1>4, <1>5, <1>6, <1>7, <1>8, <1>9 DEF DeliveryNext

\* The composition implements the dedupe layer with one sender per runner: what
\* was shown above of any senders holds when they are pipelines.
THEOREM ComposedDedupe == DeliverySpec => Spec
<1>1. DeliveryInit => Init
  BY DEF DeliveryInit
<1>2. DeliveryIInv /\ [DeliveryNext]_deliveryVars => [Next]_vars
  BY DedupeStep
<1> QED BY <1>1, <1>2, InitDeliveryIInv, NextDeliveryIInv, PTL DEF DeliverySpec, Spec

\* Of the runners that may post one mail, one claimed it after the file was last
\* taken for empty.
OneNotifies ==
    \A r, q \in claimants :
        HoldsClaim(r) /\ HoldsClaim(q) /\ run[r].cur = run[q].cur => r = q

\* Of overlapping runs that have the same mail in hand, only one at a time holds
\* an unexpired claim to post it, as long as all mail fits into the file and the
\* file can be read: what was claimed before it last could not be is not counted.
THEOREM OneNotifiesTheorem ==
    ASSUME Cardinality(Keys) <= MaxEntries
    PROVE  DeliverySpec => []OneNotifies
<1>1. IsFiniteSet(Keys)
  <2>1. IsFiniteSet(1..MaxMsgs)
    BY MaxMsgsNat, FS_Interval
  <2>2. Keys \subseteq 1..MaxMsgs
    BY KeysAreMail
  <2> QED BY <2>1, <2>2, FS_Subset
<1>2. Spec => []ClaimsExclusive
  BY <1>1, Exclusive
<1>3. ClaimsExclusive /\ TypeOK /\ DeliveryIInv => OneNotifies
  <2> SUFFICES ASSUME ClaimsExclusive, TypeOK, DeliveryIInv, NEW r \in claimants, NEW q \in claimants,
                      HoldsClaim(r), HoldsClaim(q), run[r].cur = run[q].cur
               PROVE  r = q
    BY DEF OneNotifies
  <2>1. call[r].key = run[r].cur /\ call[q].key = run[q].cur
    BY DEF HoldsClaim, DeliveryIInv, CallIsTrue, TypeOK
  <2> QED BY <2>1 DEF ClaimsExclusive
<1>4. DeliverySpec => []DeliveryIInv
  BY InitDeliveryIInv, NextDeliveryIInv, PTL DEF DeliverySpec
<1> QED BY <1>2, <1>3, <1>4, ComposedDedupe, TypeCorrect, PTL
=============================================================================
