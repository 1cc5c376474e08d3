------------------------------ MODULE Failover ------------------------------
(***************************************************************************)
(* The main service and the fallback timer together: the watchdog of       *)
(* module StateFile judges the main service by its heartbeat, and polls    *)
(* by itself while that is not healthy.                                    *)
(***************************************************************************)
EXTENDS Heartbeat

CONSTANTS Runners, Watchdogs, Kinds, Snapshots, MaxOpens, MaxFaults   \* of StateFile

VARIABLES state, holder, opened, recovered, pc, job, faults           \* of StateFile

S == INSTANCE StateFile WITH healthy <- Healthy

stateVars == <<state, holder, opened, recovered, pc, job, faults>>
allVars   == <<vars, stateVars>>

InitBoth == Init /\ S!Init

MainService == Next /\ UNCHANGED stateVars

\* Everything in StateFile, except that health is no longer free to change.
Others ==
    /\ UNCHANGED vars
    /\ \/ \E p \in S!Procs :
             S!Outcome(p) \/ S!LockAndLoad(p) \/ S!Progress(p) \/ S!Disturbance(p)
       \/ \E w \in Watchdogs :
             S!WatchdogStep(w) \/ S!AnnounceFails(w) \/ S!WatchdogSaveFails(w)

NextBoth == MainService \/ Others

BothSpec == InitBoth /\ [][NextBoth]_allVars

\* The fairness of StateFile; the main service may stop at any point.
Fairness ==
    /\ \A p \in S!Procs :
          /\ WF_allVars(UNCHANGED vars /\ S!Progress(p))
          /\ SF_allVars(UNCHANGED vars /\ S!Outcome(p))
          /\ SF_allVars(UNCHANGED vars /\ S!LockAndLoad(p) /\ pc[p] # "run")
    /\ \A w \in Watchdogs : WF_allVars(UNCHANGED vars /\ S!WatchdogStep(w))

FairSpec == BothSpec /\ Fairness

-----------------------------------------------------------------------------
(* Properties, beside those of Heartbeat.                                   *)

\* A main service that shows no sign of life any more, because its process is
\* gone or because its worker hangs while callbacks and the heartbeat thread
\* go on, is replaced: the fallback polls again and again.
StallIsPolled == <>[](quiet > MaxAge) => \A w \in Watchdogs : []<>(pc[w] = "run")

\* When the main service stays healthy, the failover does not stay active.
FailoverEnds == <>[]Healthy => []<>(~state.failover)
=============================================================================
