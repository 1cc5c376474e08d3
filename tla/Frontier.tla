------------------------------ MODULE Frontier ------------------------------
(***************************************************************************)
(* What the notifier promises about its checkpoint, without saying how.    *)
(*                                                                         *)
(* Mail is numbered 1, 2, 3, ... in order of arrival.  The frontier is the *)
(* newest mail the application claims to be done with (0: none), `base`    *)
(* is where this installation began, and a mail is settled once it has     *)
(* been handed to the notifier, classified as no target, or taken out of   *)
(* the inbox by its owner.  The frontier may be moved, but only to a mail  *)
(* up to which everything since `base` is settled: there is never a hole   *)
(* behind it (README.md, "Behavior Example": "no forward hole").           *)
(***************************************************************************)
EXTENDS Naturals

VARIABLES frontier,   \* the checkpoint the application resumes from
          base,       \* the checkpoint this installation started at
          settled     \* the mail that needs no further work

vars == <<frontier, base, settled>>

NoHoleUpTo(c) == \A m \in (base + 1)..c : m \in settled

Init ==
    /\ frontier \in Nat
    /\ base = frontier
    /\ settled \in SUBSET Nat

Settle ==
    /\ settled \subseteq settled'
    /\ UNCHANGED <<frontier, base>>

MoveFrontier ==
    /\ frontier' \in Nat
    /\ NoHoleUpTo(frontier')
    /\ UNCHANGED <<base, settled>>

\* The first synchronisation draws the line below which mail is not handled.
Establish ==
    /\ frontier = 0
    /\ base = 0
    /\ frontier' \in Nat
    /\ base' = frontier'
    /\ UNCHANGED settled

Next == Settle \/ MoveFrontier \/ Establish

Spec == Init /\ [][Next]_vars
=============================================================================
