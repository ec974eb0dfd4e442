----------------------------- MODULE SafetyStop -----------------------------
(***************************************************************************)
(* What the low-level board promises about motion, without any of its      *)
(* mechanism: a dead man's switch.  The car moves only while somebody is    *)
(* in charge of it: the high-level board, whose every command lets the car  *)
(* move for a limited number of iterations and can be used once, or the     *)
(* person who holds the RC transmitter, in RC mode.                         *)
(***************************************************************************)
EXTENDS Integers

CONSTANTS
  Limit  \* iterations the car may move after it was last told to, a natural number

VARIABLES
  moving,   \* the engine is not at its neutral position
  left,     \* iterations for which it may still be so
  pending,  \* a command has arrived that was not yet carried out
  manual    \* the transmitter drives

vars == <<moving, left, pending, manual>>

TypeOK ==
  /\ moving \in BOOLEAN
  /\ left \in 0 .. Limit
  /\ pending \in BOOLEAN
  /\ manual \in BOOLEAN

Init ==
  /\ moving = FALSE
  /\ left = 0
  /\ pending = FALSE
  /\ manual = FALSE

\* A command arrives.
Receive ==
  /\ pending' = TRUE
  /\ UNCHANGED <<moving, left, manual>>

\* The command is carried out, once.
Obey ==
  /\ pending
  /\ pending' = FALSE
  /\ moving' \in BOOLEAN
  /\ left' = Limit
  /\ UNCHANGED manual

\* The transmitter takes over or gives back.
Switch ==
  /\ manual' = ~manual
  /\ UNCHANGED <<moving, left, pending>>

\* The transmitter drives.
Drive ==
  /\ manual
  /\ moving' \in BOOLEAN
  /\ left' = Limit
  /\ UNCHANGED <<pending, manual>>

\* An iteration in which nobody is in charge: the car may stop or move on
\* while iterations are left, and never starts.
Coast ==
  /\ left' = IF left = 0 THEN 0 ELSE left - 1
  /\ moving' \in BOOLEAN
  /\ moving' => moving /\ left' > 0
  /\ UNCHANGED <<pending, manual>>

Next == Receive \/ Obey \/ Switch \/ Drive \/ Coast

Spec == Init /\ [][Next]_vars

(* What the switch is for: the car moves only while iterations are left,    *)
(* whoever set it in motion.                                               *)
MovesOnlyWhileLeft == moving => left > 0
=============================================================================
