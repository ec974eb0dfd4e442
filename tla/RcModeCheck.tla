---------------------------- MODULE RcModeCheck ----------------------------
(***************************************************************************)
(* The function rcModeCheck of stm32/src/controlOutput.c, which turns RC    *)
(* mode on and off: its static variables are the fields of the record rc,   *)
(* and RcModeCheck(rc, s) is what one call makes of them when the pulse     *)
(* width of the steering channel is s.                                     *)
(*                                                                         *)
(* To switch the mode, the steering stick is held at one end for a number   *)
(* of calls (step 1) and then centred before a window of calls has passed   *)
(* (step 2).  The LED the function blinks is left out.                     *)
(***************************************************************************)
EXTENDS Integers

CONSTANTS
  RcIterationsToChangeMode,  \* 20 in autotuxconfig.h
  RcIterationsToCenter       \* 10 in autotuxconfig.h

ASSUME RcIterationsAssumption ==
  /\ RcIterationsToChangeMode \in Nat
  /\ RcIterationsToCenter \in Nat \ {0}

(* Pulse widths in microseconds (autotuxconfig.h).                         *)
SteeringActivation   == 2060
SteeringDeactivation == 1140
SteeringTooHigh      == 2400
WheelsCenteredPw     == 1590

RcState == [mode   : BOOLEAN,
            above  : 0 .. RcIterationsToChangeMode,
            below  : 0 .. RcIterationsToChangeMode,
            window : 0 .. RcIterationsToCenter]

RcInit == [mode |-> FALSE, above |-> 0, below |-> 0, window |-> 0]

Activating(rc, s)   == ~rc.mode /\ s > SteeringActivation /\ s < SteeringTooHigh
Deactivating(rc, s) == rc.mode /\ s < SteeringDeactivation
Centered(s)         == s > WheelsCenteredPw - 50 /\ s < WheelsCenteredPw + 50

\* Step 1: count the calls at the end position that changes the mode.
CountStep(rc, s) ==
  CASE Activating(rc, s) /\ rc.above < RcIterationsToChangeMode ->
         [rc EXCEPT !.above = @ + 1]
    [] Deactivating(rc, s) /\ rc.below < RcIterationsToChangeMode ->
         [rc EXCEPT !.below = @ + 1]
    [] \/ Activating(rc, s)   /\ rc.above >= RcIterationsToChangeMode
       \/ Deactivating(rc, s) /\ rc.below >= RcIterationsToChangeMode ->
         [rc EXCEPT !.window = RcIterationsToCenter]
    [] OTHER -> rc

\* Step 2: wait for the centre position while the window is open.
WindowStep(rc, s) ==
  IF Centered(s)
  THEN [mode |-> ~rc.mode, above |-> 0, below |-> 0, window |-> 0]
  ELSE [mode |-> rc.mode, above |-> 0, below |-> 0, window |-> rc.window - 1]

\* Mutant: the counters survive a position that is not at an end.
MutResetCounters(rc, s) == rc

\* A call in between resets the counter of the end it is not at; a pulse of
\* SteeringTooHigh or more neither counts as activating nor resets anything.
ResetCounters(rc, s) ==
  [mode   |-> rc.mode,
   above  |-> IF s <= SteeringActivation THEN 0 ELSE rc.above,
   below  |-> IF s >= SteeringDeactivation THEN 0 ELSE rc.below,
   window |-> rc.window]

RcModeCheck(rc, s) ==
  ResetCounters(IF rc.window = 0 THEN CountStep(rc, s) ELSE WindowStep(rc, s), s)
=============================================================================
