--------------------------- MODULE ControlOutput ---------------------------
(***************************************************************************)
(* The control output of the STM32 board (stm32/src/controlOutput.c with    *)
(* hardware/hardwarePWM.c and hardware/hardwareRC.c): what the main loop    *)
(* sends to the engine (ESC) and the steering servo, given the commands the *)
(* serial thread delivers and the pulse widths that the interrupts of the   *)
(* RC receiver measure.                                                    *)
(*                                                                         *)
(* The main and the serial thread are cooperative (equal priority, no time  *)
(* slices), so a command is delivered only while the main loop sleeps in    *)
(* sensorInputIteration; the interrupts come at any time.  The lights are   *)
(* left out.                                                               *)
(***************************************************************************)
EXTENDS RcModeCheck

CONSTANTS
  MaxIterationsWithoutReceive,  \* MAX_ITERATIONS_WITHOUT_RECEIVE
  Commands,                     \* the commands of the high-level board
  Throttles,                    \* pulse widths of the throttle channel
  Steerings,                    \* pulse widths of the steering channel
  HistoryBound                  \* where the history silent stops counting

ASSUME ControlAssumption ==
  /\ MaxIterationsWithoutReceive \in Nat
  /\ Commands \subseteq [speed : 0 .. 255, angle : 0 .. 255]
  /\ Throttles \subseteq Nat
  /\ Steerings \subseteq Nat
  /\ HistoryBound \in Nat

VARIABLES
  controlData,            \* the latest command, speed and angle
  controlValuesAreNew,    \* it has not been output yet
  iterationsNoNewValues,  \* static counter of controlOutputIteration
  rc,                     \* static variables of rcModeCheck
  pw,                     \* pulse widths measured by the interrupts
  esc,                    \* pulse width that is output to the engine
  servo,                  \* pulse width that is output to the steering
  pc,                     \* where the main loop is
  idle,                   \* history: iterations in a row with nobody in charge
  silent,                 \* history: iterations since a command was delivered
  tripped,                \* history: the watchdog stopped the car, and nothing since
  held                    \* history: calls of rcModeCheck that found the stick held
                          \* at the switching end, no other position in between

hardware == <<esc, servo>>
command  == <<controlData, controlValuesAreNew>>
history  == <<idle, silent, tripped, held>>
vars == <<controlData, controlValuesAreNew, iterationsNoNewValues, rc, pw, esc,
          servo, pc, idle, silent, tripped, held>>

-----------------------------------------------------------------------------
(* Pulse widths (autotuxconfig.h) and their computation (hardwarePWM.c).    *)
SpeedStop       == 1
CenteredAngle   == 90
SpeedPulseWidth == <<1124, 1400, 1484, 1487>>  \* reverse, stop, low, cruise
NeutralPw       == 1400
ThrottleOn      == 100
ThrottleBrake   == 1000

\* The function map, which clamps its argument; angles grow to the right.
MapTo(x, inMin, inMax, outMin, outMax) ==
  LET y == IF x < inMin THEN inMin ELSE IF x > inMax THEN inMax ELSE x
  IN  ((y - inMin) * (outMax - outMin)) \div (inMax - inMin) + outMin

ServoPulseWidth(angle) ==
  IF angle < CenteredAngle THEN MapTo(angle, 60, CenteredAngle, 1220, WheelsCenteredPw)
  ELSE IF angle > CenteredAngle THEN MapTo(angle, CenteredAngle, 120, WheelsCenteredPw, 1980)
  ELSE WheelsCenteredPw

\* hardwarePWMSetValues(PWM_OUTPUT_ESC, speed): an unknown speed is ignored.
EscPulseWidth(speed) == IF speed \in 0 .. 3 THEN SpeedPulseWidth[speed + 1] ELSE esc

\* handleRCMode forwards a fifth of the forward and 0.7 of the backward throttle.
Attenuated(t) ==
  IF t > NeutralPw THEN NeutralPw + ((t - NeutralPw) \div 5)
  ELSE (10 * NeutralPw - 7 * (NeutralPw - t)) \div 10

StopCommand == [speed |-> SpeedStop, angle |-> CenteredAngle]

-----------------------------------------------------------------------------
Init ==
  /\ controlData = [speed |-> 0, angle |-> 0]
  /\ controlValuesAreNew = FALSE
  /\ iterationsNoNewValues = 0
  /\ rc = RcInit
  /\ pw = [throttle |-> 0, steering |-> 0]
  /\ esc = NeutralPw
  /\ servo = WheelsCenteredPw
  /\ pc = "sensors"
  /\ idle = MaxIterationsWithoutReceive + 2
  /\ silent = 0
  /\ tripped = FALSE
  /\ held = 0

(* The capture interrupts of the two channels.                             *)
Measure ==
  /\ \/ \E t \in Throttles : pw' = [pw EXCEPT !.throttle = t]
     \/ \E s \in Steerings : pw' = [pw EXCEPT !.steering = s]
  /\ UNCHANGED <<command, iterationsNoNewValues, rc, hardware, pc, history>>

(* controlOutputSetData, called from the serial thread.                     *)
SetData(c) ==
  /\ pc = "sensors"
  /\ controlData' = c
  /\ controlValuesAreNew' = TRUE
  /\ silent' = 0
  /\ tripped' = FALSE
  /\ UNCHANGED <<iterationsNoNewValues, rc, pw, hardware, pc, idle, held>>

\* The iteration ends, with somebody in charge of the car or nobody.
EndIteration(inCharge) ==
  /\ pc' = "sensors"
  /\ idle' = IF inCharge THEN 0
             ELSE IF idle > MaxIterationsWithoutReceive + 1 THEN idle ELSE idle + 1
  /\ silent' = IF silent < HistoryBound THEN silent + 1 ELSE silent
  /\ UNCHANGED held

\* The history of the gesture: a call counts when it finds the stick at the
\* switching end, another position undoes what was counted (a pulse above the
\* valid range does neither), and the count stays while the window is open.
NextHeld ==
  LET s == pw.steering
      released == IF rc.mode THEN s >= SteeringDeactivation ELSE s <= SteeringActivation
  IN  IF rc.window > 0 THEN IF rc'.window > 0 THEN held ELSE 0
      ELSE IF released THEN 0
      ELSE IF held <= RcIterationsToChangeMode /\ (Activating(rc, s) \/ Deactivating(rc, s))
           THEN held + 1 ELSE held

(* handleRCMode: only with a throttle signal is rcModeCheck called; in RC   *)
(* mode the transmitter's values are output next.                          *)
CheckRc(on, off) ==
  IF pw.throttle > ThrottleOn
  THEN /\ rc' = RcModeCheck(rc, pw.steering)
       /\ pc' = IF rc'.mode THEN on ELSE off
       /\ held' = NextHeld
  ELSE /\ pc' = off
       /\ UNCHANGED <<rc, held>>

ForwardRc ==
  /\ esc' = Attenuated(pw.throttle)
  /\ servo' = pw.steering
  /\ tripped' = FALSE

\* Mutant: what the transmitter sends is forwarded whatever the mode.
MutStartIteration ==
  /\ pc = "sensors"
  /\ CheckRc("forward", "forward")
  /\ UNCHANGED <<command, iterationsNoNewValues, pw, hardware, idle, silent, tripped>>

(* controlOutputIteration starts, after sensorInputIteration returned.      *)
StartIteration ==
  /\ pc = "sensors"
  /\ CheckRc("forward", "drive")
  /\ UNCHANGED <<command, iterationsNoNewValues, pw, hardware, idle, silent, tripped>>

RcDrives ==
  /\ pc = "forward"
  /\ ForwardRc
  /\ EndIteration(TRUE)
  /\ UNCHANGED <<command, iterationsNoNewValues, rc, pw>>

(* The pulse of the throttle is read twice, for the lower and for the upper  *)
(* end of the range that means "brake"; an interrupt may change it between. *)
AskBrake ==
  /\ pc = "drive"
  /\ pw.throttle >= ThrottleOn
  /\ pc' = "brake"
  /\ UNCHANGED <<command, iterationsNoNewValues, rc, pw, hardware, history>>

Braking == pc = "brake" /\ pw.throttle <= ThrottleBrake

NotBraking ==
  \/ pc = "drive" /\ pw.throttle < ThrottleOn
  \/ pc = "brake" /\ pw.throttle > ThrottleBrake

(* The brake of the transmitter: stop, but steer as the command says.       *)
RcBrakes ==
  /\ Braking
  /\ esc' = NeutralPw
  /\ servo' = ServoPulseWidth(controlData.angle)
  /\ EndIteration(FALSE)
  /\ UNCHANGED <<command, iterationsNoNewValues, rc, pw, tripped>>

\* Mutant: the command stays new after it was output.
MutDriveNew ==
  /\ NotBraking
  /\ controlValuesAreNew
  /\ esc' = EscPulseWidth(controlData.speed)
  /\ servo' = ServoPulseWidth(controlData.angle)
  /\ iterationsNoNewValues' = 0
  /\ EndIteration(TRUE)
  /\ UNCHANGED <<command, rc, pw, tripped>>

(* A new command is output.                                                *)
DriveNew ==
  /\ NotBraking
  /\ controlValuesAreNew
  /\ esc' = EscPulseWidth(controlData.speed)
  /\ servo' = ServoPulseWidth(controlData.angle)
  /\ controlValuesAreNew' = FALSE
  /\ iterationsNoNewValues' = 0
  /\ EndIteration(TRUE)
  /\ UNCHANGED <<controlData, rc, pw, tripped>>

\* Mutants: a counter that is not counted, and one without its limit.
MutWaitForNew ==
  /\ NotBraking
  /\ ~controlValuesAreNew
  /\ iterationsNoNewValues <= MaxIterationsWithoutReceive
  /\ EndIteration(FALSE)
  /\ UNCHANGED <<command, iterationsNoNewValues, rc, pw, hardware, tripped>>

MutWaitForever ==
  /\ NotBraking
  /\ ~controlValuesAreNew
  /\ iterationsNoNewValues' = iterationsNoNewValues + 1
  /\ EndIteration(FALSE)
  /\ UNCHANGED <<command, rc, pw, hardware, tripped>>

(* No new command: tolerated for a while, then the car is to be stopped.    *)
WaitForNew ==
  /\ NotBraking
  /\ ~controlValuesAreNew
  /\ iterationsNoNewValues <= MaxIterationsWithoutReceive
  /\ iterationsNoNewValues' = iterationsNoNewValues + 1
  /\ EndIteration(FALSE)
  /\ UNCHANGED <<command, rc, pw, hardware, tripped>>

(* controlOutputStopCenter calls handleRCMode once more in this iteration.  *)
Expire ==
  /\ NotBraking
  /\ ~controlValuesAreNew
  /\ iterationsNoNewValues > MaxIterationsWithoutReceive
  /\ CheckRc("stopForward", "stop")
  /\ UNCHANGED <<command, iterationsNoNewValues, pw, hardware, idle, silent, tripped>>

StopRcDrives ==
  /\ pc = "stopForward"
  /\ ForwardRc
  /\ controlData' = StopCommand
  /\ EndIteration(TRUE)
  /\ UNCHANGED <<controlValuesAreNew, iterationsNoNewValues, rc, pw>>

\* Mutants: the stale command is kept, and the engine is forgotten.
MutKeepCommand ==
  /\ pc = "stop"
  /\ esc' = NeutralPw
  /\ servo' = WheelsCenteredPw
  /\ tripped' = TRUE
  /\ EndIteration(FALSE)
  /\ UNCHANGED <<command, iterationsNoNewValues, rc, pw>>

MutCentreOnly ==
  /\ pc = "stop"
  /\ servo' = WheelsCenteredPw
  /\ controlData' = StopCommand
  /\ tripped' = TRUE
  /\ EndIteration(FALSE)
  /\ UNCHANGED <<controlValuesAreNew, iterationsNoNewValues, rc, pw, esc>>

StopCenter ==
  /\ pc = "stop"
  /\ esc' = NeutralPw
  /\ servo' = WheelsCenteredPw
  /\ controlData' = StopCommand
  /\ tripped' = TRUE
  /\ EndIteration(FALSE)
  /\ UNCHANGED <<controlValuesAreNew, iterationsNoNewValues, rc, pw>>

Iterate ==
  \/ StartIteration \/ RcDrives \/ AskBrake \/ RcBrakes \/ DriveNew \/ WaitForNew
  \/ Expire \/ StopRcDrives \/ StopCenter

Next ==
  \/ Measure
  \/ \E c \in Commands : SetData(c)
  \/ Iterate

(* The main loop never stops and waits for nobody.                         *)
Spec == Init /\ [][Next]_vars /\ WF_vars(Iterate)

-----------------------------------------------------------------------------
TypeOK ==
  /\ controlData \in [speed : 0 .. 255, angle : 0 .. 255]
  /\ controlValuesAreNew \in BOOLEAN
  /\ iterationsNoNewValues \in 0 .. MaxIterationsWithoutReceive + 1
  /\ rc \in RcState
  /\ pw \in [throttle : Nat, steering : Nat]
  /\ esc \in Nat
  /\ servo \in Nat
  /\ pc \in {"sensors", "forward", "drive", "brake", "stop", "stopForward"}
  /\ idle \in 0 .. MaxIterationsWithoutReceive + 2
  /\ silent \in Nat
  /\ tripped \in BOOLEAN
  /\ held \in 0 .. RcIterationsToChangeMode + 1

(* The watchdog of controlOutputIteration: once the main loop has gone      *)
(* through MAX_ITERATIONS_WITHOUT_RECEIVE + 2 iterations in which no new    *)
(* command was output and the transmitter did not drive, the engine is at   *)
(* neutral, in whatever order commands, brakes and mode switches came       *)
(* before.                                                                 *)
UnattendedCarStops == idle > MaxIterationsWithoutReceive + 1 => esc = NeutralPw

(* The watchdog stops the car for good: until a new command arrives or the  *)
(* transmitter drives, engine and wheels stay as controlOutputStopCenter    *)
(* left them, even when the transmitter's brake then steers by the stored   *)
(* command.                                                                *)
StoppedStaysStopped == tripped => esc = NeutralPw /\ servo = WheelsCenteredPw

(* Nobody switches RC mode by accident: the window in which centring the    *)
(* stick switches the mode opens only after more than                       *)
(* RC_ITERATIONS_TO_CHANGE_MODE calls of rcModeCheck found the stick at the  *)
(* switching end, with none in between that found it anywhere else.         *)
SwitchNeedsGesture == rc.window > 0 => held > RcIterationsToChangeMode

(* The mode itself changes only when a gesture of that length is followed   *)
(* by a call of rcModeCheck that finds the stick in the centre.            *)
ModeTakesBothSteps ==
  [][rc'.mode # rc.mode => held > RcIterationsToChangeMode /\ Centered(pw.steering)]_vars

(* Whatever speed and angle the commands ask for, outside RC mode the servo *)
(* is driven between the end positions of the wheels and the engine at one  *)
(* of the four speeds: hardwarePWMSetValues limits what the other board may *)
(* demand.                                                                 *)
CommandsAreLimited ==
  [][~rc.mode => /\ servo' # servo => servo' >= 1220 /\ servo' <= 1980
                 /\ esc' # esc => \E i \in 1 .. 4 : esc' = SpeedPulseWidth[i]]_vars

(* A new command is not lost: only a newer one replaces it, the watchdog     *)
(* that stores a stop never finds one, and it stops being new in the         *)
(* iteration that outputs its speed and its angle, and in no other.  The     *)
(* safety core of CommandIsOutput.                                          *)
CommandIsNotLost ==
  [][controlValuesAreNew =>
       /\ controlData' # controlData => controlValuesAreNew' /\ controlData' \in Commands
       /\ ~controlValuesAreNew' => /\ NotBraking
                                  /\ servo' = ServoPulseWidth(controlData.angle)
                                  /\ esc' = EscPulseWidth(controlData.speed)
       /\ NotBraking /\ pc' # pc => ~controlValuesAreNew']_vars

(* When the high-level board falls silent and RC mode is off, the car       *)
(* comes to a stop and stays stopped.                                      *)
LostLinkStops ==
  <>[](~controlValuesAreNew /\ ~rc.mode) => <>[](esc = NeutralPw)

(* A command that was delivered is output, unless the transmitter brakes or *)
(* drives: controlOutputIteration does not starve it.  A throttle that falls *)
(* from above the range of the brake to below it between the two reads      *)
(* counts as braking too.                                                  *)
CommandIsOutput ==
  <>[](~rc.mode /\ ~Braking) => []<>~controlValuesAreNew

IterationsLeft == (MaxIterationsWithoutReceive + 2) - idle

(* The control output is a dead man's switch.                              *)
Switch == INSTANCE SafetyStop WITH
  Limit   <- MaxIterationsWithoutReceive + 2,
  moving  <- esc # NeutralPw,
  left    <- IterationsLeft,
  pending <- controlValuesAreNew,
  manual  <- rc.mode

DeadMansSwitch == Switch!Spec

-----------------------------------------------------------------------------
(* What the report says of the safety mechanism (ch3.tex:168-169 "If no     *)
(* valid control data is received through the serial connection for a given *)
(* time, the wheels are centered and the engine is stopped"), outside RC    *)
(* mode and with one iteration more than the watchdog takes.               *)
EngineStopsWhenSilent ==
  silent > MaxIterationsWithoutReceive + 3 /\ ~rc.mode /\ pc = "sensors" => esc = NeutralPw
=============================================================================
