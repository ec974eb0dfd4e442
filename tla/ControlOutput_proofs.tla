------------------------ MODULE ControlOutput_proofs ------------------------
(***************************************************************************)
(* Proofs about ControlOutput: its type invariant, its safety invariants,   *)
(* and that it implements the dead man's switch SafetyStop.                 *)
(***************************************************************************)
EXTENDS ControlOutput, TLAPS

-----------------------------------------------------------------------------
(* The pulse widths that the computations return are pulse widths; those of *)
(* the servo lie between the end positions, for every angle of a byte.     *)
LEMMA ServoPulseWidthRange ==
  ASSUME NEW angle \in 0 .. 255
  PROVE  /\ ServoPulseWidth(angle) \in Nat
         /\ ServoPulseWidth(angle) >= 1220
         /\ ServoPulseWidth(angle) <= 1980
<1>1. CASE angle < 90
  <2> DEFINE y == IF angle < 60 THEN 60 ELSE angle
  <2>1. y \in 60 .. 89
    BY <1>1
  <2>2. ServoPulseWidth(angle) = ((y - 60) * 370) \div 30 + 1220
    BY <1>1 DEF ServoPulseWidth, MapTo, CenteredAngle, WheelsCenteredPw
  <2> HIDE DEF y
  <2> QED BY <2>1, <2>2
<1>2. CASE angle > 90
  <2> DEFINE y == IF angle > 120 THEN 120 ELSE angle
  <2>1. y \in 91 .. 120
    BY <1>2
  <2>2. ServoPulseWidth(angle) = ((y - 90) * 390) \div 30 + 1590
    BY <1>2 DEF ServoPulseWidth, MapTo, CenteredAngle, WheelsCenteredPw
  <2> HIDE DEF y
  <2> QED BY <2>1, <2>2
<1>3. CASE angle = 90
  BY <1>3 DEF ServoPulseWidth, CenteredAngle, WheelsCenteredPw
<1> QED BY <1>1, <1>2, <1>3

LEMMA ServoPulseWidthType ==
  ASSUME NEW angle \in 0 .. 255
  PROVE  ServoPulseWidth(angle) \in Nat
  BY ServoPulseWidthRange

LEMMA EscPulseWidthType ==
  ASSUME esc \in Nat, NEW speed \in 0 .. 255
  PROVE  EscPulseWidth(speed) \in Nat
<1>1. CASE speed \in 0 .. 3
  <2>1. speed = 0 \/ speed = 1 \/ speed = 2 \/ speed = 3
    BY <1>1
  <2> QED BY <1>1, <2>1 DEF EscPulseWidth, SpeedPulseWidth
<1>2. CASE speed \notin 0 .. 3
  BY <1>2 DEF EscPulseWidth
<1> QED BY <1>1, <1>2

LEMMA AttenuatedType ==
  ASSUME NEW t \in Nat
  PROVE  Attenuated(t) \in Nat
<1>1. CASE t > 1400
  BY <1>1 DEF Attenuated, NeutralPw
<1>2. CASE ~(t > 1400)
  BY <1>2 DEF Attenuated, NeutralPw
<1> QED BY <1>1, <1>2

-----------------------------------------------------------------------------
(* What the counters of rcModeCheck are while a gesture is under way: only  *)
(* the counter of the end that switches the mode counts, and the person     *)
(* held the stick there for at least as many calls.                         *)
Gesture(r, h) ==
  /\ r.mode => r.above = 0 /\ r.below <= h
  /\ ~r.mode => r.below = 0 /\ r.above <= h
  /\ r.window > 0 => h > RcIterationsToChangeMode

(* One call of rcModeCheck keeps the types of its static variables and      *)
(* counts no more than the person does.                                    *)
LEMMA RcModeCheckStep ==
  ASSUME rc \in RcState, pw.steering \in Nat,
         held \in 0 .. RcIterationsToChangeMode + 1,
         Gesture(rc, held),
         rc' = RcModeCheck(rc, pw.steering),
         held' = NextHeld
  PROVE  /\ rc' \in RcState
         /\ held' \in 0 .. RcIterationsToChangeMode + 1
         /\ Gesture(rc', held')
<1> USE RcIterationsAssumption
<1> DEFINE s == pw.steering
           mid == IF rc.window = 0 THEN CountStep(rc, s) ELSE WindowStep(rc, s)
<1>0. /\ rc' = ResetCounters(mid, s)
      /\ s \in Nat
  BY DEF RcModeCheck
<1>1. CASE rc.window > 0
  <2>1. mid = WindowStep(rc, s)
    BY <1>1 DEF RcState
  <2> HIDE DEF mid
  <2>2. /\ mid \in RcState
        /\ mid.above = 0
        /\ mid.below = 0
    <3>1. CASE Centered(s)
      <4>1. mid = [mode |-> ~rc.mode, above |-> 0, below |-> 0, window |-> 0]
        BY <2>1, <3>1 DEF WindowStep
      <4> QED BY <1>1, <4>1 DEF RcState
    <3>2. CASE ~Centered(s)
      <4>1. mid = [mode |-> rc.mode, above |-> 0, below |-> 0, window |-> rc.window - 1]
        BY <2>1, <3>2 DEF WindowStep
      <4> QED BY <1>1, <4>1 DEF RcState
    <3> QED BY <3>1, <3>2
  <2>3. /\ rc' \in RcState
        /\ rc'.above = 0
        /\ rc'.below = 0
        /\ rc'.window = mid.window
    BY <1>0, <2>2 DEF ResetCounters, RcState
  <2>4. held' = IF rc'.window > 0 THEN held ELSE 0
    BY <1>1 DEF NextHeld
  <2> QED BY <1>1, <2>3, <2>4 DEF Gesture, RcState
<1>2. CASE rc.window = 0
  <2>1. mid = CountStep(rc, s)
    BY <1>2
  <2> HIDE DEF mid
  <2> DEFINE end == Activating(rc, s) \/ Deactivating(rc, s)
  <2>2. held' = IF (IF rc.mode THEN s >= 1140 ELSE s <= 2060) THEN 0
                ELSE IF held <= RcIterationsToChangeMode /\ end THEN held + 1 ELSE held
    BY <1>2 DEF NextHeld, SteeringActivation, SteeringDeactivation
  <2>3. CASE ~end
    <3>1. mid = rc
      BY <2>1, <2>3 DEF CountStep
    <3>2. /\ rc' \in RcState
          /\ rc'.mode = rc.mode
          /\ rc'.window = 0
          /\ rc'.below = IF s >= 1140 THEN 0 ELSE rc.below
          /\ rc'.above = IF s <= 2060 THEN 0 ELSE rc.above
      BY <1>0, <1>2, <3>1 DEF ResetCounters, RcState, SteeringActivation, SteeringDeactivation
    <3> QED BY <2>2, <2>3, <3>2 DEF Gesture, RcState
  <2>4. CASE Activating(rc, s)
    <3>1. /\ ~rc.mode
          /\ s > 2060
      BY <2>4 DEF Activating, SteeringActivation
    <3>2. mid = IF rc.above < RcIterationsToChangeMode
                THEN [rc EXCEPT !.above = @ + 1]
                ELSE [rc EXCEPT !.window = RcIterationsToCenter]
      BY <2>1, <2>4, <3>1 DEF CountStep, Deactivating, RcState
    <3>3. /\ mid \in RcState
          /\ mid.mode = FALSE
          /\ mid.below = 0
          /\ mid.above <= rc.above + 1
          /\ mid.window > 0 => rc.above = RcIterationsToChangeMode /\ mid.above = rc.above
      <4>1. CASE rc.above < RcIterationsToChangeMode
        <5>1. mid = [rc EXCEPT !.above = @ + 1]
          BY <3>2, <4>1
        <5> QED BY <1>2, <3>1, <4>1, <5>1 DEF RcState, Gesture
      <4>2. CASE ~(rc.above < RcIterationsToChangeMode)
        <5>1. mid = [rc EXCEPT !.window = RcIterationsToCenter]
          BY <3>2, <4>2
        <5> QED BY <1>2, <3>1, <4>2, <5>1 DEF RcState, Gesture
      <4> QED BY <4>1, <4>2
    <3>4. /\ rc' \in RcState
          /\ rc'.mode = FALSE
          /\ rc'.below = 0
          /\ rc'.above = mid.above
          /\ rc'.window = mid.window
      BY <1>0, <3>1, <3>3 DEF ResetCounters, RcState, SteeringActivation, SteeringDeactivation
    <3>5. /\ held' = IF held <= RcIterationsToChangeMode THEN held + 1 ELSE held
          /\ rc.above <= held
      BY <2>2, <2>4, <3>1 DEF Gesture
    <3> QED BY <3>3, <3>4, <3>5 DEF Gesture, RcState
  <2>5. CASE Deactivating(rc, s)
    <3>1. /\ rc.mode
          /\ s < 1140
      BY <2>5 DEF Deactivating, SteeringDeactivation
    <3>2. mid = IF rc.below < RcIterationsToChangeMode
                THEN [rc EXCEPT !.below = @ + 1]
                ELSE [rc EXCEPT !.window = RcIterationsToCenter]
      BY <2>1, <2>5, <3>1 DEF CountStep, Activating, RcState
    <3>3. /\ mid \in RcState
          /\ mid.mode = TRUE
          /\ mid.above = 0
          /\ mid.below <= rc.below + 1
          /\ mid.window > 0 => rc.below = RcIterationsToChangeMode /\ mid.below = rc.below
      <4>1. CASE rc.below < RcIterationsToChangeMode
        <5>1. mid = [rc EXCEPT !.below = @ + 1]
          BY <3>2, <4>1
        <5> QED BY <1>2, <3>1, <4>1, <5>1 DEF RcState, Gesture
      <4>2. CASE ~(rc.below < RcIterationsToChangeMode)
        <5>1. mid = [rc EXCEPT !.window = RcIterationsToCenter]
          BY <3>2, <4>2
        <5> QED BY <1>2, <3>1, <4>2, <5>1 DEF RcState, Gesture
      <4> QED BY <4>1, <4>2
    <3>4. /\ rc' \in RcState
          /\ rc'.mode = TRUE
          /\ rc'.above = 0
          /\ rc'.below = mid.below
          /\ rc'.window = mid.window
      BY <1>0, <3>1, <3>3 DEF ResetCounters, RcState, SteeringActivation, SteeringDeactivation
    <3>5. /\ held' = IF held <= RcIterationsToChangeMode THEN held + 1 ELSE held
          /\ rc.below <= held
      BY <2>2, <2>5, <3>1 DEF Gesture
    <3> QED BY <3>3, <3>4, <3>5 DEF Gesture, RcState
  <2> QED BY <2>3, <2>4, <2>5
<1> QED BY <1>1, <1>2 DEF RcState

-----------------------------------------------------------------------------
(* The inductive invariant.  A moving engine means that the watchdog has    *)
(* counted at least the iterations nobody was in charge; a stopped car that *)
(* nobody moved since has no stale command to be moved by.                  *)
WatchdogCounts == esc # NeutralPw => idle <= iterationsNoNewValues

TrippedIsAtRest ==
  tripped => /\ esc = NeutralPw
             /\ servo = WheelsCenteredPw
             /\ controlData = StopCommand
             /\ ~controlValuesAreNew

WhereTheLoopIs ==
  /\ pc \in {"forward", "stopForward"} => rc.mode
  /\ pc \in {"stop", "stopForward"} =>
       iterationsNoNewValues > MaxIterationsWithoutReceive /\ ~controlValuesAreNew

IInv == TypeOK /\ Gesture(rc, held) /\ WatchdogCounts /\ TrippedIsAtRest /\ WhereTheLoopIs

LEMMA InitIInv == Init => IInv
<1> SUFFICES ASSUME Init PROVE IInv
  OBVIOUS
<1> USE ControlAssumption, RcIterationsAssumption
<1>1. TypeOK
  <2>1. rc \in RcState /\ held \in 0 .. RcIterationsToChangeMode + 1
    BY DEF Init, RcInit, RcState
  <2>2. /\ controlData \in [speed : 0 .. 255, angle : 0 .. 255]
        /\ pw \in [throttle : Nat, steering : Nat]
    BY DEF Init
  <2>3. /\ iterationsNoNewValues \in 0 .. MaxIterationsWithoutReceive + 1
        /\ idle \in 0 .. MaxIterationsWithoutReceive + 2
    BY DEF Init
  <2>4. esc \in Nat /\ servo \in Nat
    BY DEF Init, NeutralPw, WheelsCenteredPw
  <2>5. silent \in Nat
    BY DEF Init
  <2>6. controlValuesAreNew \in BOOLEAN /\ tripped \in BOOLEAN
    BY DEF Init
  <2>7. pc \in {"sensors", "forward", "drive", "brake", "stop", "stopForward"}
    BY DEF Init
  <2> QED BY <2>1, <2>2, <2>3, <2>4, <2>5, <2>6, <2>7 DEF TypeOK
<1>2. Gesture(rc, held)
  BY DEF Init, Gesture, RcInit
<1>3. WatchdogCounts /\ TrippedIsAtRest /\ WhereTheLoopIs
  BY DEF Init, WatchdogCounts, TrippedIsAtRest, WhereTheLoopIs
<1> QED BY <1>1, <1>2, <1>3 DEF IInv

(* handleRCMode up to the decision keeps types and gesture.                 *)
LEMMA CheckRcStep ==
  ASSUME IInv, NEW on, NEW off, CheckRc(on, off)
  PROVE  /\ rc' \in RcState
         /\ held' \in 0 .. RcIterationsToChangeMode + 1
         /\ Gesture(rc', held')
         /\ pc' = off \/ (pc' = on /\ rc'.mode)
<1> USE DEF IInv, TypeOK
<1>1. CASE pw.throttle > ThrottleOn
  <2>1. /\ rc' = RcModeCheck(rc, pw.steering)
        /\ held' = NextHeld
        /\ pc' = IF rc'.mode THEN on ELSE off
    BY <1>1 DEF CheckRc
  <2>2. pw.steering \in Nat
    OBVIOUS
  <2>3. /\ rc' \in RcState
        /\ held' \in 0 .. RcIterationsToChangeMode + 1
        /\ Gesture(rc', held')
    BY <2>1, <2>2, RcModeCheckStep
  <2> QED BY <2>1, <2>3 DEF RcState
<1>2. CASE ~(pw.throttle > ThrottleOn)
  BY <1>2 DEF CheckRc, Gesture
<1> QED BY <1>1, <1>2

(* The end of an iteration keeps the types of the history.                  *)
LEMMA EndIterationStep ==
  ASSUME IInv, NEW inCharge \in BOOLEAN, EndIteration(inCharge)
  PROVE  /\ pc' = "sensors"
         /\ idle' \in 0 .. MaxIterationsWithoutReceive + 2
         /\ inCharge => idle' = 0
         /\ ~inCharge => idle' <= idle + 1
         /\ silent' \in Nat
         /\ held' = held
  BY ControlAssumption DEF EndIteration, IInv, TypeOK

LEMMA NextIInv == IInv /\ [Next]_vars => IInv'
<1> SUFFICES ASSUME IInv, [Next]_vars PROVE IInv'
  OBVIOUS
<1> USE ControlAssumption DEF IInv
<1>1. CASE Measure
  <2>1. pw' \in [throttle : Nat, steering : Nat]
    <3>1. CASE \E t \in Throttles : pw' = [pw EXCEPT !.throttle = t]
      BY <3>1 DEF TypeOK
    <3>2. CASE \E s \in Steerings : pw' = [pw EXCEPT !.steering = s]
      BY <3>2 DEF TypeOK
    <3> QED BY <1>1, <3>1, <3>2 DEF Measure
  <2>2. UNCHANGED <<controlData, controlValuesAreNew, iterationsNoNewValues, rc, esc,
                    servo, pc, idle, silent, tripped, held>>
    BY <1>1 DEF Measure, command, hardware, history
  <2> QED BY <2>1, <2>2 DEF TypeOK, Gesture, WatchdogCounts, TrippedIsAtRest, WhereTheLoopIs
<1>2. ASSUME NEW c \in Commands, SetData(c) PROVE IInv'
  <2>1. TypeOK'
    BY <1>2 DEF SetData, TypeOK, hardware
  <2>2. Gesture(rc, held)' /\ WatchdogCounts' /\ TrippedIsAtRest' /\ WhereTheLoopIs'
    BY <1>2 DEF SetData, hardware, Gesture, WatchdogCounts, TrippedIsAtRest, WhereTheLoopIs
  <2> QED BY <2>1, <2>2
<1>3. CASE StartIteration
  <2>1. /\ pc = "sensors"
        /\ CheckRc("forward", "drive")
        /\ UNCHANGED <<controlData, controlValuesAreNew, iterationsNoNewValues, pw, esc,
                       servo, idle, silent, tripped>>
    BY <1>3 DEF StartIteration, command, hardware
  <2>2. /\ rc' \in RcState
        /\ held' \in 0 .. RcIterationsToChangeMode + 1
        /\ Gesture(rc', held')
        /\ pc' = "drive" \/ (pc' = "forward" /\ rc'.mode)
    BY <2>1, CheckRcStep
  <2>3. TypeOK'
    BY <2>1, <2>2 DEF TypeOK
  <2> QED BY <2>1, <2>2, <2>3 DEF WatchdogCounts, TrippedIsAtRest, WhereTheLoopIs
<1>4. CASE RcDrives \/ StopRcDrives
  <2>1. EndIteration(TRUE)
    BY <1>4 DEF RcDrives, StopRcDrives
  <2>2. /\ pc' = "sensors"
        /\ idle' = 0
        /\ idle' \in 0 .. MaxIterationsWithoutReceive + 2
        /\ silent' \in Nat
        /\ held' = held
    BY <2>1, EndIterationStep
  <2>3. /\ controlData' \in [speed : 0 .. 255, angle : 0 .. 255]
        /\ UNCHANGED <<controlValuesAreNew, iterationsNoNewValues, rc, pw>>
    <3>1. CASE RcDrives
      BY <3>1 DEF RcDrives, command, TypeOK
    <3>2. CASE StopRcDrives
      BY <3>2 DEF StopRcDrives, StopCommand, SpeedStop, CenteredAngle
    <3> QED BY <1>4, <3>1, <3>2
  <2>4. /\ esc' \in Nat
        /\ servo' \in Nat
        /\ tripped' = FALSE
    BY <1>4, AttenuatedType DEF RcDrives, StopRcDrives, ForwardRc, TypeOK
  <2>5. TypeOK'
    BY <2>2, <2>3, <2>4 DEF TypeOK
  <2> QED BY <2>2, <2>3, <2>4, <2>5
          DEF Gesture, WatchdogCounts, TrippedIsAtRest, WhereTheLoopIs, TypeOK
<1>11. CASE AskBrake
  <2>1. /\ pc' = "brake"
        /\ UNCHANGED <<controlData, controlValuesAreNew, iterationsNoNewValues, rc, pw, esc,
                       servo, idle, silent, tripped, held>>
    BY <1>11 DEF AskBrake, command, hardware, history
  <2> QED BY <2>1 DEF TypeOK, Gesture, WatchdogCounts, TrippedIsAtRest, WhereTheLoopIs
<1>5. CASE RcBrakes
  <2>1. /\ EndIteration(FALSE)
        /\ esc' = NeutralPw
        /\ servo' = ServoPulseWidth(controlData.angle)
        /\ UNCHANGED <<controlData, controlValuesAreNew, iterationsNoNewValues, rc, pw, tripped>>
    BY <1>5 DEF RcBrakes, command
  <2>2. /\ pc' = "sensors"
        /\ idle' \in 0 .. MaxIterationsWithoutReceive + 2
        /\ silent' \in Nat
        /\ held' = held
    BY <2>1, EndIterationStep
  <2>3. servo' \in Nat
    BY <2>1, ServoPulseWidthType DEF TypeOK
  <2>4. TypeOK'
    BY <2>1, <2>2, <2>3 DEF TypeOK, NeutralPw
  <2>5. TrippedIsAtRest'
    BY <2>1 DEF TrippedIsAtRest, StopCommand, ServoPulseWidth, CenteredAngle
  <2> QED BY <2>1, <2>2, <2>4, <2>5 DEF Gesture, WatchdogCounts, WhereTheLoopIs
<1>6. CASE DriveNew
  <2>1. /\ EndIteration(TRUE)
        /\ controlValuesAreNew
        /\ esc' = EscPulseWidth(controlData.speed)
        /\ servo' = ServoPulseWidth(controlData.angle)
        /\ controlValuesAreNew' = FALSE
        /\ iterationsNoNewValues' = 0
        /\ UNCHANGED <<controlData, rc, pw, tripped>>
    BY <1>6 DEF DriveNew
  <2>2. /\ pc' = "sensors"
        /\ idle' = 0
        /\ idle' \in 0 .. MaxIterationsWithoutReceive + 2
        /\ silent' \in Nat
        /\ held' = held
    BY <2>1, EndIterationStep
  <2>3. esc' \in Nat /\ servo' \in Nat
    BY <2>1, EscPulseWidthType, ServoPulseWidthType DEF TypeOK
  <2>4. /\ controlValuesAreNew' \in BOOLEAN
        /\ iterationsNoNewValues' \in 0 .. MaxIterationsWithoutReceive + 1
    <3>1. iterationsNoNewValues' = 0
      BY <2>1
    <3>2. controlValuesAreNew' \in BOOLEAN
      BY <2>1
    <3> QED BY <3>1, <3>2
  <2>5. TypeOK'
    BY <2>1, <2>2, <2>3, <2>4 DEF TypeOK
  <2> QED BY <2>1, <2>2, <2>5 DEF Gesture, WatchdogCounts, TrippedIsAtRest, WhereTheLoopIs
<1>7. CASE WaitForNew
  <2>1. /\ EndIteration(FALSE)
        /\ iterationsNoNewValues <= MaxIterationsWithoutReceive
        /\ iterationsNoNewValues' = iterationsNoNewValues + 1
        /\ UNCHANGED <<controlData, controlValuesAreNew, rc, pw, esc, servo, tripped>>
    BY <1>7 DEF WaitForNew, command, hardware
  <2>2. /\ pc' = "sensors"
        /\ idle' \in 0 .. MaxIterationsWithoutReceive + 2
        /\ idle' <= idle + 1
        /\ silent' \in Nat
        /\ held' = held
    BY <2>1, EndIterationStep
  <2>3. TypeOK'
    BY <2>1, <2>2 DEF TypeOK
  <2> QED BY <2>1, <2>2, <2>3 DEF Gesture, WatchdogCounts, TrippedIsAtRest, WhereTheLoopIs, TypeOK
<1>8. CASE Expire
  <2>1. /\ iterationsNoNewValues > MaxIterationsWithoutReceive
        /\ ~controlValuesAreNew
        /\ CheckRc("stopForward", "stop")
        /\ UNCHANGED <<controlData, controlValuesAreNew, iterationsNoNewValues, pw, esc,
                       servo, idle, silent, tripped>>
    BY <1>8 DEF Expire, command, hardware
  <2>2. /\ rc' \in RcState
        /\ held' \in 0 .. RcIterationsToChangeMode + 1
        /\ Gesture(rc', held')
        /\ pc' = "stop" \/ (pc' = "stopForward" /\ rc'.mode)
    BY <2>1, CheckRcStep
  <2>3. TypeOK'
    BY <2>1, <2>2 DEF TypeOK
  <2> QED BY <2>1, <2>2, <2>3 DEF WatchdogCounts, TrippedIsAtRest, WhereTheLoopIs
<1>9. CASE StopCenter
  <2>1. /\ EndIteration(FALSE)
        /\ esc' = NeutralPw
        /\ servo' = WheelsCenteredPw
        /\ controlData' = StopCommand
        /\ UNCHANGED <<controlValuesAreNew, iterationsNoNewValues, rc, pw>>
        /\ tripped' = TRUE
    BY <1>9 DEF StopCenter
  <2>2. /\ pc' = "sensors"
        /\ idle' \in 0 .. MaxIterationsWithoutReceive + 2
        /\ silent' \in Nat
        /\ held' = held
    BY <2>1, EndIterationStep
  <2>3. TypeOK'
    BY <2>1, <2>2 DEF TypeOK, NeutralPw, WheelsCenteredPw, StopCommand, SpeedStop, CenteredAngle
  <2>4. pc = "stop"
    BY <1>9 DEF StopCenter
  <2>5. ~controlValuesAreNew
    BY <2>4 DEF WhereTheLoopIs
  <2> QED BY <2>1, <2>2, <2>3, <2>5 DEF Gesture, WatchdogCounts, TrippedIsAtRest, WhereTheLoopIs
<1>10. CASE UNCHANGED vars
  BY <1>10 DEF vars, TypeOK, Gesture, WatchdogCounts, TrippedIsAtRest, WhereTheLoopIs
<1> QED
  BY <1>1, <1>2, <1>3, <1>4, <1>5, <1>6, <1>7, <1>8, <1>9, <1>10, <1>11
  DEF Next, Iterate

THEOREM Inductive == Spec => []IInv
  BY InitIInv, NextIInv, PTL DEF Spec

-----------------------------------------------------------------------------
(* The variables of controlOutput.c, hardwarePWM.c and hardwareRC.c keep    *)
(* their types; in particular the watchdog's counter stays within one of    *)
(* its limit.                                                              *)
THEOREM TypeCorrect == Spec => []TypeOK
<1>1. IInv => TypeOK
  BY DEF IInv
<1> QED BY <1>1, Inductive, PTL

(* The watchdog stops an unattended car, for every limit, every set of      *)
(* commands and every behaviour of the transmitter.                        *)
THEOREM WatchdogStopsTheCar == Spec => []UnattendedCarStops
<1>1. IInv => UnattendedCarStops
  BY ControlAssumption DEF IInv, TypeOK, WatchdogCounts, UnattendedCarStops
<1> QED BY <1>1, Inductive, PTL

(* A car that the watchdog stopped stays stopped and centred.               *)
THEOREM StoppedForGood == Spec => []StoppedStaysStopped
<1>1. IInv => StoppedStaysStopped
  BY DEF IInv, TrippedIsAtRest, StoppedStaysStopped
<1> QED BY <1>1, Inductive, PTL

(* RC mode is never switched without the gesture.                          *)
THEOREM OnlyTheGestureSwitches == Spec => []SwitchNeedsGesture
<1>1. IInv => SwitchNeedsGesture
  BY DEF IInv, Gesture, SwitchNeedsGesture
<1> QED BY <1>1, Inductive, PTL

-----------------------------------------------------------------------------
(* The end of an iteration nobody was in charge of uses up one of the       *)
(* iterations that are left; one with somebody in charge restores them all. *)
LEMMA LeftStep ==
  ASSUME IInv, NEW inCharge \in BOOLEAN, EndIteration(inCharge)
  PROVE  IterationsLeft' = IF inCharge THEN MaxIterationsWithoutReceive + 2
                           ELSE IF IterationsLeft = 0 THEN 0 ELSE IterationsLeft - 1
<1>1. idle \in 0 .. MaxIterationsWithoutReceive + 2 /\ MaxIterationsWithoutReceive \in Nat
  BY ControlAssumption DEF IInv, TypeOK
<1>2. idle' = IF inCharge THEN 0
              ELSE IF idle > MaxIterationsWithoutReceive + 1 THEN idle ELSE idle + 1
  BY DEF EndIteration
<1> DEFINE k == idle'
<1>3. (MaxIterationsWithoutReceive + 2) - k =
        IF inCharge THEN MaxIterationsWithoutReceive + 2
        ELSE IF IterationsLeft = 0 THEN 0 ELSE IterationsLeft - 1
  <2>1. k = IF inCharge THEN 0
            ELSE IF idle > MaxIterationsWithoutReceive + 1 THEN idle ELSE idle + 1
    BY <1>2
  <2> HIDE DEF k
  <2> QED BY <1>1, <2>1 DEF IterationsLeft
<1> QED BY <1>3 DEF IterationsLeft

LEMMA InitSwitch == Init => Switch!Init
<1> SUFFICES ASSUME Init PROVE Switch!Init
  OBVIOUS
<1>1. IterationsLeft = 0
  BY ControlAssumption DEF Init, IterationsLeft
<1>2. (esc # NeutralPw) = FALSE
  BY DEF Init
<1>3. controlValuesAreNew = FALSE /\ rc.mode = FALSE
  BY DEF Init, RcInit
<1> QED BY <1>1, <1>2, <1>3 DEF Switch!Init

(* Every step of the control output is a step of the dead man's switch.     *)
LEMMA NextSwitch == IInv /\ [Next]_vars => [Switch!Next]_Switch!vars
<1> SUFFICES ASSUME IInv, [Next]_vars PROVE [Switch!Next]_Switch!vars
  OBVIOUS
<1>1. CASE Measure
  BY <1>1 DEF Measure, command, hardware, history, IterationsLeft, Switch!vars
<1>2. ASSUME NEW c \in Commands, SetData(c) PROVE Switch!Next
  BY <1>2 DEF SetData, hardware, IterationsLeft, Switch!Next, Switch!Receive
<1>3. CASE StartIteration \/ Expire
  <2>1. UNCHANGED <<controlValuesAreNew, esc, idle>>
    BY <1>3 DEF StartIteration, Expire, command, hardware
  <2>2. rc \in RcState /\ rc' \in RcState
    BY NextIInv DEF IInv, TypeOK
  <2>3. rc'.mode = rc.mode \/ rc'.mode = ~rc.mode
    BY <2>2 DEF RcState
  <2> QED BY <2>1, <2>3 DEF IterationsLeft, Switch!Next, Switch!Switch, Switch!vars
<1>4. CASE RcDrives \/ StopRcDrives
  <2>1. /\ EndIteration(TRUE)
        /\ UNCHANGED <<controlValuesAreNew, rc>>
    BY <1>4 DEF RcDrives, StopRcDrives, command
  <2>2. rc.mode
    BY <1>4 DEF RcDrives, StopRcDrives, IInv, WhereTheLoopIs
  <2>3. Switch!Drive
    BY <2>1, <2>2, LeftStep DEF Switch!Drive
  <2> QED BY <2>3 DEF Switch!Next
<1>11. CASE AskBrake
  BY <1>11 DEF AskBrake, command, hardware, history, IterationsLeft, Switch!vars
<1>5. CASE RcBrakes \/ StopCenter
  <2>1. /\ EndIteration(FALSE)
        /\ UNCHANGED <<controlValuesAreNew, rc>>
        /\ esc' = NeutralPw
    BY <1>5 DEF RcBrakes, StopCenter, command
  <2>2. IterationsLeft' = IF IterationsLeft = 0 THEN 0 ELSE IterationsLeft - 1
    BY <2>1, LeftStep
  <2>3. Switch!Coast
    BY <2>1, <2>2 DEF Switch!Coast
  <2> QED BY <2>3 DEF Switch!Next
<1>6. CASE DriveNew
  <2>1. /\ EndIteration(TRUE)
        /\ controlValuesAreNew
        /\ controlValuesAreNew' = FALSE
        /\ UNCHANGED rc
    BY <1>6 DEF DriveNew
  <2>2. Switch!Obey
    BY <2>1, LeftStep DEF Switch!Obey
  <2> QED BY <2>2 DEF Switch!Next
<1>7. CASE WaitForNew
  <2>1. /\ EndIteration(FALSE)
        /\ iterationsNoNewValues <= MaxIterationsWithoutReceive
        /\ UNCHANGED <<controlValuesAreNew, rc, esc>>
    BY <1>7 DEF WaitForNew, command, hardware
  <2>2. IterationsLeft' = IF IterationsLeft = 0 THEN 0 ELSE IterationsLeft - 1
    BY <2>1, LeftStep
  <2>3. esc # NeutralPw => IterationsLeft' > 0
    <3> SUFFICES ASSUME esc # NeutralPw PROVE IterationsLeft' > 0
      OBVIOUS
    <3>1. /\ idle \in Nat /\ iterationsNoNewValues \in Nat
          /\ MaxIterationsWithoutReceive \in Nat
      BY ControlAssumption DEF IInv, TypeOK
    <3>2. idle <= iterationsNoNewValues
      BY DEF IInv, WatchdogCounts
    <3>3. IterationsLeft \in Int /\ IterationsLeft > 1
      BY <2>1, <3>1, <3>2 DEF IterationsLeft
    <3> QED BY <2>2, <3>3
  <2>4. Switch!Coast
    BY <2>1, <2>2, <2>3 DEF Switch!Coast
  <2> QED BY <2>4 DEF Switch!Next
<1>8. CASE UNCHANGED vars
  BY <1>8 DEF vars, IterationsLeft, Switch!vars
<1> QED BY <1>1, <1>2, <1>3, <1>4, <1>5, <1>6, <1>7, <1>8, <1>11 DEF Next, Iterate

(* The control output implements the dead man's switch: the car is set in   *)
(* motion only by a command that was delivered and not used before, or by   *)
(* the transmitter in RC mode, and does not move for longer than the limit. *)
THEOREM ImplementsSafetyStop == Spec => DeadMansSwitch
<1>1. Spec => Switch!Init /\ [][Switch!Next]_Switch!vars
  BY InitSwitch, Inductive, NextSwitch, PTL DEF Spec
<1> QED BY <1>1 DEF DeadMansSwitch, Switch!Spec

(* The dead man's switch keeps what it is for, so everything that implements *)
(* it does: the car moves only while iterations are left.                   *)
THEOREM SwitchLimitsMotion == DeadMansSwitch => []Switch!MovesOnlyWhileLeft
<1> DEFINE Limit == MaxIterationsWithoutReceive + 2
           Inv == IterationsLeft \in 0 .. Limit /\ Switch!MovesOnlyWhileLeft
<1>1. Switch!Init => Inv
  <2>1. 0 \in 0 .. Limit
    BY ControlAssumption
  <2> QED BY <2>1 DEF Switch!Init, Switch!MovesOnlyWhileLeft
<1>2. Inv /\ [Switch!Next]_Switch!vars => Inv'
  <2> SUFFICES ASSUME Inv, [Switch!Next]_Switch!vars PROVE Inv'
    OBVIOUS
  <2>0. Limit \in Nat \ {0}
    BY ControlAssumption
  <2>1. CASE Switch!Obey \/ Switch!Drive
    <3>1. IterationsLeft' = Limit
      BY <2>1 DEF Switch!Obey, Switch!Drive
    <3> QED BY <2>0, <3>1 DEF Switch!MovesOnlyWhileLeft
  <2>2. CASE Switch!Receive \/ Switch!Switch \/ UNCHANGED Switch!vars
    <3>1. IterationsLeft' = IterationsLeft /\ (esc # NeutralPw)' = (esc # NeutralPw)
      BY <2>2 DEF Switch!Receive, Switch!Switch, Switch!vars
    <3> QED BY <3>1 DEF Switch!MovesOnlyWhileLeft
  <2>3. CASE Switch!Coast
    <3>1. /\ IterationsLeft' = IF IterationsLeft = 0 THEN 0 ELSE IterationsLeft - 1
          /\ (esc # NeutralPw)' => IterationsLeft' > 0
      BY <2>3 DEF Switch!Coast
    <3> QED BY <2>0, <3>1 DEF Switch!MovesOnlyWhileLeft
  <2> QED BY <2>1, <2>2, <2>3 DEF Switch!Next
<1>3. Inv => Switch!MovesOnlyWhileLeft
  OBVIOUS
<1> HIDE DEF Inv
<1> QED BY <1>1, <1>2, <1>3, PTL DEF DeadMansSwitch, Switch!Spec

-----------------------------------------------------------------------------
(* One call of rcModeCheck changes the mode only in an open window, and with *)
(* the stick in the centre.                                                 *)
LEMMA ModeChange ==
  ASSUME NEW r \in RcState, NEW s \in Nat, RcModeCheck(r, s).mode # r.mode
  PROVE  r.window > 0 /\ Centered(s)
<1> DEFINE mid == IF r.window = 0 THEN CountStep(r, s) ELSE WindowStep(r, s)
<1>1. RcModeCheck(r, s).mode = mid.mode
  BY DEF RcModeCheck, ResetCounters
<1>2. CASE r.window = 0
  <2>1. CountStep(r, s).mode = r.mode
    BY DEF CountStep, RcState
  <2> QED BY <1>1, <1>2, <2>1
<1>3. CASE r.window # 0
  <2>1. mid = WindowStep(r, s)
    BY <1>3
  <2>2. ~Centered(s) => WindowStep(r, s).mode = r.mode
    BY DEF WindowStep
  <2> QED BY <1>1, <1>3, <2>1, <2>2 DEF RcState
<1> QED BY <1>2, <1>3

(* Both steps of the gesture are needed to take the car over or to give it  *)
(* back, for every length of the gesture (controlOutput.c:180-253).        *)
THEOREM ModeIsSwitchedOnPurpose == Spec => ModeTakesBothSteps
<1>1. IInv /\ [Next]_vars =>
        [rc'.mode # rc.mode => held > RcIterationsToChangeMode /\ Centered(pw.steering)]_vars
  <2> SUFFICES ASSUME IInv, Next, rc'.mode # rc.mode
               PROVE  held > RcIterationsToChangeMode /\ Centered(pw.steering)
    OBVIOUS
  <2>1. rc' = RcModeCheck(rc, pw.steering)
    <3>1. StartIteration \/ Expire
      BY DEF Next, Iterate, Measure, SetData, RcDrives, AskBrake, RcBrakes, DriveNew, WaitForNew,
             StopRcDrives, StopCenter
    <3> QED BY <3>1 DEF StartIteration, Expire, CheckRc
  <2>2. rc \in RcState /\ pw.steering \in Nat
    BY DEF IInv, TypeOK
  <2>3. rc.window > 0 /\ Centered(pw.steering)
    BY <2>1, <2>2, ModeChange
  <2> QED BY <2>3 DEF IInv, Gesture
<1> QED BY <1>1, Inductive, PTL DEF Spec, ModeTakesBothSteps

(* The commands cannot demand more than the car can do, for every set of    *)
(* commands (hardwarePWM.c:54-105).                                       *)
THEOREM DrivesWithinLimits == Spec => CommandsAreLimited
<1>1. IInv /\ [Next]_vars =>
        [~rc.mode => /\ servo' # servo => servo' >= 1220 /\ servo' <= 1980
                     /\ esc' # esc => \E i \in 1 .. 4 : esc' = SpeedPulseWidth[i]]_vars
  <2> SUFFICES ASSUME IInv, Next, ~rc.mode
               PROVE  /\ servo' # servo => servo' >= 1220 /\ servo' <= 1980
                      /\ esc' # esc => \E i \in 1 .. 4 : esc' = SpeedPulseWidth[i]
    OBVIOUS
  <2>0. controlData.speed \in 0 .. 255 /\ controlData.angle \in 0 .. 255
    BY DEF IInv, TypeOK
  <2>1. /\ ServoPulseWidth(controlData.angle) >= 1220
        /\ ServoPulseWidth(controlData.angle) <= 1980
    BY <2>0, ServoPulseWidthRange
  <2>2. NeutralPw = SpeedPulseWidth[2] /\ WheelsCenteredPw = 1590
    BY DEF NeutralPw, SpeedPulseWidth, WheelsCenteredPw
  <2>3. CASE DriveNew
    <3>1. servo' = ServoPulseWidth(controlData.angle) /\ esc' = EscPulseWidth(controlData.speed)
      BY <2>3 DEF DriveNew
    <3>2. controlData.speed \in 0 .. 3 => controlData.speed + 1 \in 1 .. 4
      BY <2>0
    <3> QED BY <2>1, <3>1, <3>2 DEF EscPulseWidth
  <2>4. CASE RcBrakes \/ StopCenter
    <3>1. esc' = NeutralPw
      BY <2>4 DEF RcBrakes, StopCenter
    <3>2. servo' = ServoPulseWidth(controlData.angle) \/ servo' = WheelsCenteredPw
      BY <2>4 DEF RcBrakes, StopCenter
    <3>3. 2 \in 1 .. 4
      OBVIOUS
    <3> QED BY <2>1, <2>2, <3>1, <3>2, <3>3
  <2>5. ~RcDrives /\ ~StopRcDrives
    BY DEF RcDrives, StopRcDrives, IInv, WhereTheLoopIs
  <2>6. CASE \/ Measure \/ StartIteration \/ AskBrake \/ Expire \/ WaitForNew
             \/ \E c \in Commands : SetData(c)
    <3>1. UNCHANGED hardware
      BY <2>6 DEF Measure, StartIteration, AskBrake, Expire, WaitForNew, SetData
    <3> QED BY <3>1 DEF hardware
  <2> QED BY <2>3, <2>4, <2>5, <2>6 DEF Next, Iterate
<1> QED BY <1>1, Inductive, PTL DEF Spec, CommandsAreLimited

-----------------------------------------------------------------------------
(* No command is lost between controlOutputSetData and the iteration that    *)
(* outputs it, for every set of commands and every behaviour of the         *)
(* transmitter: the safety core of CommandIsOutput.                         *)
THEOREM CommandsAreNotLost == Spec => CommandIsNotLost
<1>1. ASSUME IInv, Next, controlValuesAreNew
      PROVE  /\ controlData' # controlData => controlValuesAreNew' /\ controlData' \in Commands
             /\ ~controlValuesAreNew' => /\ NotBraking
                                        /\ servo' = ServoPulseWidth(controlData.angle)
                                        /\ esc' = EscPulseWidth(controlData.speed)
             /\ NotBraking /\ pc' # pc => ~controlValuesAreNew'
  <2>1. ~StopRcDrives /\ ~StopCenter /\ ~WaitForNew /\ ~Expire
    BY <1>1 DEF IInv, WhereTheLoopIs, StopRcDrives, StopCenter, WaitForNew, Expire
  <2>2. CASE DriveNew
    BY <2>2 DEF DriveNew
  <2>3. CASE \E c \in Commands : SetData(c)
    BY <2>3 DEF SetData
  <2>4. CASE Measure \/ StartIteration \/ RcDrives
    BY <1>1, <2>4 DEF Measure, StartIteration, RcDrives, NotBraking, command
  <2>5. CASE AskBrake \/ RcBrakes
    <3>1. pw.throttle \in Nat
      BY <1>1 DEF IInv, TypeOK
    <3>2. CASE AskBrake
      <4>1. pc = "drive" /\ ~(pw.throttle < ThrottleOn)
        BY <3>1, <3>2 DEF AskBrake, ThrottleOn
      <4>2. ~NotBraking
        BY <4>1 DEF NotBraking
      <4> QED BY <1>1, <3>2, <4>2 DEF AskBrake, command
    <3>3. CASE RcBrakes
      <4>1. pc = "brake" /\ ~(pw.throttle > ThrottleBrake)
        BY <3>1, <3>3 DEF RcBrakes, Braking, ThrottleBrake
      <4>2. ~NotBraking
        BY <4>1 DEF NotBraking
      <4> QED BY <1>1, <3>3, <4>2 DEF RcBrakes, command
    <3> QED BY <2>5, <3>2, <3>3
  <2> QED
    BY <1>1, <2>1, <2>2, <2>3, <2>4, <2>5 DEF Next, Iterate
<1>2. IInv /\ [Next]_vars =>
        [controlValuesAreNew =>
           /\ controlData' # controlData => controlValuesAreNew' /\ controlData' \in Commands
           /\ ~controlValuesAreNew' => /\ NotBraking
                                      /\ servo' = ServoPulseWidth(controlData.angle)
                                      /\ esc' = EscPulseWidth(controlData.speed)
           /\ NotBraking /\ pc' # pc => ~controlValuesAreNew']_vars
  BY <1>1
<1> QED BY <1>2, Inductive, PTL DEF Spec, CommandIsNotLost
=============================================================================
