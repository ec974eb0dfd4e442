------------------------------- MODULE Parker -------------------------------
(***************************************************************************)
(* Odroid/DecisionMaker/src/parker/Parker.cpp: the search of a parking      *)
(* spot, the parking manoeuvre and the way back to the lane.  The           *)
(* DecisionMaker calls findSpot, parallelPark or goBackToLane at most once  *)
(* per frame; each action is one such call in which the car has driven d    *)
(* since the frame before.  Lengths are integers (the code's metres in any  *)
(* unit).  The positions the code keeps, gapStart, gapEnd and carPosition,  *)
(* are each compared with the path only while the state lasts that they     *)
(* belong to, so one variable, driven, is the path driven since the         *)
(* position that counts.  Lights are left out.                              *)
(***************************************************************************)
EXTENDS Integers

CONSTANTS
  SPOT_SIZE,                  \* 0.60
  ENOUGH_SPACE_DISTANCE,      \* 1.05
  ADJUST_BEFORE_PARKING,      \* 0.20
  BACK_AROUND_CORNER,         \* 0.56
  BACKING_STRAIGHT,           \* 0.00, in the simulation 2.3
  PARALLEL_IN_SPOT,           \* 0.66
  BackToLane,                 \* 0.1, the argument of goBackToLane
  OCCURRENCE,                 \* 3, equal readings in a row that are believed
  InSpotReadings,             \* 3, clear readings in a row that say "in the spot"
  CurveFrames,                \* 30, frames of steering that make a curve
  SENSORS_IN_SPOT,            \* 0.19
  SENSOR_SAFETY_MIN,          \* 0.04
  SENSOR_SAFETY_MAX,          \* 0.06
  IRSENSOR_DISTANCE_MIN,      \* 0.05
  SENSOR_DIFFERENCE,          \* 0.15, both SENSOR_DIFFERENCE_INBETWEEN and _NO_FRONT
  DISTANCE_FROM_BACK_OBJECT,  \* 0.08
  Distances,                  \* readings of the front and the rear sensor
  MaxStep                     \* bound of the model: path driven in one frame

ASSUME ParkerAssumption ==
  /\ {SPOT_SIZE, ENOUGH_SPACE_DISTANCE, ADJUST_BEFORE_PARKING, BACK_AROUND_CORNER,
      BACKING_STRAIGHT, PARALLEL_IN_SPOT, BackToLane, MaxStep} \subseteq Nat
  /\ {OCCURRENCE, InSpotReadings, CurveFrames} \subseteq Nat \ {0}
  /\ {SENSORS_IN_SPOT, SENSOR_SAFETY_MIN, SENSOR_SAFETY_MAX, IRSENSOR_DISTANCE_MIN,
      SENSOR_DIFFERENCE, DISTANCE_FROM_BACK_OBJECT} \subseteq Int
  /\ Distances \subseteq Int

(* A frame is short: the car cannot pass the adjustment within one.        *)
ASSUME FrameAssumption == MaxStep <= ADJUST_BEFORE_PARKING

VARIABLES
  state,           \* state, of the search
  parkstate,       \* parkstate, of the manoeuvre
  expectedValue,   \* expectedValue, at most InSpotReadings + 1: more acts the same
  turningCounter,  \* turningCounter, 0 once a spot is found: nothing reads it then
  isSpot,          \* isSpot
  objInFront,      \* objInFront
  gap,             \* gapEnd - gapStart from the end of the gap on, else 0
  driven,          \* path driven since the position that counts, at most Farthest
  isInSpot,        \* isInSpot
  isCloseToBack,   \* isCloseToBack
  isParked,        \* isParked
  resume,          \* resume
  backed,          \* path driven since tempCarPositino, at most BackToLane
  outOfSpot,       \* outOfSpot
  controlTemp,     \* controlTemp: speed and steering
  room             \* history: the last frame did not read the rear sensor too close in PHASE3

search == <<state, turningCounter, objInFront, gap, isSpot>>
manoeuvre == <<parkstate, isInSpot, isCloseToBack, isParked>>
way == <<resume, outOfSpot>>
parkerVars == <<search, manoeuvre, way, expectedValue, driven, backed, controlTemp, room>>

-----------------------------------------------------------------------------
SearchStates == {"FINDOBJECT", "FINDGAPSTART", "FINDGAPEND", "CHECKSPACE"}
Phases == {"PHASE0", "PHASE1", "PHASE2", "PHASE3", "PHASE4", "SAFETYSTOP"}
Controls == [speed : {-1, 0, 1, 2}, steering : {"straight", "left", "right"}]

Capped(n, most) == IF n > most THEN most ELSE n

(* The longest path that any guard tells from a longer one.                *)
Farthest ==
  LET searching == ENOUGH_SPACE_DISTANCE + ADJUST_BEFORE_PARKING + MaxStep
      parking == BACK_AROUND_CORNER + BACKING_STRAIGHT + PARALLEL_IN_SPOT
  IN 1 + IF searching > parking THEN searching ELSE parking

(* The path behind the position that counts when the car has driven d more. *)
Now(d) == Capped(driven + d, Farthest)
DriveOn(d) == driven' = Now(d)

(* The path also leaves tempCarPositino behind.                            *)
LeaveBehind(d) == backed' = Capped(backed + d, BackToLane)

ParkerInit ==
  /\ state = "FINDOBJECT"
  /\ parkstate = "PHASE0"
  /\ expectedValue = 0
  /\ turningCounter = 0
  /\ isSpot = FALSE
  /\ objInFront = FALSE
  /\ gap = 0
  /\ driven = 0
  /\ isInSpot = FALSE
  /\ isCloseToBack = FALSE
  /\ isParked = FALSE
  /\ resume = FALSE
  /\ backed \in 0 .. BackToLane
  /\ outOfSpot = FALSE
  /\ controlTemp = [speed |-> 0, steering |-> "straight"]
  /\ room = TRUE

ParkerTypeOK ==
  /\ state \in SearchStates
  /\ parkstate \in Phases
  /\ expectedValue \in 0 .. (InSpotReadings + OCCURRENCE)
  /\ turningCounter \in 0 .. (CurveFrames - 1)
  /\ isSpot \in BOOLEAN /\ objInFront \in BOOLEAN
  /\ isInSpot \in BOOLEAN /\ isCloseToBack \in BOOLEAN /\ isParked \in BOOLEAN
  /\ resume \in BOOLEAN /\ outOfSpot \in BOOLEAN /\ room \in BOOLEAN
  /\ gap \in 0 .. Farthest
  /\ driven \in 0 .. Farthest
  /\ backed \in 0 .. BackToLane
  /\ controlTemp \in Controls

(* A frame in which the DecisionMaker does not call the parker.            *)
Measuring ==
  /\ state \in {"FINDGAPEND", "CHECKSPACE"}
  /\ parkstate \notin {"PHASE4", "SAFETYSTOP"}

NotCalled(d) ==
  /\ driven' = IF Measuring THEN Now(d) ELSE 0
  /\ LeaveBehind(d)
  /\ room' = TRUE
  /\ UNCHANGED <<search, manoeuvre, way, expectedValue, controlTemp>>

-----------------------------------------------------------------------------
(* findSpot: sees is what the infrared sensor at the right rear sees, an    *)
(* "object" between IRSENSOR_DISTANCE_MIN and _MAX, a "gap" outside, or     *)
(* "neither" exactly on a limit; turning says that the car steers by more   *)
(* than 0.42.                                                               *)
\* Mutant: the counter is compared one frame too late.
MutCurve(turning) == turning /\ turningCounter = CurveFrames

Curve(turning) == turning /\ turningCounter + 1 = CurveFrames

CountTurning(turning) ==
  turningCounter' =
    IF turning /\ ~Curve(turning) /\ ~isSpot' THEN turningCounter + 1 ELSE 0

(* The switch finds state s: after a curve the search starts again.        *)
Searches(s, turning) == s = IF Curve(turning) THEN "FINDOBJECT" ELSE state

Believed(hit) == hit /\ expectedValue + 1 = OCCURRENCE

CountHit(hit) == expectedValue' = IF hit /\ ~Believed(hit) THEN expectedValue + 1 ELSE 0

FindObject(sees) ==
  /\ CountHit(sees = "object")
  /\ state' = IF Believed(sees = "object") THEN "FINDGAPSTART" ELSE "FINDOBJECT"
  /\ isSpot' = FALSE
  /\ driven' = 0
  /\ gap' = 0
  /\ UNCHANGED <<objInFront, parkstate>>

FindGapStart(sees) ==
  /\ CountHit(sees = "gap")
  /\ state' = IF Believed(sees = "gap") THEN "FINDGAPEND" ELSE state
  /\ driven' = 0
  /\ UNCHANGED <<isSpot, objInFront, gap, parkstate>>

(* The gap is long enough without an object at its end.                    *)
GapIsOpen(d) ==
  /\ Now(d) > ENOUGH_SPACE_DISTANCE
  /\ expectedValue' = 0
  /\ objInFront' = FALSE
  /\ isSpot' = TRUE
  /\ parkstate' = "PHASE1"
  /\ driven' = 0
  /\ UNCHANGED <<state, gap>>

FindGapEnd(d, sees) ==
  /\ Now(d) <= ENOUGH_SPACE_DISTANCE
  /\ CountHit(sees = "object")
  /\ IF Believed(sees = "object")
       THEN /\ gap' = Now(d)
            /\ driven' = 0
            /\ objInFront' = TRUE
            /\ state' = "CHECKSPACE"
       ELSE /\ DriveOn(d)
            /\ UNCHANGED <<gap, objInFront, state>>
  /\ UNCHANGED <<isSpot, parkstate>>

\* Mutant: the manoeuvre skips the adjustment, as in an open gap.
MutEnoughSpace(d) ==
  /\ gap > SPOT_SIZE
  /\ isSpot' = TRUE
  /\ parkstate' = "PHASE1"
  /\ DriveOn(d)
  /\ UNCHANGED <<state, objInFront, gap, expectedValue>>

EnoughSpace(d) ==
  /\ gap > SPOT_SIZE
  /\ isSpot' = TRUE
  /\ parkstate' = "PHASE0"
  /\ DriveOn(d)
  /\ UNCHANGED <<state, objInFront, gap, expectedValue>>

TooSmall(d) ==
  /\ gap <= SPOT_SIZE
  /\ state' = "FINDOBJECT"
  /\ driven' = 0
  /\ gap' = 0
  /\ UNCHANGED <<isSpot, parkstate, objInFront, expectedValue>>

FindSpot(d, sees, turning) ==
  /\ \/ Searches("FINDOBJECT", turning) /\ FindObject(sees)
     \/ Searches("FINDGAPSTART", turning) /\ FindGapStart(sees)
     \/ Searches("FINDGAPEND", turning) /\ (GapIsOpen(d) \/ FindGapEnd(d, sees))
     \/ Searches("CHECKSPACE", turning) /\ (EnoughSpace(d) \/ TooSmall(d))
  /\ CountTurning(turning)
  /\ LeaveBehind(d)
  /\ room' = TRUE
  /\ UNCHANGED <<isInSpot, isCloseToBack, isParked, way, controlTemp>>

-----------------------------------------------------------------------------
(* parallelPark: front and back are the readings of the sensors that look   *)
(* there; clear says that the three sensors at the right see nothing.  The  *)
(* safety check stops the car when one of the five is within its range, and *)
(* those at the right may be in any frame.                                  *)
Watching == ~isInSpot /\ parkstate # "PHASE0"

TooClose(x) == SENSOR_SAFETY_MIN < x /\ x < SENSOR_SAFETY_MAX

(* expectedValue after checkIfInSpot.                                      *)
ClearReadings(clear) ==
  IF ~Watching THEN expectedValue
  ELSE IF clear THEN Capped(expectedValue + 1, InSpotReadings + 1) ELSE 0

CheckIfInSpot(clear) ==
  isInSpot' = (isInSpot \/ (Watching /\ ClearReadings(clear) = InSpotReadings))

(* PHASE0, PHASE1, PHASE2: a path of a given length is driven, with control *)
(* while it lasts.  In the frame that ends exactly on it nothing happens.   *)
OnTheWay(d, length, control) ==
  /\ Now(d) < length
  /\ controlTemp' = control
  /\ DriveOn(d)
  /\ UNCHANGED parkstate

ExactlyThere(d, length) ==
  /\ Now(d) = length
  /\ DriveOn(d)
  /\ UNCHANGED <<parkstate, controlTemp>>

AdjustBeforeParking(d) ==
  \/ OnTheWay(d, ADJUST_BEFORE_PARKING, [speed |-> 1, steering |-> "straight"])
  \/ ExactlyThere(d, ADJUST_BEFORE_PARKING)
  \/ /\ Now(d) > ADJUST_BEFORE_PARKING
     /\ controlTemp' = [controlTemp EXCEPT !.speed = 0]
     /\ parkstate' = "PHASE1"
     /\ driven' = 0

BackAroundCorner(d) ==
  \/ OnTheWay(d, BACK_AROUND_CORNER, [speed |-> -1, steering |-> "right"])
  \/ ExactlyThere(d, BACK_AROUND_CORNER)
  \/ /\ Now(d) > BACK_AROUND_CORNER
     /\ controlTemp' = [speed |-> 0, steering |-> "straight"]
     /\ parkstate' = "PHASE2"
     /\ driven' = Now(d) - BACK_AROUND_CORNER

BackingStraight(d) ==
  \/ OnTheWay(d, BACKING_STRAIGHT, [speed |-> -1, steering |-> "straight"])
  \/ ExactlyThere(d, BACKING_STRAIGHT)
  \/ /\ Now(d) > BACKING_STRAIGHT
     /\ controlTemp' = [controlTemp EXCEPT !.steering = "left"]
     /\ parkstate' = "PHASE3"
     /\ driven' = Now(d) - BACKING_STRAIGHT

(* PHASE3: back until the rear sensor is close, forward until the front     *)
(* sensor is.  Two tests follow each other, and the first one already       *)
(* changes what the second one reads.                                       *)
SwingBack(back) ==
  /\ back > SENSORS_IN_SPOT /\ ~isCloseToBack
  /\ controlTemp' = [speed |-> -1, steering |-> "left"]
  /\ isCloseToBack' = FALSE

SwingForward(front, back) ==
  /\ back <= SENSORS_IN_SPOT \/ isCloseToBack
  /\ front > SENSORS_IN_SPOT
  /\ controlTemp' = [speed |-> 1, steering |-> "right"]
  /\ isCloseToBack' = TRUE

SwingNowhere(front, back) ==
  /\ back <= SENSORS_IN_SPOT \/ isCloseToBack
  /\ front <= SENSORS_IN_SPOT
  /\ isCloseToBack' = FALSE
  /\ UNCHANGED controlTemp

GetParallelInSpot(d, front, back) ==
  \/ /\ Now(d) < PARALLEL_IN_SPOT
     /\ \/ SwingBack(back)
        \/ SwingForward(front, back)
        \/ SwingNowhere(front, back)
     /\ room' = (back > SENSORS_IN_SPOT)
     /\ DriveOn(d)
     /\ UNCHANGED parkstate
  \/ /\ ExactlyThere(d, PARALLEL_IN_SPOT)
     /\ room' = TRUE
     /\ UNCHANGED isCloseToBack
  \/ /\ Now(d) > PARALLEL_IN_SPOT
     /\ controlTemp' = [speed |-> 0, steering |-> "straight"]
     /\ parkstate' = "PHASE4"
     /\ driven' = 0
     /\ room' = TRUE
     /\ UNCHANGED isCloseToBack

(* PHASE4: between two objects the car stands in the middle, with none in   *)
(* front at a distance from the object behind.                              *)
InTheMiddle(front, back) ==
  IF objInFront
    THEN front - back < SENSOR_DIFFERENCE /\ back - front < SENSOR_DIFFERENCE
    ELSE back > SENSOR_DIFFERENCE

(* The reading that should be larger, to drive forward.                    *)
Ahead(front) == IF objInFront THEN front ELSE DISTANCE_FROM_BACK_OBJECT

MidOfSpot(front, back, count) ==
  /\ \/ /\ InTheMiddle(front, back)
        /\ isParked' = TRUE
        /\ controlTemp' = [controlTemp EXCEPT !.speed = 0]
        /\ expectedValue' = count
     \/ /\ ~InTheMiddle(front, back)
        /\ Ahead(front) > back
        /\ controlTemp' = [controlTemp EXCEPT !.speed = 1]
        /\ expectedValue' = 0
        /\ UNCHANGED isParked
     \/ /\ ~InTheMiddle(front, back)
        /\ Ahead(front) < back
        /\ controlTemp' = [controlTemp EXCEPT !.speed = -1]
        /\ expectedValue' = 0
        /\ UNCHANGED isParked
     \/ /\ ~InTheMiddle(front, back)
        /\ Ahead(front) = back
        /\ expectedValue' = count
        /\ UNCHANGED <<controlTemp, isParked>>
  /\ driven' = 0
  /\ UNCHANGED parkstate

(* The switch finds the phase the safety check leaves; the first phases do  *)
(* not read the sensors.                                                    *)
BlindPhase(d, clear) ==
  /\ \/ parkstate = "PHASE0" /\ AdjustBeforeParking(d)
     \/ parkstate = "PHASE1" /\ BackAroundCorner(d)
     \/ parkstate = "PHASE2" /\ BackingStraight(d)
  /\ expectedValue' = ClearReadings(clear)
  /\ room' = TRUE
  /\ UNCHANGED <<isCloseToBack, isParked>>

SightedPhase(d, front, back, clear) ==
  \/ /\ parkstate = "PHASE3"
     /\ GetParallelInSpot(d, front, back)
     /\ expectedValue' = ClearReadings(clear)
     /\ UNCHANGED isParked
  \/ /\ parkstate = "PHASE4"
     /\ MidOfSpot(front, back, ClearReadings(clear))
     /\ room' = TRUE
     /\ UNCHANGED isCloseToBack

StopForSafety(clear) ==
  /\ parkstate' = "SAFETYSTOP"
  /\ controlTemp' = [controlTemp EXCEPT !.speed = 0]
  /\ driven' = 0
  /\ expectedValue' = ClearReadings(clear)
  /\ room' = TRUE
  /\ UNCHANGED <<isCloseToBack, isParked>>

ParallelPark(d) ==
  /\ \E clear \in BOOLEAN :
       /\ CheckIfInSpot(clear)
       /\ \/ BlindPhase(d, clear)
          \/ \E front, back \in Distances :
               /\ Watching => ~TooClose(front) /\ ~TooClose(back)
               /\ SightedPhase(d, front, back, clear)
          \/ Watching /\ StopForSafety(clear)
          \/ parkstate = "SAFETYSTOP" /\ StopForSafety(clear)
  /\ LeaveBehind(d)
  /\ UNCHANGED <<search, way>>

-----------------------------------------------------------------------------
(* goBackToLane: back as far as the rear sensor allows, then forward left.  *)
ReverseFirst(back) ==
  /\ ~resume
  /\ back > IRSENSOR_DISTANCE_MIN
  /\ controlTemp' = [controlTemp EXCEPT !.speed = -1]
  /\ backed' = 0
  /\ UNCHANGED <<way, isInSpot>>

ReversedEnough(d, back) ==
  /\ ~resume
  /\ back <= IRSENSOR_DISTANCE_MIN
  /\ resume' = TRUE
  /\ LeaveBehind(d)
  /\ UNCHANGED <<outOfSpot, isInSpot, controlTemp>>

PullOut(d) ==
  /\ resume
  /\ backed + d < BackToLane
  /\ controlTemp' = [speed |-> 1, steering |-> "left"]
  /\ LeaveBehind(d)
  /\ UNCHANGED <<way, isInSpot>>

BackOnLane(d) ==
  /\ resume
  /\ backed + d >= BackToLane
  /\ outOfSpot' = TRUE
  /\ isInSpot' = FALSE
  /\ LeaveBehind(d)
  /\ UNCHANGED <<resume, controlTemp>>

GoBackToLane(d, back) ==
  /\ \/ ReverseFirst(back)
     \/ ReversedEnough(d, back)
     \/ PullOut(d)
     \/ BackOnLane(d)
  /\ driven' = IF Measuring THEN Now(d) ELSE 0
  /\ room' = TRUE
  /\ UNCHANGED <<search, parkstate, isCloseToBack, isParked, expectedValue>>
=============================================================================
