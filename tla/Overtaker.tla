------------------------------ MODULE Overtaker ------------------------------
(***************************************************************************)
(* Odroid/DecisionMaker/src/overtaker/Overtaker.cpp: the state machine that *)
(* overtakes an obstacle.  The DecisionMaker calls obstacleDetection once   *)
(* per frame while the operator's state is DRIVING; a step of this module   *)
(* is one call.  Lengths are integers: the path driven is measured in any   *)
(* unit, and a reading of a distance sensor is -1 when it sees nothing.     *)
(* Angles are hundredths of a radian, and their average is rounded down.    *)
(***************************************************************************)
EXTENDS Integers

CONSTANTS
  OVT_TRIGGER,           \* 7.0
  INIT_LS_DIST,          \* 3.0
  CORNER_DET_MARGIN,     \* 0.0
  ADJUST_L_S_DIST,       \* 3.6
  RIGHT_SWITCH_DIST,     \* 4.0
  RightTurnMore,         \* 0.20, added to it when the lane turns right
  LeftTurnLess,          \* 0.15, taken from it when the lane turns left
  ADJUST_R_S_DIST,       \* 2.0
  US_SENSOR_RANGE,       \* 8.0
  US_FRONT_RIGHT_RANGE,  \* 3.0
  NUM_OF_READINGS,       \* 5
  AverageFrames,         \* 5, frames over which the lane's angle is averaged
  MaxFrames,             \* 125, frames without motion that reset the state machine
  MaxStep,               \* bound of the model: path driven from one call to the next
  Readings,              \* readings of the ultrasonic sensors, with -1 for none
  Angles                 \* angles the LaneFollower recommends

ASSUME LengthAssumption ==
  /\ {OVT_TRIGGER, INIT_LS_DIST, CORNER_DET_MARGIN, ADJUST_L_S_DIST,
      RIGHT_SWITCH_DIST, RightTurnMore, LeftTurnLess, ADJUST_R_S_DIST,
      US_SENSOR_RANGE, US_FRONT_RIGHT_RANGE, MaxStep} \subseteq Nat
  /\ LeftTurnLess <= RIGHT_SWITCH_DIST

(* A frame is short: no leg ends in the frame it begins.                    *)
ASSUME StepAssumption == MaxStep <= INIT_LS_DIST

ASSUME CountAssumption ==
  {NUM_OF_READINGS, AverageFrames, MaxFrames} \subseteq Nat \ {0}

ASSUME InputAssumption == Readings \subseteq Int /\ Angles \subseteq Int

VARIABLES
  state,                 \* state
  isOverridingControls,  \* isOverridingControls
  leftLane,              \* leftLane
  consecReadings,        \* consecReadings
  idle_frame_counter,    \* idle_frame_counter
  average_counter,       \* average_counter, at most AverageFrames: more acts the same
  laneRecommendation,    \* laneRecommendation, first a sum and then an average
  min_us_fr,             \* min_us_fr
  gone,                  \* path driven since traveledPath was set, at most Farthest
  speed,                 \* ovtControl.speed
  steering,              \* ovtControl.steeringWheelAngle: "straight", "left" or "right"
  flashing,              \* ovtControl.flashingLights*: the sides that flash
  held,                  \* history: calls for which the condition of this state has held
  turned                 \* history: path driven since this leg began, at most Farthest

lane == <<isOverridingControls, leftLane>>
average == <<average_counter, laneRecommendation>>
control == <<speed, steering, flashing>>
vars == <<state, lane, consecReadings, idle_frame_counter, average, min_us_fr, gone,
          control, held, turned>>

-----------------------------------------------------------------------------
(* The state machine.                                                      *)
ToLeft  == {"INIT_LEFT_SWITCH", "LEFT_SWITCH", "ADJUST_LEFT_SWITCH"}
Besides == {"SEARCH_END", "REACH_END", "COMPUTE_ANGLE"}
ToRight == {"RIGHT_SWITCH", "ADJUST_RIGHT_SWITCH"}
States  == {"FREE_LANE"} \cup ToLeft \cup Besides \cup ToRight

(* The states that drive a path of a given length without looking.         *)
Legs == {"INIT_LEFT_SWITCH", "ADJUST_LEFT_SWITCH"} \cup ToRight

(* The longest path that any guard tells from a longer one, and the        *)
(* longest that can be driven while the angle is averaged.                 *)
Farthest ==
  INIT_LS_DIST + ADJUST_L_S_DIST + RIGHT_SWITCH_DIST + RightTurnMore
    + ADJUST_R_S_DIST + AverageFrames * MaxStep + 1
Capped(n) == IF n > Farthest THEN Farthest ELSE n

Init ==
  /\ state = "FREE_LANE"
  /\ isOverridingControls = FALSE
  /\ leftLane = FALSE
  /\ consecReadings = 0
  /\ idle_frame_counter = 0
  /\ average_counter = 0
  /\ laneRecommendation = 0
  /\ min_us_fr = OVT_TRIGGER
  /\ gone = 0
  /\ speed = 0
  /\ steering = "straight"
  /\ flashing = {}
  /\ held = 0
  /\ turned = 0

-----------------------------------------------------------------------------
(* Pieces of a call in which d is the path driven since the call before.   *)

(* resetFSM, called first: a car that stands for MaxFrames calls is back on *)
(* the free lane, and this very call goes on from there.                   *)
Resets(d) == d = 0 /\ idle_frame_counter + 1 >= MaxFrames

\* Mutant: the counter starts again one frame before its limit.
MutCountIdle(d) ==
  idle_frame_counter' =
    IF d > 0 \/ idle_frame_counter + 2 >= MaxFrames THEN 0 ELSE idle_frame_counter + 1

CountIdle(d) ==
  idle_frame_counter' = IF d > 0 \/ Resets(d) THEN 0 ELSE idle_frame_counter + 1

(* The switch statement finds state s.                                     *)
Finds(s, d) ==
  /\ CountIdle(d)
  /\ IF Resets(d) THEN s = "FREE_LANE" ELSE s = state

(* traveledPath is set, or stays.                                          *)
SetPath == gone' = 0
KeepPath(d) == gone' = Capped(gone + d)

(* The state found stays, or is left for s.                                *)
GivesUp(d) == Resets(d) /\ state # "FREE_LANE"
Remain(d) ==
  /\ state' = IF Resets(d) THEN "FREE_LANE" ELSE state
  /\ turned' = IF state \in Legs /\ ~GivesUp(d) THEN Capped(turned + d) ELSE 0
Enter(s) == state' = s /\ held' = 0 /\ turned' = 0

(* isObstacleDetected.                                                     *)
Detected(reading, range) == 0 <= reading /\ reading < range

(* checkReadingsCounter.                                                   *)
Enough == consecReadings + 1 >= NUM_OF_READINGS

\* Mutant: the counter is not reset when it reaches the limit.
MutCountReading == consecReadings' = consecReadings + 1

CountReading == consecReadings' = IF Enough THEN 0 ELSE consecReadings + 1

(* resetReadingsCounter.                                                   *)
\* Mutant: an interrupted series of readings goes on where it stopped.
MutResetReadings == UNCHANGED consecReadings

ResetReadings == consecReadings' = 0

(* The condition of the state found does not hold in this call, or holds    *)
(* but not often enough yet, or holds often enough to go on to s.           *)
Looks(holds, d) ==
  /\ Remain(d)
  /\ IF holds
     THEN /\ ~Enough
          /\ CountReading
          /\ held' = (IF GivesUp(d) THEN 0 ELSE held) + 1
     ELSE ResetReadings /\ held' = 0
HoldsLong(holds, s) == holds /\ Enough /\ CountReading /\ Enter(s)

-----------------------------------------------------------------------------
(* FREE_LANE                                                               *)
LeavesSteering(d) == steering' = IF Resets(d) THEN "straight" ELSE steering

(* An obstacle has been ahead for long enough.                             *)
StartLeftSwitch(d) ==
  /\ Finds("FREE_LANE", d)
  /\ \E front \in Readings : HoldsLong(Detected(front, OVT_TRIGGER), "INIT_LEFT_SWITCH")
  /\ isOverridingControls' = TRUE
  /\ SetPath
  /\ min_us_fr' = OVT_TRIGGER
  /\ speed' = 1
  /\ flashing' = flashing \cup {"left"}
  /\ LeavesSteering(d)
  /\ UNCHANGED <<leftLane, average>>

FollowLane(d) ==
  /\ Finds("FREE_LANE", d)
  /\ \E front \in Readings : Looks(Detected(front, OVT_TRIGGER), d)
  /\ KeepPath(d)
  /\ LeavesSteering(d)
  /\ UNCHANGED <<lane, average, min_us_fr, speed, flashing>>

-----------------------------------------------------------------------------
(* The legs that are driven without looking: turnLeft, adjustLeftSwitch,    *)
(* switchToRightLane and adjustRightSwitch steer until the path is done.    *)
Steer(s, limit, side, d) ==
  /\ Finds(s, d)
  /\ gone + d <= limit
  /\ Remain(d)
  /\ KeepPath(d)
  /\ steering' = side
  /\ UNCHANGED <<lane, consecReadings, average, min_us_fr, speed, flashing, held>>

Done(s, limit, next, d) ==
  /\ Finds(s, d)
  /\ gone + d > limit
  /\ Enter(next)
  /\ UNCHANGED <<consecReadings, min_us_fr, speed>>

TurnLeft(d) == Steer("INIT_LEFT_SWITCH", INIT_LS_DIST, "left", d)

TurnedLeft(d) ==
  /\ Done("INIT_LEFT_SWITCH", INIT_LS_DIST, "LEFT_SWITCH", d)
  /\ KeepPath(d)
  /\ UNCHANGED <<lane, average, steering, flashing>>

AdjustLeft(d) == Steer("ADJUST_LEFT_SWITCH", ADJUST_L_S_DIST, "right", d)

AdjustedLeft(d) ==
  /\ Done("ADJUST_LEFT_SWITCH", ADJUST_L_S_DIST, "SEARCH_END", d)
  /\ KeepPath(d)
  /\ isOverridingControls' = FALSE
  /\ leftLane' = TRUE
  /\ steering' = "straight"
  /\ UNCHANGED <<average, flashing>>

(* On the way back the path depends on how the lane bends.                 *)
BendsRight == laneRecommendation > 10
BendsLeft  == laneRecommendation < -13

DistanceToCover ==
  IF BendsRight THEN RIGHT_SWITCH_DIST + RightTurnMore
  ELSE IF BendsLeft THEN RIGHT_SWITCH_DIST - LeftTurnLess
  ELSE RIGHT_SWITCH_DIST

AdjustDistance == IF BendsLeft THEN ADJUST_R_S_DIST ELSE 0

SwitchRight(d) == Steer("RIGHT_SWITCH", DistanceToCover, "right", d)

\* Mutant: the next leg is measured from the start of this one.
MutSwitchedRight(d) ==
  /\ Done("RIGHT_SWITCH", DistanceToCover, "ADJUST_RIGHT_SWITCH", d)
  /\ KeepPath(d)
  /\ flashing' = flashing \ {"right"}
  /\ UNCHANGED <<lane, average, steering>>

SwitchedRight(d) ==
  /\ Done("RIGHT_SWITCH", DistanceToCover, "ADJUST_RIGHT_SWITCH", d)
  /\ SetPath
  /\ flashing' = flashing \ {"right"}
  /\ UNCHANGED <<lane, average, steering>>

AdjustRight(d) == Steer("ADJUST_RIGHT_SWITCH", AdjustDistance, "left", d)

\* Mutant: the car counts as on the left lane after its return.
MutAdjustedRight(d) ==
  /\ Done("ADJUST_RIGHT_SWITCH", AdjustDistance, "FREE_LANE", d)
  /\ KeepPath(d)
  /\ isOverridingControls' = FALSE
  /\ average_counter' = 0
  /\ laneRecommendation' = 0
  /\ UNCHANGED <<leftLane, steering, flashing>>

AdjustedRight(d) ==
  /\ Done("ADJUST_RIGHT_SWITCH", AdjustDistance, "FREE_LANE", d)
  /\ KeepPath(d)
  /\ isOverridingControls' = FALSE
  /\ leftLane' = FALSE
  /\ average_counter' = 0
  /\ laneRecommendation' = 0
  /\ UNCHANGED <<steering, flashing>>

-----------------------------------------------------------------------------
(* LEFT_SWITCH, cornerDetection: the reading of the front right sensor      *)
(* shrinks up to the corner and grows behind it.  A new minimum does not    *)
(* reset the readings counter.                                             *)
Grows(reading) == reading > 0 /\ reading > min_us_fr + CORNER_DET_MARGIN

CornerPassed(d) ==
  /\ Finds("LEFT_SWITCH", d)
  /\ \E us_fr \in Readings : HoldsLong(Grows(us_fr), "ADJUST_LEFT_SWITCH")
  /\ SetPath
  /\ flashing' = flashing \ {"left"}
  /\ UNCHANGED <<lane, average, min_us_fr, speed, steering>>

SearchCorner(d) ==
  /\ Finds("LEFT_SWITCH", d)
  /\ \E us_fr \in Readings :
       IF 0 < us_fr /\ us_fr <= min_us_fr
       THEN min_us_fr' = us_fr /\ Remain(d) /\ held' = 0 /\ UNCHANGED consecReadings
       ELSE Looks(Grows(us_fr), d) /\ UNCHANGED min_us_fr
  /\ KeepPath(d)
  /\ steering' = "left"
  /\ UNCHANGED <<lane, average, speed, flashing>>

-----------------------------------------------------------------------------
(* SEARCH_END and REACH_END: the LaneFollower steers; the infrared sensors  *)
(* see the obstacle (TRUE) or not.                                         *)

(* detectEndOfObstacle: only the front right sensor is past the obstacle.   *)
EndOfObstacle(us_fr, ir_fr, ir_rr) ==
  ~Detected(us_fr, US_FRONT_RIGHT_RANGE) /\ ir_fr /\ ir_rr

(* isRightLaneClear.                                                       *)
RightLaneClear(us_fr, ir_fr, ir_rr) ==
  ~Detected(us_fr, US_SENSOR_RANGE) /\ ~ir_fr /\ ~ir_rr

EndDetected(d) ==
  /\ Finds("SEARCH_END", d)
  /\ \E us_fr \in Readings, ir_fr, ir_rr \in BOOLEAN :
       HoldsLong(EndOfObstacle(us_fr, ir_fr, ir_rr), "REACH_END")
  /\ KeepPath(d)
  /\ UNCHANGED <<lane, average, min_us_fr, control>>

SearchEnd(d) ==
  /\ Finds("SEARCH_END", d)
  /\ \E us_fr \in Readings, ir_fr, ir_rr \in BOOLEAN :
       Looks(EndOfObstacle(us_fr, ir_fr, ir_rr), d)
  /\ KeepPath(d)
  /\ UNCHANGED <<lane, average, min_us_fr, control>>

EndReached(d) ==
  /\ Finds("REACH_END", d)
  /\ \E us_fr \in Readings, ir_fr, ir_rr \in BOOLEAN :
       HoldsLong(RightLaneClear(us_fr, ir_fr, ir_rr), "COMPUTE_ANGLE")
  /\ SetPath
  /\ flashing' = flashing \cup {"right"}
  /\ UNCHANGED <<lane, average, min_us_fr, speed, steering>>

ReachEnd(d) ==
  /\ Finds("REACH_END", d)
  /\ \E us_fr \in Readings, ir_fr, ir_rr \in BOOLEAN :
       Looks(RightLaneClear(us_fr, ir_fr, ir_rr), d)
  /\ KeepPath(d)
  /\ UNCHANGED <<lane, average, min_us_fr, control>>

-----------------------------------------------------------------------------
(* COMPUTE_ANGLE, computeLaneAngle: the angles of AverageFrames calls are   *)
(* added up, then divided.  A counter and a sum left over from an           *)
(* overtaking that was given up are not reset.                             *)
LastAngle == average_counter + 1 >= AverageFrames
CountAngle ==
  average_counter' = IF average_counter < AverageFrames THEN average_counter + 1
                                                        ELSE average_counter

ComputeAngle(d) ==
  /\ Finds("COMPUTE_ANGLE", d)
  /\ ~LastAngle
  /\ CountAngle
  /\ \E angle \in Angles : laneRecommendation' = laneRecommendation + angle
  /\ Remain(d)
  /\ KeepPath(d)
  /\ UNCHANGED <<lane, consecReadings, min_us_fr, control, held>>

\* Mutant: the overtaker does not take control again.
MutAngleComputed(d) ==
  /\ Finds("COMPUTE_ANGLE", d)
  /\ LastAngle
  /\ CountAngle
  /\ \E angle \in Angles :
       laneRecommendation' = (laneRecommendation + angle) \div AverageFrames
  /\ Enter("RIGHT_SWITCH")
  /\ KeepPath(d)
  /\ UNCHANGED <<lane, consecReadings, min_us_fr, control>>

AngleComputed(d) ==
  /\ Finds("COMPUTE_ANGLE", d)
  /\ LastAngle
  /\ CountAngle
  /\ \E angle \in Angles :
       laneRecommendation' = (laneRecommendation + angle) \div AverageFrames
  /\ Enter("RIGHT_SWITCH")
  /\ isOverridingControls' = TRUE
  /\ KeepPath(d)
  /\ UNCHANGED <<leftLane, consecReadings, min_us_fr, control>>

-----------------------------------------------------------------------------
(* obstacleDetection.                                                      *)
ObstacleDetection(d) ==
  \/ StartLeftSwitch(d) \/ FollowLane(d)
  \/ TurnLeft(d)        \/ TurnedLeft(d)
  \/ CornerPassed(d)    \/ SearchCorner(d)
  \/ AdjustLeft(d)      \/ AdjustedLeft(d)
  \/ EndDetected(d)     \/ SearchEnd(d)
  \/ EndReached(d)      \/ ReachEnd(d)
  \/ AngleComputed(d)   \/ ComputeAngle(d)
  \/ SwitchedRight(d)   \/ SwitchRight(d)
  \/ AdjustedRight(d)   \/ AdjustRight(d)

Next == \E d \in 0 .. MaxStep : ObstacleDetection(d)

(* The DecisionMaker is time-triggered: there is always a next frame.       *)
Spec == Init /\ [][Next]_vars /\ WF_vars(Next)

-----------------------------------------------------------------------------
(* Properties.                                                             *)

\* Every variable has a value of its type.
TypeOK ==
  /\ state \in States
  /\ isOverridingControls \in BOOLEAN
  /\ leftLane \in BOOLEAN
  /\ consecReadings \in 0 .. NUM_OF_READINGS - 1
  /\ idle_frame_counter \in 0 .. MaxFrames - 1
  /\ average_counter \in 0 .. AverageFrames
  /\ laneRecommendation \in Int
  /\ min_us_fr \in 0 .. OVT_TRIGGER
  /\ gone \in 0 .. Farthest
  /\ speed \in {0, 1}
  /\ steering \in {"straight", "left", "right"}
  /\ flashing \in SUBSET {"left", "right"}
  /\ held \in 0 .. NUM_OF_READINGS - 1
  /\ turned \in 0 .. Farthest

\* Whatever was given up before, once a new overtaking is under way the overtaker's flags and
\* control values fit its state: it steers, at its speed, into the lane it changes to
\* and with the indicator of that side, exactly in the states that drive the car; the
\* car counts as on the left lane from the end of the left switch to the end of the right.
ControlFitsManoeuvre ==
  /\ state \in ToLeft \cup ToRight => isOverridingControls /\ speed = 1
  /\ state \in Besides => ~isOverridingControls
  /\ state \in Besides \cup ToRight => leftLane
  /\ state \in {"INIT_LEFT_SWITCH", "LEFT_SWITCH"} => "left" \in flashing
  /\ state \in {"COMPUTE_ANGLE", "RIGHT_SWITCH"} => "right" \in flashing
  /\ state = "LEFT_SWITCH" => steering = "left"
  /\ state = "RIGHT_SWITCH" => steering # "left"

\* A leg that is driven without looking is measured from where it starts, so it is as
\* long as its constant says; the right switch is measured from before the frames that
\* average the angle, and falls short by no more than what is driven in them.
LegsMeasured ==
  /\ state \in Legs \ {"RIGHT_SWITCH"} => gone = turned
  /\ state = "RIGHT_SWITCH" => turned <= gone /\ gone <= turned + AverageFrames * MaxStep

\* How long the leg that is being driven is meant to be.
LegLimit ==
  CASE state = "INIT_LEFT_SWITCH"    -> INIT_LS_DIST
    [] state = "ADJUST_LEFT_SWITCH"  -> ADJUST_L_S_DIST
    [] state = "RIGHT_SWITCH"        -> DistanceToCover
    [] state = "ADJUST_RIGHT_SWITCH" -> AdjustDistance
    [] OTHER -> 0

\* No leg is driven further than it is meant to be: the car does not steer blindly on
\* into the verge or the oncoming lane, however unevenly it drives.
NotTooLong == state \in Legs => turned <= LegLimit

\* A leg is left for the next state in the frame that would make it too long, and not
\* before; the right switch may end earlier by the frames that average the angle.
NotTooShort ==
  [][/\ \/ state = "INIT_LEFT_SWITCH" /\ state' = "LEFT_SWITCH"
        \/ state = "ADJUST_LEFT_SWITCH" /\ state' = "SEARCH_END"
        => turned + MaxStep > LegLimit
     /\ state = "RIGHT_SWITCH" /\ state' = "ADJUST_RIGHT_SWITCH"
        => turned + MaxStep + AverageFrames * MaxStep > LegLimit]_vars

\* Every call of a return that has begun brings its end nearer: a later state is reached
\* (or the overtaking is given up), one more angle is added, more path has been driven,
\* or one more frame without motion is counted.  Angles, path and frames are bounded.
ReturnStage ==
  CASE state = "COMPUTE_ANGLE"       -> 0
    [] state = "RIGHT_SWITCH"        -> 1
    [] state = "ADJUST_RIGHT_SWITCH" -> 2
    [] OTHER -> 3
ReturnAdvances ==
  [][state = "COMPUTE_ANGLE" \/ state \in ToRight =>
       \/ ReturnStage' > ReturnStage
       \/ /\ state' = state
          /\ IF state = "COMPUTE_ANGLE" THEN average_counter' > average_counter
             ELSE \/ gone' > gone
                  \/ gone' = gone /\ idle_frame_counter' > idle_frame_counter]_vars

\* Beside the obstacle the overtaker moves on only after NUM_OF_READINGS frames in a row
\* in which the right side looked as it must, whatever the counter held when it
\* began and however the frames before were mixed.
RightSideHeld ==
  [][(state = "SEARCH_END" /\ state' = "REACH_END")
       \/ (state = "REACH_END" /\ state' = "COMPUTE_ANGLE")
     => held + 1 >= NUM_OF_READINGS]_vars

\* The overtaker changes lane as LaneChange promises: only under its own control, left and
\* right in turn.
phase ==
  CASE state = "FREE_LANE" -> "lane"
    [] state \in ToLeft    -> "toLeft"
    [] state \in Besides   -> "besides"
    [] state \in ToRight   -> "toRight"
Promise == INSTANCE LaneChange
ChangesLaneAsPromised == Promise!Spec

\* A return to the right lane that has begun ends, because every leg of it either gets
\* longer or is given up on a car that does not move.
ReturnEnds ==
  state = "COMPUTE_ANGLE" \/ state \in ToRight ~> state = "FREE_LANE"
=============================================================================
