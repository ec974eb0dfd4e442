-------------------------- MODULE Overtaker_proofs --------------------------
(***************************************************************************)
(* Theorems about Overtaker for all lengths, counts, readings and angles.   *)
(***************************************************************************)
EXTENDS Overtaker, TLAPS

-----------------------------------------------------------------------------
(* The constants, and the capping of lengths.                              *)

\* The longest path told apart is a positive number.
LEMMA FarthestType == Farthest \in Nat \ {0} /\ AverageFrames * MaxStep \in Nat
<1>1. AverageFrames \in Nat /\ MaxStep \in Nat
  BY LengthAssumption, CountAssumption
<1>2. AverageFrames * MaxStep \in Nat
  BY <1>1
<1>3. INIT_LS_DIST \in Nat /\ ADJUST_L_S_DIST \in Nat /\ RIGHT_SWITCH_DIST \in Nat
      /\ RightTurnMore \in Nat /\ ADJUST_R_S_DIST \in Nat
  BY LengthAssumption
<1> DEFINE product == AverageFrames * MaxStep
<1>4. Farthest = INIT_LS_DIST + ADJUST_L_S_DIST + RIGHT_SWITCH_DIST + RightTurnMore
                   + ADJUST_R_S_DIST + product + 1
  BY DEF Farthest
<1>5. product \in Nat
  BY <1>2
<1> HIDE DEF product
<1>6. Farthest \in Nat \ {0}
  BY <1>3, <1>4, <1>5
<1> QED
  BY <1>2, <1>6

\* A capped length is in range.
LEMMA CappedType ==
  ASSUME NEW n \in Nat
  PROVE  Capped(n) \in 0 .. Farthest
BY FarthestType DEF Capped

\* Capping keeps the distance of two lengths from growing beyond k.
LEMMA CappedGap ==
  ASSUME NEW m \in Nat, NEW n \in Nat, NEW k \in Nat, m <= n, n <= m + k
  PROVE  Capped(m) <= Capped(n) /\ Capped(n) <= Capped(m) + k
BY FarthestType DEF Capped

\* One more step of the averaged frames.
LEMMA OneMoreFrame ==
  ASSUME NEW n \in Nat, NEW d \in 0 .. MaxStep, NEW g \in Nat, g <= n * MaxStep
  PROVE  n * MaxStep \in Nat /\ (n + 1) * MaxStep \in Nat /\ g + d <= (n + 1) * MaxStep
<1>1. MaxStep \in Nat
  BY LengthAssumption
<1>2. n * MaxStep \in Nat /\ (n + 1) * MaxStep = n * MaxStep + MaxStep
  BY <1>1
<1> QED
  BY <1>1, <1>2

\* More frames are a longer path.
LEMMA MoreFrames ==
  ASSUME NEW m \in Nat, NEW n \in Nat, m <= n
  PROVE  m * MaxStep <= n * MaxStep
<1>1. MaxStep \in Nat
  BY LengthAssumption
<1>2. n - m \in Nat /\ (n - m) * MaxStep \in Nat
  BY <1>1
<1>3. n * MaxStep = (m * MaxStep) + ((n - m) * MaxStep)
  BY <1>1
<1> QED
  BY <1>1, <1>2, <1>3

-----------------------------------------------------------------------------
(* The inductive invariant.                                                *)

\* The readings counter counts at least the frames for which the condition has held, and
\* starts at 0 where the sensors beside the obstacle are read.
ReadingsCounted ==
  /\ held <= consecReadings
  /\ state \in {"INIT_LEFT_SWITCH", "ADJUST_LEFT_SWITCH"} => consecReadings = 0
  /\ state \in {"SEARCH_END", "REACH_END"} => held = consecReadings

\* The path driven while the angle is averaged is that of the frames counted.
AngleFramesCounted ==
  state = "COMPUTE_ANGLE" =>
    /\ gone <= average_counter * MaxStep
    /\ average_counter = AverageFrames => gone = 0

\* The wheels are turned as soon as the left switch has moved the car, and straight when
\* the LaneFollower has the control beside the obstacle; the speed stays set.
ControlSet ==
  /\ state # "FREE_LANE" => speed = 1
  /\ state = "INIT_LEFT_SWITCH" /\ gone > 0 => steering = "left"
  /\ state \in Besides => steering = "straight"

IInv ==
  /\ TypeOK
  /\ ControlFitsManoeuvre
  /\ LegsMeasured
  /\ ReadingsCounted
  /\ AngleFramesCounted
  /\ ControlSet

-----------------------------------------------------------------------------
(* The pieces of a call keep the types.                                    *)

\* resetFSM keeps its counter below the limit.
LEMMA IdleType ==
  ASSUME TypeOK, NEW d \in 0 .. MaxStep, CountIdle(d)
  PROVE  idle_frame_counter' \in 0 .. MaxFrames - 1
BY CountAssumption, LengthAssumption DEF TypeOK, CountIdle, Resets

\* The readings counter stays below its limit.
LEMMA ReadingsType ==
  ASSUME TypeOK, CountReading \/ ResetReadings
  PROVE  consecReadings' \in 0 .. NUM_OF_READINGS - 1
BY CountAssumption DEF TypeOK, CountReading, ResetReadings, Enough

\* The measured path stays in its range.
LEMMA PathType ==
  ASSUME TypeOK, NEW d \in 0 .. MaxStep, SetPath \/ KeepPath(d)
  PROVE  gone' \in 0 .. Farthest
<1>1. gone + d \in Nat
  BY LengthAssumption, FarthestType DEF TypeOK
<1> QED
  BY <1>1, CappedType, FarthestType DEF SetPath, KeepPath

\* A state that stays has the types of a state.
LEMMA RemainType ==
  ASSUME TypeOK, NEW d \in 0 .. MaxStep, Remain(d)
  PROVE  state' \in States /\ turned' \in 0 .. Farthest
<1>1. turned + d \in Nat
  BY LengthAssumption, FarthestType DEF TypeOK
<1>2. turned' \in 0 .. Farthest
  BY <1>1, CappedType, FarthestType DEF Remain
<1> QED
  BY <1>2 DEF Remain, TypeOK, States

\* So has one that is entered.
LEMMA EnterType ==
  ASSUME NEW s \in States, Enter(s)
  PROVE  /\ state' \in States
         /\ turned' \in 0 .. Farthest
         /\ held' \in 0 .. NUM_OF_READINGS - 1
BY FarthestType, CountAssumption DEF Enter

\* A look at the sensors that does not end the state.
LEMMA LooksType ==
  ASSUME TypeOK, held <= consecReadings, NEW d \in 0 .. MaxStep, NEW holds \in BOOLEAN,
         Looks(holds, d)
  PROVE  /\ state' \in States
         /\ turned' \in 0 .. Farthest
         /\ held' \in 0 .. NUM_OF_READINGS - 1
         /\ consecReadings' \in 0 .. NUM_OF_READINGS - 1
<1>1. state' \in States /\ turned' \in 0 .. Farthest
  BY RemainType DEF Looks
<1>2. consecReadings' \in 0 .. NUM_OF_READINGS - 1
  BY ReadingsType DEF Looks
<1>3. held' \in 0 .. NUM_OF_READINGS - 1
  BY CountAssumption DEF Looks, TypeOK, Enough
<1> QED
  BY <1>1, <1>2, <1>3

\* A look at the sensors that ends it.
LEMMA HoldsLongType ==
  ASSUME TypeOK, NEW holds, NEW s \in States, HoldsLong(holds, s)
  PROVE  /\ state' \in States
         /\ turned' \in 0 .. Farthest
         /\ held' \in 0 .. NUM_OF_READINGS - 1
         /\ consecReadings' \in 0 .. NUM_OF_READINGS - 1
BY EnterType, ReadingsType DEF HoldsLong

\* Adding an angle to the sum, and dividing it, give integers.
LEMMA AngleType ==
  ASSUME TypeOK, NEW angle \in Angles, CountAngle
  PROVE  /\ laneRecommendation + angle \in Int
         /\ (laneRecommendation + angle) \div AverageFrames \in Int
         /\ average_counter' \in 0 .. AverageFrames
<1>1. laneRecommendation + angle \in Int
  BY InputAssumption DEF TypeOK
<1>2. AverageFrames \in Nat \ {0}
  BY CountAssumption
<1>3. (laneRecommendation + angle) \div AverageFrames \in Int
  BY <1>1, <1>2
<1>4. average_counter' \in 0 .. AverageFrames
  BY <1>2 DEF TypeOK, CountAngle
<1> QED
  BY <1>1, <1>3, <1>4

-----------------------------------------------------------------------------
(* Every call keeps the types.                                             *)
LEMMA TypeStep ==
  ASSUME TypeOK, held <= consecReadings, NEW d \in 0 .. MaxStep, ObstacleDetection(d)
  PROVE  TypeOK'
<1>1. idle_frame_counter' \in 0 .. MaxFrames - 1
  BY IdleType
     DEF ObstacleDetection, StartLeftSwitch, FollowLane, TurnLeft, TurnedLeft, CornerPassed,
         SearchCorner, AdjustLeft, AdjustedLeft, EndDetected, SearchEnd, EndReached, ReachEnd,
         AngleComputed, ComputeAngle, SwitchedRight, SwitchRight, AdjustedRight, AdjustRight,
         Finds, Steer, Done
<1>2. CASE StartLeftSwitch(d)
  BY <1>2, <1>1, PathType, HoldsLongType, LengthAssumption
     DEF TypeOK, StartLeftSwitch, States, ToLeft, Besides, LeavesSteering, lane, average,
         control
<1>3. CASE FollowLane(d)
  BY <1>3, <1>1, PathType, LooksType, RemainType
     DEF TypeOK, FollowLane, Detected, EndOfObstacle, RightLaneClear, Grows, SetPath,
         LeavesSteering, lane, average, control
<1>4. CASE TurnLeft(d)
  BY <1>4, <1>1, PathType, RemainType DEF TypeOK, TurnLeft, Steer, lane, average, control
<1>5. CASE TurnedLeft(d)
  BY <1>5, <1>1, PathType, EnterType
     DEF TypeOK, TurnedLeft, Done, States, ToLeft, ToRight, Besides, lane, average, control
<1>6. CASE CornerPassed(d)
  BY <1>6, <1>1, PathType, HoldsLongType
     DEF TypeOK, CornerPassed, States, ToLeft, Besides, lane, average, control
<1>7. CASE SearchCorner(d)
  <2>1. PICK us_fr \in Readings :
           IF 0 < us_fr /\ us_fr <= min_us_fr
           THEN min_us_fr' = us_fr /\ Remain(d) /\ held' = 0 /\ UNCHANGED consecReadings
           ELSE Looks(Grows(us_fr), d) /\ UNCHANGED min_us_fr
    BY <1>7 DEF SearchCorner
  <2>2. us_fr \in Int /\ min_us_fr \in 0 .. OVT_TRIGGER /\ OVT_TRIGGER \in Nat
    BY InputAssumption, LengthAssumption DEF TypeOK
  <2>3. Grows(us_fr) \in BOOLEAN
    BY DEF Grows
  <2>4. /\ state' \in States /\ turned' \in 0 .. Farthest
        /\ held' \in 0 .. NUM_OF_READINGS - 1
        /\ consecReadings' \in 0 .. NUM_OF_READINGS - 1
    BY <2>1, <2>3, LooksType, RemainType, CountAssumption DEF TypeOK
  <2>5. min_us_fr' \in 0 .. OVT_TRIGGER
    BY <2>1, <2>2
  <2>6. gone' \in 0 .. Farthest
    BY <1>7, PathType DEF SearchCorner
  <2> QED
    BY <1>7, <1>1, <2>4, <2>5, <2>6 DEF TypeOK, SearchCorner, lane, average
<1>8. CASE AdjustLeft(d)
  BY <1>8, <1>1, PathType, RemainType DEF TypeOK, AdjustLeft, Steer, lane, average, control
<1>9. CASE AdjustedLeft(d)
  BY <1>9, <1>1, PathType, EnterType
     DEF TypeOK, AdjustedLeft, Done, States, ToLeft, ToRight, Besides, lane, average, control
<1>10. CASE EndDetected(d)
  BY <1>10, <1>1, PathType, HoldsLongType
     DEF TypeOK, EndDetected, States, ToLeft, Besides, lane, average, control
<1>11. CASE SearchEnd(d)
  BY <1>11, <1>1, PathType, LooksType, RemainType
     DEF TypeOK, SearchEnd, Detected, EndOfObstacle, RightLaneClear, Grows, SetPath, lane,
         average, control
<1>12. CASE EndReached(d)
  BY <1>12, <1>1, PathType, HoldsLongType
     DEF TypeOK, EndReached, States, ToLeft, Besides, lane, average, control
<1>13. CASE ReachEnd(d)
  BY <1>13, <1>1, PathType, LooksType, RemainType
     DEF TypeOK, ReachEnd, Detected, EndOfObstacle, RightLaneClear, Grows, SetPath, lane,
         average, control
<1>14. CASE AngleComputed(d)
  BY <1>14, <1>1, PathType, EnterType, AngleType
     DEF TypeOK, AngleComputed, States, ToRight, lane, average, control
<1>15. CASE ComputeAngle(d)
  BY <1>15, <1>1, PathType, RemainType, AngleType
     DEF TypeOK, ComputeAngle, lane, average, control
<1>16. CASE SwitchedRight(d)
  BY <1>16, <1>1, PathType, EnterType
     DEF TypeOK, SwitchedRight, Done, States, ToLeft, ToRight, Besides, lane, average, control
<1>17. CASE SwitchRight(d)
  BY <1>17, <1>1, PathType, RemainType DEF TypeOK, SwitchRight, Steer, lane, average, control
<1>18. CASE AdjustedRight(d)
  <2>1. gone' \in 0 .. Farthest
    BY <1>18, PathType DEF AdjustedRight
  <2>2. average_counter' \in 0 .. AverageFrames /\ laneRecommendation' \in Int
    BY <1>18, CountAssumption DEF AdjustedRight
  <2>3. /\ state' \in States /\ turned' \in 0 .. Farthest
        /\ held' \in 0 .. NUM_OF_READINGS - 1
    BY <1>18, EnterType DEF AdjustedRight, Done, States
  <2> QED
    BY <1>18, <1>1, <2>1, <2>2, <2>3 DEF TypeOK, AdjustedRight, Done
<1>19. CASE AdjustRight(d)
  BY <1>19, <1>1, PathType, RemainType DEF TypeOK, AdjustRight, Steer, lane, average, control
<1> QED
  BY <1>2, <1>3, <1>4, <1>5, <1>6, <1>7, <1>8, <1>9, <1>10, <1>11, <1>12, <1>13, <1>14, <1>15,
     <1>16, <1>17, <1>18, <1>19
     DEF ObstacleDetection

-----------------------------------------------------------------------------
(* Which state a call finds, and which it leaves.                          *)

\* A call in the middle of an overtaking was not preceded by a reset.
LEMMA FoundState ==
  ASSUME NEW s \in States \ {"FREE_LANE"}, NEW d, Finds(s, d)
  PROVE  state = s /\ ~Resets(d) /\ ~GivesUp(d)
BY DEF Finds, GivesUp

\* A state that stays is the one found.
LEMMA StateStays ==
  ASSUME NEW s \in States, NEW d, Finds(s, d), Remain(d)
  PROVE  /\ state' = s
         /\ turned' = IF s \in Legs THEN Capped(turned + d) ELSE 0
BY DEF Finds, Remain, GivesUp, Legs, ToRight

(* A call finds state s and leaves it so, counts the path in it, or moves on. *)
Stays(s, d) == state = s /\ state' = s /\ ~Resets(d) /\ turned' = 0
Steers(s, d) == state = s /\ state' = s /\ ~Resets(d) /\ turned' = Capped(turned + d)
Moves(s, t, d) == state = s /\ state' = t /\ ~Resets(d) /\ turned' = 0 /\ held' = 0

USE DEF Stays, Steers, Moves

\* The states that the actions find and leave.
LEMMA Transitions ==
  ASSUME NEW d, ObstacleDetection(d)
  PROVE
    /\ StartLeftSwitch(d) => state' = "INIT_LEFT_SWITCH" /\ turned' = 0 /\ held' = 0
    /\ FollowLane(d) => state' = "FREE_LANE" /\ turned' = 0
    /\ TurnLeft(d) => Steers("INIT_LEFT_SWITCH", d)
    /\ TurnedLeft(d) => Moves("INIT_LEFT_SWITCH", "LEFT_SWITCH", d)
    /\ CornerPassed(d) => Moves("LEFT_SWITCH", "ADJUST_LEFT_SWITCH", d)
    /\ SearchCorner(d) => Stays("LEFT_SWITCH", d)
    /\ AdjustLeft(d) => Steers("ADJUST_LEFT_SWITCH", d)
    /\ AdjustedLeft(d) => Moves("ADJUST_LEFT_SWITCH", "SEARCH_END", d)
    /\ EndDetected(d) => Moves("SEARCH_END", "REACH_END", d)
    /\ SearchEnd(d) => Stays("SEARCH_END", d)
    /\ EndReached(d) => Moves("REACH_END", "COMPUTE_ANGLE", d)
    /\ ReachEnd(d) => Stays("REACH_END", d)
    /\ AngleComputed(d) => Moves("COMPUTE_ANGLE", "RIGHT_SWITCH", d)
    /\ ComputeAngle(d) => Stays("COMPUTE_ANGLE", d)
    /\ SwitchedRight(d) => Moves("RIGHT_SWITCH", "ADJUST_RIGHT_SWITCH", d)
    /\ SwitchRight(d) => Steers("RIGHT_SWITCH", d)
    /\ AdjustedRight(d) => Moves("ADJUST_RIGHT_SWITCH", "FREE_LANE", d)
    /\ AdjustRight(d) => Steers("ADJUST_RIGHT_SWITCH", d)
<1>s. States =
        {"FREE_LANE", "INIT_LEFT_SWITCH", "LEFT_SWITCH", "ADJUST_LEFT_SWITCH", "SEARCH_END",
         "REACH_END", "COMPUTE_ANGLE", "RIGHT_SWITCH", "ADJUST_RIGHT_SWITCH"}
  BY DEF States, ToLeft, Besides, ToRight
<1>1. ASSUME StartLeftSwitch(d) PROVE state' = "INIT_LEFT_SWITCH" /\ turned' = 0 /\ held' = 0
  BY <1>1, <1>s, FoundState DEF StartLeftSwitch, HoldsLong, Enter
<1>2. ASSUME FollowLane(d) PROVE state' = "FREE_LANE" /\ turned' = 0
  BY <1>2, <1>s, FoundState, StateStays DEF FollowLane, Looks, Legs, ToRight
<1>3. ASSUME TurnLeft(d) PROVE Steers("INIT_LEFT_SWITCH", d)
  BY <1>3, <1>s, FoundState, StateStays DEF TurnLeft, Steer, Legs, ToRight
<1>4. ASSUME TurnedLeft(d) PROVE Moves("INIT_LEFT_SWITCH", "LEFT_SWITCH", d)
  BY <1>4, <1>s, FoundState DEF TurnedLeft, Done, Enter
<1>5. ASSUME CornerPassed(d) PROVE Moves("LEFT_SWITCH", "ADJUST_LEFT_SWITCH", d)
  BY <1>5, <1>s, FoundState DEF CornerPassed, HoldsLong, Enter
<1>6. ASSUME SearchCorner(d) PROVE Stays("LEFT_SWITCH", d)
  <2>1. Finds("LEFT_SWITCH", d) /\ Remain(d)
    BY <1>6 DEF SearchCorner, Looks
  <2> QED
    BY <2>1, <1>s, FoundState, StateStays DEF Legs, ToRight
<1>7. ASSUME AdjustLeft(d) PROVE Steers("ADJUST_LEFT_SWITCH", d)
  BY <1>7, <1>s, FoundState, StateStays DEF AdjustLeft, Steer, Legs, ToRight
<1>8. ASSUME AdjustedLeft(d) PROVE Moves("ADJUST_LEFT_SWITCH", "SEARCH_END", d)
  BY <1>8, <1>s, FoundState DEF AdjustedLeft, Done, Enter
<1>9. ASSUME EndDetected(d) PROVE Moves("SEARCH_END", "REACH_END", d)
  BY <1>9, <1>s, FoundState DEF EndDetected, HoldsLong, Enter
<1>10. ASSUME SearchEnd(d) PROVE Stays("SEARCH_END", d)
  BY <1>10, <1>s, FoundState, StateStays DEF SearchEnd, Looks, Legs, ToRight
<1>11. ASSUME EndReached(d) PROVE Moves("REACH_END", "COMPUTE_ANGLE", d)
  BY <1>11, <1>s, FoundState DEF EndReached, HoldsLong, Enter
<1>12. ASSUME ReachEnd(d) PROVE Stays("REACH_END", d)
  BY <1>12, <1>s, FoundState, StateStays DEF ReachEnd, Looks, Legs, ToRight
<1>13. ASSUME AngleComputed(d) PROVE Moves("COMPUTE_ANGLE", "RIGHT_SWITCH", d)
  BY <1>13, <1>s, FoundState DEF AngleComputed, Enter
<1>14. ASSUME ComputeAngle(d) PROVE Stays("COMPUTE_ANGLE", d)
  BY <1>14, <1>s, FoundState, StateStays DEF ComputeAngle, Legs, ToRight
<1>15. ASSUME SwitchedRight(d) PROVE Moves("RIGHT_SWITCH", "ADJUST_RIGHT_SWITCH", d)
  BY <1>15, <1>s, FoundState DEF SwitchedRight, Done, Enter
<1>16. ASSUME SwitchRight(d) PROVE Steers("RIGHT_SWITCH", d)
  BY <1>16, <1>s, FoundState, StateStays DEF SwitchRight, Steer, Legs, ToRight
<1>17. ASSUME AdjustedRight(d) PROVE Moves("ADJUST_RIGHT_SWITCH", "FREE_LANE", d)
  BY <1>17, <1>s, FoundState DEF AdjustedRight, Done, Enter
<1>18. ASSUME AdjustRight(d) PROVE Steers("ADJUST_RIGHT_SWITCH", d)
  BY <1>18, <1>s, FoundState, StateStays DEF AdjustRight, Steer, Legs, ToRight
<1> QED
  BY <1>1, <1>2, <1>3, <1>4, <1>5, <1>6, <1>7, <1>8, <1>9, <1>10, <1>11, <1>12, <1>13, <1>14,
     <1>15, <1>16, <1>17, <1>18

-----------------------------------------------------------------------------
(* Every call keeps the parts of the invariant.                            *)

\* The control values fit the state that is entered.
LEMMA ControlStep ==
  ASSUME TypeOK, ControlFitsManoeuvre, ControlSet, NEW d \in 0 .. MaxStep, ObstacleDetection(d)
  PROVE  ControlFitsManoeuvre' /\ ControlSet'
<1>1. CASE StartLeftSwitch(d)
  BY <1>1, Transitions
     DEF ControlFitsManoeuvre, ToLeft, Besides, ToRight, StartLeftSwitch, lane, control,
         ControlSet, SetPath
<1>2. CASE FollowLane(d)
  BY <1>2, Transitions
     DEF ControlFitsManoeuvre, ToLeft, Besides, ToRight, FollowLane, lane, control, ControlSet
<1>3. CASE TurnLeft(d)
  BY <1>3, Transitions
     DEF ControlFitsManoeuvre, ToLeft, Besides, ToRight, TurnLeft, Steer, lane, control,
         ControlSet
<1>4. CASE TurnedLeft(d)
  <2>1. gone > 0
    BY <1>4, StepAssumption, LengthAssumption DEF TurnedLeft, Done, TypeOK
  <2> QED
    BY <1>4, <2>1, Transitions DEF ControlFitsManoeuvre, ControlSet, ToLeft, Besides, ToRight,
       TurnedLeft, Done, lane
<1>5. CASE CornerPassed(d)
  BY <1>5, Transitions
     DEF ControlFitsManoeuvre, ToLeft, Besides, ToRight, CornerPassed, lane, control,
         ControlSet
<1>6. CASE SearchCorner(d)
  BY <1>6, Transitions
     DEF ControlFitsManoeuvre, ToLeft, Besides, ToRight, SearchCorner, lane, control,
         ControlSet
<1>7. CASE AdjustLeft(d)
  BY <1>7, Transitions
     DEF ControlFitsManoeuvre, ToLeft, Besides, ToRight, AdjustLeft, Steer, lane, control,
         ControlSet
<1>8. CASE AdjustedLeft(d)
  BY <1>8, Transitions
     DEF ControlFitsManoeuvre, ToLeft, Besides, ToRight, AdjustedLeft, Done, lane, control,
         ControlSet
<1>9. CASE EndDetected(d)
  BY <1>9, Transitions
     DEF ControlFitsManoeuvre, ToLeft, Besides, ToRight, EndDetected, lane, control,
         ControlSet
<1>10. CASE SearchEnd(d)
  BY <1>10, Transitions
     DEF ControlFitsManoeuvre, ToLeft, Besides, ToRight, SearchEnd, lane, control, ControlSet
<1>11. CASE EndReached(d)
  BY <1>11, Transitions
     DEF ControlFitsManoeuvre, ToLeft, Besides, ToRight, EndReached, lane, control, ControlSet
<1>12. CASE ReachEnd(d)
  BY <1>12, Transitions
     DEF ControlFitsManoeuvre, ToLeft, Besides, ToRight, ReachEnd, lane, control, ControlSet
<1>13. CASE AngleComputed(d)
  <2>1. isOverridingControls' = TRUE /\ UNCHANGED <<leftLane, control>>
    BY <1>13 DEF AngleComputed
  <2> QED
    BY <1>13, <2>1, Transitions
       DEF ControlFitsManoeuvre, ControlSet, ToLeft, Besides, ToRight, control
<1>14. CASE ComputeAngle(d)
  BY <1>14, Transitions
     DEF ControlFitsManoeuvre, ToLeft, Besides, ToRight, ComputeAngle, lane, control,
         ControlSet
<1>15. CASE SwitchedRight(d)
  BY <1>15, Transitions
     DEF ControlFitsManoeuvre, ToLeft, Besides, ToRight, SwitchedRight, Done, lane, control,
         ControlSet
<1>16. CASE SwitchRight(d)
  BY <1>16, Transitions
     DEF ControlFitsManoeuvre, ToLeft, Besides, ToRight, SwitchRight, Steer, lane, control,
         ControlSet
<1>17. CASE AdjustedRight(d)
  BY <1>17, Transitions
     DEF ControlFitsManoeuvre, ToLeft, Besides, ToRight, AdjustedRight, Done, lane, control,
         ControlSet
<1>18. CASE AdjustRight(d)
  BY <1>18, Transitions
     DEF ControlFitsManoeuvre, ToLeft, Besides, ToRight, AdjustRight, Steer, lane, control,
         ControlSet
<1> QED
  BY <1>1, <1>2, <1>3, <1>4, <1>5, <1>6, <1>7, <1>8, <1>9, <1>10, <1>11, <1>12, <1>13, <1>14,
     <1>15, <1>16, <1>17, <1>18
     DEF ObstacleDetection

\* The readings are counted as the frames were.
LEMMA ReadingsStep ==
  ASSUME TypeOK, ReadingsCounted, NEW d \in 0 .. MaxStep, ObstacleDetection(d)
  PROVE  ReadingsCounted'
<1>1. CASE StartLeftSwitch(d)
  BY <1>1, Transitions, CountAssumption
     DEF ReadingsCounted, StartLeftSwitch, HoldsLong, CountReading, Enough, TypeOK
<1>2. CASE FollowLane(d)
  BY <1>2, Transitions, CountAssumption
     DEF ReadingsCounted, FollowLane, Looks, CountReading, ResetReadings, Enough, TypeOK,
         GivesUp
<1>3. CASE TurnLeft(d)
  BY <1>3, Transitions, CountAssumption DEF ReadingsCounted, TurnLeft, Steer, TypeOK
<1>4. CASE TurnedLeft(d)
  BY <1>4, Transitions, CountAssumption DEF ReadingsCounted, TurnedLeft, Done, TypeOK
<1>5. CASE CornerPassed(d)
  BY <1>5, Transitions, CountAssumption
     DEF ReadingsCounted, CornerPassed, HoldsLong, CountReading, Enough, TypeOK
<1>6. CASE SearchCorner(d)
  BY <1>6, Transitions, CountAssumption
     DEF ReadingsCounted, SearchCorner, Looks, CountReading, ResetReadings, Enough, TypeOK,
         GivesUp
<1>7. CASE AdjustLeft(d)
  BY <1>7, Transitions, CountAssumption DEF ReadingsCounted, AdjustLeft, Steer, TypeOK
<1>8. CASE AdjustedLeft(d)
  <2>1. consecReadings' = consecReadings
    BY <1>8 DEF AdjustedLeft, Done
  <2> QED
    BY <1>8, <2>1, Transitions DEF ReadingsCounted, TypeOK
<1>9. CASE EndDetected(d)
  BY <1>9, Transitions, CountAssumption
     DEF ReadingsCounted, EndDetected, HoldsLong, CountReading, Enough, TypeOK
<1>10. CASE SearchEnd(d)
  BY <1>10, Transitions, CountAssumption
     DEF ReadingsCounted, SearchEnd, Looks, CountReading, ResetReadings, Enough, TypeOK,
         GivesUp
<1>11. CASE EndReached(d)
  BY <1>11, Transitions, CountAssumption
     DEF ReadingsCounted, EndReached, HoldsLong, CountReading, Enough, TypeOK
<1>12. CASE ReachEnd(d)
  BY <1>12, Transitions, CountAssumption
     DEF ReadingsCounted, ReachEnd, Looks, CountReading, ResetReadings, Enough, TypeOK,
         GivesUp
<1>13. CASE AngleComputed(d)
  BY <1>13, Transitions, CountAssumption DEF ReadingsCounted, AngleComputed, TypeOK
<1>14. CASE ComputeAngle(d)
  BY <1>14, Transitions, CountAssumption DEF ReadingsCounted, ComputeAngle, TypeOK
<1>15. CASE SwitchedRight(d)
  BY <1>15, Transitions, CountAssumption DEF ReadingsCounted, SwitchedRight, Done, TypeOK
<1>16. CASE SwitchRight(d)
  BY <1>16, Transitions, CountAssumption DEF ReadingsCounted, SwitchRight, Steer, TypeOK
<1>17. CASE AdjustedRight(d)
  <2>1. consecReadings' = consecReadings
    BY <1>17 DEF AdjustedRight, Done
  <2> QED
    BY <1>17, <2>1, Transitions DEF ReadingsCounted, TypeOK
<1>18. CASE AdjustRight(d)
  BY <1>18, Transitions, CountAssumption DEF ReadingsCounted, AdjustRight, Steer, TypeOK
<1> QED
  BY <1>1, <1>2, <1>3, <1>4, <1>5, <1>6, <1>7, <1>8, <1>9, <1>10, <1>11, <1>12, <1>13, <1>14,
     <1>15, <1>16, <1>17, <1>18
     DEF ObstacleDetection

\* The legs are measured from their start.
LEMMA LegsStep ==
  ASSUME TypeOK, LegsMeasured, AngleFramesCounted, NEW d \in 0 .. MaxStep, ObstacleDetection(d)
  PROVE  LegsMeasured'
<1>1. CASE StartLeftSwitch(d)
  BY <1>1, Transitions DEF LegsMeasured, Legs, ToRight, StartLeftSwitch, SetPath
<1>2. CASE FollowLane(d)
  BY <1>2, Transitions DEF LegsMeasured, Legs, ToRight
<1>3. CASE TurnLeft(d)
  <2>1. gone = turned /\ gone' = Capped(gone + d)
    BY <1>3, Transitions DEF LegsMeasured, Legs, ToRight, TurnLeft, Steer, KeepPath
  <2> QED
    BY <1>3, <2>1, Transitions DEF LegsMeasured
<1>4. CASE TurnedLeft(d)
  BY <1>4, Transitions DEF LegsMeasured, Legs, ToRight
<1>5. CASE CornerPassed(d)
  BY <1>5, Transitions DEF LegsMeasured, Legs, ToRight, CornerPassed, SetPath
<1>6. CASE SearchCorner(d)
  BY <1>6, Transitions DEF LegsMeasured, Legs, ToRight
<1>7. CASE AdjustLeft(d)
  <2>1. gone = turned /\ gone' = Capped(gone + d)
    BY <1>7, Transitions DEF LegsMeasured, Legs, ToRight, AdjustLeft, Steer, KeepPath
  <2> QED
    BY <1>7, <2>1, Transitions DEF LegsMeasured
<1>8. CASE AdjustedLeft(d)
  BY <1>8, Transitions DEF LegsMeasured, Legs, ToRight
<1>9. CASE EndDetected(d)
  BY <1>9, Transitions DEF LegsMeasured, Legs, ToRight
<1>10. CASE SearchEnd(d)
  BY <1>10, Transitions DEF LegsMeasured, Legs, ToRight
<1>11. CASE EndReached(d)
  BY <1>11, Transitions DEF LegsMeasured, Legs, ToRight
<1>12. CASE ReachEnd(d)
  BY <1>12, Transitions DEF LegsMeasured, Legs, ToRight
<1>13. CASE AngleComputed(d)
  <2>0. MaxStep \in Nat
    BY LengthAssumption
  <2>1. /\ gone + d \in Nat /\ gone \in Nat
        /\ AverageFrames \in Nat \ {0} /\ average_counter \in 0 .. AverageFrames
    BY LengthAssumption, CountAssumption, FarthestType DEF TypeOK
  <2>2. gone' <= gone + d /\ gone' \in Nat
    BY <1>13, <2>1, FarthestType DEF AngleComputed, KeepPath, Capped
  <2>3. /\ gone <= average_counter * MaxStep
        /\ average_counter = AverageFrames => gone = 0
        /\ average_counter + 1 >= AverageFrames
    BY <1>13, Transitions DEF AngleFramesCounted, AngleComputed, LastAngle
  <2>4. ASSUME average_counter = AverageFrames PROVE gone + d <= AverageFrames * MaxStep
    <3>1. gone + d <= MaxStep
      BY <2>3, <2>4, LengthAssumption
    <3>2. MaxStep <= AverageFrames * MaxStep
      <4>1. 1 * MaxStep <= AverageFrames * MaxStep /\ 1 * MaxStep = MaxStep
        BY <2>1, MoreFrames, LengthAssumption
      <4> QED
        BY <4>1
    <3> QED
      BY <3>1, <3>2, <2>0, <2>1, FarthestType
  <2>5. ASSUME average_counter # AverageFrames PROVE gone + d <= AverageFrames * MaxStep
    <3>1. average_counter + 1 = AverageFrames
      BY <2>1, <2>3, <2>5
    <3>2. average_counter \in Nat /\ gone <= average_counter * MaxStep
      BY <2>1, <2>3
    <3>3. gone + d <= (average_counter + 1) * MaxStep
      BY <2>1, <3>2, OneMoreFrame
    <3> QED
      BY <3>1, <3>3
  <2>6. gone + d <= AverageFrames * MaxStep
    BY <2>4, <2>5
  <2> DEFINE k == AverageFrames * MaxStep
  <2>7. k \in Nat /\ gone + d <= k
    BY <2>6, FarthestType
  <2> HIDE DEF k
  <2>8. state' = "RIGHT_SWITCH" /\ turned' = 0
    BY <1>13, Transitions
  <2>9. turned' <= gone' /\ gone' <= turned' + k
    BY <2>1, <2>2, <2>7, <2>8
  <2> QED
    BY <2>8, <2>9 DEF LegsMeasured, Legs, ToRight, k
<1>14. CASE ComputeAngle(d)
  BY <1>14, Transitions DEF LegsMeasured, Legs, ToRight
<1>15. CASE SwitchedRight(d)
  BY <1>15, Transitions DEF LegsMeasured, Legs, ToRight, SwitchedRight, SetPath
<1>16. CASE SwitchRight(d)
  <2>1. /\ turned \in Nat /\ gone \in Nat /\ d \in Nat
        /\ turned <= gone /\ gone <= turned + AverageFrames * MaxStep
    BY <1>16, Transitions, LengthAssumption, FarthestType DEF LegsMeasured, TypeOK
  <2>2. gone' = Capped(gone + d) /\ turned' = Capped(turned + d)
    BY <1>16, Transitions DEF SwitchRight, Steer, KeepPath
  <2> DEFINE k == AverageFrames * MaxStep
  <2>3. k \in Nat /\ gone <= turned + k
    BY <2>1, FarthestType
  <2> HIDE DEF k
  <2>4. /\ turned + d \in Nat /\ gone + d \in Nat
        /\ turned + d <= gone + d /\ gone + d <= (turned + d) + k
    BY <2>1, <2>3
  <2>5. turned' <= gone' /\ gone' <= turned' + k
    BY <2>2, <2>3, <2>4, CappedGap
  <2> QED
    BY <1>16, <2>5, Transitions DEF LegsMeasured, k
<1>17. CASE AdjustedRight(d)
  BY <1>17, Transitions DEF LegsMeasured, Legs, ToRight
<1>18. CASE AdjustRight(d)
  <2>1. gone = turned /\ gone' = Capped(gone + d)
    BY <1>18, Transitions DEF LegsMeasured, Legs, ToRight, AdjustRight, Steer, KeepPath
  <2> QED
    BY <1>18, <2>1, Transitions DEF LegsMeasured
<1> QED
  BY <1>1, <1>2, <1>3, <1>4, <1>5, <1>6, <1>7, <1>8, <1>9, <1>10, <1>11, <1>12, <1>13, <1>14,
     <1>15, <1>16, <1>17, <1>18
     DEF ObstacleDetection

\* The frames that average the angle are counted.
LEMMA AngleStep ==
  ASSUME TypeOK, AngleFramesCounted, NEW d \in 0 .. MaxStep, ObstacleDetection(d)
  PROVE  AngleFramesCounted'
<1>1. CASE StartLeftSwitch(d)
  BY <1>1, Transitions DEF AngleFramesCounted
<1>2. CASE FollowLane(d)
  BY <1>2, Transitions DEF AngleFramesCounted
<1>3. CASE TurnLeft(d)
  BY <1>3, Transitions DEF AngleFramesCounted
<1>4. CASE TurnedLeft(d)
  BY <1>4, Transitions DEF AngleFramesCounted
<1>5. CASE CornerPassed(d)
  BY <1>5, Transitions DEF AngleFramesCounted
<1>6. CASE SearchCorner(d)
  BY <1>6, Transitions DEF AngleFramesCounted
<1>7. CASE AdjustLeft(d)
  BY <1>7, Transitions DEF AngleFramesCounted
<1>8. CASE AdjustedLeft(d)
  BY <1>8, Transitions DEF AngleFramesCounted
<1>9. CASE EndDetected(d)
  BY <1>9, Transitions DEF AngleFramesCounted
<1>10. CASE SearchEnd(d)
  BY <1>10, Transitions DEF AngleFramesCounted
<1>11. CASE EndReached(d)
  <2>1. gone' = 0 /\ average_counter' = average_counter /\ average_counter \in Nat
    BY <1>11, CountAssumption DEF EndReached, SetPath, average, TypeOK
  <2>2. 0 * MaxStep <= average_counter * MaxStep /\ 0 * MaxStep = 0
    BY <2>1, MoreFrames, LengthAssumption
  <2> QED
    BY <2>1, <2>2 DEF AngleFramesCounted
<1>12. CASE ReachEnd(d)
  BY <1>12, Transitions DEF AngleFramesCounted
<1>13. CASE AngleComputed(d)
  BY <1>13, Transitions DEF AngleFramesCounted
<1>14. CASE ComputeAngle(d)
  <2>1. /\ gone + d \in Nat /\ gone \in Nat
        /\ AverageFrames \in Nat \ {0} /\ average_counter \in 0 .. AverageFrames
    BY LengthAssumption, CountAssumption, FarthestType DEF TypeOK
  <2>2. gone' <= gone + d /\ gone' \in Nat
    BY <1>14, <2>1, FarthestType DEF ComputeAngle, KeepPath, Capped
  <2>3. /\ gone <= average_counter * MaxStep
        /\ average_counter' = average_counter + 1
        /\ average_counter' # AverageFrames
    BY <1>14, <2>1, Transitions DEF AngleFramesCounted, ComputeAngle, LastAngle, CountAngle
  <2>4. gone + d <= (average_counter + 1) * MaxStep /\ (average_counter + 1) * MaxStep \in Nat
    BY <2>1, <2>3, OneMoreFrame
  <2>5. gone' <= average_counter' * MaxStep
    BY <2>1, <2>2, <2>3, <2>4
  <2> QED
    BY <2>3, <2>5 DEF AngleFramesCounted
<1>15. CASE SwitchedRight(d)
  BY <1>15, Transitions DEF AngleFramesCounted
<1>16. CASE SwitchRight(d)
  BY <1>16, Transitions DEF AngleFramesCounted
<1>17. CASE AdjustedRight(d)
  BY <1>17, Transitions DEF AngleFramesCounted
<1>18. CASE AdjustRight(d)
  BY <1>18, Transitions DEF AngleFramesCounted
<1> QED
  BY <1>1, <1>2, <1>3, <1>4, <1>5, <1>6, <1>7, <1>8, <1>9, <1>10, <1>11, <1>12, <1>13, <1>14,
     <1>15, <1>16, <1>17, <1>18
     DEF ObstacleDetection

-----------------------------------------------------------------------------
(* The theorems.                                                           *)

\* The invariant holds at first ...
LEMMA InvInit == Init => IInv
<1> SUFFICES ASSUME Init PROVE IInv
  OBVIOUS
<1>1. TypeOK
  <2>1. OVT_TRIGGER \in Nat /\ Farthest \in Nat
    BY LengthAssumption, FarthestType
  <2>2. {NUM_OF_READINGS, AverageFrames, MaxFrames} \subseteq Nat \ {0}
    BY CountAssumption
  <2>3. /\ consecReadings \in 0 .. NUM_OF_READINGS - 1 /\ held \in 0 .. NUM_OF_READINGS - 1
        /\ idle_frame_counter \in 0 .. MaxFrames - 1
        /\ average_counter \in 0 .. AverageFrames
    BY <2>2 DEF Init
  <2>4. min_us_fr \in 0 .. OVT_TRIGGER /\ gone \in 0 .. Farthest /\ turned \in 0 .. Farthest
    BY <2>1 DEF Init
  <2>5. isOverridingControls \in BOOLEAN /\ leftLane \in BOOLEAN
    BY DEF Init
  <2>6. state \in States /\ steering \in {"straight", "left", "right"}
    BY DEF Init, States
  <2>7. laneRecommendation \in Int /\ speed \in {0, 1} /\ flashing \in SUBSET {"left", "right"}
    BY DEF Init
  <2> QED
    BY <2>3, <2>4, <2>5, <2>6, <2>7 DEF TypeOK
<1>2. ControlFitsManoeuvre /\ LegsMeasured /\ ReadingsCounted /\ AngleFramesCounted /\ ControlSet
  BY
     DEF Init, ControlFitsManoeuvre, LegsMeasured, ReadingsCounted, AngleFramesCounted,
         ControlSet,
         ToLeft, Besides, ToRight, Legs
<1> QED
  BY <1>1, <1>2 DEF IInv

\* ... and every step keeps it.
LEMMA InvStep == IInv /\ [Next]_vars => IInv'
<1> SUFFICES ASSUME IInv, [Next]_vars PROVE IInv'
  OBVIOUS
<1>1. CASE Next
  <2>1. PICK d \in 0 .. MaxStep : ObstacleDetection(d)
    BY <1>1 DEF Next
  <2>2. TypeOK'
    BY <2>1, TypeStep DEF IInv, ReadingsCounted
  <2>3. ControlFitsManoeuvre' /\ ControlSet'
    BY <2>1, ControlStep DEF IInv
  <2>4. ReadingsCounted'
    BY <2>1, ReadingsStep DEF IInv
  <2>5. LegsMeasured'
    BY <2>1, LegsStep DEF IInv
  <2>6. AngleFramesCounted'
    BY <2>1, AngleStep DEF IInv
  <2> QED
    BY <2>2, <2>3, <2>4, <2>5, <2>6 DEF IInv
<1>2. CASE UNCHANGED vars
  BY <1>2 DEF IInv, TypeOK, ControlFitsManoeuvre, LegsMeasured, ReadingsCounted,
              AngleFramesCounted, ControlSet, vars, lane, average, control
<1> QED
  BY <1>1, <1>2

\* The invariant always holds.
THEOREM Invariant == Spec => []IInv
BY InvInit, InvStep, PTL DEF Spec

\* Every variable always has a value of its type.
THEOREM TypeCorrect == Spec => []TypeOK
<1>1. IInv => TypeOK
  BY DEF IInv
<1> QED
  BY Invariant, <1>1, PTL

\* The overtaker's flags and control values fit its state, whatever was given up before.
THEOREM ControlFits == Spec => []ControlFitsManoeuvre
<1>1. IInv => ControlFitsManoeuvre
  BY DEF IInv
<1> QED
  BY Invariant, <1>1, PTL

\* The legs are measured from where they start, the right switch from at most the averaged
\* frames before.
THEOREM LegsAreMeasured == Spec => []LegsMeasured
<1>1. IInv => LegsMeasured
  BY DEF IInv
<1> QED
  BY Invariant, <1>1, PTL

\* The overtaker moves on beside the obstacle only after NUM_OF_READINGS frames in a row.
THEOREM RightSideIsHeld == Spec => RightSideHeld
<1> DEFINE Leaves == (state = "SEARCH_END" /\ state' = "REACH_END")
                       \/ (state = "REACH_END" /\ state' = "COMPUTE_ANGLE")
<1>1. IInv /\ [Next]_vars => (Leaves => held + 1 >= NUM_OF_READINGS)
  <2> SUFFICES ASSUME IInv, [Next]_vars, Leaves PROVE held + 1 >= NUM_OF_READINGS
    OBVIOUS
  <2>1. PICK d \in 0 .. MaxStep : ObstacleDetection(d)
    BY DEF Next, vars
  <2>2. EndDetected(d) \/ EndReached(d)
    BY <2>1, Transitions DEF ObstacleDetection
  <2>3. consecReadings + 1 >= NUM_OF_READINGS
    BY <2>2 DEF EndDetected, EndReached, HoldsLong, Enough
  <2>4. held = consecReadings
    BY DEF IInv, ReadingsCounted
  <2> QED
    BY <2>3, <2>4
<1>2. IInv /\ [Next]_vars => [Leaves => held + 1 >= NUM_OF_READINGS]_vars
  BY <1>1
<1> QED
  BY Invariant, <1>2, PTL DEF Spec, RightSideHeld

-----------------------------------------------------------------------------
(* The overtaker keeps the promise of LaneChange.                          *)

\* The phase of each state.
LEMMA PhaseOf ==
  /\ state = "FREE_LANE" => phase = "lane"
  /\ state \in ToLeft => phase = "toLeft"
  /\ state \in Besides => phase = "besides"
  /\ state \in ToRight => phase = "toRight"
BY DEF phase, ToLeft, Besides, ToRight

\* The phase of each state that is entered.
LEMMA PhaseNext ==
  /\ state' = "FREE_LANE" => phase' = "lane"
  /\ state' \in ToLeft => phase' = "toLeft"
  /\ state' \in Besides => phase' = "besides"
  /\ state' \in ToRight => phase' = "toRight"
BY DEF phase, ToLeft, Besides, ToRight

\* Every call is a step of the promise or leaves it alone.
LEMMA PromiseStep ==
  ASSUME NEW d, ObstacleDetection(d)
  PROVE  [Promise!Next]_(Promise!vars)
<1>1. CASE StartLeftSwitch(d)
  <2>1. isOverridingControls' = TRUE /\ UNCHANGED leftLane
    BY <1>1 DEF StartLeftSwitch
  <2> QED
    BY <1>1, <2>1, Transitions, PhaseOf, PhaseNext
       DEF ToLeft, Besides, ToRight, Promise!Next, Promise!StartLeft
<1>2. CASE FollowLane(d)
  BY <1>2, Transitions, PhaseNext DEF FollowLane, lane, Promise!Next, Promise!GiveUp
<1>3. CASE TurnLeft(d)
  BY <1>3, Transitions, PhaseOf, PhaseNext
     DEF TurnLeft, Steer, ToLeft, Besides, ToRight, lane, Promise!vars
<1>4. CASE TurnedLeft(d)
  BY <1>4, Transitions, PhaseOf, PhaseNext
     DEF TurnedLeft, Done, ToLeft, Besides, ToRight, lane, Promise!vars
<1>5. CASE CornerPassed(d)
  BY <1>5, Transitions, PhaseOf, PhaseNext
     DEF CornerPassed, ToLeft, Besides, ToRight, lane, Promise!vars
<1>6. CASE SearchCorner(d)
  BY <1>6, Transitions, PhaseOf, PhaseNext
     DEF SearchCorner, ToLeft, Besides, ToRight, lane, Promise!vars
<1>7. CASE AdjustLeft(d)
  BY <1>7, Transitions, PhaseOf, PhaseNext
     DEF AdjustLeft, Steer, ToLeft, Besides, ToRight, lane, Promise!vars
<1>8. CASE AdjustedLeft(d)
  <2>1. isOverridingControls' = FALSE /\ leftLane' = TRUE
    BY <1>8 DEF AdjustedLeft
  <2> QED
    BY <1>8, <2>1, Transitions, PhaseOf, PhaseNext
       DEF ToLeft, Besides, ToRight, Promise!Next, Promise!ArriveLeft
<1>9. CASE EndDetected(d)
  BY <1>9, Transitions, PhaseOf, PhaseNext
     DEF EndDetected, ToLeft, Besides, ToRight, lane, Promise!vars
<1>10. CASE SearchEnd(d)
  BY <1>10, Transitions, PhaseOf, PhaseNext
     DEF SearchEnd, ToLeft, Besides, ToRight, lane, Promise!vars
<1>11. CASE EndReached(d)
  BY <1>11, Transitions, PhaseOf, PhaseNext
     DEF EndReached, ToLeft, Besides, ToRight, lane, Promise!vars
<1>12. CASE ReachEnd(d)
  BY <1>12, Transitions, PhaseOf, PhaseNext
     DEF ReachEnd, ToLeft, Besides, ToRight, lane, Promise!vars
<1>13. CASE AngleComputed(d)
  <2>1. isOverridingControls' = TRUE /\ UNCHANGED leftLane
    BY <1>13 DEF AngleComputed
  <2> QED
    BY <1>13, <2>1, Transitions, PhaseOf, PhaseNext
       DEF ToLeft, Besides, ToRight, Promise!Next, Promise!StartRight
<1>14. CASE ComputeAngle(d)
  BY <1>14, Transitions, PhaseOf, PhaseNext
     DEF ComputeAngle, ToLeft, Besides, ToRight, lane, Promise!vars
<1>15. CASE SwitchedRight(d)
  BY <1>15, Transitions, PhaseOf, PhaseNext
     DEF SwitchedRight, Done, ToLeft, Besides, ToRight, lane, Promise!vars
<1>16. CASE SwitchRight(d)
  BY <1>16, Transitions, PhaseOf, PhaseNext
     DEF SwitchRight, Steer, ToLeft, Besides, ToRight, lane, Promise!vars
<1>17. CASE AdjustedRight(d)
  <2>1. isOverridingControls' = FALSE /\ leftLane' = FALSE
    BY <1>17 DEF AdjustedRight
  <2> QED
    BY <1>17, <2>1, Transitions, PhaseOf, PhaseNext
       DEF ToLeft, Besides, ToRight, Promise!Next, Promise!ArriveRight
<1>18. CASE AdjustRight(d)
  BY <1>18, Transitions, PhaseOf, PhaseNext
     DEF AdjustRight, Steer, ToLeft, Besides, ToRight, lane, Promise!vars
<1> QED
  BY <1>1, <1>2, <1>3, <1>4, <1>5, <1>6, <1>7, <1>8, <1>9, <1>10, <1>11, <1>12, <1>13, <1>14,
     <1>15, <1>16, <1>17, <1>18
     DEF ObstacleDetection

\* The overtaker changes lane only under its own control, left and right in turn.
THEOREM ChangesLane == Spec => ChangesLaneAsPromised
<1>1. Init => Promise!Init
  BY PhaseOf DEF Init, Promise!Init
<1>2. [Next]_vars => [Promise!Next]_(Promise!vars)
  <2>1. CASE Next
    BY <2>1, PromiseStep DEF Next
  <2>2. CASE UNCHANGED vars
    BY <2>2 DEF vars, lane, phase, Promise!vars
  <2> QED
    BY <2>1, <2>2
<1> QED
  BY <1>1, <1>2, PTL DEF Spec, ChangesLaneAsPromised, Promise!Spec

\* The promise implies what it is for, whoever keeps it.
THEOREM PromiseFitsFlags == ChangesLaneAsPromised => []Promise!FlagsFitPhase
<1>1. Promise!Init => Promise!FlagsFitPhase
  BY DEF Promise!Init, Promise!FlagsFitPhase
<1>2. Promise!FlagsFitPhase /\ [Promise!Next]_(Promise!vars) => Promise!FlagsFitPhase'
  BY DEF Promise!Next, Promise!StartLeft, Promise!ArriveLeft, Promise!StartRight,
         Promise!ArriveRight, Promise!GiveUp, Promise!vars, Promise!FlagsFitPhase
<1> QED
  BY <1>1, <1>2, PTL DEF ChangesLaneAsPromised, Promise!Spec

-----------------------------------------------------------------------------
(* How long the legs are.                                                  *)

\* The lengths of the legs are lengths, and none of them is capped.
LEMMA LimitType ==
  /\ DistanceToCover \in Nat /\ DistanceToCover < Farthest
  /\ AdjustDistance \in Nat /\ AdjustDistance < Farthest
<1>1. /\ RIGHT_SWITCH_DIST \in Nat /\ RightTurnMore \in Nat /\ LeftTurnLess \in Nat
      /\ INIT_LS_DIST \in Nat /\ ADJUST_L_S_DIST \in Nat /\ ADJUST_R_S_DIST \in Nat
      /\ LeftTurnLess <= RIGHT_SWITCH_DIST
  BY LengthAssumption
<1> DEFINE product == AverageFrames * MaxStep
<1>2. product \in Nat
  BY FarthestType
<1>3. Farthest = INIT_LS_DIST + ADJUST_L_S_DIST + RIGHT_SWITCH_DIST + RightTurnMore
                   + ADJUST_R_S_DIST + product + 1
  BY DEF Farthest
<1> HIDE DEF product
<1> QED
  BY <1>1, <1>2, <1>3 DEF DistanceToCover, AdjustDistance

\* The lengths are positive, so a leg that begins is not too long.
LEMMA LegLimitNat == LegLimit \in Nat
BY LimitType, LengthAssumption DEF LegLimit

\* A leg that steers on within its limit is not driven beyond it.
LEMMA SteersWithin ==
  ASSUME TypeOK, NEW d \in 0 .. MaxStep, NEW limit \in Nat,
         turned <= gone, gone + d <= limit, turned' = Capped(turned + d)
  PROVE  turned' <= limit
<1>1. turned \in Nat /\ gone \in Nat /\ d \in Nat
  BY LengthAssumption, FarthestType DEF TypeOK
<1>2. turned + d \in Nat /\ turned + d <= limit
  BY <1>1
<1>3. Capped(turned + d) <= turned + d
  BY <1>2, FarthestType DEF Capped
<1>4. Capped(turned + d) \in Nat
  BY <1>2, FarthestType DEF Capped
<1> QED
  BY <1>2, <1>3, <1>4

\* The path of a leg is at most what is measured.
LEMMA TurnedWithinGone ==
  ASSUME TypeOK, LegsMeasured, state \in Legs
  PROVE  turned <= gone
BY FarthestType DEF LegsMeasured, TypeOK

\* No call drives a leg beyond its limit.
LEMMA NotTooLongStep ==
  ASSUME IInv, NEW d \in 0 .. MaxStep, ObstacleDetection(d)
  PROVE  NotTooLong'
<1> USE DEF IInv
<1>1. CASE TurnLeft(d)
  <2>1. gone + d <= INIT_LS_DIST /\ state' = "INIT_LEFT_SWITCH"
    BY <1>1, Transitions DEF TurnLeft, Steer
  <2>2. turned' <= INIT_LS_DIST
    BY <1>1, <2>1, Transitions, TurnedWithinGone, SteersWithin, LengthAssumption DEF Legs
  <2> QED
    BY <2>1, <2>2 DEF NotTooLong, LegLimit
<1>2. CASE AdjustLeft(d)
  <2>1. gone + d <= ADJUST_L_S_DIST /\ state' = "ADJUST_LEFT_SWITCH"
    BY <1>2, Transitions DEF AdjustLeft, Steer
  <2>2. turned' <= ADJUST_L_S_DIST
    BY <1>2, <2>1, Transitions, TurnedWithinGone, SteersWithin, LengthAssumption DEF Legs
  <2> QED
    BY <2>1, <2>2 DEF NotTooLong, LegLimit
<1>3. CASE SwitchRight(d)
  <2>1. gone + d <= DistanceToCover /\ state' = "RIGHT_SWITCH"
    BY <1>3, Transitions DEF SwitchRight, Steer
  <2>2. turned' <= DistanceToCover
    BY <1>3, <2>1, Transitions, TurnedWithinGone, SteersWithin, LimitType DEF Legs, ToRight
  <2>3. DistanceToCover' = DistanceToCover
    BY <1>3 DEF SwitchRight, Steer, average, DistanceToCover, BendsRight, BendsLeft
  <2>4. turned' <= DistanceToCover'
    BY <2>2, <2>3
  <2> QED
    BY <2>1, <2>4 DEF NotTooLong, LegLimit
<1>4. CASE AdjustRight(d)
  <2>1. gone + d <= AdjustDistance /\ state' = "ADJUST_RIGHT_SWITCH"
    BY <1>4, Transitions DEF AdjustRight, Steer
  <2>2. turned' <= AdjustDistance
    BY <1>4, <2>1, Transitions, TurnedWithinGone, SteersWithin, LimitType DEF Legs, ToRight
  <2>3. AdjustDistance' = AdjustDistance
    BY <1>4 DEF AdjustRight, Steer, average, AdjustDistance, BendsLeft
  <2>4. turned' <= AdjustDistance'
    BY <2>2, <2>3
  <2> QED
    BY <2>1, <2>4 DEF NotTooLong, LegLimit
<1>5. CASE ~(TurnLeft(d) \/ AdjustLeft(d) \/ SwitchRight(d) \/ AdjustRight(d))
  <2>1. turned' = 0
    BY <1>5, Transitions DEF ObstacleDetection
  <2>2. LegLimit' \in Nat
    <3>1. DistanceToCover' \in Nat /\ AdjustDistance' \in Nat
      BY LengthAssumption DEF DistanceToCover, AdjustDistance
    <3> QED
      BY <3>1, LengthAssumption DEF LegLimit
  <2> QED
    BY <2>1, <2>2 DEF NotTooLong
<1> QED
  BY <1>1, <1>2, <1>3, <1>4, <1>5

\* No leg is driven further than it is meant to be, for all lengths and all speeds.
THEOREM LegsAreNotTooLong == Spec => []NotTooLong
<1>1. Init => NotTooLong
  BY DEF Init, NotTooLong, Legs, ToRight
<1>2. IInv /\ NotTooLong /\ [Next]_vars => NotTooLong'
  <2> SUFFICES ASSUME IInv, NotTooLong, [Next]_vars PROVE NotTooLong'
    OBVIOUS
  <2>1. CASE Next
    BY <2>1, NotTooLongStep DEF Next
  <2>2. CASE UNCHANGED vars
    BY <2>2 DEF vars, average, NotTooLong, LegLimit, DistanceToCover, AdjustDistance,
                BendsRight, BendsLeft
  <2> QED
    BY <2>1, <2>2
<1> QED
  BY Invariant, <1>1, <1>2, PTL DEF Spec

\* A leg is left no earlier than it has to be, for all lengths and all speeds.
THEOREM LegsAreNotTooShort == Spec => NotTooShort
<1> DEFINE LeftLeg == \/ state = "INIT_LEFT_SWITCH" /\ state' = "LEFT_SWITCH"
                      \/ state = "ADJUST_LEFT_SWITCH" /\ state' = "SEARCH_END"
           RightLeg == state = "RIGHT_SWITCH" /\ state' = "ADJUST_RIGHT_SWITCH"
           Ends == /\ LeftLeg => turned + MaxStep > LegLimit
                   /\ RightLeg => turned + MaxStep + AverageFrames * MaxStep > LegLimit
<1>1. IInv /\ [Next]_vars => [Ends]_vars
  <2> SUFFICES ASSUME IInv, Next PROVE Ends
    OBVIOUS
  <2>0. PICK d \in 0 .. MaxStep : ObstacleDetection(d)
    BY DEF Next
  <2>1. turned \in Nat /\ gone \in Nat /\ d \in Nat /\ d <= MaxStep /\ MaxStep \in Nat
    BY LengthAssumption, FarthestType DEF IInv, TypeOK
  <2>2. ASSUME LeftLeg PROVE turned + MaxStep > LegLimit
    <3>1. TurnedLeft(d) \/ AdjustedLeft(d)
      BY <2>0, <2>2, Transitions DEF ObstacleDetection
    <3>2. gone + d > LegLimit
      <4>1. CASE TurnedLeft(d)
        <5>1. state = "INIT_LEFT_SWITCH" /\ gone + d > INIT_LS_DIST
          BY <2>0, <2>2, <4>1, Transitions DEF TurnedLeft, Done
        <5> QED
          BY <5>1 DEF LegLimit
      <4>2. CASE AdjustedLeft(d)
        <5>1. state = "ADJUST_LEFT_SWITCH" /\ gone + d > ADJUST_L_S_DIST
          BY <2>0, <2>2, <4>2, Transitions DEF AdjustedLeft, Done
        <5> QED
          BY <5>1 DEF LegLimit
      <4> QED
        BY <3>1, <4>1, <4>2
    <3>3. gone = turned
      BY <2>2 DEF IInv, LegsMeasured, Legs, ToRight
    <3> QED
      BY <2>1, <3>2, <3>3, LegLimitNat
  <2>3. ASSUME RightLeg PROVE turned + MaxStep + AverageFrames * MaxStep > LegLimit
    <3>1. SwitchedRight(d)
      BY <2>0, <2>3, Transitions DEF ObstacleDetection
    <3>2. gone + d > LegLimit
      BY <2>3, <3>1 DEF SwitchedRight, Done, LegLimit
    <3> DEFINE k == AverageFrames * MaxStep
    <3>3. k \in Nat /\ gone <= turned + k
      BY <2>3, FarthestType DEF IInv, LegsMeasured
    <3> HIDE DEF k
    <3>4. turned + MaxStep + k > LegLimit
      BY <2>1, <3>2, <3>3, LegLimitNat
    <3> QED
      BY <3>4 DEF k
  <2> QED
    BY <2>2, <2>3
<1> QED
  BY Invariant, <1>1, PTL DEF Spec, NotTooShort

-----------------------------------------------------------------------------
(* The return to the right lane.                                           *)

\* A call that steers within a limit adds to the path or to the frames without motion.
LEMMA SteersOn ==
  ASSUME TypeOK, NEW d \in 0 .. MaxStep, NEW limit \in Nat, limit < Farthest,
         gone + d <= limit, KeepPath(d), CountIdle(d), ~Resets(d)
  PROVE  gone' > gone \/ (gone' = gone /\ idle_frame_counter' > idle_frame_counter)
<1>1. gone \in Nat /\ d \in Nat /\ idle_frame_counter \in Nat
  BY LengthAssumption, FarthestType, CountAssumption DEF TypeOK
<1>2. gone' = gone + d
  BY <1>1, FarthestType DEF KeepPath, Capped
<1>3. CASE d > 0
  BY <1>1, <1>2, <1>3
<1>4. CASE d = 0
  <2>1. idle_frame_counter' = idle_frame_counter + 1
    BY <1>4 DEF CountIdle
  <2> QED
    BY <1>1, <1>2, <1>4, <2>1
<1> QED
  BY <1>1, <1>3, <1>4

\* Every call of a return brings its end nearer, for all lengths, speeds and counts: the
\* safety core of ReturnEnds.
THEOREM ReturnsAdvance == Spec => ReturnAdvances
<1> DEFINE Returning == state = "COMPUTE_ANGLE" \/ state \in ToRight
           Later == ReturnStage' > ReturnStage
           Nearer == \/ ReturnStage' > ReturnStage
                     \/ /\ state' = state
                        /\ IF state = "COMPUTE_ANGLE" THEN average_counter' > average_counter
                           ELSE \/ gone' > gone
                                \/ gone' = gone /\ idle_frame_counter' > idle_frame_counter
<1>1. IInv /\ [Next]_vars => [Returning => Nearer]_vars
  <2> SUFFICES ASSUME IInv, Next, Returning PROVE Nearer
    OBVIOUS
  <2>0. PICK d \in 0 .. MaxStep : ObstacleDetection(d)
    BY DEF Next
  <2>1. CASE StartLeftSwitch(d) \/ FollowLane(d)
    <3>1. state' = "INIT_LEFT_SWITCH" \/ state' = "FREE_LANE"
      BY <2>0, <2>1, Transitions
    <3>2. Later
      BY <3>1 DEF ReturnStage, ToRight
    <3> QED
      BY <3>2
  <2>2. CASE AngleComputed(d) \/ SwitchedRight(d) \/ AdjustedRight(d)
    <3>1. Later
      BY <2>0, <2>2, Transitions DEF ReturnStage
    <3> QED
      BY <3>1
  <2>3. CASE ComputeAngle(d)
    <3>1. state = "COMPUTE_ANGLE" /\ state' = state
      BY <2>0, <2>3, Transitions
    <3>2. average_counter \in 0 .. AverageFrames /\ AverageFrames \in Nat
      BY CountAssumption DEF IInv, TypeOK
    <3>3. average_counter' = average_counter + 1
      BY <2>3, <3>2 DEF ComputeAngle, LastAngle, CountAngle
    <3> QED
      BY <3>1, <3>2, <3>3
  <2>4. CASE SwitchRight(d)
    <3>1. state = "RIGHT_SWITCH" /\ state' = state /\ ~Resets(d)
      BY <2>0, <2>4, Transitions
    <3>2. gone + d <= DistanceToCover /\ KeepPath(d) /\ CountIdle(d)
      BY <2>4 DEF SwitchRight, Steer, Finds
    <3> QED
      BY <3>1, <3>2, SteersOn, LimitType DEF IInv
  <2>5. CASE AdjustRight(d)
    <3>1. state = "ADJUST_RIGHT_SWITCH" /\ state' = state /\ ~Resets(d)
      BY <2>0, <2>5, Transitions
    <3>2. gone + d <= AdjustDistance /\ KeepPath(d) /\ CountIdle(d)
      BY <2>5 DEF AdjustRight, Steer, Finds
    <3> QED
      BY <3>1, <3>2, SteersOn, LimitType DEF IInv
  <2>6. /\ ~TurnLeft(d) /\ ~TurnedLeft(d) /\ ~CornerPassed(d) /\ ~SearchCorner(d)
        /\ ~AdjustLeft(d) /\ ~AdjustedLeft(d) /\ ~EndDetected(d) /\ ~SearchEnd(d)
        /\ ~EndReached(d) /\ ~ReachEnd(d)
    BY <2>0, Transitions DEF ToRight
  <2> QED
    BY <2>0, <2>1, <2>2, <2>3, <2>4, <2>5, <2>6 DEF ObstacleDetection
<1> QED
  BY Invariant, <1>1, PTL DEF Spec, ReturnAdvances
=============================================================================
