------------------------ MODULE DecisionMaker_proofs ------------------------
(***************************************************************************)
(* Theorems about DecisionMaker and the Parker in it, for every length,     *)
(* count and set of readings: the types, that a stop at a line is kept,     *)
(* that the manoeuvre never goes back, and where it begins.                 *)
(***************************************************************************)
EXTENDS DecisionMaker, TLAPS

(* A capped sum is the sum or the cap.                                     *)
LEMMA CappedSum ==
  ASSUME NEW n \in Nat, NEW most \in Nat
  PROVE  /\ Capped(n, most) \in 0 .. most
         /\ n <= most => Capped(n, most) = n
         /\ n > most => Capped(n, most) = most
  BY DEF Capped

(* The cap is beyond every length that is compared with a path.            *)
LEMMA FarthestIsFar ==
  /\ Farthest \in Nat
  /\ Farthest > ENOUGH_SPACE_DISTANCE + ADJUST_BEFORE_PARKING + MaxStep
  /\ Farthest > BACK_AROUND_CORNER + BACKING_STRAIGHT + PARALLEL_IN_SPOT
<1> DEFINE searching == ENOUGH_SPACE_DISTANCE + ADJUST_BEFORE_PARKING + MaxStep
           parking == BACK_AROUND_CORNER + BACKING_STRAIGHT + PARALLEL_IN_SPOT
<1>1. searching \in Nat /\ parking \in Nat
  BY ParkerAssumption
<1>2. Farthest = 1 + IF searching > parking THEN searching ELSE parking
  BY DEF Farthest
<1> HIDE DEF searching, parking
<1>3. Farthest \in Nat /\ Farthest > searching /\ Farthest > parking
  BY <1>1, <1>2
<1> QED
  BY <1>3 DEF searching, parking

LEMMA NowType ==
  ASSUME ParkerTypeOK, NEW d \in 0 .. MaxStep
  PROVE  /\ Now(d) \in 0 .. Farthest
         /\ Capped(backed + d, BackToLane) \in 0 .. BackToLane
<1>1. driven + d \in Nat /\ backed + d \in Nat /\ BackToLane \in Nat /\ Farthest \in Nat
  BY ParkerAssumption, FarthestIsFar DEF ParkerTypeOK
<1> QED
  BY <1>1, CappedSum DEF Now

(* The pieces of the invariant.  A manoeuvre is under way only after a spot *)
(* has been found, and an end of it is an end.                              *)
SpotFirst ==
  /\ ~isSpot => parkstate = "PHASE0" /\ expectedValue < OCCURRENCE
  /\ isSpot => state \in {"FINDGAPEND", "CHECKSPACE"}
  /\ isSpot /\ state = "FINDGAPEND" => parkstate # "PHASE0"
  /\ isParked => isSpot /\ parkstate = "PHASE4"

(* What is known of the gap until the car backs into it.                   *)
GapMeasured ==
  /\ state = "FINDGAPEND" /\ ~isSpot =>
       /\ sinceGap = driven
       /\ missed \/ driven <= ENOUGH_SPACE_DISTANCE
  /\ state = "CHECKSPACE" /\ parkstate = "PHASE0" =>
       /\ objInFront
       /\ gap <= ENOUGH_SPACE_DISTANCE
       /\ isSpot => gap > SPOT_SIZE
       /\ sinceGap = Capped(gap + driven, Farthest)
       /\ missed \/ driven <= IF isSpot THEN ADJUST_BEFORE_PARKING ELSE 0

(* The speed kept during a stop is 0.                                      *)
StopKept == StopHeld /\ (isStopLine => speed = 0)

IInv == TypeOK /\ StopKept /\ SpotFirst /\ GapMeasured

LEMMA Initially == Init => IInv
<1> SUFFICES ASSUME Init PROVE IInv
  OBVIOUS
<1> USE ParkerAssumption, StopAssumption, FarthestIsFar DEF Init, ParkerInit
<1>1. \A s \in {0, 2} : [speed |-> s, steering |-> "straight"] \in Controls
  BY DEF Controls
<1>2. TypeOK
  <2>1. ParkerTypeOK
    <3>1. /\ state \in SearchStates /\ parkstate \in Phases
          /\ expectedValue \in 0 .. (InSpotReadings + OCCURRENCE)
          /\ turningCounter \in 0 .. (CurveFrames - 1)
          /\ gap \in 0 .. Farthest /\ driven \in 0 .. Farthest
          /\ backed \in 0 .. BackToLane
      BY DEF SearchStates, Phases
    <3>2. /\ isSpot \in BOOLEAN /\ objInFront \in BOOLEAN
          /\ isInSpot \in BOOLEAN /\ isCloseToBack \in BOOLEAN /\ isParked \in BOOLEAN
          /\ resume \in BOOLEAN /\ outOfSpot \in BOOLEAN /\ room \in BOOLEAN
      BY Zenon
    <3>3. controlTemp \in Controls
      BY <1>1
    <3> QED
      BY <3>1, <3>2, <3>3 DEF ParkerTypeOK
  <2>2. /\ mode \in Modes /\ speed \in {0, 1, 2} /\ stopCounter \in 0 .. StopFrames
        /\ sinceGap \in 0 .. Farthest
    BY DEF Modes
  <2>3. isStopLine \in BOOLEAN /\ overriding \in BOOLEAN /\ missed \in BOOLEAN
    BY Zenon
  <2>4. vehicleControl \in Controls
    BY <1>1
  <2> QED
    BY <2>1, <2>2, <2>3, <2>4 DEF TypeOK
<1>3. StopKept /\ SpotFirst /\ GapMeasured
  BY DEF StopKept, StopHeld, FollowedLane, SpotFirst, GapMeasured
<1> QED
  BY <1>2, <1>3 DEF IInv
-----------------------------------------------------------------------------
(* Types: what each call of the parker does to them.                       *)
LEMMA NotCalledTypes ==
  ASSUME ParkerTypeOK, NEW d \in 0 .. MaxStep, NotCalled(d)
  PROVE  ParkerTypeOK'
  BY NowType, FarthestIsFar
     DEF ParkerTypeOK, NotCalled, LeaveBehind, search, manoeuvre, way

LEMMA FindSpotTypes ==
  ASSUME ParkerTypeOK, NEW d \in 0 .. MaxStep, NEW sees, NEW turning \in BOOLEAN,
         ~isSpot, SpotFirst, FindSpot(d, sees, turning)
  PROVE  ParkerTypeOK'
<1> USE ParkerAssumption, FarthestIsFar, NowType DEF ParkerTypeOK
<1>1. turningCounter' \in 0 .. (CurveFrames - 1)
  BY DEF FindSpot, CountTurning, Curve
<1>2. backed' \in 0 .. BackToLane
  BY DEF FindSpot, LeaveBehind
<1>3. /\ room' \in BOOLEAN
      /\ UNCHANGED <<isInSpot, isCloseToBack, isParked, resume, outOfSpot, controlTemp>>
  BY DEF FindSpot, way
<1> DEFINE T == /\ state' \in SearchStates
                /\ parkstate' \in Phases
                /\ expectedValue' \in 0 .. (InSpotReadings + OCCURRENCE)
                /\ gap' \in 0 .. Farthest
                /\ driven' \in 0 .. Farthest
           B == isSpot' \in BOOLEAN /\ objInFront' \in BOOLEAN
<1>4. ASSUME NEW hit, CountHit(hit)
      PROVE  expectedValue' \in 0 .. (InSpotReadings + OCCURRENCE)
  BY <1>4 DEF CountHit, Believed, SpotFirst
<1>6. CASE FindObject(sees)
  <2>1. T BY <1>4, <1>6 DEF FindObject, SearchStates
  <2>2. B BY <1>6, Zenon DEF FindObject, ParkerTypeOK
  <2> QED BY <1>1, <1>2, <1>3, <2>1, <2>2
<1>7. CASE Searches("FINDGAPSTART", turning) /\ FindGapStart(sees)
  <2>1. T BY <1>4, <1>7 DEF FindGapStart, SearchStates
  <2>2. B BY <1>7, Zenon DEF FindGapStart, ParkerTypeOK
  <2> QED BY <1>1, <1>2, <1>3, <2>1, <2>2
<1>8. CASE GapIsOpen(d)
  <2>1. T BY <1>8 DEF GapIsOpen, Phases
  <2>2. B BY <1>8, Zenon DEF GapIsOpen, ParkerTypeOK
  <2> QED BY <1>1, <1>2, <1>3, <2>1, <2>2
<1>9. CASE FindGapEnd(d, sees)
  <2>1. T BY <1>4, <1>9 DEF FindGapEnd, SearchStates, DriveOn
  <2>2. B
    <3>1. isSpot' = isSpot /\ (objInFront' = TRUE \/ objInFront' = objInFront)
      BY <1>9, Zenon DEF FindGapEnd
    <3> QED BY <3>1, Zenon DEF ParkerTypeOK
  <2> QED BY <1>1, <1>2, <1>3, <2>1, <2>2
<1>10. CASE EnoughSpace(d)
  <2>1. T BY <1>10 DEF EnoughSpace, Phases, DriveOn
  <2>2. B BY <1>10, Zenon DEF EnoughSpace, ParkerTypeOK
  <2> QED BY <1>1, <1>2, <1>3, <2>1, <2>2
<1>11. CASE TooSmall(d)
  <2>1. T BY <1>11 DEF TooSmall, SearchStates
  <2>2. B BY <1>11, Zenon DEF TooSmall, ParkerTypeOK
  <2> QED BY <1>1, <1>2, <1>3, <2>1, <2>2
<1> QED
  BY <1>6, <1>7, <1>8, <1>9, <1>10, <1>11 DEF FindSpot

LEMMA ParallelParkTypes ==
  ASSUME ParkerTypeOK, NEW d \in 0 .. MaxStep, ParallelPark(d)
  PROVE  ParkerTypeOK'
<1> USE ParkerAssumption, FarthestIsFar, NowType DEF ParkerTypeOK
<1>1. PICK clear \in BOOLEAN :
        /\ CheckIfInSpot(clear)
        /\ \/ BlindPhase(d, clear)
           \/ \E front, back \in Distances : SightedPhase(d, front, back, clear)
           \/ StopForSafety(clear)
  BY DEF ParallelPark
<1>2. /\ backed' \in 0 .. BackToLane
      /\ UNCHANGED <<state, turningCounter, objInFront, gap, isSpot, resume, outOfSpot>>
  BY DEF ParallelPark, LeaveBehind, search, way
<1>3. isInSpot' \in BOOLEAN
  BY <1>1, Zenon DEF CheckIfInSpot, ParkerTypeOK
<1>4. ClearReadings(clear) \in 0 .. (InSpotReadings + OCCURRENCE)
  BY DEF ClearReadings, Capped
<1>5. \A s \in {-1, 0, 1}, w \in {"straight", "left", "right"} :
        /\ [speed |-> s, steering |-> w] \in Controls
        /\ [controlTemp EXCEPT !.speed = s] \in Controls
        /\ [controlTemp EXCEPT !.steering = w] \in Controls
  BY DEF Controls
<1> DEFINE T == /\ parkstate' \in Phases
                /\ expectedValue' \in 0 .. (InSpotReadings + OCCURRENCE)
                /\ isCloseToBack' \in BOOLEAN /\ isParked' \in BOOLEAN
                /\ driven' \in 0 .. Farthest
                /\ controlTemp' \in Controls
                /\ room' \in BOOLEAN
<1>6. CASE BlindPhase(d, clear)
  <2>1. CASE AdjustBeforeParking(d)
    BY <1>4, <1>5, <1>6, <2>1, <1>2, <1>3
       DEF BlindPhase, AdjustBeforeParking, OnTheWay, ExactlyThere, DriveOn, Phases
  <2>2. CASE BackAroundCorner(d)
    BY <1>4, <1>5, <1>6, <2>2, <1>2, <1>3
       DEF BlindPhase, BackAroundCorner, OnTheWay, ExactlyThere, DriveOn, Phases
  <2>3. CASE BackingStraight(d)
    BY <1>4, <1>5, <1>6, <2>3, <1>2, <1>3
       DEF BlindPhase, BackingStraight, OnTheWay, ExactlyThere, DriveOn, Phases
  <2> QED
    BY <1>6, <2>1, <2>2, <2>3 DEF BlindPhase
<1>7. CASE \E front, back \in Distances : SightedPhase(d, front, back, clear)
  <2>1. PICK front \in Distances, back \in Distances : SightedPhase(d, front, back, clear)
    BY <1>7
  <2>2. CASE parkstate = "PHASE3" /\ GetParallelInSpot(d, front, back)
    <3>1. expectedValue' = ClearReadings(clear) /\ isParked' = isParked
      BY <2>1, <2>2 DEF SightedPhase
    <3>2. front \in Int /\ back \in Int /\ SENSORS_IN_SPOT \in Int
      OBVIOUS
    <3>3. /\ parkstate' \in Phases
          /\ driven' \in 0 .. Farthest
      BY <2>2 DEF GetParallelInSpot, ExactlyThere, DriveOn, Phases
    <3>4. controlTemp' \in Controls /\ isCloseToBack' \in BOOLEAN
      BY <1>5, <2>2 DEF GetParallelInSpot, ExactlyThere, SwingBack, SwingForward, SwingNowhere
    <3>5. room' \in BOOLEAN
      <4>1. (back > SENSORS_IN_SPOT) \in BOOLEAN
        BY <3>2
      <4>2. room' = (back > SENSORS_IN_SPOT) \/ room' = TRUE
        BY <2>2, Zenon DEF GetParallelInSpot
      <4> QED BY <4>1, <4>2, Zenon
    <3> QED
      BY <1>2, <1>3, <1>4, <3>1, <3>3, <3>4, <3>5
  <2>3. CASE parkstate = "PHASE4" /\ MidOfSpot(front, back, ClearReadings(clear))
    <3>1. room' = TRUE /\ isCloseToBack' = isCloseToBack
      BY <2>1, <2>3 DEF SightedPhase
    <3>2. parkstate' = parkstate /\ driven' = 0
      BY <2>3 DEF MidOfSpot
    <3>3. controlTemp' \in Controls
      BY <1>5, <2>3 DEF MidOfSpot
    <3>4. isParked' \in BOOLEAN
      BY <2>3, Zenon DEF MidOfSpot, ParkerTypeOK
    <3>5. expectedValue' \in 0 .. (InSpotReadings + OCCURRENCE)
      BY <1>4, <2>3 DEF MidOfSpot
    <3> QED
      BY <1>2, <1>3, <3>1, <3>2, <3>3, <3>4, <3>5
  <2> QED
    BY <2>1, <2>2, <2>3 DEF SightedPhase
<1>8. CASE StopForSafety(clear)
  BY <1>2, <1>3, <1>4, <1>5, <1>8 DEF StopForSafety, Phases
<1> QED
  BY <1>1, <1>6, <1>7, <1>8

LEMMA GoBackTypes ==
  ASSUME ParkerTypeOK, NEW d \in 0 .. MaxStep, NEW back, GoBackToLane(d, back)
  PROVE  ParkerTypeOK'
<1> USE ParkerAssumption, FarthestIsFar, NowType DEF ParkerTypeOK
<1>1. /\ [speed |-> 1, steering |-> "left"] \in Controls
      /\ [controlTemp EXCEPT !.speed = -1] \in Controls
  BY DEF Controls
<1>2. controlTemp' \in Controls /\ backed' \in 0 .. BackToLane
  BY <1>1 DEF GoBackToLane, ReverseFirst, ReversedEnough, PullOut, BackOnLane, LeaveBehind
<1>3. resume' \in BOOLEAN /\ outOfSpot' \in BOOLEAN /\ isInSpot' \in BOOLEAN
  BY Zenon DEF GoBackToLane, ReverseFirst, ReversedEnough, PullOut, BackOnLane, way, ParkerTypeOK
<1>4. driven' \in 0 .. Farthest
  BY DEF GoBackToLane
<1>5. room' = TRUE /\ UNCHANGED <<search, parkstate, isCloseToBack, isParked, expectedValue>>
  BY DEF GoBackToLane
<1> QED
  BY <1>2, <1>3, <1>4, <1>5 DEF search
-----------------------------------------------------------------------------
(* Types of the DecisionMaker.                                             *)
LEMMA SendLaneTypes ==
  ASSUME TypeOK, NEW s \in {0, 1, 2}, SendLane(Unstopped(s))
  PROVE  speed' \in {0, 1, 2} /\ vehicleControl' \in Controls
<1>1. Unstopped(s) \in {0, 1, 2}
  BY DEF TypeOK, Unstopped
<1>2. \A v \in {0, 1, 2}, w \in {"straight", "left", "right"} :
        [speed |-> v, steering |-> w] \in Controls
  BY DEF Controls
<1> QED
  BY <1>1, <1>2, AngleAssumption DEF SendLane

LEMMA RecordTypes ==
  ASSUME TypeOK, NEW d \in 0 .. MaxStep, NEW called \in BOOLEAN, Record(d, called)
  PROVE  sinceGap' \in 0 .. Farthest /\ missed' \in BOOLEAN
<1>1. sinceGap + d \in Nat /\ Farthest \in Nat
  BY ParkerAssumption, FarthestIsFar DEF TypeOK
<1>2. sinceGap' \in 0 .. Farthest
  BY <1>1, CappedSum DEF Record
<1>3. missed' \in BOOLEAN
  BY DEF Record
<1> QED
  BY <1>2, <1>3

LEMMA TypesKept ==
  ASSUME IInv, NEW d \in 0 .. MaxStep, Frame(d)
  PROVE  TypeOK'
<1> USE DEF IInv
<1>1. ParkerTypeOK /\ SpotFirst /\ TypeOK
  BY DEF TypeOK
<1>2. sinceGap' \in 0 .. Farthest /\ missed' \in BOOLEAN /\ overriding' \in BOOLEAN
  <2>1. (~isStopLine) \in BOOLEAN
    OBVIOUS
  <2>2. sinceGap' \in 0 .. Farthest /\ missed' \in BOOLEAN
    BY <1>1, <2>1, RecordTypes DEF Frame
  <2>3. overriding' = FALSE \/ overriding' = TRUE
    BY DEF Frame, LaneFollowing, Driving, SearchSpot, Park, StayParked, Resume, ResumeDone
  <2> QED
    BY <2>2, <2>3, Zenon
<1> DEFINE D == /\ mode' \in Modes
                /\ speed' \in {0, 1, 2}
                /\ isStopLine' \in BOOLEAN
                /\ stopCounter' \in 0 .. StopFrames
                /\ vehicleControl' \in Controls
<1>3. CASE LaneFollowing(d)
  <2>1. ParkerTypeOK'
    BY <1>1, <1>3, NotCalledTypes DEF LaneFollowing
  <2>2. SendLane(Unstopped(2)) \/ SendLane(0)
    BY <1>3 DEF LaneFollowing, WakeUp, Sleep, StopAtLine, NoStopLine
  <2>3. [speed |-> 0, steering |-> "straight"] \in Controls
    BY DEF Controls
  <2>4. SendLane(0) => speed' \in {0, 1, 2} /\ vehicleControl' \in Controls
    BY AngleAssumption DEF SendLane, Controls
  <2>5. speed' \in {0, 1, 2} /\ vehicleControl' \in Controls
    BY <1>1, <2>2, <2>4, SendLaneTypes
  <2>6. stopCounter' \in 0 .. StopFrames /\ mode' \in Modes
    BY <1>1, <1>3, StopAssumption
       DEF LaneFollowing, WakeUp, Sleep, StopAtLine, NoStopLine, TypeOK, stopping, Modes
  <2>7. isStopLine' \in BOOLEAN
    BY <1>3, Zenon
       DEF LaneFollowing, WakeUp, Sleep, StopAtLine, NoStopLine, TypeOK, stopping
  <2> QED
    BY <1>2, <2>1, <2>5, <2>6, <2>7 DEF TypeOK
<1>4. CASE Driving(d)
  <2>1. ParkerTypeOK'
    BY <1>1, <1>4, NotCalledTypes DEF Driving
  <2>2. speed' \in {0, 1, 2} /\ vehicleControl' \in Controls
    <3>1. CASE FollowLaneAt(1)
      BY <1>1, <3>1, SendLaneTypes DEF FollowLaneAt
    <3>2. CASE /\ \E angle \in LaneAngles : vehicleControl' = [speed |-> 1, steering |-> angle]
               /\ UNCHANGED <<speed, stopping>>
      BY <1>1, <3>2, AngleAssumption DEF Controls, TypeOK
    <3> QED
      BY <1>4, <3>1, <3>2 DEF Driving
  <2>3. UNCHANGED stopping
    BY <1>4 DEF Driving, FollowLaneAt
  <2>4. mode' \in Modes
    BY <1>4 DEF Driving, Modes
  <2> QED
    BY <1>1, <1>2, <2>1, <2>2, <2>3, <2>4 DEF TypeOK, stopping
<1>5. CASE SearchSpot(d)
  <2>1. ParkerTypeOK'
    <3>1. CASE isStopLine
      BY <1>1, <1>5, <3>1, NotCalledTypes DEF SearchSpot
    <3>2. CASE ~isStopLine
      <4>1. (vehicleControl.steering # "straight") \in BOOLEAN
        OBVIOUS
      <4>2. PICK sees : FindSpot(d, sees, vehicleControl.steering # "straight")
        BY <1>5, <3>2 DEF SearchSpot
      <4>3. ~isSpot
        BY <1>5 DEF SearchSpot
      <4> QED
        BY <1>1, <4>1, <4>2, <4>3, FindSpotTypes
    <3> QED
      BY <3>1, <3>2
  <2>2. speed' \in {0, 1, 2} /\ vehicleControl' \in Controls
    BY <1>1, <1>5, SendLaneTypes DEF SearchSpot, FollowLaneAt
  <2>3. UNCHANGED stopping /\ mode' \in Modes
    BY <1>5 DEF SearchSpot, FollowLaneAt, Modes
  <2> QED
    BY <1>1, <1>2, <2>1, <2>2, <2>3 DEF TypeOK, stopping
<1>6. CASE Park(d)
  <2>1. ParkerTypeOK'
    BY <1>1, <1>6, ParallelParkTypes DEF Park
  <2>2. vehicleControl' \in Controls
    BY <1>6, <2>1 DEF Park, ParkerTypeOK
  <2>3. UNCHANGED <<speed, stopping>> /\ mode' \in Modes
    BY <1>6 DEF Park, Modes
  <2> QED
    BY <1>1, <1>2, <2>1, <2>2, <2>3 DEF TypeOK, stopping
<1>7. CASE StayParked(d) \/ ResumeDone(d)
  <2>1. ParkerTypeOK'
    BY <1>1, <1>7, NotCalledTypes DEF StayParked, ResumeDone
  <2>2. UNCHANGED <<vehicleControl, speed, stopping>> /\ mode' \in Modes
    BY <1>7 DEF StayParked, ResumeDone, Modes
  <2> QED
    BY <1>1, <1>2, <2>1, <2>2 DEF TypeOK, stopping
<1>8. CASE Resume(d)
  <2>1. ParkerTypeOK'
    BY <1>1, <1>8, GoBackTypes DEF Resume
  <2>2. vehicleControl' \in Controls
    BY <1>8, <2>1 DEF Resume, ParkerTypeOK
  <2>3. UNCHANGED <<speed, stopping>> /\ mode' \in Modes
    BY <1>8 DEF Resume, Modes
  <2> QED
    BY <1>1, <1>2, <2>1, <2>2, <2>3 DEF TypeOK, stopping
<1> QED
  BY <1>3, <1>4, <1>5, <1>6, <1>7, <1>8 DEF Frame
-----------------------------------------------------------------------------
(* A frame that follows the lane during a stop sends the speed kept, 0.    *)
LEMMA StopKeptOn ==
  ASSUME IInv, NEW d \in 0 .. MaxStep, Frame(d)
  PROVE  StopKept'
<1> USE DEF IInv, StopKept, StopHeld, FollowedLane
<1>1. stopCounter \in Nat /\ StopFrames \in Nat \ {0}
  BY StopAssumption DEF TypeOK
<1>2. ASSUME NEW s, SendLane(s), isStopLine' => s = 0
      PROVE  /\ isStopLine' => speed' = 0
             /\ isStopLine' => vehicleControl'.speed = 0
  BY <1>2 DEF SendLane
<1>3. CASE LaneFollowing(d)
  <2>1. CASE WakeUp
    BY <1>1, <1>2, <2>1 DEF WakeUp
  <2>2. CASE Sleep
    BY <1>1, <1>2, <2>2 DEF Sleep, Unstopped
  <2>3. CASE StopAtLine
    BY <1>1, <1>2, <2>3 DEF StopAtLine
  <2>4. CASE NoStopLine
    BY <1>1, <1>2, <2>4 DEF NoStopLine, stopping
  <2> QED
    BY <1>3, <2>1, <2>2, <2>3, <2>4 DEF LaneFollowing
<1>4. ASSUME NEW s, FollowLaneAt(s)
      PROVE  StopKept'
  BY <1>1, <1>2, <1>4 DEF FollowLaneAt, Unstopped, stopping
<1>5. ASSUME UNCHANGED <<speed, stopping>>,
             mode' # "LANE_FOLLOWING",
             mode' = "DRIVING" => overriding',
             mode' = "PARKING" => isSpot'
      PROVE  StopKept'
  BY <1>1, <1>5 DEF stopping
<1>6. CASE Driving(d)
  <2>1. CASE FollowLaneAt(1)
    BY <1>4, <2>1
  <2>2. CASE overriding' = TRUE /\ UNCHANGED <<speed, stopping>>
    <3>1. mode' = "DRIVING"
      BY <1>6 DEF Driving
    <3> QED
      BY <1>5, <2>2, <3>1
  <2> QED
    BY <1>6, <2>1, <2>2 DEF Driving
<1>7. CASE SearchSpot(d)
  BY <1>4, <1>7 DEF SearchSpot
<1>8. CASE Park(d)
  BY <1>5, <1>8 DEF Park, ParallelPark, search
<1>9. CASE StayParked(d)
  BY <1>5, <1>9 DEF StayParked, NotCalled, search
<1>10. CASE Resume(d)
  BY <1>5, <1>10 DEF Resume
<1>11. CASE ResumeDone(d)
  BY <1>5, <1>11 DEF ResumeDone
<1> QED
  BY <1>3, <1>6, <1>7, <1>8, <1>9, <1>10, <1>11 DEF Frame

-----------------------------------------------------------------------------
(* A spot is found before the manoeuvre leaves PHASE0, and kept.           *)
LEMMA SpotFirstKept ==
  ASSUME IInv, NEW d \in 0 .. MaxStep, Frame(d)
  PROVE  SpotFirst'
<1> USE DEF IInv, SpotFirst
<1>1. ASSUME UNCHANGED <<search, parkstate, isParked, expectedValue>>
      PROVE  SpotFirst'
  BY <1>1 DEF search
<1>2. ASSUME NEW x, NotCalled(x)
      PROVE  SpotFirst'
  BY <1>1, <1>2 DEF NotCalled, manoeuvre
<1>3. CASE LaneFollowing(d) \/ Driving(d) \/ StayParked(d) \/ ResumeDone(d)
  BY <1>2, <1>3 DEF LaneFollowing, Driving, StayParked, ResumeDone
<1>4. CASE Resume(d)
  BY <1>1, <1>4 DEF Resume, GoBackToLane
<1>5. CASE SearchSpot(d)
  <2>1. CASE isStopLine
    BY <1>2, <1>5, <2>1 DEF SearchSpot
  <2>2. CASE ~isStopLine
    <3>1. PICK sees, turning : FindSpot(d, sees, turning)
      BY <1>5, <2>2 DEF SearchSpot
    <3>2. ~isSpot /\ ~isParked /\ ~isParked'
      BY <1>5, <3>1 DEF SearchSpot, FindSpot
    <3>3. ASSUME NEW hit, CountHit(hit)
          PROVE  expectedValue' < OCCURRENCE
      BY <3>2, <3>3, ParkerAssumption DEF CountHit, Believed, TypeOK, ParkerTypeOK
    <3>4. CASE FindObject(sees)
      BY <3>2, <3>3, <3>4 DEF FindObject
    <3>5. CASE Searches("FINDGAPSTART", turning) /\ FindGapStart(sees)
      BY <3>2, <3>3, <3>5 DEF FindGapStart
    <3>6. CASE Searches("FINDGAPEND", turning) /\ GapIsOpen(d)
      <4>1. state = "FINDGAPEND"
        BY <3>6 DEF Searches
      <4> QED
        BY <3>2, <3>6, <4>1 DEF GapIsOpen
    <3>7. CASE FindGapEnd(d, sees)
      BY <3>2, <3>3, <3>7 DEF FindGapEnd
    <3>8. CASE Searches("CHECKSPACE", turning) /\ EnoughSpace(d)
      <4>1. state = "CHECKSPACE"
        BY <3>8 DEF Searches
      <4> QED
        BY <3>2, <3>8, <4>1 DEF EnoughSpace
    <3>9. CASE TooSmall(d)
      BY <3>2, <3>9 DEF TooSmall
    <3> QED
      BY <3>1, <3>4, <3>5, <3>6, <3>7, <3>8, <3>9 DEF FindSpot
  <2> QED
    BY <2>1, <2>2
<1>6. CASE Park(d)
  <2>1. isSpot /\ ~isParked /\ UNCHANGED search
    BY <1>6 DEF Park, ParallelPark
  <2>2. PICK clear : \/ BlindPhase(d, clear)
                     \/ \E front, back \in Distances : SightedPhase(d, front, back, clear)
                     \/ Watching /\ StopForSafety(clear)
                     \/ parkstate = "SAFETYSTOP" /\ StopForSafety(clear)
    BY <1>6 DEF Park, ParallelPark
  <2>3. (parkstate # "PHASE0" => parkstate' # "PHASE0") /\ (isParked' => parkstate' = "PHASE4")
    <3>1. CASE BlindPhase(d, clear)
      BY <2>1, <3>1
         DEF BlindPhase, AdjustBeforeParking, BackAroundCorner, BackingStraight, OnTheWay, ExactlyThere
    <3>2. ASSUME NEW front, NEW back, SightedPhase(d, front, back, clear)
          PROVE  (parkstate # "PHASE0" => parkstate' # "PHASE0") /\ (isParked' => parkstate' = "PHASE4")
      BY <2>1, <3>2 DEF SightedPhase, GetParallelInSpot, ExactlyThere, MidOfSpot
    <3>3. CASE StopForSafety(clear)
      BY <2>1, <3>3 DEF StopForSafety
    <3> QED
      BY <2>2, <3>1, <3>2, <3>3
  <2> QED
    BY <2>1, <2>3 DEF search
<1> QED
  BY <1>3, <1>4, <1>5, <1>6 DEF Frame
-----------------------------------------------------------------------------
(* The recorded path and the measured one agree until the car backs.       *)
LEMMA PathFacts ==
  ASSUME IInv, NEW d \in 0 .. MaxStep
  PROVE  /\ d \in Nat /\ driven \in Nat /\ gap \in Nat /\ sinceGap \in Nat
         /\ MaxStep \in Nat /\ Farthest \in Nat
         /\ SPOT_SIZE \in Nat /\ ENOUGH_SPACE_DISTANCE \in Nat /\ ADJUST_BEFORE_PARKING \in Nat
         /\ Farthest > ENOUGH_SPACE_DISTANCE + ADJUST_BEFORE_PARKING + MaxStep
         /\ MaxStep <= ADJUST_BEFORE_PARKING
         /\ driven <= Farthest
  BY ParkerAssumption, FrameAssumption, FarthestIsFar DEF IInv, TypeOK, ParkerTypeOK

(* A frame that does not call the parker adds to both paths and is missed.  *)
LEMMA GapMeasuredUncalled ==
  ASSUME IInv, NEW d \in 0 .. MaxStep, Record(d, FALSE),
         UNCHANGED <<search, parkstate>>,
         driven' = IF Measuring THEN Now(d) ELSE 0
  PROVE  GapMeasured'
<1> USE PathFacts DEF IInv
<1>0. d \in Nat /\ driven \in Nat /\ gap \in Nat /\ Farthest \in Nat
  OBVIOUS
<1>1. CASE state = "FINDGAPEND" /\ ~isSpot
  <2>1. parkstate = "PHASE0" /\ Measuring /\ GapPending
    BY <1>1 DEF SpotFirst, Measuring, GapPending
  <2>2. sinceGap' = Capped(sinceGap + d, Farthest) /\ driven' = Now(d) /\ missed'
    BY <2>1 DEF Record
  <2> QED
    BY <1>1, <2>2 DEF GapMeasured, Now, search
<1>2. CASE state = "CHECKSPACE" /\ parkstate = "PHASE0"
  <2>1. Measuring /\ GapPending
    BY <1>2 DEF Measuring, GapPending
  <2>2. sinceGap' = Capped(sinceGap + d, Farthest) /\ driven' = Now(d) /\ missed'
    BY <2>1 DEF Record
  <2>3. sinceGap' = Capped(gap + driven', Farthest)
    <3>1. sinceGap = Capped(gap + driven, Farthest)
      BY <1>2 DEF GapMeasured
    <3>2. Capped(Capped(gap + driven, Farthest) + d, Farthest)
            = Capped(gap + Capped(driven + d, Farthest), Farthest)
      BY <1>0 DEF Capped
    <3> QED
      BY <2>2, <3>1, <3>2 DEF Now
  <2> QED
    BY <1>2, <2>2, <2>3 DEF GapMeasured, search
<1> QED
  BY <1>1, <1>2 DEF GapMeasured, search

LEMMA GapMeasuredSearching ==
  ASSUME IInv, NEW d \in 0 .. MaxStep, Record(d, TRUE), ~isSpot,
         NEW sees, NEW turning, FindSpot(d, sees, turning)
  PROVE  GapMeasured'
<1> USE PathFacts DEF IInv
<1>0. d \in Nat /\ driven \in Nat /\ gap \in Nat /\ Farthest \in Nat
  OBVIOUS
<1>1. parkstate = "PHASE0"
  BY DEF SpotFirst
<1>2. CASE FindObject(sees)
  BY <1>2 DEF FindObject, GapMeasured
<1>3. CASE Searches("FINDGAPSTART", turning) /\ FindGapStart(sees)
  <2>1. state = "FINDGAPSTART"
    BY <1>3 DEF Searches
  <2>2. sinceGap' = 0 /\ driven' = 0 /\ state' # "CHECKSPACE"
    BY <1>3, <2>1 DEF FindGapStart, Record, GapPending
  <2> QED
    BY <2>2 DEF GapMeasured
<1>4. CASE Searches("FINDGAPEND", turning) /\ GapIsOpen(d)
  <2>1. state = "FINDGAPEND"
    BY <1>4 DEF Searches
  <2> QED
    BY <1>4, <2>1 DEF GapIsOpen, GapMeasured
<1>5. CASE Searches("FINDGAPEND", turning) /\ FindGapEnd(d, sees)
  <2>1. state = "FINDGAPEND"
    BY <1>5 DEF Searches
  <2>2. sinceGap' = Capped(sinceGap + d, Farthest) /\ (missed' => missed) /\ (missed => missed')
    BY <1>1, <2>1, Zenon DEF Record, GapPending
  <2>3. sinceGap = driven /\ sinceGap' = Now(d) /\ Now(d) <= ENOUGH_SPACE_DISTANCE
    BY <1>5, <2>1, <2>2 DEF GapMeasured, Now, FindGapEnd
  <2>4. CASE Believed(sees = "object")
    <3>1. /\ gap' = Now(d) /\ driven' = 0 /\ objInFront' /\ state' = "CHECKSPACE"
          /\ isSpot' = isSpot
      BY <1>5, <2>4 DEF FindGapEnd
    <3>2. sinceGap' = Capped(gap' + driven', Farthest)
      BY <2>3, <3>1 DEF Capped, Now
    <3> QED
      BY <2>3, <3>1, <3>2 DEF GapMeasured
  <2>5. CASE ~Believed(sees = "object")
    <3>1. driven' = Now(d) /\ state' = state /\ isSpot' = isSpot
      BY <1>5, <2>5 DEF FindGapEnd, DriveOn
    <3> QED
      BY <2>1, <2>3, <3>1 DEF GapMeasured
  <2> QED
    BY <2>4, <2>5
<1>6. CASE Searches("CHECKSPACE", turning) /\ EnoughSpace(d)
  <2>1. state = "CHECKSPACE"
    BY <1>6 DEF Searches
  <2>2. sinceGap' = Capped(sinceGap + d, Farthest) /\ (missed => missed')
    BY <1>1, <2>1, Zenon DEF Record, GapPending
  <2>3. /\ isSpot' /\ state' = state /\ gap' = gap /\ objInFront' = objInFront
        /\ gap > SPOT_SIZE /\ driven' = Now(d)
    BY <1>6 DEF EnoughSpace, DriveOn
  <2>4. sinceGap' = Capped(gap + driven', Farthest)
    <3>1. sinceGap = Capped(gap + driven, Farthest)
      BY <1>1, <2>1 DEF GapMeasured
    <3>2. Capped(Capped(gap + driven, Farthest) + d, Farthest)
            = Capped(gap + Capped(driven + d, Farthest), Farthest)
      BY <1>0 DEF Capped
    <3> QED
      BY <2>2, <2>3, <3>1, <3>2 DEF Now
  <2>5. missed' \/ driven' <= ADJUST_BEFORE_PARKING
    BY <1>1, <2>1, <2>2, <2>3 DEF GapMeasured, Now, Capped
  <2> QED
    BY <1>1, <2>1, <2>3, <2>4, <2>5 DEF GapMeasured
<1>7. CASE TooSmall(d)
  BY <1>7 DEF TooSmall, GapMeasured
<1> QED
  BY <1>2, <1>3, <1>4, <1>5, <1>6, <1>7 DEF FindSpot

(* What a frame of the adjustment does to the path.                        *)
LEMMA GapMeasuredAdjusting ==
  ASSUME IInv, NEW d \in 0 .. MaxStep, Record(d, TRUE), isSpot, parkstate = "PHASE0",
         Park(d)
  PROVE  /\ UNCHANGED search
         /\ state = "CHECKSPACE"
         /\ sinceGap' = Capped(gap + Now(d), Farthest)
         /\ missed => missed'
         /\ \/ parkstate' = "PHASE0" /\ driven' = Now(d) /\ Now(d) <= ADJUST_BEFORE_PARKING
            \/ parkstate' = "PHASE1" /\ Now(d) > ADJUST_BEFORE_PARKING
<1> USE PathFacts DEF IInv
<1>0. d \in Nat /\ driven \in Nat /\ gap \in Nat /\ Farthest \in Nat
  OBVIOUS
<1>1. state = "CHECKSPACE" /\ UNCHANGED search
  BY DEF SpotFirst, Park, ParallelPark
<1>2. PICK clear : BlindPhase(d, clear)
  BY DEF Park, ParallelPark, SightedPhase, Watching
<1>3. AdjustBeforeParking(d)
  BY <1>2 DEF BlindPhase
<1>4. sinceGap' = Capped(sinceGap + d, Farthest) /\ (missed => missed')
  BY <1>1, Zenon DEF Record, GapPending
<1>5. sinceGap' = Capped(gap + Now(d), Farthest)
  <2>1. sinceGap = Capped(gap + driven, Farthest)
    BY <1>1 DEF GapMeasured
  <2>2. Capped(Capped(gap + driven, Farthest) + d, Farthest)
          = Capped(gap + Capped(driven + d, Farthest), Farthest)
    BY <1>0 DEF Capped
  <2> QED
    BY <1>4, <2>1, <2>2 DEF Now
<1>6. \/ parkstate' = "PHASE0" /\ driven' = Now(d) /\ Now(d) <= ADJUST_BEFORE_PARKING
      \/ parkstate' = "PHASE1" /\ Now(d) > ADJUST_BEFORE_PARKING
  BY <1>3, NowType DEF AdjustBeforeParking, OnTheWay, ExactlyThere, DriveOn, TypeOK
<1> QED
  BY <1>1, <1>4, <1>5, <1>6

LEMMA GapMeasuredKept ==
  ASSUME IInv, NEW d \in 0 .. MaxStep, Frame(d), SpotFirst'
  PROVE  GapMeasured'
<1>1. ASSUME NotCalled(d), Record(d, FALSE)
      PROVE  GapMeasured'
  BY <1>1, GapMeasuredUncalled DEF NotCalled, manoeuvre
<1>2. CASE (LaneFollowing(d) \/ Driving(d) \/ StayParked(d) \/ ResumeDone(d)) /\ Record(d, FALSE)
  BY <1>1, <1>2 DEF LaneFollowing, Driving, StayParked, ResumeDone
<1>3. CASE Resume(d) /\ Record(d, FALSE)
  BY <1>3, GapMeasuredUncalled DEF Resume, GoBackToLane
<1>4. CASE SearchSpot(d) /\ Record(d, ~isStopLine)
  <2>1. CASE isStopLine
    <3>1. NotCalled(d) /\ (~isStopLine) = FALSE
      BY <1>4, <2>1 DEF SearchSpot
    <3> QED
      BY <1>1, <1>4, <3>1 DEF Record
  <2>2. CASE ~isStopLine
    <3>1. PICK sees, turning : FindSpot(d, sees, turning)
      BY <1>4, <2>2 DEF SearchSpot
    <3>2. ~isSpot /\ Record(d, TRUE)
      BY <1>4, <2>2 DEF SearchSpot, Record
    <3> QED
      BY <3>1, <3>2, GapMeasuredSearching
  <2> QED
    BY <2>1, <2>2
<1>5. CASE Park(d) /\ Record(d, TRUE)
  <2>1. isSpot /\ UNCHANGED search
    BY <1>5 DEF Park, ParallelPark
  <2>2. CASE parkstate = "PHASE0"
    BY <1>5, <2>1, <2>2, GapMeasuredAdjusting, PathFacts DEF GapMeasured, search, IInv
  <2>3. CASE parkstate # "PHASE0"
    <3>1. parkstate' # "PHASE0"
      BY <1>5, <2>3 DEF Park, ParallelPark, BlindPhase, AdjustBeforeParking, BackAroundCorner,
         BackingStraight, OnTheWay, ExactlyThere, SightedPhase, GetParallelInSpot, MidOfSpot,
         StopForSafety
    <3> QED
      BY <2>1, <3>1 DEF GapMeasured, search
  <2> QED
    BY <2>2, <2>3
<1> QED
  BY <1>2, <1>3, <1>4, <1>5 DEF Frame
-----------------------------------------------------------------------------
LEMMA Inductive == IInv /\ [Next]_vars => IInv'
<1> SUFFICES ASSUME IInv, [Next]_vars PROVE IInv'
  OBVIOUS
<1>1. CASE UNCHANGED vars
  BY <1>1
     DEF vars, parkerVars, search, manoeuvre, way, stopping, history, IInv, TypeOK,
         ParkerTypeOK, StopKept, StopHeld, FollowedLane, SpotFirst, GapMeasured
<1>2. CASE Next
  <2>1. PICK d \in 0 .. MaxStep : Frame(d)
    BY <1>2 DEF Next
  <2>2. TypeOK' /\ StopKept' /\ SpotFirst'
    BY <2>1, TypesKept, StopKeptOn, SpotFirstKept
  <2>3. GapMeasured'
    BY <2>1, <2>2, GapMeasuredKept
  <2> QED
    BY <2>2, <2>3 DEF IInv
<1> QED
  BY <1>1, <1>2

THEOREM Invariant == Spec => []IInv
  BY Initially, Inductive, PTL DEF Spec

(* The state of the DecisionMaker and of the Parker keeps its types, for    *)
(* all lengths, counts, readings and angles.                                *)
THEOREM TypeCorrect == Spec => []TypeOK
<1>1. IInv => TypeOK
  BY DEF IInv
<1> QED
  BY Invariant, <1>1, PTL

(* A stop at a line is held in every frame that takes its control from the  *)
(* LaneFollower, in LANE_FOLLOWING, DRIVING and the search of PARKING,       *)
(* however the operator switches and for every length of the stop           *)
(* (DecisionMaker.cpp:164-170, :185-190, :207-212).                         *)
THEOREM StopIsHeld == Spec => []StopHeld
<1>1. IInv => StopHeld
  BY DEF IInv, StopKept
<1> QED
  BY Invariant, <1>1, PTL

(* No frame of PARKING moves a car that the safety check of parallelPark     *)
(* has stopped, also after the operator has left PARKING and chosen it      *)
(* again, and no frame at all takes the manoeuvre out of SAFETYSTOP or       *)
(* restarts that of a parked car.  Of the frames of RESUME, DRIVING and      *)
(* LANE_FOLLOWING, which do move the car, nothing is claimed.               *)
THEOREM SafetyStopIsFinal == Spec => SafetyStopFinal
<1> DEFINE A == /\ parkstate = "SAFETYSTOP" =>
                     /\ parkstate' = "SAFETYSTOP"
                     /\ mode' = "PARKING" => vehicleControl'.speed = 0
                /\ isParked => isParked' /\ parkstate' = parkstate
<1>1. ASSUME IInv, NEW d \in 0 .. MaxStep, Frame(d)
      PROVE  A
  <2>1. ASSUME UNCHANGED <<parkstate, isParked>>,
               mode' = "PARKING" => parkstate # "SAFETYSTOP"
        PROVE  A
    BY <2>1
  <2>2. CASE LaneFollowing(d) \/ Driving(d) \/ Resume(d) \/ ResumeDone(d)
    BY <2>1, <2>2
       DEF LaneFollowing, Driving, Resume, ResumeDone, NotCalled, manoeuvre, GoBackToLane
  <2>3. CASE SearchSpot(d)
    <3>1. parkstate = "PHASE0" /\ ~isParked
      BY <1>1, <2>3 DEF IInv, SpotFirst, SearchSpot
    <3> QED
      BY <3>1
  <2>4. CASE StayParked(d)
    <3>1. parkstate = "PHASE4"
      BY <1>1, <2>4 DEF IInv, SpotFirst, StayParked
    <3> QED
      BY <2>1, <2>4, <3>1 DEF StayParked, NotCalled, manoeuvre
  <2>5. CASE Park(d)
    <3>1. ~isParked
      BY <2>5 DEF Park
    <3>2. CASE parkstate = "SAFETYSTOP"
      <4>1. PICK clear : StopForSafety(clear)
        BY <2>5, <3>2 DEF Park, ParallelPark, BlindPhase, SightedPhase
      <4>2. parkstate' = "SAFETYSTOP" /\ controlTemp'.speed = 0
        BY <1>1, <4>1 DEF StopForSafety, IInv, TypeOK, ParkerTypeOK, Controls
      <4> QED
        BY <2>5, <3>1, <4>2 DEF Park
    <3> QED
      BY <3>1, <3>2
  <2> QED
    BY <1>1, <2>2, <2>3, <2>4, <2>5 DEF Frame
<1>2. IInv /\ [Next]_vars => [A]_vars
  BY <1>1 DEF Next
<1> QED
  BY Invariant, <1>2, PTL DEF Spec, SafetyStopFinal

(* The car begins to back beside a gap that is long enough and at most a    *)
(* frame late, for all lengths and steps.                                   *)
THEOREM BacksAtTheGap == Spec => BacksAtGap
<1> DEFINE begins == IF objInFront' THEN gap' + ADJUST_BEFORE_PARKING
                                    ELSE ENOUGH_SPACE_DISTANCE
           A == ~Backing /\ Backing' =>
                  /\ objInFront' => gap' > SPOT_SIZE
                  /\ sinceGap' > begins
                  /\ missed' \/ sinceGap' <= begins + MaxStep
<1>1. ASSUME IInv, NEW d \in 0 .. MaxStep, Frame(d)
      PROVE  A
  <2> USE PathFacts, <1>1
  <2>1. ASSUME UNCHANGED <<search, parkstate>>
        PROVE  A
    BY <2>1 DEF search, Backing
  <2>2. CASE LaneFollowing(d) \/ Driving(d) \/ StayParked(d) \/ Resume(d) \/ ResumeDone(d)
    BY <2>1, <2>2
       DEF LaneFollowing, Driving, StayParked, Resume, ResumeDone, NotCalled, manoeuvre,
           GoBackToLane
  <2>3. CASE SearchSpot(d) /\ Record(d, ~isStopLine)
    <3>1. CASE isStopLine
      BY <2>1, <2>3, <3>1 DEF SearchSpot, NotCalled, manoeuvre
    <3>2. CASE ~isStopLine /\ Backing'
      <4>1. PICK sees, turning : FindSpot(d, sees, turning)
        BY <2>3, <3>2 DEF SearchSpot
      <4>2. ~isSpot /\ parkstate = "PHASE0"
        BY <2>3 DEF SearchSpot, IInv, SpotFirst
      <4>3. GapIsOpen(d) /\ state = "FINDGAPEND"
        BY <3>2, <4>1, <4>2
           DEF FindSpot, Searches, FindObject, FindGapStart, FindGapEnd, EnoughSpace, TooSmall,
               Backing
      <4>4. /\ sinceGap = driven
            /\ missed \/ driven <= ENOUGH_SPACE_DISTANCE
        BY <4>2, <4>3 DEF IInv, GapMeasured
      <4>5. sinceGap' = Capped(sinceGap + d, Farthest) /\ (missed => missed')
        BY <2>3, <4>2, <4>3, Zenon DEF Record, GapPending
      <4>6. Now(d) > ENOUGH_SPACE_DISTANCE /\ ~objInFront'
        BY <4>3 DEF GapIsOpen
      <4> QED
        BY <4>4, <4>5, <4>6 DEF Now, Capped
    <3> QED
      BY <3>1, <3>2
  <2>4. CASE Park(d) /\ Record(d, TRUE)
    <3>1. isSpot
      BY <2>4 DEF Park
    <3>2. CASE parkstate = "PHASE0" /\ Backing'
      <4>1. /\ UNCHANGED search
            /\ state = "CHECKSPACE"
            /\ sinceGap' = Capped(gap + Now(d), Farthest)
            /\ missed => missed'
            /\ Now(d) > ADJUST_BEFORE_PARKING
        BY <2>4, <3>1, <3>2, GapMeasuredAdjusting DEF Backing
      <4>2. /\ objInFront
            /\ gap <= ENOUGH_SPACE_DISTANCE
            /\ gap > SPOT_SIZE
            /\ missed \/ driven <= ADJUST_BEFORE_PARKING
        BY <3>1, <3>2, <4>1 DEF IInv, GapMeasured
      <4>3. Now(d) \in Nat /\ (driven <= ADJUST_BEFORE_PARKING => Now(d) <= ADJUST_BEFORE_PARKING + MaxStep)
        BY DEF Now, Capped
      <4>4. /\ sinceGap' > gap + ADJUST_BEFORE_PARKING
            /\ missed' \/ sinceGap' <= gap + ADJUST_BEFORE_PARKING + MaxStep
        BY <4>1, <4>2, <4>3 DEF Capped
      <4> QED
        BY <4>1, <4>2, <4>4 DEF search
    <3> QED
      BY <3>1, <3>2 DEF Backing
  <2> QED
    BY <2>2, <2>3, <2>4 DEF Frame
<1>2. IInv /\ [Next]_vars => [A]_vars
  BY <1>1 DEF Next
<1> QED
  BY Invariant, <1>2, PTL DEF Spec, BacksAtGap
-----------------------------------------------------------------------------
(* What the frames do to a stop, to the phases and to the way back.         *)

(* Every frame of a stop counts or waits: however the operator switches, the *)
(* car stands until laneFollowing has counted the stop to its end, for every *)
(* length of the stop.  The safety core of StopEnds.                        *)
THEOREM StopsAreCounted == Spec => StopIsCounted
<1> DEFINE Counted ==
      isStopLine =>
        IF mode' # "LANE_FOLLOWING" THEN isStopLine' /\ stopCounter' = stopCounter
        ELSE /\ vehicleControl'.speed = 0
             /\ \/ isStopLine' /\ stopCounter' = stopCounter + 1
                \/ ~isStopLine' /\ stopCounter' = 0 /\ stopCounter = StopFrames
<1>1. ASSUME IInv, isStopLine, NEW d \in 0 .. MaxStep, Frame(d)
      PROVE  Counted
  <2>1. stopCounter \in 1 .. StopFrames /\ speed = 0
    BY <1>1, StopAssumption DEF IInv, TypeOK, StopKept, StopHeld
  <2>2. CASE LaneFollowing(d)
    <3>1. mode' = "LANE_FOLLOWING"
      BY <2>2 DEF LaneFollowing
    <3>2. ASSUME SendLane(Unstopped(2)) PROVE vehicleControl'.speed = 0
      BY <1>1, <2>1, <3>2 DEF SendLane, Unstopped
    <3>3. CASE WakeUp
      BY <3>1, <3>2, <3>3 DEF WakeUp
    <3>4. CASE Sleep
      BY <1>1, <3>1, <3>2, <3>4 DEF Sleep
    <3>5. CASE StopAtLine \/ NoStopLine
      BY <2>1, <3>5 DEF StopAtLine, NoStopLine
    <3> QED
      BY <2>2, <3>3, <3>4, <3>5 DEF LaneFollowing
  <2>3. CASE ~LaneFollowing(d)
    <3>1. mode' # "LANE_FOLLOWING" /\ UNCHANGED stopping
      BY <1>1, <2>3
         DEF Frame, Driving, SearchSpot, Park, StayParked, Resume, ResumeDone, FollowLaneAt
    <3> QED
      BY <1>1, <3>1 DEF stopping
  <2> QED
    BY <2>2, <2>3
<1>2. IInv /\ [Next]_vars => [Counted]_vars
  BY <1>1 DEF Next
<1> QED
  BY Invariant, <1>2, PTL DEF Spec, StopIsCounted

(* A call of parallelPark moves the manoeuvre on by a phase, or the safety  *)
(* check stops it.                                                          *)
LEMMA ParkMovesOn ==
  ASSUME NEW d, ParallelPark(d), parkstate' # parkstate
  PROVE  \/ <<parkstate, parkstate'>> \in PhaseSteps
         \/ parkstate' = "SAFETYSTOP" /\ ~isInSpot /\ parkstate # "PHASE0"
<1>1. PICK clear \in BOOLEAN :
        \/ BlindPhase(d, clear)
        \/ \E front, back \in Distances : SightedPhase(d, front, back, clear)
        \/ Watching /\ StopForSafety(clear)
        \/ parkstate = "SAFETYSTOP" /\ StopForSafety(clear)
  BY DEF ParallelPark
<1>2. CASE BlindPhase(d, clear)
  <2>1. CASE parkstate = "PHASE0" /\ AdjustBeforeParking(d)
    BY <2>1 DEF AdjustBeforeParking, OnTheWay, ExactlyThere, PhaseSteps
  <2>2. CASE parkstate = "PHASE1" /\ BackAroundCorner(d)
    BY <2>2 DEF BackAroundCorner, OnTheWay, ExactlyThere, PhaseSteps
  <2>3. CASE parkstate = "PHASE2" /\ BackingStraight(d)
    BY <2>3 DEF BackingStraight, OnTheWay, ExactlyThere, PhaseSteps
  <2> QED
    BY <1>2, <2>1, <2>2, <2>3 DEF BlindPhase
<1>3. CASE \E front, back \in Distances : SightedPhase(d, front, back, clear)
  <2>1. PICK front \in Distances, back \in Distances : SightedPhase(d, front, back, clear)
    BY <1>3
  <2>2. CASE parkstate = "PHASE3" /\ GetParallelInSpot(d, front, back)
    BY <2>2 DEF GetParallelInSpot, ExactlyThere, PhaseSteps
  <2>3. CASE parkstate = "PHASE4" /\ MidOfSpot(front, back, ClearReadings(clear))
    BY <2>3 DEF MidOfSpot
  <2> QED
    BY <2>1, <2>2, <2>3 DEF SightedPhase
<1>4. CASE Watching /\ StopForSafety(clear)
  BY <1>4 DEF Watching, StopForSafety
<1>5. CASE parkstate = "SAFETYSTOP" /\ StopForSafety(clear)
  BY <1>5 DEF StopForSafety
<1> QED
  BY <1>1, <1>2, <1>3, <1>4, <1>5

(* The parker parks once and in order, whatever states the operator chooses *)
(* and whatever the sensors read.                                           *)
THEOREM ParkingIsOrdered == Spec => ParksInOrder
<1> DEFINE Ordered ==
      /\ isSpot => UNCHANGED search
      /\ parkstate' # parkstate =>
           /\ mode' = "PARKING" /\ isSpot' /\ ~isParked
           /\ ~isSpot => parkstate' = "PHASE1" /\ ~objInFront'
           /\ \/ <<parkstate, parkstate'>> \in PhaseSteps
              \/ parkstate' = "SAFETYSTOP" /\ ~isInSpot /\ parkstate # "PHASE0"
<1>1. ASSUME IInv, NEW d \in 0 .. MaxStep, Frame(d)
      PROVE  Ordered
  <2>1. CASE LaneFollowing(d) \/ Driving(d) \/ StayParked(d) \/ Resume(d) \/ ResumeDone(d)
    <3>1. UNCHANGED <<search, parkstate>>
      BY <2>1
         DEF LaneFollowing, Driving, StayParked, Resume, ResumeDone, NotCalled, manoeuvre,
             GoBackToLane
    <3> QED
      BY <3>1
  <2>2. CASE SearchSpot(d)
    <3>1. ~isSpot /\ parkstate = "PHASE0" /\ ~isParked /\ mode' = "PARKING"
      BY <1>1, <2>2 DEF SearchSpot, IInv, SpotFirst
    <3>2. CASE isStopLine
      BY <2>2, <3>2 DEF SearchSpot, NotCalled, manoeuvre
    <3>3. CASE ~isStopLine
      <4>1. PICK sees, turning : FindSpot(d, sees, turning)
        BY <2>2, <3>3 DEF SearchSpot
      <4>2. CASE GapIsOpen(d)
        BY <3>1, <4>2 DEF GapIsOpen, PhaseSteps
      <4>3. CASE EnoughSpace(d)
        BY <3>1, <4>3 DEF EnoughSpace
      <4>4. CASE FindObject(sees) \/ FindGapStart(sees) \/ FindGapEnd(d, sees) \/ TooSmall(d)
        BY <3>1, <4>4 DEF FindObject, FindGapStart, FindGapEnd, TooSmall
      <4> QED
        BY <4>1, <4>2, <4>3, <4>4 DEF FindSpot
    <3> QED
      BY <3>2, <3>3
  <2>3. CASE Park(d)
    <3>1. isSpot /\ ~isParked /\ mode' = "PARKING" /\ ParallelPark(d)
      BY <2>3 DEF Park
    <3>2. UNCHANGED search /\ isSpot'
      BY <3>1 DEF ParallelPark, search
    <3> QED
      BY <3>1, <3>2, ParkMovesOn
  <2> QED
    BY <1>1, <2>1, <2>2, <2>3 DEF Frame
<1>2. IInv /\ [Next]_vars => [Ordered]_vars
  BY <1>1 DEF Next
<1> QED
  BY Invariant, <1>2, PTL DEF Spec, ParksInOrder

(* goBackToLane leads back to the lane once and in order, however often     *)
(* RESUME is chosen.                                                        *)
THEOREM WayBackIsOrdered == Spec => WayBackInOrder
<1> DEFINE Back == outOfSpot => resume
           Ordered == /\ resume => resume'
                      /\ outOfSpot => outOfSpot'
                      /\ way' # way => mode' = "RESUME" /\ ~outOfSpot
                      /\ outOfSpot' => resume
<1>1. Init => Back
  BY DEF Init, ParkerInit
<1>2. Back /\ [Next]_vars => [Ordered]_vars /\ Back'
  <2> SUFFICES ASSUME Back, [Next]_vars PROVE [Ordered]_vars /\ Back'
    OBVIOUS
  <2>1. CASE UNCHANGED vars
    BY <2>1 DEF vars, parkerVars, way
  <2>2. ASSUME NEW d \in 0 .. MaxStep, Frame(d) PROVE Ordered
    <3>1. ASSUME UNCHANGED way PROVE Ordered
      BY <3>1 DEF way
    <3>2. CASE \/ LaneFollowing(d) \/ Driving(d) \/ SearchSpot(d) \/ Park(d)
               \/ StayParked(d) \/ ResumeDone(d)
      BY <3>1, <3>2
         DEF LaneFollowing, Driving, SearchSpot, FindSpot, Park, ParallelPark, StayParked,
             ResumeDone, NotCalled
    <3>3. CASE Resume(d)
      BY <3>3
         DEF Resume, GoBackToLane, ReverseFirst, ReversedEnough, PullOut, BackOnLane, way
    <3> QED
      BY <2>2, <3>2, <3>3 DEF Frame
  <2>3. Ordered => Back'
    OBVIOUS
  <2> QED
    BY <2>1, <2>2, <2>3 DEF Next
<1> QED
  BY <1>1, <1>2, PTL DEF Spec, WayBackInOrder
=============================================================================
