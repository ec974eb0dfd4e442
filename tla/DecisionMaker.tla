---------------------------- MODULE DecisionMaker ----------------------------
(***************************************************************************)
(* Odroid/DecisionMaker/src/decisionmaker/DecisionMaker.cpp: the module     *)
(* that decides what the car does.  A step is one pass of the loop of body: *)
(* the operator's state, the recommendation of the LaneFollower and the     *)
(* sensor values are read, one of four branches runs, and vehicleControl is *)
(* sent.  The operator may choose any state before any frame.  Of the       *)
(* Overtaker only its override flag and its control are read; what they do  *)
(* is the subject of Overtaker and LaneChange, here they are free.          *)
(***************************************************************************)
EXTENDS Parker

CONSTANTS
  StopFrames,   \* 50, the value of stopCounter at which the car goes on
  LaneAngles    \* steering the LaneFollower recommends

ASSUME StopAssumption == StopFrames \in Nat \ {0}
ASSUME AngleAssumption == LaneAngles \subseteq {"straight", "left", "right"}

VARIABLES
  mode,            \* state, as the operator chose it for the last frame
  speed,           \* speed while the car is stopped at a line, else 0
  isStopLine,      \* isStopLine
  stopCounter,     \* stopCounter
  overriding,      \* what ovt.getIsOverriding() returned in a last frame of DRIVING, else FALSE
  vehicleControl,  \* vehicleControl, as sent in the last frame
  sinceGap,        \* history: path driven since the start of the gap was seen, at most Farthest
  missed           \* history: meanwhile there was a frame that did not call the parker

stopping == <<isStopLine, stopCounter>>
history == <<sinceGap, missed>>
vars == <<parkerVars, mode, speed, stopping, overriding, vehicleControl, history>>

Modes == {"LANE_FOLLOWING", "DRIVING", "PARKING", "RESUME"}

Init ==
  /\ ParkerInit
  /\ mode = "DRIVING"
  /\ speed = 0
  /\ isStopLine = FALSE
  /\ stopCounter = 0
  /\ overriding = FALSE
  /\ vehicleControl = [speed |-> 2, steering |-> "straight"]
  /\ sinceGap = 0
  /\ missed = FALSE

-----------------------------------------------------------------------------
(* laneFollowing: the stop at a line is handled in LANE_FOLLOWING only.  s  *)
(* is the speed sent; outside a stop every branch sets it before it reads   *)
(* it, so the model keeps it only during a stop.                            *)
SendLane(s) ==
  /\ \E angle \in LaneAngles : vehicleControl' = [speed |-> s, steering |-> angle]
  /\ speed' = IF isStopLine' THEN s ELSE 0

(* The speed a branch chooses, unless the car is stopped at a line.        *)
Unstopped(s) == IF isStopLine THEN speed ELSE s

\* Mutant: only the counter is reset.
MutWakeUp ==
  /\ stopCounter = StopFrames
  /\ stopCounter' = 0
  /\ UNCHANGED isStopLine
  /\ SendLane(Unstopped(2))

WakeUp ==
  /\ stopCounter = StopFrames
  /\ stopCounter' = 0
  /\ isStopLine' = FALSE
  /\ SendLane(Unstopped(2))

Sleep ==
  /\ stopCounter \in 1 .. (StopFrames - 1)
  /\ stopCounter' = stopCounter + 1
  /\ UNCHANGED isStopLine
  /\ SendLane(Unstopped(2))

StopAtLine ==
  /\ stopCounter = 0
  /\ stopCounter' = 1
  /\ isStopLine' = TRUE
  /\ SendLane(0)

NoStopLine ==
  /\ stopCounter = 0
  /\ UNCHANGED stopping
  /\ SendLane(Unstopped(2))

(* The other states follow the lane without looking for a line.            *)
FollowLaneAt(s) == UNCHANGED stopping /\ SendLane(Unstopped(s))

-----------------------------------------------------------------------------
(* The branches of the switch; d is the path driven since the last frame.   *)
LaneFollowing(d) ==
  /\ mode' = "LANE_FOLLOWING"
  /\ WakeUp \/ Sleep \/ StopAtLine \/ NoStopLine
  /\ NotCalled(d)
  /\ overriding' = FALSE

\* Mutant: the branch that follows the lane does not ask for a stop.
MutDriving(d) ==
  /\ mode' = "DRIVING"
  /\ NotCalled(d)
  /\ overriding' \in BOOLEAN
  /\ \E angle \in LaneAngles : vehicleControl' = [speed |-> 1, steering |-> angle]
  /\ speed' = IF isStopLine /\ ~overriding' THEN 1 ELSE speed
  /\ UNCHANGED stopping

Driving(d) ==
  /\ mode' = "DRIVING"
  /\ NotCalled(d)
  /\ \/ /\ overriding' = FALSE
        /\ FollowLaneAt(1)
     \/ /\ overriding' = TRUE
        /\ \E angle \in LaneAngles : vehicleControl' = [speed |-> 1, steering |-> angle]
        /\ UNCHANGED <<speed, stopping>>

\* Mutant: a spot is searched in every frame.
MutSearchSpot(d) ==
  /\ mode' = "PARKING"
  /\ IF isStopLine
       THEN NotCalled(d)
       ELSE \E sees \in {"object", "gap", "neither"} :
              FindSpot(d, sees, vehicleControl.steering # "straight")
  /\ FollowLaneAt(1)
  /\ overriding' = FALSE

SearchSpot(d) ==
  /\ mode' = "PARKING"
  /\ ~isSpot
  /\ IF isStopLine
       THEN NotCalled(d)
       ELSE \E sees \in {"object", "gap", "neither"} :
              FindSpot(d, sees, vehicleControl.steering # "straight")
  /\ FollowLaneAt(1)
  /\ overriding' = FALSE

Park(d) ==
  /\ mode' = "PARKING"
  /\ isSpot
  /\ ~isParked
  /\ ParallelPark(d)
  /\ vehicleControl' = controlTemp'
  /\ overriding' = FALSE
  /\ UNCHANGED <<speed, stopping>>

StayParked(d) ==
  /\ mode' = "PARKING"
  /\ isSpot
  /\ isParked
  /\ NotCalled(d)
  /\ overriding' = FALSE
  /\ UNCHANGED <<vehicleControl, speed, stopping>>

Resume(d) ==
  /\ mode' = "RESUME"
  /\ ~outOfSpot
  /\ \E back \in Distances : GoBackToLane(d, back)
  /\ vehicleControl' = controlTemp'
  /\ overriding' = FALSE
  /\ UNCHANGED <<speed, stopping>>

(* The car is back: only the variable state changes, until the next frame. *)
ResumeDone(d) ==
  /\ mode' = "RESUME"
  /\ outOfSpot
  /\ NotCalled(d)
  /\ overriding' = FALSE
  /\ UNCHANGED <<vehicleControl, speed, stopping>>

(* What the history records: the path from the start of a gap until the     *)
(* manoeuvre begins, and whether the parker was called on all of it.        *)
GapPending ==
  /\ state \in {"FINDGAPEND", "CHECKSPACE"}
  /\ isSpot => parkstate = "PHASE0"

Record(d, called) ==
  /\ sinceGap' = IF GapPending THEN Capped(sinceGap + d, Farthest) ELSE 0
  /\ missed' = (GapPending /\ (missed \/ ~called))

Frame(d) ==
  \/ LaneFollowing(d) /\ Record(d, FALSE)
  \/ Driving(d) /\ Record(d, FALSE)
  \/ SearchSpot(d) /\ Record(d, ~isStopLine)
  \/ Park(d) /\ Record(d, TRUE)
  \/ StayParked(d) /\ Record(d, FALSE)
  \/ Resume(d) /\ Record(d, FALSE)
  \/ ResumeDone(d) /\ Record(d, FALSE)

Next == \E d \in 0 .. MaxStep : Frame(d)

(* The module is time-triggered: there is always a next frame.             *)
Spec == Init /\ [][Next]_vars /\ WF_vars(Next)

-----------------------------------------------------------------------------
(* Types.                                                                  *)
TypeOK ==
  /\ ParkerTypeOK
  /\ mode \in Modes
  /\ speed \in {0, 1, 2}
  /\ isStopLine \in BOOLEAN
  /\ stopCounter \in 0 .. StopFrames
  /\ overriding \in BOOLEAN
  /\ vehicleControl \in Controls
  /\ sinceGap \in 0 .. Farthest
  /\ missed \in BOOLEAN

(* The last frame took its control from the LaneFollower, in whichever of    *)
(* the three states that do.                                               *)
FollowedLane ==
  \/ mode = "LANE_FOLLOWING"
  \/ mode = "DRIVING" /\ ~overriding
  \/ mode = "PARKING" /\ ~isSpot

(* A car stopped at a line stands: the flag and the counter never disagree  *)
(* about a stop, and whatever the operator chooses before, during and after *)
(* it, no frame that follows the lane, in any of the three states that do,  *)
(* sends a speed until the stop has been counted to its end.  Nothing is    *)
(* claimed of the frames in which the overtaker or the parker steers: they  *)
(* move the car.  The other side of the latch is that DRIVING and PARKING   *)
(* do not count, so a stop that is on when they are chosen lasts as long as *)
(* they do, where the report has the car follow the lane (ch2.tex:27-32).   *)
StopHeld ==
  /\ isStopLine <=> stopCounter > 0
  /\ isStopLine /\ FollowedLane => vehicleControl.speed = 0

(* The stop ends if LANE_FOLLOWING goes on: then the car drives at speed 2  *)
(* or stops again at a line.                                                *)
StopEnds == isStopLine ~> (~isStopLine \/ mode # "LANE_FOLLOWING")

(* A stop is counted to its end, frame by frame of LANE_FOLLOWING, and the  *)
(* last of these frames still stands; a frame of another state neither      *)
(* counts nor ends it, so however the operator switches, the car stands for *)
(* StopFrames + 1 frames of LANE_FOLLOWING.  The safety core of StopEnds.   *)
StopIsCounted ==
  [][ isStopLine =>
        IF mode' # "LANE_FOLLOWING" THEN isStopLine' /\ stopCounter' = stopCounter
        ELSE /\ vehicleControl'.speed = 0
             /\ \/ isStopLine' /\ stopCounter' = stopCounter + 1
                \/ ~isStopLine' /\ stopCounter' = 0 /\ stopCounter = StopFrames ]_vars

(* The parker parks once and in order, over any sequence of states the      *)
(* operator chooses: a spot that was found is kept, the phases follow each   *)
(* other and none is skipped but the adjustment in an open gap, only a       *)
(* frame in PARKING moves on, and the safety check stops the manoeuvre only *)
(* while the car is not in the spot.                                        *)
PhaseSteps ==
  {<<"PHASE0", "PHASE1">>, <<"PHASE1", "PHASE2">>, <<"PHASE2", "PHASE3">>,
   <<"PHASE3", "PHASE4">>}

ParksInOrder ==
  [][ /\ isSpot => UNCHANGED search
      /\ parkstate' # parkstate =>
           /\ mode' = "PARKING" /\ isSpot' /\ ~isParked
           /\ ~isSpot => parkstate' = "PHASE1" /\ ~objInFront'
           /\ \/ <<parkstate, parkstate'>> \in PhaseSteps
              \/ parkstate' = "SAFETYSTOP" /\ ~isInSpot /\ parkstate # "PHASE0" ]_vars

(* The way back goes forward only: the car pulls out after it has backed as  *)
(* far as it may, is on the lane after it has pulled out, and is back once. *)
WayBackInOrder ==
  [][ /\ resume => resume'
      /\ outOfSpot => outOfSpot'
      /\ way' # way => mode' = "RESUME" /\ ~outOfSpot
      /\ outOfSpot' => resume ]_vars

(* However often the operator leaves PARKING and comes back, the frames of    *)
(* PARKING leave the car where the safety check stopped it: none of them    *)
(* sends a speed or goes on with the manoeuvre.  The other states do not    *)
(* look at the stop: RESUME and DRIVING move the car.  A parked car stays    *)
(* parked in every state.                                                  *)
SafetyStopFinal ==
  [][ /\ parkstate = "SAFETYSTOP" =>
           /\ parkstate' = "SAFETYSTOP"
           /\ mode' = "PARKING" => vehicleControl'.speed = 0
      /\ isParked => isParked' /\ parkstate' = parkstate ]_vars

(* The car begins to back into a gap that is long enough: one with an       *)
(* object at its end when it has passed this end by more than               *)
(* ADJUST_BEFORE_PARKING, an open one when it is ENOUGH_SPACE_DISTANCE past  *)
(* its start, and at most a frame later, if the parker was called in every  *)
(* frame since the start of the gap.                                        *)
Backing == isSpot /\ parkstate # "PHASE0"

BacksAtGap ==
  [][ ~Backing /\ Backing' =>
        LET begins == IF objInFront' THEN gap' + ADJUST_BEFORE_PARKING
                                     ELSE ENOUGH_SPACE_DISTANCE
        IN /\ objInFront' => gap' > SPOT_SIZE
           /\ sinceGap' > begins
           /\ missed' \/ sinceGap' <= begins + MaxStep ]_vars

(* The comment of getParallelInSpot: "If the IR back sensor is bigger than  *)
(* the limit then go back else switch to go forward".                       *)
ReversesWithRoom == mode = "PARKING" /\ vehicleControl.speed < 0 => room
=============================================================================
