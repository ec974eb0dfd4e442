----------------------------- MODULE LaneChange -----------------------------
(***************************************************************************)
(* What the Overtaker promises the DecisionMaker, without sensors, counters *)
(* or distances: who steers the car, and which lane it is on.  The car      *)
(* changes lane only while the overtaker steers, the flag of the lane       *)
(* changes in the step in which control is given back, and left and right   *)
(* alternate.  An overtaking can be given up at any time; that leaves both  *)
(* flags as they are, and it may start again in the same step.              *)
(***************************************************************************)
VARIABLES
  phase,                 \* "lane", "toLeft", "besides", "toRight"
  isOverridingControls,  \* the overtaker steers, not the LaneFollower
  leftLane               \* the car is on the left lane

vars == <<phase, isOverridingControls, leftLane>>

TypeOK ==
  /\ phase \in {"lane", "toLeft", "besides", "toRight"}
  /\ isOverridingControls \in BOOLEAN
  /\ leftLane \in BOOLEAN

Init ==
  /\ phase = "lane"
  /\ isOverridingControls = FALSE
  /\ leftLane = FALSE

\* An obstacle is ahead.
StartLeft ==
  /\ phase' = "toLeft"
  /\ isOverridingControls' = TRUE
  /\ UNCHANGED leftLane

\* The car is on the left lane.
ArriveLeft ==
  /\ phase = "toLeft"
  /\ phase' = "besides"
  /\ isOverridingControls' = FALSE
  /\ leftLane' = TRUE

\* The obstacle has been passed.
StartRight ==
  /\ phase = "besides"
  /\ phase' = "toRight"
  /\ isOverridingControls' = TRUE
  /\ UNCHANGED leftLane

\* The car is on the right lane.
ArriveRight ==
  /\ phase = "toRight"
  /\ phase' = "lane"
  /\ isOverridingControls' = FALSE
  /\ leftLane' = FALSE

\* The overtaking is given up.
GiveUp ==
  /\ phase' = "lane"
  /\ UNCHANGED <<isOverridingControls, leftLane>>

Next == StartLeft \/ ArriveLeft \/ StartRight \/ ArriveRight \/ GiveUp

Spec == Init /\ [][Next]_vars

(* What the promise is for: while a lane is changed the overtaker steers,   *)
(* beside the obstacle it does not, and the car turns right only when it is *)
(* on the left lane.                                                       *)
FlagsFitPhase ==
  /\ phase \in {"toLeft", "toRight"} => isOverridingControls
  /\ phase = "besides" => ~isOverridingControls
  /\ phase \in {"besides", "toRight"} => leftLane
=============================================================================
