CONSTANTS
  SPOT_SIZE = 1
  ENOUGH_SPACE_DISTANCE = 2
  ADJUST_BEFORE_PARKING = 1
  BACK_AROUND_CORNER = 1
  BACKING_STRAIGHT = 2
  PARALLEL_IN_SPOT = 2
  BackToLane = 1
  OCCURRENCE = 2
  InSpotReadings = 2
  CurveFrames = 2
  SENSORS_IN_SPOT = 19
  SENSOR_SAFETY_MIN = 4
  SENSOR_SAFETY_MAX = 6
  IRSENSOR_DISTANCE_MIN = 5
  SENSOR_DIFFERENCE = 15
  DISTANCE_FROM_BACK_OBJECT = 8
  Distances <- MCDistances
  MaxStep = 1
  StopFrames = 2
  LaneAngles <- MCLaneAngles

SPECIFICATION Spec

INVARIANT TypeOK
INVARIANT StopHeld
PROPERTY StopEnds
PROPERTY SafetyStopFinal
PROPERTY BacksAtGap
