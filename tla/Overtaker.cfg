CONSTANTS
  OVT_TRIGGER = 5
  INIT_LS_DIST = 1
  CORNER_DET_MARGIN = 0
  ADJUST_L_S_DIST = 1
  RIGHT_SWITCH_DIST = 3
  RightTurnMore = 1
  LeftTurnLess = 1
  ADJUST_R_S_DIST = 1
  US_SENSOR_RANGE = 5
  US_FRONT_RIGHT_RANGE = 3
  NUM_OF_READINGS = 3
  AverageFrames = 2
  MaxFrames = 3
  MaxStep = 1
  Readings <- MCReadings
  Angles <- MCAngles

SPECIFICATION Spec

INVARIANT TypeOK
INVARIANT ControlFitsManoeuvre
INVARIANT LegsMeasured
PROPERTY RightSideHeld
PROPERTY ChangesLaneAsPromised
PROPERTY ReturnEnds
