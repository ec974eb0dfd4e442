CONSTANTS
  US_SENSORS = 2
  Echoes = {40}
  StartTicks = 104
  MaxTicks = 105

SPECIFICATION Spec

INVARIANT TypeOK
INVARIANT TornOnlyAtCarry
PROPERTY ZerosDiscarded
PROPERTY QuietSettles
