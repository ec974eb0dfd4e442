CONSTANTS
  MaxLeaked = 2

SPECIFICATION Spec

INVARIANT TypeOK
INVARIANT TransferOnClaimed
INVARIANT ReleasedOnce
PROPERTY LinkComesBack
PROPERTY UnplugIsNoticed
PROPERTY StopEndsThread
