---------------------------- MODULE MCOvertaker ----------------------------
(* Readings on each side of every range, and a lane that bends each way.   *)
EXTENDS Overtaker

MCReadings == {-1, 2, 4, 6}
MCAngles == {-50, 50}
=============================================================================
