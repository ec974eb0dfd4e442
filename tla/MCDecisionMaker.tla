--------------------------- MODULE MCDecisionMaker ---------------------------
(* Readings on each side of every limit, in hundredths of a metre, and a    *)
(* lane that is straight or bends.                                          *)
EXTENDS DecisionMaker

MCDistances == {5, 8, 12, 40}
MCLaneAngles == {"straight", "left"}
=============================================================================
