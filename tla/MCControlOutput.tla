-------------------------- MODULE MCControlOutput --------------------------
(* ControlOutput with a few commands (drive to the left, an unknown speed   *)
(* to the right), a throttle channel that is off, braking or driving, and a *)
(* steering channel at both ends, in the centre and above the valid range.  *)
EXTENDS ControlOutput

MCCommands  == {[speed |-> 2, angle |-> 60], [speed |-> 9, angle |-> 130]}
MCThrottles == {50, 900, 1600}
MCSteerings == {1100, 1590, 2100, 2400}
=============================================================================
