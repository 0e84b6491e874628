---------------------------- MODULE MCPolicyNode ----------------------------
(* PolicyNode on a small instance: clearance 0 trips the safety gate, 1 is  *)
(* a collision the gate lets through, 2 is clear; pose p1 is within         *)
(* tolerance of goal g1 only, p2 of none.                                   *)
EXTENDS PolicyNode

CONSTANTS p1, p2, g1, g2, stop, fwd

MCGoals == {g1, g2}
MCGoal == {g1}
MCPoses == {p1, p2}
MCWithin == {<<p1, g1>>}
MCClearances == {0, 1, 2}
MCActions == {stop, fwd}
=============================================================================
