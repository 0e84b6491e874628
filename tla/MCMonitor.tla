------------------------------- MODULE MCMonitor -------------------------------
(* Monitor with one goal the policy node takes and one it does not.        *)
EXTENDS Monitor

CONSTANTS here, there, s1

MCGoals == {here}
MCForeign == {there}
MCStreams == {s1}
=============================================================================
