---------------------------- MODULE MCStepBarrier ----------------------------
(* StepBarrier with two actions and one or two starts. *)
EXTENDS StepBarrier

CONSTANTS stop, fwd, s1, s2

MCActions == {stop, fwd}
MCStart == {s1}
MCPlaces == {s1, s2}
=============================================================================
