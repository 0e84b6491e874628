------------------------------- MODULE MCEvalSet -------------------------------
(* EvalSet in an arena with one box and one cylinder.  Of the four points  *)
(* one is too close to the cylinder, one pair is too near and one too far. *)
EXTENDS EvalSet

MCDraws == {<<2, 0>>, <<2, 1>>, <<-2, 0>>, <<1, 0>>}
MCBoxes == {[cx |-> 3, cy |-> 3, hx |-> 1, hy |-> 1]}
MCCylinders == {[cx |-> 0, cy |-> 0, r |-> 1]}
=============================================================================
