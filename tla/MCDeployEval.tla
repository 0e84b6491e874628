----------------------------- MODULE MCDeployEval -----------------------------
(* DeployEval needs numbers only; the configurations give them. *)
EXTENDS DeployEval
=============================================================================
