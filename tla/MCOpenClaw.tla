----------------------------- MODULE MCOpenClaw -----------------------------
(***************************************************************************)
(* The OpenClaw plane on two approvals and two backend processes.          *)
(***************************************************************************)
EXTENDS OpenClaw, TLC

Symmetry == Permutations(Approval) \cup Permutations(Proc)
=============================================================================
