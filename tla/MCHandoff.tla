----------------------------- MODULE MCHandoff -----------------------------
(***************************************************************************)
(* Instances of Handoff: model values for invocations, CPU 0 to 3.         *)
(***************************************************************************)
EXTENDS Handoff

CONSTANTS p1, p2

MCCpus == 0 .. 3
============================================================================
