----------------------------- MODULE MCFaultGate -----------------------------
(* Two gates on one transport and a target that may answer twice.          *)
EXTENDS FaultGate

=============================================================================
