---------------------------- MODULE MCSettleProbe ----------------------------
(* A window of four ticks, reads of up to two, and an effect that changes  *)
(* twice at any moment of them.                                            *)
EXTENDS SettleProbe

=============================================================================
