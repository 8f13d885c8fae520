-------------------------- MODULE MCNdjsonDecoder --------------------------
(* Every output of up to eight bytes in every cut, with frames of at most   *)
(* three bytes that are collected in blocks of two.                         *)
EXTENDS NdjsonDecoder

=============================================================================
