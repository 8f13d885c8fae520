-------------------------- MODULE MCSerializedWriter -------------------------
(* Five sends into a queue of three messages and seven bytes,             *)
(* with payloads of one or two bytes: either limit can be the one that bites.*)
EXTENDS SerializedWriter

=============================================================================
