--------------------------- MODULE MCMessageQueue ---------------------------
(* Six messages of one or two bytes and seven calls, with room for three  *)
(* messages, four bytes and two waiting calls: each limit is met.          *)
EXTENDS MessageQueue

=============================================================================
