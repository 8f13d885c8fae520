------------------------------ MODULE MCSession ------------------------------
(* One session from open() to the end of close().                           *)
EXTENDS Session

=============================================================================
