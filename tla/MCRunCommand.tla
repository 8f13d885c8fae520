---------------------------- MODULE MCRunCommand ----------------------------
(* One run of the command among other programs that touch its report.      *)
EXTENDS RunCommand

=============================================================================
