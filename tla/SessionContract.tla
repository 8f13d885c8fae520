-------------------------- MODULE SessionContract --------------------------
(***************************************************************************)
(* What the runner (experiment/runner.ts) may rely on of one session: it   *)
(* is opened or fails to open, it is closed once, and each way to its end  *)
(* says whether the target is known to be gone.  The runner spawns the     *)
(* next target only after a "proven" end.                                  *)
(***************************************************************************)
VARIABLES
  alive,   \* a target process may still act
  phase,   \* "opening", "open", "closing", "over"
  report   \* "none", "proven", "unproven"

vars == <<alive, phase, report>>

Init ==
  /\ alive \in BOOLEAN
  /\ phase = "opening"
  /\ report = "none"

(* A target may end by itself at any time; none ever comes back. *)
TargetDies == alive /\ alive' = FALSE /\ UNCHANGED <<phase, report>>

Opened == phase = "opening" /\ phase' = "open" /\ UNCHANGED <<alive, report>>

(* close() of an open session, or the cleanup of one that failed to open. *)
CloseBegins ==
  /\ phase \in {"opening", "open"}
  /\ phase' = "closing"
  /\ UNCHANGED <<alive, report>>

(* Only a dead target is proven to be gone; giving up is always possible. *)
End ==
  /\ phase \in {"opening", "closing"}
  /\ phase' = "over"
  /\ report' \in IF alive THEN {"unproven"} ELSE {"proven", "unproven"}
  /\ UNCHANGED alive

Next == TargetDies \/ Opened \/ CloseBegins \/ End

Safety == Init /\ [][Next]_vars

(* open() and close() return; nobody has to close an open session. *)
Spec == Safety /\ WF_vars(Opened \/ End)

=============================================================================
