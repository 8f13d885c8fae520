---------------------------- MODULE CallContract ----------------------------
(***************************************************************************)
(* What a user of one connection may rely on: every call is settled once,  *)
(* by an answer, by giving it up, or by the failure of the connection,     *)
(* which settles all open calls and begins no other.  A target may make up *)
(* an answer (by 0), but the answer to one call never settles another.     *)
(***************************************************************************)
EXTENDS Naturals, Sequences

VARIABLES outcome,  \* of each call, in the order in which they were begun
          failed    \* the connection has ended

Open == [kind |-> "open", by |-> 0]
Answered(n) == [kind |-> "answered", by |-> n]
Abandoned == [kind |-> "abandoned", by |-> 0]
Lost == [kind |-> "lost", by |-> 0]

Init ==
  /\ outcome = <<>>
  /\ failed = FALSE

Begin ==
  /\ ~failed
  /\ outcome' = Append(outcome, Open)
  /\ UNCHANGED failed

Settle(n, result) ==
  /\ ~failed
  /\ outcome[n] = Open
  /\ outcome' = [outcome EXCEPT ![n] = result]
  /\ UNCHANGED failed

AllLost(calls) ==
  [n \in DOMAIN calls |-> IF calls[n] = Open THEN Lost ELSE calls[n]]

Fail ==
  /\ ~failed
  /\ failed' = TRUE
  /\ outcome' = AllLost(outcome)

(* Settling one call may end the connection, and with it every other call. *)
SettleAndFail(n, result) ==
  /\ ~failed
  /\ outcome[n] = Open
  /\ failed' = TRUE
  /\ outcome' = AllLost([outcome EXCEPT ![n] = result])

Next ==
  \/ Begin \/ Fail
  \/ \E n \in DOMAIN outcome :
       \E result \in {Answered(n), Answered(0), Abandoned} :
         Settle(n, result) \/ SettleAndFail(n, result)

Spec == Init /\ [][Next]_<<outcome, failed>>

=============================================================================
