--------------------------- MODULE OrderedDelivery ---------------------------
(***************************************************************************)
(* What a user of the target's input may rely on: submitted messages are   *)
(* accepted one at a time in the order of their submission, until the      *)
(* channel fails; then every message still open is rejected and none is    *)
(* submitted or accepted any more.                                         *)
(***************************************************************************)
EXTENDS Naturals

CONSTANT MaxSends  \* bound on the submitted messages

VARIABLES outcome,  \* of each message, by its sequence number
          failed    \* the channel has failed

Open == {m \in 1..MaxSends : outcome[m] = "queued"}

Init ==
  /\ outcome = [m \in 1..MaxSends |-> "unsent"]
  /\ failed = FALSE

Submit(m) ==
  /\ ~failed
  /\ outcome[m] = "unsent"
  /\ \A k \in 1..m - 1 : outcome[k] # "unsent"
  /\ outcome' = [outcome EXCEPT ![m] = "queued"]
  /\ UNCHANGED failed

Accept(m) ==
  /\ ~failed
  /\ outcome[m] = "queued"
  /\ \A k \in 1..m - 1 : outcome[k] = "resolved"
  /\ outcome' = [outcome EXCEPT ![m] = "resolved"]
  /\ UNCHANGED failed

(* Submitting may fail the channel together with the message submitted. *)
Fail ==
  /\ ~failed
  /\ failed' = TRUE
  /\ outcome' = [m \in 1..MaxSends |->
                   IF m \in Open THEN "rejected" ELSE outcome[m]]

SubmitAndFail(m) ==
  /\ ~failed
  /\ outcome[m] = "unsent"
  /\ \A k \in 1..m - 1 : outcome[k] # "unsent"
  /\ failed' = TRUE
  /\ outcome' = [k \in 1..MaxSends |->
                   IF k \in Open \cup {m} THEN "rejected" ELSE outcome[k]]

AcceptAndFail(m) ==
  /\ ~failed
  /\ outcome[m] = "queued"
  /\ \A k \in 1..m - 1 : outcome[k] = "resolved"
  /\ failed' = TRUE
  /\ outcome' = [k \in 1..MaxSends |->
                   IF k = m THEN "resolved"
                   ELSE IF k \in Open THEN "rejected" ELSE outcome[k]]

Next == Fail \/ \E m \in 1..MaxSends : \/ Submit(m) \/ Accept(m)
                                       \/ SubmitAndFail(m) \/ AcceptAndFail(m)

Spec == Init /\ [][Next]_<<outcome, failed>>

=============================================================================
