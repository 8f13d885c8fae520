------------------------------ MODULE FaultGate ------------------------------
(***************************************************************************)
(* experiment/fault-gate.ts: a transport wrapped around the stdio process  *)
(* transport that injects one fault at a time.  A suppression gate         *)
(* withholds the first successful response to one request; a disconnect    *)
(* gate cuts the transport once the local write of one tools/call request  *)
(* was accepted.                                                           *)
(*                                                                         *)
(* Callbacks of four origins interleave: the client's reader, the promise  *)
(* of the claimed write, a setImmediate callback, and the promise of the   *)
(* terminal operation, besides the lease's owner and close().  One action  *)
(* is one such callback, which runs to completion.                         *)
(*                                                                         *)
(* The wrapped transport and the target are modelled from their use here.  *)
(***************************************************************************)
EXTENDS Naturals, Sequences

CONSTANTS MaxArms,      \* bound on the gates armed on one transport
          MaxMessages   \* bound on the messages the target sends

ASSUME BoundsAssumption == MaxArms \in Nat /\ MaxMessages \in Nat

VARIABLES
  gate,      \* the latest gate, kept by its lease when no longer active
  active,    \* #activeGate is that gate
  arms,      \* gates armed so far; also the request id the latest one guards
  mode,      \* #terminalMode
  terminal,  \* #terminalPromise
  calls,     \* terminal operations invoked on the wrapped transport
  inner,     \* the wrapped transport
  inbox,     \* messages it has queued
  sent,      \* messages the target has sent
  reader,    \* the receive() call of the client
  taken,     \* what its race resolved with, before the continuation runs
  withheld   \* successful responses of the guarded request not passed on

vars == <<gate, active, arms, mode, terminal, calls, inner, inbox, sent,
          reader, taken, withheld>>
channel == <<inner, inbox, sent>>
ending == <<mode, terminal, calls, inner>>

SuppressionOutcomes ==
  {"pending", "suppressed", "forwarded", "disarmed", "transport_terminated"}
DisconnectOutcomes ==
  {"pending", "resolved", "disarmed", "disconnect_not_applied",
   "write_not_accepted"}
Outcomes == SuppressionOutcomes \cup DisconnectOutcomes

(* write stands for claimed and receipt: a claimed request is no longer    *)
(* unsent, and it has a receipt once accepted.                             *)
Gates ==
  [kind : {"none", "suppression", "disconnect"}, outcome : Outcomes,
   write : {"unsent", "pending", "accepted", "rejected"},
   disconnectConfirmed : BOOLEAN, disconnectScheduled : BOOLEAN,
   responseHandled : BOOLEAN, responseIntercepted : BOOLEAN]

NewGate(kind) ==
  [kind |-> kind, outcome |-> "pending", write |-> "unsent",
   disconnectConfirmed |-> FALSE, disconnectScheduled |-> FALSE,
   responseHandled |-> FALSE, responseIntercepted |-> FALSE]

(* A response to a guarded request, or any other message (id 0). *)
ResponseKinds == {"tool_success", "other_response"}
Messages == [id : 0..MaxArms, kind : ResponseKinds]
TransportError == [id |-> 0, kind |-> "error"]

TypeOK ==
  /\ gate \in Gates
  /\ gate.kind = "suppression" => gate.outcome \in SuppressionOutcomes
  /\ gate.kind = "disconnect" => gate.outcome \in DisconnectOutcomes
  /\ active \in BOOLEAN
  /\ arms \in 0..MaxArms
  /\ mode \in {"none", "close", "disconnect"}
  /\ terminal \in {"none", "pending", "success", "failure"}
  /\ calls \in Nat
  /\ inner \in {"open", "ended", "terminated"}
  /\ inbox \in Seq(Messages)
  /\ sent \in 0..MaxMessages
  /\ reader \in {"idle", "waiting", "failed"}
  /\ taken \in {<<>>, <<TransportError>>} \cup {<<m>> : m \in Messages}
  /\ withheld \in Nat

Init ==
  /\ gate = NewGate("none")
  /\ active = FALSE
  /\ arms = 0
  /\ mode = "none"
  /\ terminal = "none"
  /\ calls = 0
  /\ inner = "open"
  /\ inbox = <<>>
  /\ sent = 0
  /\ reader = "idle"
  /\ taken = <<>>
  /\ withheld = 0

-----------------------------------------------------------------------------
(* What the callbacks share *)

(* A pending lease is rejected; a settled one stays what it is. *)
Reject(g, reason) ==
  IF g.outcome = "pending" THEN [g EXCEPT !.outcome = reason] ELSE g

(* Mutant: the disconnect need not have succeeded. *)
TryResolve_Unconfirmed(g) ==
  IF /\ g.outcome = "pending"
     /\ g.responseHandled
     /\ g.write = "accepted"
  THEN [g EXCEPT !.outcome = "resolved"]
  ELSE g

(* The trigger resolves on a receipt, a handled response and a confirmed   *)
(* disconnect, whichever comes last.                                       *)
TryResolve(g) ==
  IF /\ g.outcome = "pending"
     /\ g.disconnectConfirmed
     /\ g.responseHandled
     /\ g.write = "accepted"
  THEN [g EXCEPT !.outcome = "resolved"]
  ELSE g

(* The wrapped transport begins to terminate, at most once. *)
Terminate(how) ==
  /\ mode' = how
  /\ terminal' = "pending"
  /\ calls' = calls + 1
  /\ inner' = IF inner = "open" THEN "terminated" ELSE inner

(* Mutant: every reason to disconnect calls the wrapped transport. *)
StartDisconnect_Repeats == Terminate("disconnect")

(* A disconnect joins the termination that is under way, if one is. *)
StartDisconnect ==
  IF terminal = "none" THEN Terminate("disconnect") ELSE UNCHANGED ending

-----------------------------------------------------------------------------
(* The owner of the leases *)

Arm(kind) ==
  /\ ~active
  /\ terminal = "none"
  /\ arms < MaxArms
  /\ gate' = NewGate(kind)
  /\ active' = TRUE
  /\ arms' = arms + 1
  /\ withheld' = 0
  /\ UNCHANGED <<ending, inbox, sent, reader, taken>>

DisarmSuppression ==
  /\ active
  /\ gate.kind = "suppression"
  /\ active' = FALSE
  /\ gate' = Reject(gate, "disarmed")
  /\ UNCHANGED <<arms, ending, inbox, sent, reader, taken, withheld>>

AbortDisconnectGate ==
  /\ active
  /\ gate.kind = "disconnect"
  /\ terminal = "none"
  /\ gate' = Reject(gate, "disarmed")
  /\ StartDisconnect
  /\ UNCHANGED <<active, arms, inbox, sent, reader, taken, withheld>>

(* The tools/call request the disconnect gate waits for is claimed; the    *)
(* wrapped send throws at once or promises a receipt.                      *)
Send ==
  /\ active
  /\ gate.kind = "disconnect"
  /\ gate.write = "unsent"
  /\ terminal = "none"
  /\ \/ /\ gate' = [gate EXCEPT !.write = "pending"]
        /\ UNCHANGED ending
     \/ /\ gate' = Reject([gate EXCEPT !.write = "rejected"],
                          "write_not_accepted")
        /\ StartDisconnect
  /\ UNCHANGED <<active, arms, inbox, sent, reader, taken, withheld>>

Close ==
  /\ terminal = "none"
  /\ Terminate(IF active /\ gate.kind = "disconnect" THEN "disconnect"
                                                     ELSE "close")
  /\ UNCHANGED <<gate, active, arms, inbox, sent, reader, taken, withheld>>

Disconnect ==
  /\ terminal = "none"
  /\ StartDisconnect
  /\ UNCHANGED <<gate, active, arms, inbox, sent, reader, taken, withheld>>

Owner == \/ Arm("suppression") \/ Arm("disconnect") \/ DisarmSuppression
         \/ AbortDisconnectGate \/ Send \/ Close \/ Disconnect

-----------------------------------------------------------------------------
(* Promise callbacks and the setImmediate callback *)

(* The write was accepted: disconnect at once if its response was already  *)
(* handled, otherwise after the responses that are queued by now.          *)
WriteAccepted ==
  /\ gate.write = "pending"
  /\ LET g == TryResolve([gate EXCEPT !.write = "accepted"])
     IN IF g.responseHandled
        THEN gate' = g /\ StartDisconnect
        ELSE /\ gate' = [g EXCEPT !.disconnectScheduled =
                           @ \/ terminal = "none"]
             /\ UNCHANGED ending
  /\ UNCHANGED <<active, arms, inbox, sent, reader, taken, withheld>>

WriteRejected ==
  /\ gate.write = "pending"
  /\ gate' = Reject([gate EXCEPT !.write = "rejected"], "write_not_accepted")
  /\ StartDisconnect
  /\ UNCHANGED <<active, arms, inbox, sent, reader, taken, withheld>>

ScheduledDisconnect ==
  /\ gate.disconnectScheduled
  /\ gate' = [gate EXCEPT !.disconnectScheduled = FALSE]
  /\ IF active THEN StartDisconnect ELSE UNCHANGED ending
  /\ UNCHANGED <<active, arms, inbox, sent, reader, taken, withheld>>

(* Mutant: termination forgets the lease of a suppression. *)
SettleTerminalGate_Forgets(success) ==
  IF gate.kind = "suppression"
  THEN gate
  ELSE LET g == [gate EXCEPT !.responseHandled = TRUE]
       IN IF success
          THEN TryResolve([g EXCEPT !.disconnectConfirmed = TRUE])
          ELSE Reject(g, "disconnect_not_applied")

(* The terminal operation settles and takes the gate with it.  A transport *)
(* that had already ended cannot be disconnected any more.                 *)
SettleTerminalGate(success) ==
  IF gate.kind = "suppression"
  THEN Reject(gate, "transport_terminated")
  ELSE LET g == [gate EXCEPT !.responseHandled = TRUE]
       IN IF success
          THEN TryResolve([g EXCEPT !.disconnectConfirmed = TRUE])
          ELSE Reject(g, "disconnect_not_applied")

TerminalSettled(outcome) ==
  /\ terminal = "pending"
  /\ outcome = "success" => mode = "close" \/ inner = "terminated"
  /\ terminal' = outcome
  /\ gate' = IF active THEN SettleTerminalGate(outcome = "success") ELSE gate
  /\ active' = FALSE
  /\ UNCHANGED <<arms, mode, calls, channel, reader, taken, withheld>>

Callbacks == \/ WriteAccepted \/ WriteRejected \/ ScheduledDisconnect
             \/ TerminalSettled("success") \/ TerminalSettled("failure")

-----------------------------------------------------------------------------
(* The reader *)

(* receive() is called, and refuses once termination has begun. *)
Receive ==
  /\ reader = "idle"
  /\ reader' = IF terminal = "none" THEN "waiting" ELSE "failed"
  /\ UNCHANGED <<gate, active, arms, mode, terminal, calls, channel, taken,
                 withheld>>

(* The race resolves with a queued message, or rejects because the wrapped *)
(* transport ended or the terminal signal was given.                       *)
Take ==
  /\ reader = "waiting"
  /\ taken = <<>>
  /\ \/ /\ inbox # <<>>
        /\ inner # "terminated"
        /\ taken' = <<Head(inbox)>>
        /\ inbox' = Tail(inbox)
     \/ /\ inner = "ended" \/ terminal # "none"
        /\ taken' = <<TransportError>>
        /\ UNCHANGED inbox
  /\ UNCHANGED <<gate, active, arms, ending, sent, reader, withheld>>

Taken(message) ==
  /\ reader = "waiting"
  /\ taken = <<message>>
  /\ taken' = <<>>

(* receive() fails.  Without a disconnect of its own the gate has not      *)
(* injected anything, and gives up.                                        *)
HandleReceiveFailure ==
  /\ Taken(TransportError)
  /\ reader' = "failed"
  /\ IF ~active
     THEN UNCHANGED <<gate, active, ending>>
     ELSE /\ StartDisconnect
          /\ IF gate.kind = "suppression"
             THEN /\ active' = FALSE
                  /\ gate' = Reject(gate, "transport_terminated")
             ELSE /\ UNCHANGED active
                  /\ LET g == [gate EXCEPT !.responseHandled = TRUE]
                     IN gate' = IF mode = "disconnect" THEN TryResolve(g)
                                ELSE Reject(g, "disconnect_not_applied")
  /\ UNCHANGED <<arms, inbox, sent, withheld>>

Guarded(message) == active /\ message.id = arms

(* Anything the gate does not guard is returned as is. *)
Pass(message) ==
  /\ Taken(message)
  /\ ~Guarded(message)
  /\ reader' = "idle"
  /\ UNCHANGED <<gate, active, arms, ending, inbox, sent, withheld>>

(* The loop goes on to the next message, unless termination has begun. *)
Continue == reader' = IF terminal' = "none" THEN "waiting" ELSE "failed"

(* Mutant: the gate stays active after the response it was armed for. *)
SuppressResponse_StaysActive(message) ==
  /\ Taken(message)
  /\ Guarded(message)
  /\ gate.kind = "suppression"
  /\ UNCHANGED <<active, arms, ending, inbox, sent>>
  /\ IF message.kind = "tool_success"
     THEN /\ gate' = [gate EXCEPT !.outcome = "suppressed"]
          /\ withheld' = withheld + 1
          /\ Continue
     ELSE /\ gate' = [gate EXCEPT !.outcome = "forwarded"]
          /\ UNCHANGED withheld
          /\ reader' = "idle"

(* The first response uses the gate up; a successful one is withheld. *)
SuppressResponse(message) ==
  /\ Taken(message)
  /\ Guarded(message)
  /\ gate.kind = "suppression"
  /\ UNCHANGED <<arms, ending, inbox, sent>>
  /\ active' = FALSE
  /\ IF message.kind = "tool_success"
     THEN /\ gate' = [gate EXCEPT !.outcome = "suppressed"]
          /\ withheld' = withheld + 1
          /\ Continue
     ELSE /\ gate' = [gate EXCEPT !.outcome = "forwarded"]
          /\ UNCHANGED withheld
          /\ reader' = "idle"

(* The first response settles what the disconnect waits for; a successful  *)
(* one is withheld.  With the receipt in hand the transport is cut.        *)
DisconnectResponse(message) ==
  /\ Taken(message)
  /\ Guarded(message)
  /\ gate.kind = "disconnect"
  /\ IF gate.responseHandled
     THEN /\ reader' = "idle"
          /\ UNCHANGED <<gate, ending, withheld>>
     ELSE LET success == message.kind = "tool_success"
          IN /\ gate' = TryResolve([gate EXCEPT
                          !.responseHandled = TRUE,
                          !.responseIntercepted = success])
             /\ IF gate.write = "accepted" THEN StartDisconnect
                                           ELSE UNCHANGED ending
             /\ IF success
                THEN withheld' = withheld + 1 /\ Continue
                ELSE reader' = "idle" /\ UNCHANGED withheld
  /\ UNCHANGED <<active, arms, inbox, sent>>

Reader == \/ Receive \/ Take \/ HandleReceiveFailure
          \/ \E message \in Messages :
               \/ Pass(message)
               \/ SuppressResponse(message)
               \/ DisconnectResponse(message)

-----------------------------------------------------------------------------
(* The target, through the wrapped transport *)

TargetSends(message) ==
  /\ inner = "open"
  /\ sent < MaxMessages
  /\ message.id <= arms
  /\ sent' = sent + 1
  /\ inbox' = Append(inbox, message)
  /\ UNCHANGED <<gate, active, arms, ending, reader, taken, withheld>>

TargetEnds ==
  /\ inner = "open"
  /\ inner' = "ended"
  /\ UNCHANGED <<gate, active, arms, mode, terminal, calls, inbox, sent,
                 reader, taken, withheld>>

Target == TargetEnds \/ \E message \in Messages : TargetSends(message)

Done == terminal \in {"success", "failure"} /\ UNCHANGED vars

Next == Owner \/ Callbacks \/ Reader \/ Target \/ Done

Spec == Init /\ [][Next]_vars

(* The writer settles every write, the event loop runs every callback, and *)
(* the termination of the process is bounded by its own timers.            *)
FairSpec == Spec /\ WF_vars(Callbacks) /\ WF_vars(Reader)

-----------------------------------------------------------------------------
(* Properties *)

(* The wrapped transport is told to terminate at most once, by whichever   *)
(* of close, disconnect, abort, write, response or reader comes first.     *)
OneTerminalOperation == calls <= 1

(* A resolved trigger is proof of the injected boundary: the write was     *)
(* accepted, and the gate's own disconnect was applied to a transport that *)
(* had not ended by itself.                                                *)
TriggerIsInjected ==
  gate.outcome = "resolved" =>
    /\ gate.write = "accepted"
    /\ mode = "disconnect"
    /\ terminal = "success"
    /\ inner = "terminated"

(* The evidence tells exactly what the client did not get to see: one      *)
(* successful response if suppressed or intercepted, otherwise none, and a *)
(* failure is told with a reason of its own kind of gate (TypeOK).         *)
EvidenceMatchesWithheld ==
  /\ TypeOK
  /\ withheld = IF gate.outcome = "suppressed" \/ gate.responseIntercepted
                THEN 1 ELSE 0

(* A claimed request always settles the trigger, termination always        *)
(* settles a suppression, and termination never leaves the client waiting  *)
(* for a message.                                                          *)
NobodyWaitsForEver ==
  /\ (gate.kind = "disconnect" /\ gate.write # "unsent")
       ~> gate.outcome # "pending"
  /\ (gate.kind = "suppression" /\ terminal # "none")
       ~> gate.outcome # "pending"
  /\ terminal # "none" ~> reader = "failed"

=============================================================================
