--------------------------- MODULE FaultGateProofs ---------------------------
(***************************************************************************)
(* The gate terminates its transport once, its trigger is proof of the     *)
(* boundary it injected, and its evidence is what the client did not see:  *)
(* for any number of gates armed on one transport and of messages, in any  *)
(* order of the reader, the write, the setImmediate callback, the          *)
(* termination and the owner of the lease.                                 *)
(***************************************************************************)
EXTENDS FaultGate, TLAPS

Settlements == {"success", "failure"}

(* #terminalMode and #terminalPromise are set together, once. *)
TerminationInv ==
  /\ mode = "none" <=> terminal = "none"
  /\ calls = IF terminal = "none" THEN 0 ELSE 1
  /\ terminal # "none" => inner # "open"

(* An armed gate outlives neither its own outcome, if it is a suppression,
   nor the terminal operation; and what ends the transport under an armed
   disconnect gate is a disconnect. *)
ActiveInv ==
  /\ active => gate.kind # "none" /\ terminal \notin Settlements
  /\ active /\ gate.kind = "suppression" => gate.outcome = "pending"
  /\ active /\ gate.kind = "disconnect" /\ terminal # "none" =>
       mode = "disconnect"

(* Which gates have a write and a response. *)
KindInv ==
  /\ gate.kind # "disconnect" =>
       /\ gate.write = "unsent"
       /\ ~gate.disconnectConfirmed /\ ~gate.disconnectScheduled
       /\ ~gate.responseHandled /\ ~gate.responseIntercepted
  /\ gate.kind = "none" => gate.outcome = "pending"
  /\ gate.responseIntercepted => gate.responseHandled

(* A confirmed disconnect has cut a transport that had not ended by itself,
   and a trigger resolves on it and on the receipt. *)
ConfirmedInv ==
  /\ gate.disconnectConfirmed =>
       mode = "disconnect" /\ terminal = "success" /\ inner = "terminated"
  /\ gate.outcome = "resolved" =>
       gate.disconnectConfirmed /\ gate.write = "accepted"

IndInv ==
  /\ EvidenceMatchesWithheld
  /\ TerminationInv /\ ActiveInv /\ KindInv /\ ConfirmedInv

-----------------------------------------------------------------------------
(* The initial state, and what the shared parts of the callbacks keep. *)

LEMMA InitIsGood == Init => IndInv
<1> SUFFICES ASSUME Init PROVE IndInv
  OBVIOUS
<1> USE DEF Init, NewGate
<1>1. TypeOK
  <2>1. gate \in Gates /\ gate.kind = "none"
    BY DEF Gates, Outcomes, SuppressionOutcomes, DisconnectOutcomes
  <2>2. inbox \in Seq(Messages) /\ taken \in {<<>>, <<TransportError>>}
    OBVIOUS
  <2>3. arms \in 0..MaxArms /\ sent \in 0..MaxMessages
    BY BoundsAssumption
  <2> QED
    BY <2>1, <2>2, <2>3 DEF TypeOK
<1>2. TerminationInv /\ ActiveInv /\ KindInv /\ ConfirmedInv
  BY DEF TerminationInv, ActiveInv, KindInv, ConfirmedInv, Settlements
<1> QED
  BY <1>1, <1>2 DEF IndInv, EvidenceMatchesWithheld

GateType(g) ==
  /\ g \in Gates
  /\ g.kind = "suppression" => g.outcome \in SuppressionOutcomes
  /\ g.kind = "disconnect" => g.outcome \in DisconnectOutcomes

(* Resolving and rejecting change the outcome alone, of a pending lease. *)
LEMMA RejectKeeps ==
  ASSUME NEW g \in Gates, NEW reason \in Outcomes
  PROVE  /\ Reject(g, reason) \in Gates
         /\ Reject(g, reason) = [g EXCEPT !.outcome = Reject(g, reason).outcome]
         /\ Reject(g, reason).outcome =
              IF g.outcome = "pending" THEN reason ELSE g.outcome
BY DEF Reject, Gates

LEMMA TryResolveKeeps ==
  ASSUME NEW g \in Gates
  PROVE  /\ TryResolve(g) \in Gates
         /\ TryResolve(g) = [g EXCEPT !.outcome = TryResolve(g).outcome]
         /\ TryResolve(g).outcome =
              IF /\ g.outcome = "pending" /\ g.disconnectConfirmed
                 /\ g.responseHandled /\ g.write = "accepted"
              THEN "resolved" ELSE g.outcome
BY DEF TryResolve, Gates, Outcomes, DisconnectOutcomes

(* A termination begins at most once, and the wrapped transport is closed. *)
LEMMA TerminateKeeps ==
  ASSUME TypeOK, TerminationInv, NEW how \in {"close", "disconnect"},
         terminal = "none", Terminate(how)
  PROVE  /\ mode' = how /\ terminal' = "pending"
         /\ calls' \in Nat /\ inner' \in {"ended", "terminated"}
         /\ TerminationInv'
BY DEF TypeOK, TerminationInv, Terminate

LEMMA StartDisconnectKeeps ==
  ASSUME TypeOK, TerminationInv, StartDisconnect
  PROVE  /\ mode' \in {"close", "disconnect"}
         /\ terminal' \in {"pending"} \cup Settlements
         /\ calls' \in Nat /\ inner' \in {"ended", "terminated"}
         /\ TerminationInv'
         /\ terminal = "none" => mode' = "disconnect" /\ terminal' = "pending"
         /\ terminal # "none" => UNCHANGED ending
<1>1. CASE terminal = "none"
  BY <1>1, TerminateKeeps DEF StartDisconnect
<1>2. CASE terminal # "none"
  BY <1>2 DEF StartDisconnect, ending, TypeOK, TerminationInv, Settlements
<1> QED
  BY <1>1, <1>2

(* The parts of the invariant, so that a step names those it disturbs. *)
LEMMA Parts ==
  /\ IndInv => /\ TypeOK /\ EvidenceMatchesWithheld
               /\ TerminationInv /\ ActiveInv /\ KindInv /\ ConfirmedInv
  /\ TypeOK => GateType(gate)
BY DEF IndInv, EvidenceMatchesWithheld, TypeOK, GateType

LEMMA OwnerIsGood ==
  ASSUME IndInv, Owner
  PROVE  IndInv'
<1>0. TypeOK /\ EvidenceMatchesWithheld /\ TerminationInv /\ ActiveInv
        /\ KindInv /\ ConfirmedInv
  BY Parts
<1> USE <1>0 DEF TypeOK, ending, channel
<1>1. CASE Arm("suppression") \/ Arm("disconnect")
  <2>1. PICK kind \in {"suppression", "disconnect"} : Arm(kind)
    BY <1>1
  <2> USE <2>1 DEF Arm
  <2>2. gate' \in Gates /\ gate' = NewGate(kind) /\ gate'.outcome = "pending"
    BY DEF Gates, Outcomes, SuppressionOutcomes, DisconnectOutcomes, NewGate
  <2>3. arms' \in 0..MaxArms
    BY BoundsAssumption
  <2>4. TypeOK'
    BY <2>2, <2>3 DEF SuppressionOutcomes, DisconnectOutcomes
  <2>5. TerminationInv' /\ ActiveInv'
    BY <2>2 DEF TerminationInv, ActiveInv, Settlements, NewGate
  <2>6. KindInv' /\ ConfirmedInv'
    BY <2>2 DEF KindInv, ConfirmedInv, NewGate
  <2>7. EvidenceMatchesWithheld'
    BY <2>2, <2>4 DEF EvidenceMatchesWithheld, NewGate
  <2> QED
    BY <2>4, <2>5, <2>6, <2>7 DEF IndInv
<1>2. CASE DisarmSuppression
  <2> USE <1>2 DEF DisarmSuppression, Reject
  <2>1. TypeOK'
    BY DEF Gates, Outcomes, SuppressionOutcomes, DisconnectOutcomes, NewGate,
           GateType
  <2>2. TerminationInv' /\ ActiveInv'
    BY DEF TerminationInv, ActiveInv, KindInv, Settlements, NewGate
  <2>3. KindInv' /\ ConfirmedInv'
    BY DEF TerminationInv, ActiveInv, KindInv, ConfirmedInv, Settlements,
           NewGate
  <2>4. EvidenceMatchesWithheld'
    BY <2>1 DEF EvidenceMatchesWithheld, ActiveInv, KindInv, NewGate
  <2> QED
    BY <2>1, <2>2, <2>3, <2>4 DEF IndInv
<1>3. CASE AbortDisconnectGate
  <2> USE <1>3 DEF AbortDisconnectGate, Reject
  <2>1. TypeOK'
    BY StartDisconnectKeeps
    DEF Gates, Outcomes, SuppressionOutcomes, DisconnectOutcomes, NewGate,
        GateType
  <2>2. TerminationInv' /\ ActiveInv'
    BY StartDisconnectKeeps
    DEF TerminationInv, ActiveInv, KindInv, Settlements, NewGate
  <2>3. KindInv' /\ ConfirmedInv'
    BY StartDisconnectKeeps
    DEF TerminationInv, ActiveInv, KindInv, ConfirmedInv, Settlements, NewGate
  <2>4. EvidenceMatchesWithheld'
    BY <2>1, StartDisconnectKeeps
    DEF EvidenceMatchesWithheld, ActiveInv, KindInv, NewGate
  <2> QED
    BY <2>1, <2>2, <2>3, <2>4 DEF IndInv
<1>4. CASE Send
  <2> USE <1>4 DEF Send
  <2>1. /\ gate' \in Gates
        /\ gate'.kind = gate.kind
        /\ gate'.disconnectConfirmed = gate.disconnectConfirmed
        /\ gate'.disconnectScheduled = gate.disconnectScheduled
        /\ gate'.responseHandled = gate.responseHandled
        /\ gate'.responseIntercepted = gate.responseIntercepted
        /\ \/ gate'.write = "pending" /\ gate'.outcome = gate.outcome
                /\ UNCHANGED ending
           \/ /\ gate'.write = "rejected" /\ StartDisconnect
              /\ gate'.outcome = IF gate.outcome = "pending"
                                 THEN "write_not_accepted" ELSE gate.outcome
    BY DEF Reject, Gates, Outcomes, SuppressionOutcomes, DisconnectOutcomes
  <2>2. TypeOK'
    BY <2>1, StartDisconnectKeeps, BoundsAssumption
    DEF SuppressionOutcomes, DisconnectOutcomes, ActiveInv, KindInv, Settlements
  <2>3. TerminationInv' /\ ActiveInv'
    BY <2>1, StartDisconnectKeeps
    DEF TerminationInv, ActiveInv, KindInv, Settlements
  <2>4. KindInv' /\ ConfirmedInv'
    BY <2>1, StartDisconnectKeeps
    DEF TerminationInv, ActiveInv, KindInv, ConfirmedInv, Settlements
  <2>5. EvidenceMatchesWithheld'
    BY <2>1, <2>2, StartDisconnectKeeps
    DEF EvidenceMatchesWithheld, ActiveInv, KindInv
  <2> QED
    BY <2>2, <2>3, <2>4, <2>5 DEF IndInv
<1>5. CASE Close
  <2> USE <1>5 DEF Close
  <2>1. TypeOK'
    BY TerminateKeeps
    DEF Gates, Outcomes, SuppressionOutcomes, DisconnectOutcomes, NewGate,
        GateType
  <2>2. TerminationInv' /\ ActiveInv'
    BY TerminateKeeps
    DEF TerminationInv, ActiveInv, KindInv, Settlements, NewGate
  <2>3. KindInv' /\ ConfirmedInv'
    BY TerminateKeeps
    DEF TerminationInv, ActiveInv, KindInv, ConfirmedInv, Settlements, NewGate
  <2>4. EvidenceMatchesWithheld'
    BY <2>1, TerminateKeeps
    DEF EvidenceMatchesWithheld, ActiveInv, KindInv, NewGate
  <2> QED
    BY <2>1, <2>2, <2>3, <2>4 DEF IndInv
<1>6. CASE Disconnect
  <2> USE <1>6 DEF Disconnect
  <2>1. TypeOK'
    BY StartDisconnectKeeps
    DEF Gates, Outcomes, SuppressionOutcomes, DisconnectOutcomes, NewGate,
        GateType
  <2>2. TerminationInv' /\ ActiveInv'
    BY StartDisconnectKeeps
    DEF TerminationInv, ActiveInv, KindInv, Settlements, NewGate
  <2>3. KindInv' /\ ConfirmedInv'
    BY StartDisconnectKeeps
    DEF TerminationInv, ActiveInv, KindInv, ConfirmedInv, Settlements, NewGate
  <2>4. EvidenceMatchesWithheld'
    BY <2>1, StartDisconnectKeeps
    DEF EvidenceMatchesWithheld, ActiveInv, KindInv, NewGate
  <2> QED
    BY <2>1, <2>2, <2>3, <2>4 DEF IndInv
<1> QED
  BY <1>1, <1>2, <1>3, <1>4, <1>5, <1>6 DEF Owner

LEMMA CallbacksAreGood ==
  ASSUME IndInv, Callbacks
  PROVE  IndInv'
<1>0. TypeOK /\ EvidenceMatchesWithheld /\ TerminationInv /\ ActiveInv
        /\ KindInv /\ ConfirmedInv
  BY Parts
<1> USE <1>0 DEF TypeOK, ending, channel
<1>1. CASE WriteAccepted
  <2> USE <1>1 DEF WriteAccepted
  <2>1. /\ gate' \in Gates
        /\ gate'.kind = gate.kind
        /\ gate'.disconnectConfirmed = gate.disconnectConfirmed
        /\ gate'.responseHandled = gate.responseHandled
        /\ gate'.responseIntercepted = gate.responseIntercepted
        /\ gate'.write = "accepted"
        /\ gate'.outcome = IF /\ gate.outcome = "pending"
                              /\ gate.disconnectConfirmed
                              /\ gate.responseHandled
                           THEN "resolved" ELSE gate.outcome
        /\ \/ gate.responseHandled /\ StartDisconnect
           \/ UNCHANGED ending
    BY DEF TryResolve, Gates, Outcomes, SuppressionOutcomes, DisconnectOutcomes
  <2>2. TypeOK'
    BY <2>1, StartDisconnectKeeps, BoundsAssumption
    DEF SuppressionOutcomes, DisconnectOutcomes, ActiveInv, KindInv, Settlements
  <2>3. TerminationInv' /\ ActiveInv'
    BY <2>1, StartDisconnectKeeps
    DEF TerminationInv, ActiveInv, KindInv, Settlements
  <2>4. KindInv' /\ ConfirmedInv'
    BY <2>1, StartDisconnectKeeps
    DEF TerminationInv, ActiveInv, KindInv, ConfirmedInv, Settlements
  <2>5. EvidenceMatchesWithheld'
    BY <2>1, <2>2, StartDisconnectKeeps
    DEF EvidenceMatchesWithheld, ActiveInv, KindInv
  <2> QED
    BY <2>2, <2>3, <2>4, <2>5 DEF IndInv
<1>2. CASE WriteRejected
  <2> USE <1>2 DEF WriteRejected
  <2>1. /\ gate' \in Gates
        /\ gate'.kind = gate.kind
        /\ gate'.disconnectConfirmed = gate.disconnectConfirmed
        /\ gate'.disconnectScheduled = gate.disconnectScheduled
        /\ gate'.responseHandled = gate.responseHandled
        /\ gate'.responseIntercepted = gate.responseIntercepted
        /\ gate'.write = "rejected"
        /\ gate'.outcome = IF gate.outcome = "pending"
                           THEN "write_not_accepted" ELSE gate.outcome
    BY DEF Reject, Gates, Outcomes, SuppressionOutcomes, DisconnectOutcomes
  <2>2. TypeOK'
    BY <2>1, StartDisconnectKeeps, BoundsAssumption
    DEF SuppressionOutcomes, DisconnectOutcomes, ActiveInv, KindInv, Settlements
  <2>3. TerminationInv' /\ ActiveInv'
    BY <2>1, StartDisconnectKeeps
    DEF TerminationInv, ActiveInv, KindInv, Settlements
  <2>4. KindInv' /\ ConfirmedInv'
    BY <2>1, StartDisconnectKeeps
    DEF TerminationInv, ActiveInv, KindInv, ConfirmedInv, Settlements
  <2>5. EvidenceMatchesWithheld'
    BY <2>1, <2>2, StartDisconnectKeeps
    DEF EvidenceMatchesWithheld, ActiveInv, KindInv
  <2> QED
    BY <2>2, <2>3, <2>4, <2>5 DEF IndInv
<1>3. CASE ScheduledDisconnect
  <2> USE <1>3 DEF ScheduledDisconnect
  <2>1. TypeOK'
    BY StartDisconnectKeeps
    DEF Gates, Outcomes, SuppressionOutcomes, DisconnectOutcomes, NewGate,
        GateType
  <2>2. TerminationInv' /\ ActiveInv'
    BY StartDisconnectKeeps
    DEF TerminationInv, ActiveInv, KindInv, Settlements, NewGate
  <2>3. KindInv' /\ ConfirmedInv'
    BY StartDisconnectKeeps
    DEF TerminationInv, ActiveInv, KindInv, ConfirmedInv, Settlements, NewGate
  <2>4. EvidenceMatchesWithheld'
    BY <2>1, StartDisconnectKeeps
    DEF EvidenceMatchesWithheld, ActiveInv, KindInv, NewGate
  <2> QED
    BY <2>1, <2>2, <2>3, <2>4 DEF IndInv
<1>4. CASE TerminalSettled("success")
  <2> USE <1>4 DEF TerminalSettled
  <2>1. CASE ~active
    <3>1. gate' = gate
      BY <2>1
    <3>2. TypeOK'
      BY <3>1
    <3>3. TerminationInv' /\ ActiveInv' /\ KindInv'
      BY <3>1 DEF TerminationInv, ActiveInv, KindInv
    <3>4. ConfirmedInv' /\ EvidenceMatchesWithheld'
      BY <3>1, <3>2 DEF ConfirmedInv, EvidenceMatchesWithheld
    <3> QED
      BY <3>2, <3>3, <3>4 DEF IndInv
  <2>2. CASE active /\ gate.kind = "suppression"
    <3>1. /\ gate' \in Gates /\ gate.outcome = "pending"
          /\ gate' = [gate EXCEPT !.outcome = "transport_terminated"]
      BY <2>2
      DEF SettleTerminalGate, Reject, ActiveInv, Gates, Outcomes,
          SuppressionOutcomes, DisconnectOutcomes
    <3>2. TypeOK'
      BY <2>2, <3>1 DEF Gates, SuppressionOutcomes
    <3>3. TerminationInv' /\ ActiveInv' /\ KindInv'
      BY <2>2, <3>1 DEF Gates, TerminationInv, ActiveInv, KindInv
    <3>4. ConfirmedInv' /\ EvidenceMatchesWithheld'
      BY <2>2, <3>1, <3>2
      DEF Gates, KindInv, ConfirmedInv, EvidenceMatchesWithheld
    <3> QED
      BY <3>2, <3>3, <3>4 DEF IndInv
  <2>3. CASE active /\ gate.kind = "disconnect"
    <3>1. /\ gate' \in Gates /\ gate'.kind = gate.kind
          /\ gate'.write = gate.write
          /\ gate'.responseIntercepted = gate.responseIntercepted
          /\ gate'.responseHandled
          /\ gate'.disconnectConfirmed
          /\ gate'.outcome = IF gate.outcome = "pending"
                             /\ gate.write = "accepted"
                             THEN "resolved" ELSE gate.outcome
      BY <2>3
      DEF SettleTerminalGate, TryResolve, Reject, Gates, Outcomes,
          SuppressionOutcomes, DisconnectOutcomes
    <3>2. TypeOK'
      BY <2>3, <3>1 DEF DisconnectOutcomes
    <3>3. TerminationInv' /\ ActiveInv' /\ KindInv'
      BY <2>3, <3>1 DEF TerminationInv, ActiveInv, KindInv
    <3>4. ConfirmedInv' /\ EvidenceMatchesWithheld'
      BY <2>3, <3>1, <3>2
      DEF ActiveInv, ConfirmedInv, EvidenceMatchesWithheld, DisconnectOutcomes
    <3> QED
      BY <3>2, <3>3, <3>4 DEF IndInv
  <2> QED
    BY <2>1, <2>2, <2>3 DEF ActiveInv, Gates
<1>5. CASE TerminalSettled("failure")
  <2> USE <1>5 DEF TerminalSettled
  <2>1. CASE ~active
    <3>1. gate' = gate
      BY <2>1
    <3>2. TypeOK'
      BY <3>1
    <3>3. TerminationInv' /\ ActiveInv' /\ KindInv'
      BY <3>1 DEF TerminationInv, ActiveInv, KindInv
    <3>4. ConfirmedInv' /\ EvidenceMatchesWithheld'
      BY <3>1, <3>2 DEF ConfirmedInv, EvidenceMatchesWithheld
    <3> QED
      BY <3>2, <3>3, <3>4 DEF IndInv
  <2>2. CASE active /\ gate.kind = "suppression"
    <3>1. /\ gate' \in Gates /\ gate.outcome = "pending"
          /\ gate' = [gate EXCEPT !.outcome = "transport_terminated"]
      BY <2>2
      DEF SettleTerminalGate, Reject, ActiveInv, Gates, Outcomes,
          SuppressionOutcomes, DisconnectOutcomes
    <3>2. TypeOK'
      BY <2>2, <3>1 DEF Gates, SuppressionOutcomes
    <3>3. TerminationInv' /\ ActiveInv' /\ KindInv'
      BY <2>2, <3>1 DEF Gates, TerminationInv, ActiveInv, KindInv
    <3>4. ConfirmedInv' /\ EvidenceMatchesWithheld'
      BY <2>2, <3>1, <3>2
      DEF Gates, KindInv, ConfirmedInv, EvidenceMatchesWithheld
    <3> QED
      BY <3>2, <3>3, <3>4 DEF IndInv
  <2>3. CASE active /\ gate.kind = "disconnect"
    <3>1. /\ gate' \in Gates /\ gate'.kind = gate.kind
          /\ gate'.write = gate.write
          /\ gate'.responseIntercepted = gate.responseIntercepted
          /\ gate'.responseHandled
          /\ gate'.disconnectConfirmed = gate.disconnectConfirmed
          /\ gate'.outcome = IF gate.outcome = "pending"
                             THEN "disconnect_not_applied" ELSE gate.outcome
      BY <2>3
      DEF SettleTerminalGate, TryResolve, Reject, Gates, Outcomes,
          SuppressionOutcomes, DisconnectOutcomes
    <3>2. TypeOK'
      BY <2>3, <3>1 DEF DisconnectOutcomes
    <3>3. TerminationInv' /\ ActiveInv' /\ KindInv'
      BY <2>3, <3>1 DEF TerminationInv, ActiveInv, KindInv
    <3>4. ConfirmedInv' /\ EvidenceMatchesWithheld'
      BY <2>3, <3>1, <3>2
      DEF ActiveInv, ConfirmedInv, EvidenceMatchesWithheld, DisconnectOutcomes
    <3> QED
      BY <3>2, <3>3, <3>4 DEF IndInv
  <2> QED
    BY <2>1, <2>2, <2>3 DEF ActiveInv, Gates
<1> QED
  BY <1>1, <1>2, <1>3, <1>4, <1>5 DEF Callbacks

LEMMA MessageTypes ==
  /\ TypeOK /\ inbox # <<>> =>
       Head(inbox) \in Messages /\ Tail(inbox) \in Seq(Messages)
  /\ TransportError \notin Messages
<1>1. ASSUME TypeOK, inbox # <<>>
      PROVE  Head(inbox) \in Messages /\ Tail(inbox) \in Seq(Messages)
  <2> DEFINE M == Messages
  <2>1. inbox \in Seq(M)
    BY <1>1 DEF TypeOK
  <2> HIDE DEF M
  <2>2. Head(inbox) \in M /\ Tail(inbox) \in Seq(M)
    BY <1>1, <2>1
  <2> QED
    BY <2>2 DEF M
<1>2. TransportError \notin Messages
  BY DEF TransportError, Messages, ResponseKinds
<1> QED
  BY <1>1, <1>2

LEMMA ReaderIsGood ==
  ASSUME IndInv, Reader
  PROVE  IndInv'
<1>0. TypeOK /\ EvidenceMatchesWithheld /\ TerminationInv /\ ActiveInv
        /\ KindInv /\ ConfirmedInv
  BY Parts
<1> USE <1>0 DEF TypeOK, ending, channel
<1>1. CASE Receive
  <2> USE <1>1 DEF Receive
  <2>1. TypeOK'
    BY Parts
  <2>2. TerminationInv' /\ ActiveInv'
    BY DEF TerminationInv, ActiveInv
  <2>3. KindInv' /\ ConfirmedInv'
    BY DEF KindInv, ConfirmedInv
  <2>4. EvidenceMatchesWithheld'
    BY <2>1 DEF EvidenceMatchesWithheld
  <2> QED
    BY <2>1, <2>2, <2>3, <2>4 DEF IndInv
<1>2. CASE Take
  <2> USE <1>2 DEF Take
  <2>1. TypeOK'
    BY MessageTypes
  <2>2. TerminationInv' /\ ActiveInv'
    BY DEF TerminationInv, ActiveInv
  <2>3. KindInv' /\ ConfirmedInv'
    BY DEF KindInv, ConfirmedInv
  <2>4. EvidenceMatchesWithheld'
    BY <2>1 DEF EvidenceMatchesWithheld
  <2> QED
    BY <2>1, <2>2, <2>3, <2>4 DEF IndInv
<1>3. CASE HandleReceiveFailure
  <2> USE <1>3 DEF HandleReceiveFailure, Taken
  <2>1. CASE ~active
    <3>1. TypeOK'
      BY <2>1
    <3>2. TerminationInv' /\ ActiveInv'
      BY <2>1 DEF TerminationInv, ActiveInv
    <3>3. KindInv' /\ ConfirmedInv'
      BY <2>1 DEF KindInv, ConfirmedInv
    <3>4. EvidenceMatchesWithheld'
      BY <3>1, <2>1 DEF EvidenceMatchesWithheld
    <3> QED
      BY <3>1, <3>2, <3>3, <3>4 DEF IndInv
  <2>2. CASE active /\ gate.kind = "suppression"
    <3> USE <2>2, StartDisconnectKeeps
    <3>0. gate' \in Gates
            /\ gate' = [gate EXCEPT !.outcome = "transport_terminated"]
      BY DEF Reject, ActiveInv, Gates, Outcomes, SuppressionOutcomes
    <3>1. TypeOK'
      BY <3>0 DEF Gates, SuppressionOutcomes
    <3>2. TerminationInv' /\ ActiveInv'
      BY <3>0 DEF TerminationInv, ActiveInv, Gates
    <3>3. KindInv' /\ ConfirmedInv'
      BY <3>0 DEF KindInv, ConfirmedInv, Gates
    <3>4. EvidenceMatchesWithheld'
      BY <3>1, <3>0 DEF EvidenceMatchesWithheld, ActiveInv, KindInv, Gates
    <3> QED
      BY <3>1, <3>2, <3>3, <3>4 DEF IndInv
  <2>3. CASE active /\ gate.kind = "disconnect"
    <3> USE <2>3, StartDisconnectKeeps
    <3>0. /\ gate' \in Gates /\ gate'.kind = gate.kind
          /\ gate'.write = gate.write /\ gate'.responseHandled
          /\ gate'.disconnectConfirmed = gate.disconnectConfirmed
          /\ gate'.responseIntercepted = gate.responseIntercepted
          /\ gate'.outcome \in DisconnectOutcomes
          /\ gate'.outcome = "resolved" =>
               \/ gate.outcome = "resolved"
               \/ gate.disconnectConfirmed /\ gate.write = "accepted"
      <4> DEFINE g == [gate EXCEPT !.responseHandled = TRUE]
      <4>1. g \in Gates /\ g.outcome \in DisconnectOutcomes
        BY DEF Gates
      <4>2. gate' \in {TryResolve(g), Reject(g, "disconnect_not_applied")}
        OBVIOUS
      <4>3. CASE gate' = TryResolve(g)
        BY <4>1, <4>3, TryResolveKeeps DEF Gates, DisconnectOutcomes
      <4>4. CASE gate' = Reject(g, "disconnect_not_applied")
        BY <4>1, <4>4, RejectKeeps DEF Gates, Outcomes, DisconnectOutcomes
      <4> QED
        BY <4>2, <4>3, <4>4
    <3>1. TypeOK'
      BY <3>0
    <3>2. TerminationInv' /\ ActiveInv'
      BY <3>0 DEF TerminationInv, ActiveInv, Settlements
    <3>3. KindInv' /\ ConfirmedInv'
      BY <3>0 DEF KindInv, ConfirmedInv
    <3>4. EvidenceMatchesWithheld'
      BY <3>1, <3>0 DEF EvidenceMatchesWithheld, DisconnectOutcomes
    <3> QED
      BY <3>1, <3>2, <3>3, <3>4 DEF IndInv
  <2> QED
    BY <2>1, <2>2, <2>3 DEF ActiveInv, Gates
<1>4. ASSUME NEW message \in Messages, Pass(message)
      PROVE  IndInv'
  <2> USE <1>4 DEF Pass, Taken
  <2>1. TypeOK'
    BY Parts
  <2>2. TerminationInv' /\ ActiveInv'
    BY DEF TerminationInv, ActiveInv
  <2>3. KindInv' /\ ConfirmedInv'
    BY DEF KindInv, ConfirmedInv
  <2>4. EvidenceMatchesWithheld'
    BY <2>1 DEF EvidenceMatchesWithheld
  <2> QED
    BY <2>1, <2>2, <2>3, <2>4 DEF IndInv
<1>5. ASSUME NEW message \in Messages, SuppressResponse(message)
      PROVE  IndInv'
  <2> USE <1>5 DEF SuppressResponse, Taken, Guarded, Continue
  <2>0. /\ gate' \in Gates /\ gate.outcome = "pending"
        /\ \/ gate' = [gate EXCEPT !.outcome = "suppressed"]
                /\ withheld' = withheld + 1
           \/ gate' = [gate EXCEPT !.outcome = "forwarded"]
                /\ withheld' = withheld
    BY DEF ActiveInv, Gates, Outcomes, SuppressionOutcomes
  <2>a. reader' \in {"idle", "waiting", "failed"} /\ withheld' \in Nat
    BY <2>0
  <2>1. TypeOK'
    BY <2>0, <2>a DEF Gates, SuppressionOutcomes
  <2>2. TerminationInv' /\ ActiveInv'
    BY <2>0 DEF TerminationInv, ActiveInv, Gates
  <2>3. KindInv' /\ ConfirmedInv'
    BY <2>0 DEF KindInv, ConfirmedInv, Gates
  <2>4. EvidenceMatchesWithheld'
    BY <2>1, <2>0 DEF EvidenceMatchesWithheld, KindInv, Gates
  <2> QED
    BY <2>1, <2>2, <2>3, <2>4 DEF IndInv
<1>6. ASSUME NEW message \in Messages, DisconnectResponse(message)
      PROVE  IndInv'
  <2> USE <1>6 DEF DisconnectResponse, Taken, Guarded, Continue
  <2>1. CASE gate.responseHandled
    <3>1. TypeOK'
      BY <2>1
    <3>2. TerminationInv' /\ ActiveInv'
      BY <2>1 DEF TerminationInv, ActiveInv
    <3>3. KindInv' /\ ConfirmedInv'
      BY <2>1 DEF KindInv, ConfirmedInv
    <3>4. EvidenceMatchesWithheld'
      BY <3>1, <2>1 DEF EvidenceMatchesWithheld
    <3> QED
      BY <3>1, <3>2, <3>3, <3>4 DEF IndInv
  <2>2. CASE ~gate.responseHandled
    <3> USE <2>2, StartDisconnectKeeps
    <3>0. /\ gate' \in Gates /\ gate'.kind = gate.kind
          /\ gate'.write = gate.write /\ gate'.responseHandled
          /\ gate'.disconnectConfirmed = gate.disconnectConfirmed
          /\ gate'.responseIntercepted <=> message.kind = "tool_success"
          /\ gate'.outcome \in DisconnectOutcomes
          /\ gate'.outcome = "resolved" =>
               \/ gate.outcome = "resolved"
               \/ gate.disconnectConfirmed /\ gate.write = "accepted"
      <4> DEFINE g == [gate EXCEPT !.responseHandled = TRUE,
                                   !.responseIntercepted =
                                     (message.kind = "tool_success")]
      <4>1. g \in Gates /\ g.outcome \in DisconnectOutcomes
        BY DEF Gates
      <4>2. gate' = TryResolve(g)
        OBVIOUS
      <4> QED
        <5>1. g.responseIntercepted <=> message.kind = "tool_success"
          BY DEF Gates
        <5> HIDE DEF g
        <5>2. gate'.responseIntercepted <=> g.responseIntercepted
          BY <4>1, <4>2, TryResolveKeeps DEF Gates
        <5>3. /\ g.kind = gate.kind /\ g.write = gate.write /\ g.responseHandled
              /\ g.disconnectConfirmed = gate.disconnectConfirmed
              /\ g.outcome = gate.outcome
          BY DEF g, Gates
        <5> QED
          BY <4>1, <4>2, <5>1, <5>2, <5>3, TryResolveKeeps
          DEF Gates, DisconnectOutcomes
    <3>a. StartDisconnect \/ UNCHANGED ending
      OBVIOUS
    <3>1. TypeOK'
      BY <3>0, <3>a
    <3>2. TerminationInv' /\ ActiveInv'
      BY <3>0, <3>a DEF TerminationInv, ActiveInv, Settlements
    <3>3. KindInv' /\ ConfirmedInv'
      BY <3>0, <3>a DEF KindInv, ConfirmedInv
    <3>b. withheld' = IF message.kind = "tool_success" THEN withheld + 1
            ELSE withheld
      OBVIOUS
    <3>c. withheld = 0
      BY DEF EvidenceMatchesWithheld, KindInv, DisconnectOutcomes
    <3>4. EvidenceMatchesWithheld'
      BY <3>1, <3>0, <3>b, <3>c DEF EvidenceMatchesWithheld, DisconnectOutcomes
    <3> QED
      BY <3>1, <3>2, <3>3, <3>4 DEF IndInv
  <2> QED
    BY <2>1, <2>2
<1> QED
  BY <1>1, <1>2, <1>3, <1>4, <1>5, <1>6 DEF Reader

LEMMA TargetIsGood ==
  ASSUME IndInv, Target
  PROVE  IndInv'
<1>0. TypeOK /\ EvidenceMatchesWithheld /\ TerminationInv /\ ActiveInv
        /\ KindInv /\ ConfirmedInv
  BY Parts
<1> USE <1>0 DEF TypeOK, ending
<1>1. CASE TargetEnds
  <2> USE <1>1 DEF TargetEnds
  <2>1. TypeOK'
    BY Parts
  <2>2. TerminationInv' /\ ActiveInv'
    BY DEF TerminationInv, ActiveInv
  <2>3. KindInv' /\ ConfirmedInv'
    BY DEF KindInv, ConfirmedInv
  <2>4. EvidenceMatchesWithheld'
    BY <2>1 DEF EvidenceMatchesWithheld
  <2> QED
    BY <2>1, <2>2, <2>3, <2>4 DEF IndInv
<1>2. ASSUME NEW message \in Messages, TargetSends(message)
      PROVE  IndInv'
  <2> USE <1>2 DEF TargetSends
  <2>1. TypeOK'
    BY BoundsAssumption
  <2>2. TerminationInv' /\ ActiveInv'
    BY DEF TerminationInv, ActiveInv
  <2>3. KindInv' /\ ConfirmedInv'
    BY DEF KindInv, ConfirmedInv
  <2>4. EvidenceMatchesWithheld'
    BY <2>1 DEF EvidenceMatchesWithheld
  <2> QED
    BY <2>1, <2>2, <2>3, <2>4 DEF IndInv
<1> QED
  BY <1>1, <1>2 DEF Target

LEMMA StepIsGood == IndInv /\ [Next]_vars => IndInv'
<1> SUFFICES ASSUME IndInv, [Next]_vars PROVE IndInv'
  OBVIOUS
<1>1. CASE UNCHANGED vars
  BY <1>1
  DEF vars, IndInv, EvidenceMatchesWithheld, TypeOK, TerminationInv, ActiveInv,
              KindInv, ConfirmedInv
<1>2. CASE Next
  BY <1>1, <1>2, OwnerIsGood, CallbacksAreGood, ReaderIsGood, TargetIsGood
  DEF Next, Done
<1> QED
  BY <1>1, <1>2

LEMMA Invariance == Spec => []IndInv
BY InitIsGood, StepIsGood, PTL DEF Spec

-----------------------------------------------------------------------------
(* The wrapped transport is told to terminate at most once, whichever of its
   six reasons comes first and however often a reason recurs. *)
THEOREM TerminatesOnce == Spec => []OneTerminalOperation
<1>1. IndInv => OneTerminalOperation
  BY DEF IndInv, TerminationInv, OneTerminalOperation
<1> QED
  BY <1>1, Invariance, PTL

(* A trigger that resolves is proof of the boundary the experiment needs: the
   write was accepted and the gate itself cut a transport that was whole. *)
THEOREM ResolvedIsInjected == Spec => []TriggerIsInjected
<1>1. IndInv => TriggerIsInjected
  BY DEF IndInv, ConfirmedInv, TriggerIsInjected
<1> QED
  BY <1>1, Invariance, PTL

(* What the evidence says was kept from the client is what was. *)
THEOREM EvidenceIsTrue == Spec => []EvidenceMatchesWithheld
<1>1. IndInv => EvidenceMatchesWithheld
  BY DEF IndInv
<1> QED
  BY <1>1, Invariance, PTL

=============================================================================
