------------------------------ MODULE Session ------------------------------
(***************************************************************************)
(* One experiment session (src/experiment/session.ts) over the process     *)
(* transport: open() with its start, handshake and cleanup, and close(),   *)
(* which joins the client and the fault gate.  Of the gate                 *)
(* (src/experiment/fault-gate.ts) this module keeps what ends it: the one  *)
(* terminal operation, which is a close or a disconnect of the transport,  *)
(* and is shared by everyone who asks for either.                          *)
(***************************************************************************)
EXTENDS StdioProcess

VARIABLES
  session,  \* "starting", "handshake", "open", "closing", "over"
  gate,     \* its terminal operation: "none", "closed", "disconnected", "refused"
  report    \* "none", "proven", "unproven": is the direct process known to be gone

sessionVars == <<session, gate, report>>
allVars == <<vars, sessionVars>>

SessionInit == Init /\ session = "starting" /\ gate = "none" /\ report = "none"

-----------------------------------------------------------------------------
(* The terminal operation of the gate. *)

(* McpFaultGateTransport.close(): inner.close(), which joins a close that the
   transport began by itself. *)
GateCloses ==
  /\ gate' = "closed"
  /\ Close \/ (closing # "none" /\ UNCHANGED vars)

(* #startDisconnect: inner.disconnect() throws if the transport has begun to
   end, and the rejection is then the outcome of the terminal operation. *)
GateDisconnects ==
  \/ Disconnect /\ gate' = "disconnected"
  \/ ~Disconnectable /\ gate' = "refused" /\ UNCHANGED vars

(* Whoever ends the gate: close() of a gate that is armed for disconnection
   disconnects, and one that has ended keeps its outcome. *)
EndGate ==
  \/ gate = "none" /\ GateCloses
  \/ gate = "none" /\ session = "open" /\ GateDisconnects
  \/ gate # "none" /\ UNCHANGED <<vars, gate>>

-----------------------------------------------------------------------------
(* open(): the transport is started. *)
StartSettles ==
  /\ session = "starting" /\ start \in {"done", "failed"}
  /\ \/ /\ start = "done" /\ session' = "handshake"
        /\ UNCHANGED report
     \/ /\ start = "failed" /\ session' = "over"
        /\ report' = IF startReport = "unconfirmed" THEN "unproven" ELSE "proven"
  /\ UNCHANGED <<vars, gate>>

(* discover() and requireTools() succeed. *)
Opened ==
  /\ session = "handshake" /\ session' = "open"
  /\ UNCHANGED <<vars, gate, report>>

(* They fail, and closeOpenResources begins. *)
HandshakeFails ==
  /\ session = "handshake" /\ session' = "closing"
  /\ EndGate
  /\ UNCHANGED report

(* A protocol or transport error: the client closes the transport itself. *)
ClientTerminates ==
  /\ session \in {"handshake", "open"} /\ gate = "none"
  /\ EndGate
  /\ UNCHANGED <<session, report>>

(* The write of an armed request was accepted and its gate disconnects. *)
LeaseDisconnects ==
  /\ session = "open" /\ gate = "none"
  /\ GateDisconnects
  /\ UNCHANGED <<session, report>>

CloseSession ==
  /\ session = "open" /\ session' = "closing"
  /\ EndGate
  /\ UNCHANGED report

(* Mutant: a close that returned counts as a proof. *)
SessionEnds_TrustsTheClose ==
  /\ session = "closing" /\ session' = "over"
  /\ \/ gate = "refused" /\ report' = "unproven"
     \/ gate # "refused" /\ closing = "done" /\ report' = "proven"
  /\ UNCHANGED <<vars, gate>>

(* Gate and client have settled: a rejection is a failed termination, and a
   summary counts only if it confirms that of the direct process. *)
SessionEnds ==
  /\ session = "closing" /\ session' = "over"
  /\ \/ gate = "refused" /\ report' = "unproven"
     \/ /\ gate # "refused" /\ closing = "done"
        /\ report' = IF result.direct = "confirmed" THEN "proven" ELSE "unproven"
  /\ UNCHANGED <<vars, gate>>

(* Every request of the handshake is bounded by its timeout. *)
OpenReturns == StartSettles \/ Opened \/ HandshakeFails

TransportSteps ==
  /\ Starting \/ Events \/ Closing
  /\ UNCHANGED sessionVars

SessionRest == session = "over" /\ UNCHANGED allVars

SessionNext ==
  \/ OpenReturns \/ ClientTerminates \/ LeaseDisconnects
  \/ CloseSession \/ SessionEnds \/ TransportSteps \/ SessionRest

SessionSpec ==
  /\ SessionInit /\ [][SessionNext]_allVars
  /\ WF_allVars(Starting /\ UNCHANGED sessionVars)
  /\ WF_allVars(Closing /\ UNCHANGED sessionVars)
  /\ WF_allVars(OpenReturns) /\ WF_allVars(SessionEnds)

-----------------------------------------------------------------------------
(* The session keeps the promise the runner builds on: a target that is said
   to be gone is gone, whatever the order of exit, failure, escalation,
   disconnection and close; and open() and close() return. *)
Contract == INSTANCE SessionContract WITH
  alive  <- process = "running",
  phase  <- IF session \in {"starting", "handshake"} THEN "opening" ELSE session,
  report <- report
KeepsContract == Contract!Spec

(* The disconnection of an experiment is the cause of the end that is reported
   for it: it is applied only to a transport that was whole, and the summary
   never passes it off as a natural end or as a plain end of input. *)
DisconnectionIsTheCause ==
  Settled =>
    /\ gate = "disconnected" => result.label \in {"disconnect", "terminate", "kill"}
    /\ result.label = "disconnect" => gate = "disconnected" /\ cut

(* Every session that is closed lets go of its transport: README.md says that a
   signal requests "bounded cleanup". *)
ClosedIsReleased == session = "closing" ~> closing = "done"

=============================================================================
