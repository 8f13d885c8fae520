-------------------------- MODULE SerializedWriter --------------------------
(***************************************************************************)
(* transport/serialized-writer.ts: outbound messages queue up and are      *)
(* handed to the target's stdin one at a time.  A write is accepted when   *)
(* its callback has run and the backpressure it met, if any, has drained.  *)
(*                                                                         *)
(* The stream is a Node.js Writable, modelled from its use here: write     *)
(* returns at once (with or without backpressure) or throws, and later     *)
(* runs the callback once, reporting success or an error, and emits drain, *)
(* error or close.  callbacks and undrained keep what the stream itself    *)
(* said of each write, apart from what the writer made of it.              *)
(***************************************************************************)
EXTENDS Integers, Sequences, FiniteSets

CONSTANTS MaxFrameBytes,      \* maxFrameBytes, of the frame without its newline
          MaxQueuedMessages,  \* maxQueuedMessages
          MaxQueuedBytes,     \* maxQueuedBytes
          MaxSends            \* bound on the accepted send() calls

ASSUME WriterAssumption ==
  {MaxFrameBytes, MaxQueuedMessages, MaxQueuedBytes, MaxSends}
    \subseteq Nat \ {0}

VARIABLES
  accepting,      \* #accepting
  pending,        \* #pending: writes not yet handed to the stream
  active,         \* #active: at most one write in the stream
  nextSequence,   \* #nextSequence
  queuedBytes,    \* #queuedBytes
  terminalError,  \* #terminalError is set
  finishing,      \* the promise of finish()
  outcome,        \* the promise of each send(), by sequence number
  wire,           \* what the stream was given, in order
  callbacks,      \* what the callback of each write said, "none" before it ran
  undrained,      \* the write whose backpressure has not drained, if any
  closed          \* the stream emitted close

writer == <<accepting, pending, active, queuedBytes, terminalError, finishing,
            outcome, wire>>
vars == <<writer, nextSequence, callbacks, undrained, closed>>

Writes == [sequence : 1..MaxSends, byteLength : 2..MaxFrameBytes + 1]
Actives == [write : Writes, callbackFinished : BOOLEAN,
            drainFinished : BOOLEAN]

TypeOK ==
  /\ accepting \in BOOLEAN
  /\ pending \in Seq(Writes)
  /\ active \in {<<>>} \cup {<<a>> : a \in Actives}
  /\ nextSequence \in 1..MaxSends + 1
  /\ queuedBytes \in Nat
  /\ terminalError \in BOOLEAN
  /\ finishing \in {"none", "waiting", "resolved", "rejected"}
  /\ outcome \in [1..MaxSends ->
                    {"unsent", "queued", "resolved", "rejected"}]
  /\ wire \in Seq(1..MaxSends)
  /\ callbacks \in [1..MaxSends -> {"none", "written", "failed"}]
  /\ undrained \in SUBSET (1..MaxSends)
  /\ closed \in BOOLEAN

Init ==
  /\ accepting = TRUE
  /\ pending = <<>>
  /\ active = <<>>
  /\ nextSequence = 1
  /\ queuedBytes = 0
  /\ terminalError = FALSE
  /\ finishing = "none"
  /\ outcome = [m \in 1..MaxSends |-> "unsent"]
  /\ wire = <<>>
  /\ callbacks = [m \in 1..MaxSends |-> "none"]
  /\ undrained = {}
  /\ closed = FALSE

-----------------------------------------------------------------------------
(* The active write and every pending one are rejected. *)
RejectOpen(promises) ==
  [m \in 1..MaxSends |->
     IF promises[m] = "queued" THEN "rejected" ELSE promises[m]]

(* Mutant: sends are taken after a failure.                               *)
Fail_KeepsAccepting(promises) ==
  /\ terminalError' = TRUE
  /\ active' = <<>>
  /\ pending' = <<>>
  /\ queuedBytes' = 0
  /\ outcome' = RejectOpen(promises)
  /\ finishing' = IF finishing = "waiting" THEN "rejected" ELSE finishing
  /\ UNCHANGED accepting

(* #fail: the first error rejects the open writes and a waiting finish(),  *)
(* and ends acceptance for good.  promises is the outcome of every send()  *)
(* at the time of the failure.                                             *)
Fail(promises) ==
  /\ terminalError' = TRUE
  /\ accepting' = FALSE
  /\ active' = <<>>
  /\ pending' = <<>>
  /\ queuedBytes' = 0
  /\ outcome' = RejectOpen(promises)
  /\ finishing' = IF finishing = "waiting" THEN "rejected" ELSE finishing

(* Mutant: an idle writer does not resolve finish().                      *)
FinishIfIdle_Never == finishing

(* #resolveFinishIfIdle, called when nothing is pending or active. *)
FinishIfIdle == IF finishing = "waiting" THEN "resolved" ELSE finishing

(* #pump with nothing in the stream: the next write of queue is handed to  *)
(* it, and either meets backpressure or not, or throws.  waiting is the     *)
(* write whose backpressure still waits for drain.                         *)
Pump(queue, bytes, promises, waiting) ==
  IF queue = <<>>
  THEN /\ active' = <<>>
       /\ pending' = <<>>
       /\ queuedBytes' = bytes
       /\ outcome' = promises
       /\ finishing' = FinishIfIdle
       /\ undrained' = waiting
       /\ UNCHANGED <<accepting, terminalError, wire>>
  ELSE \/ \E acceptedWithoutBackpressure \in BOOLEAN :
            /\ active' = <<[write |-> Head(queue), callbackFinished |-> FALSE,
                            drainFinished |-> acceptedWithoutBackpressure]>>
            /\ pending' = Tail(queue)
            /\ queuedBytes' = bytes
            /\ outcome' = promises
            /\ wire' = Append(wire, Head(queue).sequence)
            /\ undrained' = IF acceptedWithoutBackpressure THEN waiting
                            ELSE waiting \cup {Head(queue).sequence}
            /\ UNCHANGED <<accepting, terminalError, finishing>>
       \/ Fail(promises) /\ undrained' = waiting /\ UNCHANGED wire

Enqueue(write) == Append(pending, write)

(* send(): a frame within the limits is queued, and written if the stream  *)
(* is free.  A refused send() changes nothing.                             *)
Send(byteLength) ==
  /\ accepting
  /\ nextSequence <= MaxSends
  /\ Len(pending) + Len(active) + 1 <= MaxQueuedMessages
  /\ queuedBytes + byteLength <= MaxQueuedBytes
  /\ LET write == [sequence |-> nextSequence, byteLength |-> byteLength]
         queue == Enqueue(write)
         bytes == queuedBytes + byteLength
         promises == [outcome EXCEPT ![nextSequence] = "queued"]
     IN IF active = <<>>
        THEN Pump(queue, bytes, promises, undrained)
        ELSE /\ pending' = queue
             /\ queuedBytes' = bytes
             /\ outcome' = promises
             /\ UNCHANGED <<accepting, active, terminalError, finishing, wire,
                            undrained>>
  /\ nextSequence' = nextSequence + 1
  /\ UNCHANGED <<callbacks, closed>>

(* Mutant: finish() waits for the queue only.                             *)
Finish_IgnoresActive ==
  /\ finishing = "none"
  /\ accepting' = FALSE
  /\ finishing' = IF terminalError THEN "rejected"
                  ELSE IF pending = <<>> THEN "resolved"
                  ELSE "waiting"
  /\ UNCHANGED <<pending, active, nextSequence, queuedBytes, terminalError,
                 outcome, wire, callbacks, undrained, closed>>

(* finish(): no more sends; resolves once everything queued is accepted. *)
Finish ==
  /\ finishing = "none"
  /\ accepting' = FALSE
  /\ finishing' = IF terminalError THEN "rejected"
                  ELSE IF active = <<>> /\ pending = <<>> THEN "resolved"
                  ELSE "waiting"
  /\ UNCHANGED <<pending, active, nextSequence, queuedBytes, terminalError,
                 outcome, wire, callbacks, undrained, closed>>

Abort ==
  /\ ~terminalError
  /\ Fail(outcome)
  /\ UNCHANGED <<nextSequence, wire, callbacks, undrained, closed>>

-----------------------------------------------------------------------------
(* Stream events *)

(* Mutant: the bytes of a completed write are not released.               *)
CompleteIfReady_KeepsBytes(a, waiting) ==
  IF a.callbackFinished /\ a.drainFinished
  THEN Pump(pending, queuedBytes,
            [outcome EXCEPT ![a.write.sequence] = "resolved"], waiting)
  ELSE /\ active' = <<a>>
       /\ undrained' = waiting
       /\ UNCHANGED <<accepting, pending, queuedBytes, terminalError,
                      finishing, outcome, wire>>

(* Mutant: a write is complete with its callback, or with its drain.      *)
CompleteIfReady_Either(a, waiting) ==
  IF a.callbackFinished \/ a.drainFinished
  THEN Pump(pending, queuedBytes - a.write.byteLength,
            [outcome EXCEPT ![a.write.sequence] = "resolved"], waiting)
  ELSE /\ active' = <<a>>
       /\ undrained' = waiting
       /\ UNCHANGED <<accepting, pending, queuedBytes, terminalError,
                      finishing, outcome, wire>>

(* A write whose callback and drain are both in is accepted: its promise   *)
(* resolves, its bytes are released and the next write starts.             *)
CompleteIfReady(a, waiting) ==
  IF a.callbackFinished /\ a.drainFinished
  THEN Pump(pending, queuedBytes - a.write.byteLength,
            [outcome EXCEPT ![a.write.sequence] = "resolved"], waiting)
  ELSE /\ active' = <<a>>
       /\ undrained' = waiting
       /\ UNCHANGED <<accepting, pending, queuedBytes, terminalError,
                      finishing, outcome, wire>>

(* A write is settled when it completes or fails, so one that was given to *)
(* the stream is settled when it is not the active one any more.           *)
Settled(m) == active = <<>> \/ active[1].write.sequence # m

(* Mutant: a callback that comes after the failure completes its write:   *)
(* the bytes, which #fail has given back, are released once more.         *)
WriteCallback_EvenSettled(m) ==
  /\ m <= Len(wire)
  /\ callbacks[m] = "none"
  /\ callbacks' = [callbacks EXCEPT ![m] = "written"]
  /\ IF active = <<>>
     THEN /\ \E byteLength \in 2..MaxFrameBytes + 1 :
               queuedBytes' = queuedBytes - byteLength
          /\ UNCHANGED <<accepting, pending, active, terminalError, finishing,
                         outcome, wire, undrained>>
     ELSE CompleteIfReady([active[1] EXCEPT !.callbackFinished = TRUE],
                          undrained)
  /\ UNCHANGED <<nextSequence, closed>>

(* The callback of a write, which also runs late, after a failure has      *)
(* rejected the write: then it is ignored.                                 *)
WriteCallback(m) ==
  /\ m <= Len(wire)
  /\ callbacks[m] = "none"
  /\ \/ /\ callbacks' = [callbacks EXCEPT ![m] = "written"]
        /\ IF Settled(m)
           THEN UNCHANGED <<writer, undrained>>
           ELSE CompleteIfReady([active[1] EXCEPT !.callbackFinished = TRUE],
                                undrained)
     \/ /\ callbacks' = [callbacks EXCEPT ![m] = "failed"]
        /\ UNCHANGED undrained
        /\ IF Settled(m) THEN UNCHANGED writer
           ELSE Fail(outcome) /\ UNCHANGED wire
  /\ UNCHANGED <<nextSequence, closed>>

(* The stream has drained.  A write that failed no longer listens. *)
Drain ==
  /\ undrained # {}
  /\ IF active = <<>>
     THEN undrained' = {} /\ UNCHANGED writer
     ELSE CompleteIfReady([active[1] EXCEPT !.drainFinished = TRUE], {})
  /\ UNCHANGED <<nextSequence, callbacks, closed>>

(* The error event. *)
StreamError ==
  /\ ~terminalError
  /\ Fail(outcome)
  /\ UNCHANGED <<nextSequence, wire, callbacks, undrained, closed>>

(* close is unexpected while sends are possible or under way. *)
StreamClose ==
  /\ ~closed
  /\ closed' = TRUE
  /\ IF ~terminalError /\ (accepting \/ active # <<>> \/ pending # <<>>)
     THEN Fail(outcome) /\ UNCHANGED wire
     ELSE UNCHANGED writer
  /\ UNCHANGED <<nextSequence, callbacks, undrained>>

(* A frame is its payload and a newline. *)
Sends == \E payload \in 1..MaxFrameBytes : Send(payload + 1)
Stream == \/ \E m \in 1..MaxSends : WriteCallback(m)
          \/ Drain \/ StreamError \/ StreamClose
Done == finishing \in {"resolved", "rejected"} /\ UNCHANGED vars

Next == Sends \/ Finish \/ Abort \/ Stream \/ Done

Spec == Init /\ [][Next]_vars

(* A write in the stream makes progress or, at the latest when the shutdown *)
(* of the process kills a target that no longer reads, fails or is closed  *)
(* under it.  Nothing is assumed of an idle stream.                        *)
Progress == active # <<>> /\ Stream
FairSpec == Spec /\ WF_vars(Progress)

-----------------------------------------------------------------------------
(* Properties *)

(* #queuedBytes is exactly the number of the bytes that are queued or in   *)
(* the stream, and neither limit is ever exceeded, whatever mix of         *)
(* completions and failures.                                               *)
BytesOf(write) == {write.sequence} \X (1..write.byteLength)
Held == {active[i].write : i \in DOMAIN active}
          \cup {pending[i] : i \in DOMAIN pending}
AccountingIsExact ==
  /\ TypeOK
  /\ queuedBytes = Cardinality(UNION {BytesOf(write) : write \in Held})
  /\ queuedBytes <= MaxQueuedBytes
  /\ Len(active) + Len(pending) <= MaxQueuedMessages

(* The stream gets the messages in the order of send(), each once, and a  *)
(* receipt is evidence that it took the message: its callback reported    *)
(* success and the backpressure it met has drained, in either order.      *)
ReceiptMeansWritten ==
  /\ \A i \in DOMAIN wire : wire[i] = i
  /\ \A m \in 1..MaxSends :
       outcome[m] = "resolved" =>
         m <= Len(wire) /\ callbacks[m] = "written" /\ m \notin undrained

(* finish() resolves only when every accepted send() got its receipt. *)
FinishMeansFlushed ==
  finishing = "resolved" =>
    \A m \in 1..nextSequence - 1 : outcome[m] = "resolved"

(* What the two promises of the writer say when they resolve is true. *)
ReceiptsAreEvidence == ReceiptMeansWritten /\ FinishMeansFlushed

(* finish() never hangs while the stream makes progress. *)
FinishSettles == finishing = "waiting" ~> finishing \in {"resolved", "rejected"}

(* The writer implements ordered delivery. *)
Ordered == INSTANCE OrderedDelivery WITH failed <- terminalError
Delivery == Ordered!Spec

=============================================================================
