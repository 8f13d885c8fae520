---------------------------- MODULE MessageQueue ----------------------------
(***************************************************************************)
(* transport/message-queue.ts: the decoded messages of the target wait     *)
(* here for receive(), or the calls of receive() wait here for a message.  *)
(* end() lets the queued messages be received first, fail() drops them.    *)
(*                                                                         *)
(* The queue is filled by StdioProcessTransport, which fails it in the     *)
(* same turn when a message does not fit.  Messages and calls are numbered *)
(* in the order in which they arrive.                                      *)
(***************************************************************************)
EXTENDS Integers, Sequences, FiniteSets

CONSTANTS MaxBytes,            \* limits.maxBytes
          MaxMessages,         \* limits.maxMessages
          MaxPendingReceives,  \* limits.maxPendingReceives
          MaxMessageBytes,     \* bound on the size of a message
          MaxPushes,           \* bound on the messages that arrive
          MaxReceives          \* bound on the calls of receive()

ASSUME QueueAssumption ==
  {MaxBytes, MaxMessages, MaxPendingReceives, MaxMessageBytes, MaxPushes,
   MaxReceives} \subseteq Nat \ {0}

VARIABLES
  items,          \* #items
  waiters,        \* #waiters, by the number of the call
  queuedBytes,    \* #queuedBytes
  terminalError,  \* #terminalError: none, or the kind of end it came from
  pushes,         \* messages the queue took
  receives,       \* calls of receive()
  delivered,      \* what receive() returned, in the order of delivery
  rejected        \* calls of receive() that were rejected

vars == <<items, waiters, queuedBytes, terminalError, pushes, receives,
          delivered, rejected>>

Items == [byteLength : 1..MaxMessageBytes, message : 1..MaxPushes]
Deliveries == [receiver : 1..MaxReceives, message : 1..MaxPushes]

LimitsHold ==
  /\ Len(items) <= MaxMessages
  /\ queuedBytes <= MaxBytes
  /\ Len(waiters) <= MaxPendingReceives

TypeOK ==
  /\ LimitsHold
  /\ items \in Seq(Items)
  /\ waiters \in Seq(1..MaxReceives)
  /\ queuedBytes \in Nat
  /\ terminalError \in {"none", "ended", "failed"}
  /\ pushes \in 0..MaxPushes
  /\ receives \in 0..MaxReceives
  /\ delivered \in Seq(Deliveries)
  /\ rejected \subseteq 1..MaxReceives

Init ==
  /\ items = <<>>
  /\ waiters = <<>>
  /\ queuedBytes = 0
  /\ terminalError = "none"
  /\ pushes = 0
  /\ receives = 0
  /\ delivered = <<>>
  /\ rejected = {}

Deliver(receiver, message) ==
  delivered' = Append(delivered, [receiver |-> receiver, message |-> message])

-----------------------------------------------------------------------------
(* end() and fail() *)

(* Mutant: the end of the stream drops what is queued.                    *)
SetTerminal_AlwaysDiscards(error, discardQueuedMessages) ==
  /\ terminalError' = error
  /\ items' = <<>>
  /\ queuedBytes' = 0
  /\ rejected' = rejected \cup {waiters[i] : i \in DOMAIN waiters}
  /\ waiters' = <<>>

(* Mutant: only the call that waits longest is rejected.                  *)
SetTerminal_RejectsOldest(error, discardQueuedMessages) ==
  /\ terminalError' = error
  /\ items' = IF discardQueuedMessages THEN <<>> ELSE items
  /\ queuedBytes' = IF discardQueuedMessages THEN 0 ELSE queuedBytes
  /\ rejected' = rejected \cup {waiters[i] : i \in DOMAIN waiters \cap {1}}
  /\ waiters' = <<>>

(* #setTerminal: the first terminal error stays.  A failure drops what is  *)
(* queued; waiting calls are rejected unless messages are still queued.    *)
SetTerminal(error, discardQueuedMessages) ==
  /\ terminalError' = error
  /\ items' = IF discardQueuedMessages THEN <<>> ELSE items
  /\ queuedBytes' = IF discardQueuedMessages THEN 0 ELSE queuedBytes
  /\ IF items' = <<>>
     THEN /\ rejected' = rejected \cup {waiters[i] : i \in DOMAIN waiters}
          /\ waiters' = <<>>
     ELSE UNCHANGED <<rejected, waiters>>

End ==
  /\ terminalError = "none"
  /\ SetTerminal("ended", FALSE)
  /\ UNCHANGED <<pushes, receives, delivered>>

FailQueue ==
  /\ terminalError = "none"
  /\ SetTerminal("failed", TRUE)
  /\ UNCHANGED <<pushes, receives, delivered>>

-----------------------------------------------------------------------------
(* push() *)

(* The call that waits longest takes the message past the queue. *)
PushToWaiter ==
  /\ terminalError = "none"
  /\ pushes < MaxPushes
  /\ waiters # <<>>
  /\ pushes' = pushes + 1
  /\ Deliver(Head(waiters), pushes + 1)
  /\ waiters' = Tail(waiters)
  /\ UNCHANGED <<items, queuedBytes, terminalError, receives, rejected>>

(* Room for one more message, in count and in bytes. *)
Fits(byteLength) ==
  /\ Len(items) + 1 <= MaxMessages
  /\ queuedBytes + byteLength <= MaxBytes

(* Mutant: a message is queued past a waiting call.                       *)
PushToQueue_IgnoresWaiters(byteLength) ==
  /\ terminalError = "none"
  /\ pushes < MaxPushes
  /\ Fits(byteLength)
  /\ pushes' = pushes + 1
  /\ items' = Append(items, [byteLength |-> byteLength, message |-> pushes + 1])
  /\ queuedBytes' = queuedBytes + byteLength
  /\ UNCHANGED <<waiters, terminalError, receives, delivered, rejected>>

(* Nobody waits: the message is queued if it fits. *)
PushToQueue(byteLength) ==
  /\ terminalError = "none"
  /\ pushes < MaxPushes
  /\ waiters = <<>>
  /\ Fits(byteLength)
  /\ pushes' = pushes + 1
  /\ items' = Append(items, [byteLength |-> byteLength, message |-> pushes + 1])
  /\ queuedBytes' = queuedBytes + byteLength
  /\ UNCHANGED <<waiters, terminalError, receives, delivered, rejected>>

(* push() throws and the transport fails the queue. *)
PushOverflows(byteLength) ==
  /\ terminalError = "none"
  /\ waiters = <<>>
  /\ ~Fits(byteLength)
  /\ SetTerminal("failed", TRUE)
  /\ UNCHANGED <<pushes, receives, delivered>>

-----------------------------------------------------------------------------
(* receive() *)

(* A queued message is returned at once, after the end too. *)
ReceiveItem ==
  /\ receives < MaxReceives
  /\ items # <<>>
  /\ receives' = receives + 1
  /\ Deliver(receives + 1, Head(items).message)
  /\ items' = Tail(items)
  /\ queuedBytes' = queuedBytes - Head(items).byteLength
  /\ UNCHANGED <<waiters, terminalError, pushes, rejected>>

(* Mutant: the end is reported before the queued messages.                *)
ReceiveRefused_TerminalFirst ==
  /\ receives < MaxReceives
  /\ terminalError # "none" \/ Len(waiters) >= MaxPendingReceives
  /\ receives' = receives + 1
  /\ rejected' = rejected \cup {receives + 1}
  /\ UNCHANGED <<items, waiters, queuedBytes, terminalError, pushes, delivered>>

(* Nothing is queued and nothing will be, or too many calls already wait. *)
ReceiveRefused ==
  /\ receives < MaxReceives
  /\ items = <<>>
  /\ terminalError # "none" \/ Len(waiters) >= MaxPendingReceives
  /\ receives' = receives + 1
  /\ rejected' = rejected \cup {receives + 1}
  /\ UNCHANGED <<items, waiters, queuedBytes, terminalError, pushes, delivered>>

ReceiveWaits ==
  /\ receives < MaxReceives
  /\ items = <<>>
  /\ terminalError = "none"
  /\ Len(waiters) < MaxPendingReceives
  /\ receives' = receives + 1
  /\ waiters' = Append(waiters, receives + 1)
  /\ UNCHANGED <<items, queuedBytes, terminalError, pushes, delivered, rejected>>

Push == \/ PushToWaiter
        \/ \E byteLength \in 1..MaxMessageBytes :
             PushToQueue(byteLength) \/ PushOverflows(byteLength)
Receive == ReceiveItem \/ ReceiveRefused \/ ReceiveWaits

Next == Push \/ Receive \/ End \/ FailQueue

Spec == Init /\ [][Next]_vars

-----------------------------------------------------------------------------
(* Properties *)

(* No call waits while a message is queued or after the end: end() rejects *)
(* no waiter when messages are queued, so it relies on there being none.   *)
NoStrandedReceiver ==
  waiters # <<>> => items = <<>> /\ terminalError = "none"

(* #queuedBytes is exactly the number of the bytes that are queued, so the *)
(* limit on it neither blocks nor floods the queue after a failure.        *)
BytesOf(item) == {item.message} \X (1..item.byteLength)
Queued == UNION {BytesOf(items[i]) : i \in DOMAIN items}
AccountingIsExact == queuedBytes = Cardinality(Queued)

(* Every message taken has been received or is queued next in line, in the *)
(* order of arrival and without a repetition, unless a failure dropped it. *)
InLine ==
  terminalError # "failed" =>
    /\ pushes = Len(delivered) + Len(items)
    /\ \A i \in DOMAIN items : items[i].message = Len(delivered) + i
NothingLost ==
  /\ \A i \in DOMAIN delivered : delivered[i].message = i
  /\ InLine

(* Every call of receive() is settled once or waits in its turn, and the   *)
(* calls that get a message get it in the order in which they were made.   *)
EveryCallHasOneOutcome ==
  LET served == {delivered[i].receiver : i \in DOMAIN delivered}
  IN /\ served \cap rejected = {}
     /\ 1..receives = served \cup rejected
                         \cup {waiters[i] : i \in DOMAIN waiters}
     /\ \A i, k \in DOMAIN delivered :
          i < k => delivered[i].receiver < delivered[k].receiver

(* What the queue counts is what it holds, within its limits (TypeOK), and *)
(* every call is accounted for.                                            *)
BooksBalance == TypeOK /\ AccountingIsExact /\ EveryCallHasOneOutcome

(* A call is rejected only when nothing is left to receive: what arrived   *)
(* before the target ended its output is received first.                   *)
RejectsOnlyWhenDrained == [][rejected' # rejected => items' = <<>>]_vars

=============================================================================
