------------------------------ MODULE RawClient ------------------------------
(***************************************************************************)
(* mcp/raw-client.ts: requests on one connection to the target.  A request *)
(* is pending under its identifier until a response, its timer, its abort  *)
(* signal, cancel() or the termination of the client settles it.  The      *)
(* identifiers of settled requests stay behind as tombstones, so that a    *)
(* late or repeated response is ignored; the oldest tombstone is evicted.  *)
(*                                                                         *)
(* One action is one callback that runs to completion.  A message that won *)
(* the reader's race is handled in a later callback, and may then find the *)
(* client terminated; so may the continuation that parses a result.        *)
(*                                                                         *)
(* The transport and the target are modelled from their use here: a send() *)
(* rejects or throws at any time or never; the target answers what it      *)
(* likes, late, twice, or requests that were never made.  Of a write only  *)
(* its failure is modelled: nothing here depends on its success, which is  *)
(* passed on to the caller.                                                *)
(* Notifications and the pages of tools/list are not modelled.             *)
(***************************************************************************)
EXTENDS Integers, Sequences, FiniteSets, SequencesExt, Functions

CONSTANTS
  Names,          \* identifiers that are strings
  MaxSafeId,      \* Number.MAX_SAFE_INTEGER
  MaxTombstones,  \* options.maxTombstones
  MaxCalls        \* bound on the requests

ASSUME ClientAssumption ==
  /\ {MaxSafeId, MaxTombstones, MaxCalls} \subseteq Nat \ {0}
  /\ Names \cap Int = {}

VARIABLES
  calls,       \* the requests, in the order in which they were begun
  pending,     \* #pending: from identifiers to the requests
  tombstones,  \* #tombstones, the oldest first
  settled,     \* requests that left #pending, the first one first
  explicit,    \* #explicitRequestIds
  nextId,      \* #nextRequestId
  cancels,     \* identifiers of the cancellations handed to send()
  auxiliary,   \* a reply or cancellation was sent, whose write may fail
  terminal,    \* #terminalError
  transport,   \* what #transportClosePromise says of the transport
  reader,      \* #readLoop
  taken,       \* the message it took, before it is handled
  closing      \* close()

vars == <<calls, pending, tombstones, settled, explicit, nextId, cancels,
          auxiliary, terminal, transport, reader, taken, closing>>
loop == <<reader, taken>>
identifiers == <<explicit, nextId>>
memory == <<tombstones, settled>>

Numbers == 0..MaxSafeId
Ids == Names \cup Numbers
(* How the promises of a request settle: by a result that is not parsed    *)
(* yet, a result or error of the target, an invalid answer, a timeout or   *)
(* abort, and the end of the transport or of the client.                   *)
Outcomes == {"pending", "answered", "settled", "invalid", "abandoned",
             "transport", "unknown"}
Calls == [id : Ids, outcome : Outcomes, by : Nat]

(* of is the request a response answers, 0 if it answers none.  What else  *)
(* a message holds is chosen when it is handled.                           *)
Messages == [kind : {"response"}, id : Ids, of : Nat]
              \cup {[kind |-> "other", id |-> 0, of |-> 0]}
NoMessage == [kind |-> "none", id |-> 0, of |-> 0]

TypeOK ==
  /\ calls \in Seq(Calls)
  /\ DOMAIN pending \subseteq Ids
  /\ Range(pending) \subseteq DOMAIN calls
  /\ tombstones \in Seq(Ids)
  /\ Len(tombstones) <= MaxTombstones
  /\ settled \in Seq(DOMAIN calls)
  /\ explicit \subseteq Ids
  /\ Cardinality(explicit) <= MaxTombstones
  /\ nextId \in 1..MaxSafeId + 1
  /\ cancels \in Seq(Ids)
  /\ auxiliary \in BOOLEAN
  /\ terminal \in BOOLEAN
  /\ transport \in {"open", "closing", "closed"}
  /\ reader \in {"waiting", "taken", "done"}
  /\ taken \in Messages \cup {NoMessage}
  /\ closing \in {"none", "waiting", "done"}

Init ==
  /\ calls = <<>>
  /\ pending = <<>>
  /\ tombstones = <<>>
  /\ settled = <<>>
  /\ explicit = {}
  /\ nextId = 1
  /\ cancels = <<>>
  /\ auxiliary = FALSE
  /\ terminal = FALSE
  /\ transport = "open"
  /\ reader = "waiting"
  /\ taken = NoMessage
  /\ closing = "none"

-----------------------------------------------------------------------------
(* What the callbacks share *)

(* What is pending when the client fails has failed with the transport, or *)
(* its outcome is unknown.                                                 *)
FailedCalls(requests, open, reason) ==
  [n \in DOMAIN requests |->
     IF n \in Range(open)
     THEN [requests[n] EXCEPT !.outcome =
             IF reason = "transport" THEN "transport" ELSE "unknown"]
     ELSE requests[n]]

(* #closeTransport: the transport is closed once. *)
CloseTransport ==
  transport' = IF transport = "open" THEN "closing" ELSE transport

(* #terminate, where requests and open are what the callback made of calls *)
(* and pending before; the first error stays.                              *)
Terminate(requests, open, reason) ==
  /\ UNCHANGED auxiliary
  /\ IF terminal
     THEN /\ calls' = requests
          /\ pending' = open
          /\ UNCHANGED <<terminal, transport>>
     ELSE /\ terminal' = TRUE
          /\ calls' = FailedCalls(requests, open, reason)
          /\ pending' = <<>>
          /\ CloseTransport

(* #rememberTombstone *)
Remembered(id) ==
  LET all == IF Contains(tombstones, id) THEN tombstones
                                         ELSE Append(tombstones, id)
  IN IF Len(all) > MaxTombstones THEN Tail(all) ELSE all

Without(id) == Restrict(pending, DOMAIN pending \ {id})

(* #sendAuxiliaryMessage: the send is under way, or throws at once.        *)
SendAuxiliary(requests, open) ==
  \/ /\ auxiliary' = TRUE
     /\ calls' = requests
     /\ pending' = open
     /\ UNCHANGED <<terminal, transport>>
  \/ Terminate(requests, open, "transport")

-----------------------------------------------------------------------------
(* Requests *)

(* Mutant: the same number is the next one to be allocated. *)
NextAfter_Repeats(id) == IF id \in Numbers /\ id > nextId THEN id ELSE nextId

(* Numbers that were taken are not allocated any more. *)
NextAfter(id) == IF id \in Numbers /\ id >= nextId THEN id + 1 ELSE nextId

(* #startRequest with the identifier selected. *)
StartRequest(id) ==
  /\ calls' = Append(calls, [id |-> id, outcome |-> "pending", by |-> 0])
  /\ pending' = [i \in DOMAIN pending \cup {id} |->
                   IF i = id THEN Len(calls) + 1 ELSE pending[i]]
  /\ UNCHANGED <<memory, cancels, auxiliary, terminal, transport, loop,
                 closing>>

(* #allocateRequestId: the client ends when the numbers are used up.       *)
BeginAllocated ==
  /\ ~terminal
  /\ Len(calls) < MaxCalls
  /\ IF nextId > MaxSafeId
     THEN /\ Terminate(calls, pending, "protocol")
          /\ UNCHANGED <<memory, identifiers, cancels, loop, closing>>
     ELSE /\ nextId' = nextId + 1
          /\ UNCHANGED explicit
          /\ StartRequest(nextId)

(* #selectRequestId: what the caller asked for is new to this connection.  *)
Selectable(id) ==
  /\ id \notin DOMAIN pending
  /\ id \in Numbers => id >= nextId
  /\ id \notin explicit
  /\ Cardinality(explicit) < MaxTombstones

BeginExplicit(id) ==
  /\ ~terminal
  /\ Len(calls) < MaxCalls
  /\ Selectable(id)
  /\ explicit' = explicit \cup {id}
  /\ nextId' = NextAfter(id)
  /\ StartRequest(id)

(* The write of a request, or of a reply or a cancellation, fails late. *)
WriteRejected ==
  /\ calls # <<>> \/ auxiliary
  /\ Terminate(calls, pending, "transport")
  /\ UNCHANGED <<memory, identifiers, cancels, loop, closing>>

(* Mutant: an abandoned request stays pending. *)
Abandon_KeepsPending(id) ==
  IF id \notin DOMAIN pending
  THEN UNCHANGED <<calls, pending, memory, cancels, auxiliary, terminal,
                   transport>>
  ELSE /\ tombstones' = tombstones
       /\ settled' = Append(settled, pending[id])
       /\ cancels' = Append(cancels, id)
       /\ SendAuxiliary([calls EXCEPT ![pending[id]].outcome = "abandoned"],
                        pending)

(* Mutant: an abandoned request leaves no tombstone. *)
Abandon_Forgets(id) ==
  IF id \notin DOMAIN pending
  THEN UNCHANGED <<calls, pending, memory, cancels, auxiliary, terminal,
                   transport>>
  ELSE /\ settled' = Append(settled, pending[id])
       /\ cancels' = Append(cancels, id)
       /\ SendAuxiliary([calls EXCEPT ![pending[id]].outcome = "abandoned"],
                        Without(id))
       /\ UNCHANGED tombstones

(* #abandonRequest: the target is told that nobody waits any more.         *)
Abandon(id) ==
  IF id \notin DOMAIN pending
  THEN UNCHANGED <<calls, pending, memory, cancels, auxiliary, terminal,
                   transport>>
  ELSE /\ tombstones' = Remembered(id)
       /\ settled' = Append(settled, pending[id])
       /\ cancels' = Append(cancels, id)
       /\ SendAuxiliary([calls EXCEPT ![pending[id]].outcome = "abandoned"],
                        Without(id))

(* A timer and an abort listener live as long as their request is open.    *)
TimesOut(n) ==
  /\ n \in DOMAIN calls
  /\ calls[n].outcome = "pending"
  /\ Abandon(calls[n].id)
  /\ UNCHANGED <<identifiers, loop, closing>>

(* The abort signal while the request is open, or cancel() at any time.    *)
Cancel(n) ==
  /\ ~terminal
  /\ Abandon(calls[n].id)
  /\ UNCHANGED <<identifiers, loop, closing>>

(* The continuation of beginToolCall: a result that does not parse ends    *)
(* the client.                                                             *)
ParseResult(n) ==
  /\ n \in DOMAIN calls
  /\ calls[n].outcome = "answered"
  /\ \/ /\ calls' = [calls EXCEPT ![n].outcome = "settled"]
        /\ UNCHANGED <<pending, auxiliary, terminal, transport>>
     \/ Terminate([calls EXCEPT ![n].outcome = "invalid"], pending, "protocol")
  /\ UNCHANGED <<memory, identifiers, cancels, loop, closing>>

-----------------------------------------------------------------------------
(* The reader *)

(* A message of the target wins the race of the reader. *)
Take(message) ==
  /\ reader = "waiting"
  /\ ~terminal
  /\ reader' = "taken"
  /\ taken' = message
  /\ UNCHANGED <<calls, pending, memory, identifiers, cancels, auxiliary,
                 terminal, transport, closing>>

(* receive() rejects, which ends the client. *)
ReceiveFails ==
  /\ reader = "waiting"
  /\ reader' = "done"
  /\ Terminate(calls, pending, "transport")
  /\ UNCHANGED <<memory, identifiers, cancels, taken, closing>>

(* Mutant: the reader waits for the transport alone. *)
ReaderReleased_Never ==
  /\ reader = "taken"
  /\ terminal
  /\ reader' = "done"
  /\ taken' = NoMessage
  /\ UNCHANGED <<calls, pending, memory, identifiers, cancels, auxiliary,
                 terminal, transport, closing>>

(* The boundary releases the reader, and what it took is dropped. *)
ReaderReleased ==
  /\ reader \in {"waiting", "taken"}
  /\ terminal
  /\ reader' = "done"
  /\ taken' = NoMessage
  /\ UNCHANGED <<calls, pending, memory, identifiers, cancels, auxiliary,
                 terminal, transport, closing>>

(* #handleResponse; a malformed response settles its own request last.     *)
HandleResponse(id, of) ==
  IF Contains(tombstones, id)
  THEN UNCHANGED <<calls, pending, memory, auxiliary, terminal, transport>>
  ELSE IF id \notin DOMAIN pending
  THEN /\ Terminate(calls, pending, "protocol")
       /\ UNCHANGED memory
  ELSE LET n == pending[id]
           Result(outcome) ==
             [calls EXCEPT ![n].outcome = outcome, ![n].by = of]
       IN /\ tombstones' = Remembered(id)
          /\ settled' = Append(settled, n)
          /\ \/ /\ \E outcome \in {"answered", "settled"} :
                     calls' = Result(outcome)
                /\ pending' = Without(id)
                /\ UNCHANGED <<auxiliary, terminal, transport>>
             \/ Terminate(Result("invalid"), Without(id), "protocol")

(* A request of the target is replied to, a notification is recorded, and  *)
(* anything else ends the client.                                          *)
HandleOther ==
  /\ \/ SendAuxiliary(calls, pending)
     \/ UNCHANGED <<calls, pending, auxiliary, terminal, transport>>
     \/ Terminate(calls, pending, "protocol")
  /\ UNCHANGED memory

(* #handleIncoming, after which the loop looks at the terminal error.      *)
Handle ==
  /\ reader = "taken"
  /\ ~terminal
  /\ IF taken.kind = "response" THEN HandleResponse(taken.id, taken.of)
                                ELSE HandleOther
  /\ reader' = IF terminal' THEN "done" ELSE "waiting"
  /\ taken' = NoMessage
  /\ UNCHANGED <<identifiers, cancels, closing>>

-----------------------------------------------------------------------------
(* close() *)

Close ==
  /\ closing = "none"
  /\ closing' = "waiting"
  /\ Terminate(calls, pending, "closed")
  /\ UNCHANGED <<memory, identifiers, cancels, loop>>

Closed ==
  /\ closing = "waiting"
  /\ transport = "closed"
  /\ reader = "done"
  /\ closing' = "done"
  /\ UNCHANGED <<calls, pending, memory, identifiers, cancels, auxiliary,
                 terminal, transport, loop>>

(* The promise of transport.close() is settled, one way or the other.      *)
TransportCloses ==
  /\ transport = "closing"
  /\ transport' = "closed"
  /\ UNCHANGED <<calls, pending, memory, identifiers, cancels, auxiliary,
                 terminal, loop, closing>>

-----------------------------------------------------------------------------
(* What the target may send: a response to any request made so far, or to  *)
(* none, and anything else.                                                *)
TargetMessages ==
  LET used == {calls[n].id : n \in DOMAIN calls}
  IN {[kind |-> "response", id |-> calls[n].id, of |-> n] : n \in DOMAIN calls}
     \cup [kind : {"response"}, id : Ids \ used, of : {0}]
     \cup [kind : {"other"}, id : {0}, of : {0}]

Target == \E message \in TargetMessages : Take(message)

Users == \/ BeginAllocated \/ Close
         \/ \E id \in Ids : BeginExplicit(id)
         \/ \E n \in DOMAIN calls : Cancel(n)

Transport == WriteRejected \/ ReceiveFails

Continuations == ReaderReleased \/ Handle \/ Closed \/ TransportCloses

Done == closing = "done" /\ UNCHANGED vars

Next == \/ Users \/ Transport \/ Target \/ Continuations
        \/ \E n \in DOMAIN calls : TimesOut(n) \/ ParseResult(n)
        \/ Done

Spec == Init /\ [][Next]_vars

(* The event loop runs timers and continuations, and close() of the        *)
(* transport is bounded.  Neither the target nor a write need ever act.    *)
(* Requests are finitely many and each is open once, so that one condition *)
(* on their timers is enough.                                              *)
FairSpec ==
  /\ Spec
  /\ WF_vars(Continuations)
  /\ WF_vars(\E n \in DOMAIN calls : TimesOut(n) \/ ParseResult(n))

-----------------------------------------------------------------------------
(* Properties *)

(* A request is open exactly as long as it can still be settled: it stands *)
(* in #pending under its own identifier, so that its answer and its timer  *)
(* find it, and nothing stands there once the client has terminated.       *)
OpenCallsAreTracked ==
  /\ \A n \in DOMAIN calls :
       calls[n].outcome = "pending" <=>
         calls[n].id \in DOMAIN pending /\ pending[calls[n].id] = n
  /\ terminal => pending = <<>> /\ transport # "open"

(* A late or repeated answer to a request of this connection is harmless   *)
(* until MaxTombstones other requests have been settled after it.          *)
LateAnswersAreHarmless ==
  [][Handle /\ taken.of # 0 /\ calls[taken.of].outcome # "pending"
       /\ terminal'
       => \E i \in DOMAIN settled :
            settled[i] = taken.of /\ Len(settled) - i >= MaxTombstones]_vars

(* The target is told of a cancellation at most once, and only for a       *)
(* request that was given up, and of each request that was.                *)
CancellationsAreHonest ==
  /\ IsInjective(cancels)
  /\ \A n \in DOMAIN calls :
       LET told == Contains(cancels, calls[n].id)
           givenUp == calls[n].outcome = "abandoned"
       IN told <=> givenUp
  /\ \A i \in DOMAIN cancels : \E n \in DOMAIN calls : calls[n].id = cancels[i]

(* Every request is settled within its time, and close() always returns,   *)
(* although the target may never answer and a write may hang.              *)
EverythingSettles ==
  /\ []<>(\A n \in DOMAIN calls : calls[n].outcome \notin {"pending", "answered"})
  /\ closing = "waiting" ~> closing = "done"

(* Of every request the client knows whether it is open and whether the    *)
(* target was told to drop it, and it remembers no more than its limits    *)
(* allow (TypeOK).                                                         *)
RequestsAreTracked == TypeOK /\ OpenCallsAreTracked /\ CancellationsAreHonest

(* The client implements the contract of calls on one connection.          *)
Summary(call) ==
  CASE call.outcome = "pending" -> [kind |-> "open", by |-> 0]
    [] call.outcome \in {"answered", "settled", "invalid"} ->
         [kind |-> "answered", by |-> call.by]
    [] call.outcome = "abandoned" -> [kind |-> "abandoned", by |-> 0]
    [] call.outcome \in {"transport", "unknown"} -> [kind |-> "lost", by |-> 0]
Contract == INSTANCE CallContract
  WITH outcome <- [n \in DOMAIN calls |-> Summary(calls[n])],
       failed <- terminal
ImplementsContract == Contract!Spec

=============================================================================
