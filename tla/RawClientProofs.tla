--------------------------- MODULE RawClientProofs ---------------------------
(***************************************************************************)
(* Every request of the raw client is tracked until it settles, is settled *)
(* by its own answer or by none, and its late answers are harmless while   *)
(* its tombstone lasts; for any identifiers, limits and number of requests *)
(* and any order of timers, cancellations, failed writes, messages and     *)
(* close().  The client implements CallContract.                           *)
(***************************************************************************)
EXTENDS RawClient, FiniteSetTheorems, TLAPS

(* What requests and open, the calls and #pending a callback is at, say of
   each other: the open requests are those found under their identifiers. *)
Tracked(requests, open) ==
  /\ requests \in Seq(Calls)
  /\ DOMAIN open \subseteq Ids
  /\ \A id \in DOMAIN open :
       /\ open[id] \in DOMAIN requests
       /\ requests[open[id]].id = id
  /\ \A n \in DOMAIN requests :
       requests[n].outcome = "pending" <=>
         requests[n].id \in DOMAIN open /\ open[requests[n].id] = n

(* No identifier is used twice: a number once taken is below the next one,
   and a string stays among the explicit identifiers. *)
FreshInv ==
  /\ IsFiniteSet(explicit)
  /\ \A m, n \in DOMAIN calls : calls[m].id = calls[n].id => m = n
  /\ \A n \in DOMAIN calls :
       /\ calls[n].id \in Numbers => calls[n].id < nextId
       /\ calls[n].id \in Names => calls[n].id \in explicit

(* The tombstones are the identifiers of the requests that were settled last,
   as many of them as there is room for. *)
Evicted == Len(settled) - Len(tombstones)
TombstonesInv ==
  /\ Evicted >= 0
  /\ Evicted > 0 => Len(tombstones) = MaxTombstones
  /\ \A j \in DOMAIN tombstones : tombstones[j] = calls[settled[Evicted + j]].id
  /\ \A i \in DOMAIN settled : calls[settled[i]].outcome # "pending"
  /\ ~terminal =>
       \A n \in DOMAIN calls :
         calls[n].outcome # "pending" =>
           \E i \in DOMAIN settled : settled[i] = n

(* An answer to a request carries the identifier of that request. *)
TakenInv ==
  taken.of # 0 => taken.of \in DOMAIN calls /\ calls[taken.of].id = taken.id

(* Nothing is pending in a client that has terminated. *)
Boundary == terminal => pending = <<>> /\ transport # "open"

OtherTypes ==
  /\ tombstones \in Seq(Ids) /\ Len(tombstones) <= MaxTombstones
  /\ settled \in Seq(DOMAIN calls)
  /\ explicit \subseteq Ids /\ Cardinality(explicit) <= MaxTombstones
  /\ nextId \in 1..MaxSafeId + 1 /\ cancels \in Seq(Ids)
  /\ auxiliary \in BOOLEAN /\ terminal \in BOOLEAN
  /\ transport \in {"open", "closing", "closed"}
  /\ reader \in {"waiting", "taken", "done"}
  /\ taken \in Messages \cup {NoMessage}
  /\ closing \in {"none", "waiting", "done"}

IndInv ==
  /\ Tracked(calls, pending) /\ Boundary /\ OtherTypes
  /\ CancellationsAreHonest
  /\ FreshInv /\ TombstonesInv /\ TakenInv

-----------------------------------------------------------------------------
(* What a callback ends with: it made requests of the calls and open of
   #pending, and went on, or the client terminated with them. *)
Ends(requests, open) ==
  \/ /\ calls' = requests /\ pending' = open
     /\ auxiliary' \in BOOLEAN
     /\ UNCHANGED <<terminal, transport>>
  \/ \E reason : Terminate(requests, open, reason)

(* after is requests with the open ones lost, or not. *)
Continues(requests, after) ==
  /\ DOMAIN after = DOMAIN requests
  /\ \A n \in DOMAIN requests :
       /\ after[n].id = requests[n].id
       /\ requests[n].outcome # "pending" => after[n] = requests[n]
       /\ after[n].outcome \in {requests[n].outcome, "transport", "unknown"}

LEMMA EmptyDomain == DOMAIN <<>> = {}
OBVIOUS

LEMMA FailedCallsTracked ==
  ASSUME NEW requests, NEW open, NEW reason, Tracked(requests, open)
  PROVE  /\ Tracked(FailedCalls(requests, open, reason), <<>>)
         /\ Continues(requests, FailedCalls(requests, open, reason))
<1> DEFINE failed == FailedCalls(requests, open, reason)
           lost == IF reason = "transport" THEN "transport" ELSE "unknown"
<1>1. requests \in Seq(Calls)
  BY DEF Tracked
<1>2. \A n \in DOMAIN requests : requests[n] \in Calls
  BY <1>1
<1>3. \A n \in DOMAIN requests : n \in Range(open) <=>
        requests[n].outcome = "pending"
  BY DEF Tracked, Range
<1>4. lost \in Outcomes \ {"pending"} /\ lost \in {"transport", "unknown"}
  BY DEF Outcomes
<1> HIDE DEF lost
<1>5. /\ DOMAIN failed = DOMAIN requests
      /\ \A n \in DOMAIN requests :
           failed[n] = IF requests[n].outcome = "pending"
                       THEN [requests[n] EXCEPT !.outcome = lost]
                         ELSE requests[n]
  BY <1>3 DEF FailedCalls, lost
<1>6. failed \in Seq(Calls)
  <2>1. PICK k \in Nat : DOMAIN requests = 1..k
    BY <1>1
  <2>2. \A n \in 1..k : failed[n] \in Calls
    BY <1>2, <1>4, <1>5, <2>1 DEF Calls
  <2>3. failed = [n \in 1..k |-> failed[n]]
    BY <2>1 DEF FailedCalls
  <2> HIDE DEF failed
  <2> QED
    BY <2>2, <2>3
<1> HIDE DEF failed
<1>7. Continues(requests, failed)
  BY <1>2, <1>4, <1>5 DEF Continues, Calls
<1>8. Tracked(failed, <<>>)
  BY <1>2, <1>4, <1>5, <1>6, EmptyDomain DEF Tracked, Calls
<1> QED
  BY <1>7, <1>8 DEF failed

(* A callback that leaves its calls tracked leaves the client tracked. *)
LEMMA EndsTracked ==
  ASSUME NEW requests, NEW open, Tracked(requests, open), Ends(requests, open),
         terminal \in BOOLEAN, auxiliary \in BOOLEAN,
         transport \in {"open", "closing", "closed"},
         terminal => open = <<>> /\ transport # "open"
  PROVE  /\ Tracked(calls', pending') /\ Boundary'
         /\ terminal' \in BOOLEAN /\ auxiliary' \in BOOLEAN
         /\ transport' \in {"open", "closing", "closed"}
         /\ Continues(requests, calls')
         /\ terminal => terminal'
         /\ ~terminal' => calls' = requests
<1>0. Continues(requests, requests)
  BY DEF Continues
<1>1. CASE calls' = requests /\ pending' = open /\ auxiliary' \in BOOLEAN
             /\ UNCHANGED <<terminal, transport>>
  BY <1>0, <1>1 DEF Boundary
<1>2. ASSUME NEW reason, Terminate(requests, open, reason)
      PROVE  /\ Tracked(calls', pending') /\ Boundary'
             /\ terminal' /\ auxiliary' \in BOOLEAN
             /\ transport' \in {"open", "closing", "closed"}
             /\ Continues(requests, calls')
  <2>1. CASE terminal
    BY <1>0, <1>2, <2>1 DEF Terminate, Boundary
  <2>2. CASE ~terminal
    BY <1>2, <2>2, FailedCallsTracked DEF Terminate, Boundary, CloseTransport
  <2> QED
    BY <2>1, <2>2
<1> QED
  BY <1>1, <1>2 DEF Ends

LEMMA TrackedMeansTracked == IndInv => RequestsAreTracked
<1> SUFFICES ASSUME IndInv PROVE RequestsAreTracked
  OBVIOUS
<1>1. TypeOK
  BY DEF IndInv, Tracked, OtherTypes, TypeOK, Range
<1>2. OpenCallsAreTracked
  BY DEF IndInv, Tracked, Boundary, OpenCallsAreTracked
<1> QED
  BY <1>1, <1>2 DEF IndInv, RequestsAreTracked

(* requests is calls with one request settled. *)
SettledAt(requests, n) ==
  /\ requests \in Seq(Calls)
  /\ DOMAIN requests = DOMAIN calls
  /\ requests[n].id = calls[n].id
  /\ requests[n].outcome # "pending"
  /\ \A m \in DOMAIN calls \ {n} : requests[m] = calls[m]

LEMMA ChangeSettles ==
  ASSUME calls \in Seq(Calls), NEW n \in DOMAIN calls, NEW call \in Calls,
         call.id = calls[n].id, call.outcome # "pending",
         NEW requests, requests = [calls EXCEPT ![n] = call]
  PROVE  SettledAt(requests, n) /\ requests[n] = call
BY DEF SettledAt

(* A request that is settled is no longer pending, and no other changes. *)
LEMMA SettledTracked ==
  ASSUME Tracked(calls, pending), NEW n \in DOMAIN calls,
         NEW requests, SettledAt(requests, n)
  PROVE  /\ calls[n].outcome # "pending" => Tracked(requests, pending)
         /\ \A id \in DOMAIN pending :
              pending[id] = n => Tracked(requests, Without(id))
<1>1. ASSUME calls[n].outcome # "pending"
      PROVE  Tracked(requests, pending)
  BY <1>1 DEF Tracked, SettledAt
<1>2. ASSUME NEW id \in DOMAIN pending, pending[id] = n
      PROVE  Tracked(requests, Without(id))
  <2>1. /\ DOMAIN Without(id) = DOMAIN pending \ {id}
        /\ \A i \in DOMAIN pending \ {id} : Without(id)[i] = pending[i]
    BY DEF Without, Restrict
  <2> QED
    BY <1>2, <2>1 DEF Tracked, SettledAt
<1> QED
  BY <1>1, <1>2

(* Identifiers stay, and what is settled stays settled. *)
Advances ==
  /\ DOMAIN calls' = DOMAIN calls
  /\ \A m \in DOMAIN calls :
       /\ calls'[m].id = calls[m].id
       /\ calls[m].outcome # "pending" => calls'[m].outcome # "pending"

LEMMA FreshStays ==
  ASSUME FreshInv, Advances, UNCHANGED identifiers
  PROVE  FreshInv'
BY DEF FreshInv, Advances, identifiers

LEMMA TakenStays ==
  ASSUME TakenInv, Advances, taken' \in {taken, NoMessage}
  PROVE  TakenInv'
BY DEF TakenInv, Advances, NoMessage

(* The memory of settled requests, while none is settled by the client. *)
LEMMA TombstonesStay ==
  ASSUME TombstonesInv, OtherTypes, Advances, UNCHANGED memory,
         terminal => terminal',
         ~terminal' => \A m \in DOMAIN calls :
                         calls'[m].outcome # "pending" =>
                           calls[m].outcome # "pending"
  PROVE  TombstonesInv'
<1>1. \A i \in DOMAIN settled : settled[i] \in DOMAIN calls
  BY DEF OtherTypes
<1>2. \A j \in DOMAIN tombstones : Evicted + j \in DOMAIN settled
  BY DEF TombstonesInv, OtherTypes, Evicted
<1>3. Evicted' = Evicted /\ settled' = settled /\ tombstones' = tombstones
  BY DEF Evicted, memory
<1> QED
  BY <1>1, <1>2, <1>3, Zenon DEF TombstonesInv, Advances

(* A tombstone is added for a request that is settled now, and the oldest one
   goes if there is no room. *)
LEMMA RememberedIsAppended ==
  ASSUME TombstonesInv, OtherTypes, FreshInv, Tracked(calls, pending),
         NEW id \in DOMAIN pending
  PROVE  LET all == Append(tombstones, id)
         IN  Remembered(id) = IF Len(all) > MaxTombstones THEN Tail(all)
           ELSE all
<1>1. ASSUME NEW j \in DOMAIN tombstones
      PROVE  tombstones[j] # id
  <2> DEFINE m == settled[Evicted + j]
  <2>1. Evicted + j \in DOMAIN settled
    BY DEF TombstonesInv, OtherTypes, Evicted
  <2>2. m \in DOMAIN calls /\ calls[m].outcome # "pending"
          /\ tombstones[j] = calls[m].id
    BY <2>1 DEF TombstonesInv, OtherTypes
  <2>3. pending[id] \in DOMAIN calls /\ calls[pending[id]].id = id
        /\ calls[pending[id]].outcome = "pending"
    BY DEF Tracked
  <2> HIDE DEF m
  <2> QED
    BY <2>2, <2>3 DEF FreshInv
<1>2. ~Contains(tombstones, id)
  BY <1>1 DEF Contains, OtherTypes
<1> QED
  BY <1>2 DEF Remembered

LEMMA TombstonesGrow ==
  ASSUME TombstonesInv, OtherTypes, FreshInv, Tracked(calls, pending), Advances,
         NEW id \in DOMAIN pending,
         tombstones' = Remembered(id), settled' = Append(settled, pending[id]),
         calls'[pending[id]].outcome # "pending",
         ~terminal,
         ~terminal' => \A m \in DOMAIN calls \ {pending[id]} :
                         calls'[m].outcome # "pending" =>
                           calls[m].outcome # "pending"
  PROVE  /\ TombstonesInv'
         /\ tombstones' \in Seq(Ids) /\ Len(tombstones') <= MaxTombstones
         /\ settled' \in Seq(DOMAIN calls)
<1> DEFINE n == pending[id]
           all == Append(tombstones, id)
           k == Len(settled)
           t == Len(tombstones)
<1>0. n \in DOMAIN calls /\ calls[n].id = id /\ id \in Ids
  BY DEF Tracked
<1>1. /\ settled \in Seq(DOMAIN calls) /\ tombstones \in Seq(Ids)
      /\ k \in Nat /\ t \in Nat /\ MaxTombstones \in Nat \ {0}
      /\ t <= MaxTombstones /\ k >= t /\ (k > t => t = MaxTombstones)
  BY ClientAssumption DEF OtherTypes, TombstonesInv, Evicted
<1>2. /\ settled' \in Seq(DOMAIN calls) /\ Len(settled') = k + 1
      /\ settled'[k + 1] = n /\ \A i \in 1..k : settled'[i] = settled[i]
  BY <1>0, <1>1
<1>3. all \in Seq(Ids) /\ Len(all) = t + 1 /\ all[t + 1] = id
      /\ \A j \in 1..t : all[j] = tombstones[j]
  BY <1>0, <1>1
<1>4. tombstones' = IF t + 1 > MaxTombstones THEN Tail(all) ELSE all
  BY <1>3, RememberedIsAppended
<1>5. \A j \in 1..t + 1 : all[j] = calls[settled'[k - t + j]].id
  <2>1. ASSUME NEW j \in 1..t
        PROVE  all[j] = calls[settled'[k - t + j]].id
    BY <1>1, <1>2, <1>3 DEF TombstonesInv, Evicted
  <2>2. all[t + 1] = calls[settled'[k - t + t + 1]].id
    BY <1>0, <1>1, <1>2, <1>3
  <2> QED
    BY <1>1, <2>1, <2>2
<1>a. DOMAIN settled = 1..k
  BY <1>1
<1>b. k \in Nat /\ t \in Nat /\ MaxTombstones \in Nat /\ MaxTombstones > 0
      /\ t <= MaxTombstones /\ k >= t /\ (k > t => t = MaxTombstones)
  BY <1>1
<1>c. \A i \in 1..k : settled[i] \in DOMAIN calls
  BY <1>1
<1> HIDE DEF all, k, t
<1>6. /\ tombstones' \in Seq(Ids) /\ Len(tombstones') <= MaxTombstones
      /\ Len(tombstones') = IF t = MaxTombstones THEN t ELSE t + 1
      /\ \A j \in 1..Len(tombstones') :
           tombstones'[j] = IF t = MaxTombstones THEN all[j + 1] ELSE all[j]
  BY <1>1, <1>3, <1>4
<1>7. /\ Evicted' >= 0
      /\ Evicted' > 0 => Len(tombstones') = MaxTombstones
      /\ Evicted' = IF t = MaxTombstones THEN k - t + 1 ELSE k - t
  <2>1. Evicted' = Len(settled') - Len(tombstones')
    BY DEF Evicted
  <2>a. Len(settled') = k + 1 /\ Len(tombstones') = IF t = MaxTombstones THEN t
          ELSE t + 1
    BY <1>2, <1>6
  <2>2. CASE t = MaxTombstones
    BY <1>b, <2>a, <2>1, <2>2
  <2>3. CASE t # MaxTombstones
    BY <1>b, <2>a, <2>1, <2>3
  <2> QED
    BY <2>2, <2>3
<1>8. \A i \in 1..k + 1 : settled'[i] \in DOMAIN calls
  BY <1>0, <1>2
<1>9. ASSUME NEW j \in DOMAIN tombstones'
      PROVE  tombstones'[j] = calls'[settled'[Evicted' + j]].id
  <2>1. j \in 1..Len(tombstones') /\ Evicted' + j \in 1..k + 1
    BY <1>1, <1>6, <1>7
  <2>2. tombstones'[j] = calls[settled'[Evicted' + j]].id
    <3>1. CASE t = MaxTombstones
      <4>1. Evicted' + j = k - t + (j + 1) /\ j + 1 \in 1..t + 1
        BY <1>b, <1>6, <1>7, <2>1, <3>1
      <4> QED
        BY <1>5, <1>6, <2>1, <3>1, <4>1
    <3>2. CASE t # MaxTombstones
      <4>1. Evicted' + j = k - t + j /\ j \in 1..t + 1
        BY <1>b, <1>6, <1>7, <2>1, <3>2
      <4> QED
        BY <1>5, <1>6, <2>1, <3>2, <4>1
    <3> QED
      BY <3>1, <3>2
  <2> QED
    BY <1>8, <2>1, <2>2 DEF Advances
<1>10. \A i \in DOMAIN settled' : calls'[settled'[i]].outcome # "pending"
  <2>1. \A i \in 1..k : calls[settled[i]].outcome # "pending"
          /\ settled[i] \in DOMAIN calls
    BY <1>a, <1>c DEF TombstonesInv
  <2>2. DOMAIN settled' = 1..k + 1
    BY <1>1, <1>2
  <2> QED
    BY <1>0, <1>1, <1>2, <2>1, <2>2 DEF Advances
<1>11. ASSUME ~terminal', NEW m \in DOMAIN calls', calls'[m].outcome # "pending"
       PROVE  \E i \in DOMAIN settled' : settled'[i] = m
  <2>1. CASE m = n
    BY <1>b, <1>2, <2>1
  <2>2. CASE m # n
    <3>1. \E i \in DOMAIN settled : settled[i] = m
      BY <1>11, <2>2 DEF TombstonesInv, Advances
    <3> QED
      BY <1>b, <1>a, <1>2, <3>1
  <2> QED
    BY <2>1, <2>2
<1> QED
  BY <1>2, <1>6, <1>7, <1>9, <1>10, <1>11 DEF TombstonesInv

(* Cancellations, where none is sent and no request is abandoned... *)
LEMMA CancellationsStay ==
  ASSUME CancellationsAreHonest, Advances, cancels' = cancels,
         \A m \in DOMAIN calls :
           calls'[m].outcome = "abandoned" <=> calls[m].outcome = "abandoned"
  PROVE  CancellationsAreHonest'
BY DEF CancellationsAreHonest, Advances

(* ... and where one is, of a request that nothing was sent for yet. *)
LEMMA CancellationsGrow ==
  ASSUME CancellationsAreHonest, OtherTypes, FreshInv, Advances,
         NEW n \in DOMAIN calls, calls[n].outcome =
           "pending", calls[n].id \in Ids,
         cancels' = Append(cancels, calls[n].id),
         \A m \in DOMAIN calls :
           calls'[m].outcome = "abandoned" <=>
             m = n \/ calls[m].outcome = "abandoned"
  PROVE  CancellationsAreHonest' /\ cancels' \in Seq(Ids)
<1>1. cancels \in Seq(Ids) /\ Len(cancels) \in Nat
  BY DEF OtherTypes
<1>2. /\ cancels' \in Seq(Ids) /\ Len(cancels') = Len(cancels) + 1
      /\ cancels'[Len(cancels) + 1] = calls[n].id
      /\ \A i \in 1..Len(cancels) : cancels'[i] = cancels[i]
  BY <1>1
<1>3. \A i \in 1..Len(cancels) : cancels[i] # calls[n].id
  BY <1>1 DEF CancellationsAreHonest, Contains
<1>4. IsInjective(cancels')
  BY <1>1, <1>2, <1>3 DEF CancellationsAreHonest, IsInjective
<1>5. ASSUME NEW m \in DOMAIN calls
      PROVE  Contains(cancels', calls'[m].id) <=>
               calls'[m].outcome = "abandoned"
  <2>1. Contains(cancels', calls[m].id) <=>
          Contains(cancels, calls[m].id) \/ calls[m].id = calls[n].id
    BY <1>1, <1>2 DEF Contains
  <2>2. calls[m].id = calls[n].id <=> m = n
    BY DEF FreshInv
  <2> QED
    BY <2>1, <2>2 DEF CancellationsAreHonest, Advances
<1>6. \A i \in DOMAIN cancels' : \E m \in DOMAIN calls' : calls'[m].id =
        cancels'[i]
  <2>1. DOMAIN cancels' = 1..Len(cancels) + 1
          /\ DOMAIN cancels = 1..Len(cancels)
    BY <1>1, <1>2
  <2> QED
    BY <1>1, <1>2, <2>1 DEF CancellationsAreHonest, Advances
<1> QED
  BY <1>2, <1>4, <1>5, <1>6 DEF CancellationsAreHonest, Advances

-----------------------------------------------------------------------------
(* The steps. *)

LEMMA InitIsGood == Init => IndInv
<1> SUFFICES ASSUME Init PROVE IndInv
  OBVIOUS
<1> USE DEF Init
<1>1. Tracked(calls, pending) /\ Boundary
  BY EmptyDomain DEF Tracked, Boundary
<1>2. OtherTypes
  <2>1. MaxTombstones \in Nat /\ MaxSafeId \in Nat
    BY ClientAssumption
  <2>2. \A S : <<>> \in Seq(S)
    OBVIOUS
  <2>3. explicit \subseteq Ids /\ Cardinality(explicit) <= MaxTombstones
    BY <2>1, FS_EmptySet
  <2>4. tombstones \in Seq(Ids) /\ settled \in Seq(DOMAIN calls)
          /\ cancels \in Seq(Ids)
    BY <2>2
  <2>5. Len(tombstones) <= MaxTombstones /\ nextId \in 1..MaxSafeId + 1
    BY <2>1
  <2> QED
    BY <2>3, <2>4, <2>5 DEF OtherTypes
<1>3. CancellationsAreHonest
  BY EmptyDomain DEF CancellationsAreHonest, IsInjective
<1>4. FreshInv
  BY EmptyDomain, FS_EmptySet DEF FreshInv
<1>5. TombstonesInv /\ TakenInv
  BY EmptyDomain DEF TombstonesInv, Evicted, TakenInv, NoMessage
<1> QED
  BY <1>1, <1>2, <1>3, <1>4, <1>5 DEF IndInv

LEMMA Parts ==
  ASSUME IndInv
  PROVE  /\ Tracked(calls, pending) /\ Boundary /\ OtherTypes
         /\ CancellationsAreHonest /\ FreshInv /\ TombstonesInv /\ TakenInv
         /\ calls \in Seq(Calls)
         /\ (terminal => pending = <<>> /\ transport # "open")
         /\ terminal \in BOOLEAN /\ auxiliary \in BOOLEAN
         /\ transport \in {"open", "closing", "closed"}
         /\ MaxTombstones \in Nat \ {0}
BY ClientAssumption DEF IndInv, Tracked, Boundary, OtherTypes

(* What the reader and close() may do beside. *)
LoopSteps ==
  /\ reader' \in {"waiting", "taken", "done"} /\ taken' \in {taken, NoMessage}
  /\ closing' \in {"none", "waiting", "done"}

LEMMA LoopTypes ==
  ASSUME OtherTypes, LoopSteps
  PROVE  taken' \in Messages \cup {NoMessage}
BY DEF OtherTypes, LoopSteps

(* A callback that settles nothing goes on or terminates. *)
LEMMA QuietStep ==
  ASSUME IndInv, Ends(calls, pending),
         UNCHANGED <<memory, identifiers, cancels>>, LoopSteps
  PROVE  IndInv'
<1>0. Tracked(calls, pending) /\ Boundary /\ OtherTypes
        /\ CancellationsAreHonest
      /\ FreshInv /\ TombstonesInv /\ TakenInv
  BY Parts
<1>1. /\ Tracked(calls', pending') /\ Boundary'
      /\ terminal' \in BOOLEAN /\ auxiliary' \in BOOLEAN
      /\ transport' \in {"open", "closing", "closed"}
      /\ Continues(calls, calls')
      /\ terminal => terminal'
      /\ ~terminal' => calls' = calls
  BY Parts, EndsTracked
<1>2. Advances
  BY <1>1 DEF Continues, Advances
<1>3. OtherTypes'
  BY <1>0, <1>1, <1>2, LoopTypes
  DEF OtherTypes, Advances, memory, identifiers, LoopSteps
<1>4. CancellationsAreHonest'
  BY <1>0, <1>1, <1>2, CancellationsStay DEF Continues
<1>5. FreshInv' /\ TakenInv'
  BY <1>0, <1>2, FreshStays, TakenStays DEF LoopSteps
<1>6. TombstonesInv'
  BY <1>0, <1>1, <1>2, TombstonesStay
<1> QED
  BY <1>1, <1>3, <1>4, <1>5, <1>6 DEF IndInv

(* A callback settles one request, and the client goes on or terminates. *)
LEMMA SettledStep ==
  ASSUME IndInv, NEW n \in DOMAIN calls, NEW requests, NEW open,
         SettledAt(requests, n), Tracked(requests, open),
         Ends(requests, open), terminal => open = <<>>
  PROVE  /\ Tracked(calls', pending') /\ Boundary' /\ Advances
         /\ terminal' \in BOOLEAN /\ auxiliary' \in BOOLEAN
         /\ transport' \in {"open", "closing", "closed"}
         /\ terminal => terminal'
         /\ calls'[n] = requests[n]
         /\ \A m \in DOMAIN calls \ {n} :
              /\ calls'[m].outcome = "abandoned" <=>
                   calls[m].outcome = "abandoned"
              /\ ~terminal' => calls'[m] = calls[m]
<1>1. /\ Tracked(calls', pending') /\ Boundary'
      /\ terminal' \in BOOLEAN /\ auxiliary' \in BOOLEAN
      /\ transport' \in {"open", "closing", "closed"}
      /\ Continues(requests, calls')
      /\ terminal => terminal'
      /\ ~terminal' => calls' = requests
  BY Parts, EndsTracked
<1> QED
  BY <1>1 DEF Continues, Advances, SettledAt

LEMMA WithoutEmpty ==
  ASSUME IndInv, NEW id \in DOMAIN pending
  PROVE  ~terminal
BY Parts, EmptyDomain

LEMMA AbandonStep ==
  ASSUME IndInv, NEW id, Abandon(id), UNCHANGED <<identifiers, loop, closing>>
  PROVE  IndInv'
<1>0. Tracked(calls, pending) /\ Boundary /\ OtherTypes
        /\ CancellationsAreHonest
      /\ FreshInv /\ TombstonesInv /\ TakenInv /\ calls \in Seq(Calls)
  BY Parts
<1>a. LoopSteps
  BY <1>0 DEF LoopSteps, loop, OtherTypes
<1>1. CASE id \notin DOMAIN pending
  <2>1. Ends(calls, pending) /\ UNCHANGED <<memory, identifiers, cancels>>
    BY <1>0, <1>1 DEF Abandon, Ends, OtherTypes
  <2> QED
    BY <1>a, <2>1, QuietStep
<1>2. CASE id \in DOMAIN pending
  <2> DEFINE n == pending[id]
             requests == [calls EXCEPT ![n].outcome = "abandoned"]
             call == [calls[n] EXCEPT !.outcome = "abandoned"]
  <2>1. /\ n \in DOMAIN calls /\ calls[n].id = id
        /\ calls[n].outcome = "pending"
        /\ calls[n] \in Calls /\ id \in Ids
    BY <1>0, <1>2 DEF Tracked
  <2>2. call \in Calls /\ call.id = calls[n].id /\ call.outcome = "abandoned"
    BY <2>1 DEF Calls, Outcomes
  <2>3. requests = [calls EXCEPT ![n] = call]
    OBVIOUS
  <2>4. /\ tombstones' = Remembered(id) /\ settled' = Append(settled, n)
        /\ cancels' = Append(cancels, id)
        /\ Ends(requests, Without(id))
    BY <1>2 DEF Abandon, SendAuxiliary, Ends
  <2> HIDE DEF n, requests, call
  <2>5. SettledAt(requests, n) /\ requests[n] = call
    BY <1>0, <2>1, <2>2, <2>3, ChangeSettles
  <2>6. Tracked(requests, Without(id))
    BY <1>0, <1>2, <2>1, <2>5, SettledTracked DEF n
  <2>7. ~terminal
    BY <1>2, WithoutEmpty
  <2>8. /\ Tracked(calls', pending') /\ Boundary' /\ Advances
        /\ terminal' \in BOOLEAN /\ auxiliary' \in BOOLEAN
        /\ transport' \in {"open", "closing", "closed"}
        /\ calls'[n] = call
        /\ \A m \in DOMAIN calls \ {n} :
             /\ calls'[m].outcome = "abandoned" <=>
                  calls[m].outcome = "abandoned"
             /\ ~terminal' => calls'[m] = calls[m]
    BY <2>1, <2>4, <2>5, <2>6, <2>7, SettledStep
  <2>9. /\ TombstonesInv'
        /\ tombstones' \in Seq(Ids) /\ Len(tombstones') <= MaxTombstones
        /\ settled' \in Seq(DOMAIN calls)
    BY <1>0, <1>2, <2>2, <2>4, <2>7, <2>8, TombstonesGrow DEF n
  <2>10. CancellationsAreHonest' /\ cancels' \in Seq(Ids)
    BY <1>0, <2>1, <2>2, <2>4, <2>8, CancellationsGrow
  <2>11. OtherTypes'
    BY <1>0, <1>a, <2>8, <2>9, <2>10, LoopTypes
    DEF OtherTypes, Advances, identifiers, LoopSteps
  <2>12. FreshInv' /\ TakenInv'
    BY <1>0, <1>a, <2>8, FreshStays, TakenStays DEF LoopSteps
  <2> QED
    BY <2>8, <2>9, <2>10, <2>11, <2>12 DEF IndInv
<1> QED
  BY <1>1, <1>2

LEMMA ParseStep ==
  ASSUME IndInv, NEW n, ParseResult(n)
  PROVE  IndInv'
<1>0. Tracked(calls, pending) /\ Boundary /\ OtherTypes
        /\ CancellationsAreHonest
      /\ FreshInv /\ TombstonesInv /\ TakenInv /\ calls \in Seq(Calls)
  BY Parts
<1>a. LoopSteps
  BY <1>0 DEF LoopSteps, ParseResult, loop, OtherTypes
<1>1. n \in DOMAIN calls /\ calls[n] \in Calls /\ calls[n].outcome = "answered"
  BY <1>0 DEF ParseResult
<1>2. PICK outcome \in {"settled", "invalid"} :
        Ends([calls EXCEPT ![n].outcome = outcome], pending)
  BY <1>0 DEF ParseResult, Ends, OtherTypes
<1> DEFINE requests == [calls EXCEPT ![n].outcome = outcome]
           call == [calls[n] EXCEPT !.outcome = outcome]
<1>3. call \in Calls /\ call.id = calls[n].id /\ call.outcome = outcome
  BY <1>1 DEF Calls, Outcomes
<1>4. requests = [calls EXCEPT ![n] = call] /\ Ends(requests, pending)
  BY <1>2
<1> HIDE DEF requests, call
<1>5. SettledAt(requests, n) /\ requests[n] = call
  BY <1>0, <1>1, <1>3, <1>4, ChangeSettles
<1>6. Tracked(requests, pending)
  BY <1>0, <1>1, <1>5, SettledTracked
<1>7. /\ Tracked(calls', pending') /\ Boundary' /\ Advances
      /\ terminal' \in BOOLEAN /\ auxiliary' \in BOOLEAN
      /\ transport' \in {"open", "closing", "closed"}
      /\ terminal => terminal'
      /\ calls'[n] = call
      /\ \A m \in DOMAIN calls \ {n} :
           /\ calls'[m].outcome = "abandoned" <=> calls[m].outcome = "abandoned"
           /\ ~terminal' => calls'[m] = calls[m]
  BY <1>0, <1>1, <1>4, <1>5, <1>6, SettledStep DEF Boundary
<1>8. UNCHANGED <<memory, identifiers, cancels>>
  BY DEF ParseResult
<1>9. TombstonesInv'
  BY <1>0, <1>1, <1>7, <1>8, TombstonesStay
<1>10. CancellationsAreHonest'
  BY <1>0, <1>1, <1>3, <1>7, <1>8, CancellationsStay
<1>11. OtherTypes'
  BY <1>0, <1>a, <1>7, <1>8, LoopTypes
  DEF OtherTypes, Advances, memory, identifiers, LoopSteps
<1>12. FreshInv' /\ TakenInv'
  BY <1>0, <1>a, <1>7, <1>8, FreshStays, TakenStays DEF LoopSteps
<1> QED
  BY <1>7, <1>9, <1>10, <1>11, <1>12 DEF IndInv

(* What the callback of a response makes of the request it answers. *)
Answered(n, of, outcome) ==
  [calls EXCEPT ![n].outcome = outcome, ![n].by = of]

LEMMA HandleResponseSettles ==
  ASSUME auxiliary \in BOOLEAN, HandleResponse(taken.id, taken.of),
         ~Contains(tombstones, taken.id),
         taken.id \in DOMAIN pending
  PROVE  \E outcome \in {"answered", "settled", "invalid"} :
           Ends(Answered(pending[taken.id], taken.of, outcome),
             Without(taken.id))
BY DEF HandleResponse, Ends, Answered

LEMMA HandleStep ==
  ASSUME IndInv, Handle
  PROVE  IndInv'
<1>0. Tracked(calls, pending) /\ Boundary /\ OtherTypes
        /\ CancellationsAreHonest
      /\ FreshInv /\ TombstonesInv /\ TakenInv /\ calls \in Seq(Calls)
  BY Parts
<1>a. LoopSteps /\ ~terminal /\ UNCHANGED <<identifiers, cancels>>
  BY <1>0 DEF LoopSteps, Handle, OtherTypes
<1> DEFINE id == taken.id
           of == taken.of
<1>1. CASE taken.kind # "response"
  <2>1. Ends(calls, pending) /\ UNCHANGED memory
    BY <1>0, <1>1 DEF Handle, HandleOther, SendAuxiliary, Ends, OtherTypes
  <2> QED
    BY <1>a, <2>1, QuietStep
<1>2. CASE taken.kind = "response"
             /\ (Contains(tombstones, id) \/ id \notin DOMAIN pending)
  <2>1. Ends(calls, pending) /\ UNCHANGED memory
    BY <1>0, <1>2 DEF Handle, HandleResponse, Ends, OtherTypes
  <2> QED
    BY <1>a, <2>1, QuietStep
<1>3. CASE taken.kind = "response" /\ ~Contains(tombstones, id)
             /\ id \in DOMAIN pending
  <2> DEFINE n == pending[id]
  <2>1. /\ n \in DOMAIN calls /\ calls[n].id = id
        /\ calls[n].outcome = "pending"
        /\ calls[n] \in Calls /\ id \in Ids
    BY <1>0, <1>3 DEF Tracked
  <2>2. of \in Nat
    BY <1>0 DEF OtherTypes, Messages, NoMessage
  <2>3. PICK outcome \in {"answered", "settled", "invalid"} :
          Ends(Answered(n, of, outcome), Without(id))
    BY <1>0, <1>3, HandleResponseSettles DEF Handle, OtherTypes
  <2> DEFINE requests == Answered(n, of, outcome)
             call == [calls[n] EXCEPT !.outcome = outcome, !.by = of]
  <2>4. call \in Calls /\ call.id = calls[n].id /\ call.outcome = outcome
    BY <2>1, <2>2 DEF Calls, Outcomes
  <2>5. requests = [calls EXCEPT ![n] = call]
    BY <2>1 DEF Answered
  <2>6. tombstones' = Remembered(id) /\ settled' = Append(settled, n)
    BY <1>3 DEF Handle, HandleResponse
  <2> HIDE DEF n, requests, call
  <2>7. SettledAt(requests, n) /\ requests[n] = call
    BY <1>0, <2>1, <2>4, <2>5, ChangeSettles
  <2>8. Tracked(requests, Without(id))
    BY <1>0, <1>3, <2>1, <2>7, SettledTracked DEF n
  <2>9. /\ Tracked(calls', pending') /\ Boundary' /\ Advances
        /\ terminal' \in BOOLEAN /\ auxiliary' \in BOOLEAN
        /\ transport' \in {"open", "closing", "closed"}
        /\ calls'[n] = call
        /\ \A m \in DOMAIN calls \ {n} :
             /\ calls'[m].outcome = "abandoned" <=>
                  calls[m].outcome = "abandoned"
             /\ ~terminal' => calls'[m] = calls[m]
    BY <1>a, <2>1, <2>3, <2>7, <2>8, SettledStep DEF requests
  <2>10. /\ TombstonesInv'
         /\ tombstones' \in Seq(Ids) /\ Len(tombstones') <= MaxTombstones
         /\ settled' \in Seq(DOMAIN calls)
    BY <1>0, <1>a, <1>3, <2>4, <2>6, <2>9, TombstonesGrow DEF n
  <2>11. CancellationsAreHonest'
    BY <1>0, <1>a, <2>1, <2>4, <2>9, CancellationsStay
  <2>12. OtherTypes'
    BY <1>0, <1>a, <2>9, <2>10, LoopTypes
    DEF OtherTypes, Advances, identifiers, LoopSteps
  <2>13. FreshInv' /\ TakenInv'
    BY <1>0, <1>a, <2>9, FreshStays, TakenStays DEF LoopSteps
  <2> QED
    BY <2>9, <2>10, <2>11, <2>12, <2>13 DEF IndInv
<1> QED
  BY <1>1, <1>2, <1>3

LEMMA SequencesWiden ==
  ASSUME NEW S, NEW T, S \subseteq T, NEW s \in Seq(S)
  PROVE  s \in Seq(T)
<1>1. Len(s) \in Nat /\ DOMAIN s = 1..Len(s)
  OBVIOUS
<1>2. \A i \in 1..Len(s) : s[i] \in T
  OBVIOUS
<1>3. s = [i \in 1..Len(s) |-> s[i]]
  BY <1>1
<1>4. [i \in 1..Len(s) |-> s[i]] \in Seq(T)
  BY <1>1, <1>2
<1> QED
  BY <1>3, <1>4

(* A request is begun under an identifier that no request had before. *)
LEMMA StartStep ==
  ASSUME IndInv, ~terminal, NEW id \in Ids, StartRequest(id),
         id \notin DOMAIN pending, \A n \in DOMAIN calls : calls[n].id # id,
         explicit \subseteq explicit', explicit' \subseteq Ids,
           IsFiniteSet(explicit'),
         Cardinality(explicit') <= MaxTombstones,
         nextId' \in 1..MaxSafeId + 1, nextId <= nextId',
         id \in Numbers => id < nextId', id \in Names => id \in explicit'
  PROVE  IndInv'
<1>0. Tracked(calls, pending) /\ Boundary /\ OtherTypes
        /\ CancellationsAreHonest
      /\ FreshInv /\ TombstonesInv /\ TakenInv /\ calls \in Seq(Calls)
  BY Parts
<1> DEFINE call == [id |-> id, outcome |-> "pending", by |-> 0]
           k == Len(calls)
<1>1. call \in Calls /\ k \in Nat /\ DOMAIN calls = 1..k
  BY <1>0 DEF Calls, Outcomes
<1>2. /\ calls' \in Seq(Calls) /\ DOMAIN calls' = 1..k + 1
      /\ calls'[k + 1] = call /\ \A n \in 1..k : calls'[n] = calls[n]
  BY <1>0, <1>1 DEF StartRequest
<1>3. /\ DOMAIN pending' = DOMAIN pending \cup {id} /\ pending'[id] = k + 1
      /\ \A i \in DOMAIN pending : pending'[i] = pending[i]
  BY DEF StartRequest
<1>4. UNCHANGED <<memory, cancels, auxiliary, terminal, transport, loop,
        closing>>
  BY DEF StartRequest
<1> DEFINE new == k + 1
<1>5. call.id = id /\ call.outcome = "pending"
  OBVIOUS
<1>6. new \notin 1..k /\ 1..k + 1 = 1..k \cup {new}
  BY <1>1
<1> HIDE DEF call, k
<1>7. Tracked(calls', pending')
  <2>1. DOMAIN pending' \subseteq Ids
    BY <1>0, <1>3 DEF Tracked
  <2>2. ASSUME NEW i \in DOMAIN pending'
        PROVE  pending'[i] \in DOMAIN calls' /\ calls'[pending'[i]].id = i
    BY <1>0, <1>1, <1>2, <1>3, <1>5, <1>6 DEF Tracked
  <2>3. ASSUME NEW n \in DOMAIN calls'
        PROVE  calls'[n].outcome = "pending" <=>
                 calls'[n].id \in DOMAIN pending' /\ pending'[calls'[n].id] = n
    <3>1. CASE n \in 1..k
      BY <1>0, <1>1, <1>2, <1>3, <1>6, <3>1 DEF Tracked
    <3>2. CASE n = new
      BY <1>2, <1>3, <1>5, <3>2
    <3> QED
      BY <1>2, <1>6, <3>1, <3>2
  <2> QED
    BY <1>2, <2>1, <2>2, <2>3 DEF Tracked
<1>8. OtherTypes'
  <2>1. settled' \in Seq(DOMAIN calls')
    <3>1. settled \in Seq(1..k) /\ settled' = settled
      BY <1>0, <1>1, <1>4 DEF OtherTypes, memory
    <3> QED
      BY <1>2, <1>6, <3>1, SequencesWiden
  <2> QED
    BY <1>0, <1>4, <2>1 DEF OtherTypes, memory, loop
<1>9. CancellationsAreHonest'
  <2>1. cancels' = cancels /\ Contains(cancels, id) = FALSE
    <3>1. \A i \in DOMAIN cancels :
            \E n \in DOMAIN calls : calls[n].id = cancels[i]
      BY <1>0 DEF CancellationsAreHonest
    <3>2. \A i \in DOMAIN cancels : cancels[i] # id
      BY <3>1
    <3>3. cancels \in Seq(Ids) /\ DOMAIN cancels = 1..Len(cancels)
      BY <1>0 DEF OtherTypes
    <3>4. ~Contains(cancels, id)
      BY <3>2, <3>3 DEF Contains
    <3> QED
      BY <1>4, <3>4 DEF Contains
  <2>2. ASSUME NEW n \in DOMAIN calls'
        PROVE  Contains(cancels, calls'[n].id) <=>
                 calls'[n].outcome = "abandoned"
    BY <1>0, <1>1, <1>2, <1>5, <1>6, <2>1 DEF CancellationsAreHonest
  <2>3. \A i \in DOMAIN cancels :
          \E n \in DOMAIN calls' : calls'[n].id = cancels[i]
    BY <1>0, <1>1, <1>2, <1>6 DEF CancellationsAreHonest
  <2> QED
    BY <1>0, <2>1, <2>2, <2>3 DEF CancellationsAreHonest
<1>10. FreshInv'
  <2>1. \A m, n \in DOMAIN calls' : calls'[m].id = calls'[n].id => m = n
    BY <1>0, <1>1, <1>2, <1>5, <1>6 DEF FreshInv
  <2>2. ASSUME NEW n \in DOMAIN calls'
        PROVE  /\ calls'[n].id \in Numbers => calls'[n].id < nextId'
               /\ calls'[n].id \in Names => calls'[n].id \in explicit'
    <3>1. CASE n \in 1..k
      <4>1. calls'[n] = calls[n]
        BY <1>2, <3>1
      <4>2. nextId \in Int /\ nextId' \in Int /\ nextId <= nextId'
        BY <1>0 DEF OtherTypes
      <4>3. calls[n].id \in Numbers =>
              calls[n].id < nextId /\ calls[n].id \in Int
        BY <1>0, <1>1, <3>1 DEF FreshInv, Numbers
      <4>4. calls[n].id \in Names => calls[n].id \in explicit
        BY <1>0, <1>1, <3>1 DEF FreshInv
      <4> QED
        BY <4>1, <4>2, <4>3, <4>4
    <3>2. CASE n = new
      BY <1>2, <1>5, <3>2
    <3> QED
      BY <1>2, <1>6, <3>1, <3>2
  <2> QED
    BY <2>1, <2>2 DEF FreshInv
<1>11. TombstonesInv'
  <2>1. \A i \in DOMAIN settled : settled[i] \in 1..k
    BY <1>0, <1>1 DEF OtherTypes
  <2>2. \A j \in DOMAIN tombstones : Evicted + j \in DOMAIN settled
    BY <1>0 DEF TombstonesInv, OtherTypes, Evicted
  <2>3. Evicted' = Evicted /\ settled' = settled /\ tombstones' = tombstones
          /\ terminal' = terminal
    BY <1>4 DEF Evicted, memory
  <2>4. \A j \in DOMAIN tombstones : tombstones[j] =
          calls'[settled[Evicted + j]].id
    BY <1>0, <1>2, <2>1, <2>2 DEF TombstonesInv
  <2>5. \A i \in DOMAIN settled : calls'[settled[i]].outcome # "pending"
    BY <1>0, <1>2, <2>1 DEF TombstonesInv
  <2>6. \A n \in DOMAIN calls' :
          calls'[n].outcome # "pending" =>
            \E i \in DOMAIN settled : settled[i] = n
    BY <1>0, <1>1, <1>2, <1>5, <1>6 DEF TombstonesInv
  <2> QED
    BY <1>0, <2>3, <2>4, <2>5, <2>6 DEF TombstonesInv
<1>12. TakenInv' /\ Boundary'
  <2>1. taken' = taken /\ terminal' = terminal
    BY <1>4 DEF loop
  <2> QED
    BY <1>0, <1>1, <1>2, <1>6, <2>1 DEF TakenInv, Boundary
<1> QED
  BY <1>7, <1>8, <1>9, <1>10, <1>11, <1>12 DEF IndInv

LEMMA BeginStep ==
  ASSUME IndInv, BeginAllocated \/ \E id \in Ids : BeginExplicit(id)
  PROVE  IndInv'
<1>0. OtherTypes /\ FreshInv /\ Tracked(calls, pending) /\ calls \in Seq(Calls)
  BY Parts
<1>1. MaxSafeId \in Nat /\ MaxTombstones \in Nat /\ Names \cap Int = {}
  BY ClientAssumption
<1>2. \A n \in DOMAIN calls : calls[n].id \in Ids
  <2>1. \A n \in DOMAIN calls : calls[n] \in Calls
    BY <1>0
  <2> QED
    BY <2>1 DEF Calls
<1>3. nextId \in 1..MaxSafeId + 1 /\ Numbers = 0..MaxSafeId
        /\ Ids = Names \cup Numbers
  BY <1>0 DEF OtherTypes, Numbers, Ids
<1>4. CASE BeginAllocated /\ nextId > MaxSafeId
  <2>1. Ends(calls, pending) /\ UNCHANGED <<memory, identifiers, cancels>>
          /\ LoopSteps
    BY <1>0, <1>4 DEF BeginAllocated, Ends, LoopSteps, loop, OtherTypes
  <2> QED
    BY <2>1, QuietStep
<1>5. CASE BeginAllocated /\ ~(nextId > MaxSafeId)
  <2>1. StartRequest(nextId) /\ ~terminal /\ nextId' = nextId + 1
          /\ explicit' = explicit
    BY <1>5 DEF BeginAllocated
  <2>2. nextId \in Numbers /\ nextId \notin Names
    BY <1>1, <1>3, <1>5
  <2>3. \A n \in DOMAIN calls : calls[n].id # nextId
    BY <1>0, <1>3, <2>2 DEF FreshInv
  <2>4. nextId \notin DOMAIN pending
    BY <1>0, <2>3 DEF Tracked
  <2>5. nextId' \in 1..MaxSafeId + 1 /\ nextId <= nextId' /\ nextId < nextId'
    BY <1>1, <1>3, <1>5, <2>1
  <2> QED
    BY <1>0, <1>3, <2>1, <2>2, <2>3, <2>4, <2>5, StartStep
    DEF OtherTypes, FreshInv
<1>6. ASSUME NEW id \in Ids, BeginExplicit(id)
      PROVE  IndInv'
  <2>1. /\ StartRequest(id) /\ ~terminal /\ explicit' = explicit \cup {id}
        /\ nextId' = NextAfter(id) /\ id \notin DOMAIN pending
        /\ id \notin explicit
        /\ id \in Numbers => id >= nextId
        /\ Cardinality(explicit) < MaxTombstones
    BY <1>6 DEF BeginExplicit, Selectable
  <2>2. \A n \in DOMAIN calls : calls[n].id # id
    BY <1>0, <1>2, <1>3, <2>1 DEF FreshInv
  <2>3. /\ nextId' \in 1..MaxSafeId + 1 /\ nextId <= nextId'
        /\ id \in Numbers => id < nextId'
    BY <1>1, <1>3, <2>1 DEF NextAfter
  <2>4. /\ IsFiniteSet(explicit') /\ Cardinality(explicit') <= MaxTombstones
    <3>1. IsFiniteSet(explicit) /\ Cardinality(explicit) \in Nat
      BY <1>0, FS_CardinalityType DEF FreshInv
    <3>2. IsFiniteSet(explicit')
            /\ Cardinality(explicit') = Cardinality(explicit) + 1
      BY <2>1, <3>1, FS_AddElement
    <3> QED
      BY <1>1, <2>1, <3>1, <3>2
  <2>5. explicit \subseteq explicit' /\ explicit' \subseteq Ids
          /\ id \in explicit'
    BY <1>0, <2>1 DEF OtherTypes
  <2> QED
    BY <2>1, <2>2, <2>3, <2>4, <2>5, StartStep
<1> QED
  BY <1>4, <1>5, <1>6

(* A message is taken from the target. *)
LEMMA TakeStep ==
  ASSUME IndInv, NEW message \in TargetMessages, Take(message)
  PROVE  IndInv'
<1>0. Tracked(calls, pending) /\ OtherTypes /\ calls \in Seq(Calls)
  BY Parts
<1>1. message \in Messages
  <2>0. \A n \in DOMAIN calls : calls[n] \in Calls /\ n \in Nat
    BY <1>0
  <2>1. \A n \in DOMAIN calls : calls[n].id \in Ids /\ n \in Nat
    BY <2>0 DEF Calls
  <2> QED
    BY <2>1 DEF TargetMessages, Messages
<1>2. message.of # 0 =>
        message.of \in DOMAIN calls /\ calls[message.of].id = message.id
  BY DEF TargetMessages
<1>3. Tracked(calls', pending') /\ Boundary'
  BY Parts DEF Take, Boundary
<1>4. OtherTypes'
  BY <1>0, <1>1 DEF OtherTypes, Take, memory, identifiers
<1>5. CancellationsAreHonest' /\ FreshInv' /\ TombstonesInv'
  BY Parts
  DEF Take, CancellationsAreHonest, FreshInv, TombstonesInv, Evicted, memory,
      identifiers
<1>6. TakenInv'
  BY <1>2 DEF TakenInv, Take
<1> QED
  BY <1>3, <1>4, <1>5, <1>6 DEF IndInv

LEMMA TransportClosesStep ==
  ASSUME IndInv, TransportCloses
  PROVE  IndInv'
<1>1. Tracked(calls', pending') /\ Boundary' /\ OtherTypes'
  BY Parts DEF TransportCloses, Boundary, OtherTypes, memory, identifiers, loop
<1>2. CancellationsAreHonest' /\ FreshInv' /\ TombstonesInv' /\ TakenInv'
  BY Parts
  DEF TransportCloses, CancellationsAreHonest, FreshInv, TombstonesInv, Evicted,
               TakenInv, memory, identifiers, loop
<1> QED
  BY <1>1, <1>2 DEF IndInv

(* The callbacks that settle no request by themselves. *)
Bystanders ==
  WriteRejected \/ ReceiveFails \/ ReaderReleased \/ Close \/ Closed
    \/ UNCHANGED vars

LEMMA BystandersEnd ==
  ASSUME IndInv, Bystanders
  PROVE  Ends(calls, pending) /\ UNCHANGED <<memory, identifiers, cancels>>
           /\ LoopSteps
<1>0. OtherTypes
  BY Parts
<1> USE <1>0 DEF OtherTypes, Ends, LoopSteps, loop
<1>1. CASE WriteRejected
  BY <1>1 DEF WriteRejected
<1>2. CASE ReceiveFails
  BY <1>2 DEF ReceiveFails
<1>3. CASE ReaderReleased
  BY <1>3 DEF ReaderReleased
<1>4. CASE Close
  BY <1>4 DEF Close
<1>5. CASE Closed
  BY <1>5 DEF Closed
<1>6. CASE UNCHANGED vars
  BY <1>6 DEF vars, memory, identifiers
<1> QED
  BY <1>1, <1>2, <1>3, <1>4, <1>5, <1>6 DEF Bystanders

LEMMA StepIsGood == IndInv /\ [Next]_vars => IndInv'
<1> SUFFICES ASSUME IndInv, [Next]_vars PROVE IndInv'
  OBVIOUS
<1>1. CASE BeginAllocated \/ \E id \in Ids : BeginExplicit(id)
  BY <1>1, BeginStep
<1>2. CASE Bystanders
  BY <1>2, BystandersEnd, QuietStep
<1>3. CASE \E n \in DOMAIN calls : Cancel(n) \/ TimesOut(n)
  BY <1>3, AbandonStep DEF Cancel, TimesOut
<1>4. CASE \E n \in DOMAIN calls : ParseResult(n)
  BY <1>4, ParseStep
<1>5. CASE Target
  BY <1>5, TakeStep DEF Target
<1>6. CASE Handle
  BY <1>6, HandleStep
<1>7. CASE TransportCloses
  BY <1>7, TransportClosesStep
<1> QED
  BY <1>1, <1>2, <1>3, <1>4, <1>5, <1>6, <1>7
  DEF Next, Users, Transport, Continuations, Bystanders, Done

LEMMA Invariance == Spec => []IndInv
BY InitIsGood, StepIsGood, PTL DEF Spec

-----------------------------------------------------------------------------
(* Of every request the client knows whether it is open, and the target is told
   of exactly those that were given up, once. *)
THEOREM RequestsAlwaysTracked == Spec => []RequestsAreTracked
BY Invariance, TrackedMeansTracked, PTL

(* An answer to a request that is settled already ends the client only when
   the tombstone of that request is gone. *)
LEMMA LateAnswerStep ==
  ASSUME IndInv, Handle, taken.of # 0, calls[taken.of].outcome # "pending",
         terminal'
  PROVE  \E i \in DOMAIN settled :
           settled[i] = taken.of /\ Len(settled) - i >= MaxTombstones
<1>0. Tracked(calls, pending) /\ OtherTypes /\ FreshInv /\ TombstonesInv
        /\ TakenInv
  BY Parts
<1>a. ~terminal
  BY DEF Handle
<1> DEFINE id == taken.id
           of == taken.of
<1>1. of \in DOMAIN calls /\ calls[of].id = id
  BY <1>0 DEF TakenInv
<1>2. taken.kind = "response"
  BY <1>0 DEF OtherTypes, Messages, NoMessage
<1>3. ~Contains(tombstones, id)
  BY <1>a, <1>2 DEF Handle, HandleResponse
<1>4. PICK i \in DOMAIN settled : settled[i] = of
  BY <1>0, <1>a, <1>1 DEF TombstonesInv
<1> DEFINE k == Len(settled)
           t == Len(tombstones)
           e == Evicted
<1>5. /\ i \in 1..k /\ k \in Nat /\ t \in Nat /\ DOMAIN tombstones = 1..t
      /\ MaxTombstones \in Nat
  BY <1>0, <1>4, ClientAssumption DEF OtherTypes
<1>6. e = k - t
  BY DEF Evicted
<1>7. e >= 0 /\ (e > 0 => t = MaxTombstones)
  BY <1>0 DEF TombstonesInv
<1> HIDE DEF k, t, e
<1>8. CASE i > e
  <2> DEFINE j == i - e
  <2>1. j \in 1..t /\ e + j = i
    BY <1>5, <1>6, <1>7, <1>8
  <2> HIDE DEF j
  <2>2. tombstones[j] = calls[settled[e + j]].id
    BY <1>0, <1>5, <2>1 DEF TombstonesInv, e
  <2>3. tombstones[j] = id
    BY <1>1, <1>4, <2>1, <2>2
  <2> QED
    BY <1>3, <1>5, <2>1, <2>3 DEF Contains, t
<1>9. CASE i <= e
  <2>1. k - i >= MaxTombstones
    BY <1>5, <1>6, <1>7, <1>9
  <2> QED
    BY <1>4, <2>1 DEF k
<1> QED
  BY <1>5, <1>6, <1>8, <1>9

(* A late or repeated answer to a request of this connection is harmless until
   MaxTombstones other requests have been settled after it. *)
THEOREM LateAnswersStayHarmless == Spec => LateAnswersAreHarmless
<1>1. IndInv /\ [Next]_vars =>
        [Handle /\ taken.of # 0 /\ calls[taken.of].outcome # "pending"
          /\ terminal'
           => \E i \in DOMAIN settled :
                settled[i] = taken.of /\ Len(settled) - i >= MaxTombstones]_vars
  BY LateAnswerStep
<1> QED
  BY <1>1, Invariance, PTL DEF Spec, LateAnswersAreHarmless

-----------------------------------------------------------------------------
(* The client implements the contract of calls: a step settles one call by an
   answer to it or by giving it up, fails all that are open, or neither. *)

(* What the contract sees of the requests. *)
Mapped(requests) == [n \in DOMAIN requests |-> Summary(requests[n])]

LEMMA SummaryCases ==
  ASSUME NEW call \in Calls
  PROVE  /\ call.outcome = "pending" => Summary(call) = Contract!Open
         /\ call.outcome # "pending" => Summary(call) # Contract!Open
         /\ call.outcome \in {"answered", "settled", "invalid"} =>
              Summary(call) = Contract!Answered(call.by)
         /\ call.outcome = "abandoned" => Summary(call) = Contract!Abandoned
         /\ call.outcome \in {"transport", "unknown"} =>
              Summary(call) = Contract!Lost
<1>1. call.outcome \in Outcomes
  BY DEF Calls
<1> QED
  BY <1>1
  DEF Summary, Outcomes, Contract!Open, Contract!Answered, Contract!Abandoned,
      Contract!Lost

(* The termination of the client loses what is open, and nothing else. *)
LEMMA EndsAbstractly ==
  ASSUME IndInv, NEW requests, NEW open, Tracked(requests, open),
         Ends(requests, open),
         terminal => open = <<>>
  PROVE  \/ terminal' = terminal /\ Mapped(calls') = Mapped(requests)
         \/ ~terminal /\ terminal' = TRUE
              /\ Mapped(calls') = Contract!AllLost(Mapped(requests))
<1>1. /\ Tracked(calls', pending') /\ Boundary' /\ terminal' \in BOOLEAN
      /\ Continues(requests, calls') /\ (terminal => terminal')
      /\ ~terminal' => calls' = requests
  BY Parts, EndsTracked
<1>2. requests \in Seq(Calls) /\ calls' \in Seq(Calls) /\ terminal \in BOOLEAN
  BY <1>1, Parts DEF Tracked
<1>3. CASE ~terminal'
  BY <1>1, <1>2, <1>3
<1>4. CASE terminal
  BY <1>4 DEF Ends, Terminate
<1>5. CASE ~terminal /\ terminal'
  <2>1. \A n \in DOMAIN calls' : calls'[n].outcome # "pending"
    BY <1>1, <1>5, EmptyDomain DEF Tracked, Boundary
  <2>2. DOMAIN calls' = DOMAIN requests
    BY <1>1 DEF Continues
  <2>3. ASSUME NEW n \in DOMAIN requests
        PROVE  Summary(calls'[n]) = IF Summary(requests[n]) = Contract!Open
                                    THEN Contract!Lost ELSE Summary(requests[n])
    <3>1. requests[n] \in Calls /\ calls'[n] \in Calls
      BY <1>2, <2>2
    <3>2. CASE requests[n].outcome = "pending"
      <4>1. calls'[n].outcome \in {"transport", "unknown"}
        BY <1>1, <2>1, <2>2, <3>2 DEF Continues
      <4> QED
        BY <3>1, <3>2, <4>1, SummaryCases
    <3>3. CASE requests[n].outcome # "pending"
      <4>1. calls'[n] = requests[n]
        BY <1>1, <3>3 DEF Continues
      <4> QED
        BY <3>1, <3>3, <4>1, SummaryCases
    <3> QED
      BY <3>2, <3>3
  <2>4. Mapped(calls') = Contract!AllLost(Mapped(requests))
    BY <2>2, <2>3, Zenon DEF Mapped, Contract!AllLost
  <2> QED
    BY <1>1, <1>5, <2>4
<1> QED
  BY <1>2, <1>3, <1>4, <1>5

(* The steps of the contract, of what it sees before and after. *)
Contracted ==
  \/ Mapped(calls') = Mapped(calls) /\ terminal' = terminal
  \/ /\ ~terminal /\ terminal' = terminal
     /\ Mapped(calls') = Append(Mapped(calls), Contract!Open)
  \/ ~terminal /\ terminal' = TRUE
       /\ Mapped(calls') = Contract!AllLost(Mapped(calls))
  \/ \E n \in DOMAIN calls :
       \E result \in {Contract!Answered(n), Contract!Answered(0),
         Contract!Abandoned} :
         /\ ~terminal /\ Mapped(calls)[n] = Contract!Open
         /\ LET settles == [Mapped(calls) EXCEPT ![n] = result]
            IN \/ terminal' = terminal /\ Mapped(calls') = settles
               \/ terminal' = TRUE /\ Mapped(calls') = Contract!AllLost(settles)

LEMMA ContractedSteps ==
  ASSUME Contracted
  PROVE  Contract!Next \/ UNCHANGED <<Mapped(calls), terminal>>
<1>1. CASE Mapped(calls') = Mapped(calls) /\ terminal' = terminal
  BY <1>1 DEF Mapped
<1>2. CASE /\ ~terminal /\ terminal' = terminal
           /\ Mapped(calls') = Append(Mapped(calls), Contract!Open)
  BY <1>2 DEF Mapped, Contract!Begin, Contract!Next
<1>3. CASE ~terminal /\ terminal' = TRUE
             /\ Mapped(calls') = Contract!AllLost(Mapped(calls))
  BY <1>3 DEF Mapped, Contract!Fail, Contract!Next
<1>4. ASSUME NEW n \in DOMAIN calls,
             NEW result \in {Contract!Answered(n), Contract!Answered(0),
             Contract!Abandoned},
             ~terminal, Mapped(calls)[n] = Contract!Open,
             \/ /\ terminal' = terminal
                /\ Mapped(calls') = [Mapped(calls) EXCEPT ![n] = result]
             \/ /\ terminal' = TRUE
                /\ Mapped(calls') =
                     Contract!AllLost([Mapped(calls) EXCEPT ![n] = result])
      PROVE  Contract!Next
  <2>1. Contract!Settle(n, result) \/ Contract!SettleAndFail(n, result)
    BY <1>4 DEF Mapped, Contract!Settle, Contract!SettleAndFail
  <2>2. n \in DOMAIN [m \in DOMAIN calls |-> Summary(calls[m])]
    OBVIOUS
  <2> QED
    BY <2>1, <2>2 DEF Contract!Next
<1> QED
  BY <1>1, <1>2, <1>3, <1>4 DEF Contracted

LEMMA QuietContract ==
  ASSUME IndInv, Ends(calls, pending)
  PROVE  Contracted
<1>1. Tracked(calls, pending) /\ (terminal => pending = <<>>)
  BY Parts
<1> QED
  BY <1>1, EndsAbstractly DEF Contracted

(* One request settles, by an answer to it, by one that was made up, or by
   giving it up. *)
LEMMA SettledContract ==
  ASSUME IndInv, ~terminal, NEW n \in DOMAIN calls, calls[n].outcome =
           "pending",
         NEW call \in Calls, call.id = calls[n].id,
         \/ call.outcome = "abandoned"
         \/ call.outcome \in {"answered", "settled", "invalid"}
              /\ call.by \in {0, n},
         Ends([calls EXCEPT ![n] = call], Without(calls[n].id))
  PROVE  Contracted
<1> DEFINE requests == [calls EXCEPT ![n] = call]
           result == Summary(call)
<1>0. Tracked(calls, pending) /\ calls \in Seq(Calls)
  BY Parts
<1>1. calls[n].id \in DOMAIN pending /\ pending[calls[n].id] = n
  BY <1>0 DEF Tracked
<1>2. SettledAt(requests, n)
  BY <1>0, ChangeSettles
<1>3. Tracked(requests, Without(calls[n].id))
  BY <1>0, <1>1, <1>2, SettledTracked
<1>4. calls[n] \in Calls /\ Mapped(calls)[n] = Contract!Open
  BY <1>0, SummaryCases DEF Mapped
<1>5. result \in {Contract!Answered(n), Contract!Answered(0),
        Contract!Abandoned}
  BY SummaryCases
<1>6. Mapped(requests) = [Mapped(calls) EXCEPT ![n] = result]
  BY Zenon DEF Mapped
<1> HIDE DEF requests, result
<1>7. \/ terminal' = terminal /\ Mapped(calls') = Mapped(requests)
      \/ terminal' = TRUE /\ Mapped(calls') = Contract!AllLost(Mapped(requests))
  BY <1>3, EndsAbstractly DEF requests
<1> QED
  BY <1>4, <1>5, <1>6, <1>7 DEF Contracted

LEMMA AbandonContract ==
  ASSUME IndInv, NEW id, Abandon(id), UNCHANGED <<identifiers, loop, closing>>
  PROVE  Contracted
<1>0. Tracked(calls, pending) /\ OtherTypes /\ (terminal => pending = <<>>)
      /\ calls \in Seq(Calls)
  BY Parts
<1>1. CASE id \notin DOMAIN pending
  <2>1. Ends(calls, pending)
    BY <1>0, <1>1 DEF Abandon, Ends, OtherTypes
  <2> QED
    BY <2>1, QuietContract
<1>2. CASE id \in DOMAIN pending
  <2> DEFINE n == pending[id]
             call == [calls[n] EXCEPT !.outcome = "abandoned"]
  <2>1. /\ n \in DOMAIN calls /\ calls[n].id = id
        /\ calls[n].outcome = "pending"
        /\ calls[n] \in Calls
    BY <1>0, <1>2 DEF Tracked
  <2>2. call \in Calls /\ call.id = calls[n].id /\ call.outcome = "abandoned"
    BY <2>1 DEF Calls, Outcomes
  <2>3. Ends([calls EXCEPT ![n] = call], Without(id))
    BY <1>2 DEF Abandon, SendAuxiliary, Ends
  <2>4. ~terminal
    BY <1>2, WithoutEmpty
  <2> HIDE DEF n, call
  <2> QED
    BY <2>1, <2>2, <2>3, <2>4, SettledContract
<1> QED
  BY <1>1, <1>2

(* Nothing but a result that was parsed, or was not, changes here: the call
   was answered before. *)
LEMMA ParseContract ==
  ASSUME IndInv, NEW n, ParseResult(n)
  PROVE  Contracted
<1>0. Tracked(calls, pending) /\ OtherTypes /\ (terminal => pending = <<>>)
      /\ calls \in Seq(Calls)
  BY Parts
<1>1. n \in DOMAIN calls /\ calls[n] \in Calls /\ calls[n].outcome = "answered"
  BY <1>0 DEF ParseResult
<1>2. PICK outcome \in {"settled", "invalid"} :
        Ends([calls EXCEPT ![n].outcome = outcome], pending)
  BY <1>0 DEF ParseResult, Ends, OtherTypes
<1> DEFINE call == [calls[n] EXCEPT !.outcome = outcome]
           requests == [calls EXCEPT ![n] = call]
<1>3. /\ call \in Calls /\ call.id = calls[n].id /\ call.outcome = outcome
      /\ call.by = calls[n].by
  BY <1>1 DEF Calls, Outcomes
<1>4. Ends(requests, pending)
  BY <1>2
<1> HIDE DEF call
<1>5. SettledAt(requests, n)
  BY <1>0, <1>1, <1>3, ChangeSettles
<1>6. Tracked(requests, pending)
  BY <1>0, <1>1, <1>5, SettledTracked
<1>7. Summary(call) = Summary(calls[n])
  BY <1>1, <1>3, SummaryCases
<1>8. Mapped(requests) = Mapped(calls)
  BY <1>7, Zenon DEF Mapped
<1> HIDE DEF requests
<1> QED
  BY <1>0, <1>4, <1>6, <1>8, EndsAbstractly DEF Contracted

LEMMA HandleContract ==
  ASSUME IndInv, Handle
  PROVE  Contracted
<1>0. Tracked(calls, pending) /\ OtherTypes /\ FreshInv /\ TakenInv /\ ~terminal
      /\ calls \in Seq(Calls)
  BY Parts DEF Handle
<1> DEFINE id == taken.id
           of == taken.of
<1>1. CASE \/ taken.kind # "response" \/ Contains(tombstones, id)
                \/ id \notin DOMAIN pending
  <2>1. Ends(calls, pending)
    BY <1>0, <1>1
    DEF Handle, HandleOther, HandleResponse, SendAuxiliary, Ends, OtherTypes
  <2> QED
    BY <2>1, QuietContract
<1>2. CASE taken.kind = "response" /\ ~Contains(tombstones, id)
             /\ id \in DOMAIN pending
  <2> DEFINE n == pending[id]
  <2>1. /\ n \in DOMAIN calls /\ calls[n].id = id
        /\ calls[n].outcome = "pending"
        /\ calls[n] \in Calls
    BY <1>0, <1>2 DEF Tracked
  <2>2. of \in Nat /\ of \in {0, n}
    BY <1>0, <2>1 DEF OtherTypes, Messages, NoMessage, TakenInv, FreshInv
  <2>3. PICK outcome \in {"answered", "settled", "invalid"} :
          Ends(Answered(n, of, outcome), Without(id))
    BY <1>0, <1>2, HandleResponseSettles DEF Handle, OtherTypes
  <2> DEFINE call == [calls[n] EXCEPT !.outcome = outcome, !.by = of]
  <2>4. call \in Calls /\ call.id = calls[n].id /\ call.outcome = outcome
          /\ call.by = of
    BY <2>1, <2>2 DEF Calls, Outcomes
  <2>5. Answered(n, of, outcome) = [calls EXCEPT ![n] = call]
    BY <2>1 DEF Answered
  <2> HIDE DEF n, call
  <2>6. Ends([calls EXCEPT ![n] = call], Without(id))
    BY <2>3, <2>5
  <2> QED
    BY <1>0, <2>1, <2>2, <2>4, <2>6, SettledContract
<1> QED
  BY <1>1, <1>2

LEMMA BeginContract ==
  ASSUME IndInv, BeginAllocated \/ \E id \in Ids : BeginExplicit(id)
  PROVE  Contracted
<1>0. calls \in Seq(Calls) /\ OtherTypes
  BY Parts
<1>1. CASE BeginAllocated /\ nextId > MaxSafeId
  <2>1. Ends(calls, pending)
    BY <1>1 DEF BeginAllocated, Ends
  <2> QED
    BY <2>1, QuietContract
<1>2. ASSUME NEW id \in Ids, StartRequest(id), ~terminal
      PROVE  Contracted
  <2> DEFINE call == [id |-> id, outcome |-> "pending", by |-> 0]
             k == Len(calls)
             old == Mapped(calls)
  <2>1. call \in Calls /\ call.outcome = "pending" /\ k \in Nat
          /\ DOMAIN calls = 1..k
    BY <1>0 DEF Calls, Outcomes
  <2>2. /\ DOMAIN calls' = 1..k + 1
        /\ calls'[k + 1] = call /\ \A n \in 1..k : calls'[n] = calls[n]
    BY <1>0, <1>2, <2>1 DEF StartRequest
  <2>3. Summary(call) = Contract!Open
    BY <2>1, SummaryCases
  <2> HIDE DEF call, k
  <2>4. old = [n \in 1..k |-> Summary(calls[n])]
    BY <2>1 DEF Mapped
  <2>5. Mapped(calls') = [n \in 1..k + 1 |-> Summary(calls'[n])]
    BY <2>2 DEF Mapped
  <2> DEFINE new ==
               [n \in 1..k + 1 |-> IF n = k + 1 THEN Contract!Open ELSE old[n]]
  <2>6. Mapped(calls') = new
    BY <2>1, <2>2, <2>3, <2>4, <2>5
  <2>7. old \in Seq({old[n] : n \in 1..k}) /\ Len(old) = k
    BY <2>1, <2>4
  <2> HIDE DEF old
  <2> DEFINE longer == Append(old, Contract!Open)
  <2>8. new = longer
    <3>1. /\ longer \in Seq({old[n] : n \in 1..k} \cup {Contract!Open})
          /\ DOMAIN longer = 1..k + 1 /\ longer[k + 1] = Contract!Open
          /\ \A n \in 1..k : longer[n] = old[n]
      BY <2>1, <2>7
    <3> HIDE DEF longer
    <3>2. longer = [n \in 1..k + 1 |-> longer[n]]
      BY <3>1
    <3>3. \A n \in 1..k + 1 : longer[n] = IF n = k + 1 THEN Contract!Open
            ELSE old[n]
      BY <2>1, <3>1
    <3> QED
      BY <3>2, <3>3
  <2> QED
    BY <1>2, <2>6, <2>8 DEF Contracted, old, StartRequest
<1>3. BeginAllocated /\ ~(nextId > MaxSafeId) => nextId \in Ids
  BY <1>0, ClientAssumption DEF OtherTypes, Ids, Numbers
<1> QED
  BY <1>1, <1>2, <1>3 DEF BeginAllocated, BeginExplicit

LEMMA StepContract == IndInv /\ [Next]_vars => Contracted
<1> SUFFICES ASSUME IndInv, [Next]_vars PROVE Contracted
  OBVIOUS
<1>1. CASE BeginAllocated \/ \E id \in Ids : BeginExplicit(id)
  BY <1>1, BeginContract
<1>2. CASE Bystanders
  BY <1>2, BystandersEnd, QuietContract
<1>3. CASE \E n \in DOMAIN calls : Cancel(n) \/ TimesOut(n)
  BY <1>3, AbandonContract DEF Cancel, TimesOut
<1>4. CASE \E n \in DOMAIN calls : ParseResult(n)
  BY <1>4, ParseContract
<1>5. CASE Target \/ TransportCloses
  BY <1>5 DEF Target, Take, TransportCloses, Contracted
<1>6. CASE Handle
  BY <1>6, HandleContract
<1> QED
  BY <1>1, <1>2, <1>3, <1>4, <1>5, <1>6
  DEF Next, Users, Transport, Continuations, Bystanders, Done

(* The client implements the contract of calls on one connection: every call is
   settled once, by its own answer, by one the target made up, by giving it up,
   or by the failure that settles all that are open. *)
THEOREM ClientImplementsContract == Spec => ImplementsContract
<1>1. Init => Contract!Init
  BY EmptyDomain DEF Init, Contract!Init
<1>2. IndInv /\ [Next]_vars =>
        [Contract!Next]_<<[n \in DOMAIN calls |-> Summary(calls[n])], terminal>>
  BY StepContract, ContractedSteps DEF Mapped
<1> QED
  BY <1>1, <1>2, Invariance, PTL DEF Spec, ImplementsContract, Contract!Spec

=============================================================================
