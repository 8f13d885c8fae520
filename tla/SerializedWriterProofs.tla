----------------------- MODULE SerializedWriterProofs -----------------------
(***************************************************************************)
(* Proofs about the outbound writer, for any limits and number of sends.   *)
(* The invariant says what each state of the writer makes of the accepted  *)
(* messages: those before the one in the stream are resolved, that one and *)
(* those that wait are queued, and they stand in line in the order of      *)
(* send(); after a failure nothing is queued.                              *)
(***************************************************************************)
EXTENDS SerializedWriter, FiniteSetTheorems, TLAPS

(* The promises when the first accepted ones have their receipts, and those
   up to the next sequence number have not. *)
Promised(accepted, next) ==
  [m \in 1..MaxSends |-> IF m <= accepted THEN "resolved"
                         ELSE IF m < next THEN "queued" ELSE "unsent"]

(* The writes in queue come next after those in the stream. *)
InTurn(queue, next) ==
  /\ Len(wire) + Len(queue) = next - 1
  /\ \A i \in DOMAIN queue : queue[i].sequence = Len(wire) + i

Live ==
  ~terminalError =>
    /\ InTurn(pending, nextSequence)
    /\ active # <<>> => Len(wire) > 0 /\ active[1].write.sequence = Len(wire)
    /\ active = <<>> => pending = <<>>
    /\ finishing = "waiting" => active # <<>>
    /\ outcome = Promised(Len(wire) - Len(active), nextSequence)

Failed ==
  terminalError =>
    /\ active = <<>> /\ pending = <<>> /\ queuedBytes = 0
    /\ ~accepting /\ finishing # "waiting"
    /\ \A m \in 1..MaxSends : outcome[m] # "queued"

Finished ==
  /\ finishing # "none" => ~accepting
  /\ finishing = "resolved" => active = <<>> /\ pending = <<>>
  /\ FinishMeansFlushed

(* What the writer keeps of its active write is what the stream said of it. *)
Heard ==
  /\ \A m \in 1..MaxSends : callbacks[m] # "none" => m <= Len(wire)
  /\ ~terminalError =>
       /\ active = <<>> => undrained = {}
       /\ active # <<>> =>
            /\ active[1].callbackFinished <=> callbacks[Len(wire)] = "written"
            /\ undrained = IF active[1].drainFinished THEN {}
                           ELSE {Len(wire)}

(* What #queuedBytes counts. *)
BytesIn(queue) == UNION {BytesOf(queue[i]) : i \in DOMAIN queue}
Bytes == UNION {BytesOf(write) : write \in Held}
Counted == IsFiniteSet(Bytes) /\ queuedBytes = Cardinality(Bytes)
Limits ==
  queuedBytes <= MaxQueuedBytes
    /\ Len(active) + Len(pending) <= MaxQueuedMessages

IndInv ==
  /\ TypeOK /\ Live /\ Failed /\ Finished /\ Heard /\ ReceiptMeansWritten
  /\ Counted /\ Limits

-----------------------------------------------------------------------------
LEMMA Limited ==
  /\ MaxFrameBytes \in Nat /\ MaxQueuedMessages \in Nat
  /\ MaxQueuedBytes \in Nat /\ MaxSends \in Nat
BY WriterAssumption

LEMMA SentBefore ==
  ASSUME NEW next \in 1..MaxSends + 1, NEW m \in 1..next - 1
  PROVE  m \in 1..MaxSends
BY Limited

(* A write whose sequence number no other has adds its bytes. *)
LEMMA BytesAdd ==
  ASSUME NEW bytes, IsFiniteSet(bytes), NEW write \in Writes,
         \A byte \in bytes : byte[1] # write.sequence
  PROVE  /\ IsFiniteSet(bytes \cup BytesOf(write))
         /\ Cardinality(bytes \cup BytesOf(write)) =
              Cardinality(bytes) + write.byteLength
<1> DEFINE n == write.byteLength
           new == BytesOf(write)
<1>1. n \in Nat
  BY Limited DEF Writes
<1>2. IsFiniteSet({write.sequence}) /\ Cardinality({write.sequence}) = 1
  BY FS_Singleton
<1>3. IsFiniteSet(1..n) /\ Cardinality(1..n) = n
  <2> HIDE DEF n
  <2>1. IsFiniteSet(1..n) /\ Cardinality(1..n) = IF 1 > n THEN 0 ELSE n - 1 + 1
    BY <1>1, FS_Interval
  <2> QED
    BY <1>1, <2>1
<1>4. IsFiniteSet(new) /\ Cardinality(new) = n
  <2>1. IsFiniteSet(new) /\ Cardinality(new) = 1 * n
    BY <1>2, <1>3, FS_Product DEF BytesOf
  <2> QED
    BY <1>1, <2>1
<1>5. bytes \cap new = {}
  BY DEF BytesOf
<1> HIDE DEF new, n
<1>6. Cardinality(bytes \cap new) = 0 /\ Cardinality(bytes) \in Nat
  BY <1>5, FS_EmptySet, FS_CardinalityType
<1>7. /\ IsFiniteSet(bytes \cup new)
      /\ Cardinality(bytes \cup new) = Cardinality(bytes) + n - 0
  BY <1>1, <1>4, <1>6, FS_Union
<1> QED
  BY <1>1, <1>6, <1>7 DEF new, n

(* The bytes that are held, by the writes they belong to. *)
LEMMA HeldBytes ==
  ASSUME active \in {<<>>} \cup {<<a>> : a \in Actives}
  PROVE  /\ active = <<>> => Bytes = BytesIn(pending)
         /\ active # <<>> =>
              Bytes = BytesOf(active[1].write) \cup BytesIn(pending)
<1>1. CASE active = <<>>
  BY <1>1 DEF Bytes, BytesIn, Held
<1>2. CASE active # <<>>
  <2>1. DOMAIN active = {1}
    BY <1>2
  <2>2. {active[i].write : i \in DOMAIN active} = {active[1].write}
    BY <2>1
  <2> QED
    BY <1>2, <2>2 DEF Bytes, BytesIn, Held
<1> QED
  BY <1>1, <1>2

LEMMA BytesInAppended ==
  ASSUME NEW queue \in Seq(Writes), NEW write \in Writes
  PROVE  BytesIn(Append(queue, write)) = BytesIn(queue) \cup BytesOf(write)
<1> DEFINE longer == Append(queue, write)
           n == Len(queue)
<1>1. /\ n \in Nat /\ DOMAIN queue = 1..n /\ DOMAIN longer = 1..n + 1
      /\ longer[n + 1] = write /\ \A i \in 1..n : longer[i] = queue[i]
  OBVIOUS
<1> HIDE DEF longer, n
<1>2. 1..n + 1 = 1..n \cup {n + 1}
  BY <1>1
<1>3. BytesIn(longer) = BytesIn(queue) \cup BytesOf(write)
  BY <1>1, <1>2 DEF BytesIn
<1> QED
  BY <1>3 DEF longer

LEMMA BytesInTail ==
  ASSUME NEW queue \in Seq(Writes), queue # <<>>
  PROVE  BytesIn(queue) = BytesOf(Head(queue)) \cup BytesIn(Tail(queue))
<1> DEFINE n == Len(queue)
           rest == Tail(queue)
<1>1. /\ n \in Nat /\ n > 0 /\ DOMAIN queue = 1..n /\ DOMAIN rest = 1..n - 1
      /\ Head(queue) = queue[1] /\ \A i \in 1..n - 1 : rest[i] = queue[i + 1]
  OBVIOUS
<1> HIDE DEF n, rest
<1>2. ASSUME NEW i \in 1..n, i # 1
      PROVE  \E j \in 1..n - 1 : i = j + 1
  <2>1. i - 1 \in 1..n - 1 /\ i = (i - 1) + 1
    BY <1>1, <1>2
  <2> QED
    BY <2>1
<1>3. 1 \in 1..n /\ \A j \in 1..n - 1 : j + 1 \in 1..n
  BY <1>1
<1>4. BytesIn(queue) = BytesOf(queue[1]) \cup BytesIn(rest)
  BY <1>1, <1>2, <1>3 DEF BytesIn
<1> QED
  BY <1>1, <1>4 DEF rest

(* Nothing that waits has the sequence number of another write. *)
LEMMA OtherNumbers ==
  ASSUME NEW queue \in Seq(Writes), NEW next, InTurn(queue, next),
         Len(wire) \in Nat, next \in Nat
  PROVE  \A byte \in BytesIn(queue) : byte[1] > Len(wire) /\ byte[1] < next
<1> SUFFICES ASSUME NEW i \in DOMAIN queue, NEW byte \in BytesOf(queue[i])
             PROVE  byte[1] > Len(wire) /\ byte[1] < next
  BY DEF BytesIn
<1>1. byte[1] = Len(wire) + i
  BY DEF BytesOf, InTurn
<1>2. i \in Nat /\ i > 0 /\ i <= Len(queue) /\ Len(queue) \in Nat
  OBVIOUS
<1>3. Len(wire) + Len(queue) = next - 1
  BY DEF InTurn
<1> QED
  BY <1>1, <1>2, <1>3

-----------------------------------------------------------------------------
(* What stays true of the writer whatever it does to its queue. *)
Around ==
  /\ wire \in Seq(1..MaxSends) /\ (\A i \in DOMAIN wire : wire[i] = i)
  /\ finishing \in {"none", "waiting", "resolved", "rejected"}
  /\ accepting \in BOOLEAN /\ (finishing # "none" => ~accepting)
  /\ nextSequence' \in 1..MaxSends + 1 /\ closed' \in BOOLEAN
  /\ callbacks' \in [1..MaxSends -> {"none", "written", "failed"}]
  /\ \A m \in 1..MaxSends : callbacks'[m] # "none" => m <= Len(wire)

(* A failure rejects what is open and leaves nothing behind. *)
LEMMA FailIsGood ==
  ASSUME Around,
         NEW promises \in [1..MaxSends -> {"unsent", "queued", "resolved",
         "rejected"}],
         \A m \in 1..MaxSends :
           promises[m] = "resolved" =>
             m <= Len(wire) /\ callbacks'[m] = "written" /\ m \notin undrained',
         finishing = "resolved" =>
           \A m \in 1..nextSequence' - 1 : promises[m] = "resolved",
         Fail(promises), wire' = wire, undrained' \in SUBSET (1..MaxSends)
  PROVE  IndInv'
<1>0. MaxSends \in Nat /\ MaxQueuedBytes \in Nat /\ MaxQueuedMessages \in Nat
  BY Limited
<1>1. /\ terminalError' = TRUE /\ accepting' = FALSE /\ active' = <<>>
      /\ pending' = <<>>
      /\ queuedBytes' = 0 /\ outcome' = RejectOpen(promises)
      /\ finishing' = IF finishing = "waiting" THEN "rejected" ELSE finishing
  BY DEF Fail
<1>2. outcome' = [m \in 1..MaxSends |->
                    IF promises[m] = "queued" THEN "rejected" ELSE promises[m]]
  BY <1>1 DEF RejectOpen
<1>3. TypeOK'
  <2>1. <<>> \in Seq(Writes)
    OBVIOUS
  <2>2. outcome' \in [1..MaxSends -> {"unsent", "queued", "resolved",
          "rejected"}]
    BY <1>2
  <2> QED
    BY <1>1, <2>1, <2>2 DEF TypeOK, Around
<1>4. Live' /\ Failed' /\ Heard'
  BY <1>1, <1>2 DEF Live, Failed, Heard, Around
<1>5. ReceiptMeansWritten'
  BY <1>2 DEF ReceiptMeansWritten, Around
<1>6. Finished'
  <2>1. ASSUME finishing' = "resolved", NEW m \in 1..nextSequence' - 1
        PROVE  outcome'[m] = "resolved"
    <3>1. finishing = "resolved"
      BY <1>1, <2>1
    <3>2. m \in 1..MaxSends
      BY SentBefore DEF Around
    <3>3. promises[m] = "resolved"
      BY <2>1, <3>1
    <3> QED
      BY <1>2, <3>2, <3>3
  <2> QED
    BY <1>1, <2>1 DEF Finished, FinishMeansFlushed
<1>7. Counted' /\ Limits'
  <2>1. Bytes' = {}
    <3>1. Bytes' = UNION {BytesOf(write) : write \in Held'} /\ Held' = {}
      BY <1>1 DEF Bytes, BytesOf, Held
    <3> QED
      BY <3>1
  <2> QED
    BY <1>0, <1>1, <2>1, FS_EmptySet DEF Counted, Limits
<1> QED
  BY <1>3, <1>4, <1>5, <1>6, <1>7 DEF IndInv

(* The next write of a queue that stands in line is handed to the stream; when
   the queue is empty, all that was sent has its receipt. *)
LEMMA PumpIsGood ==
  ASSUME Around, terminalError = FALSE,
         NEW queue \in Seq(Writes), InTurn(queue, nextSequence'),
         NEW promises, promises = Promised(Len(wire), nextSequence'),
         IsFiniteSet(BytesIn(queue)), NEW bytes, bytes =
           Cardinality(BytesIn(queue)),
         bytes <= MaxQueuedBytes, Len(queue) <= MaxQueuedMessages,
         finishing # "resolved",
         \A m \in 1..MaxSends : m <= Len(wire) => callbacks'[m] = "written",
         Pump(queue, bytes, promises, {})
  PROVE  IndInv'
<1> DEFINE n == Len(wire)
           next == nextSequence'
<1>0. MaxSends \in Nat /\ MaxQueuedBytes \in Nat /\ MaxQueuedMessages \in Nat
  BY Limited
<1>1. /\ n \in Nat /\ next \in Nat /\ bytes \in Nat /\ Len(queue) \in Nat
      /\ n + Len(queue) = next - 1
      /\ \A i \in DOMAIN queue : queue[i].sequence = n + i
  BY <1>0, FS_CardinalityType DEF Around, InTurn
<1>2. promises = [m \in 1..MaxSends |-> IF m <= n THEN "resolved"
                                        ELSE IF m < next THEN "queued"
                                          ELSE "unsent"]
  BY DEF Promised
<1>3. promises \in [1..MaxSends -> {"unsent", "queued", "resolved", "rejected"}]
  BY <1>2
<1>4. CASE queue = <<>>
  <2>1. /\ active' = <<>> /\ pending' = <<>> /\ queuedBytes' = bytes
        /\ outcome' = promises
        /\ finishing' = FinishIfIdle
        /\ accepting' = accepting /\ terminalError' = FALSE /\ wire' = wire
        /\ undrained' = {}
    BY <1>4 DEF Pump
  <2>2. n = next - 1 /\ n \in Nat
    <3>1. Len(queue) = 0
      BY <1>4
    <3> HIDE DEF n, next
    <3> QED
      BY <1>1, <3>1
  <2>3. TypeOK'
    <3>1. <<>> \in Seq(Writes)
      OBVIOUS
    <3> QED
      BY <1>1, <1>3, <2>1, <3>1 DEF TypeOK, Around, FinishIfIdle
  <2>4. Live' /\ Failed' /\ Heard'
    <3>1. InTurn(pending, nextSequence)'
      <4>1. Len(pending') = 0 /\ DOMAIN pending' = {} /\ Len(wire') = n
        BY <2>1
      <4>2. Len(wire') + Len(pending') = next - 1
        BY <2>2, <4>1
      <4> QED
        BY <4>1, <4>2 DEF InTurn
    <3>2. outcome' = Promised(Len(wire') - Len(active'), next)
      <4>1. Len(wire') - Len(active') = n
        BY <2>1, <2>2
      <4> QED
        BY <2>1, <4>1
    <3>3. finishing' # "waiting"
      BY <2>1 DEF FinishIfIdle
    <3> QED
      BY <2>1, <3>1, <3>2, <3>3 DEF Live, Failed, Heard, Around, Promised
  <2>5. Finished'
    <3>1. ASSUME NEW m \in 1..next - 1
          PROVE  promises[m] = "resolved"
      <4>1. m \in 1..MaxSends
        BY SentBefore DEF Around
      <4>2. m <= n
        BY <2>2
      <4> QED
        BY <1>2, <4>1, <4>2
    <3> QED
      BY <2>1, <3>1 DEF Finished, FinishMeansFlushed, FinishIfIdle, Around
  <2>6. ReceiptMeansWritten'
    BY <1>2, <2>1 DEF ReceiptMeansWritten, Around
  <2>7. Counted' /\ Limits'
    <3>1. Bytes' = {} /\ BytesIn(queue) = {}
      <4>1. Bytes' = UNION {BytesOf(write) : write \in Held'} /\ Held' = {}
        BY <2>1 DEF Bytes, BytesOf, Held
      <4> QED
        BY <1>4, <4>1 DEF BytesIn
    <3> QED
      BY <1>0, <2>1, <3>1, FS_EmptySet DEF Counted, Limits
  <2> QED
    BY <2>3, <2>4, <2>5, <2>6, <2>7 DEF IndInv
<1>5. CASE queue # <<>> /\ Fail(promises) /\ undrained' = {} /\ UNCHANGED wire
  <2>1. \A m \in 1..MaxSends :
          promises[m] = "resolved" =>
            m <= n /\ callbacks'[m] = "written" /\ m \notin undrained'
    BY <1>2, <1>5
  <2> QED
    BY <1>3, <1>5, <2>1, FailIsGood
<1>6. ASSUME queue # <<>>, NEW acceptedWithoutBackpressure \in BOOLEAN,
             active' = <<[write |-> Head(queue), callbackFinished |-> FALSE,
                          drainFinished |-> acceptedWithoutBackpressure]>>,
             pending' = Tail(queue), queuedBytes' = bytes, outcome' = promises,
             wire' = Append(wire, Head(queue).sequence),
             undrained' = IF acceptedWithoutBackpressure THEN {}
                          ELSE {} \cup {Head(queue).sequence},
             UNCHANGED <<accepting, terminalError, finishing>>
      PROVE  IndInv'
  <2> DEFINE write == Head(queue)
             a == [write |-> write, callbackFinished |-> FALSE,
                   drainFinished |-> acceptedWithoutBackpressure]
             k == Len(queue)
  <2>1. /\ write \in Writes /\ write = queue[1] /\ 1 \in DOMAIN queue
        /\ Tail(queue) \in Seq(Writes) /\ k > 0 /\ Len(Tail(queue)) = k - 1
        /\ DOMAIN Tail(queue) = 1..k - 1 /\ DOMAIN queue = 1..k
        /\ \A i \in 1..k - 1 : Tail(queue)[i] = queue[i + 1]
    BY <1>6
  <2>2. write.sequence = n + 1 /\ n + 1 \in 1..MaxSends
    <3>1. write.sequence = n + 1
      BY <1>1, <2>1
    <3> QED
      BY <2>1, <3>1 DEF Writes
  <2>3. /\ a \in Actives /\ a.write = write
        /\ active' = <<a>> /\ active' # <<>> /\ Len(active') = 1
        /\ active'[1] = a
        /\ a.callbackFinished = FALSE
        /\ a.drainFinished = acceptedWithoutBackpressure
    BY <1>6, <2>1 DEF Actives
  <2>4. /\ wire' \in Seq(1..MaxSends) /\ Len(wire') = n + 1
        /\ wire'[n + 1] = n + 1 /\ \A i \in 1..n : wire'[i] = i
    BY <1>6, <2>2 DEF Around
  <2>12. undrained' = IF acceptedWithoutBackpressure THEN {} ELSE {n + 1}
    BY <1>6, <2>2
  <2> HIDE DEF a, write, k
  <2>5. TypeOK'
    <3>1. undrained' \in SUBSET (1..MaxSends)
      BY <2>2, <2>12
    <3> QED
      BY <1>1, <1>3, <1>6, <2>1, <2>3, <2>4, <3>1 DEF TypeOK, Around
  <2>6. InTurn(pending, nextSequence)'
    <3>1. ASSUME NEW i \in 1..k - 1
          PROVE  queue[i + 1].sequence = (n + 1) + i
      <4>1. i + 1 \in 1..k /\ k \in Nat
        BY <1>1 DEF k
      <4>2. queue[i + 1].sequence = n + (i + 1)
        BY <1>1, <2>1, <4>1
      <4> QED
        BY <1>1, <4>2
    <3>2. \A i \in 1..k - 1 : pending'[i].sequence = Len(wire') + i
      BY <1>6, <2>1, <2>4, <3>1
    <3>3. Len(wire') + Len(pending') = next - 1
      BY <1>1, <1>6, <2>1, <2>4 DEF k
    <3> QED
      BY <1>6, <2>1, <3>2, <3>3 DEF InTurn
  <2>7. outcome' = Promised(Len(wire') - Len(active'), next)
    <3>1. Len(wire') - Len(active') = n
      BY <1>1, <2>3, <2>4
    <3> QED
      BY <1>6, <3>1
  <2>8. Live' /\ Failed'
    <3>1. Len(wire') > 0 /\ active'[1].write.sequence = Len(wire')
      BY <1>1, <2>2, <2>3, <2>4
    <3> QED
      BY <1>6, <2>3, <2>6, <2>7, <3>1 DEF Live, Failed, Promised
  <2>13. Heard'
    <3>1. callbacks'[n + 1] = "none"
      BY <1>1, <2>2 DEF Around
    <3>2. \A m \in 1..MaxSends : callbacks'[m] # "none" => m <= n + 1
      BY <1>1 DEF Around
    <3> QED
      BY <2>3, <2>4, <2>12, <3>1, <3>2 DEF Heard
  <2>9. Finished' 
    BY <1>6 DEF Finished, FinishMeansFlushed, Around
  <2>10. ReceiptMeansWritten'
    <3>1. \A i \in DOMAIN wire' : wire'[i] = i
      BY <1>1, <2>4
    <3>2. \A m \in 1..MaxSends :
            promises[m] = "resolved" =>
              m <= n + 1 /\ callbacks'[m] = "written" /\ m \notin undrained'
      BY <1>1, <1>2, <2>12
    <3> QED
      BY <1>6, <2>4, <3>1, <3>2 DEF ReceiptMeansWritten
  <2>11. Counted' /\ Limits'
    <3>1. BytesIn(queue) = BytesOf(write) \cup BytesIn(pending')
      BY <1>6, BytesInTail DEF write
    <3>2. Bytes' = BytesOf(write) \cup BytesIn(pending')
      <4>1. Held' = {write} \cup {pending'[i] : i \in DOMAIN pending'}
        BY <2>3 DEF Held
      <4>2. Bytes' = UNION {BytesOf(w) : w \in Held'}
        BY DEF Bytes, BytesOf
      <4> QED
        BY <4>1, <4>2 DEF BytesIn
    <3>3. Len(active') + Len(pending') <= MaxQueuedMessages
      BY <1>0, <1>1, <1>6, <2>1, <2>3 DEF k
    <3> QED
      BY <1>6, <3>1, <3>2, <3>3 DEF Counted, Limits
  <2> QED
    BY <2>5, <2>8, <2>9, <2>10, <2>11, <2>13 DEF IndInv
<1> QED
  BY <1>4, <1>5, <1>6 DEF Pump

-----------------------------------------------------------------------------
(* The steps. *)

LEMMA InitIsGood == Init => IndInv
<1> SUFFICES ASSUME Init PROVE IndInv
  OBVIOUS
<1> USE DEF Init
<1>0. MaxSends \in Nat /\ MaxQueuedBytes \in Nat /\ MaxQueuedMessages \in Nat
  BY Limited
<1>1. TypeOK
  <2>1. <<>> \in Seq(Writes) /\ <<>> \in Seq(1..MaxSends)
          /\ 1 \in 1..MaxSends + 1
    BY <1>0
  <2> QED
    BY <2>1 DEF TypeOK
<1>2. Live /\ Failed
  BY <1>0 DEF Live, Failed, InTurn, Promised
<1>3. Finished /\ Heard /\ ReceiptMeansWritten
  BY DEF Finished, FinishMeansFlushed, Heard, ReceiptMeansWritten
<1>4. Counted /\ Limits
  <2>1. Bytes = {}
    BY DEF Bytes, Held
  <2> QED
    BY <1>0, <2>1, FS_EmptySet DEF Counted, Limits
<1> QED
  BY <1>1, <1>2, <1>3, <1>4 DEF IndInv

(* The facts about the open writes of a writer that has not failed. *)
LEMMA OpenWrites ==
  ASSUME IndInv, ~terminalError
  PROVE  /\ pending \in Seq(Writes) /\ Len(pending) \in Nat
         /\ wire \in Seq(1..MaxSends) /\ Len(wire) \in Nat
         /\ \A i \in DOMAIN wire : wire[i] = i
         /\ InTurn(pending, nextSequence) /\ nextSequence \in 1..MaxSends + 1
         /\ outcome = Promised(Len(wire) - Len(active), nextSequence)
         /\ IsFiniteSet(Bytes) /\ queuedBytes = Cardinality(Bytes)
         /\ queuedBytes \in Nat
         /\ active \in {<<>>} \cup {<<a>> : a \in Actives}
         /\ active # <<>> =>
              /\ active[1] \in Actives /\ Len(active) = 1
              /\ active = <<active[1]>>
              /\ Len(wire) > 0 /\ active[1].write.sequence = Len(wire)
              /\ active[1].write \in Writes
              /\ Bytes = BytesOf(active[1].write) \cup BytesIn(pending)
         /\ active = <<>> =>
              /\ pending = <<>> /\ Len(active) = 0 /\ Bytes = BytesIn(pending)
              /\ undrained = {}
         /\ \A byte \in BytesIn(pending) : byte[1] > Len(wire)
              /\ byte[1] < nextSequence
<1>1. /\ pending \in Seq(Writes) /\ Len(pending) \in Nat
      /\ wire \in Seq(1..MaxSends) /\ Len(wire) \in Nat
      /\ \A i \in DOMAIN wire : wire[i] = i
      /\ nextSequence \in 1..MaxSends + 1 /\ queuedBytes \in Nat
      /\ active \in {<<>>} \cup {<<a>> : a \in Actives}
  BY DEF IndInv, TypeOK, ReceiptMeansWritten
<1>2. /\ InTurn(pending, nextSequence)
      /\ outcome = Promised(Len(wire) - Len(active), nextSequence)
      /\ active # <<>> => Len(wire) > 0 /\ active[1].write.sequence = Len(wire)
      /\ active = <<>> => pending = <<>>
  BY DEF IndInv, Live
<1>3. IsFiniteSet(Bytes) /\ queuedBytes = Cardinality(Bytes)
  BY DEF IndInv, Counted
<1>4. active # <<>> =>
        /\ active[1] \in Actives /\ Len(active) = 1 /\ active = <<active[1]>>
                       /\ active[1].write \in Writes
  BY <1>1 DEF Actives
<1>5. nextSequence \in Nat
  BY <1>1, Limited
<1>6. \A byte \in BytesIn(pending) : byte[1] > Len(wire)
        /\ byte[1] < nextSequence
  BY <1>1, <1>2, <1>5, OtherNumbers
<1> QED
  BY <1>1, <1>2, <1>3, <1>4, <1>6, HeldBytes DEF IndInv, Heard

(* How the outcomes of a writer that has not failed stand. *)
LEMMA Standing ==
  ASSUME IndInv, ~terminalError
  PROVE  /\ terminalError = FALSE
         /\ outcome \in [1..MaxSends -> {"unsent", "queued", "resolved",
              "rejected"}]
         /\ nextSequence \in 1..MaxSends + 1
         /\ \A m \in 1..MaxSends :
              /\ outcome[m] = "unsent" <=> m >= nextSequence
              /\ m < Len(wire) => outcome[m] = "resolved"
              /\ active # <<>> /\ m = Len(wire) => outcome[m] = "queued"
<1> DEFINE n == Len(wire)
           accepted == n - Len(active)
<1>1. /\ outcome = Promised(accepted, nextSequence) /\ n \in Nat
      /\ nextSequence \in 1..MaxSends + 1 /\ Len(pending) \in Nat
      /\ n + Len(pending) = nextSequence - 1
      /\ active # <<>> => Len(active) = 1 /\ n > 0
      /\ active = <<>> => Len(active) = 0
  BY OpenWrites DEF InTurn
<1>2. /\ accepted \in Int /\ accepted < nextSequence /\ n < nextSequence
      /\ accepted >= n - 1
      /\ active # <<>> => accepted = n - 1
      /\ nextSequence \in Nat /\ MaxSends \in Nat
  <2>1. nextSequence \in Nat /\ MaxSends \in Nat
    BY <1>1, Limited
  <2>2. CASE active # <<>>
    <3>1. accepted = n - 1
      BY <1>1, <2>2
    <3> HIDE DEF accepted, n
    <3> QED
      BY <1>1, <2>1, <3>1
  <2>3. CASE active = <<>>
    <3>1. accepted = n
      BY <1>1, <2>3
    <3> HIDE DEF accepted, n
    <3> QED
      BY <1>1, <2>1, <2>3, <3>1
  <2> QED
    BY <2>2, <2>3
<1> HIDE DEF accepted, n
<1>3. ASSUME NEW m \in 1..MaxSends
      PROVE  /\ outcome[m] = "unsent" <=> m >= nextSequence
             /\ m < n => outcome[m] = "resolved"
             /\ active # <<>> /\ m = n => outcome[m] = "queued"
  <2>1. outcome[m] = IF m <= accepted THEN "resolved"
                     ELSE IF m < nextSequence THEN "queued" ELSE "unsent"
    BY <1>1 DEF Promised
  <2> QED
    BY <1>1, <1>2, <2>1
<1>4. /\ terminalError = FALSE
      /\ outcome \in [1..MaxSends -> {"unsent", "queued", "resolved",
           "rejected"}]
  BY DEF IndInv, TypeOK
<1> QED
  BY <1>1, <1>3, <1>4 DEF n

LEMMA SendStep ==
  ASSUME IndInv, NEW byteLength \in 2..MaxFrameBytes + 1, Send(byteLength)
  PROVE  IndInv'
<1> DEFINE write == [sequence |-> nextSequence, byteLength |-> byteLength]
           queue == Enqueue(write)
           bytes == queuedBytes + byteLength
           promises == [outcome EXCEPT ![nextSequence] = "queued"]
           n == Len(wire)
           next == nextSequence + 1
<1>0. /\ MaxSends \in Nat /\ MaxQueuedBytes \in Nat /\ MaxQueuedMessages \in Nat
      /\ MaxFrameBytes \in Nat /\ byteLength \in Nat
  BY Limited
<1>1. /\ accepting /\ ~terminalError /\ finishing = "none"
      /\ nextSequence <= MaxSends
      /\ nextSequence' = next /\ closed' = closed /\ callbacks' = callbacks
      /\ Len(pending) + Len(active) + 1 <= MaxQueuedMessages
      /\ bytes <= MaxQueuedBytes
  BY DEF Send, IndInv, Failed, Finished
<1>2. /\ TypeOK /\ pending \in Seq(Writes) /\ Len(pending) \in Nat /\ n \in Nat
      /\ InTurn(pending, nextSequence) /\ nextSequence \in 1..MaxSends + 1
      /\ outcome = Promised(n - Len(active), nextSequence)
      /\ IsFiniteSet(Bytes) /\ queuedBytes = Cardinality(Bytes)
  BY <1>1, OpenWrites DEF IndInv
<1>3. write \in Writes /\ write.sequence = nextSequence
        /\ write.byteLength = byteLength
      /\ nextSequence \in 1..MaxSends /\ nextSequence \in Nat
  BY <1>0, <1>1, <1>2 DEF Writes
<1>4. queue = Append(pending, write)
  BY DEF Enqueue
<1> HIDE DEF write, queue
<1>5. /\ queue \in Seq(Writes) /\ Len(queue) = Len(pending) + 1
      /\ DOMAIN queue = 1..Len(pending) + 1 /\ queue[Len(pending) + 1] = write
      /\ \A i \in 1..Len(pending) : queue[i] = pending[i]
  BY <1>2, <1>3, <1>4
<1>6. InTurn(queue, next)
  <2>1. n + Len(pending) = nextSequence - 1
        /\ \A i \in 1..Len(pending) : pending[i].sequence = n + i
    BY <1>2 DEF InTurn
  <2>2. ASSUME NEW i \in 1..Len(pending) + 1
        PROVE  queue[i].sequence = n + i
    <3>1. CASE i \in 1..Len(pending)
      BY <1>5, <2>1, <3>1
    <3>2. CASE i = Len(pending) + 1
      BY <1>2, <1>3, <1>5, <2>1, <3>2
    <3> QED
      BY <1>2, <3>1, <3>2
  <2>3. n + Len(queue) = next - 1
    BY <1>2, <1>3, <1>5, <2>1
  <2> QED
    BY <1>5, <2>2, <2>3 DEF InTurn
<1>7. /\ BytesIn(queue) = BytesIn(pending) \cup BytesOf(write)
  BY <1>2, <1>3, <1>4, BytesInAppended
<1>8. \A byte \in Bytes : byte[1] # write.sequence
  <2>1. ASSUME active # <<>>, NEW byte \in BytesOf(active[1].write)
        PROVE  byte[1] # write.sequence
    <3>1. byte[1] = n
      BY <1>1, <2>1, OpenWrites DEF BytesOf
    <3>2. n + Len(pending) = nextSequence - 1
      BY <1>2 DEF InTurn
    <3> QED
      BY <1>2, <1>3, <3>1, <3>2
  <2>2. ASSUME NEW byte \in BytesIn(pending)
        PROVE  byte[1] # write.sequence
    BY <1>1, <1>3, OpenWrites
  <2> QED
    BY <1>1, <2>1, <2>2, OpenWrites
<1>9. /\ IsFiniteSet(Bytes \cup BytesOf(write))
      /\ bytes = Cardinality(Bytes \cup BytesOf(write))
  BY <1>2, <1>3, <1>8, BytesAdd
<1>10. promises = Promised(n - Len(active), next)
  <2> DEFINE accepted == n - Len(active)
  <2>1. accepted \in Int /\ accepted < nextSequence
    <3>1. Len(active) = 0 \/ Len(active) = 1
      BY <1>1, OpenWrites
    <3>2. n + Len(pending) = nextSequence - 1
      BY <1>2 DEF InTurn
    <3> QED
      BY <1>2, <1>3, <3>1, <3>2
  <2> HIDE DEF accepted
  <2>2. outcome = Promised(accepted, nextSequence)
    BY <1>2 DEF accepted
  <2>3. promises = Promised(accepted, next)
    BY <1>0, <1>3, <2>1, <2>2 DEF Promised
  <2> QED
    BY <2>3 DEF accepted
<1>11. Around
  BY <1>0, <1>1, <1>2, <1>3
     DEF Around, TypeOK, IndInv, ReceiptMeansWritten, Heard
<1>12. CASE active = <<>>
  <2>1. Pump(queue, bytes, promises, {})
    BY <1>1, <1>12, OpenWrites DEF Send, queue, write
  <2>2. n - Len(active) = n /\ Len(queue) <= MaxQueuedMessages
    BY <1>0, <1>1, <1>2, <1>5, <1>12
  <2>3. Bytes \cup BytesOf(write) = BytesIn(queue)
    BY <1>1, <1>7, <1>12, OpenWrites
  <2>4. promises = Promised(Len(wire), nextSequence')
    BY <1>1, <1>10, <2>2
  <2>5. InTurn(queue, nextSequence')
    BY <1>1, <1>6
  <2>6. IsFiniteSet(BytesIn(queue)) /\ bytes = Cardinality(BytesIn(queue))
    BY <1>9, <2>3
  <2>7. bytes <= MaxQueuedBytes /\ terminalError = FALSE
          /\ finishing # "resolved"
    BY <1>1, <1>2 DEF TypeOK
  <2>8. ASSUME NEW m \in 1..MaxSends, m <= n
        PROVE  callbacks'[m] = "written"
    <3>1. outcome[m] = "resolved"
      BY <1>2, <2>2, <2>8 DEF Promised
    <3> QED
      BY <1>1, <3>1 DEF IndInv, ReceiptMeansWritten
  <2> HIDE DEF bytes, promises, n, next
  <2>9. \A m \in 1..MaxSends : m <= Len(wire) => callbacks'[m] = "written"
    BY <2>8 DEF n
  <2> QED
    BY <1>5, <1>11, <2>1, <2>2, <2>4, <2>5, <2>6, <2>7, <2>9, PumpIsGood
<1>13. CASE active # <<>>
  <2>1. /\ pending' = queue /\ queuedBytes' = bytes /\ outcome' = promises
        /\ UNCHANGED <<accepting, active, terminalError, finishing, wire,
                       undrained>>
    BY <1>13 DEF Send, queue, write
  <2>2. TypeOK'
    <3>1. promises \in [1..MaxSends -> {"unsent", "queued", "resolved",
            "rejected"}]
      BY <1>2 DEF TypeOK
    <3>2. bytes \in Nat
      BY <1>0, <1>2 DEF TypeOK
    <3>3. nextSequence' \in 1..MaxSends + 1
      BY <1>0, <1>1, <1>3
    <3> QED
      BY <1>1, <1>2, <1>5, <2>1, <3>1, <3>2, <3>3 DEF TypeOK
  <2>3. Live' /\ Failed' /\ Heard'
    <3>1. InTurn(pending, nextSequence)'
      BY <1>1, <1>6, <2>1 DEF InTurn
    <3>2. Len(wire) > 0 /\ active[1].write.sequence = Len(wire)
      BY <1>1, <1>13, OpenWrites
    <3> QED
      BY <1>1, <1>10, <1>13, <2>1, <3>1, <3>2
         DEF IndInv, Live, Failed, Heard, Promised
  <2>4. Finished' /\ ReceiptMeansWritten'
    BY <1>1, <2>1 DEF IndInv, Finished, FinishMeansFlushed, ReceiptMeansWritten
  <2>5. Counted' /\ Limits'
    <3>1. Bytes' = BytesOf(active[1].write) \cup BytesIn(queue)
      <4>1. active' # <<>> /\ active' \in {<<>>} \cup {<<a>> : a \in Actives}
        BY <1>2, <1>13, <2>1 DEF TypeOK
      <4>2. Bytes' = BytesOf(active'[1].write) \cup BytesIn(pending')
        <5>1. DOMAIN active' = {1}
          BY <4>1
        <5>2. Held' =
                {active'[1].write} \cup {pending'[i] : i \in DOMAIN pending'}
          BY <5>1 DEF Held
        <5>3. Bytes' = UNION {BytesOf(w) : w \in Held'}
          BY DEF Bytes, BytesOf
        <5> QED
          BY <5>2, <5>3 DEF BytesIn
      <4> QED
        BY <2>1, <4>2
    <3>2. Bytes' = Bytes \cup BytesOf(write)
      BY <1>1, <1>7, <1>13, <3>1, OpenWrites
    <3>3. Len(active') + Len(pending') <= MaxQueuedMessages
      BY <1>0, <1>1, <1>2, <1>5, <1>13, <2>1, OpenWrites
    <3> QED
      BY <1>1, <1>9, <2>1, <3>2, <3>3 DEF Counted, Limits
  <2> QED
    BY <2>2, <2>3, <2>4, <2>5 DEF IndInv
<1> QED
  BY <1>12, <1>13

(* A write that completes gives its promise the receipt and its bytes back,
   and the next one is taken. *)
LEMMA CompleteStep ==
  ASSUME IndInv, active # <<>>, NEW a \in Actives, a.write = active[1].write,
         NEW waiting, waiting = IF a.drainFinished THEN {} ELSE {Len(wire)},
         callbacks' \in [1..MaxSends -> {"none", "written", "failed"}],
         a.callbackFinished <=> callbacks'[Len(wire)] = "written",
         \A m \in 1..MaxSends : m # Len(wire) => callbacks'[m] = callbacks[m],
         CompleteIfReady(a, waiting), UNCHANGED <<nextSequence, closed>>
  PROVE  IndInv'
<1> DEFINE write == a.write
           n == Len(wire)
           bytes == queuedBytes - write.byteLength
           promises == [outcome EXCEPT ![write.sequence] = "resolved"]
<1>0. /\ MaxSends \in Nat /\ MaxQueuedBytes \in Nat /\ MaxQueuedMessages \in Nat
      /\ MaxFrameBytes \in Nat
  BY Limited
<1>1. ~terminalError
  BY DEF IndInv, Failed
<1>2. /\ TypeOK /\ pending \in Seq(Writes) /\ Len(pending) \in Nat /\ n \in Nat
      /\ n > 0
      /\ InTurn(pending, nextSequence) /\ nextSequence \in 1..MaxSends + 1
      /\ outcome = Promised(n - Len(active), nextSequence) /\ Len(active) = 1
      /\ IsFiniteSet(Bytes) /\ queuedBytes = Cardinality(Bytes)
      /\ queuedBytes \in Nat
      /\ write \in Writes /\ write.sequence = n
      /\ Bytes = BytesOf(write) \cup BytesIn(pending)
      /\ \A byte \in BytesIn(pending) : byte[1] > n
  BY <1>1, OpenWrites DEF IndInv
<1>3. finishing # "resolved" /\ terminalError = FALSE
  BY <1>1, <1>2 DEF IndInv, Finished, TypeOK
<1>4. write.byteLength \in Nat /\ n \in 1..MaxSends
  BY <1>0, <1>2 DEF Writes
<1>5. Around
  <2>1. \A m \in 1..MaxSends : callbacks'[m] # "none" => m <= n
    BY <1>2 DEF IndInv, Heard
  <2> QED
    BY <1>2, <2>1 DEF Around, TypeOK, IndInv, Finished, ReceiptMeansWritten
<1>6. CASE a.callbackFinished /\ a.drainFinished
  <2>1. Pump(pending, bytes, promises, {})
    BY <1>6 DEF CompleteIfReady
  <2>2. promises = Promised(n, nextSequence)
    <3>1. outcome = [m \in 1..MaxSends |->
                       IF m <= n - 1 THEN "resolved"
                       ELSE IF m < nextSequence THEN "queued" ELSE "unsent"]
      BY <1>2 DEF Promised
    <3>2. ASSUME NEW m \in 1..MaxSends
          PROVE  promises[m] = IF m <= n THEN "resolved"
                               ELSE IF m < nextSequence THEN "queued"
                                 ELSE "unsent"
      <4>1. promises[m] = IF m = n THEN "resolved" ELSE outcome[m]
        BY <1>2, <1>4, <3>1
      <4>2. outcome[m] = IF m <= n - 1 THEN "resolved"
                         ELSE IF m < nextSequence THEN "queued" ELSE "unsent"
        BY <3>1
      <4> QED
        BY <1>0, <1>2, <4>1, <4>2
    <3>3. promises = [m \in 1..MaxSends |-> promises[m]]
      BY <3>1
    <3> HIDE DEF promises
    <3> QED
      BY <3>2, <3>3 DEF Promised
  <2>3. IsFiniteSet(BytesIn(pending)) /\ bytes = Cardinality(BytesIn(pending))
    <3>1. IsFiniteSet(BytesIn(pending))
      BY <1>2, FS_Subset
    <3>2. \A byte \in BytesIn(pending) : byte[1] # write.sequence
      BY <1>2
    <3>3. Cardinality(BytesIn(pending) \cup BytesOf(write))
            = Cardinality(BytesIn(pending)) + write.byteLength
      BY <1>2, <3>1, <3>2, BytesAdd
    <3>4. BytesIn(pending) \cup BytesOf(write) = Bytes
      BY <1>2
    <3>5. Cardinality(BytesIn(pending)) \in Nat
      BY <3>1, FS_CardinalityType
    <3>6. queuedBytes = Cardinality(BytesIn(pending)) + write.byteLength
      BY <1>2, <3>3, <3>4
    <3> HIDE DEF write
    <3> QED
      BY <1>4, <3>1, <3>5, <3>6
  <2>4. bytes <= MaxQueuedBytes /\ Len(pending) <= MaxQueuedMessages
    BY <1>0, <1>2, <1>4 DEF IndInv, Limits
  <2>5. InTurn(pending, nextSequence')
          /\ promises = Promised(Len(wire), nextSequence')
    BY <1>2, <2>2
  <2>6. ASSUME NEW m \in 1..MaxSends, m <= n
        PROVE  callbacks'[m] = "written"
    <3>1. CASE m = n
      BY <1>6, <3>1
    <3>2. CASE m # n
      <4>1. m <= n - 1
        BY <1>2, <2>6, <3>2
      <4>2. outcome[m] = "resolved"
        BY <1>2, <4>1 DEF Promised
      <4> QED
        BY <3>2, <4>2 DEF IndInv, ReceiptMeansWritten
    <3> QED
      BY <3>1, <3>2
  <2> HIDE DEF bytes, promises, n, write
  <2>7. \A m \in 1..MaxSends : m <= Len(wire) => callbacks'[m] = "written"
    BY <2>6 DEF n
  <2> QED
    BY <1>2, <1>3, <1>5, <2>1, <2>3, <2>4, <2>5, <2>7, PumpIsGood
<1>7. CASE ~(a.callbackFinished /\ a.drainFinished)
  <2>1. /\ active' = <<a>>
        /\ UNCHANGED <<accepting, pending, queuedBytes, terminalError,
             finishing,
                       outcome, wire, nextSequence, closed>>
        /\ undrained' = waiting
    BY <1>7 DEF CompleteIfReady
  <2>2. active' # <<>> /\ active'[1] = a /\ Len(active') = 1
          /\ DOMAIN active' = {1}
    BY <2>1
  <2>3. TypeOK'
    <3>1. undrained' \in SUBSET (1..MaxSends)
      BY <1>4, <2>1
    <3> QED
      BY <1>2, <2>1, <3>1 DEF TypeOK
  <2>4. Live' /\ Failed'
    BY <1>1, <1>2, <2>1, <2>2 DEF Live, Failed, InTurn, Promised
  <2>7. Heard'
    BY <1>2, <1>5, <2>1, <2>2 DEF Heard, Around
  <2>8. ReceiptMeansWritten'
    <3>1. ASSUME NEW m \in 1..MaxSends, outcome[m] = "resolved"
          PROVE  /\ m <= Len(wire) /\ callbacks'[m] = "written"
                 /\ m \notin undrained'
      <4>1. m # n
        BY <1>1, <1>2, <1>4, <3>1, Standing
      <4> QED
        BY <2>1, <3>1, <4>1 DEF IndInv, ReceiptMeansWritten
    <3> QED
      BY <2>1, <3>1 DEF IndInv, ReceiptMeansWritten
  <2>5. Finished'
    BY <1>3, <2>1 DEF IndInv, Finished, FinishMeansFlushed
  <2>6. Counted' /\ Limits'
    <3>1. Bytes' = BytesOf(write) \cup BytesIn(pending)
      <4>1. Held' = {write} \cup {pending[i] : i \in DOMAIN pending}
        BY <2>1, <2>2 DEF Held
      <4>2. Bytes' = UNION {BytesOf(w) : w \in Held'}
        BY DEF Bytes, BytesOf
      <4> QED
        BY <4>1, <4>2 DEF BytesIn
    <3> QED
      BY <1>2, <2>1, <2>2, <3>1 DEF IndInv, Counted, Limits
  <2> QED
    BY <2>3, <2>4, <2>5, <2>6, <2>7, <2>8 DEF IndInv
<1> QED
  BY <1>6, <1>7

(* Abort, an error of the stream, and a close that comes too early. *)
LEMMA FailSteps ==
  ASSUME IndInv, Fail(outcome), wire' = wire, nextSequence' = nextSequence,
         closed' \in BOOLEAN, undrained' = undrained,
         callbacks' \in [1..MaxSends -> {"none", "written", "failed"}],
         \A m \in 1..MaxSends :
           \/ callbacks'[m] = callbacks[m]
           \/ callbacks[m] = "none" /\ m <= Len(wire)
  PROVE  IndInv'
<1>1. Around
        /\ outcome \in [1..MaxSends -> {"unsent", "queued", "resolved",
             "rejected"}]
        /\ undrained' \in SUBSET (1..MaxSends)
  BY DEF Around, TypeOK, IndInv, Finished, ReceiptMeansWritten, Heard
<1>2. \A m \in 1..MaxSends :
        outcome[m] = "resolved" =>
          m <= Len(wire) /\ callbacks'[m] = "written" /\ m \notin undrained'
  BY DEF IndInv, ReceiptMeansWritten
<1>3. finishing = "resolved" =>
        \A m \in 1..nextSequence' - 1 : outcome[m] = "resolved"
  BY DEF IndInv, Finished, FinishMeansFlushed
<1> QED
  BY <1>1, <1>2, <1>3, FailIsGood

LEMMA FinishStep ==
  ASSUME IndInv, Finish
  PROVE  IndInv'
<1>1. /\ finishing = "none" /\ accepting' = FALSE
      /\ finishing' = IF terminalError THEN "rejected"
                      ELSE IF active = <<>> /\ pending = <<>> THEN "resolved"
                      ELSE "waiting"
      /\ UNCHANGED <<pending, active, nextSequence, queuedBytes, terminalError,
                     outcome, wire, callbacks, undrained, closed>>
  BY DEF Finish
<1>2. TypeOK'
  BY <1>1 DEF IndInv, TypeOK
<1>3. Live' /\ Failed' /\ Heard'
  BY <1>1 DEF IndInv, Live, Failed, Heard, InTurn, Promised
<1>4. ReceiptMeansWritten'
  BY <1>1 DEF IndInv, ReceiptMeansWritten
<1>5. Finished'
  <2>1. ASSUME finishing' = "resolved", NEW m \in 1..nextSequence - 1
        PROVE  outcome[m] = "resolved"
    <3>1. ~terminalError /\ active = <<>> /\ pending = <<>>
      BY <1>1, <2>1
    <3>2. /\ outcome = Promised(Len(wire) - Len(active), nextSequence)
          /\ InTurn(pending, nextSequence) /\ Len(wire) \in Nat
          /\ Len(active) = 0
          /\ nextSequence \in 1..MaxSends + 1
      BY <3>1, OpenWrites
    <3>3. Len(pending) = 0
      BY <3>1
    <3>4. Len(wire) - Len(active) = nextSequence - 1
      BY <3>2, <3>3 DEF InTurn
    <3>5. m \in 1..MaxSends
      BY <3>2, SentBefore
    <3> QED
      BY <3>2, <3>4, <3>5 DEF Promised
  <2> QED
    BY <1>1, <2>1 DEF Finished, FinishMeansFlushed
<1>6. Counted' /\ Limits'
  <2>1. Held' = Held
    BY <1>1 DEF Held
  <2>2. Bytes' = Bytes
    BY <2>1 DEF Bytes, BytesOf
  <2> QED
    BY <1>1, <2>2 DEF IndInv, Counted, Limits
<1> QED
  BY <1>2, <1>3, <1>4, <1>5, <1>6 DEF IndInv

(* The writer stands as it is while the stream is closed, drains, or calls
   back for a write that is settled. *)
LEMMA StillGood ==
  ASSUME IndInv, closed' \in BOOLEAN, UNCHANGED <<writer, nextSequence>>,
         callbacks' \in [1..MaxSends -> {"none", "written", "failed"}],
         \A m \in 1..MaxSends :
           \/ callbacks'[m] = callbacks[m]
           \/ callbacks[m] = "none" /\ m <= Len(wire) /\ Settled(m),
         undrained' = undrained \/ (active = <<>> /\ undrained' = {})
  PROVE  IndInv'
<1> USE DEF writer
<1>1. TypeOK' /\ Live' /\ Failed' /\ Finished'
  BY DEF IndInv, TypeOK, Live, Failed, Finished, FinishMeansFlushed, InTurn,
         Promised
<1>2. ReceiptMeansWritten'
  BY DEF IndInv, ReceiptMeansWritten
<1>3. Heard'
  <2>1. \A m \in 1..MaxSends : callbacks'[m] # "none" => m <= Len(wire)
    BY DEF IndInv, Heard
  <2>2. ASSUME ~terminalError, active # <<>>
        PROVE  callbacks'[Len(wire)] = callbacks[Len(wire)]
    <3>1. Len(wire) \in 1..MaxSends /\ active[1].write.sequence = Len(wire)
      BY <2>2, OpenWrites DEF Writes
    <3> QED
      BY <2>2, <3>1 DEF Settled
  <2> QED
    BY <2>1, <2>2 DEF IndInv, Heard
<1>4. Held' = Held
  BY DEF Held
<1>5. Bytes' = Bytes
  BY <1>4 DEF Bytes, BytesOf
<1> QED
  BY <1>1, <1>2, <1>3, <1>5 DEF IndInv, Counted, Limits

LEMMA CallbackStep ==
  ASSUME IndInv, NEW m \in 1..MaxSends, WriteCallback(m)
  PROVE  IndInv'
<1>1. /\ m <= Len(wire) /\ callbacks[m] = "none"
      /\ callbacks \in [1..MaxSends -> {"none", "written", "failed"}]
      /\ UNCHANGED <<nextSequence, closed>> /\ closed \in BOOLEAN
  BY DEF WriteCallback, IndInv, TypeOK
<1>2. CASE /\ callbacks' = [callbacks EXCEPT ![m] = "written"]
           /\ ~Settled(m)
           /\ CompleteIfReady([active[1] EXCEPT !.callbackFinished = TRUE],
                              undrained)
  <2> DEFINE a == [active[1] EXCEPT !.callbackFinished = TRUE]
  <2>1. active # <<>> /\ active[1].write.sequence = m /\ ~terminalError
    BY <1>2 DEF Settled, IndInv, Failed
  <2>2. active[1] \in Actives /\ m = Len(wire)
    BY <2>1, OpenWrites
  <2>3. /\ a \in Actives /\ a.write = active[1].write
        /\ a.callbackFinished = TRUE
        /\ a.drainFinished = active[1].drainFinished
    BY <2>2 DEF Actives
  <2>4. undrained = IF active[1].drainFinished THEN {} ELSE {Len(wire)}
    BY <2>1 DEF IndInv, Heard
  <2>5. /\ callbacks' \in [1..MaxSends -> {"none", "written", "failed"}]
        /\ callbacks'[Len(wire)] = "written"
        /\ \A k \in 1..MaxSends : k # Len(wire) => callbacks'[k] = callbacks[k]
    BY <1>1, <1>2, <2>2
  <2>6. CompleteIfReady(a, undrained)
    BY <1>2
  <2> HIDE DEF a
  <2> QED
    BY <1>1, <2>1, <2>3, <2>4, <2>5, <2>6, CompleteStep
<1>3. CASE /\ callbacks' = [callbacks EXCEPT ![m] = "failed"]
           /\ ~Settled(m) /\ undrained' = undrained
           /\ Fail(outcome) /\ wire' = wire
  BY <1>1, <1>3, FailSteps
<1>4. CASE /\ callbacks' \in {[callbacks EXCEPT ![m] = "written"],
                              [callbacks EXCEPT ![m] = "failed"]}
           /\ Settled(m) /\ UNCHANGED <<writer, undrained>>
  BY <1>1, <1>4, StillGood
<1> QED
  BY <1>2, <1>3, <1>4 DEF WriteCallback

LEMMA DrainStep ==
  ASSUME IndInv, Drain
  PROVE  IndInv'
<1>1. /\ undrained # {}
      /\ UNCHANGED <<nextSequence, callbacks, closed>> /\ closed \in BOOLEAN
      /\ callbacks \in [1..MaxSends -> {"none", "written", "failed"}]
  BY DEF Drain, IndInv, TypeOK
<1>2. CASE active = <<>>
  BY <1>1, <1>2, StillGood DEF Drain
<1>3. CASE active # <<>>
  <2> DEFINE a == [active[1] EXCEPT !.drainFinished = TRUE]
  <2>1. ~terminalError
    BY <1>3 DEF IndInv, Failed
  <2>2. active[1] \in Actives
    BY <1>3, <2>1, OpenWrites
  <2>3. /\ a \in Actives /\ a.write = active[1].write
        /\ a.drainFinished = TRUE
        /\ a.callbackFinished = active[1].callbackFinished
    BY <2>2 DEF Actives
  <2>4. active[1].callbackFinished <=> callbacks'[Len(wire)] = "written"
    BY <1>1, <1>3, <2>1 DEF IndInv, Heard
  <2>5. CompleteIfReady(a, {})
    BY <1>3 DEF Drain
  <2> HIDE DEF a
  <2> QED
    BY <1>1, <1>3, <2>3, <2>4, <2>5, CompleteStep
<1> QED
  BY <1>2, <1>3

LEMMA StepIsGood == IndInv /\ [Next]_vars => IndInv'
<1> SUFFICES ASSUME IndInv, [Next]_vars PROVE IndInv'
  OBVIOUS
<1>0. closed \in BOOLEAN
        /\ callbacks \in [1..MaxSends -> {"none", "written", "failed"}]
  BY DEF IndInv, TypeOK
<1>1. CASE Sends
  <2>1. PICK payload \in 1..MaxFrameBytes : Send(payload + 1)
    BY <1>1 DEF Sends
  <2>2. payload + 1 \in 2..MaxFrameBytes + 1
    BY Limited
  <2> QED
    BY <2>1, <2>2, SendStep
<1>2. CASE Finish
  BY <1>2, FinishStep
<1>3. CASE Abort
  BY <1>0, <1>3, FailSteps DEF Abort
<1>4. CASE \E m \in 1..MaxSends : WriteCallback(m)
  BY <1>4, CallbackStep
<1>8. CASE Drain
  BY <1>8, DrainStep
<1>5. CASE StreamError
  BY <1>0, <1>5, FailSteps DEF StreamError
<1>6. CASE StreamClose
  BY <1>0, <1>6, FailSteps, StillGood DEF StreamClose
<1>7. CASE Done \/ UNCHANGED vars
  BY <1>0, <1>7, StillGood DEF Done, vars
<1> QED
  BY <1>1, <1>2, <1>3, <1>4, <1>5, <1>6, <1>7, <1>8 DEF Next, Stream

LEMMA AlwaysGood == Spec => []IndInv
<1>1. Init => IndInv
  BY InitIsGood
<1>2. IndInv /\ [Next]_vars => IndInv'
  BY StepIsGood
<1> QED
  BY <1>1, <1>2, PTL DEF Spec

-----------------------------------------------------------------------------
(* The two limits of the writer are never exceeded, and #queuedBytes is the
   size of what is queued and in the stream, so neither a completion nor a
   failure leaks capacity. *)
THEOREM AccountsStayExact == Spec => []AccountingIsExact
<1>1. IndInv => AccountingIsExact
  BY DEF IndInv, AccountingIsExact, Counted, Limits, Bytes
<1> QED
  BY <1>1, AlwaysGood, PTL

(* Messages reach the stream in the order of send(), each once; a receipt is
   given for a message the stream was given, and a finish() that resolves has
   left no accepted send() without its receipt. *)
THEOREM ReceiptsAreTrue == Spec => []ReceiptsAreEvidence
<1>1. IndInv => ReceiptsAreEvidence
  BY DEF IndInv, Finished, ReceiptsAreEvidence
<1> QED
  BY <1>1, AlwaysGood, PTL

-----------------------------------------------------------------------------
(* The writer implements ordered delivery. *)

LEMMA SendSubmits ==
  ASSUME IndInv, NEW byteLength \in 2..MaxFrameBytes + 1, Send(byteLength)
  PROVE  Ordered!Next
<1> DEFINE m == nextSequence
           promises == [outcome EXCEPT ![m] = "queued"]
<1>1. ~terminalError /\ m <= MaxSends
  BY DEF Send, IndInv, Failed
<1>2. /\ terminalError = FALSE /\ m \in 1..MaxSends /\ outcome[m] = "unsent"
      /\ outcome \in [1..MaxSends -> {"unsent", "queued", "resolved",
           "rejected"}]
      /\ \A k \in 1..m - 1 : outcome[k] # "unsent"
  <2>1. m \in 1..MaxSends
    BY <1>1, Standing, Limited
  <2>2. ASSUME NEW k \in 1..m - 1
        PROVE  outcome[k] # "unsent"
    <3>1. k \in 1..MaxSends /\ ~(k >= m)
      BY <2>1, Limited
    <3> QED
      BY <1>1, <3>1, Standing
  <2>3. m >= m
    BY <2>1
  <2> QED
    BY <1>1, <2>1, <2>2, <2>3, Standing
<1>3. \/ outcome' = promises /\ terminalError' = terminalError
      \/ outcome' = RejectOpen(promises) /\ terminalError' = TRUE
  <2>1. ASSUME NEW write, Enqueue(write) = <<>> PROVE FALSE
    <3>1. pending \in Seq(Writes)
      BY DEF IndInv, TypeOK
    <3> QED
      BY <2>1, <3>1 DEF Enqueue
  <2> QED
    BY <2>1 DEF Send, Pump, Fail
<1>4. CASE outcome' = promises /\ terminalError' = terminalError
  <2>1. Ordered!Submit(m)
    BY <1>2, <1>4 DEF Ordered!Submit
  <2> QED
    BY <1>2, <2>1 DEF Ordered!Next
<1>5. CASE outcome' = RejectOpen(promises) /\ terminalError' = TRUE
  <2>1. RejectOpen(promises) =
          [k \in 1..MaxSends |->
             IF k \in Ordered!Open \cup {m} THEN "rejected" ELSE outcome[k]]
    BY <1>2 DEF RejectOpen, Ordered!Open
  <2>2. Ordered!SubmitAndFail(m)
    BY <1>2, <1>5, <2>1 DEF Ordered!SubmitAndFail
  <2> QED
    BY <1>2, <2>2 DEF Ordered!Next
<1> QED
  BY <1>3, <1>4, <1>5

LEMMA CompletionAccepts ==
  ASSUME IndInv, active # <<>>, NEW a \in Actives, a.write = active[1].write,
         NEW waiting, CompleteIfReady(a, waiting)
  PROVE  Ordered!Next \/ UNCHANGED <<outcome, terminalError>>
<1> DEFINE m == Len(wire)
           promises == [outcome EXCEPT ![m] = "resolved"]
<1>1. ~terminalError
  BY DEF IndInv, Failed
<1>2. a.write.sequence = m /\ m \in 1..MaxSends
  BY <1>1, OpenWrites DEF Writes
<1>3. /\ terminalError = FALSE /\ outcome[m] = "queued"
      /\ outcome \in [1..MaxSends -> {"unsent", "queued", "resolved",
           "rejected"}]
      /\ \A k \in 1..m - 1 : outcome[k] = "resolved"
  <2>1. ASSUME NEW k \in 1..m - 1
        PROVE  outcome[k] = "resolved"
    <3>1. k \in 1..MaxSends /\ k < m
      BY <1>2, Limited
    <3> QED
      BY <1>1, <3>1, Standing
  <2> QED
    BY <1>1, <1>2, <2>1, Standing
<1>4. \/ UNCHANGED <<outcome, terminalError>>
      \/ outcome' = promises /\ terminalError' = terminalError
      \/ outcome' = RejectOpen(promises) /\ terminalError' = TRUE
  BY <1>2 DEF CompleteIfReady, Pump, Fail
<1>5. CASE outcome' = promises /\ terminalError' = terminalError
  <2>1. Ordered!Accept(m)
    BY <1>3, <1>5 DEF Ordered!Accept
  <2> QED
    BY <1>2, <2>1 DEF Ordered!Next
<1>6. CASE outcome' = RejectOpen(promises) /\ terminalError' = TRUE
  <2>1. RejectOpen(promises) =
          [k \in 1..MaxSends |->
             IF k = m THEN "resolved"
             ELSE IF k \in Ordered!Open THEN "rejected" ELSE outcome[k]]
    BY <1>2, <1>3 DEF RejectOpen, Ordered!Open
  <2>2. Ordered!AcceptAndFail(m)
    BY <1>3, <1>6, <2>1 DEF Ordered!AcceptAndFail
  <2> QED
    BY <1>2, <2>2 DEF Ordered!Next
<1> QED
  BY <1>4, <1>5, <1>6

LEMMA FailureFails ==
  ASSUME IndInv, ~terminalError, Fail(outcome)
  PROVE  Ordered!Next
<1>1. RejectOpen(outcome) =
        [k \in 1..MaxSends |-> IF k \in Ordered!Open THEN "rejected"
          ELSE outcome[k]]
  BY DEF RejectOpen, Ordered!Open
<1>2. Ordered!Fail
  BY <1>1 DEF Fail, Ordered!Fail
<1> QED
  BY <1>2 DEF Ordered!Next

LEMMA StepDelivers ==
  IndInv /\ [Next]_vars => [Ordered!Next]_<<outcome, terminalError>>
<1> SUFFICES ASSUME IndInv, [Next]_vars
             PROVE  Ordered!Next \/ UNCHANGED <<outcome, terminalError>>
  OBVIOUS
<1>1. CASE Sends
  <2>1. PICK payload \in 1..MaxFrameBytes : Send(payload + 1)
    BY <1>1 DEF Sends
  <2>2. payload + 1 \in 2..MaxFrameBytes + 1
    BY Limited
  <2> QED
    BY <2>1, <2>2, SendSubmits
<1>2. CASE Finish
  BY <1>2 DEF Finish
<1>3. CASE Abort \/ StreamError
  BY <1>3, FailureFails DEF Abort, StreamError
<1>4. CASE \E m \in 1..MaxSends : WriteCallback(m)
  <2>1. PICK m \in 1..MaxSends : WriteCallback(m)
    BY <1>4
  <2>2. CASE Settled(m)
    BY <2>1, <2>2 DEF WriteCallback, writer
  <2>3. CASE ~Settled(m)
    <3> DEFINE a == [active[1] EXCEPT !.callbackFinished = TRUE]
    <3>1. active # <<>> /\ ~terminalError
      BY <2>3 DEF Settled, IndInv, Failed
    <3>2. a \in Actives /\ a.write = active[1].write
      BY <3>1, OpenWrites DEF Actives
    <3>3. CompleteIfReady(a, undrained) \/ Fail(outcome)
      BY <2>1, <2>3 DEF WriteCallback
    <3> HIDE DEF a
    <3> QED
      BY <3>1, <3>2, <3>3, CompletionAccepts, FailureFails
  <2> QED
    BY <2>2, <2>3
<1>5. CASE Drain
  <2>1. CASE active = <<>>
    BY <1>5, <2>1 DEF Drain, writer
  <2>2. CASE active # <<>>
    <3> DEFINE a == [active[1] EXCEPT !.drainFinished = TRUE]
    <3>1. CompleteIfReady(a, {})
      BY <1>5, <2>2 DEF Drain
    <3>2. a \in Actives /\ a.write = active[1].write
      BY <2>2, OpenWrites DEF IndInv, Failed, Actives
    <3> HIDE DEF a
    <3> QED
      BY <2>2, <3>1, <3>2, CompletionAccepts
  <2> QED
    BY <2>1, <2>2
<1>6. CASE StreamClose
  BY <1>6, FailureFails DEF StreamClose, writer
<1>7. CASE Done \/ UNCHANGED vars
  BY <1>7 DEF Done, vars, writer
<1> QED
  BY <1>1, <1>2, <1>3, <1>4, <1>5, <1>6, <1>7 DEF Next, Stream

(* Every behaviour of the writer is one of ordered delivery: messages are
   submitted and accepted one at a time in the order of send(), and a failure
   rejects all that are open, also when the send() or the completion it meets
   hands the next message to the stream. *)
THEOREM WriterDelivers == Spec => Delivery
<1>1. Init => Ordered!Init
  BY DEF Init, Ordered!Init
<1>2. IndInv /\ [Next]_vars => [Ordered!Next]_<<outcome, terminalError>>
  BY StepDelivers
<1> QED
  BY <1>1, <1>2, AlwaysGood, PTL DEF Spec, Delivery, Ordered!Spec

=============================================================================
