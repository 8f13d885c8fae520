--------------------------- MODULE InboundProofs ---------------------------
(***************************************************************************)
(* Proofs about what comes in from the target, for every value of the      *)
(* limits and of the bounds: the receive queue, the decoder of its output  *)
(* and the catalogue of its tools.                                         *)
(*                                                                         *)
(* The invariants of the queue add to its properties that a failed queue   *)
(* is empty, that what is delivered and what is queued make up an initial  *)
(* segment of the messages (InitialSegment), and in which order the calls  *)
(* that wait stand (Turns).  Those of the decoder and of the catalogue     *)
(* (DecoderInv, CatalogInv) are inductive with the types and little else;  *)
(* there the work is in the loops: one over the bytes of a segment, one    *)
(* over the tools of a page, and FlattenSeq's.  Their effect is proved by  *)
(* induction, as the fact that a set of turns holds every one of them.     *)
(***************************************************************************)
EXTENDS MessageQueue, NdjsonDecoder, ToolCatalog, FiniteSetTheorems,
        SequenceTheorems, WellFoundedInduction, TLAPS

-----------------------------------------------------------------------------
(* Induction, and the loops of the code. *)
(* A set of numbers that is not empty has a least one, *)
LEMMA LeastExists ==
  ASSUME NEW T, T \subseteq Nat, T # {}
  PROVE  \E x \in T : \A y \in T : x <= y
<1> DEFINE R == OpToRel(<, Nat)
<1>1. IsWellFoundedOn(R, Nat)
  BY NatLessThanWellFounded
<1>2. \A x, y \in Nat : y < x => <<y, x>> \in R
  BY DEF OpToRel
<1> HIDE DEF R
<1>3. PICK x \in T : \A y \in T : ~(<<y, x>> \in R)
  BY <1>1, WFMin
<1>4. \A y \in T : ~(y < x)
  BY <1>2, <1>3
<1>5. \A y \in T : x <= y
  BY <1>4
<1> QED
  BY <1>5

(* so that a set which holds 0 and the successors of its members holds all, *)
LEMMA SetInduction ==
  ASSUME NEW S, 0 \in S, \A n \in Nat : n \in S => n + 1 \in S
  PROVE  \A n \in Nat : n \in S
<1> DEFINE T == Nat \ S
<1> SUFFICES ASSUME T # {} PROVE FALSE
  OBVIOUS
<1>1. PICK x \in T : \A y \in T : x <= y
  BY LeastExists
<1>2. x - 1 \in Nat /\ ~(x <= x - 1) /\ (x - 1) + 1 = x
  BY <1>1
<1> QED
  BY <1>1, <1>2

(* and Max is the largest one of a set that is bounded. *)
LEMMA LargestExists ==
  ASSUME NEW T, T \subseteq Nat, T # {}, NEW bound \in Nat,
         \A x \in T : x <= bound
  PROVE  Max(T) \in T /\ \A y \in T : y <= Max(T)
<1> DEFINE Above == {b \in Nat : \A x \in T : x <= b}
<1>1. PICK b \in Above : \A c \in Above : b <= c
  BY LeastExists
<1>2. b \in T
  <2> SUFFICES ASSUME b \notin T PROVE FALSE
    OBVIOUS
  <2>1. \A x \in T : x < b
    BY <1>1
  <2>2. b - 1 \in Nat
    <3>1. PICK x \in T : TRUE
      OBVIOUS
    <3>2. x < b /\ x \in Nat /\ b \in Nat
      BY <2>1
    <3> QED
      BY <3>2
  <2>3. \A x \in T : x <= b - 1
    BY <2>1
  <2>4. b - 1 \in Above
    BY <2>2, <2>3
  <2> QED
    BY <1>1, <2>4
<1>3. \A y \in T : b >= y
  BY <1>1
<1>4. \E x \in T : \A y \in T : x >= y
  BY <1>2, <1>3
<1>5. Max(T) \in T /\ \A y \in T : Max(T) >= y
  BY <1>4, Zenon DEF Max
<1> QED
  BY <1>5

(* f follows a loop of n turns, each of which is a step of a function. *)
Follows(f, T, start, n, step) ==
  /\ f \in [0..n -> T]
  /\ f[0] = start
  /\ \A i \in 1..n : f[i] = step[<<f[i - 1], i>>]

(* Such a function exists, whatever the step. *)
LEMMA LoopExists ==
  ASSUME NEW T, NEW start \in T, NEW n \in Nat, NEW step \in [T \X Nat -> T]
  PROVE  \E f : Follows(f, T, start, n, step)
<1> DEFINE S == {m \in Nat : \E f : Follows(f, T, start, m, step)}
<1>1. 0 \in S
  <2> DEFINE f == [i \in 0..0 |-> start]
  <2>1. Follows(f, T, start, 0, step)
    BY DEF Follows
  <2> QED
    BY <2>1
<1>2. ASSUME NEW m \in Nat, m \in S
      PROVE  m + 1 \in S
  <2>1. PICK f : Follows(f, T, start, m, step)
    BY <1>2
  <2> DEFINE last == step[<<f[m], m + 1>>]
             g == [i \in 0..m + 1 |-> IF i = m + 1 THEN last ELSE f[i]]
  <2>2. f[m] \in T /\ last \in T
    BY <2>1 DEF Follows
  <2> HIDE DEF last
  <2>3. g \in [0..m + 1 -> T] /\ g[0] = start
    BY <2>1, <2>2 DEF Follows
  <2>4. ASSUME NEW i \in 1..m + 1
        PROVE  g[i] = step[<<g[i - 1], i>>]
    <3>1. CASE i \in 1..m
      <4>1. g[i] = f[i] /\ g[i - 1] = f[i - 1]
        BY <3>1
      <4> QED
        BY <2>1, <3>1, <4>1 DEF Follows
    <3>2. CASE i = m + 1
      <4>1. g[i] = last /\ g[i - 1] = f[m]
        BY <3>2
      <4> QED
        BY <3>2, <4>1 DEF last
    <3> QED
      BY <3>1, <3>2
  <2> HIDE DEF g
  <2>5. Follows(g, T, start, m + 1, step)
    BY <2>3, <2>4 DEF Follows
  <2> QED
    BY <2>5
<1> HIDE DEF S
<1>3. n \in S
  BY <1>1, <1>2, SetInduction
<1> QED
  BY <1>3 DEF S

-----------------------------------------------------------------------------
(* FlattenSeq, one sequence after the other. *)
LEMMA Flattening ==
  ASSUME NEW S, NEW seqs \in Seq(Seq(S)), seqs # <<>>
  PROVE  \E f \in [1..Len(seqs) -> Seq(S)] :
           /\ f[1] = seqs[1]
           /\ \A i \in 2..Len(seqs) : f[i] = f[i - 1] \o seqs[i]
           /\ FlattenSeq(seqs) = f[Len(seqs)]
<1> DEFINE n == Len(seqs)
           T == Seq(S)
           step == [p \in T \X Nat |-> IF p[2] \in 1..n THEN p[1] \o seqs[p[2]]
                                                        ELSE <<>>]
           Recursive(f) == f = [i \in 1..n |-> IF i = 1 THEN seqs[i]
                                               ELSE f[i - 1] \o seqs[i]]
           flatten == CHOOSE f : Recursive(f)
<1>1. n \in Nat /\ n # 0 /\ \A i \in 1..n : seqs[i] \in T
  OBVIOUS
<1>2. step \in [T \X Nat -> T]
  BY <1>1
<1>3. <<>> \in T
  OBVIOUS
<1>4. \A t \in T, i \in 1..n : step[<<t, i>>] = t \o seqs[i]
  <2> SUFFICES ASSUME NEW t \in T, NEW i \in 1..n
               PROVE  step[<<t, i>>] = t \o seqs[i]
    OBVIOUS
  <2>1. <<t, i>> \in T \X Nat
    BY <1>1
  <2> HIDE DEF T
  <2> QED
    BY <2>1
<1>5. FlattenSeq(seqs) = flatten[n]
  BY <1>1 DEF FlattenSeq
<1> DEFINE start == <<>>
<1>0. start \in T
  BY <1>3
<1> HIDE DEF n, T, step, start
<1>loop. PICK f : Follows(f, T, start, n, step)
  BY <1>0, <1>1, <1>2, LoopExists, Zenon
<1>6. /\ f \in [0..n -> T] /\ f[0] = start
      /\ \A i \in 1..n : f[i] = step[<<f[i - 1], i>>]
  BY <1>loop DEF Follows
<1>7. \A i \in 1..n : f[i] = f[i - 1] \o seqs[i]
  <2> SUFFICES ASSUME NEW i \in 1..n PROVE f[i] = f[i - 1] \o seqs[i]
    OBVIOUS
  <2>1. f[i - 1] \in T
    BY <1>1, <1>6
  <2> QED
    BY <1>4, <1>6, <2>1
<1>8. f[1] = seqs[1]
  <2>1. 1 \in 1..n /\ 1 - 1 = 0
    BY <1>1
  <2>2. f[1] = <<>> \o seqs[1] /\ seqs[1] \in T
    BY <1>1, <1>6, <1>7, <2>1 DEF start
  <2> QED
    BY <2>1, <2>2 DEF T
<1> DEFINE g == [i \in 1..n |-> f[i]]
<1>9. g \in [1..n -> T]
  BY <1>1, <1>6
<1>10. \A i \in 1..n : g[i] = IF i = 1 THEN seqs[i] ELSE g[i - 1] \o seqs[i]
  <2> SUFFICES ASSUME NEW i \in 1..n
               PROVE  g[i] = IF i = 1 THEN seqs[i] ELSE g[i - 1] \o seqs[i]
    OBVIOUS
  <2>1. g[i] = f[i]
    OBVIOUS
  <2>2. CASE i = 1
    BY <1>8, <2>1, <2>2
  <2>3. CASE i # 1
    <3>1. i - 1 \in 1..n
      BY <1>1, <2>3
    <3> QED
      BY <1>7, <2>1, <2>3, <3>1
  <2> QED
    BY <2>2, <2>3
<1>11. Recursive(g)
  <2>1. g = [i \in 1..n |-> g[i]]
    OBVIOUS
  <2> HIDE DEF g
  <2> QED
    BY <1>10, <2>1
<1> HIDE DEF g
<1>12. Recursive(flatten)
  <2> HIDE DEF Recursive
  <2> QED
    BY <1>11
<1> HIDE DEF flatten
<1>13. \A i \in 1..n : flatten[i] = IF i = 1 THEN seqs[i]
                                   ELSE flatten[i - 1] \o seqs[i]
  BY <1>12
<1>14. \A i \in Nat : i \in 1..n => flatten[i] = g[i]
  <2> DEFINE A == {i \in Nat : i \in 1..n => flatten[i] = g[i]}
  <2>1. 0 \in A
    OBVIOUS
  <2>2. ASSUME NEW i \in Nat, i \in A PROVE i + 1 \in A
    <3> SUFFICES ASSUME i + 1 \in 1..n PROVE flatten[i + 1] = g[i + 1]
      OBVIOUS
    <3>1. CASE i = 0
      BY <1>10, <1>13, <3>1
    <3>2. CASE i # 0
      <4>1. i \in 1..n /\ (i + 1) - 1 = i /\ i + 1 # 1
        BY <1>1, <3>2
      <4> QED
        BY <1>10, <1>13, <2>2, <4>1
    <3> QED
      BY <3>1, <3>2
  <2> HIDE DEF A
  <2>3. \A i \in Nat : i \in A
    BY <2>1, <2>2, SetInduction
  <2> QED
    BY <2>3 DEF A
<1> QED
  <2>1. 1 \in 1..n /\ n \in 1..n
    BY <1>1
  <2>2. \A i \in 2..n : i \in 1..n /\ i # 1
    BY <1>1
  <2>3. g[1] = seqs[1] /\ \A i \in 2..n : g[i] = g[i - 1] \o seqs[i]
    BY <1>10, <2>1, <2>2
  <2>4. FlattenSeq(seqs) = g[n]
    BY <1>5, <1>14, <2>1, <1>1
  <2> QED
    BY <1>9, <2>3, <2>4 DEF n, T

(* What FlattenSeq returns has the type of its parts, *)
LEMMA FlattenIsSeq ==
  ASSUME NEW S, NEW seqs \in Seq(Seq(S))
  PROVE  FlattenSeq(seqs) \in Seq(S)
<1>1. CASE seqs = <<>>
  BY <1>1 DEF FlattenSeq
<1>2. CASE seqs # <<>>
  <2>1. PICK f \in [1..Len(seqs) -> Seq(S)] : FlattenSeq(seqs) = f[Len(seqs)]
    BY <1>2, Flattening
  <2> QED
    BY <1>2, <2>1
<1> QED
  BY <1>1, <1>2

(* is empty when there are none, *)
LEMMA FlattenNone == FlattenSeq(<<>>) = <<>>
BY DEF FlattenSeq

(* and one part more is appended to it. *)
LEMMA FlattenAppend ==
  ASSUME NEW S, NEW seqs \in Seq(Seq(S)), NEW last \in Seq(S)
  PROVE  FlattenSeq(Append(seqs, last)) = FlattenSeq(seqs) \o last
<1> DEFINE n == Len(seqs)
           more == Append(seqs, last)
<1>1. /\ n \in Nat /\ more \in Seq(Seq(S)) /\ Len(more) = n + 1 /\ more # <<>>
      /\ more[n + 1] = last /\ \A i \in 1..n : more[i] = seqs[i]
  BY AppendProperties
<1> HIDE DEF more
<1>2. PICK g \in [1..Len(more) -> Seq(S)] :
        /\ g[1] = more[1]
        /\ \A i \in 2..Len(more) : g[i] = g[i - 1] \o more[i]
        /\ FlattenSeq(more) = g[Len(more)]
  BY <1>1, Flattening
<1>3. CASE seqs = <<>>
  <2>1. n = 0 /\ FlattenSeq(more) = last /\ FlattenSeq(seqs) = <<>>
    BY <1>1, <1>2, <1>3, FlattenNone
  <2> QED
    BY <2>1 DEF more
<1>4. CASE seqs # <<>>
  <2>1. PICK f \in [1..n -> Seq(S)] :
          /\ f[1] = seqs[1]
          /\ \A i \in 2..n : f[i] = f[i - 1] \o seqs[i]
          /\ FlattenSeq(seqs) = f[n]
    BY <1>4, Flattening
  <2>2. n # 0
    BY <1>4
  <2> HIDE DEF n
  <2> DEFINE A == {i \in Nat : i \in 1..n => g[i] = f[i]}
  <2>3. 0 \in A
    OBVIOUS
  <2>4. ASSUME NEW i \in Nat, i \in A PROVE i + 1 \in A
    <3> SUFFICES ASSUME i + 1 \in 1..n PROVE g[i + 1] = f[i + 1]
      OBVIOUS
    <3>1. CASE i = 0
      BY <1>1, <1>2, <2>1, <3>1
    <3>2. CASE i # 0
      <4>1. i \in 1..n /\ (i + 1) - 1 = i /\ i + 1 \in 2..n
              /\ i + 1 \in 2..Len(more)
        BY <1>1, <3>2
      <4> QED
        BY <1>1, <1>2, <2>1, <2>4, <4>1
    <3> QED
      BY <3>1, <3>2
  <2> HIDE DEF A
  <2>5. \A i \in Nat : i \in A
    BY <2>3, <2>4, SetInduction
  <2>6. g[n] = f[n]
    BY <1>1, <2>2, <2>5 DEF A
  <2>7. n + 1 \in 2..Len(more) /\ (n + 1) - 1 = n
    BY <1>1, <2>2
  <2>8. g[n + 1] = g[n] \o last
    BY <1>1, <1>2, <2>7
  <2> QED
    BY <1>1, <1>2, <2>1, <2>6, <2>8 DEF more
<1> QED
  BY <1>3, <1>4

(* A loop over a list takes one element more in each turn. *)
LEMMA SubSeqGrows ==
  ASSUME NEW S, NEW list \in Seq(S), NEW first \in Seq(S),
         NEW i \in Nat, i + 1 \in 1..Len(list)
  PROVE  /\ first \o SubSeq(list, 1, i) \in Seq(S)
         /\ first \o SubSeq(list, 1, i + 1) =
              Append(first \o SubSeq(list, 1, i), list[i + 1])
<1> DEFINE part == SubSeq(list, 1, i)
           item == list[i + 1]
<1>1. item \in S /\ \A j \in 1..i : list[j] \in S
  OBVIOUS
<1>2. part \in Seq(S)
  BY <1>1, SubSeqProperties
<1>3. SubSeq(list, 1, i + 1) = SubSeq(list, 1, (i + 1) - 1) \o <<list[i + 1]>>
  BY SubSeqRecursiveSecond
<1>4. SubSeq(list, 1, i + 1) = part \o <<item>>
  BY <1>3
<1> HIDE DEF part, item
<1>5. first \o part \in Seq(S) /\ <<item>> \in Seq(S)
  BY <1>1, <1>2
<1>6. first \o (part \o <<item>>) = (first \o part) \o <<item>>
  BY <1>2, <1>5, ConcatAssociative
<1>7. (first \o part) \o <<item>> = Append(first \o part, item)
  BY <1>1, <1>5, AppendIsConcat
<1> QED
  BY <1>4, <1>5, <1>6, <1>7 DEF part, item

-----------------------------------------------------------------------------
(* The receive queue *)

(* TypeOK without the limits and without the sign of queuedBytes, which    *)
(* rests on what is queued (Counted, below).                               *)
Shape ==
  /\ items \in Seq(Items)
  /\ waiters \in Seq(1..MaxReceives)
  /\ queuedBytes \in Int
  /\ terminalError \in {"none", "ended", "failed"}
  /\ pushes \in 0..MaxPushes
  /\ receives \in 0..MaxReceives
  /\ delivered \in Seq(Deliveries)
  /\ rejected \subseteq 1..MaxReceives

FailedIsEmpty == terminalError = "failed" => items = <<>>

LEMMA BoundsAreNat ==
  /\ MaxPushes \in Nat /\ MaxReceives \in Nat
  /\ MaxMessageBytes \in Nat /\ MaxPendingReceives \in Nat
BY QueueAssumption

LEMMA DeliverType ==
  ASSUME NEW receiver \in 1..MaxReceives, NEW message \in 1..MaxPushes,
         delivered \in Seq(Deliveries), Deliver(receiver, message)
  PROVE  delivered' \in Seq(Deliveries)
<1>1. [receiver |-> receiver, message |-> message] \in Deliveries
  BY DEF Deliveries
<1> QED
  BY <1>1 DEF Deliver

LEMMA ShapeInit == Init => Shape
BY BoundsAreNat DEF Init, Shape

LEMMA ShapeNext == Shape /\ [Next]_vars => Shape'
<1> SUFFICES ASSUME Shape, [Next]_vars PROVE Shape'
  OBVIOUS
<1> USE BoundsAreNat
<1>1. CASE PushToWaiter
  <2>1. waiters \in Seq(1..MaxReceives) /\ waiters # <<>>
    BY <1>1 DEF Shape, PushToWaiter
  <2>2. Head(waiters) \in 1..MaxReceives
          /\ Tail(waiters) \in Seq(1..MaxReceives)
    BY <2>1
  <2>3. pushes + 1 \in 1..MaxPushes
    BY <1>1 DEF Shape, PushToWaiter
  <2>4. delivered' \in Seq(Deliveries)
    BY <1>1, <2>2, <2>3, DeliverType DEF Shape, PushToWaiter
  <2> QED
    BY <1>1, <2>2, <2>3, <2>4 DEF Shape, PushToWaiter
<1>2. ASSUME NEW byteLength \in 1..MaxMessageBytes, PushToQueue(byteLength)
      PROVE  Shape'
  <2>1. [byteLength |-> byteLength, message |-> pushes + 1] \in Items
    BY <1>2 DEF Shape, PushToQueue, Items
  <2>2. items' \in Seq(Items)
    BY <1>2, <2>1 DEF Shape, PushToQueue
  <2>3. pushes' \in 0..MaxPushes /\ queuedBytes' \in Int
    BY <1>2 DEF Shape, PushToQueue
  <2> QED
    BY <1>2, <2>2, <2>3 DEF Shape, PushToQueue
<1>3. ASSUME NEW error \in {"ended", "failed"}, NEW discard \in BOOLEAN,
             SetTerminal(error, discard),
             UNCHANGED <<pushes, receives, delivered>>
      PROVE  Shape'
  <2>1. \A i \in DOMAIN waiters : waiters[i] \in 1..MaxReceives
    BY DEF Shape
  <2>2. {waiters[i] : i \in DOMAIN waiters} \subseteq 1..MaxReceives
    BY <2>1
  <2>3. rejected' \subseteq 1..MaxReceives
    BY <1>3, <2>2 DEF Shape, SetTerminal
  <2>4. items' \in Seq(Items)
    BY <1>3 DEF Shape, SetTerminal
  <2>5. waiters' \in Seq(1..MaxReceives)
    <3>1. waiters' = <<>> \/ waiters' = waiters
      BY <1>3 DEF SetTerminal
    <3>2. <<>> \in Seq(1..MaxReceives) /\ waiters \in Seq(1..MaxReceives)
      BY DEF Shape
    <3> QED
      BY <3>1, <3>2
  <2> QED
    BY <1>3, <2>3, <2>4, <2>5 DEF Shape, SetTerminal
<1>4. CASE ReceiveItem
  <2>1. items \in Seq(Items) /\ items # <<>>
    BY <1>4 DEF Shape, ReceiveItem
  <2>2. Head(items) \in Items /\ Tail(items) \in Seq(Items)
    BY <2>1
  <2>3. Head(items).message \in 1..MaxPushes /\ Head(items).byteLength \in Int
    BY <2>2 DEF Items
  <2>4. receives + 1 \in 1..MaxReceives
    BY <1>4 DEF Shape, ReceiveItem
  <2>5. delivered' \in Seq(Deliveries)
    BY <1>4, <2>3, <2>4, DeliverType DEF Shape, ReceiveItem
  <2> QED
    BY <1>4, <2>2, <2>3, <2>4, <2>5 DEF Shape, ReceiveItem
<1>5. CASE ReceiveRefused
  BY <1>5 DEF Shape, ReceiveRefused
<1>6. CASE ReceiveWaits
  <2>1. receives + 1 \in 1..MaxReceives
    BY <1>6 DEF Shape, ReceiveWaits
  <2>2. waiters' \in Seq(1..MaxReceives)
    BY <1>6, <2>1 DEF Shape, ReceiveWaits
  <2> QED
    BY <1>6, <2>1, <2>2 DEF Shape, ReceiveWaits
<1>7. CASE UNCHANGED vars
  BY <1>7 DEF Shape, vars
<1> QED
  BY <1>1, <1>2, <1>3, <1>4, <1>5, <1>6, <1>7
  DEF Next, Push, Receive, End, FailQueue, PushOverflows

-----------------------------------------------------------------------------
Waiting == Shape /\ FailedIsEmpty /\ NoStrandedReceiver

LEMMA WaitingNext == Waiting /\ [Next]_vars => Waiting'
<1> SUFFICES ASSUME Waiting, [Next]_vars PROVE Waiting'
  OBVIOUS
<1> USE DEF Waiting, FailedIsEmpty, NoStrandedReceiver
<1>0. Shape'
  BY ShapeNext
<1>1. CASE PushToWaiter
  BY <1>0, <1>1 DEF Shape, PushToWaiter
<1>2. ASSUME NEW byteLength \in 1..MaxMessageBytes, PushToQueue(byteLength)
      PROVE  Waiting'
  BY <1>0, <1>2 DEF PushToQueue
<1>3. ASSUME NEW byteLength \in 1..MaxMessageBytes, PushOverflows(byteLength)
      PROVE  Waiting'
  BY <1>0, <1>3 DEF PushOverflows, SetTerminal
<1>4. CASE End
  BY <1>0, <1>4 DEF End, SetTerminal
<1>5. CASE FailQueue
  BY <1>0, <1>5 DEF FailQueue, SetTerminal
<1>6. CASE ReceiveItem
  BY <1>0, <1>6 DEF Shape, ReceiveItem
<1>7. CASE ReceiveRefused
  BY <1>0, <1>7 DEF ReceiveRefused
<1>8. CASE ReceiveWaits
  BY <1>0, <1>8 DEF ReceiveWaits
<1>9. CASE UNCHANGED vars
  BY <1>0, <1>9 DEF vars
<1> QED
  BY <1>1, <1>2, <1>3, <1>4, <1>5, <1>6, <1>7, <1>8, <1>9
  DEF Next, Push, Receive

LEMMA AlwaysWaiting == Spec => []Waiting
<1>1. Init => Waiting
  BY ShapeInit DEF Init, Waiting, FailedIsEmpty, NoStrandedReceiver
<1> QED
  BY <1>1, WaitingNext, PTL DEF Spec

(* No call of receive() waits while a message is queued or after the end,  *)
(* although end() rejects the waiting calls only when nothing is queued.   *)
THEOREM NobodyIsStranded == Spec => []NoStrandedReceiver
<1>1. Waiting => NoStrandedReceiver
  BY DEF Waiting
<1> QED
  BY <1>1, AlwaysWaiting, PTL

(* A call of receive() is rejected only when nothing is left to receive. *)
THEOREM RejectionsAreLast == Spec => RejectsOnlyWhenDrained
<1>1. Waiting /\ [Next]_vars => [rejected' # rejected => items' = <<>>]_vars
  <2> SUFFICES ASSUME Waiting, Next, rejected' # rejected
               PROVE  items' = <<>>
    BY DEF vars
  <2>1. CASE PushToWaiter \/ ReceiveItem \/ ReceiveWaits
    BY <2>1 DEF PushToWaiter, ReceiveItem, ReceiveWaits
  <2>2. CASE ReceiveRefused
    BY <2>2 DEF ReceiveRefused
  <2>3. ASSUME NEW error, NEW discard, SetTerminal(error, discard)
        PROVE  items' = <<>>
    BY <2>3 DEF SetTerminal
  <2>4. ASSUME NEW byteLength, PushToQueue(byteLength)
        PROVE  items' = <<>>
    BY <2>4 DEF PushToQueue
  <2> QED
    BY <2>1, <2>2, <2>3, <2>4
    DEF Next, Push, Receive, End, FailQueue, PushOverflows
<1> QED
  BY <1>1, AlwaysWaiting, PTL DEF Spec, RejectsOnlyWhenDrained

-----------------------------------------------------------------------------
LEMMA LimitsNext == Shape /\ LimitsHold /\ [Next]_vars => LimitsHold'
<1> SUFFICES ASSUME Shape, LimitsHold, [Next]_vars PROVE LimitsHold'
  OBVIOUS
<1>1. /\ items \in Seq(Items) /\ waiters \in Seq(1..MaxReceives)
      /\ queuedBytes \in Int
      /\ MaxBytes \in Nat /\ MaxMessages \in Nat
      /\ MaxPendingReceives \in Nat
  BY QueueAssumption DEF Shape
<1>2. CASE PushToWaiter
  <2>1. Len(Tail(waiters)) <= Len(waiters)
    BY <1>1, <1>2 DEF PushToWaiter
  <2> QED
    BY <1>1, <1>2, <2>1 DEF PushToWaiter, LimitsHold
<1>3. ASSUME NEW byteLength \in 1..MaxMessageBytes, PushToQueue(byteLength)
      PROVE  LimitsHold'
  BY <1>1, <1>3 DEF PushToQueue, Fits, LimitsHold
<1>4. ASSUME NEW error, NEW discard \in BOOLEAN, SetTerminal(error, discard)
      PROVE  LimitsHold'
  <2>1. Len(<<>>) = 0
    OBVIOUS
  <2>2. Len(items') <= MaxMessages /\ queuedBytes' <= MaxBytes
    BY <1>1, <1>4, <2>1 DEF SetTerminal, LimitsHold
  <2>3. waiters' = waiters \/ waiters' = <<>>
    BY <1>4 DEF SetTerminal
  <2>4. Len(waiters') <= MaxPendingReceives
    BY <1>1, <2>1, <2>3 DEF LimitsHold
  <2> QED
    BY <2>2, <2>4 DEF LimitsHold
<1>5. CASE ReceiveItem
  <2>1. Head(items) \in Items /\ Len(Tail(items)) <= Len(items)
    BY <1>1, <1>5 DEF ReceiveItem
  <2>2. Head(items).byteLength \in Nat
    BY <2>1, BoundsAreNat DEF Items
  <2> QED
    BY <1>1, <1>5, <2>1, <2>2 DEF ReceiveItem, LimitsHold
<1>6. CASE ReceiveRefused \/ UNCHANGED vars
  BY <1>6 DEF ReceiveRefused, vars, LimitsHold
<1>7. CASE ReceiveWaits
  BY <1>1, <1>7 DEF ReceiveWaits, LimitsHold
<1> QED
  BY <1>2, <1>3, <1>4, <1>5, <1>6, <1>7
  DEF Next, Push, Receive, End, FailQueue, PushOverflows

(* No limit is exceeded, for limits of any size. *)
THEOREM LimitsAreKept == Spec => []LimitsHold
<1>1. Init => Shape /\ LimitsHold
  BY ShapeInit, QueueAssumption DEF Init, LimitsHold
<1>2. (Shape /\ LimitsHold) /\ [Next]_vars => (Shape /\ LimitsHold)'
  BY ShapeNext, LimitsNext
<1> QED
  BY <1>1, <1>2, PTL DEF Spec

-----------------------------------------------------------------------------
(* Messages are numbered by their arrival, so the order of delivery is the *)
(* order of arrival when what is delivered and what is queued together     *)
(* make up an initial segment of the numbers.                              *)
InitialSegment ==
  /\ Waiting
  /\ InLine
  /\ \A i \in DOMAIN delivered : delivered[i].message = i

LEMMA InitialSegmentNext == InitialSegment /\ [Next]_vars => InitialSegment'
<1> SUFFICES ASSUME InitialSegment, [Next]_vars PROVE InitialSegment'
  OBVIOUS
<1>0. Waiting' /\ Waiting /\ Shape
  BY WaitingNext DEF InitialSegment, Waiting
<1>1. /\ delivered \in Seq(Deliveries) /\ items \in Seq(Items)
      /\ pushes \in Nat /\ waiters \in Seq(1..MaxReceives)
      /\ Len(delivered) \in Nat /\ Len(items) \in Nat
  BY <1>0, BoundsAreNat DEF Shape
<1>2. ASSUME NEW receiver, NEW message,
             message = Len(delivered) + 1, Deliver(receiver, message)
      PROVE  /\ Len(delivered') = Len(delivered) + 1
             /\ \A i \in DOMAIN delivered' : delivered'[i].message = i
  <2> DEFINE new == [receiver |-> receiver, message |-> message]
  <2>1. delivered' = Append(delivered, new)
    BY <1>2 DEF Deliver
  <2>2. Len(delivered') = Len(delivered) + 1
    BY <1>1, <2>1
  <2>3. new.message = Len(delivered) + 1
    BY <1>2
  <2> HIDE DEF new
  <2>4. ASSUME NEW i \in 1..Len(delivered) + 1
        PROVE  delivered'[i].message = i
    <3>1. CASE i \in 1..Len(delivered)
      <4>1. delivered'[i] = delivered[i]
        BY <1>1, <2>1, <3>1
      <4> QED
        BY <1>1, <3>1, <4>1 DEF InitialSegment
    <3>2. CASE i = Len(delivered) + 1
      <4>1. delivered'[i] = new
        BY <1>1, <2>1, <3>2
      <4> QED
        BY <2>3, <3>2, <4>1
    <3> QED
      BY <1>1, <3>1, <3>2
  <2>5. DOMAIN delivered' = 1..Len(delivered) + 1
    BY <1>1, <2>1
  <2> QED
    BY <2>2, <2>4, <2>5
<1>3. CASE PushToWaiter
  <2>1. items = <<>> /\ terminalError = "none"
    BY <1>0, <1>3 DEF PushToWaiter, Waiting, NoStrandedReceiver
  <2>2. pushes = Len(delivered)
    BY <1>1, <2>1 DEF InitialSegment, InLine
  <2>3. /\ Deliver(Head(waiters), pushes + 1)
        /\ pushes' = pushes + 1 /\ items' = items
    BY <1>3 DEF PushToWaiter
  <2>4. /\ Len(delivered') = Len(delivered) + 1
        /\ \A i \in DOMAIN delivered' : delivered'[i].message = i
    BY <1>2, <2>2, <2>3
  <2> QED
    BY <1>0, <1>1, <2>1, <2>2, <2>3, <2>4 DEF InitialSegment, InLine
<1>4. ASSUME NEW byteLength \in 1..MaxMessageBytes, PushToQueue(byteLength)
      PROVE  InitialSegment'
  <2> DEFINE new == [byteLength |-> byteLength, message |-> pushes + 1]
  <2>1. /\ items' = Append(items, new) /\ pushes' = pushes + 1
        /\ UNCHANGED <<delivered, terminalError>> /\ terminalError = "none"
    BY <1>4 DEF PushToQueue
  <2>2. new.message = pushes + 1
    OBVIOUS
  <2> HIDE DEF new
  <2>3. /\ pushes = Len(delivered) + Len(items)
        /\ \A i \in DOMAIN items : items[i].message = Len(delivered) + i
    BY <2>1 DEF InitialSegment, InLine
  <2>4. Len(items') = Len(items) + 1 /\ DOMAIN items' = 1..Len(items) + 1
    BY <1>1, <2>1
  <2>5. ASSUME NEW i \in 1..Len(items) + 1
        PROVE  items'[i].message = Len(delivered) + i
    <3>1. CASE i \in 1..Len(items)
      <4>1. items'[i] = items[i] /\ i \in DOMAIN items
        BY <1>1, <2>1, <3>1
      <4> QED
        BY <2>3, <4>1
    <3>2. CASE i = Len(items) + 1
      <4>1. items'[i] = new
        BY <1>1, <2>1, <3>2
      <4> QED
        BY <1>1, <2>2, <2>3, <3>2, <4>1
    <3> QED
      BY <1>1, <3>1, <3>2
  <2>6. InLine'
    <3>1. pushes' = Len(delivered') + Len(items')
      BY <1>1, <2>1, <2>3, <2>4
    <3>2. \A i \in DOMAIN items' : items'[i].message = Len(delivered') + i
      BY <2>1, <2>4, <2>5
    <3> QED
      BY <3>1, <3>2 DEF InLine
  <2> QED
    BY <1>0, <2>1, <2>6 DEF InitialSegment
<1>5. CASE ReceiveItem
  <2>1. items # <<>> /\ items' = Tail(items)
        /\ Deliver(receives + 1, Head(items).message)
        /\ UNCHANGED <<pushes, terminalError>>
    BY <1>5 DEF ReceiveItem
  <2>2. terminalError # "failed"
    BY <1>0, <2>1 DEF Waiting, FailedIsEmpty
  <2>3. /\ pushes = Len(delivered) + Len(items)
        /\ \A i \in DOMAIN items : items[i].message = Len(delivered) + i
    BY <2>2 DEF InitialSegment, InLine
  <2>4. /\ Head(items) = items[1] /\ 1 \in DOMAIN items
        /\ Len(items') = Len(items) - 1
        /\ DOMAIN items' = 1..Len(items) - 1
        /\ \A i \in 1..Len(items) - 1 :
             items'[i] = items[i + 1] /\ i + 1 \in DOMAIN items
    BY <1>1, <2>1
  <2>5. Head(items).message = Len(delivered) + 1
    BY <2>3, <2>4
  <2>6. /\ Len(delivered') = Len(delivered) + 1
        /\ \A i \in DOMAIN delivered' : delivered'[i].message = i
    BY <1>2, <2>1, <2>5
  <2>7. ASSUME NEW i \in 1..Len(items) - 1
        PROVE  items'[i].message = Len(delivered') + i
    <3>1. items'[i] = items[i + 1] /\ i + 1 \in DOMAIN items
      BY <2>4
    <3>2. items'[i].message = Len(delivered) + (i + 1)
      BY <2>3, <3>1
    <3> QED
      BY <1>1, <2>6, <3>2
  <2>8. pushes' = Len(delivered') + Len(items')
    BY <1>1, <2>1, <2>3, <2>4, <2>6
  <2> QED
    BY <1>0, <2>4, <2>6, <2>7, <2>8 DEF InitialSegment, InLine
<1>6. ASSUME NEW error \in {"ended", "failed"},
             SetTerminal(error, error = "failed"), terminalError = "none",
             UNCHANGED <<pushes, receives, delivered>>
      PROVE  InitialSegment'
  BY <1>0, <1>6 DEF InitialSegment, InLine, SetTerminal
<1>7. CASE ReceiveRefused \/ ReceiveWaits \/ UNCHANGED vars
  BY <1>0, <1>7
  DEF InitialSegment, InLine, ReceiveRefused, ReceiveWaits, vars
<1> QED
  BY <1>3, <1>4, <1>5, <1>6, <1>7
  DEF Next, Push, Receive, End, FailQueue, PushOverflows

LEMMA AlwaysInitialSegment == Spec => []InitialSegment
<1>1. Init => InitialSegment
  BY ShapeInit
  DEF Init, InitialSegment, Waiting, FailedIsEmpty, NoStrandedReceiver,
                   InLine
<1> QED
  BY <1>1, InitialSegmentNext, PTL DEF Spec

(* Every message taken is received or still queued, in the order of its    *)
(* arrival, unless a failure dropped it.                                   *)
THEOREM MessagesAreKept == Spec => []NothingLost
<1>1. InitialSegment => NothingLost
  BY DEF InitialSegment, NothingLost
<1> QED
  BY <1>1, AlwaysInitialSegment, PTL

-----------------------------------------------------------------------------
(* What the queue counts.  The messages in it bear different numbers, so that
   one that joins it adds its bytes, and one that leaves takes them along. *)
Counted == IsFiniteSet(Queued) /\ AccountingIsExact

LEMMA BytesAdd ==
  ASSUME NEW bytes, IsFiniteSet(bytes), NEW item, item.byteLength \in Nat,
         \A byte \in bytes : byte[1] # item.message
  PROVE  /\ IsFiniteSet(bytes \cup BytesOf(item))
         /\ Cardinality(bytes \cup BytesOf(item)) =
              Cardinality(bytes) + item.byteLength
<1> DEFINE n == item.byteLength
           new == BytesOf(item)
<1>1. IsFiniteSet({item.message}) /\ Cardinality({item.message}) = 1
  BY FS_Singleton
<1>2. IsFiniteSet(1..n) /\ Cardinality(1..n) = n
  <2>1. n \in Nat
    OBVIOUS
  <2> HIDE DEF n
  <2>2. IsFiniteSet(1..n) /\ Cardinality(1..n) = IF 1 > n THEN 0 ELSE n - 1 + 1
    BY <2>1, FS_Interval
  <2> QED
    BY <2>1, <2>2
<1>3. IsFiniteSet(new) /\ Cardinality(new) = 1 * n
  BY <1>1, <1>2, FS_Product DEF BytesOf
<1>4. bytes \cap new = {}
  BY DEF BytesOf
<1> HIDE DEF new
<1>5. Cardinality(bytes \cap new) = 0 /\ Cardinality(bytes) \in Nat
  BY <1>4, FS_EmptySet, FS_CardinalityType
<1>6. /\ IsFiniteSet(bytes \cup new)
      /\ Cardinality(bytes \cup new) = Cardinality(bytes) + n - 0
  BY <1>3, <1>5, FS_Union
<1> QED
  BY <1>5, <1>6 DEF new

LEMMA HeadAndTail ==
  ASSUME NEW S, NEW seq \in Seq(S), seq # <<>>, NEW others, others = Tail(seq)
  PROVE  /\ DOMAIN seq = {1} \cup {i + 1 : i \in DOMAIN others}
         /\ \A i \in DOMAIN others : i \in Nat /\ i > 0
              /\ others[i] = seq[i + 1]
<1> DEFINE n == Len(seq)
<1>1. /\ n \in Nat /\ n > 0 /\ DOMAIN seq = 1..n /\ DOMAIN others = 1..n - 1
      /\ \A i \in 1..n - 1 : others[i] = seq[i + 1]
  OBVIOUS
<1> HIDE DEF n
<1>2. ASSUME NEW i \in 1..n, i # 1
      PROVE  \E j \in 1..n - 1 : i = j + 1
  <2>1. i - 1 \in 1..n - 1 /\ i = (i - 1) + 1
    BY <1>1, <1>2
  <2> QED
    BY <2>1
<1>3. 1 \in 1..n /\ \A j \in 1..n - 1 : j + 1 \in 1..n /\ j \in Nat /\ j > 0
  BY <1>1
<1>4. 1..n = {1} \cup {j + 1 : j \in 1..n - 1}
  BY <1>2, <1>3
<1> QED
  BY <1>1, <1>3, <1>4

LEMMA CountedNext == InitialSegment /\ Counted /\ [Next]_vars => Counted'
<1> SUFFICES ASSUME InitialSegment, Counted, [Next]_vars PROVE Counted'
  OBVIOUS
<1>0. /\ Shape /\ FailedIsEmpty /\ InLine
      /\ items \in Seq(Items) /\ delivered \in Seq(Deliveries)
      /\ Len(items) \in Nat /\ Len(delivered) \in Nat /\ queuedBytes \in Int
  BY DEF InitialSegment, Waiting, Shape
<1>a. \A item \in Items : item.byteLength \in Nat
  BY BoundsAreNat DEF Items
<1>1. ASSUME NEW byteLength \in 1..MaxMessageBytes, PushToQueue(byteLength)
      PROVE  Counted'
  <2> DEFINE new == [byteLength |-> byteLength, message |-> pushes + 1]
  <2>1. /\ items' = Append(items, new)
        /\ queuedBytes' = queuedBytes + byteLength
        /\ terminalError = "none"
    BY <1>1 DEF PushToQueue
  <2>2. new.byteLength = byteLength /\ new.message = pushes + 1
          /\ byteLength \in Nat
    BY BoundsAreNat
  <2> HIDE DEF new
  <2>3. /\ pushes = Len(delivered) + Len(items)
        /\ \A i \in DOMAIN items : items[i].message = Len(delivered) + i
    BY <1>0, <2>1 DEF InLine
  <2>4. \A byte \in Queued : byte[1] # new.message
    <3> SUFFICES ASSUME NEW i \in DOMAIN items, NEW byte \in BytesOf(items[i])
                 PROVE  byte[1] # new.message
      BY DEF Queued
    <3>1. byte[1] = Len(delivered) + i /\ i \in 1..Len(items)
      BY <1>0, <2>3 DEF BytesOf
    <3> QED
      BY <1>0, <2>2, <2>3, <3>1
  <2>5. Queued' = Queued \cup BytesOf(new)
    <3>1. /\ DOMAIN items' = DOMAIN items \cup {Len(items) + 1}
          /\ items'[Len(items) + 1] = new
          /\ \A i \in DOMAIN items : items'[i] = items[i]
      BY <1>0, <2>1
    <3>2. Queued' = UNION {BytesOf(items'[i]) : i \in DOMAIN items'}
      BY DEF Queued, BytesOf
    <3> QED
      BY <3>1, <3>2 DEF Queued
  <2> QED
    BY <2>1, <2>2, <2>4, <2>5, BytesAdd DEF Counted, AccountingIsExact
<1>2. CASE ReceiveItem
  <2> DEFINE first == Head(items)
  <2>1. /\ items # <<>> /\ items' = Tail(items)
        /\ queuedBytes' = queuedBytes - first.byteLength
    BY <1>2 DEF ReceiveItem
  <2>2. first \in Items /\ first = items[1]
    BY <1>0, <2>1
  <2>3. \A i \in DOMAIN items : items[i].message = Len(delivered) + i
    BY <1>0, <2>1 DEF InLine, FailedIsEmpty
  <2>4. /\ DOMAIN items = {1} \cup {i + 1 : i \in DOMAIN items'}
        /\ \A i \in DOMAIN items' : i \in Nat /\ i > 0
             /\ items'[i] = items[i + 1]
    BY <1>0, <2>1, HeadAndTail
  <2> HIDE DEF first
  <2>5. Queued' = UNION {BytesOf(items'[i]) : i \in DOMAIN items'}
    BY DEF Queued, BytesOf
  <2>6. \A byte \in Queued' : byte[1] # first.message
    <3> SUFFICES ASSUME NEW i \in DOMAIN items', NEW byte \in BytesOf(items'[i])
                 PROVE  byte[1] # first.message
      BY <2>5
    <3>1. items'[i].message = Len(delivered) + (i + 1) /\ i \in Nat /\ i > 0
      BY <2>3, <2>4
    <3>2. byte[1] = items'[i].message
      BY DEF BytesOf
    <3>3. first.message = Len(delivered) + 1
      BY <2>2, <2>3, <2>4
    <3> QED
      BY <1>0, <3>1, <3>2, <3>3
  <2>7. Queued = Queued' \cup BytesOf(first)
    BY <2>2, <2>4, <2>5 DEF Queued
  <2>8. IsFiniteSet(Queued')
    BY <2>7, FS_Subset DEF Counted
  <2>9. Cardinality(Queued) = Cardinality(Queued') + first.byteLength
    BY <1>a, <2>2, <2>6, <2>7, <2>8, BytesAdd
  <2>10. Cardinality(Queued') \in Nat /\ first.byteLength \in Nat
    BY <1>a, <2>2, <2>8, FS_CardinalityType
  <2> QED
    BY <2>1, <2>8, <2>9, <2>10 DEF Counted, AccountingIsExact
<1>3. CASE items' = items /\ queuedBytes' = queuedBytes
  BY <1>3 DEF Counted, AccountingIsExact, Queued
<1>4. CASE items' = <<>> /\ queuedBytes' = 0
  <2>1. Queued' = {}
    BY <1>4 DEF Queued
  <2> QED
    BY <1>4, <2>1, FS_EmptySet DEF Counted, AccountingIsExact
<1> QED
  BY <1>1, <1>2, <1>3, <1>4
  DEF Next, Push, Receive, PushToWaiter, PushOverflows, ReceiveRefused,
      ReceiveWaits,
      End, FailQueue, SetTerminal, vars

(* Every call is served, rejected or waiting, and in one of these ways only.
   Calls wait in the order of their numbers, after all that were served. *)
Served == {delivered[i].receiver : i \in DOMAIN delivered}
Waits == {waiters[i] : i \in DOMAIN waiters}
Turns ==
  /\ Served \cap rejected = {} /\ Served \cap Waits = {}
  /\ rejected \cap Waits = {}
  /\ 1..receives = Served \cup rejected \cup Waits
  /\ \A i, k \in DOMAIN delivered : i < k =>
       delivered[i].receiver < delivered[k].receiver
  /\ \A i, k \in DOMAIN waiters : i < k => waiters[i] < waiters[k]
  /\ \A n \in Served, m \in Waits : n < m

(* The call served next is one whose number is above those served before. *)
LEMMA ServedNext ==
  ASSUME Turns, delivered \in Seq(Deliveries), NEW receiver \in Nat,
         NEW message,
         Deliver(receiver, message), \A n \in Served : n < receiver
  PROVE  /\ Served' = Served \cup {receiver}
         /\ \A i, k \in DOMAIN delivered' :
              i < k => delivered'[i].receiver < delivered'[k].receiver
<1> DEFINE new == [receiver |-> receiver, message |-> message]
           n == Len(delivered)
<1>1. new.receiver = receiver /\ delivered' = Append(delivered, new)
        /\ n \in Nat
  BY DEF Deliver
<1> HIDE DEF new
<1>2. /\ DOMAIN delivered = 1..n /\ DOMAIN delivered' = 1..n + 1
      /\ delivered'[n + 1] = new /\ \A i \in 1..n : delivered'[i] = delivered[i]
  BY <1>1
<1> HIDE DEF n
<1>3. 1..n + 1 = 1..n \cup {n + 1}
  BY <1>1
<1>4. Served' = Served \cup {receiver}
  BY <1>1, <1>2, <1>3 DEF Served
<1>5. ASSUME NEW i \in 1..n + 1, NEW k \in 1..n + 1, i < k
      PROVE  delivered'[i].receiver < delivered'[k].receiver
  <2>1. i \in 1..n /\ (k \in 1..n \/ k = n + 1)
    BY <1>1, <1>5
  <2>2. CASE k \in 1..n
    BY <1>2, <1>5, <2>1, <2>2 DEF Turns
  <2>3. CASE k = n + 1
    BY <1>1, <1>2, <2>1, <2>3 DEF Served
  <2> QED
    BY <2>1, <2>2, <2>3
<1> QED
  BY <1>2, <1>4, <1>5

LEMMA TurnsNext == Waiting /\ Turns /\ [Next]_vars => Turns'
<1> SUFFICES ASSUME Waiting, Turns, [Next]_vars PROVE Turns'
  OBVIOUS
<1>0. /\ Shape /\ NoStrandedReceiver
      /\ waiters \in Seq(1..MaxReceives) /\ delivered \in Seq(Deliveries)
      /\ Len(waiters) \in Nat /\ receives \in Nat /\ MaxReceives \in Nat
  BY BoundsAreNat DEF Waiting, Shape
<1>1. CASE PushToWaiter
  <2> DEFINE first == Head(waiters)
  <2>1. /\ waiters # <<>> /\ waiters' = Tail(waiters)
        /\ Deliver(first, pushes + 1)
        /\ UNCHANGED <<receives, rejected>>
    BY <1>1 DEF PushToWaiter
  <2>a. first = waiters[1] /\ first \in Nat /\ first \in Waits
    BY <1>0, <2>1 DEF Waits
  <2>2. /\ first = waiters[1] /\ first \in Nat /\ first \in Waits
        /\ DOMAIN waiters = {1} \cup {i + 1 : i \in DOMAIN waiters'}
        /\ \A i \in DOMAIN waiters' : i \in Nat /\ i > 0
             /\ waiters'[i] = waiters[i + 1]
    BY <1>0, <2>1, <2>a, HeadAndTail
  <2> HIDE DEF first
  <2>3. /\ Served' = Served \cup {first}
        /\ \A i, k \in DOMAIN delivered' :
             i < k => delivered'[i].receiver < delivered'[k].receiver
    BY <1>0, <2>1, <2>2, ServedNext DEF Turns
  <2>4. Waits = Waits' \cup {first}
    BY <2>2 DEF Waits
  <2>5. \A m \in Waits' : first < m
    BY <2>2 DEF Turns, Waits
  <2>6. first \notin Waits'
    BY <2>2, <2>5
  <2>7. \A i, k \in DOMAIN waiters' : i < k => waiters'[i] < waiters'[k]
    BY <2>2 DEF Turns
  <2> QED
    BY <2>1, <2>3, <2>4, <2>5, <2>6, <2>7 DEF Turns
<1>2. CASE ReceiveItem
  <2>1. /\ waiters = <<>> /\ Deliver(receives + 1, Head(items).message)
        /\ receives' = receives + 1 /\ UNCHANGED <<waiters, rejected>>
    BY <1>0, <1>2 DEF ReceiveItem, NoStrandedReceiver
  <2>2. \A n \in Served \cup rejected : n \in Nat /\ n < receives + 1
    BY <1>0 DEF Turns
  <2>3. /\ Served' = Served \cup {receives + 1}
        /\ \A i, k \in DOMAIN delivered' :
             i < k => delivered'[i].receiver < delivered'[k].receiver
    BY <1>0, <2>1, <2>2, ServedNext
  <2>4. Waits = {} /\ Waits' = {}
    BY <2>1 DEF Waits
  <2>5. 1..receives' = 1..receives \cup {receives + 1}
    BY <1>0, <2>1
  <2> QED
    BY <2>1, <2>2, <2>3, <2>4, <2>5 DEF Turns
<1>3. CASE ReceiveRefused
  <2>1. /\ receives' = receives + 1 /\ rejected' = rejected \cup {receives + 1}
        /\ UNCHANGED <<waiters, delivered>>
    BY <1>3 DEF ReceiveRefused
  <2>2. Served' = Served /\ Waits' = Waits
    BY <2>1 DEF Served, Waits
  <2>3. receives + 1 \notin Served \cup Waits
          /\ 1..receives' = 1..receives \cup {receives + 1}
    BY <1>0, <2>1 DEF Turns
  <2> QED
    BY <2>1, <2>2, <2>3 DEF Turns
<1>4. CASE ReceiveWaits
  <2>1. /\ receives' = receives + 1 /\ waiters' = Append(waiters, receives + 1)
        /\ UNCHANGED <<rejected, delivered>>
    BY <1>4 DEF ReceiveWaits
  <2> DEFINE n == Len(waiters)
  <2>2. /\ DOMAIN waiters = 1..n /\ DOMAIN waiters' = 1..n + 1
        /\ waiters'[n + 1] = receives + 1
        /\ \A i \in 1..n : waiters'[i] = waiters[i]
    BY <1>0, <2>1
  <2>a. n \in Nat
    BY <1>0
  <2> HIDE DEF n
  <2>3. Served' = Served
    BY <2>1 DEF Served
  <2>4. Waits' = Waits \cup {receives + 1}
    <3>1. 1..n + 1 = 1..n \cup {n + 1}
      BY <2>a
    <3> QED
      BY <2>2, <3>1 DEF Waits
  <2>5. \A m \in Served \cup rejected \cup Waits : m \in Nat /\ m < receives + 1
    BY <1>0 DEF Turns
  <2>6. 1..receives' = 1..receives \cup {receives + 1}
    BY <1>0, <2>1
  <2>7. \A i, k \in DOMAIN waiters' : i < k => waiters'[i] < waiters'[k]
    <3> SUFFICES ASSUME NEW i \in 1..n + 1, NEW k \in 1..n + 1, i < k
                 PROVE  waiters'[i] < waiters'[k]
      BY <2>2
    <3>1. i \in 1..n /\ (k \in 1..n \/ k = n + 1)
      BY <2>a
    <3>2. CASE k \in 1..n
      BY <2>2, <3>1, <3>2 DEF Turns
    <3>3. CASE k = n + 1
      BY <2>2, <2>5, <3>1, <3>3 DEF Waits
    <3> QED
      BY <3>1, <3>2, <3>3
  <2> QED
    BY <2>1, <2>3, <2>4, <2>5, <2>6, <2>7 DEF Turns
<1>5. ASSUME NEW error, NEW discard, SetTerminal(error, discard),
             UNCHANGED <<receives, delivered>>
      PROVE  Turns'
  <2>1. Served' = Served
    BY <1>5 DEF Served
  <2>2. CASE rejected' = rejected \cup Waits /\ waiters' = <<>>
    <3>1. Waits' = {} /\ DOMAIN waiters' = {}
      BY <2>2 DEF Waits
    <3> QED
      BY <1>5, <2>1, <2>2, <3>1 DEF Turns
  <2>3. CASE UNCHANGED <<rejected, waiters>>
    BY <1>5, <2>1, <2>3 DEF Turns, Waits
  <2> QED
    BY <1>5, <2>2, <2>3 DEF SetTerminal, Waits
<1>6. CASE UNCHANGED <<waiters, receives, rejected, delivered>>
  BY <1>6 DEF Turns, Served, Waits
<1> QED
  BY <1>1, <1>2, <1>3, <1>4, <1>5, <1>6
  DEF Next, Push, Receive, PushToQueue, PushOverflows, End, FailQueue, vars

(* What the queue counts is what it holds, within its limits, and every call of
   receive() is settled once or waits in its turn. *)
THEOREM BooksAlwaysBalance == Spec => []BooksBalance
<1>1. Init => Counted /\ Turns
  <2> SUFFICES ASSUME Init PROVE Counted /\ Turns
    OBVIOUS
  <2>1. Queued = {} /\ Served = {} /\ Waits = {} /\ 1..receives = {}
    BY DEF Init, Queued, Served, Waits
  <2> QED
    BY <2>1, FS_EmptySet DEF Init, Counted, AccountingIsExact, Turns
<1>2. InitialSegment /\ Waiting /\ Counted /\ Turns /\ [Next]_vars =>
        Counted' /\ Turns'
  BY CountedNext, TurnsNext
<1>3. Shape /\ LimitsHold /\ Counted /\ Turns => BooksBalance
  <2> SUFFICES ASSUME Shape, LimitsHold, Counted, Turns PROVE BooksBalance
    OBVIOUS
  <2>1. queuedBytes \in Nat
    BY FS_CardinalityType DEF Counted, AccountingIsExact
  <2>2. TypeOK
    BY <2>1 DEF TypeOK, Shape
  <2>3. EveryCallHasOneOutcome
    BY DEF EveryCallHasOneOutcome, Turns, Served, Waits
  <2> QED
    BY <2>2, <2>3 DEF BooksBalance, Counted
<1>4. InitialSegment => Waiting /\ Shape
  BY DEF InitialSegment, Waiting
<1> QED
  BY <1>1, <1>2, <1>3, <1>4, AlwaysInitialSegment, LimitsAreKept, PTL DEF Spec

-----------------------------------------------------------------------------
(* The decoder *)

(* Where a line starts. *)
Before(out, i) == {0} \union {n \in Newlines(out): n < i}

LEMMA LineStarts ==
  ASSUME NEW out \in Seq(Bytes), NEW i \in 1..Len(out) + 1
  PROVE  /\ Max(Before(out, i)) \in 0..i - 1
         /\ \A n \in Newlines(out) : n < i => n <= Max(Before(out, i))
<1>1. Newlines(out) \subseteq 1..Len(out) /\ Len(out) \in Nat /\ i \in Nat
  BY DEF Newlines
<1>2. /\ Before(out, i) \subseteq Nat /\ Before(out, i) # {}
      /\ \A n \in Before(out, i) : n <= i - 1
  BY <1>1 DEF Before
<1>3. i - 1 \in Nat
  BY <1>1
<1>4. /\ Max(Before(out, i)) \in Before(out, i)
      /\ \A n \in Before(out, i) : n <= Max(Before(out, i))
  BY <1>2, <1>3, LargestExists
<1>5. \A n \in Newlines(out) : n < i => n \in Before(out, i)
  BY DEF Before
<1> QED
  BY <1>2, <1>3, <1>4, <1>5

(* A line holds the bytes from there to its end. *)
LEMMA LineType ==
  ASSUME NEW out \in Seq(Bytes), NEW i \in 1..Len(out) + 1
  PROVE  /\ Line(out, i) \in Seq(Bytes)
         /\ Len(Line(out, i)) = i - 1 - Max(Before(out, i))
         /\ \A j \in 1..i - 1 - Max(Before(out, i)) :
              Line(out, i)[j] = out[Max(Before(out, i)) + j]
<1> DEFINE start == Max(Before(out, i))
<1>1. start \in 0..i - 1 /\ Len(out) \in Nat
  BY LineStarts
<1>2. Line(out, i) = SubSeq(out, 1 + start, i - 1)
  BY DEF Line, Before
<1> HIDE DEF start
<1>3. \A j \in 1 + start..i - 1 : out[j] \in Bytes
  <2> SUFFICES ASSUME NEW j \in 1 + start..i - 1 PROVE out[j] \in Bytes
    OBVIOUS
  <2>1. j \in 1..Len(out)
    BY <1>1
  <2> QED
    BY <2>1
<1>4. 1 + start \in Int /\ i - 1 \in Int
  BY <1>1
<1>5. /\ SubSeq(out, 1 + start, i - 1) \in Seq(Bytes)
      /\ Len(SubSeq(out, 1 + start, i - 1)) =
           IF 1 + start <= i - 1 THEN (i - 1) - (1 + start) + 1 ELSE 0
      /\ \A j \in 1..(i - 1) - (1 + start) + 1 :
           SubSeq(out, 1 + start, i - 1)[j] = out[(1 + start) + j - 1]
  BY <1>3, <1>4, SubSeqProperties
<1>6. \A j \in 1..i - 1 - start : Line(out, i)[j] = out[start + j]
  <2> SUFFICES ASSUME NEW j \in 1..i - 1 - start
               PROVE  Line(out, i)[j] = out[start + j]
    OBVIOUS
  <2>1. j \in 1..(i - 1) - (1 + start) + 1 /\ (1 + start) + j - 1 = start + j
    BY <1>1
  <2> QED
    BY <1>2, <1>5, <2>1
<1> QED
  BY <1>1, <1>2, <1>5, <1>6 DEF start

(* What comes later does not change a line. *)
LEMMA LineStays ==
  ASSUME NEW out \in Seq(Bytes), NEW more \in Seq(Bytes),
         NEW i \in 1..Len(out) + 1
  PROVE  /\ Line(out \o more, i) = Line(out, i)
         /\ \A n \in Nat : n < i =>
              (n \in Newlines(out \o more) <=> n \in Newlines(out))
<1> DEFINE all == out \o more
<1>1. /\ all \in Seq(Bytes) /\ Len(all) = Len(out) + Len(more)
      /\ Len(out) \in Nat /\ Len(more) \in Nat
      /\ \A j \in 1..Len(out) : all[j] = out[j]
  BY ConcatProperties
<1> HIDE DEF all
<1>2. \A n \in Nat : n < i => (n \in Newlines(all) <=> n \in Newlines(out))
  BY <1>1 DEF Newlines
<1>3. Before(all, i) = Before(out, i)
  <2>1. Newlines(all) \subseteq Nat /\ Newlines(out) \subseteq Nat
    BY <1>1 DEF Newlines
  <2> QED
    BY <1>2, <2>1 DEF Before
<1>4. i \in 1..Len(all) + 1
  BY <1>1
<1> DEFINE start == Max(Before(out, i))
<1>5. start \in 0..i - 1
  BY LineStarts
<1>6. /\ Line(all, i) \in Seq(Bytes) /\ Line(out, i) \in Seq(Bytes)
      /\ Len(Line(all, i)) = i - 1 - start /\ Len(Line(out, i)) = i - 1 - start
      /\ \A j \in 1..i - 1 - start : Line(all, i)[j] = all[start + j]
      /\ \A j \in 1..i - 1 - start : Line(out, i)[j] = out[start + j]
  BY <1>1, <1>3, <1>4, LineType
<1> HIDE DEF start
<1>7. \A j \in 1..i - 1 - start : start + j \in 1..Len(out)
  BY <1>1, <1>5
<1>8. \A j \in 1..Len(Line(all, i)) : Line(all, i)[j] = Line(out, i)[j]
  BY <1>1, <1>6, <1>7
<1>9. Line(all, i) = Line(out, i)
  BY <1>6, <1>8, SeqEqual
<1> QED
  BY <1>2, <1>9 DEF all

(* Bytes that hold no newline make the unfinished line longer. *)
LEMMA LineGrows ==
  ASSUME NEW out \in Seq(Bytes), NEW more \in Seq(Bytes),
         \A j \in 1..Len(more) : more[j] # "lf"
  PROVE  /\ Newlines(out \o more) = Newlines(out)
         /\ Unfinished(out \o more) = Unfinished(out) \o more
<1> DEFINE all == out \o more
           n == Len(out)
           m == Len(more)
           start == Max(Before(out, n + 1))
<1>1. /\ all \in Seq(Bytes) /\ Len(all) = n + m
      /\ n \in Nat /\ m \in Nat
      /\ \A j \in 1..n : all[j] = out[j]
      /\ \A j \in 1..m : all[n + j] = more[j]
  <2>1. \A j \in 1..n + m : all[j] = IF j <= n THEN out[j] ELSE more[j - n]
    BY ConcatProperties
  <2>2. \A j \in 1..m : n + j \in 1..n + m /\ ~(n + j <= n) /\ (n + j) - n = j
    OBVIOUS
  <2> QED
    BY <2>1, <2>2, ConcatProperties
<1> HIDE DEF all
<1>2. Newlines(all) = Newlines(out)
  <2>1. ASSUME NEW i \in 1..n + m, i \notin 1..n PROVE all[i] # "lf"
    <3>1. i - n \in 1..m /\ n + (i - n) = i
      BY <1>1, <2>1
    <3> QED
      BY <1>1, <3>1
  <2>2. 1..n \subseteq 1..n + m /\ DOMAIN all = 1..n + m /\ DOMAIN out = 1..n
    BY <1>1
  <2> QED
    BY <1>1, <2>1, <2>2 DEF Newlines
<1>3. Before(all, n + m + 1) = Before(out, n + 1)
  <2>1. \A i \in Newlines(out) : i < n + m + 1 /\ i < n + 1
    BY <1>1 DEF Newlines
  <2> QED
    BY <1>2, <2>1 DEF Before
<1>4. start \in 0..n
  <2>1. n + 1 \in 1..n + 1 /\ (n + 1) - 1 = n
    BY <1>1
  <2> QED
    BY <2>1, LineStarts
<1> DEFINE long == Unfinished(all)
           short == Unfinished(out)
<1>5. /\ short \in Seq(Bytes) /\ Len(short) = n - start
      /\ \A j \in 1..n - start : short[j] = out[start + j]
  <2>1. n + 1 \in 1..n + 1 /\ (n + 1) - 1 - start = n - start
    BY <1>1, <1>4
  <2> HIDE DEF start
  <2>2. short = Line(out, n + 1)
    BY DEF Unfinished
  <2> HIDE DEF short
  <2> QED
    BY <2>1, <2>2, LineType DEF start
<1>6. /\ long \in Seq(Bytes) /\ Len(long) = n + m - start
      /\ \A j \in 1..n + m - start : long[j] = all[start + j]
  <2>1. n + m + 1 \in 1..Len(all) + 1 /\ (n + m + 1) - 1 - start = n + m - start
    BY <1>1, <1>4
  <2>2. long = Line(all, n + m + 1)
    BY <1>1 DEF Unfinished
  <2>3. start = Max(Before(all, n + m + 1))
    BY <1>3
  <2> HIDE DEF start, long
  <2> QED
    BY <1>1, <2>1, <2>2, <2>3, LineType
<1> HIDE DEF start, long, short
<1>7. /\ short \o more \in Seq(Bytes) /\ Len(short \o more) = n - start + m
      /\ \A j \in 1..n - start + m :
           (short \o more)[j] = IF j <= n - start THEN short[j]
                                ELSE more[j - (n - start)]
  BY <1>5, ConcatProperties
<1>8. ASSUME NEW j \in 1..Len(long)
      PROVE  long[j] = (short \o more)[j]
  <2>1. j \in 1..n + m - start /\ j \in 1..n - start + m
    BY <1>1, <1>4, <1>6
  <2>2. CASE j <= n - start
    <3>1. j \in 1..n - start /\ start + j \in 1..n
      BY <1>1, <1>4, <2>1, <2>2
    <3> QED
      BY <1>1, <1>5, <1>6, <1>7, <2>1, <2>2, <3>1
  <2>3. CASE ~(j <= n - start)
    <3> DEFINE k == j - (n - start)
    <3>1. k \in 1..m /\ start + j = n + k
      BY <1>1, <1>4, <2>1, <2>3
    <3>2. long[j] = all[n + k] /\ (short \o more)[j] = more[k]
      BY <1>6, <1>7, <2>1, <2>3, <3>1
    <3> QED
      BY <1>1, <3>1, <3>2
  <2> QED
    BY <2>2, <2>3
<1>9. Len(long) = Len(short \o more)
  BY <1>1, <1>4, <1>6, <1>7
<1>10. long = short \o more
  BY <1>6, <1>7, <1>8, <1>9, SeqEqual
<1> QED
  BY <1>2, <1>10 DEF all, long, short

(* A newline completes the unfinished line, and begins an empty one. *)
LEMMA LineEnds ==
  ASSUME NEW out \in Seq(Bytes)
  PROVE  LET more == Append(out, "lf")
         IN /\ more \in Seq(Bytes)
            /\ Newlines(more) = Newlines(out) \union {Len(out) + 1}
            /\ Line(more, Len(out) + 1) = Unfinished(out)
            /\ Unfinished(more) = <<>>
<1> DEFINE n == Len(out)
           more == Append(out, "lf")
<1>0. "lf" \in Bytes
  BY DEF Bytes
<1>1. /\ n \in Nat /\ more \in Seq(Bytes) /\ Len(more) = n + 1
      /\ more[n + 1] = "lf" /\ \A j \in 1..n : more[j] = out[j]
      /\ DOMAIN out = 1..n /\ DOMAIN more = 1..n + 1
  BY <1>0, AppendProperties
<1>2. more = out \o <<"lf">>
  BY <1>0, AppendIsConcat
<1> HIDE DEF more
<1>3. Newlines(more) = Newlines(out) \union {n + 1}
  BY <1>1 DEF Newlines
<1>4. Line(more, n + 1) = Unfinished(out)
  <2>1. n + 1 \in 1..Len(out) + 1 /\ <<"lf">> \in Seq(Bytes)
    BY <1>0, <1>1
  <2>2. Line(out \o <<"lf">>, n + 1) = Line(out, n + 1)
    BY <2>1, LineStays
  <2> QED
    BY <1>2, <2>2 DEF Unfinished
<1>5. Unfinished(more) = <<>>
  <2>1. n + 2 \in 1..Len(more) + 1 /\ n + 1 \in Newlines(more) /\ n + 1 < n + 2
    BY <1>1, <1>3
  <2>2. Max(Before(more, n + 2)) \in 0..n + 1
          /\ n + 1 <= Max(Before(more, n + 2))
    <3>1. /\ Max(Before(more, n + 2)) \in 0..(n + 2) - 1
          /\ \A k \in Newlines(more) : k < n + 2 =>
               k <= Max(Before(more, n + 2))
      BY <1>1, <2>1, LineStarts
    <3> QED
      BY <1>1, <2>1, <3>1
  <2>3. Max(Before(more, n + 2)) = n + 1
    BY <1>1, <2>2
  <2>4. Line(more, n + 2) \in Seq(Bytes) /\ Len(Line(more, n + 2)) = 0
    <3>1. /\ Line(more, n + 2) \in Seq(Bytes)
          /\ Len(Line(more, n + 2)) = (n + 2) - 1 - Max(Before(more, n + 2))
      BY <1>1, <2>1, LineType
    <3> QED
      BY <1>1, <2>3, <3>1
  <2>5. Unfinished(more) = Line(more, n + 2)
    <3>1. Len(more) + 1 = n + 2
      BY <1>1
    <3> QED
      BY <3>1 DEF Unfinished
  <2> QED
    BY <2>4, <2>5, EmptySeq
<1> QED
  BY <1>1, <1>3, <1>4, <1>5 DEF more

-----------------------------------------------------------------------------
(* The frames are counted by their ends. *)
LEMMA NewlinesAreFinite ==
  ASSUME NEW out \in Seq(Bytes)
  PROVE  /\ Newlines(out) \subseteq 1..Len(out) /\ Len(out) \in Nat
         /\ IsFiniteSet(Newlines(out))
<1>1. Newlines(out) \subseteq 1..Len(out) /\ Len(out) \in Nat
  BY DEF Newlines
<1>2. IsFiniteSet(1..Len(out))
  BY <1>1, FS_Interval
<1> QED
  BY <1>1, <1>2, FS_Subset

LEMMA OrdinalIsPosition ==
  ASSUME NEW out \in Seq(Bytes), NEW i \in FrameEnds(out)
  PROVE  /\ Cardinality(FrameEnds(out)) \in Nat
         /\ Ordinal(out, i) \in 1..Cardinality(FrameEnds(out))
<1> DEFINE upTo == {j \in FrameEnds(out) : j <= i}
<1>1. FrameEnds(out) \subseteq Newlines(out) /\ i \in Nat
  BY NewlinesAreFinite DEF FrameEnds
<1>2. IsFiniteSet(FrameEnds(out)) /\ upTo \subseteq FrameEnds(out)
  BY <1>1, NewlinesAreFinite, FS_Subset
<1>3. i \in upTo
  BY <1>1
<1> HIDE DEF upTo
<1>4. /\ IsFiniteSet(upTo) /\ Cardinality(upTo) <= Cardinality(FrameEnds(out))
      /\ Cardinality(upTo) \in Nat /\ Cardinality(FrameEnds(out)) \in Nat
  BY <1>2, FS_Subset, FS_CardinalityType
<1>5. Cardinality(upTo) # 0
  BY <1>3, <1>4, FS_EmptySet
<1>6. Ordinal(out, i) = Cardinality(upTo)
  BY DEF Ordinal, upTo
<1> QED
  BY <1>4, <1>5, <1>6

(* Two outputs have the same lines. *)
SameLines(one, two) ==
  /\ FrameEnds(one) = FrameEnds(two)
  /\ \A i \in FrameEnds(one) : Line(one, i) = Line(two, i)

(* Nothing new counts before the next newline, *)
LEMMA NoNewLine ==
  ASSUME NEW out \in Seq(Bytes), NEW more \in Seq(Bytes),
         \A j \in 1..Len(more) : more[j] # "lf"
  PROVE  /\ SameLines(out, out \o more)
         /\ Broken(out \o more) = Broken(out)
<1> DEFINE all == out \o more
<1>1. Newlines(all) = Newlines(out)
  BY LineGrows
<1>2. \A i \in Newlines(out) : Line(all, i) = Line(out, i)
  <2> SUFFICES ASSUME NEW i \in Newlines(out) PROVE Line(all, i) = Line(out, i)
    OBVIOUS
  <2>1. i \in 1..Len(out) + 1
    BY NewlinesAreFinite
  <2> QED
    BY <2>1, LineStays
<1> HIDE DEF all
<1>3. Broken(all) = Broken(out)
  BY <1>1, <1>2 DEF Broken
<1>4. FrameEnds(all) = FrameEnds(out) /\ FrameEnds(out) \subseteq Newlines(out)
  BY <1>1, <1>3 DEF FrameEnds
<1> QED
  BY <1>2, <1>3, <1>4 DEF SameLines, all

(* and a newline makes the unfinished line count. *)
LEMMA OneMoreLine ==
  ASSUME NEW out \in Seq(Bytes), Broken(out) = {},
         NEW more, more = Append(out, "lf")
  PROVE  /\ more \in Seq(Bytes) /\ Unfinished(more) = <<>>
         /\ ~IsFrame(Unfinished(out)) =>
              Broken(more) # {} /\ SameLines(out, more)
         /\ IsFrame(Unfinished(out)) =>
              /\ Broken(more) = {}
              /\ FrameEnds(more) = FrameEnds(out) \union {Len(out) + 1}
              /\ Line(more, Len(out) + 1) = Unfinished(out)
              /\ \A i \in FrameEnds(out) :
                   Line(more, i) = Line(out, i)
                     /\ Ordinal(more, i) = Ordinal(out, i)
              /\ Cardinality(FrameEnds(more)) = Cardinality(FrameEnds(out)) + 1
              /\ Ordinal(more, Len(out) + 1) = Cardinality(FrameEnds(out)) + 1
<1> DEFINE n == Len(out)
<1>1. /\ more \in Seq(Bytes) /\ Newlines(more) = Newlines(out) \union {n + 1}
      /\ Line(more, n + 1) = Unfinished(out) /\ Unfinished(more) = <<>>
  BY LineEnds
<1>2. Newlines(out) \subseteq 1..n /\ n \in Nat /\ IsFiniteSet(Newlines(out))
  BY NewlinesAreFinite
<1>3. \A i \in Newlines(out) : Line(more, i) = Line(out, i)
  <2> SUFFICES ASSUME NEW i \in Newlines(out) PROVE Line(more, i) = Line(out, i)
    OBVIOUS
  <2>1. i \in 1..Len(out) + 1 /\ "lf" \in Bytes /\ <<"lf">> \in Seq(Bytes)
    BY <1>2 DEF Bytes
  <2>2. more = out \o <<"lf">>
    BY <2>1, AppendIsConcat
  <2> QED
    BY <2>1, <2>2, LineStays
<1>4. FrameEnds(out) = Newlines(out)
  BY DEF FrameEnds
<1>5. \A i \in Newlines(out) : IsFrame(Line(out, i))
  BY DEF Broken
<1>6. ASSUME ~IsFrame(Unfinished(out))
      PROVE  Broken(more) # {} /\ SameLines(out, more)
  <2>1. Broken(more) = {n + 1}
    BY <1>1, <1>3, <1>5, <1>6 DEF Broken
  <2>2. FrameEnds(more) = Newlines(out)
    <3>1. FrameEnds(more) = {i \in Newlines(more) : i < n + 1}
      BY <2>1 DEF FrameEnds
    <3>2. ~(n + 1 < n + 1) /\ \A i \in Newlines(out) : i < n + 1
      BY <1>2
    <3>3. \A i \in Newlines(more) : i < n + 1 <=> i \in Newlines(out)
      BY <1>1, <3>2, Zenon
    <3> QED
      BY <1>1, <3>1, <3>3
  <2> QED
    BY <1>3, <1>4, <2>1, <2>2 DEF SameLines
<1>7. ASSUME IsFrame(Unfinished(out))
      PROVE  /\ Broken(more) = {}
             /\ FrameEnds(more) = FrameEnds(out) \union {n + 1}
             /\ \A i \in FrameEnds(out) :
                  Line(more, i) = Line(out, i)
                    /\ Ordinal(more, i) = Ordinal(out, i)
             /\ Cardinality(FrameEnds(more)) = Cardinality(FrameEnds(out)) + 1
             /\ Ordinal(more, n + 1) = Cardinality(FrameEnds(out)) + 1
  <2>1. Broken(more) = {}
    BY <1>1, <1>3, <1>5, <1>7 DEF Broken
  <2>2. FrameEnds(more) = FrameEnds(out) \union {n + 1}
    BY <1>1, <1>4, <2>1 DEF FrameEnds
  <2>3. n + 1 \notin FrameEnds(out) /\ IsFiniteSet(FrameEnds(out))
    BY <1>2, <1>4
  <2>4. Cardinality(FrameEnds(more)) = Cardinality(FrameEnds(out)) + 1
    BY <2>2, <2>3, FS_AddElement
  <2>5. \A i \in FrameEnds(out) : Ordinal(more, i) = Ordinal(out, i)
    <3> SUFFICES ASSUME NEW i \in FrameEnds(out)
                 PROVE  Ordinal(more, i) = Ordinal(out, i)
      OBVIOUS
    <3>1. i \in 1..n /\ ~(n + 1 <= i)
      BY <1>2, <1>4
    <3>2. {j \in FrameEnds(more) : j <= i} = {j \in FrameEnds(out) : j <= i}
      BY <2>2, <3>1
    <3> QED
      BY <3>2 DEF Ordinal
  <2>6. {j \in FrameEnds(more) : j <= n + 1} = FrameEnds(more)
    BY <1>2, <1>4, <2>2
  <2>7. Ordinal(more, n + 1) = Cardinality(FrameEnds(out)) + 1
    BY <2>4, <2>6 DEF Ordinal
  <2> QED
    BY <1>3, <1>4, <2>1, <2>2, <2>4, <2>5, <2>7
<1> QED
  BY <1>1, <1>6, <1>7

(* The delimiter's CR. *)
LEMMA Stripped ==
  ASSUME NEW bytes \in Seq(Bytes)
  PROVE  /\ StripCr(bytes) \in Seq(Bytes)
         /\ Len(StripCr(bytes)) =
              IF EndsWithCr(bytes) THEN Len(bytes) - 1 ELSE Len(bytes)
<1>1. CASE EndsWithCr(bytes)
  <2>1. Len(bytes) \in Nat /\ Len(bytes) # 0
    BY <1>1 DEF EndsWithCr
  <2>2. \A i \in 1..Len(bytes) - 1 : bytes[i] \in Bytes
    BY <2>1
  <2>3. /\ SubSeq(bytes, 1, Len(bytes) - 1) \in Seq(Bytes)
        /\ Len(SubSeq(bytes, 1, Len(bytes) - 1)) =
             IF 1 <= Len(bytes) - 1 THEN (Len(bytes) - 1) - 1 + 1 ELSE 0
    BY <2>1, <2>2, SubSeqProperties
  <2>4. StripCr(bytes) = SubSeq(bytes, 1, Len(bytes) - 1)
    BY <1>1 DEF StripCr, Front
  <2>5. Len(SubSeq(bytes, 1, Len(bytes) - 1)) = Len(bytes) - 1
    <3> DEFINE n == Len(bytes)
               front == Len(SubSeq(bytes, 1, Len(bytes) - 1))
    <3>1. /\ n \in Nat /\ n # 0
          /\ front = IF 1 <= n - 1 THEN (n - 1) - 1 + 1 ELSE 0
      BY <2>1, <2>3
    <3> HIDE DEF n, front
    <3>2. front = n - 1
      BY <3>1
    <3> QED
      BY <3>2 DEF n, front
  <2> QED
    BY <1>1, <2>3, <2>4, <2>5
<1>2. CASE ~EndsWithCr(bytes)
  BY <1>2 DEF StripCr
<1> QED
  BY <1>1, <1>2

-----------------------------------------------------------------------------
(* The variables of #append as a store, what it holds, and what its loop relies
   on. *)
Stores == [blocks : Seq(Seq(Bytes)), tail : Seq(Bytes), capacity : Int]
Store  == [blocks |-> blocks, tail |-> tail, capacity |-> capacity]

Held(store) == FlattenSeq(store.blocks) \o store.tail

StoreIsSound(store) ==
  /\ \A k \in DOMAIN store.blocks :
       store.blocks[k] # <<>> /\ Len(store.blocks[k]) <= BlockBytes
  /\ \/ Len(store.tail) < store.capacity /\ store.capacity <= BlockBytes
     \/ store.tail = <<>> /\ store.capacity = 0
  /\ Len(FlattenSeq(store.blocks)) + store.capacity <= MaxFrameBytes + 1

(* What is stored has a type, and its length is the one #append checks. *)
LEMMA HeldType ==
  ASSUME NEW store \in Stores
  PROVE  /\ FlattenSeq(store.blocks) \in Seq(Bytes)
         /\ Held(store) \in Seq(Bytes)
         /\ Len(Held(store)) = Len(FlattenSeq(store.blocks)) + Len(store.tail)
         /\ Len(Held(store)) = BufferedBytes(store.blocks, store.tail)
         /\ Len(FlattenSeq(store.blocks)) = BufferedBytes(store.blocks, <<>>)
         /\ Len(FlattenSeq(store.blocks)) \in Nat /\ Len(store.tail) \in Nat
         /\ BufferedBytes(store.blocks, <<>>) \in Nat
         /\ Len(Held(store)) \in Nat
<1>1. store.blocks \in Seq(Seq(Bytes)) /\ store.tail \in Seq(Bytes)
  BY DEF Stores
<1>2. FlattenSeq(store.blocks) \in Seq(Bytes)
  BY <1>1, FlattenIsSeq
<1>3. /\ Held(store) \in Seq(Bytes)
      /\ Len(Held(store)) = Len(FlattenSeq(store.blocks)) + Len(store.tail)
  BY <1>1, <1>2, ConcatProperties DEF Held
<1>4. Len(<<>>) = 0 /\ Len(FlattenSeq(store.blocks)) \in Nat
        /\ Len(store.tail) \in Nat
  BY <1>1, <1>2
<1>5. /\ BufferedBytes(store.blocks, store.tail) =
           Len(FlattenSeq(store.blocks)) + Len(store.tail)
      /\ BufferedBytes(store.blocks, <<>>) = Len(FlattenSeq(store.blocks)) + 0
  BY <1>4 DEF BufferedBytes
<1>6. Len(FlattenSeq(store.blocks)) + 0 = Len(FlattenSeq(store.blocks))
  BY <1>4
<1>7. Len(Held(store)) \in Nat
  BY <1>3, LenProperties
<1> QED
  BY <1>2, <1>3, <1>4, <1>5, <1>6, <1>7

(* The block a byte goes to, and its size. *)
Open(store, byte) == Append(store.tail, byte)
Size(store) ==
  LET left == MaxFrameBytes + 1 - BufferedBytes(store.blocks, <<>>)
  IN IF store.capacity # 0 THEN store.capacity
     ELSE IF left < BlockBytes THEN left ELSE BlockBytes

(* The two cases of Put, by names, *)
LEMMA PutCases ==
  ASSUME NEW store \in Stores, NEW byte \in Bytes
  PROVE  /\ Size(store) \in Int /\ Open(store, byte) \in Seq(Bytes)
         /\ Len(Open(store, byte)) = Len(store.tail) + 1
         /\ Len(Open(store, byte)) = Size(store) =>
              Put(store, byte) =
                [blocks   |-> Append(store.blocks, Open(store, byte)),
                                  tail     |-> <<>>,
                                  capacity |-> 0]
         /\ Len(Open(store, byte)) # Size(store) =>
              Put(store, byte) = [blocks   |-> store.blocks,
                                  tail     |-> Open(store, byte),
                                  capacity |-> Size(store)]
         /\ Put(store, byte) \in Stores
<1>1. store.blocks \in Seq(Seq(Bytes)) /\ store.tail \in Seq(Bytes)
        /\ store.capacity \in Int
  BY DEF Stores
<1>2. Open(store, byte) \in Seq(Bytes)
        /\ Len(Open(store, byte)) = Len(store.tail) + 1
  BY <1>1, AppendProperties DEF Open
<1>3. Size(store) \in Int
  <2>1. BufferedBytes(store.blocks, <<>>) \in Nat
    BY HeldType, Zenon
  <2> QED
    BY <1>1, <2>1, DecoderAssumption DEF Size
<1>4. Put(store, byte) =
        IF Len(Open(store, byte)) = Size(store)
        THEN [blocks   |-> Append(store.blocks, Open(store, byte)),
              tail     |-> <<>>,
              capacity |-> 0]
        ELSE [blocks   |-> store.blocks,
              tail     |-> Open(store, byte),
              capacity |-> Size(store)]
  BY Zenon DEF Put, Open, Size
<1>5. Append(store.blocks, Open(store, byte)) \in Seq(Seq(Bytes))
  BY <1>1, <1>2
<1>6. Put(store, byte) \in Stores
  <2>1. [blocks   |-> Append(store.blocks, Open(store, byte)),
         tail     |-> <<>>,
         capacity |-> 0] \in Stores
    BY <1>5 DEF Stores
  <2>2. [blocks   |-> store.blocks,
         tail     |-> Open(store, byte),
         capacity |-> Size(store)] \in Stores
    BY <1>1, <1>2, <1>3 DEF Stores
  <2> QED
    BY <1>4, <2>1, <2>2
<1> QED
  BY <1>2, <1>3, <1>4, <1>6

(* and its effect: one byte more is held, and the blocks stay sound. *)
LEMMA PutHolds ==
  ASSUME NEW store \in Stores, NEW byte \in Bytes,
         StoreIsSound(store), Len(Held(store)) <= MaxFrameBytes
  PROVE  StoreIsSound(Put(store, byte))
           /\ Held(Put(store, byte)) = Append(Held(store), byte)
<1> DEFINE full  == Len(FlattenSeq(store.blocks))
           open  == Open(store, byte)
           size  == Size(store)
           after == Put(store, byte)
<1>1. /\ full \in Nat /\ Len(store.tail) \in Nat
      /\ full + Len(store.tail) <= MaxFrameBytes
      /\ MaxFrameBytes \in Nat /\ BlockBytes \in Nat /\ BlockBytes > 0
      /\ store.capacity \in Int
      /\ FlattenSeq(store.blocks) \in Seq(Bytes)
      /\ store.blocks \in Seq(Seq(Bytes)) /\ store.tail \in Seq(Bytes)
  <2>1. /\ store.capacity \in Int /\ store.blocks \in Seq(Seq(Bytes))
        /\ store.tail \in Seq(Bytes)
    BY DEF Stores
  <2>2. /\ full \in Nat /\ Len(store.tail) \in Nat
        /\ FlattenSeq(store.blocks) \in Seq(Bytes)
        /\ Len(Held(store)) = full + Len(store.tail)
    BY HeldType, Zenon
  <2>3. full + Len(store.tail) <= MaxFrameBytes
    BY <2>2
  <2> HIDE DEF full
  <2> QED
    BY <2>1, <2>2, <2>3, DecoderAssumption
<1>2. /\ open \in Seq(Bytes) /\ Len(open) = Len(store.tail) + 1 /\ size \in Int
  BY PutCases
<1>3. /\ Len(open) <= size /\ size <= BlockBytes
      /\ full + size <= MaxFrameBytes + 1
  <2>1. CASE store.capacity # 0
    <3>1. size = store.capacity
      BY <2>1 DEF Size
    <3> QED
      BY <1>1, <1>2, <2>1, <3>1 DEF StoreIsSound
  <2>2. CASE store.capacity = 0
    <3>1. Len(store.tail) = 0
      BY <1>1, <2>2 DEF StoreIsSound
    <3>2. size = IF MaxFrameBytes + 1 - full < BlockBytes
                 THEN MaxFrameBytes + 1 - full ELSE BlockBytes
      BY <2>2, HeldType DEF Size
    <3> HIDE DEF full, size, open
    <3> QED
      BY <1>1, <1>2, <3>1, <3>2
  <2> QED
    BY <2>1, <2>2
<1>4. FlattenSeq(store.blocks) \o open = Append(Held(store), byte)
  <2> DEFINE flat == FlattenSeq(store.blocks)
             part == store.tail
             unit == <<byte>>
  <2>1. flat \in Seq(Bytes) /\ part \in Seq(Bytes) /\ unit \in Seq(Bytes)
    BY <1>1
  <2>2. open = part \o unit
    BY <2>1, AppendIsConcat DEF Open
  <2>3. Append(Held(store), byte) = (flat \o part) \o unit
    <3>1. Held(store) \in Seq(Bytes)
      BY HeldType
    <3> QED
      BY <3>1, AppendIsConcat DEF Held
  <2> HIDE DEF flat, part, open, unit
  <2>4. flat \o (part \o unit) = (flat \o part) \o unit
    BY <2>1, ConcatAssociative
  <2> QED
    BY <2>2, <2>3, <2>4 DEF flat
<1>5. CASE Len(open) = size
  <2> DEFINE more == Append(store.blocks, open)
  <2>1. after.blocks = more /\ after.tail = <<>> /\ after.capacity = 0
    BY <1>5, PutCases
  <2>2. FlattenSeq(more) = FlattenSeq(store.blocks) \o open
    BY <1>1, <1>2, FlattenAppend
  <2>3. FlattenSeq(more) \in Seq(Bytes) /\ Len(FlattenSeq(more)) = full + size
    <3>1. Len(FlattenSeq(store.blocks) \o open) = full + Len(open)
            /\ FlattenSeq(store.blocks) \o open \in Seq(Bytes)
      BY <1>1, <1>2, ConcatProperties
    <3> QED
      BY <1>5, <2>2, <3>1
  <2>4. Held(after) = Append(Held(store), byte)
    BY <1>4, <2>1, <2>2, <2>3 DEF Held
  <2>5. \A k \in DOMAIN more : more[k] # <<>> /\ Len(more[k]) <= BlockBytes
    <3>1. /\ Len(store.blocks) \in Nat /\ DOMAIN more = 1..Len(store.blocks) + 1
          /\ more[Len(store.blocks) + 1] = open
          /\ \A k \in 1..Len(store.blocks) : more[k] = store.blocks[k]
      BY <1>1, <1>2, AppendProperties
    <3>2. open # <<>> /\ Len(open) <= BlockBytes
      BY <1>1, <1>2, <1>3, <1>5
    <3>3. \A k \in 1..Len(store.blocks) :
            store.blocks[k] # <<>> /\ Len(store.blocks[k]) <= BlockBytes
      BY <1>1 DEF StoreIsSound
    <3> HIDE DEF more, open
    <3> SUFFICES ASSUME NEW k \in 1..Len(store.blocks) + 1
                 PROVE  more[k] # <<>> /\ Len(more[k]) <= BlockBytes
      BY <3>1
    <3>4. CASE k \in 1..Len(store.blocks)
      BY <3>1, <3>3, <3>4
    <3>5. CASE k = Len(store.blocks) + 1
      BY <3>1, <3>2, <3>5
    <3> QED
      BY <3>1, <3>4, <3>5
  <2> HIDE DEF more, open, size, after
  <2>6. StoreIsSound(after)
    BY <1>1, <1>2, <1>3, <2>1, <2>3, <2>5 DEF StoreIsSound
  <2> QED
    BY <2>4, <2>6 DEF after
<1>6. CASE Len(open) # size
  <2>1. after.blocks = store.blocks /\ after.tail = open
          /\ after.capacity = size
    <3>1. after = [blocks |-> store.blocks, tail |-> open, capacity |-> size]
      BY <1>6, PutCases
    <3> HIDE DEF after, open, size
    <3> QED
      BY <3>1
  <2>2. Held(after) = Append(Held(store), byte)
    BY <1>4, <2>1 DEF Held
  <2>3. Len(open) < size
    BY <1>1, <1>2, <1>3, <1>6
  <2> HIDE DEF open, size, after
  <2>4. StoreIsSound(after)
    BY <1>1, <1>2, <1>3, <2>1, <2>3 DEF StoreIsSound
  <2> QED
    BY <2>2, <2>4 DEF after
<1> QED
  BY <1>5, <1>6

(* The loop of #append adds the segment to what is held, byte by byte. *)
LEMMA AppendedHolds ==
  ASSUME Store \in Stores, StoreIsSound(Store), NEW segment \in Seq(Bytes),
         Len(Held(Store)) + Len(segment) <= MaxFrameBytes + 1
  PROVE  /\ Appended(segment) \in Stores /\ StoreIsSound(Appended(segment))
         /\ Held(Appended(segment)) = Held(Store) \o segment
<1> DEFINE n == Len(segment)
           T == Stores
           start == Store
           step == [p \in T \X Nat |-> IF p[2] \in 1..n
                                       THEN Put(p[1], segment[p[2]]) ELSE start]
           Recursive(f) == f = [k \in 0..n |-> IF k = 0 THEN start
                                               ELSE Put(f[k - 1], segment[k])]
           appended == CHOOSE f : Recursive(f)
<1>1. n \in Nat /\ start \in T /\ \A i \in 1..n : segment[i] \in Bytes
  OBVIOUS
<1>2. \A c \in T, i \in 1..n : Put(c, segment[i]) \in T
  BY <1>1, PutCases
<1>3. Appended(segment) = appended[n]
  BY DEF Appended, Store
<1> HIDE DEF T, n
<1>4. step \in [T \X Nat -> T]
  BY <1>1, <1>2
<1>5. \A c \in T, i \in 1..n : step[<<c, i>>] = Put(c, segment[i])
  <2> SUFFICES ASSUME NEW c \in T, NEW i \in 1..n
               PROVE  step[<<c, i>>] = Put(c, segment[i])
    OBVIOUS
  <2>1. <<c, i>> \in T \X Nat
    BY <1>1
  <2> QED
    BY <2>1
<1> HIDE DEF step, start
<1>6. PICK f : Follows(f, T, start, n, step)
  BY <1>1, <1>4, LoopExists, Zenon
<1>7. /\ f \in [0..n -> T] /\ f[0] = start
      /\ \A i \in 1..n : f[i] = step[<<f[i - 1], i>>]
  BY <1>6 DEF Follows
<1>8. \A i \in 1..n : f[i] = Put(f[i - 1], segment[i])
  <2> SUFFICES ASSUME NEW i \in 1..n PROVE f[i] = Put(f[i - 1], segment[i])
    OBVIOUS
  <2>1. f[i - 1] \in T
    BY <1>1, <1>7
  <2> QED
    BY <1>5, <1>7, <2>1
<1>9. Recursive(f)
  <2>1. \A k \in 0..n : f[k] = IF k = 0 THEN start
          ELSE Put(f[k - 1], segment[k])
    BY <1>1, <1>7, <1>8
  <2>2. f = [k \in 0..n |-> f[k]]
    BY <1>7
  <2> QED
    BY <2>1, <2>2
<1>10. Recursive(appended)
  <2> HIDE DEF Recursive
  <2> QED
    BY <1>9
<1> HIDE DEF appended
<1>11. appended[0] = start
  BY <1>1, <1>10
<1>12. \A i \in 1..n : appended[i] = Put(appended[i - 1], segment[i])
  BY <1>1, <1>10
<1> DEFINE SoFar(i) == Held(Store) \o SubSeq(segment, 1, i)
           P(i) == /\ appended[i] \in T /\ StoreIsSound(appended[i])
                   /\ Held(appended[i]) = SoFar(i)
                   /\ Len(SoFar(i)) = Len(Held(Store)) + i
           A == {i \in Nat : i \in 0..n => P(i)}
<1>A. Held(Store) \in Seq(Bytes) /\ Len(Held(Store)) \in Nat
  BY HeldType
<1>13. 0 \in A
  <2>1. SoFar(0) = Held(Store)
    <3>1. SubSeq(segment, 1, 0) = <<>>
      BY SubSeqEmpty
    <3> QED
      BY <1>A, <3>1
  <2> HIDE DEF SoFar
  <2>2. P(0)
    BY <1>1, <1>11, <1>A, <2>1 DEF start
  <2> QED
    BY <2>2
<1>14. ASSUME NEW i \in Nat, i \in A PROVE i + 1 \in A
  <2> SUFFICES ASSUME i + 1 \in 0..n PROVE P(i + 1)
    OBVIOUS
  <2>1. i \in 0..n /\ i + 1 \in 1..n /\ (i + 1) - 1 = i
    BY <1>1
  <2>2. P(i)
    BY <1>14, <2>1
  <2>3. SoFar(i) \in Seq(Bytes)
          /\ SoFar(i + 1) = Append(SoFar(i), segment[i + 1])
    BY <1>A, <2>1, SubSeqGrows DEF n
  <2>4. segment[i + 1] \in Bytes
    BY <1>1, <2>1
  <2>5. appended[i + 1] = Put(appended[i], segment[i + 1])
    BY <1>12, <2>1
  <2> HIDE DEF SoFar
  <2>6. Len(SoFar(i)) <= MaxFrameBytes
    <3>1. Len(Held(Store)) + n <= MaxFrameBytes + 1
      BY DEF n
    <3> QED
      BY <1>1, <1>A, <2>1, <2>2, <3>1, DecoderAssumption
  <2>7. appended[i + 1] \in T
    BY <1>2, <2>1, <2>2, <2>5
  <2>8. /\ StoreIsSound(appended[i + 1])
        /\ Held(appended[i + 1]) = Append(SoFar(i), segment[i + 1])
    BY <2>2, <2>4, <2>5, <2>6, PutHolds DEF T
  <2>9. Len(SoFar(i + 1)) = Len(Held(Store)) + (i + 1)
    BY <1>A, <2>2, <2>3, <2>4
  <2> QED
    BY <2>3, <2>7, <2>8, <2>9
<1>15. P(n)
  <2> HIDE DEF A
  <2>1. \A i \in Nat : i \in A
    BY <1>13, <1>14, SetInduction
  <2> HIDE DEF P
  <2> QED
    BY <1>1, <2>1 DEF A
<1>16. SoFar(n) = Held(Store) \o segment
  BY SubSeqFull DEF n
<1> QED
  BY <1>3, <1>15, <1>16 DEF T

-----------------------------------------------------------------------------
(* The invariant: the property and the types; a chunk is dropped at the end. *)
Frames == [message : Seq(Bytes), byteLength : Nat]

DecoderShape ==
  /\ blocks \in Seq(Seq(Bytes)) /\ tail \in Seq(Bytes) /\ capacity \in Int
  /\ failed \in BOOLEAN /\ finished \in BOOLEAN /\ refused \in BOOLEAN
  /\ rest \in Seq(Bytes) /\ stream \in Seq(Bytes) /\ frames \in Seq(Frames)
  /\ failed \/ finished \/ refused => rest = <<>>

DecoderInv == DecoderShape /\ ChunkingIsIrrelevant

(* What the invariant says of the variables, said of the store. *)
LEMMA StoreMeans ==
  ASSUME DecoderShape
  PROVE  /\ Store \in Stores /\ Held(Store) = FlattenSeq(blocks) \o tail
         /\ BlocksAreBounded <=> StoreIsSound(Store)
         /\ Len(Held(Store)) = BufferedBytes(blocks, tail)
<1>1. /\ blocks \in Seq(Seq(Bytes)) /\ tail \in Seq(Bytes) /\ capacity \in Int
  BY DEF DecoderShape
<1>2. /\ Store \in Stores /\ Store.blocks = blocks /\ Store.tail = tail
      /\ Store.capacity = capacity
  BY <1>1 DEF Store, Stores
<1>3. /\ Len(Held(Store)) = BufferedBytes(blocks, tail)
      /\ Len(Held(Store)) = Len(FlattenSeq(blocks)) + Len(tail)
      /\ Len(FlattenSeq(blocks)) \in Nat /\ Len(tail) \in Nat
  <2>1. /\ Len(Held(Store)) = BufferedBytes(Store.blocks, Store.tail)
        /\ Len(Held(Store)) = Len(FlattenSeq(Store.blocks)) + Len(Store.tail)
        /\ Len(FlattenSeq(Store.blocks)) \in Nat /\ Len(Store.tail) \in Nat
    BY <1>2, HeldType, Zenon
  <2> QED
    BY <1>2, <2>1
<1>4. Held(Store) = FlattenSeq(blocks) \o tail
  BY <1>2 DEF Held
<1>5. BlocksAreBounded <=> StoreIsSound(Store)
  <2>1. StoreIsSound(Store) <=>
          /\ \A k \in DOMAIN blocks : blocks[k] # <<>>
               /\ Len(blocks[k]) <= BlockBytes
          /\ \/ Len(tail) < capacity /\ capacity <= BlockBytes
             \/ tail = <<>> /\ capacity = 0
          /\ Len(FlattenSeq(blocks)) + capacity <= MaxFrameBytes + 1
    BY <1>2 DEF StoreIsSound
  <2>2. ASSUME StoreIsSound(Store)
        PROVE  BufferedBytes(blocks, tail) <= MaxFrameBytes + 1
    <3> DEFINE full == Len(FlattenSeq(blocks))
               open == Len(tail)
               held == BufferedBytes(blocks, tail)
    <3>1. /\ full \in Nat /\ open \in Nat /\ held = full + open
          /\ capacity \in Int /\ MaxFrameBytes \in Nat
          /\ full + capacity <= MaxFrameBytes + 1
          /\ open < capacity \/ (open = 0 /\ capacity = 0)
      BY <1>1, <1>3, <2>1, <2>2, DecoderAssumption
    <3> HIDE DEF full, open, held
    <3>2. held <= MaxFrameBytes + 1
      BY <3>1
    <3> QED
      BY <3>2 DEF held
  <2> QED
    BY <2>1, <2>2 DEF BlocksAreBounded
<1> QED
  BY <1>2, <1>3, <1>4, <1>5

(* After a frame or a failure nothing is held. *)
LEMMA ResetHolds ==
  ASSUME ResetBuffer
  PROVE  /\ BlocksAreBounded' /\ (FlattenSeq(blocks) \o tail)' = <<>>
         /\ blocks' \in Seq(Seq(Bytes)) /\ tail' \in Seq(Bytes)
         /\ capacity' \in Int
<1>1. /\ blocks' = <<>> /\ tail' = <<>> /\ capacity' = 0
      /\ MaxFrameBytes \in Nat
      /\ FlattenSeq(blocks') = <<>> /\ Len(<<>>) = 0
  BY FlattenNone, DecoderAssumption DEF ResetBuffer
<1>2. BufferedBytes(blocks', tail') = 0
  BY <1>1 DEF BufferedBytes
<1>3. BlocksAreBounded'
  BY <1>1, <1>2 DEF BlocksAreBounded
<1> QED
  BY <1>1, <1>3

(* Where the next newline is. *)
LEMMA SegmentMeans ==
  ASSUME rest \in Seq(Bytes)
  PROVE  /\ Segment \in Seq(Bytes)
         /\ \A j \in 1..Len(Segment) : Segment[j] # "lf"
         /\ NewlineIndex = 0 => Segment = rest
         /\ Rest \in Seq(Bytes)
<1> DEFINE ends == {i \in 1..Len(rest) : rest[i] = "lf"}
<1>1. Len(rest) \in Nat /\ \A i \in 1..Len(rest) : rest[i] \in Bytes
  OBVIOUS
<1>2. "lf" \in ToSet(rest) <=> ends # {}
  BY DEF ToSet
<1>3. CASE ends = {}
  <2>1. NewlineIndex = 0
    BY <1>2, <1>3 DEF NewlineIndex
  <2>2. Segment = rest
    BY <2>1 DEF Segment
  <2>3. Rest = SubSeq(rest, 1, Len(rest))
    BY <2>1 DEF Rest
  <2> QED
    BY <1>1, <1>3, <2>2, <2>3, SubSeqFull
<1>4. CASE ends # {}
  <2> DEFINE Ends(i) == rest[i] = "lf" /\ \A j \in 1..i - 1 : rest[j] # "lf"
  <2>1. PICK i \in ends : \A j \in ends : i <= j
    <3>1. ends \subseteq Nat
      OBVIOUS
    <3> HIDE DEF ends
    <3> QED
      BY <1>4, <3>1, LeastExists
  <2>2. i \in DOMAIN rest /\ rest[i] = "lf"
    BY <2>1
  <2>3. \A j \in 1..i - 1 : rest[j] # "lf"
    <3> SUFFICES ASSUME NEW j \in 1..i - 1, rest[j] = "lf" PROVE FALSE
      OBVIOUS
    <3>1. j \in ends /\ ~(i <= j)
      BY <1>1, <2>2
    <3> QED
      BY <2>1, <3>1
  <2>4. NewlineIndex = CHOOSE k \in DOMAIN rest : Ends(k)
    BY <1>2, <1>4 DEF NewlineIndex
  <2>5. NewlineIndex \in DOMAIN rest /\ Ends(NewlineIndex)
    <3>1. \E k \in DOMAIN rest : Ends(k)
      BY <2>2, <2>3
    <3> HIDE DEF Ends
    <3> QED
      BY <2>4, <3>1, Zenon
  <2>6. /\ NewlineIndex \in 1..Len(rest)
        /\ \A j \in 1..NewlineIndex - 1 : rest[j] # "lf"
    BY <2>5
  <2> DEFINE k == NewlineIndex
  <2>7. Segment = SubSeq(rest, 1, k - 1)
          /\ Rest = SubSeq(rest, k + 1, Len(rest))
    BY <1>1, <2>6 DEF Segment, Rest
  <2>8. /\ SubSeq(rest, 1, k - 1) \in Seq(Bytes)
        /\ \A j \in 1..Len(SubSeq(rest, 1, k - 1)) :
             SubSeq(rest, 1, k - 1)[j] # "lf"
    <3> HIDE DEF k
    <3>1. k \in 1..Len(rest) /\ \A j \in 1..k - 1 : rest[j] # "lf"
      BY <2>6 DEF k
    <3>2. k - 1 \in Nat /\ \A j \in 1..k - 1 : rest[j] \in Bytes
      BY <1>1, <3>1
    <3>3. /\ SubSeq(rest, 1, k - 1) \in Seq(Bytes)
          /\ Len(SubSeq(rest, 1, k - 1)) =
               IF 1 <= k - 1 THEN (k - 1) - 1 + 1 ELSE 0
          /\ \A j \in 1..(k - 1) - 1 + 1 :
               SubSeq(rest, 1, k - 1)[j] = rest[1 + j - 1]
      BY <3>2, SubSeqProperties
    <3> DEFINE part == SubSeq(rest, 1, k - 1)
    <3>4. Len(part) = k - 1
      <4> DEFINE m == Len(part)
      <4>1. m = IF 1 <= k - 1 THEN (k - 1) - 1 + 1 ELSE 0
        BY <3>3
      <4> HIDE DEF m
      <4>2. m = k - 1
        BY <3>2, <4>1
      <4> QED
        BY <4>2 DEF m
    <3>5. ASSUME NEW j \in 1..k - 1 PROVE part[j] # "lf"
      <4>1. j \in 1..(k - 1) - 1 + 1 /\ 1 + j - 1 = j
        BY <3>2
      <4>2. part[j] = rest[j]
        BY <3>3, <4>1
      <4> QED
        BY <3>1, <4>2
    <3> HIDE DEF part
    <3>6. \A j \in 1..Len(part) : part[j] # "lf"
      BY <3>4, <3>5
    <3> QED
      BY <3>3, <3>6 DEF part
  <2>9. SubSeq(rest, k + 1, Len(rest)) \in Seq(Bytes)
    <3>1. k + 1 \in Int /\ Len(rest) \in Int
            /\ \A j \in k + 1..Len(rest) : rest[j] \in Bytes
      BY <1>1, <2>6
    <3> HIDE DEF k
    <3> QED
      BY <3>1, SubSeqProperties
  <2>10. NewlineIndex # 0
    BY <2>6
  <2> HIDE DEF k
  <2> QED
    BY <2>7, <2>8, <2>9, <2>10
<1> QED
  BY <1>3, <1>4

(* #append refuses a segment when the line it belongs to can be no frame. *)
LEMMA FitsMeans ==
  ASSUME DecoderShape, NEW segment \in Seq(Bytes), NEW line, line = Held(Store),
         Len(StripCr(line)) <= MaxFrameBytes
  PROVE  /\ FrameFits(segment) <=>
              Len(StripCr(line \o segment)) <= MaxFrameBytes
         /\ FrameFits(segment) => Len(line) + Len(segment) <= MaxFrameBytes + 1
<1>1. /\ line \in Seq(Bytes) /\ Len(line) = BufferedBytes(blocks, tail)
      /\ MaxFrameBytes \in Nat /\ Len(line) \in Nat /\ Len(segment) \in Nat
  <2>1. line \in Seq(Bytes)
    BY StoreMeans, HeldType
  <2> QED
    BY <2>1, StoreMeans, DecoderAssumption
<1>2. Len(line) <= MaxFrameBytes + 1
  <2>1. Len(StripCr(line)) = Len(line) - 1 \/ Len(StripCr(line)) = Len(line)
    BY <1>1, Stripped
  <2> QED
    BY <1>1, <2>1
<1>3. CASE segment = <<>>
  <2>1. FrameFits(segment) /\ line \o segment = line /\ Len(segment) = 0
    BY <1>1, <1>3, ConcatEmptySeq DEF FrameFits
  <2> QED
    BY <1>1, <1>2, <2>1
<1>4. CASE segment # <<>>
  <2> DEFINE whole == line \o segment
  <2>1. /\ whole \in Seq(Bytes) /\ Len(whole) = Len(line) + Len(segment)
        /\ \A i \in 1..Len(line) + Len(segment) :
             whole[i] = IF i <= Len(line) THEN line[i]
               ELSE segment[i - Len(line)]
    BY <1>1, ConcatProperties
  <2>2. Len(segment) # 0
    BY <1>4
  <2> HIDE DEF whole
  <2>3. whole # <<>> /\ Last(whole) = Last(segment)
    <3>1. /\ Len(whole) \in 1..Len(line) + Len(segment)
          /\ ~(Len(whole) <= Len(line)) /\ Len(whole) - Len(line) = Len(segment)
      BY <1>1, <2>1, <2>2
    <3>2. whole[Len(whole)] = segment[Len(segment)]
      BY <2>1, <3>1
    <3>3. whole # <<>>
      BY <3>1
    <3> QED
      BY <3>2, <3>3 DEF Last
  <2>4. EndsWithCr(whole) <=> EndsWithCr(segment)
    BY <1>4, <2>3 DEF EndsWithCr
  <2>5. Len(StripCr(whole)) =
          IF EndsWithCr(segment) THEN Len(line) + Len(segment) - 1
                                 ELSE Len(line) + Len(segment)
    BY <2>1, <2>4, Stripped
  <2>6. FrameFits(segment) <=>
          \/ Len(line) + Len(segment) <= MaxFrameBytes
          \/ Len(line) + Len(segment) = MaxFrameBytes + 1 /\ EndsWithCr(segment)
    BY <1>1, <1>4 DEF FrameFits
  <2>7. FrameFits(segment) <=> Len(StripCr(whole)) <= MaxFrameBytes
    <3>1. CASE EndsWithCr(segment)
      BY <1>1, <2>5, <2>6, <3>1
    <3>2. CASE ~EndsWithCr(segment)
      BY <1>1, <2>5, <2>6, <3>2
    <3> QED
      BY <3>1, <3>2
  <2>8. FrameFits(segment) => Len(line) + Len(segment) <= MaxFrameBytes + 1
    BY <1>1, <2>6
  <2> QED
    BY <2>7, <2>8 DEF whole
<1> QED
  BY <1>3, <1>4

-----------------------------------------------------------------------------
(* One turn of #decodeChunk.  The frames are still the lines when the output has
   no other ends of frames. *)
LEMMA FramesStay ==
  ASSUME FramesAreLines, SameLines(stream, stream'),
         UNCHANGED <<frames, refused>>
  PROVE  FramesAreLines'
<1>1. FrameEnds(stream') = FrameEnds(stream)
  BY DEF SameLines
<1>2. \A i \in FrameEnds(stream) :
        /\ Ordinal(stream', i) = Ordinal(stream, i)
        /\ Line(stream', i) = Line(stream, i)
  BY <1>1 DEF SameLines, Ordinal
<1> QED
  BY <1>1, <1>2 DEF FramesAreLines

(* The line of a turn: what is held, and the segment. *)
Whole == Unfinished(stream) \o Segment

(* Before a turn no line was bad; its segment makes the unfinished longer. *)
LEMMA TurnBegins ==
  ASSUME DecoderInv, DecodeChunk
  PROVE  /\ ~failed /\ ~finished /\ ~refused /\ finished' = finished
         /\ Broken(stream) = {} /\ Unfinished(stream) \in Seq(Bytes)
         /\ Unfinished(stream) = Held(Store)
         /\ Len(StripCr(Unfinished(stream))) <= MaxFrameBytes
         /\ Segment \in Seq(Bytes) /\ Whole \in Seq(Bytes)
         /\ stream \o Segment \in Seq(Bytes)
         /\ SameLines(stream, stream \o Segment)
         /\ Broken(stream \o Segment) = {}
         /\ Unfinished(stream \o Segment) = Whole
         /\ NewlineIndex = 0 => stream' = stream \o Segment
         /\ NewlineIndex # 0 => stream' = Append(stream \o Segment, "lf")
<1>1. rest # <<>> /\ DecoderShape
  BY DEF DecodeChunk, DecoderInv
<1>2. ~failed /\ ~finished /\ ~refused /\ rest \in Seq(Bytes)
        /\ stream \in Seq(Bytes)
  BY <1>1 DEF DecoderShape
<1>3. /\ Broken(stream) = {}
      /\ Len(StripCr(Unfinished(stream))) <= MaxFrameBytes
      /\ Unfinished(stream) = Held(Store)
  <2>1. ~(Broken(stream) # {})
          /\ ~(Len(StripCr(Unfinished(stream))) > MaxFrameBytes)
          /\ FlattenSeq(blocks) \o tail = Unfinished(stream)
    BY <1>2 DEF DecoderInv, ChunkingIsIrrelevant
  <2>2. Unfinished(stream) \in Seq(Bytes)
    BY <1>1, <2>1, StoreMeans, HeldType
  <2>3. Len(StripCr(Unfinished(stream))) \in Nat /\ MaxFrameBytes \in Nat
    BY <2>2, Stripped, DecoderAssumption
  <2> QED
    BY <1>1, <2>1, <2>3, StoreMeans
<1>4. Unfinished(stream) \in Seq(Bytes)
  BY <1>1, <1>3, StoreMeans, HeldType
<1>5. Segment \in Seq(Bytes) /\ \A j \in 1..Len(Segment) : Segment[j] # "lf"
  BY <1>2, SegmentMeans
<1>6. /\ SameLines(stream, stream \o Segment) /\ Broken(stream \o Segment) = {}
      /\ Unfinished(stream \o Segment) = Whole
  BY <1>2, <1>3, <1>5, NoNewLine, LineGrows DEF Whole
<1>7. stream \o Segment \in Seq(Bytes) /\ Whole \in Seq(Bytes)
  BY <1>2, <1>4, <1>5, ConcatProperties DEF Whole
<1>8. NewlineIndex = 0 => stream' = stream \o Segment
  <2>1. NewlineIndex = 0 => stream' = (stream \o Segment) \o <<>>
    BY DEF DecodeChunk
  <2> QED
    BY <1>7, <2>1, ConcatEmptySeq
<1>9. NewlineIndex # 0 => stream' = Append(stream \o Segment, "lf")
  <2>1. NewlineIndex # 0 => stream' = (stream \o Segment) \o <<"lf">>
    BY DEF DecodeChunk
  <2>2. "lf" \in Bytes
    BY DEF Bytes
  <2> QED
    BY <1>7, <2>1, <2>2, AppendIsConcat
<1>10. finished' = finished
  BY DEF DecodeChunk
<1> QED
  BY <1>2, <1>3, <1>4, <1>5, <1>6, <1>7, <1>8, <1>9, <1>10

(* The decoder may fail where the output gives it a reason, *)
LEMMA FailHolds ==
  ASSUME DecoderInv, Fail, stream' \in Seq(Bytes), finished' \in BOOLEAN,
         SameLines(stream, stream'),
         \/ Broken(stream') # {}
         \/ Len(StripCr(Unfinished(stream'))) > MaxFrameBytes
         \/ finished' /\ Unfinished(stream') # <<>>
  PROVE  DecoderInv'
<1>1. /\ failed' = TRUE /\ rest' = <<>> /\ UNCHANGED <<frames, refused>>
      /\ BlocksAreBounded' /\ blocks' \in Seq(Seq(Bytes))
      /\ tail' \in Seq(Bytes)
      /\ capacity' \in Int
  BY ResetHolds DEF Fail
<1>2. FramesAreLines'
  BY <1>1, FramesStay DEF DecoderInv, ChunkingIsIrrelevant
<1>3. DecoderShape'
  <2>1. frames \in Seq(Frames) /\ refused \in BOOLEAN /\ <<>> \in Seq(Bytes)
    BY DEF DecoderInv, DecoderShape
  <2> QED
    BY <1>1, <2>1 DEF DecoderShape
<1>4. ChunkingIsIrrelevant'
  BY <1>1, <1>2 DEF ChunkingIsIrrelevant
<1> QED
  BY <1>3, <1>4 DEF DecoderInv

(* such as a line that is no frame; *)
LEMMA LineFails ==
  ASSUME DecoderInv, DecodeChunk, NewlineIndex # 0, ~IsFrame(Whole), Fail
  PROVE  DecoderInv'
<1>1. /\ stream' \in Seq(Bytes) /\ Broken(stream') # {}
      /\ SameLines(stream \o Segment, stream')
  BY TurnBegins, OneMoreLine
<1>2. SameLines(stream, stream \o Segment) /\ finished' = finished
  BY TurnBegins
<1>3. SameLines(stream, stream')
  BY <1>1, <1>2 DEF SameLines
<1>4. finished' \in BOOLEAN
  BY <1>2 DEF DecoderInv, DecoderShape
<1> QED
  BY <1>1, <1>3, <1>4, FailHolds

(* a line that is one is the next frame, and the consumer takes it or throws; *)
LEMMA FrameCompletes ==
  ASSUME DecoderInv, DecodeChunk, NewlineIndex # 0, IsFrame(Whole),
         Complete(StripCr(Whole))
  PROVE  DecoderInv'
<1> DEFINE out == stream \o Segment
           last == Len(out) + 1
           frame ==
             [message |-> StripCr(Whole), byteLength |-> Len(StripCr(Whole))]
<1>0. DecoderShape /\ FramesAreLines
  BY DEF DecoderInv, ChunkingIsIrrelevant
<1>1. /\ stream' \in Seq(Bytes) /\ Unfinished(stream') = <<>>
      /\ Broken(stream') = {}
      /\ FrameEnds(stream') = FrameEnds(out) \union {last}
      /\ Line(stream', last) = Whole
      /\ \A i \in FrameEnds(out) :
           Line(stream', i) = Line(out, i)
             /\ Ordinal(stream', i) = Ordinal(out, i)
      /\ Cardinality(FrameEnds(stream')) = Cardinality(FrameEnds(out)) + 1
      /\ Ordinal(stream', last) = Cardinality(FrameEnds(out)) + 1
  BY TurnBegins, OneMoreLine
<1>2. FrameEnds(out) = FrameEnds(stream)
        /\ \A i \in FrameEnds(stream) : Line(out, i) = Line(stream, i)
  BY TurnBegins DEF SameLines
<1>3. \A i \in FrameEnds(stream) :
        Line(stream', i) = Line(stream, i)
          /\ Ordinal(stream', i) = Ordinal(stream, i)
  BY <1>1, <1>2 DEF Ordinal
<1> DEFINE n == Cardinality(FrameEnds(stream))
<1>4. n = Len(frames) /\ n \in Nat
  <2>1. n \in Nat
    <3>1. FrameEnds(stream) \subseteq Newlines(stream) /\ stream \in Seq(Bytes)
      BY <1>0 DEF FrameEnds, DecoderShape
    <3>2. IsFiniteSet(FrameEnds(stream))
      BY <3>1, NewlinesAreFinite, FS_Subset
    <3> QED
      BY <3>2, FS_CardinalityType
  <2>2. Len(frames) = n - 0
    BY <1>0, TurnBegins DEF FramesAreLines
  <2> QED
    BY <2>1, <2>2
<1>5. \A i \in FrameEnds(stream) : Ordinal(stream, i) \in 1..n
  BY <1>0, OrdinalIsPosition DEF DecoderShape
<1>6. \A i \in FrameEnds(stream) :
        frames[Ordinal(stream, i)] =
          [message    |-> StripCr(Line(stream, i)),
           byteLength |-> Len(StripCr(Line(stream, i)))]
  BY <1>0, <1>4, <1>5 DEF FramesAreLines
<1>7. /\ Cardinality(FrameEnds(stream')) = n + 1
      /\ Ordinal(stream', last) = n + 1
      /\ FrameEnds(stream') = FrameEnds(stream) \union {last}
      /\ Line(stream', last) = Whole
  BY <1>1, <1>2
<1>8. /\ frame \in Frames /\ frames \in Seq(Frames)
      /\ StripCr(Whole) \in Seq(Bytes)
  <2>1. StripCr(Whole) \in Seq(Bytes)
    BY TurnBegins, Stripped
  <2> QED
    BY <1>0, <2>1 DEF DecoderShape, Frames
<1> HIDE DEF frame, n, last, out
<1>9. \/ frames' = Append(frames, frame) /\ refused' = FALSE
      \/ frames' = frames /\ refused' = TRUE
  BY DEF Complete, Consume, frame
<1>10. FramesAreLines' /\ frames' \in Seq(Frames) /\ refused' \in BOOLEAN
  <2>1. CASE frames' = Append(frames, frame) /\ refused' = FALSE
    <3>1. /\ frames' \in Seq(Frames) /\ Len(frames') = n + 1
          /\ frames'[n + 1] = frame
          /\ \A k \in 1..n : frames'[k] = frames[k]
      BY <1>4, <1>8, <2>1, AppendProperties
    <3>2. Len(frames') = Cardinality(FrameEnds(stream')) - 0
      BY <1>4, <1>7, <3>1
    <3>3. ASSUME NEW i \in FrameEnds(stream')
          PROVE  frames'[Ordinal(stream', i)] =
                   [message    |-> StripCr(Line(stream', i)),
                    byteLength |-> Len(StripCr(Line(stream', i)))]
      <4>1. CASE i = last
        BY <1>7, <3>1, <4>1 DEF frame
      <4>2. CASE i \in FrameEnds(stream)
        BY <1>3, <1>5, <1>6, <3>1, <4>2
      <4> QED
        BY <1>7, <4>1, <4>2
    <3> QED
      BY <2>1, <3>1, <3>2, <3>3 DEF FramesAreLines
  <2>2. CASE frames' = frames /\ refused' = TRUE
    <3>1. Len(frames') = Cardinality(FrameEnds(stream')) - 1
      BY <1>4, <1>7, <2>2
    <3>2. ASSUME NEW i \in FrameEnds(stream'),
                 Ordinal(stream', i) <= Len(frames')
          PROVE  frames'[Ordinal(stream', i)] =
                   [message    |-> StripCr(Line(stream', i)),
                    byteLength |-> Len(StripCr(Line(stream', i)))]
      <4>1. i # last
        BY <1>4, <1>7, <2>2, <3>2
      <4>2. i \in FrameEnds(stream)
        BY <1>7, <4>1
      <4> QED
        BY <1>3, <1>6, <2>2, <4>2
    <3> QED
      BY <1>8, <2>2, <3>1, <3>2 DEF FramesAreLines
  <2> QED
    BY <1>9, <2>1, <2>2
<1>11. /\ BlocksAreBounded' /\ (FlattenSeq(blocks) \o tail)' = <<>>
       /\ blocks' \in Seq(Seq(Bytes)) /\ tail' \in Seq(Bytes)
       /\ capacity' \in Int
  BY ResetHolds DEF Complete
<1>12. ~failed' /\ failed' \in BOOLEAN /\ ~finished' /\ finished' \in BOOLEAN
  BY <1>0, TurnBegins DEF Complete, DecoderShape
<1>13. rest' \in Seq(Bytes) /\ (refused' => rest' = <<>>)
  <2>1. rest' = IF refused' THEN <<>> ELSE Rest
    BY DEF Complete
  <2>2. Rest \in Seq(Bytes) /\ <<>> \in Seq(Bytes)
    BY <1>0, SegmentMeans DEF DecoderShape
  <2> QED
    BY <1>10, <2>1, <2>2
<1>14. DecoderShape'
  BY <1>1, <1>10, <1>11, <1>12, <1>13 DEF DecoderShape
<1>15. ~(Len(StripCr(Unfinished(stream'))) > MaxFrameBytes)
  <2>1. StripCr(<<>>) = <<>> /\ Len(<<>>) = 0 /\ MaxFrameBytes \in Nat
    BY DecoderAssumption DEF StripCr, EndsWithCr
  <2> QED
    BY <1>1, <2>1
<1>16. ChunkingIsIrrelevant'
  BY <1>1, <1>10, <1>11, <1>12, <1>15 DEF ChunkingIsIrrelevant
<1> QED
  BY <1>14, <1>16 DEF DecoderInv

(* and a line that may still become one is collected. *)
LEMMA RestIsCollected ==
  ASSUME DecoderInv, DecodeChunk, AppendRest
  PROVE  DecoderInv'
<1>1. NewlineIndex = 0 /\ Segment = rest /\ rest \in Seq(Bytes) /\ DecoderShape
  BY SegmentMeans DEF AppendRest, DecoderInv, DecoderShape
<1>2. /\ stream' = stream \o Segment /\ stream' \in Seq(Bytes)
      /\ SameLines(stream, stream') /\ Broken(stream') = {}
      /\ Unfinished(stream') = Whole /\ ~finished' /\ finished' \in BOOLEAN
      /\ Whole = Held(Store) \o rest
  <2>1. Unfinished(stream) = Held(Store) /\ finished' = finished /\ ~finished
    BY TurnBegins
  <2>2. Whole = Held(Store) \o rest
    BY <1>1, <2>1 DEF Whole
  <2>3. finished' \in BOOLEAN
    BY <1>1, <2>1 DEF DecoderShape
  <2>4. stream' = stream \o Segment
    BY <1>1, TurnBegins
  <2>5. /\ stream' \in Seq(Bytes) /\ SameLines(stream, stream')
        /\ Broken(stream') = {} /\ Unfinished(stream') = Whole
    BY <2>4, TurnBegins
  <2> QED
    BY <2>1, <2>2, <2>3, <2>4, <2>5
<1>3. /\ FrameFits(rest) <=> Len(StripCr(Whole)) <= MaxFrameBytes
      /\ FrameFits(rest) => Len(Held(Store)) + Len(rest) <= MaxFrameBytes + 1
  BY <1>1, <1>2, TurnBegins, FitsMeans
<1>4. Len(StripCr(Whole)) \in Nat /\ MaxFrameBytes \in Nat
  BY TurnBegins, Stripped, DecoderAssumption
<1>5. CASE ~FrameFits(rest)
  <2>1. Fail
    BY <1>5 DEF AppendRest
  <2>2. Len(StripCr(Unfinished(stream'))) > MaxFrameBytes
    BY <1>2, <1>3, <1>4, <1>5
  <2> QED
    BY <1>2, <2>1, <2>2, FailHolds
<1>6. CASE FrameFits(rest)
  <2>1. /\ blocks' = Appended(rest).blocks /\ tail' = Appended(rest).tail
        /\ capacity' = Appended(rest).capacity /\ rest' = <<>>
        /\ UNCHANGED <<failed, frames, refused>>
    BY <1>6 DEF AppendRest
  <2>2. Store \in Stores /\ StoreIsSound(Store)
    BY <1>1, StoreMeans DEF DecoderInv, ChunkingIsIrrelevant
  <2>3. /\ Appended(rest) \in Stores /\ StoreIsSound(Appended(rest))
        /\ Held(Appended(rest)) = Whole
    BY <1>1, <1>2, <1>3, <1>6, <2>2, AppendedHolds
  <2>4. /\ blocks' \in Seq(Seq(Bytes)) /\ tail' \in Seq(Bytes)
        /\ capacity' \in Int
        /\ Appended(rest) = Store'
    BY <2>1, <2>3 DEF Stores, Store
  <2>5. DecoderShape'
    <3>1. /\ frames \in Seq(Frames) /\ refused \in BOOLEAN /\ failed \in BOOLEAN
          /\ <<>> \in Seq(Bytes)
      BY <1>1 DEF DecoderShape
    <3> QED
      BY <1>2, <2>1, <2>4, <3>1 DEF DecoderShape
  <2>6. BlocksAreBounded' /\ (FlattenSeq(blocks) \o tail)' = Whole
    <3>1. (BlocksAreBounded <=> StoreIsSound(Store))'
            /\ (Held(Store) = FlattenSeq(blocks) \o tail)'
      BY <2>5, StoreMeans, PTL
    <3> QED
      BY <2>3, <2>4, <3>1
  <2>7. FramesAreLines'
    BY <1>2, <2>1, FramesStay DEF DecoderInv, ChunkingIsIrrelevant
  <2>8. ~failed' /\ ~(Len(StripCr(Unfinished(stream'))) > MaxFrameBytes)
    BY <1>2, <1>3, <1>4, <1>6, <2>1, TurnBegins
  <2>9. ChunkingIsIrrelevant'
    BY <1>2, <2>6, <2>7, <2>8 DEF ChunkingIsIrrelevant
  <2> QED
    BY <2>5, <2>9 DEF DecoderInv
<1> QED
  BY <1>5, <1>6

(* Nothing was collected: the line is the segment. *)
LEMMA DirectFrame ==
  ASSUME DecoderInv, DecodeChunk, CompleteDirectFrame
  PROVE  DecoderInv'
<1>1. NewlineIndex # 0 /\ BufferedBytes(blocks, tail) = 0 /\ DecoderShape
  BY DEF CompleteDirectFrame, DecoderInv
<1>2. Whole = Segment
  <2>1. Len(Held(Store)) = 0 /\ Held(Store) \in Seq(Bytes)
    BY <1>1, StoreMeans, HeldType
  <2>2. Unfinished(stream) = <<>>
    BY <2>1, TurnBegins, EmptySeq
  <2> QED
    BY <2>2, TurnBegins, ConcatEmptySeq DEF Whole
<1>3. CASE IsFrame(Whole)
  <2>1. Len(StripCr(Segment)) <= MaxFrameBytes /\ IsObject(StripCr(Segment))
    BY <1>2, <1>3 DEF IsFrame
  <2>2. Complete(StripCr(Segment))
    BY <2>1 DEF CompleteDirectFrame
  <2>3. Complete(StripCr(Whole))
    BY <1>2, <2>2 DEF Complete, Consume
  <2> QED
    BY <1>1, <1>3, <2>3, FrameCompletes
<1>4. CASE ~IsFrame(Whole)
  <2>1. ~(Len(StripCr(Segment)) <= MaxFrameBytes /\ IsObject(StripCr(Segment)))
    BY <1>2, <1>4 DEF IsFrame
  <2>2. Fail
    BY <2>1 DEF CompleteDirectFrame
  <2> QED
    BY <1>1, <1>4, <2>2, LineFails
<1> QED
  BY <1>3, <1>4

(* The line is what was collected and the segment. *)
LEMMA BufferedFrame ==
  ASSUME DecoderInv, DecodeChunk, CompleteBufferedFrame
  PROVE  DecoderInv'
<1>1. NewlineIndex # 0 /\ DecoderShape /\ Segment \in Seq(Bytes)
  BY TurnBegins DEF CompleteBufferedFrame, DecoderInv
<1>2. Unfinished(stream) = Held(Store) /\ Whole = Held(Store) \o Segment
  BY TurnBegins DEF Whole
<1>3. /\ FrameFits(Segment) <=> Len(StripCr(Whole)) <= MaxFrameBytes
      /\ FrameFits(Segment) =>
           Len(Held(Store)) + Len(Segment) <= MaxFrameBytes + 1
  <2>1. Len(StripCr(Held(Store))) <= MaxFrameBytes
    BY <1>2, TurnBegins
  <2> QED
    BY <1>1, <1>2, <2>1, FitsMeans
<1>4. Store \in Stores /\ StoreIsSound(Store)
  BY <1>1, StoreMeans DEF DecoderInv, ChunkingIsIrrelevant
<1> DEFINE bytes ==
             FlattenSeq(Appended(Segment).blocks) \o Appended(Segment).tail
<1>5. FrameFits(Segment) => bytes = Whole
  <2> SUFFICES ASSUME FrameFits(Segment) PROVE bytes = Whole
    OBVIOUS
  <2>1. Held(Appended(Segment)) = Whole
    BY <1>1, <1>2, <1>3, <1>4, AppendedHolds
  <2> QED
    BY <2>1 DEF Held
<1>6. \/ FrameFits(Segment) /\ IsObject(StripCr(bytes))
           /\ Complete(StripCr(bytes))
      \/ ~(FrameFits(Segment) /\ IsObject(StripCr(bytes))) /\ Fail
  BY DEF CompleteBufferedFrame
<1> HIDE DEF bytes
<1>7. CASE IsFrame(Whole)
  <2>1. FrameFits(Segment) /\ bytes = Whole /\ IsObject(StripCr(bytes))
    BY <1>3, <1>5, <1>7 DEF IsFrame
  <2>2. Complete(StripCr(bytes))
    BY <1>6, <2>1
  <2>3. Complete(StripCr(Whole))
    BY <2>1, <2>2 DEF Complete, Consume
  <2> QED
    BY <1>1, <1>7, <2>3, FrameCompletes
<1>8. CASE ~IsFrame(Whole)
  <2>1. ~(FrameFits(Segment) /\ IsObject(StripCr(bytes)))
    BY <1>3, <1>5, <1>8 DEF IsFrame
  <2>2. Fail
    BY <1>6, <2>1
  <2> QED
    BY <1>1, <1>8, <2>2, LineFails
<1> QED
  BY <1>7, <1>8

(* A chunk changes nothing until it is decoded. *)
LEMMA ChunkArrives ==
  ASSUME DecoderInv, PushEach
  PROVE  DecoderInv'
<1>1. PICK chunk \in SeqOf(Bytes, MaxChunk) : rest' = chunk
  BY DEF PushEach
<1>2. rest' \in Seq(Bytes)
  <2>1. PICK m \in 0..MaxChunk : chunk \in [1..m -> Bytes]
    BY DEF SeqOf
  <2>2. m \in Nat
    BY DecoderAssumption
  <2> QED
    BY <1>1, <2>1, <2>2
<1>3. /\ UNCHANGED <<blocks, tail, capacity, failed, finished, frames, refused,
           stream>>
      /\ ~failed /\ ~finished /\ ~refused
  BY DEF PushEach, buffer
<1>4. DecoderShape'
  BY <1>2, <1>3 DEF DecoderInv, DecoderShape
<1>5. FramesAreLines' /\ BlocksAreBounded'
  BY <1>3 DEF DecoderInv, ChunkingIsIrrelevant, FramesAreLines, BlocksAreBounded
<1>6. ChunkingIsIrrelevant'
  BY <1>3, <1>5 DEF DecoderInv, ChunkingIsIrrelevant
<1> QED
  BY <1>4, <1>6 DEF DecoderInv

(* The output may end unless it is within a line. *)
LEMMA OutputEnds ==
  ASSUME DecoderInv, Finish
  PROVE  DecoderInv'
<1>1. /\ rest = <<>> /\ ~failed /\ ~finished /\ ~refused /\ finished' = TRUE
      /\ stream' = stream /\ DecoderShape /\ ChunkingIsIrrelevant
  BY DEF Finish, DecoderInv
<1>2. /\ FlattenSeq(blocks) \o tail = Unfinished(stream)
      /\ Broken(stream) = {}
      /\ ~(Len(StripCr(Unfinished(stream))) > MaxFrameBytes)
  BY <1>1 DEF ChunkingIsIrrelevant
<1>3. /\ Unfinished(stream) \in Seq(Bytes)
      /\ Len(Unfinished(stream)) = BufferedBytes(blocks, tail)
  BY <1>1, <1>2, StoreMeans, HeldType
<1>4. CASE BufferedBytes(blocks, tail) = 0
  <2>1. UNCHANGED <<blocks, tail, capacity, failed, rest, frames, refused>>
    BY <1>4 DEF Finish, buffer
  <2>2. Unfinished(stream) = <<>>
    BY <1>3, <1>4, EmptySeq
  <2>3. DecoderShape'
    BY <1>1, <2>1 DEF DecoderShape
  <2>4. FramesAreLines' /\ BlocksAreBounded'
    BY <1>1, <2>1 DEF ChunkingIsIrrelevant, FramesAreLines, BlocksAreBounded
  <2>5. ~failed' /\ (FlattenSeq(blocks) \o tail)' = Unfinished(stream')
    BY <1>1, <1>2, <2>1
  <2>6. /\ Broken(stream') = {}
        /\ ~(Len(StripCr(Unfinished(stream'))) > MaxFrameBytes)
        /\ Unfinished(stream') = <<>>
    BY <1>1, <1>2, <2>2
  <2>7. ChunkingIsIrrelevant'
    BY <2>4, <2>5, <2>6 DEF ChunkingIsIrrelevant
  <2> QED
    BY <2>3, <2>7 DEF DecoderInv
<1>5. CASE BufferedBytes(blocks, tail) # 0
  <2>1. Fail
    BY <1>5 DEF Finish
  <2>2. SameLines(stream, stream')
    BY <1>1 DEF SameLines
  <2>3. stream' \in Seq(Bytes) /\ finished' \in BOOLEAN
    BY <1>1 DEF DecoderShape
  <2>4. Unfinished(stream') # <<>>
    BY <1>1, <1>3, <1>5
  <2> QED
    BY <1>1, <2>1, <2>2, <2>3, <2>4, FailHolds
<1> QED
  BY <1>4, <1>5

LEMMA DecoderInvInit == DecoderInit => DecoderInv
<1> SUFFICES ASSUME DecoderInit PROVE DecoderInv
  OBVIOUS
<1>1. /\ blocks = <<>> /\ tail = <<>> /\ capacity = 0 /\ failed = FALSE
      /\ finished = FALSE /\ rest = <<>> /\ frames = <<>> /\ refused = FALSE
      /\ stream = <<>>
  BY DEF DecoderInit
<1>2. DecoderShape
  <2>1. <<>> \in Seq(Seq(Bytes)) /\ <<>> \in Seq(Bytes) /\ <<>> \in Seq(Frames)
    OBVIOUS
  <2>2. failed \in BOOLEAN /\ finished \in BOOLEAN /\ refused \in BOOLEAN
    BY <1>1
  <2> QED
    BY <1>1, <2>1, <2>2 DEF DecoderShape
<1>3. Newlines(stream) = {} /\ Broken(stream) = {} /\ FrameEnds(stream) = {}
  BY <1>1 DEF Newlines, Broken, FrameEnds
<1>4. Unfinished(stream) = <<>>
  <2>1. stream \in Seq(Bytes) /\ 1 \in 1..Len(stream) + 1 /\ Len(stream) + 1 = 1
    BY <1>1
  <2>2. Max(Before(stream, 1)) \in 0..1 - 1
    BY <2>1, LineStarts
  <2>3. /\ Line(stream, 1) \in Seq(Bytes)
        /\ Len(Line(stream, 1)) = 1 - 1 - Max(Before(stream, 1))
    BY <2>1, LineType
  <2>4. Len(Line(stream, 1)) = 0
    BY <2>2, <2>3
  <2>5. Unfinished(stream) = Line(stream, 1)
    BY <2>1 DEF Unfinished
  <2> QED
    BY <2>3, <2>4, <2>5, EmptySeq
<1>5. FramesAreLines
  <2>1. Cardinality(FrameEnds(stream)) = 0
    BY <1>3, FS_EmptySet
  <2>2. Len(frames) = 0 /\ 0 - 0 = 0
    BY <1>1
  <2> QED
    BY <1>1, <1>3, <2>1, <2>2 DEF FramesAreLines
<1>6. BlocksAreBounded /\ FlattenSeq(blocks) \o tail = <<>>
  <2>1. FlattenSeq(blocks) = <<>> /\ Len(<<>>) = 0 /\ MaxFrameBytes \in Nat
    BY <1>1, FlattenNone, DecoderAssumption
  <2>2. BufferedBytes(blocks, tail) = 0
    BY <1>1, <2>1 DEF BufferedBytes
  <2>3. FlattenSeq(blocks) \o tail = <<>>
    BY <1>1, <2>1, ConcatEmptySeq
  <2> QED
    BY <1>1, <2>1, <2>2, <2>3 DEF BlocksAreBounded
<1>7. ~(Len(StripCr(Unfinished(stream))) > MaxFrameBytes)
  <2>1. StripCr(<<>>) = <<>> /\ Len(<<>>) = 0 /\ MaxFrameBytes \in Nat
    BY DecoderAssumption DEF StripCr, EndsWithCr
  <2> QED
    BY <1>4, <2>1
<1>8. ChunkingIsIrrelevant
  BY <1>1, <1>3, <1>4, <1>5, <1>6, <1>7 DEF ChunkingIsIrrelevant
<1> QED
  BY <1>2, <1>8 DEF DecoderInv

LEMMA DecoderInvNext == DecoderInv /\ [DecoderNext]_decoderVars => DecoderInv'
<1> SUFFICES ASSUME DecoderInv, [DecoderNext]_decoderVars PROVE DecoderInv'
  OBVIOUS
<1>1. CASE PushEach
  BY <1>1, ChunkArrives
<1>2. CASE DecodeChunk
  <2>1. CASE AppendRest
    BY <1>2, <2>1, RestIsCollected
  <2>2. CASE CompleteDirectFrame
    BY <1>2, <2>2, DirectFrame
  <2>3. CASE CompleteBufferedFrame
    BY <1>2, <2>3, BufferedFrame
  <2> QED
    BY <1>2, <2>1, <2>2, <2>3 DEF DecodeChunk
<1>3. CASE Finish
  BY <1>3, OutputEnds
<1>4. CASE UNCHANGED decoderVars
  <2>1. UNCHANGED <<blocks, tail, capacity, failed, finished, rest, frames,
          refused,
                    stream>>
    BY <1>4 DEF decoderVars, buffer
  <2>2. DecoderShape'
    BY <2>1 DEF DecoderInv, DecoderShape
  <2>3. ChunkingIsIrrelevant'
    BY <2>1
    DEF DecoderInv, ChunkingIsIrrelevant, FramesAreLines, BlocksAreBounded
  <2> QED
    BY <2>2, <2>3 DEF DecoderInv
<1> QED
  BY <1>1, <1>2, <1>3, <1>4 DEF DecoderNext, DecoderOver

(* However the output is cut into chunks, the frames are its lines up to the
   first bad one, with their own lengths; the decoder fails with that line, or
   as soon as a line is too long for any frame, or at an end within one; and it
   holds the unfinished line, in blocks that never exceed the limit. *)
THEOREM ChunkingIsIrrelevantAlways == DecoderSpec => []ChunkingIsIrrelevant
<1>1. DecoderInv => ChunkingIsIrrelevant
  BY DEF DecoderInv
<1> QED
  BY <1>1, DecoderInvInit, DecoderInvNext, PTL DEF DecoderSpec

-----------------------------------------------------------------------------
(* The tool catalogue *)

(* The tools of a catalogue that counts. *)
Fine(names) == IsInjective(names) /\ Len(names) <= MaxTools

(* One tool more keeps a catalogue fine if it is new and there is room. *)
LEMMA FineAppend ==
  ASSUME NEW S, NEW names \in Seq(S), NEW tool \in S
  PROVE  Fine(Append(names, tool)) <=>
           Fine(names) /\ ~Contains(names, tool) /\ Len(names) + 1 <= MaxTools
<1> DEFINE n == Len(names)
           more == Append(names, tool)
<1>1. /\ n \in Nat /\ DOMAIN names = 1..n /\ DOMAIN more = 1..n + 1
      /\ Len(more) = n + 1 /\ more[n + 1] = tool
      /\ \A i \in 1..n : more[i] = names[i]
  BY AppendProperties
<1>2. MaxTools \in Nat
  BY CatalogAssumption
<1> HIDE DEF more
<1>3. IsInjective(more) <=> IsInjective(names) /\ ~Contains(names, tool)
  <2>1. ASSUME IsInjective(names), ~Contains(names, tool)
        PROVE  IsInjective(more)
    <3> SUFFICES ASSUME NEW a \in 1..n + 1, NEW b \in 1..n + 1, more[a] =
                          more[b]
                 PROVE  a = b
      BY <1>1 DEF IsInjective
    <3> QED
      BY <1>1, <2>1 DEF IsInjective, Contains
  <2>2. ASSUME IsInjective(more)
        PROVE  IsInjective(names) /\ ~Contains(names, tool)
    <3>1. \A a, b \in 1..n + 1 : more[a] = more[b] => a = b
      BY <1>1, <2>2 DEF IsInjective
    <3>2. IsInjective(names)
      BY <1>1, <3>1 DEF IsInjective
    <3>3. ~Contains(names, tool)
      BY <1>1, <3>1 DEF Contains
    <3> QED
      BY <3>2, <3>3
  <2> QED
    BY <2>1, <2>2
<1> QED
  BY <1>1, <1>2, <1>3 DEF Fine, more

(* The loop over a page refuses it exactly when the whole would not be fine. *)
LEMMA AddedIsWhole ==
  ASSUME tools \in Seq(ToolNames), Fine(tools), NEW list \in Seq(ToolNames)
  PROVE  /\ Added(list).refused <=> ~Fine(tools \o list)
         /\ ~Added(list).refused => Added(list).tools = tools \o list
<1> DEFINE n == Len(list)
           T == [tools : Seq(ToolNames), refused : BOOLEAN]
           start == [tools |-> tools, refused |-> FALSE]
           step == [p \in T \X Nat |-> IF p[2] \in 1..n
                                        THEN AddTool(p[1], list[p[2]])
                                          ELSE start]
           Recursive(f) == f = [k \in 0..n |-> IF k = 0 THEN start
                                               ELSE AddTool(f[k - 1], list[k])]
           added == CHOOSE f : Recursive(f)
<1>1. n \in Nat /\ start \in T /\ \A i \in 1..n : list[i] \in ToolNames
  OBVIOUS
<1>2. \A c \in T, i \in 1..n : AddTool(c, list[i]) \in T
  <2> SUFFICES ASSUME NEW c \in T, NEW i \in 1..n
               PROVE  AddTool(c, list[i]) \in T
    OBVIOUS
  <2>1. list[i] \in ToolNames /\ c.tools \in Seq(ToolNames)
    BY <1>1
  <2>2. Append(c.tools, list[i]) \in Seq(ToolNames)
    BY <2>1
  <2>3. [c EXCEPT !.refused = TRUE] \in T
    OBVIOUS
  <2>4. [tools   |-> Append(c.tools, list[i]),
         refused |-> Len(c.tools) + 1 > MaxTools] \in T
    BY <2>2
  <2> HIDE DEF T
  <2> QED
    BY <2>3, <2>4 DEF AddTool
<1>3. Added(list) = added[n]
  BY DEF Added
<1> HIDE DEF T, n
<1>4. step \in [T \X Nat -> T]
  BY <1>1, <1>2
<1>5. \A c \in T, i \in 1..n : step[<<c, i>>] = AddTool(c, list[i])
  <2> SUFFICES ASSUME NEW c \in T, NEW i \in 1..n
               PROVE  step[<<c, i>>] = AddTool(c, list[i])
    OBVIOUS
  <2>1. <<c, i>> \in T \X Nat
    BY <1>1
  <2> QED
    BY <2>1
<1> HIDE DEF step, start
<1>6. PICK f : Follows(f, T, start, n, step)
  BY <1>1, <1>4, LoopExists, Zenon
<1>7. /\ f \in [0..n -> T] /\ f[0] = start
      /\ \A i \in 1..n : f[i] = step[<<f[i - 1], i>>]
  BY <1>6 DEF Follows
<1>8. \A i \in 1..n : f[i] = AddTool(f[i - 1], list[i])
  <2> SUFFICES ASSUME NEW i \in 1..n PROVE f[i] = AddTool(f[i - 1], list[i])
    OBVIOUS
  <2>1. f[i - 1] \in T
    BY <1>1, <1>7
  <2> QED
    BY <1>5, <1>7, <2>1
<1>9. Recursive(f)
  <2>1. \A k \in 0..n : f[k] = IF k = 0 THEN start
          ELSE AddTool(f[k - 1], list[k])
    BY <1>1, <1>7, <1>8
  <2>2. f = [k \in 0..n |-> f[k]]
    BY <1>7
  <2> QED
    BY <2>1, <2>2
<1>10. Recursive(added)
  <2> HIDE DEF Recursive
  <2> QED
    BY <1>9
<1> HIDE DEF added
<1>11. added[0] = start
  BY <1>1, <1>10
<1>12. \A i \in 1..n : added[i] = AddTool(added[i - 1], list[i])
  BY <1>1, <1>10
<1> DEFINE SoFar(i) == tools \o SubSeq(list, 1, i)
           P(i) == /\ added[i] \in T
                   /\ added[i].refused <=> ~Fine(SoFar(i))
                   /\ ~added[i].refused => added[i].tools = SoFar(i)
           A == {i \in Nat : i \in 0..n => P(i)}
<1>13. 0 \in A
  <2>1. SoFar(0) = tools
    <3>1. SubSeq(list, 1, 0) = <<>>
      BY SubSeqEmpty
    <3> QED
      BY <3>1
  <2>2. added[0] \in T /\ added[0].tools = tools /\ added[0].refused = FALSE
    BY <1>1, <1>11 DEF start
  <2> HIDE DEF SoFar
  <2>3. P(0)
    BY <2>1, <2>2
  <2> QED
    BY <2>3
<1>14. ASSUME NEW i \in Nat, i \in A PROVE i + 1 \in A
  <2> SUFFICES ASSUME i + 1 \in 0..n PROVE P(i + 1)
    OBVIOUS
  <2>1. i \in 0..n /\ i + 1 \in 1..n /\ (i + 1) - 1 = i
    BY <1>1
  <2>2. P(i)
    BY <1>14, <2>1
  <2>3. SoFar(i) \in Seq(ToolNames)
          /\ SoFar(i + 1) = Append(SoFar(i), list[i + 1])
    BY <2>1, SubSeqGrows DEF n
  <2>4. list[i + 1] \in ToolNames
    BY <1>1, <2>1
  <2>5. added[i + 1] = AddTool(added[i], list[i + 1])
    BY <1>12, <2>1
  <2>typed. added[i + 1] \in T
    BY <1>2, <2>1, <2>2, <2>5
  <2> HIDE DEF SoFar
  <2>6. Fine(SoFar(i + 1)) <=>
          /\ Fine(SoFar(i)) /\ ~Contains(SoFar(i), list[i + 1])
          /\ Len(SoFar(i)) + 1 <= MaxTools
    BY <2>3, <2>4, FineAppend
  <2>7. CASE added[i].refused
    BY <2>2, <2>5, <2>6, <2>7, <2>typed DEF AddTool
  <2>8. CASE ~added[i].refused
    <3>1. added[i].tools = SoFar(i) /\ Fine(SoFar(i))
      BY <2>2, <2>8
    <3>2. Len(SoFar(i)) \in Nat /\ MaxTools \in Nat
      BY <2>3, CatalogAssumption
    <3>3. CASE Contains(SoFar(i), list[i + 1])
      <4>1. added[i + 1] = [added[i] EXCEPT !.refused = TRUE]
        BY <2>5, <2>8, <3>1, <3>3 DEF AddTool
      <4>2. added[i + 1].refused = TRUE
        BY <2>2, <4>1 DEF T
      <4> QED
        BY <2>6, <2>typed, <3>3, <4>2
    <3>4. CASE ~Contains(SoFar(i), list[i + 1])
      <4>1. added[i + 1] = [tools   |-> Append(SoFar(i), list[i + 1]),
                            refused |-> Len(SoFar(i)) + 1 > MaxTools]
        BY <2>5, <2>8, <3>1, <3>4 DEF AddTool
      <4> DEFINE over == Len(SoFar(i)) + 1 > MaxTools
      <4>record. added[i + 1] =
                   [tools   |-> Append(SoFar(i), list[i + 1]), refused |-> over]
        BY <4>1
      <4>tools. added[i + 1].tools = SoFar(i + 1)
        BY <2>3, <4>1
      <4>2. added[i + 1].refused = over
        <5> HIDE DEF over
        <5> QED
          BY <4>record
      <4>3. Fine(SoFar(i + 1)) <=> ~(Len(SoFar(i)) + 1 > MaxTools)
        BY <2>6, <3>1, <3>2, <3>4
      <4> QED
        BY <2>typed, <4>2, <4>3, <4>tools
    <3> QED
      BY <3>3, <3>4
  <2> QED
    BY <2>7, <2>8
<1>15. P(n)
  <2> HIDE DEF A
  <2>1. \A i \in Nat : i \in A
    BY <1>13, <1>14, SetInduction
  <2> HIDE DEF P
  <2> QED
    BY <1>1, <2>1 DEF A
<1>16. SoFar(n) = tools \o list
  BY SubSeqFull DEF n
<1> QED
  BY <1>3, <1>15, <1>16

-----------------------------------------------------------------------------
(* The invariant: what the client keeps is what the pages say, and it asks only
   while the cursors are new. *)
Pages == [tools : Seq(ToolNames), next : Cursors \union {NoCursor}]

CatalogInv ==
  /\ pages \in Seq(Pages)
  /\ outcome # "refused" => tools = Listed
  /\ outcome = "asking" =>
       /\ page = Len(pages)
       /\ seen = {pages[k].next : k \in DOMAIN pages} /\ NoCursor \notin seen
  /\ CatalogIsWhole

(* What one more page adds to the whole. *)
LEMMA PageAdded ==
  ASSUME pages \in Seq(Pages), NEW list \in Seq(ToolNames),
         NEW next \in Cursors \union {NoCursor},
         pages' = Append(pages, [tools |-> list, next |-> next])
  PROVE  /\ pages' \in Seq(Pages) /\ Len(pages) \in Nat
         /\ Len(pages') = Len(pages) + 1
         /\ Listed \in Seq(ToolNames) /\ Listed' = Listed \o list
         /\ IsComplete' <=> next = NoCursor
         /\ {pages'[k].next : k \in DOMAIN pages'} =
              {pages[k].next : k \in DOMAIN pages} \union {next}
         /\ IsInjective(AskedWith)' <=>
              /\ IsInjective(AskedWith)
              /\ next \notin {pages[k].next : k \in DOMAIN pages}
<1> DEFINE n == Len(pages)
           new == [tools |-> list, next |-> next]
           lists == [k \in DOMAIN pages |-> pages[k].tools]
<1>1. new \in Pages /\ new.tools = list /\ new.next = next
  BY DEF Pages
<1>2. /\ n \in Nat /\ DOMAIN pages = 1..n /\ pages' \in Seq(Pages)
      /\ Len(pages') = n + 1 /\ DOMAIN pages' = 1..n + 1 /\ pages'[n + 1] = new
      /\ \A k \in 1..n : pages'[k] = pages[k]
  <2>1. pages' = Append(pages, new)
    OBVIOUS
  <2> HIDE DEF new
  <2> QED
    BY <1>1, <2>1, AppendProperties
<1>3. \A k \in 1..n : pages[k].tools \in Seq(ToolNames)
  <2> SUFFICES ASSUME NEW k \in 1..n PROVE pages[k].tools \in Seq(ToolNames)
    OBVIOUS
  <2>1. pages[k] \in Pages
    OBVIOUS
  <2> QED
    BY <2>1 DEF Pages
<1> HIDE DEF n, new
<1>4. lists \in Seq(Seq(ToolNames)) /\ Len(lists) = n /\ DOMAIN lists = 1..n
  BY <1>2, <1>3
<1>5. [k \in DOMAIN pages |-> pages[k].tools]' = Append(lists, list)
  <2> DEFINE after == [k \in 1..n + 1 |-> pages'[k].tools]
             more == Append(lists, list)
  <2>1. [k \in DOMAIN pages |-> pages[k].tools]' = after
    BY <1>2
  <2>2. /\ more \in Seq(Seq(ToolNames)) /\ Len(more) = n + 1
        /\ more[n + 1] = list
        /\ \A k \in 1..n : more[k] = lists[k]
    BY <1>4, AppendProperties
  <2>3. \A k \in 1..n : lists[k] = pages[k].tools
    BY <1>2
  <2> HIDE DEF lists, more
  <2>4. \A k \in 1..n + 1 : pages'[k].tools = more[k]
    <3> SUFFICES ASSUME NEW k \in 1..n + 1 PROVE pages'[k].tools = more[k]
      OBVIOUS
    <3>1. CASE k \in 1..n
      BY <1>2, <2>2, <2>3, <3>1
    <3>2. CASE k = n + 1
      BY <1>1, <1>2, <2>2, <3>2
    <3> QED
      BY <1>2, <3>1, <3>2
  <2>5. more = [k \in 1..n + 1 |-> more[k]]
    BY <1>2, <2>2
  <2>6. after = more
    BY <2>4, <2>5
  <2> QED
    BY <2>1, <2>6 DEF more
<1>6. Listed = FlattenSeq(lists) /\ Listed' = FlattenSeq(Append(lists, list))
  BY <1>5 DEF Listed
<1> HIDE DEF lists
<1>7. Listed \in Seq(ToolNames) /\ Listed' = Listed \o list
  BY <1>4, <1>6, FlattenIsSeq, FlattenAppend
<1>8. IsComplete' <=> next = NoCursor
  BY <1>1, <1>2 DEF IsComplete, Last
<1>9. {pages'[k].next : k \in DOMAIN pages'} =
        {pages[k].next : k \in DOMAIN pages} \union {next}
  BY <1>1, <1>2
<1>10. IsInjective(AskedWith)' <=>
         /\ IsInjective(AskedWith)
         /\ next \notin {pages[k].next : k \in DOMAIN pages}
  <2>1. IsInjective(AskedWith) <=>
          \A a, b \in 1..n : pages[a].next = pages[b].next => a = b
    BY DEF IsInjective, AskedWith, n
  <2>2. IsInjective(AskedWith)' <=>
          \A a, b \in 1..n + 1 : pages'[a].next = pages'[b].next => a = b
    BY <1>2 DEF IsInjective, AskedWith
  <2> QED
    BY <1>1, <1>2, <2>1, <2>2
<1> QED
  BY <1>2, <1>7, <1>8, <1>9, <1>10 DEF n

LEMMA CatalogInvInit == CatalogInit => CatalogInv
<1> SUFFICES ASSUME CatalogInit PROVE CatalogInv
  OBVIOUS
<1>1. pages = <<>> /\ Listed = <<>> /\ AskedWith = <<>> /\ ~IsComplete
  BY FlattenNone DEF CatalogInit, Listed, AskedWith, IsComplete
<1>2. IsSound
  BY <1>1, CatalogAssumption DEF IsSound, IsInjective
<1> QED
  BY <1>1, <1>2 DEF CatalogInit, CatalogInv, CatalogIsWhole

LEMMA CatalogInvNext == CatalogInv /\ [CatalogNext]_catalogVars => CatalogInv'
<1> SUFFICES ASSUME CatalogInv, [CatalogNext]_catalogVars PROVE CatalogInv'
  OBVIOUS
<1>1. ASSUME NEW list \in SeqOf(ToolNames, MaxPageTools),
             NEW next \in Cursors \union {NoCursor}, Answer(list, next)
      PROVE  CatalogInv'
  <2>1. list \in Seq(ToolNames)
    BY DEF SeqOf
  <2>2. /\ outcome = "asking" /\ IsSound /\ ~IsComplete /\ tools = Listed
        /\ pages \in Seq(Pages)
        /\ pages' = Append(pages, [tools |-> list, next |-> next])
        /\ page = Len(pages) /\ NoCursor \notin seen
        /\ seen = {pages[k].next : k \in DOMAIN pages}
    BY <1>1 DEF CatalogInv, CatalogIsWhole, Answer
  <2>3. /\ pages' \in Seq(Pages) /\ Len(pages) \in Nat
        /\ Len(pages') = Len(pages) + 1
        /\ Listed \in Seq(ToolNames) /\ Listed' = Listed \o list
        /\ IsComplete' <=> next = NoCursor
        /\ {pages'[k].next : k \in DOMAIN pages'} = seen \union {next}
        /\ IsInjective(AskedWith)' <=>
             IsInjective(AskedWith) /\ next \notin seen
    BY <2>1, <2>2, PageAdded
  <2>4. Fine(tools) /\ IsInjective(AskedWith) /\ Len(pages) < MaxListPages
    BY <2>2 DEF IsSound, Fine
  <2>5. /\ Added(list).refused <=> ~Fine(Listed')
        /\ ~Added(list).refused => Added(list).tools = Listed'
    BY <2>1, <2>2, <2>3, <2>4, AddedIsWhole
  <2>6. IsSound' <=>
          /\ ~Added(list).refused /\ next \notin seen
          /\ next = NoCursor \/ Len(pages') < MaxListPages
    BY <2>3, <2>4, <2>5 DEF IsSound, Fine
  <2>7. CASE Added(list).refused
    <3>1. outcome' = "refused" /\ ~IsSound'
      BY <1>1, <2>6, <2>7 DEF Answer
    <3> QED
      BY <2>3, <3>1 DEF CatalogInv, CatalogIsWhole
  <2>8. CASE ~Added(list).refused /\ next = NoCursor
    <3>1. outcome' = "listed" /\ IsSound' /\ IsComplete' /\ tools' = Listed'
      BY <1>1, <2>2, <2>3, <2>5, <2>6, <2>8 DEF Answer, NextPage
    <3> QED
      BY <2>3, <3>1 DEF CatalogInv, CatalogIsWhole
  <2>9. CASE ~Added(list).refused /\ next \in seen
    <3>1. outcome' = "refused" /\ ~IsSound'
      BY <1>1, <2>2, <2>6, <2>9 DEF Answer, NextPage
    <3> QED
      BY <2>3, <3>1 DEF CatalogInv, CatalogIsWhole
  <2>10. CASE ~Added(list).refused /\ next # NoCursor /\ next \notin seen
    <3>1. /\ outcome' = IF Len(pages') < MaxListPages THEN "asking"
               ELSE "refused"
          /\ page' = Len(pages') /\ seen' = seen \union {next}
          /\ tools' = Listed'
      BY <1>1, <2>2, <2>3, <2>5, <2>10 DEF Answer, NextPage
    <3>2. IsSound' <=> Len(pages') < MaxListPages
      BY <2>6, <2>10
    <3>3. ~IsComplete' /\ NoCursor \notin seen'
      BY <2>2, <2>3, <2>10, <3>1
    <3> QED
      BY <2>3, <3>1, <3>2, <3>3 DEF CatalogInv, CatalogIsWhole
  <2> QED
    BY <2>7, <2>8, <2>9, <2>10
<1>2. ASSUME UNCHANGED <<required, tools, seen, page, pages>>
      PROVE  /\ Listed' = Listed /\ AskedWith' = AskedWith
             /\ IsComplete' = IsComplete /\ IsSound' = IsSound
  BY <1>2 DEF Listed, AskedWith, IsComplete, IsSound
<1>3. CASE RequestFails
  BY <1>2, <1>3 DEF RequestFails, CatalogInv, CatalogIsWhole
<1>4. CASE Require
  BY <1>2, <1>4 DEF Require, CatalogInv, CatalogIsWhole
<1>5. CASE UNCHANGED catalogVars
  BY <1>2, <1>5 DEF catalogVars, CatalogInv, CatalogIsWhole
<1> QED
  BY <1>1, <1>3, <1>4, <1>5 DEF CatalogNext, CatalogOver

(* listTools accepts a catalogue if and only if it is sound as a whole: no tool
   twice, no cursor twice, within the limits of tools and pages; and then it has
   every tool of every page. *)
THEOREM CatalogIsWholeAlways == CatalogSpec => []CatalogIsWhole
<1>1. CatalogInv => CatalogIsWhole
  BY DEF CatalogInv
<1> QED
  BY <1>1, CatalogInvInit, CatalogInvNext, PTL DEF CatalogSpec

=============================================================================
