-------------------------- MODULE SettleProbeProofs --------------------------
(***************************************************************************)
(* Proofs about the settle loop, for every window, request budget, lag and *)
(* streak length.  The inductive invariant IInv has five parts: types, how *)
(* late the clock can be at each point of the loop, what an answer on its  *)
(* way says of the effect, what the counted streak says of the recorded    *)
(* values, and what a stable result rests on.  Exact relates the evidence  *)
(* to everything recorded, counter by counter.                             *)
(***************************************************************************)
EXTENDS SettleProbe, FiniteSetTheorems, TLAPS

Shape ==
  /\ full \in BOOLEAN
  /\ pc \in {"loop", "reading", "sleeping", "done"}
  /\ now \in Nat /\ startedAt \in Nat /\ timer \in Nat /\ wakeAt \in Nat
  /\ changedAt \in Nat
  /\ answer \in Values \cup {NoValue}
  /\ evidence \in Evidence
  /\ Len(evidence.samples) <= MaxRetained
  /\ outcome \in {"pending", "stable", "timeout", "aborted", "failed"}
  /\ effect \in Values
  /\ changes \in 0..MaxChanges
  /\ history \in Seq(Values)

Clock ==
  /\ pc = "done" <=> outcome # "pending"
  /\ startedAt <= now
  /\ startedAt <= TimeoutMs + MaxLag
  /\ ~full => startedAt < TimeoutMs
  /\ pc = "loop" => now <= TimeoutMs + MaxLag
  /\ pc = "reading" =>
       /\ timer = RequestDeadline(startedAt)
       /\ now <= timer + MaxLag
  /\ pc = "sleeping" =>
       /\ timer = TimeoutMs
       /\ now <= TimeoutMs + MaxLag
       /\ ~Final(startedAt)
  /\ WindowIsBounded

(* An answer that no later change contradicts is the effect of now.        *)
AnswerIsCurrent ==
  pc = "reading" /\ answer # NoValue /\ changedAt < startedAt
    => answer = effect

(* The streak that recordSample counts ends what was recorded.             *)
StreakIsRecorded ==
  /\ evidence.lastStreak <= Len(history)
  /\ \A i \in (Len(history) - evidence.lastStreak + 1)..Len(history) :
       history[i] = evidence.lastValue

Supported ==
  outcome = "stable" =>
    /\ evidence.lastStreak >= StableSamples
    /\ full => Final(startedAt)
    /\ full /\ changedAt < startedAt => evidence.lastValue = effect
    /\ Len(evidence.samples) > 0
    /\ ~full => evidence.samples[Len(evidence.samples)].completed < TimeoutMs

IInv == Shape /\ Clock /\ AnswerIsCurrent /\ StreakIsRecorded /\ Supported

LEMMA OptionsAreNat ==
  /\ TimeoutMs \in Nat /\ TimeoutMs > 0
  /\ RequestTimeoutMs \in Nat /\ RequestTimeoutMs > 0
  /\ IntervalMs \in Nat /\ IntervalMs > 0
  /\ StableSamples \in Nat /\ StableSamples > 0
  /\ MaxRetained \in Nat /\ MaxRetained > 0
  /\ MaxLag \in Nat /\ MaxChanges \in Nat
<1>1. {TimeoutMs, RequestTimeoutMs, IntervalMs, StableSamples, MaxRetained}
        \subseteq Nat \ {0}
  BY OptionsAssumption
<1>2. {MaxLag, MaxChanges} \subseteq Nat
  BY OptionsAssumption
<1>3. \A n \in Nat \ {0} : n \in Nat /\ n > 0
  OBVIOUS
<1> QED
  BY <1>1, <1>2, <1>3

(* What recordSample returns, whatever it dropped.                         *)
LEMMA RecordedType ==
  ASSUME NEW e \in Evidence, NEW s \in Samples, Len(e.samples) <= MaxRetained
  PROVE  /\ Recorded(e, s) \in Evidence
         /\ Len(Recorded(e, s).samples) <= MaxRetained
         /\ Len(Recorded(e, s).samples) > 0
         /\ Recorded(e, s).samples[Len(Recorded(e, s).samples)] = s
         /\ Recorded(e, s).lastValue = s.value
         /\ Recorded(e, s).lastStreak =
              IF e.lastValue = s.value THEN e.lastStreak + 1 ELSE 1
<1> DEFINE kept == Append(e.samples, s)
           r == Recorded(e, s)
<1> USE OptionsAreNat
<1>1. /\ e.samples \in Seq(Samples) /\ e.droppedSamples \in Nat
      /\ e.lastStreak \in Nat /\ e.longestStreak \in Nat
      /\ e.totalSamples \in Nat /\ e.transitions \in Nat
      /\ s.value \in Values
  BY DEF Evidence, Samples
<1>2. /\ kept \in Seq(Samples) /\ Len(kept) = Len(e.samples) + 1
      /\ Len(e.samples) \in Nat /\ kept[Len(kept)] = s
  BY <1>1
<1>3. /\ r.samples = IF Len(kept) > MaxRetained THEN Tail(kept) ELSE kept
      /\ r.lastValue = s.value
      /\ r.lastStreak = IF e.lastValue = s.value THEN e.lastStreak + 1 ELSE 1
  BY DEF Recorded
<1>4. r.samples \in Seq(Samples)
  BY <1>2, <1>3
<1>5. CASE Len(kept) > MaxRetained
  <2>1. Len(kept) = MaxRetained + 1
    BY <1>2, <1>5
  <2>2. /\ Len(Tail(kept)) = MaxRetained
        /\ Tail(kept)[MaxRetained] = kept[MaxRetained + 1]
    BY <1>2, <2>1
  <2>3. r.samples = Tail(kept)
    BY <1>3, <1>5
  <2>4. r \in Evidence
    BY <1>1, <1>4 DEF Recorded, Evidence, MaxOf
  <2> QED
    BY <1>2, <1>3, <2>1, <2>2, <2>3, <2>4
<1>6. CASE ~(Len(kept) > MaxRetained)
  <2>1. r.samples = kept
    BY <1>3, <1>6
  <2>2. r \in Evidence
    BY <1>1, <1>4 DEF Recorded, Evidence, MaxOf
  <2> QED
    BY <1>2, <1>3, <1>6, <2>1, <2>2
<1> QED
  BY <1>5, <1>6

LEMMA DeadlineType ==
  ASSUME NEW from \in Nat
  PROVE  /\ RequestDeadline(from) \in Nat
         /\ RequestDeadline(from) <= from + RequestTimeoutMs
         /\ ~Final(from) => RequestDeadline(from) <= TimeoutMs
BY OptionsAreNat DEF RequestDeadline, MinOf

LEMMA InitIInv == Init => IInv
<1> SUFFICES ASSUME Init PROVE IInv
  OBVIOUS
<1> USE OptionsAreNat DEF Init
<1>1. evidence \in Evidence /\ Len(evidence.samples) = 0
  BY DEF Evidence
<1>2. Shape
  BY <1>1 DEF Shape
<1>3. Clock
  BY DEF Clock, WindowIsBounded
<1> QED
  BY <1>2, <1>3 DEF IInv, AnswerIsCurrent, StreakIsRecorded, Supported

LEMMA ReadSample ==
  ASSUME Shape, pc = "reading", answer # NoValue
  PROVE  [started |-> startedAt, completed |-> now,
           value |-> answer] \in Samples
BY DEF Shape, Samples

LEMMA ShapeNext == Shape /\ [Next]_vars => Shape'
<1> SUFFICES ASSUME Shape, [Next]_vars PROVE Shape'
  OBVIOUS
<1> USE OptionsAreNat, ValuesAssumption DEF Shape, Settle, world, record
<1>1. CASE TimesOutAtLoop
  BY <1>1 DEF TimesOutAtLoop
<1>2. CASE BeginRead
  <2>1. now' \in Nat /\ RequestDeadline(now) \in Nat
    BY <1>2, DeadlineType DEF BeginRead
  <2> QED
    BY <1>2, <2>1 DEF BeginRead, DeadlineReached
<1>3. CASE ReadTimesOut
  BY <1>3 DEF ReadTimesOut, DeadlineReached
<1>4. CASE ReadFails
  BY <1>4 DEF ReadFails
<1>5. CASE ReadResolves
  <2>1. CASE ~full /\ now >= TimeoutMs
    BY <1>5, <2>1 DEF ReadResolves
  <2>2. CASE ~(~full /\ now >= TimeoutMs)
    <3> DEFINE s == [started |-> startedAt, completed |-> now, value |-> answer]
    <3>1. s \in Samples
      BY <1>5, ReadSample DEF ReadResolves
    <3>2. evidence' = Recorded(evidence, s)
            /\ history' = Append(history, answer)
      BY <1>5, <2>2 DEF ReadResolves
    <3>3. evidence' \in Evidence /\ Len(evidence'.samples) <= MaxRetained
      BY <3>1, <3>2, RecordedType
    <3>4. answer \in Values
      BY <1>5 DEF ReadResolves
    <3>5. history' \in Seq(Values)
      BY <3>2, <3>4
    <3>6. /\ now' \in Nat /\ timer' \in Nat /\ wakeAt' \in Nat
          /\ pc' \in {"loop", "sleeping", "done"}
          /\ outcome' \in {"pending", "stable", "timeout", "aborted", "failed"}
      <4>1. Conclude
        BY <1>5, <2>2 DEF ReadResolves
      <4>2. CASE BeginSleep
        <5>1. full \/ now < TimeoutMs
          BY <2>2
        <5>2. now' \in Nat /\ now' >= now
          BY <4>2 DEF BeginSleep
        <5>3. ~(full /\ now >= TimeoutMs) =>
                /\ MinOf(IntervalMs, TimeoutMs - now) \in Nat
          BY <5>1 DEF MinOf
        <5>4. pc' \in {"loop", "sleeping", "done"}
          BY <4>2 DEF BeginSleep, DeadlineReached
        <5>5. outcome' \in {"pending", "stable", "timeout", "aborted", "failed"}
          BY <4>2 DEF BeginSleep, DeadlineReached
        <5>6. CASE full /\ now >= TimeoutMs
          BY <4>1, <5>6 DEF Conclude
        <5>7. CASE ~(full /\ now >= TimeoutMs)
          BY <4>2, <5>2, <5>3, <5>4, <5>5, <5>7 DEF BeginSleep
        <5> QED
          BY <5>6, <5>7
      <4>3. CASE ~BeginSleep
        BY <4>1, <4>3 DEF Conclude
      <4> QED
        BY <4>2, <4>3
    <3> QED
      BY <1>5, <3>3, <3>5, <3>6 DEF ReadResolves
  <2> QED
    BY <2>1, <2>2
<1>6. CASE Wakes
  BY <1>6 DEF Wakes
<1>7. CASE SleepTimesOut
  BY <1>7 DEF SleepTimesOut, DeadlineReached
<1>8. CASE Abort
  BY <1>8 DEF Abort
<1>9. CASE Answer
  BY <1>9 DEF Answer
<1>10. CASE Change
  BY <1>10 DEF Change
<1>11. CASE Tick
  BY <1>11 DEF Tick
<1>12. CASE UNCHANGED vars
  BY <1>12 DEF vars
<1> QED
  BY <1>1, <1>2, <1>3, <1>4, <1>5, <1>6, <1>7, <1>8, <1>9, <1>10, <1>11, <1>12
  DEF Next, Run, Done

(* No point of the loop is reached later than Clock says.                  *)
LEMMA ClockNext == Shape /\ Clock /\ [Next]_vars => Clock'
<1> SUFFICES ASSUME Shape, Clock, [Next]_vars PROVE Clock'
  OBVIOUS
<1> USE OptionsAreNat DEF Shape, Clock, WindowIsBounded, Settle, world, record
<1>1. CASE TimesOutAtLoop
  BY <1>1 DEF TimesOutAtLoop
<1>2. CASE BeginRead
  <2>1. /\ now' \in Nat /\ now' >= now /\ now' <= now + MaxLag
        /\ startedAt' = now /\ timer' = RequestDeadline(now) /\ full' = full
    BY <1>2 DEF BeginRead
  <2>2. now <= TimeoutMs + MaxLag /\ (~full => now < TimeoutMs)
    BY <1>2 DEF BeginRead
  <2>3. /\ RequestDeadline(now) \in Nat
        /\ RequestDeadline(now) <= now + RequestTimeoutMs
        /\ ~Final(now) => RequestDeadline(now) <= TimeoutMs
    BY DeadlineType
  <2>4. CASE now' < timer'
    <3>1. pc' = "reading" /\ outcome' = outcome /\ pc = "loop"
      BY <1>2, <2>4 DEF BeginRead
    <3>2. RequestDeadline(startedAt)' = RequestDeadline(now)
      BY <2>1 DEF RequestDeadline, Final
    <3> QED
      BY <2>1, <2>2, <2>3, <2>4, <3>1, <3>2 DEF Final
  <2>5. CASE ~(now' < timer')
    <3>1. DeadlineReached(now) /\ pc = "loop"
      BY <1>2, <2>5 DEF BeginRead
    <3>2. CASE full /\ ~Final(now)
      <4>1. pc' = "loop" /\ outcome' = outcome /\ now < TimeoutMs
        BY <3>1, <3>2 DEF DeadlineReached, Final
      <4> QED
        BY <2>1, <2>2, <3>1, <4>1
    <3>3. CASE ~(full /\ ~Final(now))
      <4>1. pc' = "done" /\ outcome' = "timeout"
        BY <3>1, <3>3 DEF DeadlineReached
      <4> QED
        BY <2>1, <2>2, <4>1
    <3> QED
      BY <3>2, <3>3
  <2> QED
    BY <2>4, <2>5
<1>3. CASE ReadTimesOut
  <2>1. /\ pc = "reading" /\ outcome = "pending"
        /\ UNCHANGED <<full, now, startedAt, timer>>
    BY <1>3 DEF ReadTimesOut
  <2>2. CASE full /\ ~Final(startedAt)
    <3>1. pc' = "loop" /\ outcome' = outcome
      BY <1>3, <2>2 DEF ReadTimesOut, DeadlineReached
    <3>2. timer <= TimeoutMs
      BY <2>1, <2>2, DeadlineType
    <3> QED
      BY <2>1, <3>1, <3>2
  <2>3. CASE ~(full /\ ~Final(startedAt))
    <3>1. pc' = "done" /\ outcome' = "timeout"
      BY <1>3, <2>3 DEF ReadTimesOut, DeadlineReached
    <3> QED
      BY <2>1, <3>1
  <2> QED
    BY <2>2, <2>3
<1>4. CASE ReadFails
  BY <1>4 DEF ReadFails
<1>5. CASE ReadResolves
  <2>0. /\ full' = full /\ startedAt' = startedAt /\ pc = "reading"
        /\ outcome = "pending"
    BY <1>5 DEF ReadResolves
  <2>1. CASE ~full /\ now >= TimeoutMs
    BY <1>5, <2>1 DEF ReadResolves
  <2>2. CASE ~(~full /\ now >= TimeoutMs)
    <3>1. Conclude
      BY <1>5, <2>2 DEF ReadResolves
    <3>2. CASE /\ pc' = "done" /\ outcome' # "pending"
               /\ UNCHANGED <<now, timer, wakeAt>>
      BY <2>0, <3>2
    <3>3. CASE /\ full /\ ~Final(startedAt) /\ now >= TimeoutMs
               /\ pc' = "loop" /\ UNCHANGED <<outcome, now, timer, wakeAt>>
      BY <2>0, <3>3, DeadlineType
    <3>4. CASE BeginSleep /\ ~Final(startedAt) /\ ~(full /\ now >= TimeoutMs)
      <4>1. /\ now < TimeoutMs /\ now' \in Nat /\ now' >= now
            /\ now' <= now + MaxLag /\ timer' = TimeoutMs
        BY <2>2, <3>4 DEF BeginSleep
      <4>2. CASE now' < TimeoutMs
        <5>1. pc' = "sleeping" /\ outcome' = outcome
          BY <3>4, <4>2 DEF BeginSleep
        <5>2. ~Final(startedAt)'
          BY <2>0, <3>4 DEF Final
        <5> QED
          BY <2>0, <4>1, <5>1, <5>2
      <4>3. CASE ~(now' < TimeoutMs)
        <5>1. \/ full /\ pc' = "loop" /\ outcome' = outcome
              \/ pc' = "done" /\ outcome' = "timeout"
          BY <3>4, <4>3 DEF BeginSleep, DeadlineReached
        <5> QED
          BY <2>0, <4>1, <5>1
      <4> QED
        BY <4>2, <4>3
    <3> QED
      BY <3>1, <3>2, <3>3, <3>4 DEF Conclude, Final
  <2> QED
    BY <2>1, <2>2
<1>6. CASE Wakes
  BY <1>6 DEF Wakes
<1>7. CASE SleepTimesOut
  BY <1>7 DEF SleepTimesOut, DeadlineReached, Final
<1>8. CASE Abort
  BY <1>8 DEF Abort
<1>9. CASE Answer
  BY <1>9 DEF Answer, RequestDeadline, Final
<1>10. CASE Change
  BY <1>10 DEF Change, RequestDeadline, Final
<1>11. CASE Tick
  <2>1. /\ now' = now + 1 /\ now < Due + MaxLag
        /\ UNCHANGED <<full, pc, startedAt, timer, wakeAt, outcome>>
    BY <1>11 DEF Tick
  <2>2. RequestDeadline(startedAt)' = RequestDeadline(startedAt)
    BY <2>1 DEF RequestDeadline, Final
  <2>3. Due \in Nat /\ Due <= timer
    BY DEF Due, MinOf
  <2>4. now' <= timer' + MaxLag
    BY <2>1, <2>3
  <2>5. CASE pc = "reading"
    <3>1. timer <= startedAt + RequestTimeoutMs /\ (~full => timer <= TimeoutMs)
      BY <2>5, DeadlineType DEF Final
    <3> QED
      BY <2>1, <2>2, <2>4, <2>5, <3>1
  <2>6. CASE pc = "sleeping"
    BY <2>1, <2>4, <2>6 DEF Final
  <2> QED
    BY <1>11, <2>5, <2>6 DEF Tick
<1>12. CASE UNCHANGED vars
  BY <1>12 DEF vars, RequestDeadline, Final
<1> QED
  BY <1>1, <1>2, <1>3, <1>4, <1>5, <1>6, <1>7, <1>8, <1>9, <1>10, <1>11, <1>12
  DEF Next, Run, Done

(* Between an answer and the end of the read only a change of the effect   *)
(* can part the two, and changedAt dates it.                               *)
LEMMA AnswerNext == Shape /\ Clock /\ AnswerIsCurrent /\ [Next]_vars
                      => AnswerIsCurrent'
<1> SUFFICES ASSUME Shape, Clock, AnswerIsCurrent, [Next]_vars
             PROVE  AnswerIsCurrent'
  OBVIOUS
<1> USE DEF AnswerIsCurrent, Settle, world, record
<1>1. CASE pc' # "reading" \/ answer' = NoValue
  BY <1>1
<1>2. CASE Answer
  BY <1>2 DEF Answer
<1>3. CASE Change
  BY <1>3 DEF Change, Shape, Clock
<1>4. CASE UNCHANGED <<pc, answer, changedAt, startedAt, effect>>
  BY <1>4
<1>5. CASE BeginRead
  BY <1>5 DEF BeginRead
<1>6. CASE TimesOutAtLoop \/ ReadTimesOut \/ ReadFails \/ Wakes \/
           SleepTimesOut \/ Abort
  BY <1>6 DEF TimesOutAtLoop, ReadTimesOut, ReadFails, Wakes, SleepTimesOut,
              Abort, DeadlineReached
<1>7. CASE ReadResolves
  BY <1>7 DEF ReadResolves, Conclude, BeginSleep, DeadlineReached
<1> QED
  BY <1>2, <1>3, <1>4, <1>5, <1>6, <1>7 DEF Next, Run, Tick, Done, vars

(* A recorded value extends the streak or begins a new one.                *)
LEMMA StreakNext == Shape /\ StreakIsRecorded /\ [Next]_vars
                      => StreakIsRecorded'
<1> SUFFICES ASSUME Shape, StreakIsRecorded, [Next]_vars
             PROVE  StreakIsRecorded'
  OBVIOUS
<1>1. CASE UNCHANGED <<evidence, history>>
  BY <1>1 DEF StreakIsRecorded
<1>2. CASE ReadResolves /\ ~(~full /\ now >= TimeoutMs)
  <2> DEFINE s == [started |-> startedAt, completed |-> now, value |-> answer]
             k == evidence.lastStreak
             n == Len(history)
  <2>1. /\ pc = "reading" /\ answer # NoValue
        /\ evidence' = Recorded(evidence, s)
        /\ history' = Append(history, answer)
    BY <1>2 DEF ReadResolves
  <2>2. s \in Samples
    BY <2>1, ReadSample
  <2>3. /\ evidence'.lastValue = answer
        /\ evidence'.lastStreak = IF evidence.lastValue = answer THEN k + 1
                                                                ELSE 1
    BY <2>1, <2>2, RecordedType DEF Shape
  <2>4. /\ history \in Seq(Values) /\ answer \in Values /\ k \in Nat
        /\ n \in Nat
    BY <2>1 DEF Shape, Evidence
  <2>5. /\ Len(history') = n + 1 /\ history'[n + 1] = answer
        /\ \A i \in 1..n : history'[i] = history[i]
    BY <2>1, <2>4
  <2>6. CASE evidence.lastValue = answer
    <3>1. k <= n /\ \A i \in (n - k + 1)..n : history[i] = answer
      BY <2>6 DEF StreakIsRecorded
    <3>2. evidence'.lastStreak = k + 1
      BY <2>3, <2>6
    <3>3. \A i \in (n - k + 1)..(n + 1) : history'[i] = answer
      BY <2>4, <2>5, <3>1
    <3> QED
      BY <2>3, <2>4, <2>5, <3>1, <3>2, <3>3 DEF StreakIsRecorded
  <2>7. CASE evidence.lastValue # answer
    BY <2>3, <2>4, <2>5, <2>7 DEF StreakIsRecorded
  <2> QED
    BY <2>6, <2>7
<1> QED
  BY <1>1, <1>2 DEF Next, Run, TimesOutAtLoop, BeginRead, ReadTimesOut,
     ReadFails, ReadResolves, Wakes, SleepTimesOut, Abort, Answer, Change, Tick,
     Done, vars, record

LEMMA SupportedNext == IInv /\ [Next]_vars => Supported'
<1> SUFFICES ASSUME IInv, [Next]_vars, outcome' = "stable" PROVE Supported'
  BY DEF Supported
<1> USE DEF IInv
<1>1. CASE outcome = "stable"
  <2>1. pc = "done"
    BY <1>1 DEF Clock
  <2>2. UNCHANGED vars
    BY <2>1 DEF Next, Run, TimesOutAtLoop, BeginRead, ReadTimesOut, ReadFails,
       ReadResolves, Wakes, SleepTimesOut, Abort, Answer, Change, Tick, Done
  <2> QED
    BY <1>1, <2>2 DEF Supported, vars, Final
<1>2. CASE outcome # "stable"
  <2> DEFINE s == [started |-> startedAt, completed |-> now, value |-> answer]
  <2>1. ReadResolves /\ ~(~full /\ now >= TimeoutMs)
    BY <1>2 DEF Next, Run, TimesOutAtLoop, BeginRead, ReadTimesOut, ReadFails,
       ReadResolves, Wakes, SleepTimesOut, Abort, Answer, Change, Tick, Done,
       vars, Settle, DeadlineReached
  <2>2. /\ pc = "reading" /\ answer # NoValue
        /\ evidence' = Recorded(evidence, s) /\ Conclude
        /\ UNCHANGED <<full, startedAt, effect, changedAt>>
    BY <2>1 DEF ReadResolves, world
  <2>3. full => Final(startedAt)
    BY <1>2, <2>2 DEF Conclude, BeginSleep, DeadlineReached, Settle
  <2>8. evidence'.lastStreak >= StableSamples
    BY <1>2, <2>2 DEF Conclude, BeginSleep, DeadlineReached, Settle
  <2>4. s \in Samples
    BY <2>2, ReadSample
  <2>5. /\ Len(evidence'.samples) > 0
        /\ evidence'.samples[Len(evidence'.samples)] = s
        /\ evidence'.lastValue = answer
    BY <2>2, <2>4, RecordedType DEF Shape
  <2>6. ~full => s.completed < TimeoutMs
    BY <2>1, OptionsAreNat DEF Shape
  <2>7. changedAt < startedAt => answer = effect
    BY <2>2 DEF AnswerIsCurrent
  <2> QED
    BY <2>2, <2>3, <2>5, <2>6, <2>7, <2>8 DEF Supported, Final
<1> QED
  BY <1>1, <1>2

THEOREM Invariance == Spec => []IInv
<1>1. IInv /\ [Next]_vars => IInv'
  BY ShapeNext, ClockNext, AnswerNext, StreakNext, SupportedNext DEF IInv
<1> QED
  BY InitIInv, <1>1, PTL DEF Spec

-----------------------------------------------------------------------------
(* Every variable keeps its type: the incremental evidence of recordSample *)
(* stays a record of counters, with no more samples than it may retain.    *)
THEOREM TypeCorrect == Spec => []TypeOK
<1>1. IInv => TypeOK
  BY DEF IInv, Shape, TypeOK
<1> QED
  BY Invariance, <1>1, PTL

(* settleProbe reports a full observation only when a read that started    *)
(* once the window was over agrees, so an effect at rest is what it says.  *)
THEOREM FullWindowIsConfirmed == Spec => []ConfirmedAfterWindow
<1>1. IInv => ConfirmedAfterWindow
  BY OptionsAreNat
  DEF IInv, Shape, Supported, ConfirmedAfterWindow, Final
<1> QED
  BY Invariance, <1>1, PTL

(* A stable result rests on StableSamples equal reads in a row, the last   *)
(* of them in time unless the full window is observed.                     *)
THEOREM StableIsSupported == Spec => []VerdictIsSupported
<1>1. IInv => VerdictIsSupported
  <2> SUFFICES ASSUME IInv, outcome = "stable" PROVE VerdictIsSupported
    BY DEF VerdictIsSupported
  <2> DEFINE k == evidence.lastStreak
             n == Len(history)
  <2>1. /\ k \in Nat /\ n \in Nat /\ k <= n /\ StableSamples <= k
        /\ StableSamples \in Nat /\ StableSamples > 0
        /\ \A i \in (n - k + 1)..n : history[i] = evidence.lastValue
    BY OptionsAreNat DEF IInv, Shape, Evidence, StreakIsRecorded, Supported
  <2>2. n \in (n - k + 1)..n
    BY <2>1
  <2>3. \A i \in (n - StableSamples + 1)..n : i \in (n - k + 1)..n
    BY <2>1
  <2>4. EndsInRun(StableSamples)
    BY <2>1, <2>2, <2>3 DEF EndsInRun
  <2> QED
    BY <2>4 DEF IInv, Supported, VerdictIsSupported
<1> QED
  BY Invariance, <1>1, PTL

(* The documented bound: the window and one request budget, up to the lag  *)
(* of two callbacks.                                                       *)
THEOREM ObservationIsBounded == Spec => []WindowIsBounded
<1>1. IInv => WindowIsBounded
  BY DEF IInv, Clock
<1> QED
  BY Invariance, <1>1, PTL

-----------------------------------------------------------------------------
(* The evidence is exact: recordSample keeps in one step what a second look
   at everything recorded would find. *)

(* The lengths of the runs of equal values, and where a value differs from
   the one before. *)
Runs(h) == {k \in 1..Len(h) : \E i \in 1..(Len(h) - k + 1) :
              \A j \in i..(i + k - 1) : h[j] = h[i]}
Turns(h) == {i \in 2..Len(h) : h[i] # h[i - 1]}

(* The values kept are the latest ones. *)
Retained(e, h) ==
  /\ e.totalSamples = Len(h)
  /\ e.droppedSamples + Len(e.samples) = Len(h)
  /\ \A i \in 1..Len(e.samples) :
       e.samples[i].value = h[Len(h) - Len(e.samples) + i]

(* The streak is the longest run that ends with the last value. *)
Streak(e, h) ==
  /\ e.lastStreak <= Len(h)
  /\ \A i \in (Len(h) - e.lastStreak + 1)..Len(h) : h[i] = e.lastValue
  /\ e.lastStreak < Len(h) => h[Len(h) - e.lastStreak] # e.lastValue
  /\ Len(h) = 0 => e.lastValue = NoValue
  /\ Len(h) > 0 => e.lastStreak > 0 /\ e.lastValue = h[Len(h)]

Longest(e, h) ==
  /\ \A k \in Runs(h) : k <= e.longestStreak
  /\ Len(h) > 0 => e.longestStreak \in Runs(h)
  /\ Len(h) = 0 => e.longestStreak = 0

Transitions(e, h) ==
  IsFiniteSet(Turns(h)) /\ e.transitions = Cardinality(Turns(h))

Exact(e, h) ==
  Retained(e, h) /\ Streak(e, h) /\ Longest(e, h) /\ Transitions(e, h)

LEMMA AppendFacts ==
  ASSUME NEW h \in Seq(Values), NEW v \in Values
  PROVE  /\ Append(h, v) \in Seq(Values) /\ Len(h) \in Nat
         /\ Len(Append(h, v)) = Len(h) + 1 /\ Append(h, v)[Len(h) + 1] = v
         /\ \A i \in 1..Len(h) : Append(h, v)[i] = h[i] /\ h[i] \in Values
OBVIOUS

LEMMA RetainedStep ==
  ASSUME NEW e \in Evidence, NEW s \in Samples, NEW h \in Seq(Values),
         Len(e.samples) <= MaxRetained, Retained(e, h)
  PROVE  Retained(Recorded(e, s), Append(h, s.value))
<1> DEFINE r == Recorded(e, s)
           kept == Append(e.samples, s)
           g == Append(h, s.value)
           n == Len(h)
           m == Len(e.samples)
<1>1. /\ e.samples \in Seq(Samples) /\ e.droppedSamples \in Nat
      /\ e.totalSamples \in Nat
      /\ s.value \in Values /\ MaxRetained \in Nat
  BY OptionsAreNat DEF Evidence, Samples
<1>2. n \in Nat /\ Len(g) = n + 1 /\ g[n + 1] = s.value
        /\ \A i \in 1..n : g[i] = h[i]
  BY <1>1, AppendFacts
<1>3. m \in Nat /\ kept \in Seq(Samples) /\ Len(kept) = m + 1 /\ kept[m + 1] = s
      /\ \A i \in 1..m : kept[i] = e.samples[i]
  BY <1>1
<1>4. /\ e.totalSamples = n /\ e.droppedSamples + m = n
      /\ \A i \in 1..m : e.samples[i].value = h[n - m + i]
  BY DEF Retained
<1>5. /\ r.totalSamples = e.totalSamples + 1
      /\ r.samples = IF Len(kept) > MaxRetained THEN Tail(kept) ELSE kept
      /\ r.droppedSamples = IF Len(kept) > MaxRetained THEN e.droppedSamples + 1
                            ELSE e.droppedSamples
  BY DEF Recorded
<1>6. m \in 0..n
  BY <1>1, <1>2, <1>3, <1>4
<1>7. CASE Len(kept) > MaxRetained
  <2>1. /\ Len(Tail(kept)) = m /\ \A i \in 1..m : Tail(kept)[i] = kept[i + 1]
    BY <1>3
  <2> HIDE DEF r, kept, g, n, m
  <2>2. ASSUME NEW i \in 1..m
        PROVE  r.samples[i].value = g[n + 1 - m + i]
    <3>1. r.samples[i] = kept[i + 1]
      BY <1>5, <1>7, <2>1
    <3>2. CASE i = m
      <4>1. n + 1 - m + i = n + 1
        BY <1>2, <1>3, <3>2
      <4> QED
        BY <1>2, <1>3, <3>1, <3>2, <4>1
    <3>3. CASE i # m
      <4>1. i + 1 \in 1..m /\ n + 1 - m + i = n - m + (i + 1)
        BY <1>2, <1>3, <3>3
      <4>2. n - m + (i + 1) \in 1..n
        BY <1>2, <1>3, <1>6, <4>1
      <4> QED
        BY <1>2, <1>3, <1>4, <3>1, <4>1, <4>2
    <3> QED
      BY <3>2, <3>3
  <2>3. r.totalSamples = n + 1 /\ r.droppedSamples + m = n + 1
          /\ Len(r.samples) = m
    BY <1>1, <1>2, <1>3, <1>4, <1>5, <1>7, <2>1
  <2>4. \A i \in 1..Len(r.samples) :
          r.samples[i].value = g[Len(g) - Len(r.samples) + i]
    BY <1>2, <2>2, <2>3
  <2>5. Retained(r, g)
    BY <1>2, <2>3, <2>4 DEF Retained
  <2> QED
    BY <2>5 DEF r, g
<1>8. CASE ~(Len(kept) > MaxRetained)
  <2> HIDE DEF r, kept, g, n, m
  <2>1. r.samples = kept /\ Len(r.samples) = m + 1
          /\ r.droppedSamples = e.droppedSamples
    BY <1>3, <1>5, <1>8
  <2>2. ASSUME NEW i \in 1..m + 1
        PROVE  r.samples[i].value = g[n + 1 - (m + 1) + i]
    <3>1. CASE i = m + 1
      <4>1. n + 1 - (m + 1) + i = n + 1
        BY <1>2, <1>3, <3>1
      <4> QED
        BY <1>2, <1>3, <2>1, <3>1, <4>1
    <3>2. CASE i # m + 1
      <4>1. i \in 1..m /\ n + 1 - (m + 1) + i = n - m + i
        BY <1>2, <1>3, <3>2
      <4>2. n - m + i \in 1..n
        BY <1>2, <1>3, <1>6, <4>1
      <4> QED
        BY <1>2, <1>3, <1>4, <2>1, <4>1, <4>2
    <3> QED
      BY <3>1, <3>2
  <2>3. r.totalSamples = n + 1 /\ r.droppedSamples + (m + 1) = n + 1
    <3>1. e.droppedSamples + (m + 1) = n + 1
      <4>1. \A dropped \in Nat : dropped + m = n => dropped + (m + 1) = n + 1
        BY <1>2, <1>3
      <4> QED
        BY <1>1, <1>4, <4>1
    <3> QED
      BY <1>4, <1>5, <2>1, <3>1
  <2>4. \A i \in 1..Len(r.samples) :
          r.samples[i].value = g[Len(g) - Len(r.samples) + i]
    BY <1>2, <2>1, <2>2
  <2>5. r.droppedSamples + Len(r.samples) = Len(g) /\ r.totalSamples = Len(g)
    BY <1>2, <2>1, <2>3
  <2>6. Retained(r, g)
    BY <2>4, <2>5 DEF Retained
  <2> QED
    BY <2>6 DEF r, g
<1> QED
  BY <1>7, <1>8

LEMMA StreakStep ==
  ASSUME NEW e \in Evidence, NEW s \in Samples, NEW h \in Seq(Values),
         Streak(e, h)
  PROVE  Streak(Recorded(e, s), Append(h, s.value))
<1> DEFINE r == Recorded(e, s)
           v == s.value
           g == Append(h, v)
           n == Len(h)
           k == e.lastStreak
<1>1. v \in Values /\ k \in Nat /\ v # NoValue
  BY ValuesAssumption DEF Evidence, Samples
<1>2. n \in Nat /\ Len(g) = n + 1 /\ g[n + 1] = v /\ \A i \in 1..n : g[i] = h[i]
  BY <1>1, AppendFacts
<1>3. r.lastValue = v /\ r.lastStreak = IF e.lastValue = v THEN k + 1 ELSE 1
  BY DEF Recorded
<1>4. /\ k <= n /\ \A i \in (n - k + 1)..n : h[i] = e.lastValue
      /\ k < n => h[n - k] # e.lastValue
      /\ n = 0 => e.lastValue = NoValue
      /\ n > 0 => k > 0 /\ e.lastValue = h[n]
  BY DEF Streak
<1> HIDE DEF r, v, g, n, k
<1>5. CASE e.lastValue = v
  <2>1. r.lastStreak = k + 1
    BY <1>3, <1>5
  <2>2. \A i \in (n + 1 - (k + 1) + 1)..n + 1 : g[i] = v
    <3> SUFFICES ASSUME NEW i \in (n + 1 - (k + 1) + 1)..n + 1 PROVE g[i] = v
      OBVIOUS
    <3>1. i = n + 1 \/ (i \in (n - k + 1)..n /\ i \in 1..n)
      BY <1>1, <1>2, <1>4
    <3> QED
      BY <1>2, <1>4, <1>5, <3>1
  <2>3. k + 1 < n + 1 => g[n + 1 - (k + 1)] # v
    <3> SUFFICES ASSUME k + 1 < n + 1 PROVE g[n + 1 - (k + 1)] # v
      OBVIOUS
    <3>1. k < n /\ n + 1 - (k + 1) = n - k /\ n - k \in 1..n
      BY <1>1, <1>2
    <3> QED
      BY <1>2, <1>4, <1>5, <3>1
  <2>4. k + 1 <= n + 1 /\ k + 1 > 0 /\ n + 1 > 0 /\ n + 1 # 0
    BY <1>1, <1>2, <1>4
  <2>5. \A i \in (Len(g) - r.lastStreak + 1)..Len(g) : g[i] = v
    BY <1>1, <1>2, <2>1, <2>2
  <2>6. r.lastStreak < Len(g) => g[Len(g) - r.lastStreak] # v
    BY <1>1, <1>2, <2>1, <2>3
  <2>7. Streak(r, g)
    BY <1>2, <1>3, <2>1, <2>4, <2>5, <2>6 DEF Streak
  <2> QED
    BY <2>7 DEF r, g, v
<1>6. CASE e.lastValue # v
  <2>1. r.lastStreak = 1
    BY <1>3, <1>6
  <2>2. \A i \in (n + 1 - 1 + 1)..n + 1 : g[i] = v
    BY <1>2
  <2>3. 1 < n + 1 => g[n + 1 - 1] # v
    <3> SUFFICES ASSUME 1 < n + 1 PROVE g[n + 1 - 1] # v
      OBVIOUS
    <3>1. n > 0 /\ n + 1 - 1 = n /\ n \in 1..n
      BY <1>2
    <3> QED
      BY <1>2, <1>4, <1>6, <3>1
  <2>4. 1 <= n + 1 /\ 1 > 0 /\ n + 1 > 0 /\ n + 1 # 0
    BY <1>2
  <2>5. \A i \in (Len(g) - r.lastStreak + 1)..Len(g) : g[i] = v
    BY <1>2, <2>1, <2>2
  <2>6. r.lastStreak < Len(g) => g[Len(g) - r.lastStreak] # v
    BY <1>2, <2>1, <2>3
  <2>7. Streak(r, g)
    BY <1>2, <1>3, <2>1, <2>4, <2>5, <2>6 DEF Streak
  <2> QED
    BY <2>7 DEF r, g, v
<1> QED
  BY <1>5, <1>6

LEMMA LongestStep ==
  ASSUME NEW e \in Evidence, NEW s \in Samples, NEW h \in Seq(Values),
         Streak(e, h), Longest(e, h)
  PROVE  Longest(Recorded(e, s), Append(h, s.value))
<1> DEFINE r == Recorded(e, s)
           v == s.value
           g == Append(h, v)
           n == Len(h)
           k == r.lastStreak
<1>1. v \in Values /\ e.longestStreak \in Nat /\ e.lastStreak \in Nat
  BY DEF Evidence, Samples
<1>2. n \in Nat /\ Len(g) = n + 1 /\ g[n + 1] = v /\ \A i \in 1..n : g[i] = h[i]
  BY <1>1, AppendFacts
<1>3. /\ r.longestStreak = MaxOf(e.longestStreak, k) /\ r.lastValue = v
      /\ k = IF e.lastValue = v THEN e.lastStreak + 1 ELSE 1
  BY DEF Recorded
<1>4. /\ k <= n + 1 /\ k > 0
      /\ \A i \in (n + 1 - k + 1)..n + 1 : g[i] = v
      /\ k < n + 1 => g[n + 1 - k] # v
  <2>1. Streak(r, g)
    BY StreakStep
  <2> HIDE DEF r, v, g, n
  <2>2. /\ k <= Len(g) /\ (Len(g) > 0 => k > 0)
        /\ \A i \in (Len(g) - k + 1)..Len(g) : g[i] = v
        /\ k < Len(g) => g[Len(g) - k] # v
    BY <1>3, <2>1 DEF Streak
  <2>3. k \in Nat
    BY <1>1, <1>3
  <2> HIDE DEF k
  <2> QED
    BY <1>2, <2>2, <2>3
<1>5. k \in Nat /\ k \in 1..n + 1
  BY <1>1, <1>2, <1>3, <1>4
<1>6. r.longestStreak = IF e.longestStreak < k THEN k ELSE e.longestStreak
  BY <1>3 DEF MaxOf
<1> HIDE DEF r, v, g, n, k
<1>7. k \in Runs(g)
  <2>1. n + 1 - k + 1 \in 1..(n + 1 - k + 1)
    BY <1>2, <1>5
  <2>2. \A j \in (n + 1 - k + 1)..(n + 1 - k + 1 + k - 1) : g[j] =
          g[n + 1 - k + 1]
    <3>1. n + 1 - k + 1 + k - 1 = n + 1
            /\ n + 1 - k + 1 \in (n + 1 - k + 1)..n + 1
      BY <1>2, <1>5
    <3> QED
      BY <1>4, <3>1
  <2> QED
    BY <1>2, <1>5, <2>1, <2>2 DEF Runs
<1>8. ASSUME NEW l \in Runs(h)
      PROVE  l \in Runs(g)
  <2>1. l \in 1..n
          /\ \E i \in 1..(n - l + 1) : \A j \in i..(i + l - 1) : h[j] = h[i]
    BY DEF Runs, n
  <2>2. PICK i \in 1..(n - l + 1) : \A j \in i..(i + l - 1) : h[j] = h[i]
    BY <2>1
  <2>3. l \in 1..n + 1 /\ i \in 1..(n + 1 - l + 1) /\ i \in 1..n
    BY <1>2, <2>1
  <2>4. \A j \in i..(i + l - 1) : j \in 1..n
    BY <1>2, <2>1
  <2>5. \A j \in i..(i + l - 1) : g[j] = g[i]
    BY <1>2, <2>2, <2>3, <2>4
  <2> QED
    BY <1>2, <2>3, <2>5 DEF Runs
<1>9. ASSUME NEW l \in Runs(g)
      PROVE  l \in Runs(h) \/ l <= k
  <2>1. l \in 1..n + 1
          /\ \E i \in 1..(Len(g) - l + 1) : \A j \in i..(i + l - 1) : g[j] =
               g[i]
    BY <1>2 DEF Runs
  <2>2. PICK i \in 1..(Len(g) - l + 1) : \A j \in i..(i + l - 1) : g[j] = g[i]
    BY <2>1
  <2>3. i \in 1..(n + 1 - l + 1)
    BY <1>2, <2>1
  <2>4. CASE i <= n - l + 1
    <3>1. i \in 1..(n - l + 1) /\ l \in 1..n /\ i \in 1..n
      BY <1>2, <2>3, <2>1, <2>4
    <3>2. \A j \in i..(i + l - 1) : j \in 1..n
      BY <1>2, <3>1
    <3>3. \A j \in i..(i + l - 1) : h[j] = h[i]
      BY <1>2, <2>2, <3>1, <3>2
    <3> QED
      BY <3>1, <3>3 DEF Runs, n
  <2>5. CASE ~(i <= n - l + 1)
    <3> SUFFICES ASSUME ~(l <= k) PROVE FALSE
      OBVIOUS
    <3>1. i = n + 1 - l + 1 /\ i + l - 1 = n + 1 /\ k < n + 1
      BY <1>2, <1>5, <2>3, <2>1, <2>5
    <3>2. n + 1 - k \in i..(i + l - 1) /\ n + 1 \in i..(i + l - 1)
      BY <1>2, <1>5, <2>1, <3>1
    <3>3. g[n + 1 - k] = g[i] /\ g[n + 1] = g[i]
      BY <2>2, <3>2
    <3> QED
      BY <1>2, <1>4, <3>1, <3>3
  <2> QED
    BY <2>4, <2>5
<1>10. /\ \A l \in Runs(h) : l <= e.longestStreak
       /\ n > 0 => e.longestStreak \in Runs(h)
       /\ n = 0 => e.longestStreak = 0
  BY DEF Longest, n
<1>11. \A l \in Runs(g) : l <= r.longestStreak
  <2> SUFFICES ASSUME NEW l \in Runs(g) PROVE l <= r.longestStreak
    OBVIOUS
  <2>1. l \in Int
    BY <1>2 DEF Runs
  <2>2. l <= e.longestStreak \/ l <= k
    BY <1>9, <1>10
  <2> QED
    BY <1>1, <1>5, <1>6, <2>1, <2>2
<1>12. r.longestStreak \in Runs(g)
  <2>1. CASE n = 0
    BY <1>5, <1>6, <1>7, <1>10, <2>1
  <2>2. CASE n > 0
    BY <1>6, <1>7, <1>8, <1>10, <2>2
  <2> QED
    BY <1>2, <2>1, <2>2
<1>13. Longest(r, g)
  BY <1>2, <1>11, <1>12 DEF Longest
<1> QED
  BY <1>13 DEF r, g, v

LEMMA TransitionsStep ==
  ASSUME NEW e \in Evidence, NEW s \in Samples, NEW h \in Seq(Values),
         Streak(e, h), Transitions(e, h)
  PROVE  Transitions(Recorded(e, s), Append(h, s.value))
<1> DEFINE r == Recorded(e, s)
           v == s.value
           g == Append(h, v)
           n == Len(h)
<1>1. v \in Values /\ e.transitions \in Nat /\ v # NoValue
  BY ValuesAssumption DEF Evidence, Samples
<1>2. /\ n \in Nat /\ Len(g) = n + 1 /\ g[n + 1] = v
      /\ \A i \in 1..n : g[i] = h[i] /\ h[i] \in Values
  BY <1>1, AppendFacts
<1>3. r.transitions = IF e.lastValue \in {NoValue, v} THEN e.transitions
                      ELSE e.transitions + 1
  BY DEF Recorded
<1>4. (n = 0 => e.lastValue = NoValue) /\ (n > 0 => e.lastValue = h[n])
  BY DEF Streak
<1>5. IsFiniteSet(Turns(h)) /\ e.transitions = Cardinality(Turns(h))
  BY DEF Transitions
<1> HIDE DEF r, v, g, n
<1>6. \A i \in 2..n : i \in 1..n /\ i - 1 \in 1..n
  BY <1>2
<1>7. Turns(h) = {i \in 2..n : h[i] # h[i - 1]}
      /\ Turns(g) = {i \in 2..n + 1 : g[i] # g[i - 1]}
  BY <1>2 DEF Turns, n
<1>8. \A i \in 2..n + 1 : i \in 2..n \/ i = n + 1
  BY <1>2
<1>9. n + 1 - 1 = n /\ n + 1 \notin 2..n /\ \A i \in 2..n : i \in 2..n + 1
  BY <1>2
<1>10. CASE n = 0 \/ e.lastValue = v
  <2>1. n + 1 \in 2..n + 1 => g[n + 1] = g[n + 1 - 1]
    <3> SUFFICES ASSUME n + 1 \in 2..n + 1 PROVE g[n + 1] = g[n + 1 - 1]
      OBVIOUS
    <3>1. n > 0 /\ n \in 1..n
      BY <1>2
    <3> QED
      BY <1>2, <1>4, <1>9, <1>10, <3>1
  <2>2. Turns(g) = Turns(h)
    <3>1. ASSUME NEW i \in Turns(g) PROVE i \in Turns(h)
      BY <1>2, <1>6, <1>7, <1>8, <2>1
    <3>2. ASSUME NEW i \in Turns(h) PROVE i \in Turns(g)
      BY <1>2, <1>6, <1>7, <1>9
    <3> QED
      BY <3>1, <3>2
  <2>3. r.transitions = e.transitions
    BY <1>3, <1>4, <1>10
  <2>4. Transitions(r, g)
    BY <1>5, <2>2, <2>3 DEF Transitions
  <2> QED
    BY <2>4 DEF r, g, v
<1>11. CASE n # 0 /\ e.lastValue # v
  <2>1. n > 0 /\ n \in 1..n /\ n + 1 \in 2..n + 1
    BY <1>2, <1>11
  <2>2. g[n + 1] # g[n + 1 - 1]
    BY <1>2, <1>4, <1>9, <1>11, <2>1
  <2>3. Turns(g) = Turns(h) \cup {n + 1}
    <3>1. ASSUME NEW i \in Turns(g) PROVE i \in Turns(h) \cup {n + 1}
      BY <1>2, <1>6, <1>7, <1>8
    <3>2. ASSUME NEW i \in Turns(h) PROVE i \in Turns(g)
      BY <1>2, <1>6, <1>7, <1>9
    <3>3. n + 1 \in Turns(g)
      BY <1>7, <2>1, <2>2
    <3> QED
      BY <3>1, <3>2, <3>3
  <2>4. n + 1 \notin Turns(h)
    BY <1>7, <1>9
  <2>5. e.lastValue \notin {NoValue, v}
    BY <1>2, <1>4, <1>11, <2>1, ValuesAssumption
  <2>6. /\ IsFiniteSet(Turns(g))
        /\ Cardinality(Turns(g)) = Cardinality(Turns(h)) + 1
    BY <1>5, <2>3, <2>4, FS_AddElement
  <2>7. Transitions(r, g)
    BY <1>3, <1>5, <2>5, <2>6 DEF Transitions
  <2> QED
    BY <2>7 DEF r, g, v
<1> QED
  BY <1>10, <1>11

LEMMA ExactStep ==
  IInv /\ Exact(evidence, history) /\ [Next]_vars => Exact(evidence, history)'
<1> SUFFICES ASSUME IInv, Exact(evidence, history), [Next]_vars
             PROVE  Exact(evidence', history')
  BY DEF Exact, Retained, Streak, Longest, Transitions, Runs, Turns
<1>1. CASE UNCHANGED <<evidence, history>>
  BY <1>1
<1>2. CASE ReadResolves /\ ~(~full /\ now >= TimeoutMs)
  <2> DEFINE s == [started |-> startedAt, completed |-> now, value |-> answer]
  <2>1. /\ pc = "reading" /\ answer # NoValue
        /\ evidence' = Recorded(evidence, s)
        /\ history' = Append(history, s.value)
    BY <1>2 DEF ReadResolves
  <2>2. s \in Samples /\ evidence \in Evidence /\ history \in Seq(Values)
        /\ Len(evidence.samples) <= MaxRetained
    BY <2>1, ReadSample DEF IInv, Shape
  <2> HIDE DEF s
  <2>3. Exact(Recorded(evidence, s), Append(history, s.value))
    BY <2>2, RetainedStep, StreakStep, LongestStep, TransitionsStep DEF Exact
  <2> QED
    BY <2>1, <2>3
<1> QED
  BY <1>1, <1>2 DEF Next, Run, TimesOutAtLoop, BeginRead, ReadTimesOut,
     ReadFails, ReadResolves, Wakes, SleepTimesOut, Abort, Answer, Change, Tick,
     Done, vars, record

LEMMA InitExact == Init => Exact(evidence, history)
<1> SUFFICES ASSUME Init PROVE Exact(evidence, history)
  OBVIOUS
<1>1. /\ history = <<>> /\ Len(history) = 0 /\ evidence.samples = <<>>
      /\ Len(evidence.samples) = 0 /\ evidence.lastValue = NoValue
      /\ evidence.totalSamples = 0 /\ evidence.droppedSamples = 0
      /\ evidence.lastStreak = 0 /\ evidence.longestStreak = 0
      /\ evidence.transitions = 0
  BY DEF Init
<1>2. Runs(history) = {} /\ Turns(history) = {}
  BY <1>1 DEF Runs, Turns
<1>3. Transitions(evidence, history)
  BY <1>1, <1>2, FS_EmptySet DEF Transitions
<1> QED
  BY <1>1, <1>2, <1>3 DEF Exact, Retained, Streak, Longest

(* What recordSample counts step by step, with old samples dropped at the
   limit, is what a count over all that was recorded gives: totals, the last
   and the longest run, transitions, and the samples that are kept. *)
THEOREM CountersAreExact == Spec => []EvidenceIsExact
<1>1. IInv /\ Exact(evidence, history) => EvidenceIsExact
  <2> SUFFICES ASSUME IInv, Exact(evidence, history) PROVE EvidenceIsExact
    OBVIOUS
  <2> DEFINE n == Len(history)
             k == evidence.lastStreak
  <2>1. TypeOK /\ n \in Nat /\ k \in Nat
    BY DEF IInv, Shape, TypeOK, Evidence
  <2>2. /\ k <= n /\ \A i \in (n - k + 1)..n : history[i] = evidence.lastValue
        /\ k < n => history[n - k] # evidence.lastValue
        /\ n > 0 => k > 0 /\ evidence.lastValue = history[n]
    BY DEF Exact, Streak
  <2>3. EndsInRun(k)
    <3> SUFFICES ASSUME NEW i \in (n - k + 1)..n PROVE history[i] = history[n]
      BY <2>2 DEF EndsInRun
    <3>1. n > 0
      BY <2>1, <2>2
    <3> QED
      BY <2>2, <3>1
  <2>4. ~EndsInRun(k + 1)
    <3> SUFFICES ASSUME k + 1 <= n,
                        \A i \in (n - (k + 1) + 1)..n : history[i] = history[n]
                 PROVE  FALSE
      BY DEF EndsInRun
    <3>1. n - k \in (n - (k + 1) + 1)..n /\ k < n /\ n > 0
      BY <2>1
    <3> QED
      BY <2>2, <3>1
  <2> QED
    BY <2>1, <2>3, <2>4
    DEF Exact, Retained, Longest, Transitions, Runs, Turns, EvidenceIsExact
<1>2. Init => Exact(evidence, history)
  BY InitExact
<1>3. IInv /\ Exact(evidence, history) /\ [Next]_vars =>
        Exact(evidence, history)'
  BY ExactStep
<1>4. Spec => []Exact(evidence, history)
  BY <1>2, <1>3, Invariance, PTL DEF Spec
<1> QED
  BY <1>1, <1>4, Invariance, PTL

=============================================================================
