----------------------------- MODULE SettleProbe -----------------------------
(***************************************************************************)
(* oracle/settle.ts: settleProbe() samples the effect of the target until  *)
(* enough consecutive samples agree.  With observeUntilDeadline it samples *)
(* through the whole observation window and then needs one more read, the  *)
(* final confirmation, that starts once the window is over.                *)
(*                                                                         *)
(* Time is a whole number of ticks since startedAt.  Each operation races  *)
(* a timer; timers and callbacks may run up to MaxLag ticks late, and up   *)
(* to MaxLag ticks pass between two reads of the clock in straight code.   *)
(* The target evaluates a probe at any moment of the read, its answer      *)
(* arrives at any later one, and the effect may change at any moment.      *)
(***************************************************************************)
EXTENDS Integers, Sequences, FiniteSets

CONSTANTS
  Values,          \* what the probe may read
  NoValue,         \* nothing read yet
  TimeoutMs,       \* options.timeoutMs
  RequestTimeoutMs,
  IntervalMs,
  StableSamples,
  MaxRetained,     \* MAX_RETAINED_SAMPLES
  MaxLag,          \* bound on the lateness of a callback
  MaxChanges       \* bound on the changes of the effect

ASSUME ValuesAssumption == NoValue \notin Values
ASSUME OptionsAssumption ==
  /\ {TimeoutMs, RequestTimeoutMs, IntervalMs, StableSamples, MaxRetained}
       \subseteq Nat \ {0}
  /\ {MaxLag, MaxChanges} \subseteq Nat

VARIABLES
  full,       \* options.observeUntilDeadline
  pc,         \* where settleProbe is
  now,        \* the clock
  startedAt,  \* probeStartedAt of the latest read
  timer,      \* when the boundary of the running operation is due
  wakeAt,     \* when the running sleep is due
  answer,     \* what the target read for the running probe
  evidence,   \* MutableEvidence
  outcome,    \* how the call settled
  effect,     \* the effect the target has now
  changedAt,  \* when it last changed
  changes,    \* how often it changed
  history     \* every value that was recorded

vars == <<full, pc, now, startedAt, timer, wakeAt, answer, evidence, outcome,
          effect, changedAt, changes, history>>
world == <<effect, changedAt, changes>>
record == <<evidence, history>>

(* isFinalConfirmation of a read that starts at the given time.            *)
Final(from) == full /\ from >= TimeoutMs

Samples == [started : Nat, completed : Nat, value : Values]

Evidence ==
  [droppedSamples : Nat, lastStreak : Nat, lastValue : Values \cup {NoValue},
   longestStreak : Nat, samples : Seq(Samples), totalSamples : Nat,
   transitions : Nat]

TypeOK ==
  /\ full \in BOOLEAN
  /\ pc \in {"loop", "reading", "sleeping", "done"}
  /\ {now, startedAt, timer, wakeAt, changedAt} \subseteq Nat
  /\ answer \in Values \cup {NoValue}
  /\ evidence \in Evidence
  /\ Len(evidence.samples) <= MaxRetained
  /\ outcome \in {"pending", "stable", "timeout", "aborted", "failed"}
  /\ effect \in Values
  /\ changes \in 0..MaxChanges
  /\ history \in Seq(Values)

(* settleProbe after its checks: a call with an aborted signal ends before *)
(* it reads anything.                                                      *)
Init ==
  /\ full \in BOOLEAN
  /\ pc = "loop"
  /\ now = 0
  /\ startedAt = 0
  /\ timer = 0
  /\ wakeAt = 0
  /\ answer = NoValue
  /\ evidence = [droppedSamples |-> 0, lastStreak |-> 0, lastValue |-> NoValue,
                 longestStreak |-> 0, samples |-> <<>>, totalSamples |-> 0,
                 transitions |-> 0]
  /\ outcome = "pending"
  /\ effect \in Values
  /\ changedAt = 0
  /\ changes = 0
  /\ history = <<>>

-----------------------------------------------------------------------------
(* The loop *)

MinOf(a, b) == IF a < b THEN a ELSE b
MaxOf(a, b) == IF a < b THEN b ELSE a

Settle(result) ==
  /\ outcome' = result
  /\ pc' = "done"

(* Mutant: the final confirmation is tried again when it is late.          *)
DeadlineReached_RetriesFinal(from) ==
  IF full
  THEN pc' = "loop" /\ UNCHANGED outcome
  ELSE Settle("timeout")

(* DeadlineReachedError of a read or of a sleep.  An observation of the    *)
(* full window goes on, unless this was its confirmation.                  *)
DeadlineReached(from) ==
  IF full /\ ~Final(from)
  THEN pc' = "loop" /\ UNCHANGED outcome
  ELSE Settle("timeout")

(* effectiveRequestDeadline: reads of the window are capped at its end.    *)
RequestDeadline(from) ==
  IF Final(from)
  THEN from + RequestTimeoutMs
  ELSE MinOf(from + RequestTimeoutMs, TimeoutMs)

TimesOutAtLoop ==
  /\ pc = "loop"
  /\ ~full
  /\ now >= TimeoutMs
  /\ Settle("timeout")
  /\ UNCHANGED <<full, world, record, now, startedAt, timer, wakeAt, answer>>

(* The head of the loop up to the read; runBeforeDeadline looks at the     *)
(* clock again before it starts the operation.                             *)
BeginRead ==
  /\ pc = "loop"
  /\ full \/ now < TimeoutMs
  /\ startedAt' = now
  /\ now' \in now..(now + MaxLag)
  /\ timer' = RequestDeadline(now)
  /\ answer' = NoValue
  /\ IF now' < timer'
     THEN pc' = "reading" /\ UNCHANGED outcome
     ELSE DeadlineReached(now)
  /\ UNCHANGED <<full, world, record, wakeAt>>

(* Mutant: the timer only signals the reader and waits for its answer.     *)
ReadTimesOut_WaitsForReader ==
  /\ pc = "reading"
  /\ now >= timer
  /\ answer # NoValue
  /\ DeadlineReached(startedAt)
  /\ UNCHANGED <<full, world, record, now, startedAt, timer, wakeAt, answer>>

ReadTimesOut ==
  /\ pc = "reading"
  /\ now >= timer
  /\ DeadlineReached(startedAt)
  /\ UNCHANGED <<full, world, record, now, startedAt, timer, wakeAt, answer>>

(* The reader rejects, or returned what assertProbeValue refuses.          *)
ReadFails ==
  /\ pc = "reading"
  /\ Settle("failed")
  /\ UNCHANGED <<full, world, record, now, startedAt, timer, wakeAt, answer>>

(* Mutant: a transition counts but the streak runs on.                     *)
Recorded_KeepsStreak(e, sample) ==
  LET streak == e.lastStreak + 1
      kept == Append(e.samples, sample)
      over == Len(kept) > MaxRetained
  IN [droppedSamples |-> IF over THEN e.droppedSamples + 1
                                 ELSE e.droppedSamples,
      lastStreak |-> streak,
      lastValue |-> sample.value,
      longestStreak |-> MaxOf(e.longestStreak, streak),
      samples |-> IF over THEN Tail(kept) ELSE kept,
      totalSamples |-> e.totalSamples + 1,
      transitions |-> IF e.lastValue \in {NoValue, sample.value}
                      THEN e.transitions ELSE e.transitions + 1]

(* recordSample *)
Recorded(e, sample) ==
  LET streak == IF e.lastValue = sample.value THEN e.lastStreak + 1 ELSE 1
      kept == Append(e.samples, sample)
      over == Len(kept) > MaxRetained
  IN [droppedSamples |-> IF over THEN e.droppedSamples + 1
                                 ELSE e.droppedSamples,
      lastStreak |-> streak,
      lastValue |-> sample.value,
      longestStreak |-> MaxOf(e.longestStreak, streak),
      samples |-> IF over THEN Tail(kept) ELSE kept,
      totalSamples |-> e.totalSamples + 1,
      transitions |-> IF e.lastValue \in {NoValue, sample.value}
                      THEN e.transitions ELSE e.transitions + 1]

(* From a recorded sample to the sleep, or to the end of the call.         *)
BeginSleep ==
  /\ now' \in now..(now + MaxLag)
  /\ timer' = TimeoutMs
  /\ wakeAt' = now' + MinOf(IntervalMs, TimeoutMs - now)
  /\ IF now' < TimeoutMs
     THEN pc' = "sleeping" /\ UNCHANGED outcome
     ELSE DeadlineReached(startedAt)

(* Mutant: a read that completes past the window stands for the            *)
(* confirmation, although it started, and was answered, before its end.    *)
Conclude_LateReadConfirms ==
  IF evidence'.lastStreak >= StableSamples /\ (full => now >= TimeoutMs)
  THEN Settle("stable") /\ UNCHANGED <<now, timer, wakeAt>>
  ELSE IF full /\ now >= TimeoutMs
  THEN pc' = "loop" /\ UNCHANGED <<outcome, now, timer, wakeAt>>
  ELSE BeginSleep

(* A recorded sample ends the call, ends the window, or is followed by a   *)
(* sleep.                                                                  *)
Conclude ==
  IF evidence'.lastStreak >= StableSamples /\ (full => Final(startedAt))
  THEN Settle("stable") /\ UNCHANGED <<now, timer, wakeAt>>
  ELSE IF Final(startedAt)
  THEN Settle("timeout") /\ UNCHANGED <<now, timer, wakeAt>>
  ELSE IF full /\ now >= TimeoutMs
  THEN pc' = "loop" /\ UNCHANGED <<outcome, now, timer, wakeAt>>
  ELSE BeginSleep

(* Mutant: an answer that beat its timer counts, however late it is.       *)
ReadResolves_AcceptsLate ==
  /\ pc = "reading"
  /\ answer # NoValue
  /\ evidence' = Recorded(evidence, [started |-> startedAt, completed |-> now,
                                     value |-> answer])
  /\ history' = Append(history, answer)
  /\ Conclude
  /\ UNCHANGED <<full, world, startedAt, answer>>

(* The answer wins the race against the timer, which may be due already:   *)
(* without a full window a sample completed past the end is refused.       *)
ReadResolves ==
  /\ pc = "reading"
  /\ answer # NoValue
  /\ IF ~full /\ now >= TimeoutMs
     THEN Settle("timeout") /\ UNCHANGED <<record, now, timer, wakeAt>>
     ELSE /\ evidence' = Recorded(evidence,
                           [started |-> startedAt, completed |-> now,
                            value |-> answer])
          /\ history' = Append(history, answer)
          /\ Conclude
  /\ UNCHANGED <<full, world, startedAt, answer>>

Wakes ==
  /\ pc = "sleeping"
  /\ now >= wakeAt
  /\ pc' = "loop"
  /\ UNCHANGED <<full, world, record, now, startedAt, timer, wakeAt, answer,
                 outcome>>

SleepTimesOut ==
  /\ pc = "sleeping"
  /\ now >= timer
  /\ DeadlineReached(startedAt)
  /\ UNCHANGED <<full, world, record, now, startedAt, timer, wakeAt, answer>>

(* options.signal aborts; its listener rejects the running operation.      *)
Abort ==
  /\ pc \in {"reading", "sleeping"}
  /\ Settle("aborted")
  /\ UNCHANGED <<full, world, record, now, startedAt, timer, wakeAt, answer>>

-----------------------------------------------------------------------------
(* The world *)

(* The target evaluates the probe; its answer is on the way.               *)
Answer ==
  /\ pc = "reading"
  /\ answer = NoValue
  /\ answer' = effect
  /\ UNCHANGED <<full, world, record, pc, now, startedAt, timer, wakeAt,
                 outcome>>

Change ==
  /\ pc # "done"
  /\ changes < MaxChanges
  /\ effect' \in Values \ {effect}
  /\ changedAt' = now
  /\ changes' = changes + 1
  /\ UNCHANGED <<full, record, pc, now, startedAt, timer, wakeAt, answer,
                 outcome>>

(* The next timer that is due while the call waits.                        *)
Due == IF pc = "reading" THEN timer ELSE MinOf(timer, wakeAt)

Tick ==
  /\ pc \in {"reading", "sleeping"}
  /\ now < Due + MaxLag
  /\ now' = now + 1
  /\ UNCHANGED <<full, world, record, pc, startedAt, timer, wakeAt, answer,
                 outcome>>

Done == pc = "done" /\ UNCHANGED vars

Run == \/ TimesOutAtLoop \/ BeginRead \/ ReadTimesOut \/ ReadFails
       \/ ReadResolves \/ Wakes \/ SleepTimesOut

Next == Run \/ Abort \/ Answer \/ Change \/ Tick \/ Done

Spec == Init /\ [][Next]_vars

(* The event loop runs what is due and the clock runs on; the target need  *)
(* never answer.                                                           *)
Timers == TimesOutAtLoop \/ BeginRead \/ ReadTimesOut \/ Wakes \/ SleepTimesOut
FairSpec == Spec /\ WF_vars(Timers) /\ WF_vars(Tick)

-----------------------------------------------------------------------------
(* Properties *)

(* The last k recorded values are equal.                                   *)
EndsInRun(k) ==
  /\ k <= Len(history)
  /\ \A i \in (Len(history) - k + 1)..Len(history) :
       history[i] = history[Len(history)]

(* The evidence recordSample keeps incrementally, with its samples dropped *)
(* at the limit, is that of everything that was recorded.                  *)
EvidenceIsExact ==
  LET n == Len(history)
      kept == Len(evidence.samples)
      runs == {k \in 1..n : \E i \in 1..(n - k + 1) :
                 \A j \in i..(i + k - 1) : history[j] = history[i]}
  IN /\ TypeOK
     /\ evidence.totalSamples = n
     /\ evidence.droppedSamples + kept = n
     /\ \A i \in 1..kept :
          evidence.samples[i].value = history[n - kept + i]
     /\ EndsInRun(evidence.lastStreak) /\ ~EndsInRun(evidence.lastStreak + 1)
     /\ \A k \in runs : k <= evidence.longestStreak
     /\ n > 0 => evidence.longestStreak \in runs
     /\ evidence.transitions =
          Cardinality({i \in 2..n : history[i] # history[i - 1]})

(* A stable result rests on the required number of consecutive equal       *)
(* samples, and without a full window on none completed past the deadline, *)
(* also when an answer wins the race against a late timer.                 *)
VerdictIsSupported ==
  outcome = "stable" =>
    /\ EndsInRun(StableSamples)
    /\ ~full =>
         evidence.samples[Len(evidence.samples)].completed < TimeoutMs

(* A full observation is confirmed by a read that started once the window  *)
(* was over: an effect that came to rest within the window is the effect   *)
(* that is reported, even if an earlier answer arrived after its end.      *)
ConfirmedAfterWindow ==
  outcome = "stable" /\ full =>
    /\ startedAt >= TimeoutMs
    /\ changedAt < TimeoutMs => evidence.lastValue = effect

(* A full observation takes the window and one request budget, a plain one *)
(* the window, up to the lateness of the callbacks.                        *)
WindowIsBounded ==
  now <= TimeoutMs + 2 * MaxLag + (IF full THEN RequestTimeoutMs ELSE 0)

(* settleProbe settles, also when the target never answers.                *)
Settles == <>(pc = "done")

=============================================================================
