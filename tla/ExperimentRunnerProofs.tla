----------------------- MODULE ExperimentRunnerProofs -----------------------
(***************************************************************************)
(* Safety of the experiment suite for every scenario, process and oracle:  *)
(* one target at a time, no target left behind silently, verdicts and      *)
(* cleanup evidence that the durable state bears out, and a suite that the *)
(* report accepts.                                                         *)
(*                                                                         *)
(* None of these is inductive.  Safe adds who holds the live process       *)
(* (Control, Ownership), what an unproven termination leaves behind        *)
(* (Halting), and that nothing asked to change the effect survives into    *)
(* the cleanup of external state (Quiet).  Earned adds on which process a  *)
(* strategy goes on after a boundary (Isolated), where fault evidence is   *)
(* on record (Proven), and what the finished results say (Recorded).       *)
(***************************************************************************)
EXTENDS ExperimentRunner, FiniteSetTheorems, TLAPS

HoldingSteps ==
  {"closeOld", "durable", "cleanupReset", "cleanupSettle", "cleanupClose"}

(* A local variable of the runner holds the process. *)
Holding == pc \in HoldingSteps \/ (awaiting /\ pc \in OpenSteps \cup {"close"})

(* The process is held by the session or by a local variable, never both.  *)
Control ==
  /\ ~Holding => inHand = NoProc
  /\ Holding \/ pc \in OpenSteps \cup {"result", "done"} =>
       state.session = NoProc
  /\ ~state.openedAny => state.session = NoProc
  /\ awaiting => pc \notin (CleanupSteps \ {"cleanupOpen"})
                             \cup {"result", "done"}

(* While spawning is allowed, a live process is one the runner holds. *)
Ownership ==
  /\ AtMostOneTarget
  /\ state.canSpawn => alive \subseteq {state.session, inHand}

(* An unproven termination leads straight to failed cleanup and a halt. *)
Halting ==
  /\ ~state.canSpawn => /\ pc \in {"cleanup", "result", "done"}
                        /\ state.session = NoProc
                        /\ pc = "result" => cleanup = "failed"
  /\ pc = "done" /\ ~state.canSpawn =>
       halted /\ results # <<>> /\ results[Len(results)].cleanup = "failed"

(* What the cleanup of external state relies on. *)
Quiet ==
  /\ External /\ pc \in HoldingSteps \ {"closeOld"} =>
       alive \cap exercised = {}
  /\ pc = "cleanupOpen" /\ awaiting => inHand \notin exercised
  /\ pc = "durable" => state.conclusion.kind = "pass"
  /\ External /\ pc = "cleanupClose" /\ cleanup # "tainted" =>
       effect = Baseline
  /\ pc = "result" => cleanup \in {"clean", "failed", "not_needed"}

Safe == Control /\ Ownership /\ Halting /\ Quiet /\ PassIsDurable
          /\ CleanMeansQuiescent

-----------------------------------------------------------------------------
(* Lemmas about the operators of the model *)

(* Success of a call leads into the middle of a strategy or to cleanup,    *)
(* and only a closed session is followed by another open.                  *)
FlowSteps == SettleSteps \cup BeginSteps \cup
             {"reset", "cancelSeed", "close", "cancelObserve", "cancelWrite",
              "cleanup"}

LEMMA AfterType ==
  ASSUME NEW s
  PROVE  IF s = "close" THEN After(s) = "reopen"
                        ELSE After(s) \in FlowSteps
<1>1. FirstStep \in BeginSteps
  BY DEF FirstStep, BeginSteps
<1> QED
  BY <1>1 DEF After, FlowSteps, SettleSteps, BeginSteps

LEMMA PhaseType == \A s : PhaseOf(s) \in Phases
  BY DEF PhaseOf, Phases

LEMMA OracleType == /\ Effects \subseteq Int
                    /\ {Baseline, Once, CancelledEffect} \subseteq Effects
  BY OracleAssumption DEF Effects

LEMMA ExperimentType ==
  ASSUME TypeOK PROVE Experiment \in ExperimentNames
<1>1. ValidScenario(scenario)
  BY ScenariosAssumption DEF TypeOK
<1> QED
  BY <1>1 DEF ValidScenario, Experiment, TypeOK

(* A failed flow is inconclusive, gives up the right to spawn exactly when *)
(* a termination is unproven, and changes nothing else.                    *)
LEMMA FailedType ==
  ASSUME NEW st \in States, NEW phase \in Phases, NEW reason \in Reasons
  PROVE  /\ Failed(st, phase, reason) \in States
         /\ Failed(st, phase, reason).conclusion.kind = "inconclusive"
         /\ Failed(st, phase, reason).session = st.session
         /\ Failed(st, phase, reason).openedAny = st.openedAny
         /\ Failed(st, phase, reason).canSpawn
              = (st.canSpawn /\ reason # "termination_unproven")
         /\ Failed(st, phase, reason).fault = st.fault
<1>1. Inconclusive(phase, reason) \in Conclusions
  BY DEF Inconclusive, Conclusions
<1>2. Inconclusive(phase, reason).kind = "inconclusive"
  BY DEF Inconclusive
<1> QED
  BY <1>1, <1>2 DEF Failed, States

LEMMA VerdictType ==
  ASSUME NEW phase \in {"seed_effect", "final_effect"},
         NEW expected \in Effects, NEW observed \in Effects
  PROVE  /\ Verdict(phase, expected, observed) \in Conclusions
         /\ Verdict(phase, expected, observed).expected = expected
         /\ Verdict(phase, expected, observed).kind = "pass"
              => observed = expected
  BY DEF Verdict, Conclusions

-----------------------------------------------------------------------------
(* Type correctness *)

(* TypeOK with what it rests on: the strategy runs on an open session, and *)
(* cleanup evidence fits the step it is used at.                           *)
TypeInv ==
  /\ TypeOK
  /\ pc \in FlowSteps \ {"cleanup"} /\ ~(pc = "close" /\ awaiting) =>
       state.session \in Procs
  /\ pc = "durable" => state.conclusion.kind = "pass"
  /\ pc = "result" => cleanup \in {"clean", "failed", "not_needed"}

LEMMA InitialStateType == InitialState \in States
  BY DEF InitialState, States, Conclusions, Inconclusive, MaybeProc,
         Phases, Reasons

LEMMA InitType == Init => TypeInv
<1> SUFFICES ASSUME Init PROVE TypeInv
  OBVIOUS
<1>1. InitialState \in States
  BY InitialStateType
<1>2. idx \in DOMAIN scenario.experiments
  BY ScenariosAssumption DEF Init, ValidScenario
<1>3. /\ scenario \in Scenarios
      /\ pc = "open" /\ pc \in Steps
      /\ inHand \in MaybeProc
      /\ results \in Seq(Results)
      /\ alive \subseteq Procs
      /\ exercised \subseteq Procs
  BY DEF Init, Steps, OpenSteps, MaybeProc
<1> QED
  BY <1>1, <1>2, <1>3
  DEF Init, TypeInv, TypeOK, FlowSteps, SettleSteps, BeginSteps

(* Every action preserves the types.  The runner only ever moves to a step *)
(* of After or to cleanup, and its evidence comes from Failed or Verdict.  *)
LEMMA FailPreservesType ==
  ASSUME TypeInv, NEW phase \in Phases, NEW reason \in Reasons,
         Fail(phase, reason)
  PROVE  state' \in States /\ pc' = "cleanup" /\ awaiting' = FALSE
  BY FailedType DEF TypeInv, TypeOK, Fail

LEMMA ProceedPreservesType ==
  ASSUME TypeInv, Proceed
  PROVE  /\ pc' \in Steps \ {"durable", "result"}
         /\ awaiting' = FALSE
         /\ IF pc = "close" THEN pc' = "reopen" ELSE pc' \in FlowSteps
  BY AfterType
  DEF Proceed, FlowSteps, Steps, OpenSteps, SettleSteps, BeginSteps,
      CleanupSteps

LEMMA SessionsType == TypeInv /\ Sessions => TypeInv'
<1> SUFFICES ASSUME TypeInv, Sessions PROVE TypeInv'
  OBVIOUS
<1> USE DEF TypeInv, TypeOK, runner, target, FlowSteps, SettleSteps,
            BeginSteps
<1>1. CASE OpenStart
  BY <1>1, OracleType DEF OpenStart, MaybeProc, OpenSteps
<1>2. CASE OpenDone
  <2>1. state' \in States /\ state'.session = inHand
    BY <1>2 DEF OpenDone, States
  <2> QED
    BY <1>2, <2>1, ProceedPreservesType DEF OpenDone, MaybeProc
<1>3. CASE OpenFailed
  BY <1>3, FailPreservesType
  DEF OpenFailed, MaybeProc, Phases, Reasons, Steps, CleanupSteps
<1>4. CASE OpenUnproven
  BY <1>4, FailPreservesType
  DEF OpenUnproven, MaybeProc, Phases, Reasons, Steps, CleanupSteps
<1>5. CASE CloseStart
  BY <1>5 DEF CloseStart, States, MaybeProc
<1>6. CASE CloseConfirmed
  BY <1>6, ProceedPreservesType DEF CloseConfirmed, MaybeProc
<1>7. CASE CloseNatural
  BY <1>7, FailPreservesType
  DEF CloseNatural, MaybeProc, Phases, Reasons, Steps, CleanupSteps
<1>8. CASE CloseUnproven
  BY <1>8, FailPreservesType
  DEF CloseUnproven, MaybeProc, Phases, Reasons, Steps, CleanupSteps
<1> QED
  BY <1>1, <1>2, <1>3, <1>4, <1>5, <1>6, <1>7, <1>8 DEF Sessions

LEMMA ProbesType == TypeInv /\ Probes => TypeInv'
<1> SUFFICES ASSUME TypeInv, Probes PROVE TypeInv'
  OBVIOUS
<1> USE DEF TypeInv, TypeOK, runner, target, Locals, FlowSteps,
            SettleSteps, BeginSteps
<1>1. CASE ResetDone
  BY <1>1, ProceedPreservesType, OracleType DEF ResetDone
<1>2. CASE ResetFailed
  <2>1. PICK reason \in Reasons : Fail("reset", reason)
    BY <1>2 DEF ResetFailed, Reasons
  <2> QED
    BY <1>2, <2>1, FailPreservesType, OracleType
    DEF ResetFailed, Phases, Steps, CleanupSteps
<1>3. CASE SettleFailed
  <2>1. PICK reason \in Reasons : Fail(PhaseOf(pc), reason)
    BY <1>3 DEF SettleFailed, Reasons
  <2> QED
    BY <1>3, <2>1, FailPreservesType, PhaseType
    DEF SettleFailed, Steps, CleanupSteps
<1>4. CASE BaselineSettled
  BY <1>4, FailPreservesType, ProceedPreservesType
  DEF BaselineSettled, Settled, Phases, Reasons, Steps, CleanupSteps
<1>5. CASE SeedEffectSettled
  <2>1. state' \in States /\ state'.session = state.session
    BY <1>5, VerdictType, OracleType
    DEF SeedEffectSettled, Settled, States
  <2> QED
    BY <1>5, <2>1, ProceedPreservesType
    DEF SeedEffectSettled, Settled, Steps, CleanupSteps
<1>6. CASE BoundarySettled
  BY <1>6, FailPreservesType, ProceedPreservesType
  DEF BoundarySettled, Settled, Phases, Reasons, Steps, CleanupSteps
<1>7. CASE FinalSettled
  <2>1. state' \in States /\ state'.session = state.session
    BY <1>7, VerdictType, OracleType
    DEF FinalSettled, Settled, States, Expected
  <2> QED
    BY <1>7, <2>1, ProceedPreservesType DEF FinalSettled, Settled
<1>8. CASE CancelSettled
  <2>1. state' \in States /\ state'.session = state.session
    BY <1>8, VerdictType, OracleType
    DEF CancelSettled, Settled, States, Expected, External
  <2> QED
    BY <1>8, <2>1, ProceedPreservesType DEF CancelSettled, Settled
<1> QED
  BY <1>1, <1>2, <1>3, <1>4, <1>5, <1>6, <1>7, <1>8 DEF Probes

LEMMA AttemptsType == TypeInv /\ Attempts => TypeInv'
<1> SUFFICES ASSUME TypeInv, Attempts PROVE TypeInv'
  OBVIOUS
<1> USE DEF TypeInv, TypeOK, runner, target, Locals, FlowSteps, SettleSteps,
            BeginSteps
<1>1. CASE BeginExercise
  BY <1>1 DEF BeginExercise
<1>2. CASE BeginRejected
  BY <1>2, FailPreservesType, PhaseType
  DEF BeginRejected, Reasons, Steps, CleanupSteps
<1>3. CASE ParallelPeerRejected
  BY <1>3 DEF ParallelPeerRejected, Steps
<1>4. CASE ParallelPeerObserved
  BY <1>4, FailPreservesType
  DEF ParallelPeerObserved, Phases, Reasons, Steps, CleanupSteps
<1>5. CASE SeedSuppressed
  BY <1>5, ProceedPreservesType DEF SeedSuppressed
<1>6. CASE SeedCancelled
  <2>1. state' \in States /\ state'.session = state.session
    BY <1>6, ExperimentType DEF SeedCancelled, States
  <2> QED
    BY <1>6, <2>1, ProceedPreservesType DEF SeedCancelled
<1>7. CASE SeedFailed
  BY <1>7, FailPreservesType
  DEF SeedFailed, Phases, Reasons, Steps, CleanupSteps
<1>8. CASE AttemptAccepted
  <2>1. state' \in States /\ state'.session = state.session
    BY <1>8, ExperimentType DEF AttemptAccepted, States
  <2> QED
    BY <1>8, <2>1, ProceedPreservesType DEF AttemptAccepted
<1>9. CASE AttemptFailed
  <2>1. PICK reason \in Reasons :
          state' = [Failed(state, PhaseOf(pc), reason) EXCEPT
                      !.fault = IF Experiment \in SeedKinds THEN Experiment
                                                            ELSE @]
    BY <1>9 DEF AttemptFailed, Reasons
  <2>2. Failed(state, PhaseOf(pc), reason) \in States
    BY FailedType, PhaseType
  <2>3. state' \in States
    BY <2>1, <2>2, ExperimentType DEF States
  <2> QED
    BY <1>9, <2>3 DEF AttemptFailed, Steps, CleanupSteps
<1>10. CASE ProgressSeen
  <2>1. state' \in States /\ state'.session = state.session
    BY <1>10 DEF ProgressSeen, States
  <2> QED
    BY <1>10, <2>1 DEF ProgressSeen, After, Steps
<1>11. CASE CancelObserved
  BY <1>11, ProceedPreservesType DEF CancelObserved
<1>12. CASE CancelWritten
  <2>1. state' \in States /\ state'.session = state.session
    BY <1>12, ExperimentType DEF CancelWritten, States
  <2> QED
    BY <1>12, <2>1, ProceedPreservesType DEF CancelWritten
<1>13. CASE CancelNotProven
  BY <1>13, FailPreservesType
  DEF CancelNotProven, Phases, Reasons, Steps, CleanupSteps
<1>14. CASE Disconnected
  BY <1>14, ProceedPreservesType DEF Disconnected
<1>15. CASE DisconnectFailed
  BY <1>15, FailPreservesType
  DEF DisconnectFailed, Phases, Reasons, Steps, CleanupSteps
<1> QED
  BY <1>1, <1>2, <1>3, <1>4, <1>5, <1>6, <1>7, <1>8, <1>9, <1>10, <1>11,
     <1>12, <1>13, <1>14, <1>15
  DEF Attempts

LEMMA CleanupType == TypeInv /\ Cleanup => TypeInv'
<1> SUFFICES ASSUME TypeInv, Cleanup PROVE TypeInv'
  OBVIOUS
<1> USE DEF TypeInv, TypeOK, runner, target, Locals, FlowSteps, SettleSteps,
            BeginSteps, MaybeProc, Steps, OpenSteps, CleanupSteps, Finish
<1>1. CASE CleanupNotNeeded
  BY <1>1 DEF CleanupNotNeeded
<1>2. CASE CleanupSameSession
  BY <1>2 DEF CleanupSameSession, States
<1>3. CASE CleanupCloseOld
  BY <1>3 DEF CleanupCloseOld, States
<1>4. CASE CleanupNoSession
  BY <1>4 DEF CleanupNoSession, OpenCleanupOrFail
<1>5. CASE OldClosed
  BY <1>5 DEF OldClosed, OpenCleanupOrFail
<1>6. CASE CleanupCloseUnproven
  BY <1>6 DEF CleanupCloseUnproven, States
<1>7. CASE CleanupOpened
  BY <1>7 DEF CleanupOpened
<1>8. CASE CleanupOpenFailed
  BY <1>8 DEF CleanupOpenFailed
<1>9. CASE CleanupOpenUnproven
  BY <1>9 DEF CleanupOpenUnproven, States
<1>10. CASE DurableSettled
  <2>1. state.conclusion \in Conclusions /\ state.conclusion.kind = "pass"
    BY <1>10 DEF DurableSettled, States
  <2>2. state.conclusion.expected \in Effects
    BY <2>1 DEF Conclusions
  <2>3. state' \in States
    BY <1>10, <2>2, VerdictType DEF DurableSettled, States
  <2> QED
    BY <1>10, <2>3 DEF DurableSettled
<1>11. CASE DurableUnsettled
  BY <1>11 DEF DurableUnsettled
<1>12. CASE CleanupReset
  BY <1>12, OracleType DEF CleanupReset
<1>13. CASE CleanupSettle
  BY <1>13 DEF CleanupSettle
<1>14. CASE CleanupClosed
  BY <1>14 DEF CleanupClosed
<1> QED
  BY <1>1, <1>2, <1>3, <1>4, <1>5, <1>6, <1>7, <1>8, <1>9, <1>10, <1>11,
     <1>12, <1>13, <1>14
  DEF Cleanup

LEMMA RecordResultType == TypeInv /\ RecordResult => TypeInv'
<1> SUFFICES ASSUME TypeInv, RecordResult PROVE TypeInv'
  OBVIOUS
<1>1. Outcome \in Results
  <2>1. /\ state.conclusion.kind \in {"inconclusive", "pass", "violation"}
        /\ state.fault \in ExperimentNames \cup {"not_proven"}
    BY DEF TypeInv, TypeOK, States, Conclusions
  <2> QED
    BY <2>1, ExperimentType
    DEF Outcome, Results, RecordResult, TypeInv, TypeOK
<1>2. results' \in Seq(Results)
  BY <1>1 DEF RecordResult, TypeInv, TypeOK
<1>3. scenario.experiments \in Seq(ExperimentNames)
  BY ScenariosAssumption DEF TypeInv, TypeOK, ValidScenario
<1>4. idx' \in DOMAIN scenario.experiments
  BY <1>3 DEF RecordResult, TypeInv, TypeOK
<1>5. state' \in States
  BY InitialStateType DEF RecordResult, TypeInv, TypeOK
<1>6. /\ pc' \in Steps \ {"durable", "result"}
      /\ pc' \notin FlowSteps
  BY DEF RecordResult, Steps, OpenSteps, FlowSteps, SettleSteps, BeginSteps
<1>7. /\ effect' \in Effects
      /\ halted' \in BOOLEAN
      /\ cleanup' \in {"pending", "tainted", "clean", "failed", "not_needed"}
  BY OracleType DEF RecordResult, TypeInv, TypeOK
<1> QED
  BY <1>2, <1>4, <1>5, <1>6, <1>7 DEF RecordResult, TypeInv, TypeOK

LEMMA EnvironmentType == TypeInv /\ Environment => TypeInv'
<1> SUFFICES ASSUME TypeInv, Environment PROVE TypeInv'
  OBVIOUS
<1> USE DEF TypeInv, TypeOK, runner, target, Locals
<1>1. CASE Abort
  BY <1>1 DEF Abort
<1>2. ASSUME NEW p \in Procs, Mutate(p) PROVE TypeInv'
  <2>1. effect' \in Effects
    BY <1>2, OracleAssumption DEF Mutate, Effects
  <2> QED
    BY <1>2, <2>1 DEF Mutate
<1>3. ASSUME NEW p \in Procs, Crash(p) PROVE TypeInv'
  BY <1>3 DEF Crash
<1> QED
  BY <1>1, <1>2, <1>3 DEF Environment

LEMMA NextType == TypeInv /\ [Next]_vars => TypeInv'
<1> SUFFICES ASSUME TypeInv, [Next]_vars PROVE TypeInv'
  OBVIOUS
<1>1. CASE Start \/ AbortedAtStart \/ AbortedInFlight
  <2> USE DEF TypeInv, TypeOK, runner, target, Locals
  <2>1. CASE Start
    BY <1>1, <2>1 DEF Start, SettleSteps, FlowSteps
  <2>2. CASE AbortedAtStart \/ AbortedInFlight
    BY <1>1, <2>2, FailPreservesType, PhaseType
    DEF AbortedAtStart, AbortedInFlight, Reasons, Steps, CleanupSteps
  <2> QED
    BY <1>1, <2>1, <2>2
<1>2. CASE UNCHANGED vars
  BY <1>2 DEF vars, TypeInv, TypeOK
<1> QED
  BY <1>1, <1>2, SessionsType, ProbesType, AttemptsType, CleanupType,
     RecordResultType, EnvironmentType
  DEF Next, Runner, Done

(* Type correctness, for every set of scenarios the schema accepts. *)
THEOREM TypeCorrect == Spec => []TypeOK
<1>1. TypeInv => TypeOK
  BY DEF TypeInv
<1> QED
  BY <1>1, InitType, NextType, PTL DEF Spec

-----------------------------------------------------------------------------
(* Safety *)

LEMMA InitSafe == Init => Safe
  BY DEF Init, Safe, Control, Ownership, Halting, Quiet, PassIsDurable,
         CleanMeansQuiescent, Holding, HoldingSteps, OpenSteps, CleanupSteps,
         InitialState, AtMostOneTarget

(* A move within a strategy keeps the session, never spawns, and ends in   *)
(* another call of the strategy or at cleanup.                             *)
StrategyMove ==
  /\ pc \in (FlowSteps \ {"cleanup"}) \cup {"parallelPeer", "open", "reopen"}
  /\ ~Holding
  /\ pc' \in FlowSteps \cup {"parallelPeer"}
  /\ awaiting' => pc' \notin {"cleanup", "close"}
  /\ state'.session = state.session
  /\ state'.openedAny = state.openedAny
  /\ state'.canSpawn = state.canSpawn
  /\ alive' \subseteq alive
  /\ inHand' = inHand

LEMMA StrategyMoveSafe == TypeInv /\ Safe /\ StrategyMove => Safe'
<1> SUFFICES ASSUME TypeInv, Safe, StrategyMove PROVE Safe'
  OBVIOUS
<1> USE DEF StrategyMove, FlowSteps, SettleSteps, BeginSteps, Holding,
            HoldingSteps, OpenSteps
<1>1. /\ ~Holding'
      /\ pc' \notin OpenSteps \cup {"result", "done", "durable"}
  OBVIOUS
<1>2. Control'
  BY <1>1 DEF Safe, Control, CleanupSteps
<1>3. Ownership'
  BY DEF Safe, Ownership, AtMostOneTarget
<1>4. Halting'
  BY <1>1 DEF Safe, Halting
<1>5. Quiet' /\ PassIsDurable' /\ CleanMeansQuiescent'
  BY <1>1 DEF Quiet, PassIsDurable, CleanMeansQuiescent
<1> QED
  BY <1>2, <1>3, <1>4, <1>5 DEF Safe

(* A failure other than an unproven termination is such a move. *)
LEMMA FailMoves ==
  ASSUME TypeInv, NEW phase \in Phases,
         NEW reason \in Reasons \ {"termination_unproven"},
         Fail(phase, reason)
  PROVE  /\ pc' = "cleanup" /\ awaiting' = FALSE
         /\ state'.session = state.session
         /\ state'.openedAny = state.openedAny
         /\ state'.canSpawn = state.canSpawn
<1>1. state.canSpawn \in BOOLEAN
  BY DEF TypeInv, TypeOK, States
<1> QED
  BY <1>1, FailedType DEF Fail, TypeInv, TypeOK

LEMMA UnprovenMoves ==
  ASSUME TypeInv, NEW phase \in Phases, Fail(phase, "termination_unproven")
  PROVE  /\ pc' = "cleanup" /\ awaiting' = FALSE
         /\ state'.session = state.session
         /\ state'.canSpawn = FALSE
<1>1. state \in States /\ state' = Failed(state, phase, "termination_unproven")
  BY DEF Fail, TypeInv, TypeOK
<1>2. state'.session = state.session
  BY <1>1, FailedType DEF Reasons
<1>3. state'.canSpawn = FALSE
  BY <1>1 DEF Failed, States
<1> QED
  BY <1>2, <1>3 DEF Fail

LEMMA StartMoves ==
  TypeInv /\ (Start \/ AbortedAtStart \/ AbortedInFlight) => StrategyMove
<1> SUFFICES ASSUME TypeInv, Start \/ AbortedAtStart \/ AbortedInFlight
             PROVE  StrategyMove
  OBVIOUS
<1> USE DEF StrategyMove, FlowSteps, SettleSteps, BeginSteps, Holding,
            HoldingSteps, OpenSteps, runner, target, Locals, Reasons
<1>1. CASE Start
  BY <1>1 DEF Start
<1>2. CASE AbortedAtStart
  BY <1>2, FailMoves, PhaseType DEF AbortedAtStart, CheckedSteps
<1>3. CASE AbortedInFlight
  BY <1>3, FailMoves, PhaseType DEF AbortedInFlight
<1> QED
  BY <1>1, <1>2, <1>3

LEMMA ProbesMove == TypeInv /\ Probes => StrategyMove
<1> SUFFICES ASSUME TypeInv, Probes PROVE StrategyMove
  OBVIOUS
<1> USE DEF StrategyMove, FlowSteps, SettleSteps, BeginSteps, Holding,
            HoldingSteps, OpenSteps, runner, target, Locals
<1>0. state \in States
  BY DEF TypeInv, TypeOK
<1>1. CASE ResetDone
  BY <1>1, ProceedPreservesType DEF ResetDone, After, FirstStep
<1>2. CASE ResetFailed
  <2>1. PICK reason \in Reasons \ {"termination_unproven"} :
          Fail("reset", reason)
    BY <1>2 DEF ResetFailed, Reasons
  <2> QED
    BY <1>2, <2>1, FailMoves DEF ResetFailed, Phases
<1>3. CASE SettleFailed
  <2>1. PICK reason \in Reasons \ {"termination_unproven"} :
          Fail(PhaseOf(pc), reason)
    BY <1>3 DEF SettleFailed, Reasons
  <2> QED
    BY <1>3, <2>1, FailMoves, PhaseType DEF SettleFailed
<1>4. CASE BaselineSettled
  BY <1>4, FailMoves, ProceedPreservesType
  DEF BaselineSettled, Settled, Phases, Reasons
<1>5. CASE SeedEffectSettled
  <2>1. \/ state' = state /\ Proceed
        \/ pc' = "cleanup" /\ awaiting' = FALSE /\
           state' = [state EXCEPT !.conclusion =
                       Verdict("seed_effect", Once, effect)]
    BY <1>5 DEF SeedEffectSettled
  <2> QED
    BY <1>0, <1>5, <2>1, ProceedPreservesType
    DEF SeedEffectSettled, Settled, States
<1>6. CASE BoundarySettled
  BY <1>6, FailMoves, ProceedPreservesType
  DEF BoundarySettled, Settled, Phases, Reasons
<1>7. CASE FinalSettled
  BY <1>0, <1>7, ProceedPreservesType DEF FinalSettled, Settled, States
<1>8. CASE CancelSettled
  BY <1>0, <1>8, ProceedPreservesType DEF CancelSettled, Settled, States
<1> QED
  BY <1>1, <1>2, <1>3, <1>4, <1>5, <1>6, <1>7, <1>8 DEF Probes

LEMMA AttemptsMove == TypeInv /\ Safe /\ Attempts => StrategyMove
<1> SUFFICES ASSUME TypeInv, Safe, Attempts PROVE StrategyMove
  OBVIOUS
<1> USE DEF StrategyMove, FlowSteps, SettleSteps, BeginSteps, Holding,
            HoldingSteps, OpenSteps, runner, target, Locals
<1>0. state \in States
  BY DEF TypeInv, TypeOK
<1>1. CASE BeginExercise
  BY <1>1 DEF BeginExercise
<1>2. CASE BeginRejected
  BY <1>2, FailMoves, PhaseType DEF BeginRejected, Reasons
<1>3. CASE ParallelPeerRejected
  BY <1>3 DEF ParallelPeerRejected
<1>4. CASE ParallelPeerObserved
  BY <1>4, FailMoves DEF ParallelPeerObserved, Phases, Reasons
<1>5. CASE SeedSuppressed
  BY <1>5, ProceedPreservesType DEF SeedSuppressed
<1>6. CASE SeedCancelled
  BY <1>0, <1>6, ProceedPreservesType DEF SeedCancelled, States
<1>7. CASE SeedFailed
  BY <1>7, FailMoves DEF SeedFailed, Phases, Reasons
<1>8. CASE AttemptAccepted
  BY <1>0, <1>8, ProceedPreservesType DEF AttemptAccepted, States
<1>9. CASE AttemptFailed
  <2>1. PICK reason \in Reasons \ {"termination_unproven"} :
          state' = [Failed(state, PhaseOf(pc), reason) EXCEPT
                      !.fault = IF Experiment \in SeedKinds THEN Experiment
                                                            ELSE @]
    BY <1>9 DEF AttemptFailed, Reasons
  <2>2. /\ Failed(state, PhaseOf(pc), reason) \in States
        /\ Failed(state, PhaseOf(pc), reason).session = state.session
        /\ Failed(state, PhaseOf(pc), reason).openedAny = state.openedAny
        /\ Failed(state, PhaseOf(pc), reason).canSpawn = state.canSpawn
    BY <1>0, FailedType, PhaseType DEF States
  <2>3. /\ state'.session = state.session
        /\ state'.openedAny = state.openedAny
        /\ state'.canSpawn = state.canSpawn
    BY <2>1, <2>2 DEF States
  <2> QED
    BY <1>9, <2>3 DEF AttemptFailed
<1>10. CASE ProgressSeen
  BY <1>0, <1>10 DEF ProgressSeen, After, States
<1>11. CASE CancelObserved
  BY <1>11, ProceedPreservesType DEF CancelObserved
<1>12. CASE CancelWritten
  BY <1>0, <1>12, ProceedPreservesType DEF CancelWritten, States
<1>13. CASE CancelNotProven
  BY <1>13, FailMoves DEF CancelNotProven, Phases, Reasons
<1>14. CASE Disconnected
  BY <1>14, ProceedPreservesType DEF Disconnected
<1>15. CASE DisconnectFailed
  BY <1>15, FailMoves DEF DisconnectFailed, Phases, Reasons
<1> QED
  BY <1>1, <1>2, <1>3, <1>4, <1>5, <1>6, <1>7, <1>8, <1>9, <1>10, <1>11,
     <1>12, <1>13, <1>14, <1>15
  DEF Attempts

LEMMA SessionsSafe == TypeInv /\ Safe /\ Sessions => Safe'
<1> SUFFICES ASSUME TypeInv, Safe, Sessions PROVE Safe'
  OBVIOUS
<1> USE ProcsAssumption
    DEF Safe, Control, Ownership, Halting, Quiet, PassIsDurable,
        CleanMeansQuiescent, Holding, HoldingSteps, OpenSteps, CleanupSteps,
        runner, target, AtMostOneTarget
<1>0. state \in States /\ alive \subseteq Procs
  BY DEF TypeInv, TypeOK
<1>1. CASE OpenStart
  <2>1. alive = {} /\ state.session = NoProc
    BY <1>0, <1>1 DEF OpenStart
  <2> QED
    BY <1>1, <2>1 DEF OpenStart
<1>2. CASE OpenDone
  <2>1. /\ state'.session = inHand
        /\ state'.openedAny = TRUE
        /\ state'.canSpawn = state.canSpawn
    BY <1>0, <1>2 DEF OpenDone, States
  <2>2. /\ pc' \in {"reset", "boundary"}
        /\ awaiting' = FALSE
    BY <1>2 DEF OpenDone, Proceed, After
  <2> QED
    BY <1>0, <1>2, <2>1, <2>2 DEF OpenDone
<1>3. CASE OpenFailed
  BY <1>3, FailMoves DEF OpenFailed, Phases, Reasons
<1>4. CASE OpenUnproven \/ CloseUnproven
  <2>1. PICK phase \in Phases : Fail(phase, "termination_unproven")
    BY <1>4 DEF OpenUnproven, CloseUnproven, Phases
  <2>2. /\ state'.session = state.session
        /\ state'.canSpawn = FALSE
        /\ pc' = "cleanup" /\ awaiting' = FALSE
    BY <2>1, UnprovenMoves
  <2> QED
    BY <1>4, <2>2 DEF OpenUnproven, CloseUnproven
<1>5. CASE CloseStart
  <2>1. /\ state'.session = NoProc
        /\ state'.canSpawn = state.canSpawn
    BY <1>0, <1>5 DEF CloseStart, States
  <2> QED
    BY <1>0, <1>5, <2>1 DEF CloseStart
<1>6. CASE CloseConfirmed
  <2>1. pc' = "reopen" /\ awaiting' = FALSE
    BY <1>6 DEF CloseConfirmed, Proceed, After
  <2> QED
    BY <1>6, <2>1 DEF CloseConfirmed
<1>7. CASE CloseNatural
  BY <1>7, FailMoves DEF CloseNatural, Phases, Reasons
<1> QED
  BY <1>1, <1>2, <1>3, <1>4, <1>5, <1>6, <1>7 DEF Sessions

LEMMA CleanupSafe == TypeInv /\ Safe /\ Cleanup => Safe'
<1> SUFFICES ASSUME TypeInv, Safe, Cleanup PROVE Safe'
  OBVIOUS
<1> USE ProcsAssumption
    DEF Safe, Control, Ownership, Halting, Quiet, PassIsDurable,
        CleanMeansQuiescent, Holding, HoldingSteps, OpenSteps, CleanupSteps,
        runner, target, Locals, AtMostOneTarget, Finish, External
<1>0. state \in States /\ alive \subseteq Procs /\ inHand \in MaybeProc
  BY DEF TypeInv, TypeOK
<1>1. CASE CleanupNotNeeded
  BY <1>1 DEF CleanupNotNeeded
<1>2. CASE CleanupSameSession \/ CleanupCloseOld
  <2>1. /\ state'.session = NoProc
        /\ state'.canSpawn = state.canSpawn
    BY <1>0, <1>2 DEF CleanupSameSession, CleanupCloseOld, States
  <2> QED
    BY <1>0, <1>2, <2>1 DEF CleanupSameSession, CleanupCloseOld
<1>3. CASE CleanupNoSession
  BY <1>3 DEF CleanupNoSession, OpenCleanupOrFail
<1>4. CASE OldClosed
  BY <1>4 DEF OldClosed, OpenCleanupOrFail
<1>5. CASE CleanupCloseUnproven \/ CleanupOpenUnproven
  <2>1. /\ state'.session = NoProc
        /\ state'.canSpawn = FALSE
    BY <1>0, <1>5 DEF CleanupCloseUnproven, CleanupOpenUnproven, States
  <2> QED
    BY <1>5, <2>1 DEF CleanupCloseUnproven, CleanupOpenUnproven
<1>6. CASE CleanupOpened
  BY <1>0, <1>6 DEF CleanupOpened
<1>7. CASE CleanupOpenFailed
  BY <1>7 DEF CleanupOpenFailed
<1>8. CASE DurableSettled
  <2>1. state.conclusion.expected \in Effects /\ effect \in Effects
    BY <1>0, <1>8 DEF DurableSettled, States, Conclusions, TypeInv, TypeOK
  <2>2. /\ state'.conclusion =
             Verdict("final_effect", state.conclusion.expected, effect)
        /\ state'.session = state.session
        /\ state'.openedAny = state.openedAny
        /\ state'.canSpawn = state.canSpawn
    BY <1>0, <1>8 DEF DurableSettled, States
  <2>3. state'.conclusion.kind = "pass" =>
          effect = state'.conclusion.expected
    BY <2>1, <2>2, VerdictType
  <2> QED
    BY <1>8, <2>2, <2>3 DEF DurableSettled
<1>9. CASE DurableUnsettled
  BY <1>9 DEF DurableUnsettled
<1>10. CASE CleanupReset
  BY <1>10 DEF CleanupReset
<1>11. CASE CleanupSettle
  BY <1>11 DEF CleanupSettle
<1>12. CASE CleanupClosed
  BY <1>0, <1>12 DEF CleanupClosed
<1> QED
  BY <1>1, <1>2, <1>3, <1>4, <1>5, <1>6, <1>7, <1>8, <1>9, <1>10, <1>11,
     <1>12
  DEF Cleanup

LEMMA RecordResultSafe == TypeInv /\ Safe /\ RecordResult => Safe'
<1> SUFFICES ASSUME TypeInv, Safe, RecordResult PROVE Safe'
  OBVIOUS
<1> USE DEF Safe, Control, Ownership, Halting, Quiet, PassIsDurable,
            CleanMeansQuiescent, Holding, HoldingSteps, OpenSteps,
            CleanupSteps, AtMostOneTarget
<1>1. /\ results' # <<>>
      /\ results'[Len(results')].cleanup = cleanup
  <2>1. results' = Append(results, Outcome) /\ results \in Seq(Results)
    BY DEF RecordResult, TypeInv, TypeOK
  <2>2. Len(results') = Len(results) + 1 /\ results'[Len(results')] = Outcome
    BY <2>1
  <2> QED
    BY <2>1, <2>2 DEF Outcome
<1>2. CASE pc' = "open"
  <2>1. alive = {} /\ alive' = {}
    BY <1>2, ProcsAssumption DEF RecordResult, TypeInv, TypeOK
  <2> QED
    BY <1>2, <2>1 DEF RecordResult, InitialState
<1>3. CASE pc' = "done"
  BY <1>1, <1>3 DEF RecordResult
<1> QED
  BY <1>2, <1>3 DEF RecordResult

LEMMA EnvironmentSafe == TypeInv /\ Safe /\ Environment => Safe'
<1> SUFFICES ASSUME TypeInv, Safe, Environment PROVE Safe'
  OBVIOUS
<1> USE DEF Safe, Control, Ownership, Halting, Quiet, PassIsDurable,
            CleanMeansQuiescent, Holding, HoldingSteps, runner, target,
            Locals, AtMostOneTarget, External
<1>1. CASE Abort
  BY <1>1 DEF Abort
<1>2. ASSUME NEW p \in Procs, Mutate(p) PROVE Safe'
  BY <1>2 DEF Mutate
<1>3. ASSUME NEW p \in Procs, Crash(p) PROVE Safe'
  BY <1>3 DEF Crash
<1> QED
  BY <1>1, <1>2, <1>3 DEF Environment

LEMMA NextSafe == TypeInv /\ Safe /\ [Next]_vars => Safe'
<1> SUFFICES ASSUME TypeInv, Safe, [Next]_vars PROVE Safe'
  OBVIOUS
<1>1. CASE UNCHANGED vars
  BY <1>1
  DEF vars, Safe, Control, Ownership, Halting, Quiet, PassIsDurable,
      CleanMeansQuiescent, Holding, AtMostOneTarget, External
<1> QED
  BY <1>1, StartMoves, ProbesMove, AttemptsMove, StrategyMoveSafe,
     SessionsSafe, CleanupSafe, RecordResultSafe, EnvironmentSafe
  DEF Next, Runner, Done

LEMMA Safety == Spec => [](TypeInv /\ Safe)
<1>1. Init => TypeInv /\ Safe
  BY InitType, InitSafe
<1>2. TypeInv /\ Safe /\ [Next]_vars => (TypeInv /\ Safe)'
  BY NextType, NextSafe
<1> QED
  BY <1>1, <1>2, PTL DEF Spec

(* No target is spawned while another may still run. *)
THEOREM OneTargetAtATime == Spec => []AtMostOneTarget
<1>1. Safe => AtMostOneTarget
  BY DEF Safe, Ownership
<1> QED
  BY <1>1, Safety, PTL

(* A target that may survive is reported as failed cleanup and halts the   *)
(* suite.                                                                  *)
THEOREM LeaksAreReported == Spec => []NoSilentLeak
<1>1. TypeInv /\ Safe => NoSilentLeak
  BY ProcsAssumption
  DEF TypeInv, TypeOK, Safe, Control, Ownership, Halting, NoSilentLeak,
      Holding, HoldingSteps, OpenSteps
<1> QED
  BY <1>1, Safety, PTL

(* An external pass that reaches the cleanup reset is final. *)
THEOREM PassesAreDurable == Spec => []PassIsDurable
<1>1. Safe => PassIsDurable
  BY DEF Safe
<1> QED
  BY <1>1, Safety, PTL

(* Clean evidence means a dead target and external state at its baseline.  *)
THEOREM CleanIsQuiescent == Spec => []CleanMeansQuiescent
<1>1. Safe => CleanMeansQuiescent
  BY DEF Safe
<1> QED
  BY <1>1, Safety, PTL

-----------------------------------------------------------------------------
(* Earned verdicts *)

(* A strategy that crosses a process boundary goes on with a process       *)
(* spawned after it, which has seen no exercise request yet, and with that *)
(* process alone.                                                          *)
Isolated ==
  /\ pc = "reopen" /\ awaiting => inHand \notin exercised
  /\ pc = "boundary" => alive \cap exercised = {}
  /\ pc = "retry" /\ ~awaiting /\ Experiment \in RestartKinds =>
       alive \cap exercised = {}

(* Fault evidence names the experiment that runs.  It precedes the final   *)
(* observation, so that no verdict on the final effect goes without it,    *)
(* and a pass takes a session.                                             *)
Proven ==
  /\ state.fault \in {"not_proven", Experiment}
  /\ pc \in {"final", "cancelFinal"} => state.fault = Experiment
  /\ state.conclusion.kind = "pass" =>
       state.conclusion.phase = "final_effect" /\ state.openedAny
  /\ state.conclusion.kind # "inconclusive"
       /\ state.conclusion.phase = "final_effect" => state.fault = Experiment
  /\ pc = "result" /\ cleanup = "not_needed" =>
       state.conclusion.kind # "pass"

(* The results are those of the experiments up to the current one, in the  *)
(* configured order, and a pass among them is one of a proven fault on a   *)
(* target that was cleaned up after.                                       *)
Recorded ==
  /\ Len(results) = IF pc = "done" THEN idx ELSE idx - 1
  /\ \A i \in DOMAIN results :
       /\ results[i].experiment = scenario.experiments[i]
       /\ results[i].kind = "pass" =>
            /\ results[i].fault = scenario.experiments[i]
            /\ results[i].cleanup # "not_needed"
  /\ pc = "done" /\ ~halted => idx = Len(scenario.experiments)

Earned == Isolated /\ Proven /\ Recorded

LEMMA InitEarned == Init => Earned
<1> SUFFICES ASSUME Init PROVE Earned
  OBVIOUS
<1>1. /\ InitialState.fault = "not_proven"
      /\ InitialState.conclusion.kind = "inconclusive"
  BY DEF InitialState, Inconclusive
<1> QED
  BY <1>1 DEF Init, Earned, Isolated, Proven, Recorded

(* Where a strategy reaches a boundary, a retry or a final observation. *)
LEMMA AfterEarned ==
  ASSUME NEW s
  PROVE  /\ After(s) \notin {"result", "done"}
         /\ After(s) = "boundary" => s = "reopen"
         /\ After(s) = "reopen" => s = "close"
         /\ After(s) = "retry" =>
              s = "boundary" \/ Experiment \notin RestartKinds
         /\ After(s) \in {"final", "cancelFinal"} =>
              \/ s \in {"retry", "parallel", "cancelWrite"}
              \/ /\ s = "cancelSeed"
                 /\ Experiment = "suppress_completed_response"
  BY DEF After, FirstStep, RestartKinds

(* A failure leaves the evidence of the fault alone and concludes nothing. *)
LEMMA FailEarned ==
  ASSUME TypeInv, Proven, UNCHANGED <<scenario, idx>>,
         NEW phase \in Phases, NEW reason \in Reasons, Fail(phase, reason)
  PROVE  Proven' /\ Isolated' /\ pc' = "cleanup"
<1>1. /\ state'.conclusion.kind = "inconclusive"
      /\ state'.fault = state.fault
      /\ pc' = "cleanup"
  BY FailedType DEF Fail, TypeInv, TypeOK
<1> QED
  BY <1>1 DEF Proven, Isolated, Experiment

(* So does success of a call that proves no fault and judges nothing. *)
LEMMA ProceedEarned ==
  ASSUME Proven, Isolated, UNCHANGED <<scenario, idx, state>>, Proceed,
         alive' \subseteq alive, exercised' = exercised,
         pc \notin {"close", "reopen", "retry", "parallel", "cancelWrite"},
         pc = "cancelSeed" => Experiment # "suppress_completed_response"
  PROVE  Proven' /\ Isolated' /\ pc' # "done"
<1>1. pc' = After(pc) /\ awaiting' = FALSE
  BY DEF Proceed
<1>2. pc' \notin {"result", "done", "reopen", "boundary", "final",
                  "cancelFinal"}
  BY <1>1, AfterEarned
<1>3. pc' = "retry" /\ Experiment \in RestartKinds => pc = "boundary"
  BY <1>1, AfterEarned
<1>4. Proven'
  BY <1>2 DEF Proven, Experiment
<1>5. Isolated'
  <2>1. pc = "boundary" => alive' \cap exercised' = {}
    BY DEF Isolated
  <2>2. Experiment' = Experiment
    BY DEF Experiment
  <2> QED
    BY <1>2, <1>3, <2>1, <2>2 DEF Isolated
<1> QED
  BY <1>2, <1>4, <1>5

LEMMA StartEarned ==
  TypeInv /\ Earned /\ (Start \/ AbortedAtStart \/ AbortedInFlight)
    => Proven' /\ Isolated' /\ pc' # "done"
<1> SUFFICES ASSUME TypeInv, Earned, Start \/ AbortedAtStart \/ AbortedInFlight
             PROVE  Proven' /\ Isolated' /\ pc' # "done"
  OBVIOUS
<1> USE DEF Earned, runner, target, Locals
<1>1. CASE Start
  BY <1>1 DEF Start, SettleSteps, Proven, Isolated, Experiment
<1>2. CASE AbortedAtStart \/ AbortedInFlight
  BY <1>2, FailEarned, PhaseType
  DEF AbortedAtStart, AbortedInFlight, Reasons
<1> QED
  BY <1>1, <1>2

LEMMA SessionsEarned ==
  TypeInv /\ Safe /\ Earned /\ Sessions => Proven' /\ Isolated' /\ pc' # "done"
<1> SUFFICES ASSUME TypeInv, Safe, Earned, Sessions
             PROVE  Proven' /\ Isolated' /\ pc' # "done"
  OBVIOUS
<1> USE DEF Earned, runner, target
<1>0. state \in States /\ alive \subseteq Procs
  BY DEF TypeInv, TypeOK
<1>1. CASE OpenStart
  BY <1>1 DEF OpenStart, OpenSteps, Proven, Isolated, Experiment
<1>2. CASE OpenDone
  <2>1. /\ state'.fault = state.fault
        /\ state'.conclusion = state.conclusion
        /\ state'.openedAny
    BY <1>0, <1>2 DEF OpenDone, States
  <2>2. /\ pc' \in {"reset", "boundary"}
        /\ pc' = "boundary" => pc = "reopen"
    BY <1>2 DEF OpenDone, Proceed, After
  <2>3. pc = "reopen" => alive \cap exercised = {}
    BY <1>0, <1>2, ProcsAssumption
    DEF OpenDone, Safe, Control, Ownership, Halting, OpenSteps, Isolated
  <2> QED
    BY <1>2, <2>1, <2>2, <2>3 DEF OpenDone, Proven, Isolated, Experiment
<1>3. CASE OpenFailed \/ OpenUnproven \/ CloseNatural \/ CloseUnproven
  <2>1. PICK phase \in Phases, reason \in Reasons : Fail(phase, reason)
    BY <1>3
    DEF OpenFailed, OpenUnproven, CloseNatural, CloseUnproven, Phases, Reasons
  <2> QED
    BY <1>3, <2>1, FailEarned
    DEF OpenFailed, OpenUnproven, CloseNatural, CloseUnproven
<1>4. CASE CloseStart
  <2>1. /\ state'.fault = state.fault
        /\ state'.conclusion = state.conclusion
        /\ state'.openedAny = state.openedAny
    BY <1>0, <1>4 DEF CloseStart, States
  <2> QED
    BY <1>4, <2>1 DEF CloseStart, Proven, Isolated, Experiment
<1>5. CASE CloseConfirmed
  <2>1. pc' = "reopen" /\ awaiting' = FALSE
    BY <1>5 DEF CloseConfirmed, Proceed, After
  <2> QED
    BY <1>5, <2>1 DEF CloseConfirmed, Proven, Isolated, Experiment
<1> QED
  BY <1>1, <1>2, <1>3, <1>4, <1>5 DEF Sessions

(* The three settled values that judge: the seed effect can only be found  *)
(* wrong, a final effect is read after the fault was proven, and on an     *)
(* open session.                                                           *)
LEMMA ProbesEarned ==
  TypeInv /\ Safe /\ Earned /\ Probes => Proven' /\ Isolated' /\ pc' # "done"
<1> SUFFICES ASSUME TypeInv, Safe, Earned, Probes
             PROVE  Proven' /\ Isolated' /\ pc' # "done"
  OBVIOUS
<1> USE DEF Earned, runner, target, Locals
<1>0. state \in States /\ effect \in Effects /\ Experiment \in ExperimentNames
  BY ExperimentType DEF TypeInv, TypeOK
<1>1. CASE ResetDone
  BY <1>1, ProceedEarned DEF ResetDone
<1>2. CASE ResetFailed
  <2>1. PICK reason \in Reasons : Fail("reset", reason)
    BY <1>2 DEF ResetFailed, Reasons
  <2> QED
    BY <1>2, <2>1, FailEarned DEF ResetFailed, Phases
<1>3. CASE SettleFailed
  <2>1. PICK reason \in Reasons : Fail(PhaseOf(pc), reason)
    BY <1>3 DEF SettleFailed, Reasons
  <2> QED
    BY <1>3, <2>1, FailEarned, PhaseType DEF SettleFailed
<1>4. CASE BaselineSettled \/ BoundarySettled
  <2>1. CASE Proceed /\ UNCHANGED state
    BY <1>4, <2>1, ProceedEarned DEF BaselineSettled, BoundarySettled, Settled
  <2>2. CASE \/ Fail("baseline", "target_failed")
             \/ Fail("boundary", "target_failed")
    BY <1>4, <2>2, FailEarned
    DEF BaselineSettled, BoundarySettled, Settled, Phases, Reasons
  <2> QED
    BY <1>4, <2>1, <2>2 DEF BaselineSettled, BoundarySettled
<1>5. CASE SeedEffectSettled
  <2>1. CASE effect = Once
    BY <1>5, <2>1, ProceedEarned DEF SeedEffectSettled, Settled
  <2>2. CASE effect # Once
    <3>1. /\ state'.fault = state.fault
          /\ state'.conclusion.kind = "violation"
          /\ state'.conclusion.phase = "seed_effect"
          /\ pc' = "cleanup"
      BY <1>0, <1>5, <2>2 DEF SeedEffectSettled, States, Verdict
    <3> QED
      BY <1>5, <3>1 DEF SeedEffectSettled, Settled, Proven, Isolated, Experiment
  <2> QED
    BY <2>1, <2>2
<1>6. CASE FinalSettled \/ CancelSettled
  <2>0. Verdict("final_effect", Expected, effect).phase = "final_effect"
    BY DEF Verdict
  <2>1. /\ state'.fault = state.fault
        /\ state'.conclusion.phase = "final_effect"
        /\ state'.openedAny = state.openedAny
    BY <1>0, <1>6, <2>0 DEF FinalSettled, CancelSettled, States
  <2>2. pc \in {"final", "cancelFinal"} /\ pc' = "cleanup"
    BY <1>6 DEF FinalSettled, CancelSettled, Settled, Proceed, After
  <2>3. state.openedAny
    BY <1>0, <2>2, ProcsAssumption
    DEF TypeInv, FlowSteps, SettleSteps, Safe, Control, States
  <2>4. UNCHANGED <<scenario, idx>>
    BY <1>6 DEF FinalSettled, CancelSettled, Settled
  <2> QED
    BY <2>1, <2>2, <2>3, <2>4 DEF Proven, Isolated, Experiment
<1> QED
  BY <1>1, <1>2, <1>3, <1>4, <1>5, <1>6 DEF Probes

(* Attempts prove the faults.  Every one that moves on to a final          *)
(* observation has set the evidence first.                                 *)
LEMMA AttemptsEarned ==
  TypeInv /\ Safe /\ Earned /\ Attempts => Proven' /\ Isolated' /\ pc' # "done"
<1> SUFFICES ASSUME TypeInv, Safe, Earned, Attempts
             PROVE  Proven' /\ Isolated' /\ pc' # "done"
  OBVIOUS
<1> USE DEF Earned, runner, target, Locals
<1>0. state \in States /\ Experiment \in ExperimentNames
  BY ExperimentType DEF TypeInv, TypeOK
<1>1. CASE BeginExercise \/ ParallelPeerRejected
  BY <1>1
  DEF BeginExercise, ParallelPeerRejected, BeginSteps, Proven, Isolated,
      Experiment
<1>2. CASE BeginRejected
  BY <1>2, FailEarned, PhaseType DEF BeginRejected, Reasons
<1>3. CASE ParallelPeerObserved \/ SeedFailed \/ CancelNotProven
             \/ DisconnectFailed
  <2>1. PICK phase \in Phases, reason \in Reasons : Fail(phase, reason)
    BY <1>3
    DEF ParallelPeerObserved, SeedFailed, CancelNotProven, DisconnectFailed,
        Phases, Reasons
  <2> QED
    BY <1>3, <2>1, FailEarned
    DEF ParallelPeerObserved, SeedFailed, CancelNotProven, DisconnectFailed
<1>4. CASE SeedSuppressed \/ CancelObserved \/ Disconnected
  BY <1>4, ProceedEarned DEF SeedSuppressed, CancelObserved, Disconnected
<1>5. CASE SeedCancelled /\ Experiment # "suppress_completed_response"
  BY <1>5, ProceedEarned DEF SeedCancelled
<1>6. CASE \/ AttemptAccepted \/ CancelWritten
           \/ SeedCancelled /\ Experiment = "suppress_completed_response"
  <2>1. /\ state'.fault = Experiment
        /\ state'.conclusion = state.conclusion
        /\ state'.openedAny = state.openedAny
    BY <1>0, <1>6 DEF AttemptAccepted, CancelWritten, SeedCancelled, States
  <2>2. pc' \in {"final", "cancelFinal"}
    BY <1>6 DEF AttemptAccepted, CancelWritten, SeedCancelled, Proceed, After
  <2>3. UNCHANGED <<scenario, idx>>
    BY <1>6 DEF AttemptAccepted, CancelWritten, SeedCancelled
  <2> QED
    BY <2>1, <2>2, <2>3 DEF Proven, Isolated, Experiment
<1>7. CASE AttemptFailed
  <2>1. PICK reason \in Reasons :
          state' = [Failed(state, PhaseOf(pc), reason) EXCEPT
                      !.fault = IF Experiment \in SeedKinds THEN Experiment
                                                            ELSE @]
    BY <1>7 DEF AttemptFailed, Reasons
  <2>2. /\ Failed(state, PhaseOf(pc), reason) \in States
        /\ Failed(state, PhaseOf(pc), reason).conclusion.kind = "inconclusive"
        /\ Failed(state, PhaseOf(pc), reason).fault = state.fault
    BY <1>0, FailedType, PhaseType
  <2>3. /\ state'.conclusion.kind = "inconclusive"
        /\ state'.fault \in {state.fault, Experiment}
    BY <2>1, <2>2 DEF States
  <2> QED
    BY <1>7, <2>3 DEF AttemptFailed, Proven, Isolated, Experiment
<1>8. CASE ProgressSeen
  <2>1. /\ state'.fault = state.fault
        /\ state'.conclusion = state.conclusion
        /\ state'.openedAny = state.openedAny
    BY <1>0, <1>8 DEF ProgressSeen, States
  <2>2. pc' = "cancelObserve"
    BY <1>8 DEF ProgressSeen, After
  <2> QED
    BY <1>8, <2>1, <2>2 DEF ProgressSeen, Proven, Isolated, Experiment
<1> QED
  BY <1>1, <1>2, <1>3, <1>4, <1>5, <1>6, <1>7, <1>8 DEF Attempts

(* Cleanup moves no evidence of the fault.  It overturns a pass by another *)
(* verdict on the same final effect, and is not skipped after one.         *)
LEMMA CleanupEarned ==
  TypeInv /\ Earned /\ Cleanup => Proven' /\ Isolated' /\ pc' # "done"
<1> SUFFICES ASSUME TypeInv, Earned, Cleanup
             PROVE  Proven' /\ Isolated' /\ pc' # "done"
  OBVIOUS
<1> USE DEF Earned, runner, target, Locals, Finish, Proven, Isolated,
            Experiment
<1>0. state \in States /\ effect \in Effects
  BY DEF TypeInv, TypeOK
<1>1. CASE CleanupNotNeeded
  BY <1>1 DEF CleanupNotNeeded
<1>2. CASE CleanupSameSession \/ CleanupCloseOld \/ CleanupCloseUnproven
             \/ CleanupOpenUnproven
  <2>1. /\ state'.fault = state.fault
        /\ state'.conclusion = state.conclusion
        /\ state'.openedAny = state.openedAny
    BY <1>0, <1>2
    DEF CleanupSameSession, CleanupCloseOld, CleanupCloseUnproven,
        CleanupOpenUnproven, States
  <2> QED
    BY <1>2, <2>1
    DEF CleanupSameSession, CleanupCloseOld, CleanupCloseUnproven,
        CleanupOpenUnproven
<1>3. CASE CleanupNoSession \/ OldClosed
  BY <1>3 DEF CleanupNoSession, OldClosed, OpenCleanupOrFail
<1>4. CASE CleanupOpened \/ CleanupOpenFailed
  BY <1>4 DEF CleanupOpened, CleanupOpenFailed
<1>5. CASE DurableSettled
  <2>1. /\ state'.fault = state.fault
        /\ state'.conclusion.phase = "final_effect"
        /\ state'.openedAny = state.openedAny
    BY <1>0, <1>5 DEF DurableSettled, States, Verdict
  <2>2. state.conclusion.kind = "pass"
    BY <1>5 DEF TypeInv, DurableSettled
  <2> QED
    BY <1>5, <2>1, <2>2 DEF DurableSettled
<1>6. CASE DurableUnsettled \/ CleanupReset \/ CleanupSettle
  BY <1>6 DEF DurableUnsettled, CleanupReset, CleanupSettle
<1>7. CASE CleanupClosed
  BY <1>7 DEF CleanupClosed
<1> QED
  BY <1>1, <1>2, <1>3, <1>4, <1>5, <1>6, <1>7 DEF Cleanup

(* One result more, or the end of the suite. *)
LEMMA RecordResultEarned == TypeInv /\ Earned /\ RecordResult => Earned'
<1> SUFFICES ASSUME TypeInv, Earned, RecordResult PROVE Earned'
  OBVIOUS
<1>1. Proven' /\ Isolated'
  <2>1. /\ InitialState.fault = "not_proven"
        /\ InitialState.conclusion.kind = "inconclusive"
    BY DEF InitialState, Inconclusive
  <2> QED
    BY <2>1 DEF RecordResult, Earned, Proven, Isolated, Experiment
<1>2. /\ results \in Seq(Results)
      /\ idx \in Nat
      /\ idx <= Len(scenario.experiments)
      /\ Len(scenario.experiments) \in Nat
  <2>1. scenario.experiments \in Seq(ExperimentNames)
    BY ScenariosAssumption DEF TypeInv, TypeOK, ValidScenario
  <2> QED
    BY <2>1 DEF TypeInv, TypeOK
<1>3. /\ Len(results) = idx - 1
      /\ Len(results') = idx
      /\ DOMAIN results' = 1..idx
      /\ \A i \in 1..idx :
           results'[i] = IF i = idx THEN Outcome ELSE results[i]
  BY <1>2 DEF RecordResult, Earned, Recorded
<1>4. /\ Outcome.experiment = scenario.experiments[idx]
      /\ Outcome.kind = "pass" =>
           /\ Outcome.fault = scenario.experiments[idx]
           /\ Outcome.cleanup # "not_needed"
  BY DEF RecordResult, Earned, Proven, Outcome, Experiment
<1>5. \A i \in DOMAIN results' :
        /\ results'[i].experiment = scenario'.experiments[i]
        /\ results'[i].kind = "pass" =>
             /\ results'[i].fault = scenario'.experiments[i]
             /\ results'[i].cleanup # "not_needed"
  <2> SUFFICES ASSUME NEW i \in 1..idx
               PROVE  /\ results'[i].experiment = scenario.experiments[i]
                      /\ results'[i].kind = "pass" =>
                           /\ results'[i].fault = scenario.experiments[i]
                           /\ results'[i].cleanup # "not_needed"
    BY <1>3 DEF RecordResult
  <2>1. CASE i = idx
    BY <1>3, <1>4, <2>1
  <2>2. CASE i # idx
    <3>1. i \in DOMAIN results /\ results'[i] = results[i]
      BY <1>2, <1>3, <2>2
    <3> QED
      BY <3>1 DEF Earned, Recorded
  <2> QED
    BY <2>1, <2>2
<1>6. Len(results') = IF pc' = "done" THEN idx' ELSE idx' - 1
  BY <1>2, <1>3 DEF RecordResult
<1>7. pc' = "done" /\ ~halted' => idx' = Len(scenario'.experiments)
  BY <1>2 DEF RecordResult
<1> QED
  BY <1>1, <1>5, <1>6, <1>7 DEF Earned, Recorded

LEMMA EnvironmentEarned ==
  Earned /\ Environment => Proven' /\ Isolated' /\ pc' = pc
  BY DEF Environment, Abort, Mutate, Crash, Earned, Proven, Isolated,
         Experiment, runner, target, Locals

(* Only the end of an iteration touches the results. *)
LEMMA ResultsKept ==
  ASSUME TypeInv, Earned, pc # "done",
         Start \/ AbortedAtStart \/ AbortedInFlight \/ Sessions \/ Probes
           \/ Attempts \/ Cleanup \/ Environment,
         pc' # "done"
  PROVE  Recorded'
<1>1. UNCHANGED <<scenario, idx, results, halted>>
  BY DEF Sessions, OpenStart, OpenDone, OpenFailed, OpenUnproven, CloseStart,
         CloseConfirmed, CloseNatural, CloseUnproven, Probes, ResetDone,
         ResetFailed, SettleFailed, BaselineSettled, SeedEffectSettled,
         BoundarySettled, FinalSettled, CancelSettled, Settled, Attempts,
         BeginExercise, BeginRejected, ParallelPeerRejected,
         ParallelPeerObserved, SeedSuppressed, SeedCancelled, SeedFailed,
         AttemptAccepted, AttemptFailed, ProgressSeen, CancelObserved,
         CancelWritten, CancelNotProven, Disconnected, DisconnectFailed,
         Cleanup, CleanupNotNeeded, CleanupSameSession, CleanupCloseOld,
         CleanupNoSession, OldClosed, CleanupCloseUnproven, CleanupOpened,
         CleanupOpenFailed, CleanupOpenUnproven, DurableSettled,
         DurableUnsettled, CleanupReset, CleanupSettle, CleanupClosed,
         Start, AbortedAtStart, AbortedInFlight, Environment, Abort, Mutate,
         Crash, runner
<1> QED
  BY <1>1 DEF Earned, Recorded

LEMMA NextEarned == TypeInv /\ Safe /\ Earned /\ [Next]_vars => Earned'
<1> SUFFICES ASSUME TypeInv, Safe, Earned, [Next]_vars PROVE Earned'
  OBVIOUS
<1>1. CASE UNCHANGED vars
  BY <1>1 DEF vars, Earned, Proven, Isolated, Recorded, Experiment
<1>2. CASE RecordResult
  BY <1>2, RecordResultEarned
<1>3. CASE Environment /\ pc = "done"
  BY <1>3, EnvironmentEarned
  DEF Environment, Abort, Mutate, Crash, Earned, Recorded, runner
<1>4. CASE /\ pc # "done"
           /\ Start \/ AbortedAtStart \/ AbortedInFlight \/ Sessions
                \/ Probes \/ Attempts \/ Cleanup \/ Environment
  <2>1. Proven' /\ Isolated' /\ pc' # "done"
    BY <1>4, StartEarned, SessionsEarned, ProbesEarned, AttemptsEarned,
       CleanupEarned, EnvironmentEarned
  <2> QED
    BY <1>4, <2>1, ResultsKept DEF Earned
<1>5. pc = "done" => ~(Start \/ AbortedAtStart \/ AbortedInFlight
                        \/ Sessions \/ Probes \/ Attempts \/ Cleanup)
  BY DEF Sessions, OpenStart, OpenDone, OpenFailed, OpenUnproven, CloseStart,
         CloseConfirmed, CloseNatural, CloseUnproven, Probes, ResetDone,
         ResetFailed, SettleFailed, BaselineSettled, SeedEffectSettled,
         BoundarySettled, FinalSettled, CancelSettled, Settled, Attempts,
         BeginExercise, BeginRejected, ParallelPeerRejected,
         ParallelPeerObserved, SeedSuppressed, SeedCancelled, SeedFailed,
         AttemptAccepted, AttemptFailed, ProgressSeen, CancelObserved,
         CancelWritten, CancelNotProven, Disconnected, DisconnectFailed,
         Cleanup, CleanupNotNeeded, CleanupSameSession, CleanupCloseOld,
         CleanupNoSession, OldClosed, CleanupCloseUnproven, CleanupOpened,
         CleanupOpenFailed, CleanupOpenUnproven, DurableSettled,
         DurableUnsettled, CleanupReset, CleanupSettle, CleanupClosed,
         Start, AbortedAtStart, AbortedInFlight, OpenSteps, SettleSteps,
         BeginSteps, CheckedSteps
<1> QED
  BY <1>1, <1>2, <1>3, <1>4, <1>5 DEF Next, Runner, Done

LEMMA EarnedAlways == Spec => [](TypeInv /\ Safe /\ Earned)
<1>1. Init => TypeInv /\ Safe /\ Earned
  BY InitType, InitSafe, InitEarned
<1>2. TypeInv /\ Safe /\ Earned /\ [Next]_vars => (TypeInv /\ Safe /\ Earned)'
  BY NextType, NextSafe, NextEarned
<1> QED
  BY <1>1, <1>2, PTL DEF Spec

(* The retry of a strategy that crosses a process boundary begins when no  *)
(* process of the earlier epoch can act any more.                          *)
THEOREM RetriesAreIsolated == Spec => []CrossEpochRetryIsIsolated
<1>1. Earned => CrossEpochRetryIsIsolated
  BY DEF Earned, Isolated, CrossEpochRetryIsIsolated
<1> QED
  BY <1>1, EarnedAlways, PTL

(* The counts of the suite summary agree with the results they count. *)
LEMMA CountMeansSome ==
  ASSUME TypeOK, NEW kind
  PROVE  Count(kind) > 0 <=> \E i \in DOMAIN results : results[i].kind = kind
<1> DEFINE Those == {i \in DOMAIN results : results[i].kind = kind}
<1>1. IsFiniteSet(DOMAIN results)
  <2>1. Len(results) \in Nat /\ DOMAIN results = 1..Len(results)
    BY DEF TypeOK
  <2> QED
    BY <2>1, FS_Interval
<1>2. IsFiniteSet(Those)
  BY <1>1, FS_Subset
<1>3. Cardinality(Those) \in Nat /\ (Cardinality(Those) = 0 <=> Those = {})
  BY <1>2, FS_CardinalityType, FS_EmptySet
<1>4. Count(kind) = Cardinality(Those)
  BY DEF Count
<1> QED
  BY <1>3, <1>4

(* No verdict says more than what happened, and the report accepts every   *)
(* suite that ends.                                                        *)
THEOREM VerdictsAreTrue == Spec => []VerdictsAreEarned
<1> SUFFICES ASSUME TypeInv, Safe, Earned PROVE VerdictsAreEarned
  BY EarnedAlways, PTL
<1>1. /\ results \in Seq(Results)
      /\ DOMAIN results = 1..Len(results)
      /\ scenario.experiments \in Seq(ExperimentNames)
      /\ idx \in DOMAIN scenario.experiments
      /\ ValidScenario(scenario)
  BY ScenariosAssumption DEF TypeInv, TypeOK, ValidScenario
<1>2. \A i \in DOMAIN results : results[i] \in Results
  BY <1>1
<1>3. SuiteStatus = ReportStatus
  BY CountMeansSome DEF TypeInv, SuiteStatus, ReportStatus
<1>4. ASSUME pc = "done" PROVE ReportAccepts
  <2>1. \A i \in DOMAIN results : i \in DOMAIN scenario.experiments
    BY <1>1, <1>4 DEF Earned, Recorded
  <2>2. \A i, j \in DOMAIN results :
          results[i].experiment = results[j].experiment => i = j
    BY <1>1, <2>1 DEF Earned, Recorded, ValidScenario
  <2>3. \A i \in DOMAIN results :
          results[i].kind = "pass" => results[i].fault # "not_proven"
    <3>1. \A i \in DOMAIN results : scenario.experiments[i] # "not_proven"
      BY <1>1, <2>1 DEF ExperimentNames, SeedKinds, RestartKinds
    <3> QED
      BY <3>1 DEF Earned, Recorded
  <2> QED
    BY <1>3, <2>2, <2>3 DEF ReportAccepts
<1>5. ASSUME pc = "done", SuiteStatus = "pass"
      PROVE  /\ alive = {}
             /\ Len(results) = Len(scenario.experiments)
             /\ \A i \in DOMAIN results :
                  /\ results[i].kind = "pass"
                  /\ results[i].fault = scenario.experiments[i]
                  /\ results[i].cleanup = "clean"
  <2>1. /\ ~halted
        /\ \A i \in DOMAIN results :
             /\ results[i].kind \notin {"violation", "inconclusive"}
             /\ results[i].cleanup # "failed"
    BY <1>3, <1>5 DEF ReportStatus
  <2>2. alive = {}
    BY <1>5, <2>1, ProcsAssumption
    DEF TypeInv, TypeOK, Safe, Control, Ownership, Halting, Holding,
        HoldingSteps, OpenSteps
  <2>3. Len(results) = Len(scenario.experiments)
    BY <1>5, <2>1 DEF Earned, Recorded
  <2>4. \A i \in DOMAIN results :
          /\ results[i].kind = "pass"
          /\ results[i].fault = scenario.experiments[i]
          /\ results[i].cleanup = "clean"
    BY <1>2, <2>1 DEF Earned, Recorded, Results
  <2> QED
    BY <2>2, <2>3, <2>4
<1>6. ASSUME pc = "result", state.conclusion.kind # "inconclusive",
             state.conclusion.phase = "final_effect"
      PROVE  state.fault = Experiment
  BY <1>6 DEF Earned, Proven
<1> QED
  BY <1>4, <1>5, <1>6 DEF VerdictsAreEarned

-----------------------------------------------------------------------------
(* The abort signal *)

(* After an abort no exercise request is begun, and only cleanup spawns. *)
THEOREM AbortOnlyCleansUp == Spec => AbortStopsExercise
<1> DEFINE Calm == /\ exercised' \subseteq exercised
                   /\ pc # "cleanupOpen" => alive' \subseteq alive
<1>1. ASSUME [Next]_vars, aborted PROVE Calm
  <2> USE <1>1 DEF runner, target, Locals
  <2>1. CASE Start \/ AbortedAtStart \/ AbortedInFlight
    BY <2>1 DEF Start, AbortedAtStart, AbortedInFlight
  <2>2. CASE Sessions
    BY <2>2
    DEF Sessions, OpenStart, OpenDone, OpenFailed, OpenUnproven, CloseStart,
        CloseConfirmed, CloseNatural, CloseUnproven
  <2>3. CASE Probes
    BY <2>3
    DEF Probes, ResetDone, ResetFailed, SettleFailed, BaselineSettled,
        SeedEffectSettled, BoundarySettled, FinalSettled, CancelSettled,
        Settled
  <2>4. CASE Attempts
    BY <2>4
    DEF Attempts, BeginExercise, BeginRejected, ParallelPeerRejected,
        ParallelPeerObserved, SeedSuppressed, SeedCancelled, SeedFailed,
        AttemptAccepted, AttemptFailed, ProgressSeen, CancelObserved,
        CancelWritten, CancelNotProven, Disconnected, DisconnectFailed
  <2>5. CASE Cleanup
    BY <2>5
    DEF Cleanup, CleanupNotNeeded, CleanupSameSession, CleanupCloseOld,
        CleanupNoSession, OldClosed, CleanupCloseUnproven, CleanupOpened,
        CleanupOpenFailed, CleanupOpenUnproven, DurableSettled,
        DurableUnsettled, CleanupReset, CleanupSettle, CleanupClosed
  <2>6. CASE RecordResult
    BY <2>6 DEF RecordResult
  <2>7. CASE Environment
    BY <2>7 DEF Environment, Abort, Mutate, Crash
  <2>8. CASE UNCHANGED vars
    BY <2>8 DEF vars
  <2> QED
    BY <2>1, <2>2, <2>3, <2>4, <2>5, <2>6, <2>7, <2>8
    DEF Next, Runner, Done
<1>2. [Next]_vars => [aborted => Calm]_vars
  BY <1>1
<1> QED
  BY <1>2, PTL DEF Spec, AbortStopsExercise

=============================================================================
