-------------------------- MODULE ExperimentRunner --------------------------
(***************************************************************************)
(* The experiment suite: experiment/runner.ts drives every configured      *)
(* experiment through open, reset, baseline, fault strategy and cleanup,   *)
(* on target processes that experiment/session.ts opens and closes.        *)
(*                                                                         *)
(* One awaited call of the runner is one value of pc.  Calls that look at  *)
(* the abort signal before they begin have two phases: awaiting = FALSE    *)
(* (the call is about to be made) and awaiting = TRUE (it is in flight).   *)
(*                                                                         *)
(* The target is external and adversarial: a process that received an      *)
(* exercise request may mutate the observed effect at any moment until it  *)
(* dies, before or after it answered, once or several times; it may crash  *)
(* at any moment, ignore a reset, or lose state it was declared to keep.   *)
(***************************************************************************)
EXTENDS Integers, Sequences, FiniteSets

CONSTANTS
  Procs,            \* identities of target processes
  NoProc,           \* no process
  Scenarios,        \* validated scenarios: [experiments, persistence]
  Baseline,         \* oracle.baseline
  Once,             \* oracle.once
  CancelledEffect,  \* oracle.cancelledEffect
  MaxEffect         \* bound on the observed effect

SeedKinds == {"suppress_completed_response", "retry_new_id", "rpc_id_reuse",
              "restart_after_suppressed_response"}
RestartKinds == {"rpc_id_reuse", "restart_after_suppressed_response",
                 "disconnect_after_request_write_accepted"}
ExperimentNames == SeedKinds \cup RestartKinds
                     \cup {"parallel_new_ids", "cancel_on_progress"}

(* What scenarioSchema accepts: distinct experiments, and persistence      *)
(* declared external where an experiment crosses a process boundary.       *)
ValidScenario(s) ==
  /\ s.experiments \in Seq(ExperimentNames)
  /\ s.experiments # <<>>
  /\ s.persistence \in {"external", "process"}
  /\ \A i, j \in DOMAIN s.experiments :
       s.experiments[i] = s.experiments[j] => i = j
  /\ (\E i \in DOMAIN s.experiments : s.experiments[i] \in RestartKinds)
       => s.persistence = "external"

ASSUME ProcsAssumption == NoProc \notin Procs
ASSUME ScenariosAssumption == \A s \in Scenarios : ValidScenario(s)
ASSUME OracleAssumption ==
  /\ MaxEffect \in Nat
  /\ {Baseline, Once, CancelledEffect} \subseteq 0..MaxEffect
  /\ Baseline # Once

VARIABLES
  scenario,   \* the scenario of this suite, fixed
  idx,        \* the loop index of runScenarioExperiments
  pc,         \* the call the runner is at
  awaiting,   \* that call is in flight
  state,      \* MutableExperimentState of the current experiment
  inHand,     \* the process a local variable holds: opening, closing, cleaning
  cleanup,    \* CleanupEvidence of the current experiment
  results,    \* results of the finished experiments
  halted,     \* the suite stopped early
  aborted,    \* options.signal is aborted
  alive,      \* target processes that exist
  exercised,  \* target processes that may hold an exercise request
  effect      \* the value the probe would read now

runner == <<scenario, idx, results, halted, aborted>>
target == <<alive, exercised, effect>>
vars == <<scenario, idx, pc, awaiting, state, inHand, cleanup, results,
          halted, aborted, alive, exercised, effect>>

-----------------------------------------------------------------------------
(* Values *)

Effects == 0..MaxEffect
OpenSteps == {"open", "reopen", "cleanupOpen"}
SettleSteps == {"baseline", "verifySeed", "boundary", "final", "cancelFinal"}
BeginSteps == {"seed", "retry", "parallel", "progress", "disconnect"}
CleanupSteps == {"cleanup", "closeOld", "cleanupOpen", "durable",
                 "cleanupReset", "cleanupSettle", "cleanupClose"}
Steps == OpenSteps \cup SettleSteps \cup BeginSteps \cup CleanupSteps \cup
         {"reset", "cancelSeed", "close", "parallelPeer", "cancelObserve",
          "cancelWrite", "result", "done"}

Phases == {"baseline", "boundary", "fault", "observe", "open", "reset",
           "retry", "seed"}
Reasons == {"aborted", "fault_not_proven", "probe_failed", "probe_unsettled",
            "target_failed", "termination_unproven", "unexpected_unknown"}

Inconclusive(phase, reason) ==
  [kind |-> "inconclusive", phase |-> phase, reason |-> reason]

(* A settled value against its oracle: pass when equal, else a violation. *)
Verdict(phase, expected, observed) ==
  [kind |-> IF observed = expected THEN "pass" ELSE "violation",
   phase |-> phase, expected |-> expected, observed |-> observed]

Conclusions ==
  [kind : {"inconclusive"}, phase : Phases, reason : Reasons] \cup
  [kind : {"pass", "violation"}, phase : {"seed_effect", "final_effect"},
   expected : Effects, observed : Effects]

MaybeProc == Procs \cup {NoProc}

States ==
  [canSpawn : BOOLEAN, conclusion : Conclusions,
   fault : ExperimentNames \cup {"not_proven"}, openedAny : BOOLEAN,
   requiresFreshCleanup : BOOLEAN, session : MaybeProc]

Results ==
  [experiment : ExperimentNames, kind : {"inconclusive", "pass", "violation"},
   fault : ExperimentNames \cup {"not_proven"},
   cleanup : {"clean", "failed", "not_needed"}]

TypeOK ==
  /\ scenario \in Scenarios
  /\ idx \in DOMAIN scenario.experiments
  /\ pc \in Steps
  /\ awaiting \in BOOLEAN
  /\ state \in States
  /\ inHand \in MaybeProc
  /\ cleanup \in {"pending", "tainted", "clean", "failed", "not_needed"}
  /\ results \in Seq(Results)
  /\ halted \in BOOLEAN
  /\ aborted \in BOOLEAN
  /\ alive \subseteq Procs
  /\ exercised \subseteq Procs
  /\ effect \in Effects

Experiment == scenario.experiments[idx]
External == scenario.persistence = "external"

InitialState ==
  [canSpawn |-> TRUE, conclusion |-> Inconclusive("open", "target_failed"),
   fault |-> "not_proven", openedAny |-> FALSE,
   requiresFreshCleanup |-> FALSE, session |-> NoProc]

(* The oracle the final observation of the current experiment must meet. *)
Expected ==
  IF Experiment = "cancel_on_progress" THEN CancelledEffect ELSE Once

-----------------------------------------------------------------------------
(* Control flow *)

(* The call each strategy makes first, after the proven baseline. *)
FirstStep ==
  CASE Experiment \in SeedKinds -> "seed"
    [] Experiment = "parallel_new_ids" -> "parallel"
    [] Experiment = "cancel_on_progress" -> "progress"
    [] OTHER -> "disconnect"

(* Mutant: no process boundary between the seed and any retry. *)
After_NoRestart(s) ==
  CASE s = "open" -> "reset"
    [] s = "reset" -> "baseline"
    [] s = "baseline" -> FirstStep
    [] s = "seed" -> "cancelSeed"
    [] s = "cancelSeed" ->
         IF Experiment = "suppress_completed_response" THEN "final"
                                                       ELSE "verifySeed"
    [] s \in {"verifySeed", "boundary"} -> "retry"
    [] s = "disconnect" -> "close"
    [] s = "close" -> "reopen"
    [] s = "reopen" -> "boundary"
    [] s \in {"retry", "parallel"} -> "final"
    [] s = "progress" -> "cancelObserve"
    [] s = "cancelObserve" -> "cancelWrite"
    [] s = "cancelWrite" -> "cancelFinal"
    [] OTHER -> "cleanup"

(* The call that follows call s of the current strategy when s succeeds.   *)
After(s) ==
  CASE s = "open" -> "reset"
    [] s = "reset" -> "baseline"
    [] s = "baseline" -> FirstStep
    [] s = "seed" -> "cancelSeed"
    [] s = "cancelSeed" ->
         IF Experiment = "suppress_completed_response" THEN "final"
                                                       ELSE "verifySeed"
    [] s = "verifySeed" ->
         IF Experiment = "retry_new_id" THEN "retry" ELSE "close"
    [] s = "disconnect" -> "close"
    [] s = "close" -> "reopen"
    [] s = "reopen" -> "boundary"
    [] s = "boundary" -> "retry"
    [] s \in {"retry", "parallel"} -> "final"
    [] s = "progress" -> "cancelObserve"
    [] s = "cancelObserve" -> "cancelWrite"
    [] s = "cancelWrite" -> "cancelFinal"
    [] OTHER -> "cleanup"

(* The phase a FlowFailure of call s carries. *)
PhaseOf(s) ==
  CASE s \in {"open", "reopen"} -> "open"
    [] s \in {"reset", "baseline", "boundary", "retry"} -> s
    [] s \in {"seed", "cancelSeed", "verifySeed"} -> "seed"
    [] s \in {"final", "cancelFinal"} -> "observe"
    [] OTHER -> "fault"

(* Calls that refuse to begin once the signal is aborted. *)
CheckedSteps == {"open", "reopen", "reset", "cancelSeed", "cancelWrite"}
                  \cup SettleSteps \cup BeginSteps

Proceed == pc' = After(pc) /\ awaiting' = FALSE

(* Mutant: an unproven termination does not forbid further spawns. *)
Failed_KeepsSpawning(st, phase, reason) ==
  [st EXCEPT !.conclusion = Inconclusive(phase, reason),
             !.requiresFreshCleanup = TRUE]

(* The catch block of runSingleExperiment: every failure of the flow is    *)
(* inconclusive, asks for a fresh cleanup session, and an unproven         *)
(* termination forbids any further spawn.                                  *)
Failed(st, phase, reason) ==
  [st EXCEPT !.conclusion = Inconclusive(phase, reason),
             !.requiresFreshCleanup = TRUE,
             !.canSpawn = @ /\ reason # "termination_unproven"]

Fail(phase, reason) ==
  /\ state' = Failed(state, phase, reason)
  /\ pc' = "cleanup"
  /\ awaiting' = FALSE

Locals == <<inHand, cleanup>>

(* The call is made: assertNotAborted, or the check awaitBounded begins    *)
(* with, lets it through.                                                  *)
Start ==
  /\ pc \in {"reset", "cancelSeed", "cancelWrite"} \cup SettleSteps
  /\ ~awaiting
  /\ ~aborted
  /\ awaiting' = TRUE
  /\ UNCHANGED <<runner, target, Locals, pc, state>>

AbortedAtStart ==
  /\ pc \in CheckedSteps
  /\ ~awaiting
  /\ aborted
  /\ Fail(PhaseOf(pc), "aborted")
  /\ UNCHANGED <<runner, target, Locals>>

(* The bounded waits that surface the signal as their own error. *)
AbortedInFlight ==
  /\ pc \in {"seed", "cancelSeed", "progress", "cancelWrite", "disconnect"}
  /\ awaiting
  /\ aborted
  /\ Fail(PhaseOf(pc), "aborted")
  /\ UNCHANGED <<runner, target, Locals>>

-----------------------------------------------------------------------------
(* Sessions *)

(* A target process is spawned for a session.  State of a process that     *)
(* keeps it in memory starts over; declared external state may have been   *)
(* lost with the previous process all the same.                            *)
OpenStart ==
  /\ pc \in OpenSteps
  /\ ~awaiting
  /\ state.canSpawn
  /\ pc = "cleanupOpen" \/ ~aborted
  /\ \E p \in Procs \ alive :
       /\ alive' = alive \cup {p}
       /\ exercised' = exercised \ {p}
       /\ inHand' = p
  /\ effect' \in IF External THEN {effect, Baseline} ELSE {Baseline}
  /\ awaiting' = TRUE
  /\ UNCHANGED <<runner, pc, state, cleanup>>

(* Discovery and the tool check succeeded on the new process. *)
OpenDone ==
  /\ pc \in {"open", "reopen"}
  /\ awaiting
  /\ inHand \in alive
  /\ state' = [state EXCEPT !.session = inHand, !.openedAny = TRUE]
  /\ inHand' = NoProc
  /\ Proceed
  /\ UNCHANGED <<runner, target, cleanup>>

(* The open failed and the process it spawned is confirmed dead. *)
OpenFailed ==
  /\ pc \in {"open", "reopen"}
  /\ awaiting
  /\ Fail("open", IF aborted THEN "aborted" ELSE "target_failed")
  /\ alive' = alive \ {inHand}
  /\ inHand' = NoProc
  /\ UNCHANGED <<runner, exercised, effect, cleanup>>

(* The open failed and its process may still run. *)
OpenUnproven ==
  /\ pc \in {"open", "reopen"}
  /\ awaiting
  /\ Fail("open", "termination_unproven")
  /\ inHand' = NoProc
  /\ UNCHANGED <<runner, target, cleanup>>

(* closeCurrentSession: the session is forgotten before close is awaited. *)
CloseStart ==
  /\ pc = "close"
  /\ ~awaiting
  /\ awaiting' = TRUE
  /\ inHand' = state.session
  /\ state' = [state EXCEPT !.session = NoProc]
  /\ UNCHANGED <<runner, target, cleanup, pc>>

CloseConfirmed ==
  /\ pc = "close"
  /\ awaiting
  /\ alive' = alive \ {inHand}
  /\ inHand' = NoProc
  /\ Proceed
  /\ UNCHANGED <<runner, exercised, effect, state, cleanup>>

(* The disconnected process turns out to have ended by itself, so the      *)
(* boundary was not the injected one.                                      *)
CloseNatural ==
  /\ pc = "close"
  /\ awaiting
  /\ Experiment = "disconnect_after_request_write_accepted"
  /\ alive' = alive \ {inHand}
  /\ inHand' = NoProc
  /\ Fail("fault", "fault_not_proven")
  /\ UNCHANGED <<runner, exercised, effect, cleanup>>

CloseUnproven ==
  /\ pc = "close"
  /\ awaiting
  /\ inHand' = NoProc
  /\ Fail(IF Experiment \in SeedKinds THEN "seed" ELSE "fault",
          "termination_unproven")
  /\ UNCHANGED <<runner, target, cleanup>>

Sessions == OpenStart \/ OpenDone \/ OpenFailed \/ OpenUnproven \/ CloseStart
              \/ CloseConfirmed \/ CloseNatural \/ CloseUnproven

-----------------------------------------------------------------------------
(* Baseline and probe settling *)

(* The reset tool answered success; the target may not have obeyed. *)
ResetDone ==
  /\ pc = "reset"
  /\ awaiting
  /\ state.session \in alive
  /\ effect' \in {effect, Baseline}
  /\ Proceed
  /\ UNCHANGED <<runner, alive, exercised, Locals, state>>

(* The reset failed, was aborted, or was refused; it may have applied. *)
ResetFailed ==
  /\ pc = "reset"
  /\ awaiting
  /\ effect' \in {effect, Baseline}
  /\ \E reason \in {"target_failed"} \cup IF aborted THEN {"aborted"} ELSE {} :
       Fail("reset", reason)
  /\ UNCHANGED <<runner, alive, exercised, Locals>>

(* The settled value is the effect its boundary confirmation read.  The    *)
(* caller compares it with the oracle of its phase.                        *)
Settled(step) ==
  /\ pc = step
  /\ awaiting
  /\ state.session \in alive
  /\ UNCHANGED <<runner, target, Locals>>

SettleFailed ==
  /\ pc \in SettleSteps
  /\ awaiting
  /\ \E reason \in IF aborted THEN {"aborted"}
                              ELSE {"probe_failed", "probe_unsettled"} :
       Fail(PhaseOf(pc), reason)
  /\ UNCHANGED <<runner, target, Locals>>

BaselineSettled ==
  /\ Settled("baseline")
  /\ IF effect = Baseline THEN Proceed /\ UNCHANGED state
                          ELSE Fail("baseline", "target_failed")

(* verifySeedEffect: a wrong seed effect is a violation at once. *)
SeedEffectSettled ==
  /\ Settled("verifySeed")
  /\ IF effect = Once
     THEN Proceed /\ UNCHANGED state
     ELSE /\ state' = [state EXCEPT !.conclusion =
                         Verdict("seed_effect", Once, effect)]
          /\ pc' = "cleanup"
          /\ awaiting' = FALSE

BoundarySettled ==
  /\ Settled("boundary")
  /\ IF effect = Once THEN Proceed /\ UNCHANGED state
                      ELSE Fail("boundary", "target_failed")

(* concludeFromFinal *)
FinalSettled ==
  /\ Settled("final")
  /\ state' = [state EXCEPT !.conclusion =
                 Verdict("final_effect", Expected, effect)]
  /\ Proceed

(* The cancelled attempt is judged by its own oracle, and a target that    *)
(* keeps its state in memory is then cleaned up in the same session.       *)
CancelSettled ==
  /\ Settled("cancelFinal")
  /\ state' = [state EXCEPT
                 !.conclusion = Verdict("final_effect", Expected, effect),
                 !.requiresFreshCleanup = @ /\ External]
  /\ Proceed

Probes == ResetDone \/ ResetFailed \/ SettleFailed \/ BaselineSettled
            \/ SeedEffectSettled \/ BoundarySettled \/ FinalSettled
            \/ CancelSettled

-----------------------------------------------------------------------------
(* Exercise attempts *)

(* Mutant: the signal is not consulted before the request is begun. *)
BeginExercise_IgnoresAbort ==
  /\ pc \in BeginSteps
  /\ ~awaiting
  /\ exercised' \in {exercised, exercised \cup {state.session}}
  /\ awaiting' = TRUE
  /\ UNCHANGED <<runner, alive, effect, Locals, pc, state>>

(* The exercise request is handed to the client; it reaches the target or  *)
(* is lost on the way.                                                     *)
BeginExercise ==
  /\ pc \in BeginSteps
  /\ ~awaiting
  /\ ~aborted
  /\ exercised' \in {exercised, exercised \cup {state.session}}
  /\ awaiting' = TRUE
  /\ UNCHANGED <<runner, alive, effect, Locals, pc, state>>

(* Arming the gate, subscribing or beginning the request throws. *)
BeginRejected ==
  /\ pc \in BeginSteps
  /\ ~awaiting
  /\ ~aborted
  /\ Fail(PhaseOf(pc), "target_failed")
  /\ UNCHANGED <<runner, target, Locals>>

(* The second parallel request is refused after the first has begun: the   *)
(* first is cancelled and observed before the flow fails.                  *)
ParallelPeerRejected ==
  /\ pc = "parallel"
  /\ ~awaiting
  /\ ~aborted
  /\ exercised' \in {exercised, exercised \cup {state.session}}
  /\ pc' = "parallelPeer"
  /\ awaiting' = TRUE
  /\ UNCHANGED <<runner, alive, effect, Locals, state>>

ParallelPeerObserved ==
  /\ pc = "parallelPeer"
  /\ Fail("fault", "target_failed")
  /\ UNCHANGED <<runner, target, Locals>>

(* The target completed the call and the gate withheld its response. *)
SeedSuppressed ==
  /\ pc = "seed"
  /\ awaiting
  /\ state.session \in exercised
  /\ Proceed
  /\ UNCHANGED <<runner, target, Locals, state>>

(* Mutant: the proven suppression leaves no fault evidence. *)
SeedCancelled_NoEvidence ==
  /\ pc = "cancelSeed"
  /\ awaiting
  /\ Proceed
  /\ UNCHANGED <<runner, target, Locals, state>>

(* The withheld request is cancelled; its write and the cancellation write *)
(* were both accepted.  Only this one strategy proves its fault here.      *)
SeedCancelled ==
  /\ pc = "cancelSeed"
  /\ awaiting
  /\ state' = IF Experiment = "suppress_completed_response"
              THEN [state EXCEPT !.fault = Experiment]
              ELSE state
  /\ Proceed
  /\ UNCHANGED <<runner, target, Locals>>

(* The seed completed unsuppressed, the transport ended under the gate,    *)
(* the cancellation was not written or observed, or the wait ran out.      *)
SeedFailed ==
  /\ pc \in {"seed", "cancelSeed"}
  /\ awaiting
  /\ \/ Fail("fault", "fault_not_proven")
     \/ Fail("seed", "unexpected_unknown")
     \/ Fail("seed", "target_failed")
  /\ UNCHANGED <<runner, target, Locals>>

(* A retry, or both parallel attempts, were written and answered.          *)
AttemptAccepted ==
  /\ pc \in {"retry", "parallel"}
  /\ awaiting
  /\ state.session \in exercised
  /\ state' = [state EXCEPT !.fault = Experiment]
  /\ Proceed
  /\ UNCHANGED <<runner, target, Locals>>

(* requireAcceptedKnownAttempt throws.  A retry of the seed experiments    *)
(* has already recorded its fault evidence by then.                        *)
AttemptFailed ==
  /\ pc \in {"retry", "parallel"}
  /\ awaiting
  /\ \E reason \in {"target_failed", "unexpected_unknown"}
                     \cup IF aborted THEN {"aborted"} ELSE {} :
       state' = [Failed(state, PhaseOf(pc), reason) EXCEPT
                   !.fault = IF Experiment \in SeedKinds THEN Experiment
                                                         ELSE @]
  /\ pc' = "cleanup"
  /\ awaiting' = FALSE
  /\ UNCHANGED <<runner, target, Locals>>

(* The matching progress notification arrives and the listener writes the  *)
(* cancellation: from here on only a fresh session may clean up.           *)
ProgressSeen ==
  /\ pc = "progress"
  /\ awaiting
  /\ state.session \in exercised
  /\ state' = [state EXCEPT !.requiresFreshCleanup = TRUE]
  /\ pc' = After("progress")
  /\ awaiting' = TRUE
  /\ UNCHANGED <<runner, target, Locals>>

(* The attempt ended as locally aborted: by the cancellation or by the     *)
(* signal, which the next wait tells apart.                                *)
CancelObserved ==
  /\ pc = "cancelObserve"
  /\ Proceed
  /\ UNCHANGED <<runner, target, Locals, state>>

CancelWritten ==
  /\ pc = "cancelWrite"
  /\ awaiting
  /\ state' = [state EXCEPT !.fault = Experiment]
  /\ Proceed
  /\ UNCHANGED <<runner, target, Locals>>

(* No matching progress, an attempt that ended otherwise, or a             *)
(* cancellation that was not written.                                      *)
CancelNotProven ==
  /\ pc \in {"progress", "cancelObserve", "cancelWrite"}
  /\ awaiting
  /\ Fail("fault", "fault_not_proven")
  /\ UNCHANGED <<runner, target, Locals>>

(* The gate disconnected after the local write was accepted.  Whether the  *)
(* process is confirmed dead is for the close that follows to tell.        *)
Disconnected ==
  /\ pc = "disconnect"
  /\ awaiting
  /\ alive' \in {alive, alive \ {state.session}}
  /\ Proceed
  /\ UNCHANGED <<runner, exercised, effect, Locals, state>>

(* The disconnect was not the cause of the outcome, or the trigger failed  *)
(* or timed out, an error that keeps no phase of its own.                  *)
DisconnectFailed ==
  /\ pc = "disconnect"
  /\ awaiting
  /\ \/ Fail("fault", "fault_not_proven")
     \/ Fail("open", IF aborted THEN "aborted" ELSE "target_failed")
  /\ UNCHANGED <<runner, target, Locals>>

Attempts ==
  \/ BeginExercise \/ BeginRejected
  \/ ParallelPeerRejected \/ ParallelPeerObserved
  \/ SeedSuppressed \/ SeedCancelled \/ SeedFailed
  \/ AttemptAccepted \/ AttemptFailed
  \/ ProgressSeen \/ CancelObserved \/ CancelWritten \/ CancelNotProven
  \/ Disconnected \/ DisconnectFailed

-----------------------------------------------------------------------------
(* Cleanup, which no signal interrupts *)

Finish(evidence) ==
  /\ cleanup' = evidence
  /\ pc' = "result"
  /\ awaiting' = FALSE

(* No session was ever opened, so there is nothing to reset. *)
CleanupNotNeeded ==
  /\ pc = "cleanup"
  /\ ~state.openedAny
  /\ Finish(IF state.canSpawn THEN "not_needed" ELSE "failed")
  /\ UNCHANGED <<runner, target, state, inHand>>

(* Mutant: the session of the experiment also cleans external state. *)
CleanupSameSession_External ==
  /\ pc = "cleanup"
  /\ state.openedAny
  /\ state.session # NoProc
  /\ ~state.requiresFreshCleanup
  /\ inHand' = state.session
  /\ state' = [state EXCEPT !.session = NoProc]
  /\ pc' = "cleanupReset"
  /\ UNCHANGED <<runner, target, cleanup, awaiting>>

(* State kept in memory is reset through the session that made it. *)
CleanupSameSession ==
  /\ pc = "cleanup"
  /\ state.openedAny
  /\ state.session # NoProc
  /\ ~state.requiresFreshCleanup
  /\ ~External
  /\ inHand' = state.session
  /\ state' = [state EXCEPT !.session = NoProc]
  /\ pc' = "cleanupReset"
  /\ UNCHANGED <<runner, target, cleanup, awaiting>>

(* Otherwise the session is closed first, so that nothing it still has in  *)
(* flight can act after the reset.                                         *)
CleanupCloseOld ==
  /\ pc = "cleanup"
  /\ state.openedAny
  /\ state.session # NoProc
  /\ state.requiresFreshCleanup \/ External
  /\ inHand' = state.session
  /\ state' = [state EXCEPT !.session = NoProc]
  /\ pc' = "closeOld"
  /\ UNCHANGED <<runner, target, cleanup, awaiting>>

(* A fresh cleanup session, unless a further spawn is forbidden. *)
OpenCleanupOrFail ==
  IF state.canSpawn
  THEN pc' = "cleanupOpen" /\ UNCHANGED <<cleanup, awaiting>>
  ELSE Finish("failed")

CleanupNoSession ==
  /\ pc = "cleanup"
  /\ state.openedAny
  /\ state.session = NoProc
  /\ OpenCleanupOrFail
  /\ UNCHANGED <<runner, target, state, inHand>>

OldClosed ==
  /\ pc = "closeOld"
  /\ alive' = alive \ {inHand}
  /\ inHand' = NoProc
  /\ OpenCleanupOrFail
  /\ UNCHANGED <<runner, exercised, effect, state>>

(* Mutant: a cleanup close that proves nothing does not halt the suite. *)
CleanupCloseUnproven_NoHalt ==
  /\ pc \in {"closeOld", "cleanupClose"}
  /\ inHand' = NoProc
  /\ Finish("failed")
  /\ UNCHANGED <<runner, target, state>>

(* closeCleanupSession could not prove that the process ended. *)
CleanupCloseUnproven ==
  /\ pc \in {"closeOld", "cleanupClose"}
  /\ state' = [state EXCEPT !.canSpawn = FALSE]
  /\ inHand' = NoProc
  /\ Finish("failed")
  /\ UNCHANGED <<runner, target>>

(* Mutant: the durable recheck of an external pass is left out. *)
CleanupOpened_NoRecheck ==
  /\ pc = "cleanupOpen"
  /\ awaiting
  /\ inHand \in alive
  /\ pc' = "cleanupReset"
  /\ awaiting' = FALSE
  /\ UNCHANGED <<runner, target, state, Locals>>

(* An external pass is re-observed by the fresh session before the reset. *)
CleanupOpened ==
  /\ pc = "cleanupOpen"
  /\ awaiting
  /\ inHand \in alive
  /\ pc' = IF External /\ state.conclusion.kind = "pass"
           THEN "durable" ELSE "cleanupReset"
  /\ awaiting' = FALSE
  /\ UNCHANGED <<runner, target, state, Locals>>

CleanupOpenFailed ==
  /\ pc = "cleanupOpen"
  /\ awaiting
  /\ alive' = alive \ {inHand}
  /\ inHand' = NoProc
  /\ Finish("failed")
  /\ UNCHANGED <<runner, exercised, effect, state>>

CleanupOpenUnproven ==
  /\ pc = "cleanupOpen"
  /\ awaiting
  /\ state' = [state EXCEPT !.canSpawn = FALSE]
  /\ inHand' = NoProc
  /\ Finish("failed")
  /\ UNCHANGED <<runner, target>>

(* A durable value other than the expected one overturns the pass. *)
DurableSettled ==
  /\ pc = "durable"
  /\ inHand \in alive
  /\ state' = [state EXCEPT !.conclusion =
                 Verdict("final_effect", @.expected, effect)]
  /\ pc' = "cleanupReset"
  /\ UNCHANGED <<runner, target, Locals, awaiting>>

DurableUnsettled ==
  /\ pc = "durable"
  /\ cleanup' = "tainted"
  /\ pc' = "cleanupReset"
  /\ UNCHANGED <<runner, target, inHand, state, awaiting>>

(* The cleanup reset answered success, though it may not have applied; a   *)
(* failed one may have applied all the same.                               *)
CleanupReset ==
  /\ pc = "cleanupReset"
  /\ effect' \in {effect, Baseline}
  /\ \/ /\ inHand \in alive
        /\ pc' = "cleanupSettle"
        /\ UNCHANGED cleanup
     \/ /\ pc' = "cleanupClose"
        /\ cleanup' = "tainted"
  /\ UNCHANGED <<runner, alive, exercised, inHand, state, awaiting>>

(* Mutant: the reset is repeated until the baseline is read. *)
CleanupSettle_Retries ==
  /\ pc = "cleanupSettle"
  /\ \/ /\ inHand \in alive
        /\ pc' = IF effect = Baseline THEN "cleanupClose" ELSE "cleanupReset"
        /\ UNCHANGED cleanup
     \/ /\ pc' = "cleanupClose"
        /\ cleanup' = "tainted"
  /\ UNCHANGED <<runner, target, inHand, state, awaiting>>

(* The cleanup ends at the baseline, or is tainted by another value or by  *)
(* a probe that fails.                                                     *)
CleanupSettle ==
  /\ pc = "cleanupSettle"
  /\ \/ /\ inHand \in alive
        /\ effect = Baseline
        /\ UNCHANGED cleanup
     \/ cleanup' = "tainted"
  /\ pc' = "cleanupClose"
  /\ UNCHANGED <<runner, target, inHand, state, awaiting>>

CleanupClosed ==
  /\ pc = "cleanupClose"
  /\ alive' = alive \ {inHand}
  /\ inHand' = NoProc
  /\ Finish(IF cleanup = "tainted" THEN "failed" ELSE "clean")
  /\ UNCHANGED <<runner, exercised, effect, state>>

Cleanup ==
  \/ CleanupNotNeeded \/ CleanupSameSession \/ CleanupCloseOld
  \/ CleanupNoSession \/ OldClosed \/ CleanupCloseUnproven
  \/ CleanupOpened \/ CleanupOpenFailed \/ CleanupOpenUnproven
  \/ DurableSettled \/ DurableUnsettled \/ CleanupReset \/ CleanupSettle
  \/ CleanupClosed

-----------------------------------------------------------------------------
(* The suite *)

Outcome ==
  [experiment |-> Experiment, kind |-> state.conclusion.kind,
   fault |-> state.fault, cleanup |-> cleanup]

(* Mutant: the suite loop runs one experiment too far. *)
RecordResult_OffByOne ==
  /\ pc = "result"
  /\ results' = Append(results, Outcome)
  /\ halted' = (~state.canSpawn \/ aborted)
  /\ IF ~halted' /\ idx <= Len(scenario.experiments)
     THEN /\ idx' = idx + 1
          /\ pc' = "open"
          /\ state' = InitialState
          /\ cleanup' = "pending"
          /\ effect' \in {effect, Baseline}
     ELSE /\ pc' = "done"
          /\ UNCHANGED <<idx, state, cleanup, effect>>
  /\ UNCHANGED <<scenario, aborted, alive, exercised, awaiting, inHand>>

(* One iteration of the suite loop ends.  The next experiment works in a   *)
(* fresh scope of the target, unless the target ignores scopes.            *)
RecordResult ==
  /\ pc = "result"
  /\ results' = Append(results, Outcome)
  /\ halted' = (~state.canSpawn \/ aborted)
  /\ IF ~halted' /\ idx < Len(scenario.experiments)
     THEN /\ idx' = idx + 1
          /\ pc' = "open"
          /\ state' = InitialState
          /\ cleanup' = "pending"
          /\ effect' \in {effect, Baseline}
     ELSE /\ pc' = "done"
          /\ UNCHANGED <<idx, state, cleanup, effect>>
  /\ UNCHANGED <<scenario, aborted, alive, exercised, awaiting, inHand>>

Count(kind) == Cardinality({i \in DOMAIN results : results[i].kind = kind})

(* The status of the finished suite. *)
SuiteStatus ==
  IF Count("violation") > 0 THEN "violation"
  ELSE IF \/ Count("inconclusive") > 0
          \/ \E i \in DOMAIN results : results[i].cleanup = "failed"
          \/ halted
       THEN "inconclusive"
       ELSE "pass"

-----------------------------------------------------------------------------
(* The environment *)

(* SIGINT or SIGTERM aborts the signal. *)
Abort ==
  /\ ~aborted
  /\ pc # "done"
  /\ aborted' = TRUE
  /\ UNCHANGED <<scenario, idx, results, halted, pc, awaiting, state, Locals,
                 target>>

(* A process with an exercise request mutates the effect. *)
Mutate(p) ==
  /\ p \in alive \cap exercised
  /\ effect < MaxEffect
  /\ effect' = effect + 1
  /\ UNCHANGED <<runner, alive, exercised, pc, awaiting, state, Locals>>

(* A target process ends by itself. *)
Crash(p) ==
  /\ p \in alive
  /\ alive' = alive \ {p}
  /\ UNCHANGED <<runner, exercised, effect, pc, awaiting, state, Locals>>

Runner == Start \/ AbortedAtStart \/ AbortedInFlight \/ Sessions \/ Probes
            \/ Attempts \/ Cleanup \/ RecordResult

Environment == Abort \/ \E p \in Procs : Mutate(p) \/ Crash(p)

Done == pc = "done" /\ UNCHANGED vars

Init ==
  /\ scenario \in Scenarios
  /\ idx = 1
  /\ pc = "open"
  /\ awaiting = FALSE
  /\ state = InitialState
  /\ inHand = NoProc
  /\ cleanup = "pending"
  /\ results = <<>>
  /\ halted = FALSE
  /\ aborted = FALSE
  /\ alive = {}
  /\ exercised = {}
  /\ effect \in Effects

Next == Runner \/ Environment \/ Done

Spec == Init /\ [][Next]_vars

(* Every call the runner awaits is bounded by a timer: requests and waits  *)
(* by timeouts.requestMs, settling by its deadline, closing by shutdownMs. *)
FairSpec == Spec /\ WF_vars(Runner)

-----------------------------------------------------------------------------
(* Properties *)

(* No target is ever spawned while another may still run: runner.ts gives  *)
(* up its right to spawn whenever a termination is unproven.               *)
AtMostOneTarget == \A p, q \in alive : p = q

(* A target that may survive an experiment is never left behind silently:  *)
(* the experiment's cleanup is reported failed and the suite halts.        *)
NoSilentLeak ==
  /\ pc = "result" /\ alive # {} => ~state.canSpawn /\ cleanup = "failed"
  /\ pc = "done" /\ alive # {} =>
       halted /\ results[Len(results)].cleanup = "failed"

(* When an external pass goes to the cleanup reset with its durable        *)
(* recheck done, the store holds the expected effect and no process that   *)
(* was asked to change it is left: the verdict can no longer be falsified. *)
PassIsDurable ==
  (/\ pc = "cleanupReset"
   /\ External
   /\ state.conclusion.kind = "pass"
   /\ cleanup # "tainted")
    => effect = state.conclusion.expected /\ alive \cap exercised = {}

(* Clean cleanup evidence means that the target is gone and that external  *)
(* state really is back at the baseline, with nothing left to change it.   *)
CleanMeansQuiescent ==
  pc = "result" /\ cleanup = "clean" =>
    alive = {} /\ (External => effect = Baseline)

(* A retry across a process boundary starts when no process of the earlier *)
(* epoch can act any more, so that both attempts cannot overlap.           *)
CrossEpochRetryIsIsolated ==
  pc = "retry" /\ ~awaiting /\ Experiment \in RestartKinds =>
    alive \cap exercised = {}

(* README: "a proven experiment settled at a value different from its      *)
(* expected oracle"; a violation would always carry fault evidence.        *)
ViolationIsProven ==
  pc = "result" /\ state.conclusion.kind = "violation" =>
    state.fault # "not_proven"

(* What the report (report.ts) recomputes of a suite before it is written: *)
(* an inconsistent suite ends the command with an internal error.          *)
ReportStatus ==
  IF \E i \in DOMAIN results : results[i].kind = "violation" THEN "violation"
  ELSE IF halted \/ \E i \in DOMAIN results :
                      \/ results[i].kind = "inconclusive"
                      \/ results[i].cleanup = "failed"
  THEN "inconclusive" ELSE "pass"

(* The checks of assertSuiteInvariants that something could upset.  The    *)
(* others compare a result with itself: run identifiers are made from the  *)
(* index, the counts are counted from the same results, a verdict is named *)
(* by comparing its two values, and "clean" is only concluded from a       *)
(* confirmed process.                                                      *)
ReportAccepts ==
  /\ \A i, j \in DOMAIN results :
       results[i].experiment = results[j].experiment => i = j
  /\ \A i \in DOMAIN results :
       results[i].kind = "pass" => results[i].fault # "not_proven"
  /\ SuiteStatus = ReportStatus

(* No verdict says more than what happened.  A pass or a violation of the  *)
(* final effect is only concluded for an experiment whose own fault was    *)
(* proven.  Exit code 0 (status pass) means that every configured          *)
(* experiment was evaluated, passed and was cleaned up, and that no target *)
(* runs.  And the report never refuses a suite of the runner.              *)
VerdictsAreEarned ==
  /\ pc = "result" /\ state.conclusion.kind # "inconclusive"
       /\ state.conclusion.phase = "final_effect" => state.fault = Experiment
  /\ pc = "done" => ReportAccepts
  /\ pc = "done" /\ SuiteStatus = "pass" =>
       /\ alive = {}
       /\ Len(results) = Len(scenario.experiments)
       /\ \A i \in DOMAIN results :
            /\ results[i].kind = "pass"
            /\ results[i].fault = scenario.experiments[i]
            /\ results[i].cleanup = "clean"

(* Once the signal is aborted no exercise request is begun any more, and   *)
(* only cleanup still spawns a target.                                     *)
AbortStopsExercise ==
  [][aborted => /\ exercised' \subseteq exercised
                /\ pc # "cleanupOpen" => alive' \subseteq alive]_vars

(* The suite always ends, whatever the target does. *)
SuiteEnds == <>(pc = "done")

=============================================================================
