---------------------------- MODULE StdioProcess ----------------------------
(***************************************************************************)
(* The life of one target process as src/transport/stdio-process.ts sees   *)
(* it: the start, which may be abandoned; the failures of its streams; the *)
(* escalation of close() from end of input over SIGTERM and SIGKILL to     *)
(* letting go of the streams; and the summary that says whether the direct *)
(* process is known to have ended.                                         *)
(*                                                                         *)
(* The child, its pipes and the events of Node are the environment.  The   *)
(* child may hand its output to descendants, so the end of the process and *)
(* the end of a stream are two events.  Frames are the subject of          *)
(* NdjsonDecoder, the two queues that of MessageQueue and SerializedWriter; *)
(* here each is only open or at one of its ends.                           *)
(***************************************************************************)
VARIABLES
  process,      \* the direct process: "absent" (spawn failed), "running", "dead"
  stdout,       \* this end of the pipe: "open", "ended" by the child, "destroyed"
  stderr,       \* the same
  exitSeen,     \* #processState.exitObserved
  closeSeen,    \* #processState.closeObserved
  spawned,      \* #spawned
  start,        \* start(): "waiting", "done", "killing", "released", "failed"
  startReport,  \* what a failed start() says of the process
  failure,      \* #failure is set
  inbound,      \* #queue: "open", "ended", "failed"
  writer,       \* #writer: "open", "finishing", "drained", "failed"
  finalized,    \* #stdoutFinalized
  detached,     \* #stdioDetached
  termination,  \* #termination
  result,       \* directProcessTermination and termination of #processCloseResult
  closing,      \* where #closeInternal waits; "none" before close()
  signals,      \* the signals that were delivered
  cut           \* ghost: stdin was taken away before the exit was observed

childVars == <<process, stderr>>
eventVars == <<exitSeen, closeSeen>>
startVars == <<spawned, start, startReport>>
ioVars    == <<failure, inbound, stdout, writer, cut, closing>>
endVars   == <<finalized, detached, termination, result, signals>>
vars == <<childVars, eventVars, startVars, ioVars, endVars>>

Streams == {"open", "ended", "destroyed"}
Labels  == {"natural", "disconnect", "stdin-eof", "terminate", "kill"}
Stages  == {"none", "draining", "eof", "term", "kill", "released", "done"}

NoResult == [direct |-> "none", label |-> "natural"]
Settled  == result # NoResult

Init ==
  /\ process \in {"absent", "running"}
  /\ stdout = "open" /\ stderr = "open"
  /\ exitSeen = FALSE /\ closeSeen = FALSE
  /\ spawned = FALSE /\ start = "waiting" /\ startReport = "none"
  /\ failure = FALSE /\ inbound = "open" /\ writer = "open"
  /\ finalized = FALSE /\ detached = FALSE /\ termination = "natural"
  /\ result = NoResult
  /\ closing = "none" /\ signals = {} /\ cut = FALSE

-----------------------------------------------------------------------------
(* The parts that several handlers call.                                   *)

(* #queue.end() and #queue.fail(): the first one counts. *)
Terminal(queue, end) == IF queue = "open" THEN end ELSE queue

(* #writer.abort(): what was flushed stays flushed. *)
Aborted(w) == IF w = "drained" THEN w ELSE "failed"

(* #writer.finish(): at once if nothing is queued. *)
Finished(w) == IF w = "open" THEN {"drained", "finishing"} ELSE {w}

(* #startCleanup: close() begins unless the child is not known to be spawned
   or close() has begun. *)
Cleanup == IF spawned /\ closing = "none" THEN "draining" ELSE closing

(* #abortLocalIo, with stdout as the event at hand left it. *)
AbortLocalIo(out) ==
  /\ failure' = TRUE
  /\ inbound' = Terminal(inbound, "failed")
  /\ writer' = Aborted(writer)
  /\ stdout' = IF out = "open" THEN "destroyed" ELSE out
  /\ cut' = (cut \/ ~exitSeen)

(* #fail: only the first failure does anything. *)
Fail(out) ==
  IF failure
  THEN stdout' = out /\ UNCHANGED <<failure, inbound, writer, cut, closing>>
  ELSE AbortLocalIo(out) /\ closing' = Cleanup

(* #finalizeStdout, once.  Before the child is known to be spawned no byte was
   read, so no frame can be partial. *)
FinalizeStdout(out) ==
  /\ finalized' = TRUE
  /\ \/ /\ finalized \/ failure
        /\ stdout' = out
        /\ UNCHANGED <<failure, inbound, writer, cut, closing>>
     \/ /\ ~finalized /\ ~failure /\ spawned          \* a partial frame is left
        /\ Fail(out)
     \/ /\ ~finalized /\ ~failure
        /\ inbound' = Terminal(inbound, "ended")
        /\ stdout' = out
        /\ closing' = Cleanup
        /\ writer' \in IF closing' = closing THEN {writer} ELSE Finished(writer)
        /\ UNCHANGED <<failure, cut>>

(* Mutant: streams that were let go count as closed. *)
SettleProcessClose_IgnoresDetached ==
  result' = IF Settled THEN result
            ELSE [direct |-> IF closeSeen' /\ exitSeen'
                             THEN "confirmed" ELSE "unconfirmed",
                  label |-> termination']

(* #settleProcessClose, after the handler has set what it sets. *)
SettleProcessClose ==
  result' = IF Settled THEN result
            ELSE [direct |-> IF closeSeen' /\ exitSeen' /\ ~detached'
                             THEN "confirmed" ELSE "unconfirmed",
                  label |-> termination']

(* Mutant: the label is set whether or not the signal was delivered. *)
SignalDirectChild_AlwaysLabels(signal, label) ==
  /\ termination' = label
  /\ signals' \in {signals, signals \union {signal}}
  /\ UNCHANGED <<failure, inbound, writer, stdout, cut>>

(* #signalDirectChild in close(): delivered; the process is gone already; or the
   system refuses, which fails the transport.  A process whose exit was not
   observed still has its entry, so only a running one can refuse. *)
SignalDirectChild(signal, label) ==
  \/ /\ signals' = signals \union {signal}
     /\ termination' = label
     /\ UNCHANGED <<failure, inbound, writer, stdout, cut>>
  \/ /\ process = "dead"
     /\ UNCHANGED <<failure, inbound, writer, stdout, cut, signals, termination>>
  \/ /\ process = "running"
     /\ IF failure THEN UNCHANGED <<failure, inbound, writer, stdout, cut>>
                   ELSE AbortLocalIo(stdout)
     /\ UNCHANGED <<signals, termination>>

-----------------------------------------------------------------------------
(* Node runs the continuation of a settled promise before the next event of a
   pipe, a process or a timer.  Only here does the order matter: close() must
   label the end before it can look natural. *)
Ready == closing = "draining" /\ writer \in {"drained", "failed"}

(* -------- start() -------- *)

(* Mutant: output that ended before the spawn event is not looked for. *)
SpawnSeen_TrustsTheEvent ==
  /\ start = "waiting" /\ process # "absent"
  /\ spawned' = TRUE /\ start' = "done"
  /\ UNCHANGED <<childVars, eventVars, startReport, ioVars, endVars>>

(* The spawn event, and the check for output that ended before it. *)
SpawnSeen ==
  /\ start = "waiting" /\ process # "absent"
  /\ spawned' = TRUE /\ start' = "done"
  /\ IF finalized /\ ~Settled
     THEN closing' = "draining" /\ writer' \in Finished(writer)
     ELSE UNCHANGED <<closing, writer>>
  /\ UNCHANGED <<childVars, eventVars, startReport, failure, inbound, stdout,
                 cut, endVars>>

(* #abandonStartup up to its first wait. *)
AbandonStartup(reason) ==
  /\ start = "waiting" /\ start' = "killing" /\ startReport' = reason
  /\ IF failure THEN UNCHANGED <<failure, inbound, writer, stdout, cut>>
                ELSE AbortLocalIo(stdout)
  /\ termination' = "kill"
  /\ signals' \in IF process = "absent" \/ exitSeen THEN {signals}
                  ELSE {signals, signals \union {"SIGKILL"}}
  /\ UNCHANGED <<childVars, eventVars, spawned, closing, finalized, detached,
                 result>>

(* An error of the child or the abort signal: whether a process exists is read
   from the process identifier, which is set at once. *)
SpawnFailsOrAborts ==
  AbandonStartup(IF process = "absent" THEN "not_started" ELSE "pending")

SpawnTimesOut == AbandonStartup("pending")

LetGo ==
  /\ detached' = TRUE
  /\ stdout' = IF stdout = "open" THEN "destroyed" ELSE stdout
  /\ stderr' = IF stderr = "open" THEN "destroyed" ELSE stderr

AbandonTimeout ==
  /\ start = "killing" /\ ~Settled
  /\ start' = "released"
  /\ LetGo
  /\ UNCHANGED <<process, eventVars, spawned, startReport, failure, inbound,
                 writer, cut, closing, finalized, termination, result, signals>>

Report(summary) == IF startReport = "pending" THEN summary.direct ELSE startReport

AbandonReleaseTimeout ==
  /\ start = "released" /\ ~Settled
  /\ UNCHANGED <<childVars, eventVars, spawned, ioVars, finalized, detached,
                 termination, signals>>
  /\ SettleProcessClose
  /\ start' = "failed" /\ startReport' = Report(result')

AbandonReturns ==
  /\ start \in {"killing", "released"} /\ Settled
  /\ start' = "failed" /\ startReport' = Report(result)
  /\ UNCHANGED <<childVars, eventVars, spawned, ioVars, endVars>>

Starting ==
  \/ SpawnSeen \/ SpawnFailsOrAborts \/ SpawnTimesOut
  \/ AbandonTimeout \/ AbandonReleaseTimeout \/ AbandonReturns

(* -------- the child and its streams -------- *)

Dies ==
  /\ process = "running" /\ process' = "dead"
  /\ UNCHANGED <<stderr, eventVars, startVars, ioVars, endVars>>

ExitSeen ==
  /\ process = "dead" /\ ~exitSeen /\ exitSeen' = TRUE
  /\ UNCHANGED <<childVars, closeSeen, startVars, ioVars, endVars>>

(* The listeners are attached before the child is known to be spawned.  Node
   emits spawn before it reads from the pipes, so no data and no error of a
   stream or of the running child comes earlier; an early end of output is kept,
   since the code provides for it. *)

(* A frame the decoder or the queue rejects; data after a failure or after the
   end is not looked at. *)
BadOutput ==
  /\ stdout = "open" /\ spawned /\ ~failure /\ ~finalized
  /\ Fail(stdout)
  /\ UNCHANGED <<childVars, eventVars, startVars, endVars>>

StdoutEnds ==
  /\ stdout = "open" /\ FinalizeStdout("ended")
  /\ UNCHANGED <<childVars, eventVars, startVars, detached, termination, result,
                 signals>>

(* The close event of a stdout that was destroyed. *)
StdoutCloses ==
  /\ stdout = "destroyed" /\ ~finalized /\ FinalizeStdout(stdout)
  /\ UNCHANGED <<childVars, eventVars, startVars, detached, termination, result,
                 signals>>

StdoutFails ==
  /\ stdout = "open" /\ spawned /\ Fail("destroyed")
  /\ UNCHANGED <<childVars, eventVars, startVars, endVars>>

StderrEnds ==
  /\ stderr = "open" /\ stderr' = "ended"
  /\ UNCHANGED <<process, eventVars, startVars, ioVars, endVars>>

StderrFails ==
  /\ stderr = "open" /\ spawned /\ stderr' = "destroyed" /\ Fail(stdout)
  /\ UNCHANGED <<process, eventVars, startVars, endVars>>

(* An error event of a running child, after it was spawned. *)
ChildFails ==
  /\ process = "running" /\ spawned /\ ~failure /\ Fail(stdout)
  /\ UNCHANGED <<childVars, eventVars, startVars, endVars>>

(* The close event: the exit was reported, or there never was a process, and
   both output streams are closed. *)
ChildCloses ==
  /\ ~closeSeen /\ closeSeen' = TRUE
  /\ exitSeen \/ (process = "absent" /\ start # "waiting")
  /\ stdout # "open" /\ stderr # "open"
  /\ FinalizeStdout(stdout)
  /\ UNCHANGED <<childVars, exitSeen, startVars, detached, termination, signals>>
  /\ SettleProcessClose

WriterDrains ==
  /\ writer = "finishing" /\ writer' = "drained"
  /\ UNCHANGED <<childVars, eventVars, startVars, failure, inbound, stdout, cut,
                 closing, endVars>>

WriterFails ==
  /\ writer \in {"open", "finishing"} /\ writer' = "failed"
  /\ UNCHANGED <<childVars, eventVars, startVars, failure, inbound, stdout, cut,
                 closing, endVars>>

Events ==
  /\ ~Ready
  /\ \/ Dies \/ ExitSeen \/ BadOutput \/ StdoutEnds \/ StdoutCloses \/ StdoutFails
     \/ StderrEnds \/ StderrFails \/ ChildFails \/ ChildCloses
     \/ WriterDrains \/ WriterFails

-----------------------------------------------------------------------------
(* -------- close() and disconnect() -------- *)

Close ==
  /\ start = "done" /\ closing = "none"
  /\ closing' = "draining" /\ writer' \in Finished(writer)
  /\ UNCHANGED <<childVars, eventVars, startVars, failure, inbound, stdout, cut,
                 endVars>>

(* Mutant: the exit is not asked for. *)
Disconnectable_IgnoresExit ==
  start = "done" /\ closing = "none" /\ ~failure /\ ~Settled /\ ~finalized

Disconnectable ==
  /\ start = "done" /\ closing = "none"
  /\ ~failure /\ ~Settled /\ ~exitSeen /\ ~finalized

Disconnect ==
  /\ Disconnectable
  /\ AbortLocalIo(stdout)
  /\ termination' = "disconnect"
  /\ closing' = Cleanup
  /\ UNCHANGED <<childVars, eventVars, startVars, finalized, detached, result,
                 signals>>

(* The end of the first wait: the writer came to an end, or the time was up and
   it is aborted.  What is left of the input ends here. *)
EndInput(w) ==
  /\ writer' = w
  /\ closing' = IF Settled THEN "done" ELSE "eof"
  /\ IF Settled \/ exitSeen
     THEN cut' = (cut \/ (w # writer /\ ~exitSeen)) /\ UNCHANGED termination
     ELSE /\ cut' = TRUE
          /\ termination' = IF termination = "natural" THEN "stdin-eof"
                            ELSE termination
  /\ UNCHANGED <<childVars, eventVars, startVars, failure, inbound, stdout,
                 finalized, detached, result, signals>>

Drained == Ready /\ EndInput(writer)

DrainTimeout == closing = "draining" /\ writer = "finishing" /\ EndInput("failed")

(* Each later wait ends with the close event or with its timer. *)
Waited(stage) == closing = stage /\ ~Settled

DetachFrom(stage) ==
  /\ Waited(stage)
  /\ closing' = "released"
  /\ LetGo
  /\ UNCHANGED <<process, eventVars, startVars, failure, inbound, writer, cut,
                 finalized, termination, result, signals>>

(* Delivered or not, the next wait begins. *)
Escalate(stage, signal, label, next) ==
  /\ Waited(stage) /\ ~exitSeen
  /\ closing' = next
  /\ SignalDirectChild(signal, label)
  /\ UNCHANGED <<childVars, eventVars, startVars, finalized, detached, result>>

(* Without an observed exit the next signal is due; with one, only descendants
   can hold the streams, and they are let go. *)
EofTimeout ==
  \/ Escalate("eof", "SIGTERM", "terminate", "term")
  \/ exitSeen /\ DetachFrom("eof")

TermTimeout ==
  \/ Escalate("term", "SIGKILL", "kill", "kill")
  \/ exitSeen /\ DetachFrom("term")

KillTimeout == DetachFrom("kill")

ReleaseTimeout ==
  /\ Waited("released")
  /\ FinalizeStdout(stdout)
  /\ UNCHANGED <<childVars, eventVars, startVars, detached, termination, signals>>
  /\ SettleProcessClose

(* The awaited summary is there and close() returns it. *)
CloseReturns ==
  /\ closing \in {"eof", "term", "kill", "released"} /\ Settled
  /\ closing' = "done"
  /\ UNCHANGED <<childVars, eventVars, startVars, failure, inbound, stdout,
                 writer, cut, endVars>>

Closing ==
  \/ Drained \/ DrainTimeout \/ EofTimeout \/ TermTimeout \/ KillTimeout
  \/ ReleaseTimeout \/ CloseReturns

Over == closing = "done" \/ start = "failed"

Rest == Over /\ UNCHANGED vars

Next == Starting \/ Events \/ Close \/ Disconnect \/ Closing \/ Rest

Spec == Init /\ [][Next]_vars

(* The event loop runs timers and continuations; nothing is assumed of the
   child, its streams or whoever holds them. *)
FairSpec == Spec /\ WF_vars(Starting) /\ WF_vars(Closing)

-----------------------------------------------------------------------------
(* The variables have their types, and close() waits for nothing before the
   child is known to be spawned: the summary of an abandoned start is never
   taken for that of a close. *)
TypeOK ==
  /\ process \in {"absent", "running", "dead"}
  /\ stdout \in Streams /\ stderr \in Streams
  /\ exitSeen \in BOOLEAN /\ closeSeen \in BOOLEAN /\ spawned \in BOOLEAN
  /\ failure \in BOOLEAN /\ finalized \in BOOLEAN /\ detached \in BOOLEAN
  /\ cut \in BOOLEAN
  /\ start \in {"waiting", "done", "killing", "released", "failed"}
  /\ startReport \in {"none", "pending", "not_started", "confirmed", "unconfirmed"}
  /\ inbound \in {"open", "ended", "failed"}
  /\ writer \in {"open", "finishing", "drained", "failed"}
  /\ termination \in Labels /\ closing \in Stages
  /\ signals \subseteq {"SIGTERM", "SIGKILL"}
  /\ result \in [direct: {"none", "confirmed", "unconfirmed"}, label: Labels]
  /\ start # "done" => closing = "none" /\ ~spawned

(* What is reported of the direct process is true of it: "confirmed" means that
   it is dead and that the child's side closed both outputs, unless the
   transport gave them up by a failure that it reports (README.md: "a confirmed
   result proves that direct process exited and its stdio closed");
   "not_started" means that there never was a process. *)
ReportIsTrue ==
  /\ result.direct = "confirmed" =>
       /\ process = "dead" /\ exitSeen
       /\ failure \/ (stdout = "ended" /\ stderr = "ended")
  /\ startReport = "not_started" => process = "absent"
  /\ startReport = "confirmed" => process = "dead"

(* The reports of a transport in a state it can be in are true. *)
ReportsAreHonest == TypeOK /\ ReportIsTrue

(* The label of the end says what was done to the process, although the exit
   races every step of the escalation: a natural end is one that was observed
   before the transport touched the input, and a signal is named only if it was
   delivered, and no stronger one was. *)
LabelIsHonest ==
  Settled =>
    /\ result.label = "natural" => ~cut /\ signals = {}
    /\ result.label \in {"disconnect", "stdin-eof"} => signals = {}
    /\ result.label = "terminate" => signals = {"SIGTERM"}
    /\ result.label = "kill" => "SIGKILL" \in signals \/ ~spawned

(* A transport that is over leaves nobody waiting: receive() is at its end and
   send() is refused, however the process ended and whichever of the stages of
   close() it took. *)
ClosedIsSilent == Over => inbound # "open" /\ writer \in {"drained", "failed"}

(* start() returns; a transport that failed, or whose output ended, terminates
   the child without being asked, also when that happened before the spawn event
   was handled; close() returns, and then every receive() and send() has.  All of
   it whether or not the process ever dies and whoever holds its streams. *)
TerminationSettles ==
  /\ start = "waiting" ~> start \in {"done", "failed"}
  /\ (start = "done" /\ (failure \/ finalized)) ~> Settled
  /\ closing # "none" ~> closing = "done"
  /\ []ClosedIsSilent

=============================================================================
