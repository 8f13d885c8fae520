# A TLA+ model of halfack

halfack runs fault experiments against an MCP server. It spawns the server as a
child process, begins a tool call, interrupts it at a precise point (the
response is withheld, the pipe is cut after the write was accepted, the request
is cancelled), retries, and then reads a numeric *effect* through a probe tool.
The verdict is pass, violation or inconclusive; the promise of the program is
that inconclusive is never promoted to pass, and that cleanup never hides what
happened.

This directory holds TLA+ modules for the parts of the program whose order of
steps matters, TLC configurations that check them on small instances, and
theorems about them checked by TLAPS for every value of the constants.
`PROJECT.json` maps each definition to the lines it stands for. Paths below are
relative to the repository's own `src/` directory.

    tlc -config FaultGate.cfg MCFaultGate      # any of the runs below
    tlapm ExperimentRunnerProofs.tla           # any of the *Proofs modules

## 1. The system

    cli/commands/run -> experiment/runner -> experiment/session
                             |                  |  mcp/raw-client
                             |                  |  experiment/fault-gate
                        oracle/settle           |  transport/stdio-process
                             |                  |    serialized-writer (out)
                        oracle/probe            |    ndjson-decoder, message-queue (in)
                             v                  v
                          report            target process

Everything runs on one event loop. There are no threads, but there are many
callbacks: a promise continuation, a timer, a stream or process event or the
abort signal may run between any two steps of an `async` function. The target
process is a second, uncontrolled actor.

| component | state it keeps | operations | hard behaviour | what makes it correct |
|---|---|---|---|---|
| experiment runner `experiment/runner.ts` | per suite: results, halted; per experiment: session, conclusion, fault evidence, may-spawn, fresh-cleanup flag | seven strategies, bounded waits, cleanup, suite loop | abort between any two awaits; a target that mutates late, crashes, or cannot be proved dead | one target at a time; verdict has its fault; a pass is durable; clean means clean; the suite ends |
| experiment session `experiment/session.ts` | gate, client, process of one target | open, close, readable steps | partial failure of open; two closes joined | a failed open leaves nothing or says so |
| fault gate `experiment/fault-gate.ts` | active gate, terminal promise and mode | arm, disarm, abort, send, receive, close, disconnect | reader, write continuation, `setImmediate`, termination and the lease's owner race | one terminal operation; evidence matches what the client saw; every lease settles |
| settle oracle `oracle/settle.ts` | sample evidence, streak, transitions | `settleProbe` | late timers, answers that race the deadline, confirmation after the window | the verdict rests on what was read, in time, and after the window |
| outbound writer `transport/serialized-writer.ts` | pending queue, active write, queued bytes, finish promise | send, finish, abort, stream events | backpressure and callback in either order, failure with a full queue | order, exact accounting, a receipt means written |
| receive queue `transport/message-queue.ts` | queued items, waiting calls, bytes, terminal error | push, receive, end, fail | end with waiters, limits, failure with items | no stranded call, nothing lost, no reordering |
| raw MCP client `mcp/raw-client.ts` | pending requests, tombstones, explicit identifiers, notifications, terminal error | begin, cancel, read loop, close, listing of tools | timeout, abort, cancel, response and termination race for one request; eviction of tombstones | a request settles once; a late answer is never taken for another request; only a sound catalogue of tools is accepted |
| stdio process transport `transport/stdio-process.ts` | termination stage, exit/close observations, failure | spawn, send, receive, close, disconnect | close event against each escalation step; end of output before spawn | *confirmed* only if exit and close were observed with stdio attached |
| NDJSON decoder `transport/ndjson-decoder.ts` | partial frame, totals | pushEach, finish | a frame split over chunks at any byte | same frames for every chunking |
| probe reader `oracle/probe.ts`, `json-pointer.ts` | none | read, resolve a pointer | malformed values | only a safe integer is an effect |
| run expansion `experiment/arguments.ts` | none | `expandRun` | nested templates | only placeholders change |
| scenario loading `config/*` | none | parse, validate, policy | file replaced during the read | the runner gets only a valid scenario |
| report `report/report.ts` | none | render, redact | size limits | status as in the suite |
| command line, report file `cli/*` | signal state, exit code, the reserved file and its identity | run, validate; reserve, commit, discard | signal during the commit; a directory that others change; a failing file operation; a crash | exit code and report agree; an existing file is never overwritten, a file of others never removed |
| diagnostics `domain/*` | none | escape, exit codes | - | - |

The interactions that the models follow: the runner awaits one session call at
a time, each raced against a timer and the abort signal; the client reads
through the fault gate, which wraps the process transport; the process
transport feeds the receive queue, and fails queue and writer together; a close
travels from the runner through client and gate to the process, whose summary
comes back and decides whether another target may be spawned.

## 2. Modules

| module | models | role |
|---|---|---|
| `ExperimentRunner` | `experiment/runner.ts`, `session.ts` as the runner sees it, the scenario rules it relies on | specification and properties |
| `ExperimentRunnerProofs` | | theorems |
| `FaultGate` | `experiment/fault-gate.ts` | specification and properties |
| `FaultGateProofs` | | theorems |
| `SettleProbe` | `oracle/settle.ts` | specification and properties |
| `SettleProbeProofs` | | theorems |
| `SerializedWriter` | `transport/serialized-writer.ts` | specification and properties |
| `SerializedWriterProofs` | | theorems, with the refinement of `OrderedDelivery` |
| `OrderedDelivery` | what a sender may rely on | abstract specification |
| `MessageQueue` | `transport/message-queue.ts`, filled as `stdio-process.ts` fills it | specification and properties |
| `RawClient` | the requests of `mcp/raw-client.ts` | specification and properties |
| `RawClientProofs` | | theorems, with the refinement of `CallContract` |
| `CallContract` | what a user of one connection may rely on | abstract specification |
| `ToolCatalog` | `listTools` and `requireTools` of `mcp/raw-client.ts` | specification and properties |
| `StdioProcess` | `transport/stdio-process.ts` | specification and properties |
| `Session` | `experiment/session.ts` and what ends the gate, over `StdioProcess` | composition and properties |
| `SessionContract` | what the runner may rely on of one session | abstract specification |
| `SessionProofs` | | theorems about `StdioProcess` and `Session`, with the safety part of the refinement of `SessionContract` |
| `NdjsonDecoder` | `transport/ndjson-decoder.ts` | specification and properties |
| `InboundProofs` | | theorems about `MessageQueue`, `NdjsonDecoder` and `ToolCatalog` |
| `RunCommand` | `cli/commands/run.ts` with `cli/exclusive-output.ts` | specification and properties |
| `RunCommandProofs` | | theorems |
| `MC*` | | instances for TLC |

A definition called `X_Something` next to `X` is a variant of `X` with a
plausible bug. It is used by no specification; `PROJECT.json` says which
property it breaks when it takes the place of `X`. It shows that the property
depends on that piece of code.

### ExperimentRunner

One value of `pc` is one awaited call of the runner. A call that looks at the
abort signal before it begins has two phases, `awaiting = FALSE` (about to be
made) and `awaiting = TRUE` (in flight), because an abort between the two is
what `awaitBounded` and `assertNotAborted` distinguish. `After` is the order of
the calls in each strategy; `FirstStep` is the switch of `runStrategy`. `state`
is `MutableExperimentState`; `inHand` is a process held only by a local
variable (being opened, being closed, or used by cleanup). `Failed` and `Fail`
are the catch block of `runSingleExperiment`, `Verdict` is
`concludeFromFinal`, the `Cleanup...` actions are `cleanupExperiment` and the
functions it calls, `RecordResult` is the suite loop with its early end.

Requests, probes and waits return any answer the code tells apart. The target
is external: a process that got an exercise request may raise the effect at any
moment until it dies (`Mutate`), and any process may end by itself (`Crash`). A
reset that answered success may not have reset anything.

The effect is a bounded counter; identifiers, attempts' payloads, timings and
the text of evidence are left out, because no decision of the runner depends on
them beyond the outcome of the call.

### FaultGate

One action is one callback that runs to completion: a call of the lease's owner
(`Arm`, `DisarmSuppression`, `AbortDisconnectGate`), `Send` and the two
continuations of its write, the `setImmediate` callback, the continuation of
the terminal operation, and the three parts of `receive()`: the call, the race
that is won, the continuation that runs later. A message that won the race may
find the transport terminated when its continuation runs; that is the window
the code guards with its second check. The wrapped transport and the target are
modelled by how this file uses them.

### SettleProbe

Time is a number of ticks since the call. Each operation races a timer. Timers
and callbacks run up to `MaxLag` ticks late, and up to `MaxLag` ticks may pass
between two readings of the clock in straight code, so that an answer which
arrives after its deadline can still win against a late timer. The target
evaluates a probe at one moment and the answer arrives at a later one; the
effect may change in between. `history` records everything that was sampled, as
the reference for the incremental evidence of `recordSample`.

### SerializedWriter and OrderedDelivery

`Pump` is the synchronous tail of `send`, of completions and of failures, as in
the code: a step writes the next frame, which may meet backpressure, or may
throw and fail the writer from within. Two variables belong to the stream and
not to the writer: `callbacks` is what the callback of each write said, and
`undrained` the write whose backpressure has not drained. The writer keeps its
own flags in `active`, so that `ReceiptMeansWritten` can compare a receipt with
what really happened. A callback or a drain may come after a failure has
rejected the write; it is then ignored. `OrderedDelivery` states the contract in
five actions; `Delivery` says that the writer implements it, with
`failed <- terminalError`.

### MessageQueue

The process transport fails the queue in the same turn in which `push` throws,
so `PushOverflows` is one action. Messages and calls are numbered by arrival.

### RawClient and CallContract

`calls` lists the requests of one connection with their identifier and how they
were settled; `pending`, `tombstones`, `explicit` and `nextId` are the fields of
the class. One action is one callback: a timer or abort (`TimesOut`, `Cancel`,
both through `Abandon`), the rejection of a write, the reader, the continuation
that parses a result, `close()`. A message that was taken by the reader's race
is handled in a later callback, and the client may have terminated in between.
Of a write only its failure is modelled. A response carries the identifier and,
as a ghost, the request `of` it answers: the target repeats and reorders
answers, answers requests that were given up, and makes up answers to
identifiers that were never used (`of = 0`).

`CallContract` says that each call is settled once, by its own answer, by being
given up or by the end of the connection, and that the end settles all open
calls. `ImplementsContract` says that the client implements it. Two facts are
needed for that: the identifiers of one connection differ, and what terminates
the client empties `pending` in the same turn.

### ToolCatalog

The loop of `listTools` over the pages of the target, which sends any list of
tools with any cursor. `Added` is the inner loop with its two refusals,
`NextPage` the cursor and the page limit. `IsSound` reads the same pages as a
whole: no tool twice, not too many, no cursor twice, and an end within the page
limit. That a page's request may time out or fail is one action here; what a
refusal does to the connection (`#protocolFailure`) is `Terminate` in
`RawClient`.

### StdioProcess

One action is one event or one continuation: the events that `attachListeners`
registers, the outcome of `waitForSpawn`, and the end of each wait of
`#closeInternal` (`closing` names the wait) and of `#abandonStartup`. The child,
its pipes and the operating system are the environment: the direct process dies
at any time or never, its exit is observed later, and either output stays open
for as long as a descendant holds it. A signal is delivered, finds the process
gone, or is refused by the system. Of the two queues and the decoder only the
ends are kept, since their insides are `MessageQueue`, `SerializedWriter` and
`NdjsonDecoder`. `Ready` says that the continuation of a writer that has settled
runs before the next event of the child; the label of an end rests on it.
No data and no error of a stream or of the running child comes before `spawn`,
which Node emits before it first reads from the pipes; an end of the output may
come before it, since the code provides for that (`stdio-process.ts:168`).

`cut` is a ghost: this side took the input away before it had seen the exit.

### Session and SessionContract

`Session` extends `StdioProcess` with the session that uses it. The fault gate
appears through its one terminal operation (`gate`), which is a close of the
transport, a disconnection, or a refused disconnection; its windows are
`FaultGate`. `SessionContract` is what the runner builds on: a session that
opens or not, is closed once, and ends "proven" or "unproven", "proven" only if
the target is dead. In `ExperimentRunner` the same outcomes are the steps
`OpenDone`, `OpenFailed`, `OpenUnproven`, `CloseConfirmed` and `CloseUnproven`.
`KeepsContract` says that session, gate end and process transport together
implement it, including that `open()` and `close()` return.

### NdjsonDecoder

A byte is one of four: LF, CR, a byte of JSON text, a byte that spoils the
frame. `rest` is the part of the current chunk that the loop of `#decodeChunk`
has not reached; `blocks`, `tail` and `capacity` are the accumulator, copied
byte by byte into blocks of bounded size (`Put`). `Line`, `FrameEnds` and
`Unfinished` read the whole output without chunks. The consumer may throw after any frame, as the queue does
when it is full.

### RunCommand

`pc` is the awaited step of `runCommand`, of `commit()` and of `discard()`. The
file system is what the destination path leads to (`slot`), whether the
directory is still the same (`parent`), and what the reserved file contains.
Between any two steps other programs may put something else there, take it away,
put the reserved file back or move the directory; the identity check of
`#reservedPathMatches` is itself two looks in any order. Any file operation may
fail (`failed` records which did), the signal may arrive, and the host may crash,
which leaves content that was not synced in any state. The code syncs the file
and not its directory (`exclusive-output.ts:98`), so a crash may also lose the
name of the reserved file, or bring it back after `discard()` removed it. What
`ExitMatchesReport` says of the disk is therefore about the content.

## 3. Runs

| run | distinct states | what it shows |
|---|---|---|
| `experiment_runner` | 418 128 | safety and verdicts of suites of two experiments, under an adversarial target and an abort at any moment; every suite ends |
| `violation_is_proven` | stops at the violation | a violation can be reported with no proven fault (section 6) |
| `session` | 14 002 | the process transport under a session: true reports, an honest label, no caller left waiting, and the refinement of `SessionContract` |
| `session_released` | stops at the violation | a closed session may never close its transport (section 6) |
| `fault_gate` | 215 496 | one termination, truthful evidence, settled leases, a released reader |
| `settle_probe` | 354 308 | supported, timely, confirmed verdicts, exact evidence, and an end |
| `serialized_writer` | 602 | order, limits, promises backed by what the stream said, `finish()`, and the refinement of `OrderedDelivery` |
| `message_queue` | 1 268 | no stranded call, no loss, no reordering, exact limits |
| `ndjson_decoder` | 117 822 | frames and verdict do not depend on how the output is cut into chunks |
| `raw_client` | 889 610 | requests settle once, in time and by their own answer; late answers are harmless; honest cancellations; `close()` returns; the refinement of `CallContract` |
| `tool_catalog` | 7 344 | exactly the sound catalogues are accepted, in a bounded number of requests |
| `run_command` | 27 385 | exit code and report agree, nothing unpublished is left, files of others are kept |

The properties, by the hazard they are about:

* **Targets.** `AtMostOneTarget`, `NoSilentLeak`, `CrossEpochRetryIsIsolated`,
  `AbortStopsExercise`: whatever order closes, failures and aborts come in, two
  targets never act on one effect, a target that may survive is reported, a
  retry of another epoch starts only when the first epoch is dead, and after an
  abort only cleanup works on.
* **Verdicts.** `VerdictsAreEarned`: a verdict after the seed phase has its
  fault, a pass suite is complete and clean, and every finished suite passes
  the consistency checks of `report.ts` (`ReportAccepts`), which would otherwise
  end the run with an internal error after the fact. Left out are the checks that
  compare a result with itself (identifiers, counts, observed against expected,
  the confirmed process of a clean cleanup). `PassIsDurable`,
  `CleanMeansQuiescent`, `SuiteEnds`.
* **Gate.** `OneTerminalOperation`, `TriggerIsInjected`,
  `EvidenceMatchesWithheld`, and `NobodyWaitsForEver` for leases and reader.
* **Settling.** `EvidenceIsExact` compares the incremental evidence with all of
  `history`; `VerdictIsSupported`, `ConfirmedAfterWindow`, `WindowIsBounded`
  and `Settles` are the promises of `README.md:68-77`.
* **Process.** `ReportsAreHonest`: "confirmed" is said only of a dead process
  whose outputs ended or were given up by a reported failure, "not_started" only
  where there never was one. `LabelIsHonest`: the label of the end says what was
  done, although the exit races every step. `TerminationSettles`: `start()` and
  `close()` return, a failed transport terminates its child unasked, and a
  transport that is over has no caller left. `DisconnectionIsTheCause`: an end
  is called a disconnection only if this side cut the pipes of a live transport.
  `KeepsContract`.
* **Transport.** `AccountingIsExact` and `BooksBalance` (the limits and the
  books of writer and queue), `ReceiptsAreEvidence`, `FinishSettles`,
  `Delivery`, `NoStrandedReceiver`, `NothingLost`, `RejectsOnlyWhenDrained`,
  `ChunkingIsIrrelevant`.
* **Client.** `RequestsAreTracked` ties the promise of a request to its entry
  in `#pending`, and the cancellations sent to the requests given up;
  `LateAnswersAreHarmless` states what the tombstones are for, and exactly when
  their eviction ends that protection; `ImplementsContract`,
  `EverythingSettles`, `CatalogIsWhole`.
* **Report file.** `ExitMatchesReport`, `NothingIsLeft`, `OthersAreKept`. The
  last two name their exceptions, which the code cannot avoid: `discard()`
  removes by name what it identified one step earlier, and a failing look leaves
  the file behind.

### Bounds

* Runner: suites of two experiments cover each experiment in first or second
  place, every persistence the schema accepts, and the boundary between two
  experiments, which is all the suite loop carries over (`halted`, the abort,
  the effect and a live process). Two process identities are enough to have a
  second target beside a first; an identity is used again once its process is
  dead. Effects `0..2` contain the baseline, the expected value and a value
  that is neither. Symmetry over processes is used where only safety is
  checked.
* Gate: two gates on one transport (a second is armed after the first gave up
  its place) and three messages, so that a guarded response, a duplicate of it
  and an unrelated one can be in flight together.
* Settling: a window of four ticks, a request budget of two, one tick of lag,
  two equal samples for stability, three retained samples (so that samples are
  dropped) and two changes of the effect (there and back).
* Writer: five sends, frames of two or three bytes, at most three messages and
  seven bytes: either limit is reached first, depending on the sizes. A frame is
  at least two bytes since it carries its newline.
* Client: three requests with room for two tombstones, so that the first is
  evicted; numbers up to two, so that they run out, and one string.
* Catalogue: four tools on up to three pages of at most two, of which three are
  too many for the limit; three cursors, so that the page limit is reached with
  and without a repeated one.
* Decoder: every output of up to eight bytes in chunks of up to five, frames of
  at most three bytes in blocks of two: a frame spans up to two blocks and three
  chunks, and each limit is met exactly and exceeded by one, with and without CR.
* Process and session: one process and one session, no bound at all.
* Report file: two changes by others, which is enough to take the file away and
  put it, or another one, back.
* Queue: six messages of one or two bytes, seven calls, room for three
  messages, four bytes and two waiting calls.

### Fairness

* `ExperimentRunner`: weak fairness of the runner as a whole. Every call it
  awaits is raced against a timer (`timeouts.requestMs`, the settle deadline,
  `shutdownMs`), so an awaited call always returns; nothing is assumed of the
  target or of the abort. `SuiteEnds` thus says that the graph of the strategies
  and of cleanup has no cycle and no dead end. That the calls do return is a
  matter of the components: `Settles` for the oracle, `EverythingSettles` for
  requests, `KeepsContract` for `open()` and `close()` of a session.
* `FaultGate`: weak fairness of the callbacks (promise continuations,
  `setImmediate`, the bounded termination of the process) and of the reader,
  which the client's read loop calls again until it fails. None of the target
  or of the lease's owner.
* `SettleProbe`: weak fairness of the timers' callbacks and of the clock; the
  target need never answer.
* `SerializedWriter`: weak fairness of an active write making progress. The
  process transport gives `finish()` `shutdownMs` to settle and otherwise
  aborts the writer and destroys the stream (`stdio-process.ts:310-320`), so
  an active write always ends. Nothing is assumed of an idle stream.
* `Session`: weak fairness of `start()` and of the waits of `#closeInternal` and
  `#abandonStartup`, each of which has a timer; of `open()`, whose requests are
  bounded by their timeouts (`session.ts:79-84`); and of the continuation that
  joins client and gate. None of the child, of its streams or of whoever holds
  them; nobody has to close an open session.
* `RawClient`: weak fairness of the continuations, and of the requests' timers
  together with the parsing of results; `close()` of the transport is bounded by
  `shutdownMs`. The target need never answer, and a write may hang.
* `NdjsonDecoder`, `ToolCatalog`, `RunCommand`: safety only.
* `MessageQueue`: safety only; nothing obliges a sender or a receiver to act.
  Deadlock is not checked there, since a bounded number of pushes and calls is
  used up in the end.

## 4. Proofs

All constants are arbitrary within the named assumptions of each module: any
number of processes, requests, messages, sends and samples, any limits and any
scenario the schema accepts. The inductive invariants named here were checked by
TLC on the instances of section 3 before they were proved.

**ExperimentRunnerProofs** proves `TypeOK`, `AtMostOneTarget`, `NoSilentLeak`,
`PassIsDurable`, `CleanMeansQuiescent`, `AbortStopsExercise`,
`CrossEpochRetryIsIsolated` and `VerdictsAreEarned` for every scenario the schema
accepts, any set of processes and any oracle whose two values differ. None of
the invariants is inductive. *Control* says that a process is held by the
session or by a local variable and never by both; *Ownership*, that while
spawning is allowed every live process is held; *Halting*, that an unproven
termination leads straight to failed cleanup; *Quiet*, that nothing that was
asked to change the effect survives into the cleanup of external state. The
argument is that a spawn requires the right to spawn, the right to spawn implies
that all live processes are held, and at each step that spawns nothing is held.

The verdicts take three more parts. *Isolated*: after a boundary the only live
process is the reopened one, which is new, because closing is what leads to the
second open. *Proven*: the evidence names the experiment that runs and is on
record before either final observation (`After` has only four ways there, and
each sets it first); cleanup can only overturn a pass by another verdict on the
same effect; a pass has an open session behind it, so that its cleanup is never
skipped. *Recorded*: the results are those of the first experiments of the
scenario, in order. The status of the suite is counted in one place and
recomputed from the results in another; `CountMeansSome` is the lemma that both
agree.

**FaultGateProofs** proves `OneTerminalOperation`, `TriggerIsInjected` and
`EvidenceMatchesWithheld` for any number of gates and messages. The invariant
ties the wrapped transport, the mode and the one terminal operation to each
other (`TerminationInv`), says what an active gate excludes (`ActiveInv`), which
fields each kind of gate uses (`KindInv`), and that a confirmed disconnection is
one that this gate began and that succeeded (`ConfirmedInv`).

**SerializedWriterProofs** proves `AccountingIsExact`, `ReceiptsAreEvidence` and
the refinement `Delivery` for all limits, frame sizes and numbers of sends. While
the writer is alive, the promises and the pending queue are a function of how far
the stream has got (`Live`: what was written is resolved or active, what follows
is queued in turn); a failed writer holds nothing (`Failed`), a finished one has
nothing left (`Finished`). `Heard` ties the two flags of the active write to what
the stream said: they agree with it while the writer is alive, and what comes for
a settled write changes nothing else. The bytes are counted as a set, one element per byte
of a frame, so that the count after a step follows from the cardinality of a
union. For the refinement each callback is one step of the contract or none; the
synchronous `Pump`, which may write, meet backpressure or throw, is one lemma.

**InboundProofs** proves, of the receive queue and for all limits, that no limit
is exceeded, that no call waits while there is something to receive or after the
end, that a call is rejected only when nothing is left, that every message is
delivered or queued in order, and that the books balance: the bytes counted are
those of the messages held (`Counted`), and the calls made are served, rejected
or waiting, each in one of the three and served in the order they were made
(`Turns`). The invariant adds that a failed queue is empty, and that what was delivered followed
by what is queued is an initial segment of the arrivals.

The same module proves `ChunkingIsIrrelevant` for every output, every way to cut
it into chunks and all limits, and `CatalogIsWhole` for any number of pages and
tools. Both compare what loops computed with a reading of all that was received,
so the work is in three loops: the one of `#append` over the bytes of a segment,
the one of `listTools` over the tools of a page, and `FlattenSeq`'s. `LoopExists`
says that a function which follows a given step exists, so that the recursive
function of the model is one; what holds after each turn is proved with
`SetInduction`: a set that holds 0 and the successors of its members holds every
number (from `LeastExists`, which rests on the library's well-foundedness of
`<`). Theorems of the library that take the claim as an operator are not needed.

* Of the decoder: what `Put` does to a byte and `Appended` to a segment
  (`PutHolds`, `AppendedHolds`: what is held grows by exactly that, and the
  blocks stay sound); what a chunk of output means for its lines (`LineGrows`,
  `LineEnds`, `NoNewLine`, `OneMoreLine`); and that `FrameFits`, which sees one
  segment, decides about the whole line (`FitsMeans`). `DecoderInv` adds to the
  property the types, and that the rest of a chunk is dropped once the decoder or
  its consumer is done; then one lemma per action.
* Of the catalogue: `AddedIsWhole` (the loop over a page refuses it exactly when
  the tools of all pages so far would not be fine) and `PageAdded` (what one more
  page does to the whole). `CatalogInv` adds that the client's tools, page number
  and cursors are those of the pages it got.

**SettleProbeProofs** proves, for every window, budget, lag and streak length,
that a stable result rests on `StableSamples` equal reads in a row and is in
time, that a full observation is confirmed by a read that began after the
window and reports an effect at rest, that the whole call takes at most the
window, one budget and the lag of two callbacks, and that the evidence is exact.
The invariant *Clock* bounds how late each point of the loop is reached;
*AnswerIsCurrent* says that an answer on its way differs from the effect only if
the effect changed since the read began; *StreakIsRecorded* ties the counted
streak to what was recorded. For `EvidenceIsExact` each of the four counters of
`recordSample` (the retained samples, the current and the longest streak, the
transitions) is shown to keep its meaning over the whole history when one sample
is added, including when the sample pushes another out.

**RawClientProofs** proves `RequestsAreTracked`, `LateAnswersAreHarmless` and the
refinement `ImplementsContract` for any number of requests and tombstones. The
invariant: the open requests are exactly those found under their identifiers
(`Tracked`), identifiers are never used twice (`FreshInv`), the tombstones are
those of the requests settled last (`TombstonesInv`), an answer that the reader
has taken names a request of this connection (`TakenInv`), and a terminated
client has nothing pending (`Boundary`). A late answer to a request whose
tombstone is still there is dropped; if it ends the client, the tombstone was
evicted, and `TombstonesInv` then counts how many were settled since. The
refinement rests on the same facts: an entry of `#pending` belongs to one request,
so what is settled through it is settled once.

**SessionProofs** proves of `StdioProcess` that `ReportsAreHonest` and
`LabelIsHonest` hold and that a transport that is over leaves nobody waiting
(`ClosedIsSilent`, a part of `TerminationSettles`), and of `Session` that
`DisconnectionIsTheCause` holds and that it takes only steps of
`SessionContract` (its `Safety`, that is `KeepsContract` without the fairness).
The summary is written once, from `closeObserved`, `exitObserved` and
`stdioDetached` of that moment, while the claims are about the process and the
pipes. The invariant adds what ties them: an exit is observed only of a dead
process, and a close event comes only after it or where there was no process
(`EventsAreReal`); an output that this side destroyed means a failure or
detachment, and after a close event neither output is open
(`StreamsAreExplained`); a summary that confirms rests on both events
(`ResultIsSupported`). For the label, `Untouched` says that a termination still
called natural has lost its input only for the moment before `close()` goes on, `Labelled` what each stage of the
escalation implies about the signals, `Silenced` what each end leaves of the two
queues, `Started` and `Abandoned` what an unfinished or abandoned start excludes.
`SessionUsesTransport` shows that every step of the session is a step of the
transport or leaves it alone, so that all of this carries over to the
composition; `Disconnected` then relates the gate's terminal operation to the
stage of the close.

**RunCommandProofs** proves `ExitMatchesReport`, `NothingIsLeft` and
`OthersAreKept` for any number of changes by others. The invariant says, for
each step of the command, what is already written, synced and published
(`WrittenInv`), which exit code is still possible (`ExitInv`), that what the
identity check found can only have been made stale by a later change of others
(`SeenInv`), and that without such changes the file is still where it was put
(`PlaceInv`).

**Model-checked only.** Liveness under fairness (`SuiteEnds`,
`NobodyWaitsForEver`, `Settles`, `FinishSettles`, `EverythingSettles`, the three
leads-to parts of `TerminationSettles`, and the fairness of `KeepsContract`),
which is outside what TLAPS proves. Every other property of a passing run is
stated by a theorem.

## 5. Not modelled

* Of the process transport: the environment allowlist and the checks of options
  before the spawn, which are pure, and the bounded tail of the error output,
  which no decision reads.
* Of the raw client: the buffer of recent notifications, which nothing in the
  program reads, and its listeners; `discover()`, one request and two checks;
  the wording of errors. A listener that calls back into the client from inside
  a message is not modelled.
* The composition of gate and client. The gate's effect on a request is an
  outcome of the runner's steps (`SeedSuppressed`, `Disconnected`, ...), and both
  sides are checked against everything the other can do.
* Rendering, redaction, argument parsing, schema parsing, path and launcher
  policy, template expansion, JSON pointers, diagnostics: pure functions that
  keep no state between calls and race nothing. The rules of the schema that the
  runner relies on are assumptions of `ExperimentRunner`.
* Example server and packaging scripts: not part of the program.

## 6. Disagreements between code and documentation

**A violation without a proven fault.** `README.md:297` says "**Violation** means
a proven experiment settled at a value different from its expected oracle."
`verifySeedEffect` (`runner.ts:732`) reports a violation of the `seed_effect`
phase and ends the strategy before the retry, while the fault of the retry
strategies is only recorded as proven after the retry (`runner.ts:294`, `315`,
`337`). The run `violation_is_proven` reaches a violation whose fault evidence
is `not_proven`. `VerdictsAreEarned` states what does hold of the other
verdicts.

**A close that never closes.** `README.md:276` says "`SIGINT` and `SIGTERM`
request bounded cleanup and return exit code `130`." When an armed gate
disconnects, or a gate that is armed is closed, after the exit of the direct
process was observed but while a descendant still holds its output,
`disconnect()` throws (`stdio-process.ts:205`). The gate keeps that rejection as
its one terminal operation (`fault-gate.ts:288`) and returns it from every later
`close()` (`fault-gate.ts:252-258`), so `inner.close()` is never called. The
session correctly reports an unproven termination (`KeepsContract` holds, and the
suite halts), but the pipes stay open until the descendant lets go; `main.ts`
only sets `process.exitCode`, so the open pipes keep halfack itself running. The
run `session_released` shows a session that is closing while its transport never
closes.

## 7. Plan

Done: all modules of section 2 and the proofs of section 4.

1. The composition of gate and client: suppression and disconnection as a
   pending request sees them.
2. Templates and JSON pointers as functions against reference definitions.
