---------------------------- MODULE SessionProofs ----------------------------
(***************************************************************************)
(* What the process transport reports of its direct process is true, the   *)
(* label of its end says what was done, and a session that uses it names   *)
(* a disconnection only where it cut the pipes and opens and closes as     *)
(* SessionContract promises.  All of it holds for every order of the       *)
(* child's events, the timers and the callers.                             *)
(*                                                                         *)
(* The invariant of the transport relates the observed events to the       *)
(* process, each stream to the reason it was closed for, and the stage of  *)
(* the close to the label it ends with.  A step of the session is a step   *)
(* of the transport or leaves it alone, so that the invariant carries over *)
(* (SessionUsesTransport).                                                 *)
(***************************************************************************)
EXTENDS Session, TLAPS

(* An exit is observed of a dead process only, and the close event comes after
   the exit, or without a process. *)
EventsAreReal ==
  /\ exitSeen => process = "dead"
  /\ closeSeen => exitSeen \/ process = "absent"

(* Who closed a stream: the child, or the transport for a failure or to let go
   of it.  The close event comes after both. *)
StreamsAreExplained ==
  /\ stdout = "destroyed" \/ stderr = "destroyed" => failure \/ detached
  /\ closeSeen => stdout # "open" /\ stderr # "open"

(* A summary has a verdict, and a confirmation rests on both events. *)
ResultIsSupported ==
  /\ Settled => result.direct # "none"
  /\ result.direct = "confirmed" => closeSeen /\ exitSeen

IndInv ==
  /\ TypeOK
  /\ EventsAreReal /\ StreamsAreExplained
  /\ ResultIsSupported /\ ReportIsTrue

LEMMA InitIsGood == Init => IndInv
<1> SUFFICES ASSUME Init PROVE IndInv
  OBVIOUS
<1> USE DEF Init, NoResult, Settled
<1>1. TypeOK
  BY DEF TypeOK, Streams, Labels, Stages
<1>2. EventsAreReal /\ StreamsAreExplained /\ ResultIsSupported
  BY DEF EventsAreReal, StreamsAreExplained, ResultIsSupported
<1>3. ReportIsTrue
  BY DEF ReportIsTrue
<1> QED
  BY <1>1, <1>2, <1>3 DEF IndInv

(* What the shared parts of the handlers leave well typed. *)
IoTypes ==
  /\ failure \in BOOLEAN /\ cut \in BOOLEAN /\ stdout \in Streams
  /\ inbound \in {"open", "ended", "failed"}
  /\ writer \in {"open", "finishing", "drained", "failed"}

ClosingType == closing \in Stages /\ (start # "done" => closing = "none")

LEMMA AbortTypes ==
  ASSUME TypeOK, NEW out \in Streams, AbortLocalIo(out)
  PROVE  IoTypes'
<1>1. failure' \in BOOLEAN /\ cut' \in BOOLEAN
  BY Zenon DEF AbortLocalIo
<1>2. inbound' \in {"open", "ended", "failed"} /\ stdout' \in Streams
  BY DEF TypeOK, AbortLocalIo, Terminal, Streams
<1>3. writer' \in {"open", "finishing", "drained", "failed"}
  BY DEF TypeOK, AbortLocalIo, Aborted
<1> QED
  BY <1>1, <1>2, <1>3 DEF IoTypes

LEMMA FailTypes ==
  ASSUME TypeOK, start' = start, NEW out \in Streams, Fail(out)
  PROVE  IoTypes' /\ ClosingType'
<1>1. CASE failure
  BY <1>1 DEF Fail, TypeOK, IoTypes, ClosingType
<1>2. CASE ~failure
  BY <1>2, AbortTypes DEF Fail, TypeOK, ClosingType, Cleanup, Stages
<1> QED
  BY <1>1, <1>2

LEMMA FinalizeTypes ==
  ASSUME TypeOK, start' = start, NEW out \in Streams, FinalizeStdout(out)
  PROVE  IoTypes' /\ ClosingType' /\ finalized' \in BOOLEAN
<1>1. CASE finalized \/ failure
  BY <1>1 DEF FinalizeStdout, TypeOK, IoTypes, ClosingType
<1>2. CASE ~(finalized \/ failure) /\ Fail(out)
  BY <1>2, FailTypes DEF FinalizeStdout
<1>3. CASE ~(finalized \/ failure) /\ ~Fail(out)
  BY <1>3
  DEF FinalizeStdout, TypeOK, IoTypes, ClosingType, Terminal, Cleanup, Finished,
      Stages
<1> QED
  BY <1>1, <1>2, <1>3

LEMMA SettleTypes ==
  ASSUME TypeOK, termination' \in Labels, SettleProcessClose
  PROVE  result' \in [direct : {"none", "confirmed", "unconfirmed"},
                     label : Labels]
BY DEF TypeOK, SettleProcessClose

(* A verdict is reached once, and is a confirmation only of what was seen. *)
LEMMA SettleVerdict ==
  ASSUME TypeOK, ResultIsSupported, SettleProcessClose
  PROVE  /\ result'.direct # "none"
         /\ result'.direct = "confirmed" =>
              \/ result.direct = "confirmed"
              \/ closeSeen' /\ exitSeen' /\ ~detached'
<1>1. CASE Settled
  BY <1>1 DEF SettleProcessClose, ResultIsSupported
<1>2. CASE ~Settled
  BY <1>2 DEF SettleProcessClose
<1> QED
  BY <1>1, <1>2

(* stdout is never reopened, and destroyed only for a failure. *)
LEMMA FinalizeStreams ==
  ASSUME TypeOK, FinalizeStdout(stdout)
  PROVE  /\ failure => failure'
         /\ stdout' = stdout
              \/ (stdout = "open" /\ stdout' = "destroyed" /\ failure')
BY DEF TypeOK, FinalizeStdout, Fail, AbortLocalIo

LEMMA StartingIsGood ==
  ASSUME IndInv, Starting
  PROVE  IndInv'
<1> USE DEF childVars, eventVars, startVars, ioVars, endVars
<1>0. TypeOK /\ EventsAreReal /\ StreamsAreExplained /\ ResultIsSupported
        /\ ReportIsTrue
  BY DEF IndInv
<1> USE <1>0 DEF TypeOK
<1>1. CASE SpawnSeen
  <2> USE <1>1 DEF SpawnSeen, Finished
  <2>1. TypeOK'
    BY DEF Streams, Labels, Stages
  <2>2. EventsAreReal' /\ StreamsAreExplained'
    BY DEF EventsAreReal, StreamsAreExplained
  <2>3. ResultIsSupported' /\ ReportIsTrue'
    BY DEF EventsAreReal, StreamsAreExplained, ResultIsSupported, ReportIsTrue,
           Settled, NoResult
  <2> QED
    BY <2>1, <2>2, <2>3 DEF IndInv
<1>2. CASE SpawnFailsOrAborts
  <2> USE <1>2 DEF SpawnFailsOrAborts, AbandonStartup
  <2>1. TypeOK'
    BY AbortTypes DEF Streams, Labels, Stages, IoTypes, ClosingType
  <2>2. EventsAreReal' /\ StreamsAreExplained'
    BY DEF AbortLocalIo, Terminal, Aborted, EventsAreReal, StreamsAreExplained
  <2>3. ResultIsSupported' /\ ReportIsTrue'
    BY DEF AbortLocalIo, Terminal, Aborted, EventsAreReal, StreamsAreExplained,
           ResultIsSupported, ReportIsTrue, Settled, NoResult
  <2> QED
    BY <2>1, <2>2, <2>3 DEF IndInv
<1>3. CASE SpawnTimesOut
  <2> USE <1>3 DEF SpawnTimesOut, AbandonStartup
  <2>1. TypeOK'
    BY AbortTypes DEF Streams, Labels, Stages, IoTypes, ClosingType
  <2>2. EventsAreReal' /\ StreamsAreExplained'
    BY DEF AbortLocalIo, Terminal, Aborted, EventsAreReal, StreamsAreExplained
  <2>3. ResultIsSupported' /\ ReportIsTrue'
    BY DEF AbortLocalIo, Terminal, Aborted, EventsAreReal, StreamsAreExplained,
           ResultIsSupported, ReportIsTrue, Settled, NoResult
  <2> QED
    BY <2>1, <2>2, <2>3 DEF IndInv
<1>4. CASE AbandonTimeout
  <2> USE <1>4 DEF AbandonTimeout, LetGo
  <2>1. TypeOK'
    BY DEF Streams, Labels, Stages
  <2>2. EventsAreReal' /\ StreamsAreExplained'
    BY DEF EventsAreReal, StreamsAreExplained
  <2>3. ResultIsSupported' /\ ReportIsTrue'
    BY DEF EventsAreReal, StreamsAreExplained, ResultIsSupported, ReportIsTrue,
           Settled, NoResult
  <2> QED
    BY <2>1, <2>2, <2>3 DEF IndInv
<1>5. CASE AbandonReleaseTimeout
  <2> USE <1>5 DEF AbandonReleaseTimeout, Report
  <2>1. TypeOK'
    BY SettleTypes DEF Streams, Labels, Stages
  <2>2. EventsAreReal' /\ StreamsAreExplained'
    BY DEF SettleProcessClose, EventsAreReal, StreamsAreExplained
  <2>3. ResultIsSupported' /\ ReportIsTrue'
    <3>1. ResultIsSupported'
      BY SettleVerdict DEF ResultIsSupported
    <3>2. result'.direct = "confirmed" =>
            process' = "dead" /\ exitSeen'
              /\ (failure' \/ (stdout' = "ended" /\ stderr' = "ended"))
      BY SettleVerdict
      DEF EventsAreReal, StreamsAreExplained, ReportIsTrue, Streams
    <3> QED
      BY <2>1, <3>1, <3>2 DEF ReportIsTrue
  <2> QED
    BY <2>1, <2>2, <2>3 DEF IndInv
<1>6. CASE AbandonReturns
  <2> USE <1>6 DEF AbandonReturns, Report
  <2>1. TypeOK'
    BY DEF Streams, Labels, Stages
  <2>2. EventsAreReal' /\ StreamsAreExplained'
    BY DEF EventsAreReal, StreamsAreExplained
  <2>3. ResultIsSupported' /\ ReportIsTrue'
    BY DEF EventsAreReal, StreamsAreExplained, ResultIsSupported, ReportIsTrue,
           Settled, NoResult
  <2> QED
    BY <2>1, <2>2, <2>3 DEF IndInv
<1> QED
  BY <1>1, <1>2, <1>3, <1>4, <1>5, <1>6 DEF Starting

LEMMA EventsAreGood ==
  ASSUME IndInv, Events
  PROVE  IndInv'
<1> USE DEF childVars, eventVars, startVars, ioVars, endVars
<1>0. TypeOK /\ EventsAreReal /\ StreamsAreExplained /\ ResultIsSupported
        /\ ReportIsTrue
  BY DEF IndInv
<1> USE <1>0 DEF TypeOK
<1>1. CASE Dies
  <2> USE <1>1 DEF Dies
  <2>1. TypeOK'
    BY DEF Streams, Labels, Stages
  <2>2. EventsAreReal' /\ StreamsAreExplained'
    BY DEF EventsAreReal, StreamsAreExplained
  <2>3. ResultIsSupported' /\ ReportIsTrue'
    BY DEF EventsAreReal, StreamsAreExplained, ResultIsSupported, ReportIsTrue,
           Settled, NoResult
  <2> QED
    BY <2>1, <2>2, <2>3 DEF IndInv
<1>2. CASE ExitSeen
  <2> USE <1>2 DEF ExitSeen
  <2>1. TypeOK'
    BY DEF Streams, Labels, Stages
  <2>2. EventsAreReal' /\ StreamsAreExplained'
    BY DEF EventsAreReal, StreamsAreExplained
  <2>3. ResultIsSupported' /\ ReportIsTrue'
    BY DEF EventsAreReal, StreamsAreExplained, ResultIsSupported, ReportIsTrue,
           Settled, NoResult
  <2> QED
    BY <2>1, <2>2, <2>3 DEF IndInv
<1>3. CASE BadOutput
  <2> USE <1>3 DEF BadOutput
  <2>1. TypeOK'
    BY FailTypes DEF Streams, Labels, Stages, IoTypes, ClosingType
  <2>2. EventsAreReal' /\ StreamsAreExplained'
    BY DEF Fail, AbortLocalIo, Terminal, Aborted, Cleanup, EventsAreReal,
           StreamsAreExplained
  <2>3. ResultIsSupported' /\ ReportIsTrue'
    BY DEF Fail, AbortLocalIo, Terminal, Aborted, Cleanup, EventsAreReal,
           StreamsAreExplained, ResultIsSupported, ReportIsTrue, Settled,
             NoResult
  <2> QED
    BY <2>1, <2>2, <2>3 DEF IndInv
<1>4. CASE StdoutEnds
  <2> USE <1>4 DEF StdoutEnds, Finished
  <2>1. TypeOK'
    BY FinalizeTypes DEF Streams, Labels, Stages, IoTypes, ClosingType
  <2>2. EventsAreReal' /\ StreamsAreExplained'
    BY DEF FinalizeStdout, Fail, AbortLocalIo, Terminal, Aborted, Cleanup,
           EventsAreReal, StreamsAreExplained
  <2>3. ResultIsSupported' /\ ReportIsTrue'
    BY DEF FinalizeStdout, Fail, AbortLocalIo, Terminal, Aborted, Cleanup,
           EventsAreReal, StreamsAreExplained, ResultIsSupported, ReportIsTrue,
           Settled, NoResult
  <2> QED
    BY <2>1, <2>2, <2>3 DEF IndInv
<1>5. CASE StdoutCloses
  <2> USE <1>5 DEF StdoutCloses, Finished
  <2>1. TypeOK'
    BY FinalizeTypes DEF Streams, Labels, Stages, IoTypes, ClosingType
  <2>2. EventsAreReal' /\ StreamsAreExplained'
    BY DEF FinalizeStdout, Fail, AbortLocalIo, Terminal, Aborted, Cleanup,
           EventsAreReal, StreamsAreExplained
  <2>3. ResultIsSupported' /\ ReportIsTrue'
    BY DEF FinalizeStdout, Fail, AbortLocalIo, Terminal, Aborted, Cleanup,
           EventsAreReal, StreamsAreExplained, ResultIsSupported, ReportIsTrue,
           Settled, NoResult
  <2> QED
    BY <2>1, <2>2, <2>3 DEF IndInv
<1>6. CASE StdoutFails
  <2> USE <1>6 DEF StdoutFails
  <2>1. TypeOK'
    BY FailTypes DEF Streams, Labels, Stages, IoTypes, ClosingType
  <2>2. EventsAreReal' /\ StreamsAreExplained'
    BY DEF Fail, AbortLocalIo, Terminal, Aborted, Cleanup, EventsAreReal,
           StreamsAreExplained
  <2>3. ResultIsSupported' /\ ReportIsTrue'
    BY DEF Fail, AbortLocalIo, Terminal, Aborted, Cleanup, EventsAreReal,
           StreamsAreExplained, ResultIsSupported, ReportIsTrue, Settled,
             NoResult
  <2> QED
    BY <2>1, <2>2, <2>3 DEF IndInv
<1>7. CASE StderrEnds
  <2> USE <1>7 DEF StderrEnds
  <2>1. TypeOK'
    BY DEF Streams, Labels, Stages
  <2>2. EventsAreReal' /\ StreamsAreExplained'
    BY DEF EventsAreReal, StreamsAreExplained
  <2>3. ResultIsSupported' /\ ReportIsTrue'
    BY DEF EventsAreReal, StreamsAreExplained, ResultIsSupported, ReportIsTrue,
           Settled, NoResult
  <2> QED
    BY <2>1, <2>2, <2>3 DEF IndInv
<1>8. CASE StderrFails
  <2> USE <1>8 DEF StderrFails
  <2>1. TypeOK'
    BY FailTypes DEF Streams, Labels, Stages, IoTypes, ClosingType
  <2>2. EventsAreReal' /\ StreamsAreExplained'
    BY DEF Fail, AbortLocalIo, Terminal, Aborted, Cleanup, EventsAreReal,
           StreamsAreExplained
  <2>3. ResultIsSupported' /\ ReportIsTrue'
    BY DEF Fail, AbortLocalIo, Terminal, Aborted, Cleanup, EventsAreReal,
           StreamsAreExplained, ResultIsSupported, ReportIsTrue, Settled,
             NoResult
  <2> QED
    BY <2>1, <2>2, <2>3 DEF IndInv
<1>9. CASE ChildFails
  <2> USE <1>9 DEF ChildFails
  <2>1. TypeOK'
    BY FailTypes DEF Streams, Labels, Stages, IoTypes, ClosingType
  <2>2. EventsAreReal' /\ StreamsAreExplained'
    BY DEF Fail, AbortLocalIo, Terminal, Aborted, Cleanup, EventsAreReal,
           StreamsAreExplained
  <2>3. ResultIsSupported' /\ ReportIsTrue'
    BY DEF Fail, AbortLocalIo, Terminal, Aborted, Cleanup, EventsAreReal,
           StreamsAreExplained, ResultIsSupported, ReportIsTrue, Settled,
             NoResult
  <2> QED
    BY <2>1, <2>2, <2>3 DEF IndInv
<1>10. CASE ChildCloses
  <2> USE <1>10 DEF ChildCloses, Finished
  <2>1. TypeOK'
    BY FinalizeTypes, SettleTypes
    DEF Streams, Labels, Stages, IoTypes, ClosingType
  <2>2. EventsAreReal' /\ StreamsAreExplained'
    BY DEF FinalizeStdout, SettleProcessClose, Fail, AbortLocalIo, Terminal,
           Aborted, Cleanup, EventsAreReal, StreamsAreExplained
  <2>3. ResultIsSupported' /\ ReportIsTrue'
    BY SettleVerdict, FinalizeStreams
   
    DEF EventsAreReal, StreamsAreExplained, ResultIsSupported, ReportIsTrue,
        Settled, Streams
  <2> QED
    BY <2>1, <2>2, <2>3 DEF IndInv
<1>11. CASE WriterDrains
  <2> USE <1>11 DEF WriterDrains
  <2>1. TypeOK'
    BY DEF Streams, Labels, Stages
  <2>2. EventsAreReal' /\ StreamsAreExplained'
    BY DEF EventsAreReal, StreamsAreExplained
  <2>3. ResultIsSupported' /\ ReportIsTrue'
    BY DEF EventsAreReal, StreamsAreExplained, ResultIsSupported, ReportIsTrue,
           Settled, NoResult
  <2> QED
    BY <2>1, <2>2, <2>3 DEF IndInv
<1>12. CASE WriterFails
  <2> USE <1>12 DEF WriterFails
  <2>1. TypeOK'
    BY DEF Streams, Labels, Stages
  <2>2. EventsAreReal' /\ StreamsAreExplained'
    BY DEF EventsAreReal, StreamsAreExplained
  <2>3. ResultIsSupported' /\ ReportIsTrue'
    BY DEF EventsAreReal, StreamsAreExplained, ResultIsSupported, ReportIsTrue,
           Settled, NoResult
  <2> QED
    BY <2>1, <2>2, <2>3 DEF IndInv
<1> QED
  BY <1>1, <1>2, <1>3, <1>4, <1>5, <1>6, <1>7, <1>8, <1>9, <1>10, <1>11, <1>12
  DEF Events

LEMMA ClosingIsGood ==
  ASSUME IndInv, Close \/ Disconnect \/ Closing
  PROVE  IndInv'
<1> USE DEF childVars, eventVars, startVars, ioVars, endVars
<1>0. TypeOK /\ EventsAreReal /\ StreamsAreExplained /\ ResultIsSupported
        /\ ReportIsTrue
  BY DEF IndInv
<1> USE <1>0 DEF TypeOK
<1>1. CASE Close
  <2> USE <1>1 DEF Close, Finished
  <2>1. TypeOK'
    BY DEF Streams, Labels, Stages
  <2>2. EventsAreReal' /\ StreamsAreExplained'
    BY DEF EventsAreReal, StreamsAreExplained
  <2>3. ResultIsSupported' /\ ReportIsTrue'
    BY DEF EventsAreReal, StreamsAreExplained, ResultIsSupported, ReportIsTrue,
           Settled, NoResult
  <2> QED
    BY <2>1, <2>2, <2>3 DEF IndInv
<1>2. CASE Disconnect
  <2> USE <1>2 DEF Disconnect, Disconnectable
  <2>1. TypeOK'
    BY AbortTypes DEF Streams, Labels, Stages, IoTypes, ClosingType, Cleanup
  <2>2. EventsAreReal' /\ StreamsAreExplained'
    BY DEF Cleanup, AbortLocalIo, Terminal, Aborted, EventsAreReal,
           StreamsAreExplained
  <2>3. ResultIsSupported' /\ ReportIsTrue'
    BY DEF Cleanup, AbortLocalIo, Terminal, Aborted, EventsAreReal,
           StreamsAreExplained, ResultIsSupported, ReportIsTrue, Settled,
             NoResult
  <2> QED
    BY <2>1, <2>2, <2>3 DEF IndInv
<1>3. CASE Drained
  <2> USE <1>3 DEF Drained, Ready, EndInput
  <2>1. TypeOK'
    <3>1. cut' \in BOOLEAN
      BY Zenon
    <3> QED
      BY <3>1 DEF Streams, Labels, Stages
  <2>2. EventsAreReal' /\ StreamsAreExplained'
    BY DEF EventsAreReal, StreamsAreExplained
  <2>3. ResultIsSupported' /\ ReportIsTrue'
    BY DEF EventsAreReal, StreamsAreExplained, ResultIsSupported, ReportIsTrue,
           Settled, NoResult
  <2> QED
    BY <2>1, <2>2, <2>3 DEF IndInv
<1>4. CASE DrainTimeout
  <2> USE <1>4 DEF DrainTimeout, EndInput
  <2>1. TypeOK'
    <3>1. cut' \in BOOLEAN
      BY Zenon
    <3> QED
      BY <3>1 DEF Streams, Labels, Stages
  <2>2. EventsAreReal' /\ StreamsAreExplained'
    BY DEF EventsAreReal, StreamsAreExplained
  <2>3. ResultIsSupported' /\ ReportIsTrue'
    BY DEF EventsAreReal, StreamsAreExplained, ResultIsSupported, ReportIsTrue,
           Settled, NoResult
  <2> QED
    BY <2>1, <2>2, <2>3 DEF IndInv
<1>5. CASE EofTimeout
  <2> USE <1>5
  DEF EofTimeout, Escalate, SignalDirectChild, DetachFrom, Waited, LetGo
  <2>1. TypeOK'
    <3>1. CASE Escalate("eof", "SIGTERM", "terminate", "term")
      <4>1. IoTypes'
        BY <3>1, AbortTypes DEF IoTypes, Streams
      <4>2. signals' \subseteq {"SIGTERM", "SIGKILL"} /\ termination' \in Labels
        BY <3>1 DEF Labels
      <4> QED
        BY <3>1, <4>1, <4>2 DEF IoTypes, Stages
    <3>2. CASE DetachFrom("eof")
      BY <3>2 DEF Streams, Stages
    <3> QED
      BY <3>1, <3>2
  <2>2. EventsAreReal' /\ StreamsAreExplained'
    BY DEF AbortLocalIo, Terminal, Aborted, EventsAreReal, StreamsAreExplained
  <2>3. ResultIsSupported' /\ ReportIsTrue'
    BY DEF AbortLocalIo, Terminal, Aborted, EventsAreReal, StreamsAreExplained,
           ResultIsSupported, ReportIsTrue, Settled, NoResult
  <2> QED
    BY <2>1, <2>2, <2>3 DEF IndInv
<1>6. CASE TermTimeout
  <2> USE <1>6
  DEF TermTimeout, Escalate, SignalDirectChild, DetachFrom, Waited, LetGo
  <2>1. TypeOK'
    <3>1. CASE Escalate("term", "SIGKILL", "kill", "kill")
      <4>1. IoTypes'
        BY <3>1, AbortTypes DEF IoTypes, Streams
      <4>2. signals' \subseteq {"SIGTERM", "SIGKILL"} /\ termination' \in Labels
        BY <3>1 DEF Labels
      <4> QED
        BY <3>1, <4>1, <4>2 DEF IoTypes, Stages
    <3>2. CASE DetachFrom("term")
      BY <3>2 DEF Streams, Stages
    <3> QED
      BY <3>1, <3>2
  <2>2. EventsAreReal' /\ StreamsAreExplained'
    BY DEF AbortLocalIo, Terminal, Aborted, EventsAreReal, StreamsAreExplained
  <2>3. ResultIsSupported' /\ ReportIsTrue'
    BY DEF AbortLocalIo, Terminal, Aborted, EventsAreReal, StreamsAreExplained,
           ResultIsSupported, ReportIsTrue, Settled, NoResult
  <2> QED
    BY <2>1, <2>2, <2>3 DEF IndInv
<1>7. CASE KillTimeout
  <2> USE <1>7 DEF KillTimeout, DetachFrom, Waited, LetGo
  <2>1. TypeOK'
    BY DEF Streams, Labels, Stages
  <2>2. EventsAreReal' /\ StreamsAreExplained'
    BY DEF EventsAreReal, StreamsAreExplained
  <2>3. ResultIsSupported' /\ ReportIsTrue'
    BY DEF EventsAreReal, StreamsAreExplained, ResultIsSupported, ReportIsTrue,
           Settled, NoResult
  <2> QED
    BY <2>1, <2>2, <2>3 DEF IndInv
<1>8. CASE ReleaseTimeout
  <2> USE <1>8 DEF ReleaseTimeout, Waited, Finished
  <2>1. TypeOK'
    BY FinalizeTypes, SettleTypes
    DEF Streams, Labels, Stages, IoTypes, ClosingType
  <2>2. EventsAreReal' /\ StreamsAreExplained'
    BY DEF FinalizeStdout, SettleProcessClose, Fail, AbortLocalIo, Terminal,
           Aborted, Cleanup, EventsAreReal, StreamsAreExplained
  <2>3. ResultIsSupported' /\ ReportIsTrue'
    BY SettleVerdict, FinalizeStreams
   
    DEF EventsAreReal, StreamsAreExplained, ResultIsSupported, ReportIsTrue,
        Settled, Streams
  <2> QED
    BY <2>1, <2>2, <2>3 DEF IndInv
<1>9. CASE CloseReturns
  <2> USE <1>9 DEF CloseReturns
  <2>1. TypeOK'
    BY DEF Streams, Labels, Stages
  <2>2. EventsAreReal' /\ StreamsAreExplained'
    BY DEF EventsAreReal, StreamsAreExplained
  <2>3. ResultIsSupported' /\ ReportIsTrue'
    BY DEF EventsAreReal, StreamsAreExplained, ResultIsSupported, ReportIsTrue,
           Settled, NoResult
  <2> QED
    BY <2>1, <2>2, <2>3 DEF IndInv
<1> QED
  BY <1>1, <1>2, <1>3, <1>4, <1>5, <1>6, <1>7, <1>8, <1>9 DEF Closing

LEMMA StepIsGood == IndInv /\ [Next]_vars => IndInv'
<1> SUFFICES ASSUME IndInv, [Next]_vars PROVE IndInv'
  OBVIOUS
<1>1. CASE UNCHANGED vars
  BY <1>1
  DEF vars, childVars, eventVars, startVars, ioVars, endVars, IndInv, TypeOK,
              EventsAreReal, StreamsAreExplained, ResultIsSupported,
                ReportIsTrue, Settled
<1>2. CASE Starting
  BY <1>2, StartingIsGood
<1>3. CASE Events
  BY <1>3, EventsAreGood
<1>4. CASE Close \/ Disconnect \/ Closing
  BY <1>4, ClosingIsGood
<1> QED
  BY <1>1, <1>2, <1>3, <1>4 DEF Next, Rest

(* Nobody is told that the direct process has ended, or was never started,
   unless that is so: the verdict on which the runner spawns the next target. *)
THEOREM ReportsAreTrue == Spec => []ReportsAreHonest
<1>1. IndInv => ReportsAreHonest
  BY DEF IndInv, ReportsAreHonest
<1> QED
  BY <1>1, InitIsGood, StepIsGood, PTL DEF Spec

-----------------------------------------------------------------------------
(* How the end is labelled. *)

(* A start that was given up has its label and failed the transport. *)
Started ==
  /\ start = "done" => spawned /\ process # "absent"
  /\ start = "waiting" => termination = "natural"
  /\ start \in {"killing", "released", "failed"} =>
       termination = "kill" /\ failure

(* A label still natural survives the loss of the input only until the
   continuation that close() is ready for. *)
Untouched == termination = "natural" /\ cut => Ready /\ ~exitSeen /\ ~Settled

(* The label and the signals of an end under way: each later stage of close()
   has its label or has seen the exit. *)
Labelled ==
  /\ termination = "natural" =>
       /\ signals = {}
       /\ closing \in {"none", "draining"} \/ exitSeen
  /\ termination \in {"disconnect", "stdin-eof"} => signals = {}
  /\ termination = "terminate" =>
       signals = {"SIGTERM"} /\ closing \in {"term", "kill", "released", "done"}
  /\ termination = "kill" /\ spawned =>
       "SIGKILL" \in signals /\ closing \in {"kill", "released", "done"}

(* The label of the summary, once there is one. *)
Summarised ==
  Settled =>
    /\ termination = "natural" => result.label = "natural"
    /\ start = "waiting" => exitSeen /\ result.label = "natural"
    /\ result.label = "natural" => exitSeen
    /\ LabelIsHonest

(* The two queues.  A failure ends both, the end of the output that of
   receive(), and close() waits for the process only after the writer came to
   its end. *)
Silenced ==
  /\ failure => inbound # "open" /\ writer \in {"drained", "failed"}
  /\ finalized => inbound # "open"
  /\ Settled /\ start \in {"waiting", "done"} => finalized
  /\ closing \notin {"none", "draining"} => writer \in {"drained", "failed"}
  /\ closing = "done" => Settled

(* What a start that is given up reports. *)
Abandoned ==
  /\ start \in {"killing", "released"} =>
       startReport \in {"pending", "not_started"}
  /\ start = "failed" =>
       startReport \in {"not_started", "confirmed", "unconfirmed"}

EndInv ==
  Started /\ Untouched /\ Labelled /\ Summarised /\ Silenced /\ Abandoned

(* The disconnection and what became of it. *)
Disconnected ==
  /\ termination = "disconnect" => gate = "disconnected" /\ cut
  /\ gate = "disconnected" =>
       start = "done" /\ termination \in {"disconnect", "terminate", "kill"}
  /\ DisconnectionIsTheCause

-----------------------------------------------------------------------------
(* The input is lost only while the exit was not observed. *)
LEMMA CutBy ==
  ASSUME NEW out, AbortLocalIo(out)
  PROVE  cut' => cut \/ ~exitSeen
BY Zenon DEF AbortLocalIo

LEMMA FailUntouched ==
  ASSUME TypeOK, Started, Untouched, Labelled, Summarised, ~Ready, spawned,
         NEW out, Fail(out),
         UNCHANGED <<termination, exitSeen, result>>
  PROVE  Untouched'
<1> SUFFICES ASSUME termination = "natural", cut'
             PROVE  Ready' /\ ~exitSeen /\ ~Settled
  BY DEF Untouched, Settled, Ready
<1>1. ~cut
  BY DEF Untouched
<1>2. ~failure
  BY <1>1 DEF Fail
<1>3. ~exitSeen
  BY <1>1, <1>2, CutBy DEF Fail
<1>4. closing \in {"none", "draining"} /\ ~Settled
  BY <1>3 DEF Labelled, Summarised
<1>5. Ready'
  BY <1>2, <1>4 DEF TypeOK, Fail, AbortLocalIo, Aborted, Cleanup, Ready
<1> QED
  BY <1>3, <1>4, <1>5

LEMMA FinalizeUntouched ==
  ASSUME TypeOK, Started, Untouched, Labelled, Summarised, ~Ready,
         NEW out, FinalizeStdout(out),
         UNCHANGED <<termination, exitSeen, result>>
  PROVE  Untouched'
<1>1. CASE spawned /\ Fail(out)
  BY <1>1, FailUntouched
<1>2. CASE cut' = cut
  BY <1>2 DEF Untouched
<1> QED
  BY <1>1, <1>2 DEF FinalizeStdout

(* Once the exit was observed, or the start given up, the input is cut no
   more. *)
LEMMA FinalizeAfterExit ==
  ASSUME TypeOK, Started, Untouched, ~Ready,
         exitSeen \/ start \notin {"waiting", "done"},
         NEW out, FinalizeStdout(out),
         UNCHANGED termination
  PROVE  Untouched' /\ (termination = "natural" => ~cut')
<1> SUFFICES ASSUME termination = "natural" PROVE ~cut'
  BY DEF Untouched
<1>1. ~cut /\ exitSeen
  BY DEF Untouched, Started, TypeOK
<1> QED
  BY <1>1, CutBy DEF FinalizeStdout, Fail

LEMMA StartingEnds ==
  ASSUME IndInv, EndInv, Starting
  PROVE  EndInv'
<1> USE DEF childVars, eventVars, startVars, ioVars, endVars, Ready, Settled
<1>0. /\ TypeOK /\ EventsAreReal /\ ResultIsSupported /\ Started /\ Untouched
      /\ Labelled /\ Summarised /\ Silenced /\ Abandoned
  BY DEF IndInv, EndInv
<1> USE <1>0
<1>1. CASE SpawnSeen
  <2> USE <1>1 DEF SpawnSeen, Finished
  <2>1. Started'
    BY DEF Started, TypeOK
  <2>2. Untouched'
    BY DEF Untouched, Started, Labelled, Summarised, TypeOK
  <2>3. Labelled'
    BY DEF Labelled, Started, Summarised, TypeOK, Labels, Stages
  <2>4. Summarised'
    BY DEF Summarised, Untouched, Labelled, LabelIsHonest, Started, TypeOK,
           EventsAreReal
  <2>5. Silenced'
    BY DEF Silenced, Started, TypeOK
  <2>6. Abandoned'
    BY DEF Abandoned, Started, TypeOK, ResultIsSupported
  <2> QED
    BY <2>1, <2>2, <2>3, <2>4, <2>5, <2>6 DEF EndInv
<1>2. CASE SpawnFailsOrAborts \/ SpawnTimesOut
  <2> USE <1>2 DEF SpawnFailsOrAborts, SpawnTimesOut, AbandonStartup,
         AbortLocalIo, Terminal, Aborted
  <2>1. Started'
    BY DEF Started, TypeOK
  <2>2. Untouched'
    BY DEF Untouched, Started, Labelled, Summarised, TypeOK
  <2>3. Labelled'
    BY DEF Labelled, Started, Summarised, TypeOK, Labels, Stages
  <2>4. Summarised'
    BY DEF Summarised, Untouched, Labelled, LabelIsHonest, Started, TypeOK,
           EventsAreReal
  <2>5. Silenced'
    BY DEF Silenced, Started, TypeOK
  <2>6. Abandoned'
    BY DEF Abandoned, Started, TypeOK, ResultIsSupported
  <2> QED
    BY <2>1, <2>2, <2>3, <2>4, <2>5, <2>6 DEF EndInv
<1>3. CASE AbandonTimeout
  <2> USE <1>3 DEF AbandonTimeout, LetGo
  <2>1. Started'
    BY DEF Started, TypeOK
  <2>2. Untouched'
    BY DEF Untouched, Started, Labelled, Summarised, TypeOK
  <2>3. Labelled'
    BY DEF Labelled, Started, Summarised, TypeOK, Labels, Stages
  <2>4. Summarised'
    BY DEF Summarised, Untouched, Labelled, LabelIsHonest, Started, TypeOK,
           EventsAreReal
  <2>5. Silenced'
    BY DEF Silenced, Started, TypeOK
  <2>6. Abandoned'
    BY DEF Abandoned, Started, TypeOK, ResultIsSupported
  <2> QED
    BY <2>1, <2>2, <2>3, <2>4, <2>5, <2>6 DEF EndInv
<1>4. CASE AbandonReleaseTimeout
  <2> USE <1>4 DEF AbandonReleaseTimeout, Report, SettleProcessClose, NoResult
  <2>1. Started'
    BY DEF Started, TypeOK
  <2>2. Untouched'
    BY DEF Untouched, Started, Labelled, Summarised, TypeOK
  <2>3. Labelled'
    BY DEF Labelled, Started, Summarised, TypeOK, Labels, Stages
  <2>4. Summarised'
    BY DEF Summarised, Untouched, Labelled, LabelIsHonest, Started, TypeOK,
           EventsAreReal
  <2>5. Silenced'
    BY DEF Silenced, Started, TypeOK
  <2>6. Abandoned'
    BY DEF Abandoned, Started, TypeOK, ResultIsSupported
  <2> QED
    BY <2>1, <2>2, <2>3, <2>4, <2>5, <2>6 DEF EndInv
<1>5. CASE AbandonReturns
  <2> USE <1>5 DEF AbandonReturns, Report
  <2>1. Started'
    BY DEF Started, TypeOK
  <2>2. Untouched'
    BY DEF Untouched, Started, Labelled, Summarised, TypeOK
  <2>3. Labelled'
    BY DEF Labelled, Started, Summarised, TypeOK, Labels, Stages
  <2>4. Summarised'
    BY DEF Summarised, Untouched, Labelled, LabelIsHonest, Started, TypeOK,
           EventsAreReal
  <2>5. Silenced'
    BY DEF Silenced, Started, TypeOK
  <2>6. Abandoned'
    BY DEF Abandoned, Started, TypeOK, ResultIsSupported
  <2> QED
    BY <2>1, <2>2, <2>3, <2>4, <2>5, <2>6 DEF EndInv
<1> QED
  BY <1>1, <1>2, <1>3, <1>4, <1>5 DEF Starting

LEMMA EventsEnd ==
  ASSUME IndInv, EndInv, Events
  PROVE  EndInv'
<1> USE DEF childVars, eventVars, startVars, ioVars, endVars, Ready, Settled
<1>0. /\ TypeOK /\ EventsAreReal /\ ResultIsSupported /\ Started /\ Untouched
      /\ Labelled /\ Summarised /\ Silenced /\ Abandoned
  BY DEF IndInv, EndInv
<1> USE <1>0
<1>13. ~Ready
  BY DEF Events
<1> USE <1>13
<1>1. CASE Dies
  <2> USE <1>1 DEF Dies
  <2>1. Started'
    BY DEF Started, TypeOK
  <2>2. Untouched'
    BY DEF Untouched, Started, Labelled, Summarised, TypeOK
  <2>3. Labelled'
    BY DEF Labelled, Started, Summarised, TypeOK, Labels, Stages
  <2>4. Summarised'
    BY DEF Summarised, Untouched, Labelled, LabelIsHonest, Started, TypeOK,
           EventsAreReal
  <2>5. Silenced'
    BY DEF Silenced, Started, TypeOK
  <2>6. Abandoned'
    BY DEF Abandoned, Started, TypeOK, ResultIsSupported
  <2> QED
    BY <2>1, <2>2, <2>3, <2>4, <2>5, <2>6 DEF EndInv
<1>2. CASE ExitSeen
  <2> USE <1>2 DEF ExitSeen
  <2>1. Started'
    BY DEF Started, TypeOK
  <2>2. Untouched'
    BY DEF Untouched, Started, Labelled, Summarised, TypeOK
  <2>3. Labelled'
    BY DEF Labelled, Started, Summarised, TypeOK, Labels, Stages
  <2>4. Summarised'
    BY DEF Summarised, Untouched, Labelled, LabelIsHonest, Started, TypeOK,
           EventsAreReal
  <2>5. Silenced'
    BY DEF Silenced, Started, TypeOK
  <2>6. Abandoned'
    BY DEF Abandoned, Started, TypeOK, ResultIsSupported
  <2> QED
    BY <2>1, <2>2, <2>3, <2>4, <2>5, <2>6 DEF EndInv
<1>3. CASE BadOutput
  <2> USE <1>3 DEF BadOutput, Fail, AbortLocalIo, Terminal, Aborted, Cleanup
  <2>1. Started'
    BY DEF Started, TypeOK
  <2>2. Untouched'
    BY FailUntouched DEF BadOutput
  <2>3. Labelled'
    BY DEF Labelled, Started, Summarised, TypeOK, Labels, Stages
  <2>4. Summarised'
    BY DEF Summarised, Untouched, Labelled, LabelIsHonest, Started, TypeOK,
           EventsAreReal
  <2>5. Silenced'
    BY DEF Silenced, Started, TypeOK
  <2>6. Abandoned'
    BY DEF Abandoned, Started, TypeOK, ResultIsSupported
  <2> QED
    BY <2>1, <2>2, <2>3, <2>4, <2>5, <2>6 DEF EndInv
<1>4. CASE StdoutEnds
  <2> USE <1>4 DEF StdoutEnds, FinalizeStdout, Fail, AbortLocalIo, Terminal,
         Aborted, Cleanup, Finished
  <2>1. Started'
    BY DEF Started, TypeOK
  <2>2. Untouched'
    BY FinalizeUntouched DEF StdoutEnds
  <2>3. Labelled'
    BY DEF Labelled, Started, Summarised, TypeOK, Labels, Stages
  <2>4. Summarised'
    BY DEF Summarised, Untouched, Labelled, LabelIsHonest, Started, TypeOK,
           EventsAreReal
  <2>5. Silenced'
    BY DEF Silenced, Started, TypeOK
  <2>6. Abandoned'
    BY DEF Abandoned, Started, TypeOK, ResultIsSupported
  <2> QED
    BY <2>1, <2>2, <2>3, <2>4, <2>5, <2>6 DEF EndInv
<1>5. CASE StdoutCloses
  <2> USE <1>5 DEF StdoutCloses, FinalizeStdout, Fail, AbortLocalIo, Terminal,
         Aborted, Cleanup, Finished
  <2>1. Started'
    BY DEF Started, TypeOK
  <2>2. Untouched'
    BY FinalizeUntouched DEF StdoutCloses
  <2>3. Labelled'
    BY DEF Labelled, Started, Summarised, TypeOK, Labels, Stages
  <2>4. Summarised'
    BY DEF Summarised, Untouched, Labelled, LabelIsHonest, Started, TypeOK,
           EventsAreReal
  <2>5. Silenced'
    BY DEF Silenced, Started, TypeOK
  <2>6. Abandoned'
    BY DEF Abandoned, Started, TypeOK, ResultIsSupported
  <2> QED
    BY <2>1, <2>2, <2>3, <2>4, <2>5, <2>6 DEF EndInv
<1>6. CASE StdoutFails
  <2> USE <1>6 DEF StdoutFails, Fail, AbortLocalIo, Terminal, Aborted, Cleanup
  <2>1. Started'
    BY DEF Started, TypeOK
  <2>2. Untouched'
    BY FailUntouched DEF StdoutFails
  <2>3. Labelled'
    BY DEF Labelled, Started, Summarised, TypeOK, Labels, Stages
  <2>4. Summarised'
    BY DEF Summarised, Untouched, Labelled, LabelIsHonest, Started, TypeOK,
           EventsAreReal
  <2>5. Silenced'
    BY DEF Silenced, Started, TypeOK
  <2>6. Abandoned'
    BY DEF Abandoned, Started, TypeOK, ResultIsSupported
  <2> QED
    BY <2>1, <2>2, <2>3, <2>4, <2>5, <2>6 DEF EndInv
<1>7. CASE StderrEnds
  <2> USE <1>7 DEF StderrEnds
  <2>1. Started'
    BY DEF Started, TypeOK
  <2>2. Untouched'
    BY DEF Untouched, Started, Labelled, Summarised, TypeOK
  <2>3. Labelled'
    BY DEF Labelled, Started, Summarised, TypeOK, Labels, Stages
  <2>4. Summarised'
    BY DEF Summarised, Untouched, Labelled, LabelIsHonest, Started, TypeOK,
           EventsAreReal
  <2>5. Silenced'
    BY DEF Silenced, Started, TypeOK
  <2>6. Abandoned'
    BY DEF Abandoned, Started, TypeOK, ResultIsSupported
  <2> QED
    BY <2>1, <2>2, <2>3, <2>4, <2>5, <2>6 DEF EndInv
<1>8. CASE StderrFails
  <2> USE <1>8 DEF StderrFails, Fail, AbortLocalIo, Terminal, Aborted, Cleanup
  <2>1. Started'
    BY DEF Started, TypeOK
  <2>2. Untouched'
    BY FailUntouched DEF StderrFails
  <2>3. Labelled'
    BY DEF Labelled, Started, Summarised, TypeOK, Labels, Stages
  <2>4. Summarised'
    BY DEF Summarised, Untouched, Labelled, LabelIsHonest, Started, TypeOK,
           EventsAreReal
  <2>5. Silenced'
    BY DEF Silenced, Started, TypeOK
  <2>6. Abandoned'
    BY DEF Abandoned, Started, TypeOK, ResultIsSupported
  <2> QED
    BY <2>1, <2>2, <2>3, <2>4, <2>5, <2>6 DEF EndInv
<1>9. CASE ChildFails
  <2> USE <1>9 DEF ChildFails, Fail, AbortLocalIo, Terminal, Aborted, Cleanup
  <2>1. Started'
    BY DEF Started, TypeOK
  <2>2. Untouched'
    BY FailUntouched DEF ChildFails
  <2>3. Labelled'
    BY DEF Labelled, Started, Summarised, TypeOK, Labels, Stages
  <2>4. Summarised'
    BY DEF Summarised, Untouched, Labelled, LabelIsHonest, Started, TypeOK,
           EventsAreReal
  <2>5. Silenced'
    BY DEF Silenced, Started, TypeOK
  <2>6. Abandoned'
    BY DEF Abandoned, Started, TypeOK, ResultIsSupported
  <2> QED
    BY <2>1, <2>2, <2>3, <2>4, <2>5, <2>6 DEF EndInv
<1>10. CASE ChildCloses
  <2> USE <1>10 DEF ChildCloses, SettleProcessClose, NoResult, FinalizeStdout,
         Fail, AbortLocalIo, Terminal, Aborted, Cleanup, Finished
  <2>1. Started'
    BY DEF Started, TypeOK
  <2>2. Untouched'
    BY FinalizeAfterExit DEF ChildCloses, TypeOK, Started
  <2>3. Labelled'
    BY DEF Labelled, Started, Summarised, TypeOK, Labels, Stages
  <2>4. Summarised'
    BY FinalizeAfterExit DEF Summarised, Untouched, Labelled, LabelIsHonest,
           Started, TypeOK, EventsAreReal
  <2>5. Silenced'
    BY DEF Silenced, Started, TypeOK
  <2>6. Abandoned'
    BY DEF Abandoned, Started, TypeOK, ResultIsSupported
  <2> QED
    BY <2>1, <2>2, <2>3, <2>4, <2>5, <2>6 DEF EndInv
<1>11. CASE WriterDrains
  <2> USE <1>11 DEF WriterDrains
  <2>1. Started'
    BY DEF Started, TypeOK
  <2>2. Untouched'
    BY DEF Untouched, Started, Labelled, Summarised, TypeOK
  <2>3. Labelled'
    BY DEF Labelled, Started, Summarised, TypeOK, Labels, Stages
  <2>4. Summarised'
    BY DEF Summarised, Untouched, Labelled, LabelIsHonest, Started, TypeOK,
           EventsAreReal
  <2>5. Silenced'
    BY DEF Silenced, Started, TypeOK
  <2>6. Abandoned'
    BY DEF Abandoned, Started, TypeOK, ResultIsSupported
  <2> QED
    BY <2>1, <2>2, <2>3, <2>4, <2>5, <2>6 DEF EndInv
<1>12. CASE WriterFails
  <2> USE <1>12 DEF WriterFails
  <2>1. Started'
    BY DEF Started, TypeOK
  <2>2. Untouched'
    BY DEF Untouched, Started, Labelled, Summarised, TypeOK
  <2>3. Labelled'
    BY DEF Labelled, Started, Summarised, TypeOK, Labels, Stages
  <2>4. Summarised'
    BY DEF Summarised, Untouched, Labelled, LabelIsHonest, Started, TypeOK,
           EventsAreReal
  <2>5. Silenced'
    BY DEF Silenced, Started, TypeOK
  <2>6. Abandoned'
    BY DEF Abandoned, Started, TypeOK, ResultIsSupported
  <2> QED
    BY <2>1, <2>2, <2>3, <2>4, <2>5, <2>6 DEF EndInv
<1> QED
  BY <1>1, <1>2, <1>3, <1>4, <1>5, <1>6, <1>7, <1>8, <1>9, <1>10, <1>11, <1>12
         DEF Events

LEMMA ClosingEnds ==
  ASSUME IndInv, EndInv, Close \/ Disconnect \/ Closing
  PROVE  EndInv'
<1> USE DEF childVars, eventVars, startVars, ioVars, endVars, Ready, Settled
<1>0. /\ TypeOK /\ EventsAreReal /\ ResultIsSupported /\ Started /\ Untouched
      /\ Labelled /\ Summarised /\ Silenced /\ Abandoned
  BY DEF IndInv, EndInv
<1> USE <1>0
<1>1. CASE Close
  <2> USE <1>1 DEF Close, Finished
  <2>1. Started'
    BY DEF Started, TypeOK
  <2>2. Untouched'
    BY DEF Untouched, Started, Labelled, Summarised, TypeOK
  <2>3. Labelled'
    BY DEF Labelled, Started, Summarised, TypeOK, Labels, Stages
  <2>4. Summarised'
    BY DEF Summarised, Untouched, Labelled, LabelIsHonest, Started, TypeOK,
           EventsAreReal
  <2>5. Silenced'
    BY DEF Silenced, Started, TypeOK
  <2>6. Abandoned'
    BY DEF Abandoned, Started, TypeOK, ResultIsSupported
  <2> QED
    BY <2>1, <2>2, <2>3, <2>4, <2>5, <2>6 DEF EndInv
<1>2. CASE Disconnect
  <2> USE <1>2 DEF Disconnect, Disconnectable, Cleanup, AbortLocalIo,
         Terminal, Aborted
  <2>1. Started'
    BY DEF Started, TypeOK
  <2>2. Untouched'
    BY DEF Untouched, Started, Labelled, Summarised, TypeOK
  <2>3. Labelled'
    BY DEF Labelled, Started, Summarised, TypeOK, Labels, Stages
  <2>4. Summarised'
    BY DEF Summarised, Untouched, Labelled, LabelIsHonest, Started, TypeOK,
           EventsAreReal
  <2>5. Silenced'
    BY DEF Silenced, Started, TypeOK
  <2>6. Abandoned'
    BY DEF Abandoned, Started, TypeOK, ResultIsSupported
  <2> QED
    BY <2>1, <2>2, <2>3, <2>4, <2>5, <2>6 DEF EndInv
<1>3. CASE Drained
  <2> USE <1>3 DEF Drained, EndInput
  <2>1. Started'
    BY DEF Started, TypeOK
  <2>2. Untouched'
    BY DEF Untouched, Started, Labelled, Summarised, TypeOK
  <2>3. Labelled'
    BY DEF Labelled, Started, Summarised, TypeOK, Labels, Stages
  <2>4. Summarised'
    BY DEF Summarised, Untouched, Labelled, LabelIsHonest, Started, TypeOK,
           EventsAreReal
  <2>5. Silenced'
    BY DEF Silenced, Started, TypeOK
  <2>6. Abandoned'
    BY DEF Abandoned, Started, TypeOK, ResultIsSupported
  <2> QED
    BY <2>1, <2>2, <2>3, <2>4, <2>5, <2>6 DEF EndInv
<1>4. CASE DrainTimeout
  <2> USE <1>4 DEF DrainTimeout, EndInput
  <2>1. Started'
    BY DEF Started, TypeOK
  <2>2. Untouched'
    BY DEF Untouched, Started, Labelled, Summarised, TypeOK
  <2>3. Labelled'
    BY DEF Labelled, Started, Summarised, TypeOK, Labels, Stages
  <2>4. Summarised'
    BY DEF Summarised, Untouched, Labelled, LabelIsHonest, Started, TypeOK,
           EventsAreReal
  <2>5. Silenced'
    BY DEF Silenced, Started, TypeOK
  <2>6. Abandoned'
    BY DEF Abandoned, Started, TypeOK, ResultIsSupported
  <2> QED
    BY <2>1, <2>2, <2>3, <2>4, <2>5, <2>6 DEF EndInv
<1>5. CASE EofTimeout
  <2> USE <1>5 DEF EofTimeout, Escalate, SignalDirectChild, DetachFrom,
         Waited, LetGo, AbortLocalIo, Terminal, Aborted
  <2>1. Started'
    BY DEF Started, TypeOK
  <2>2. Untouched'
    BY DEF Untouched, Started, Labelled, Summarised, TypeOK
  <2>3. Labelled'
    BY DEF Labelled, Started, Summarised, TypeOK, Labels, Stages
  <2>4. Summarised'
    BY DEF Summarised, Untouched, Labelled, LabelIsHonest, Started, TypeOK,
           EventsAreReal
  <2>5. Silenced'
    BY DEF Silenced, Started, TypeOK
  <2>6. Abandoned'
    BY DEF Abandoned, Started, TypeOK, ResultIsSupported
  <2> QED
    BY <2>1, <2>2, <2>3, <2>4, <2>5, <2>6 DEF EndInv
<1>6. CASE TermTimeout
  <2> USE <1>6 DEF TermTimeout, Escalate, SignalDirectChild, DetachFrom,
         Waited, LetGo, AbortLocalIo, Terminal, Aborted
  <2>1. Started'
    BY DEF Started, TypeOK
  <2>2. Untouched'
    BY DEF Untouched, Started, Labelled, Summarised, TypeOK
  <2>3. Labelled'
    BY DEF Labelled, Started, Summarised, TypeOK, Labels, Stages
  <2>4. Summarised'
    BY DEF Summarised, Untouched, Labelled, LabelIsHonest, Started, TypeOK,
           EventsAreReal
  <2>5. Silenced'
    BY DEF Silenced, Started, TypeOK
  <2>6. Abandoned'
    BY DEF Abandoned, Started, TypeOK, ResultIsSupported
  <2> QED
    BY <2>1, <2>2, <2>3, <2>4, <2>5, <2>6 DEF EndInv
<1>7. CASE KillTimeout
  <2> USE <1>7 DEF KillTimeout, DetachFrom, Waited, LetGo
  <2>1. Started'
    BY DEF Started, TypeOK
  <2>2. Untouched'
    BY DEF Untouched, Started, Labelled, Summarised, TypeOK
  <2>3. Labelled'
    BY DEF Labelled, Started, Summarised, TypeOK, Labels, Stages
  <2>4. Summarised'
    BY DEF Summarised, Untouched, Labelled, LabelIsHonest, Started, TypeOK,
           EventsAreReal
  <2>5. Silenced'
    BY DEF Silenced, Started, TypeOK
  <2>6. Abandoned'
    BY DEF Abandoned, Started, TypeOK, ResultIsSupported
  <2> QED
    BY <2>1, <2>2, <2>3, <2>4, <2>5, <2>6 DEF EndInv
<1>8. CASE ReleaseTimeout
  <2> USE <1>8 DEF ReleaseTimeout, Waited, SettleProcessClose, NoResult,
         FinalizeStdout, Fail, AbortLocalIo, Terminal, Aborted, Cleanup,
         Finished
  <2>1. Started'
    BY DEF Started, TypeOK
  <2>2. Untouched'
    BY FinalizeAfterExit DEF Untouched, Started, Labelled, Summarised, TypeOK
  <2>3. Labelled'
    BY DEF Labelled, Started, Summarised, TypeOK, Labels, Stages
  <2>4. Summarised'
    BY DEF Summarised, Untouched, Labelled, LabelIsHonest, Started, TypeOK,
           EventsAreReal
  <2>5. Silenced'
    BY DEF Silenced, Started, TypeOK
  <2>6. Abandoned'
    BY DEF Abandoned, Started, TypeOK, ResultIsSupported
  <2> QED
    BY <2>1, <2>2, <2>3, <2>4, <2>5, <2>6 DEF EndInv
<1>9. CASE CloseReturns
  <2> USE <1>9 DEF CloseReturns
  <2>1. Started'
    BY DEF Started, TypeOK
  <2>2. Untouched'
    BY DEF Untouched, Started, Labelled, Summarised, TypeOK
  <2>3. Labelled'
    BY DEF Labelled, Started, Summarised, TypeOK, Labels, Stages
  <2>4. Summarised'
    BY DEF Summarised, Untouched, Labelled, LabelIsHonest, Started, TypeOK,
           EventsAreReal
  <2>5. Silenced'
    BY DEF Silenced, Started, TypeOK
  <2>6. Abandoned'
    BY DEF Abandoned, Started, TypeOK, ResultIsSupported
  <2> QED
    BY <2>1, <2>2, <2>3, <2>4, <2>5, <2>6 DEF EndInv
<1> QED
  BY <1>1, <1>2, <1>3, <1>4, <1>5, <1>6, <1>7, <1>8, <1>9 DEF Closing

LEMMA InitEnds == Init => EndInv
BY DEF Init, EndInv, Started, Untouched, Labelled, Summarised, Silenced,
       Abandoned,
       Settled, NoResult

LEMMA EndStep == IndInv /\ EndInv /\ [Next]_vars => EndInv'
<1> SUFFICES ASSUME IndInv, EndInv, [Next]_vars PROVE EndInv'
  OBVIOUS
<1>1. CASE UNCHANGED vars
  BY <1>1
  DEF vars, childVars, eventVars, startVars, ioVars, endVars, EndInv, Started,
              Untouched, Labelled, Summarised, LabelIsHonest, Silenced,
                Abandoned, Settled, Ready
<1>2. CASE Starting
  BY <1>2, StartingEnds
<1>3. CASE Events
  BY <1>3, EventsEnd
<1>4. CASE Close \/ Disconnect \/ Closing
  BY <1>4, ClosingEnds
<1> QED
  BY <1>1, <1>2, <1>3, <1>4 DEF Next, Rest

LEMMA EndsAreGood == Spec => [](IndInv /\ EndInv)
BY InitIsGood, StepIsGood, InitEnds, EndStep, PTL DEF Spec

(* The summary names what was done to the process, although its exit races
   every stage of the escalation: a natural end is one nobody interfered with,
   and a signal is named only if it was the strongest that was delivered. *)
THEOREM LabelsAreTrue == Spec => []LabelIsHonest
<1>1. EndInv => LabelIsHonest
  BY DEF EndInv, Summarised, LabelIsHonest
<1> QED
  BY <1>1, EndsAreGood, PTL

(* Whoever still waits in receive() or send() when a start was given up or a
   close() has returned is told so, at any stage the end was reached. *)
THEOREM OverIsSilent == Spec => []ClosedIsSilent
<1>1. IndInv /\ EndInv => ClosedIsSilent
  BY DEF IndInv, TypeOK, EndInv, Started, Silenced, ClosedIsSilent, Over
<1> QED
  BY <1>1, EndsAreGood, PTL

(* What the transport does by itself adds to the loss of the input and to the
   strength of the label, and a summary takes the label of its moment. *)
LEMMA CutKept ==
  ASSUME NEW out, AbortLocalIo(out) PROVE cut => cut'
BY Zenon DEF AbortLocalIo

LEMMA FailKeepsCut ==
  ASSUME NEW out, Fail(out) PROVE cut => cut'
BY CutKept DEF Fail

LEMMA FinalizeKeepsCut ==
  ASSUME NEW out, FinalizeStdout(out) PROVE cut => cut'
BY FailKeepsCut DEF FinalizeStdout

LEMMA SummaryTakesLabel ==
  ASSUME SettleProcessClose
  PROVE  result' = result \/ result'.label = termination'
BY DEF SettleProcessClose

Strong == {"disconnect", "terminate", "kill"}

LEMMA TransportKeeps ==
  ASSUME IndInv, EndInv, Starting \/ Events \/ Closing
  PROVE  /\ cut => cut'
         /\ termination' = "disconnect" => termination = "disconnect"
         /\ start = "done" /\ termination \in Strong =>
              start' = "done" /\ termination' \in Strong
         /\ result' = result \/ result'.label = termination'
<1> USE DEF childVars, eventVars, startVars, ioVars, endVars, Ready, Settled,
          Strong
<1>0. TypeOK /\ Started /\ Labelled
  BY DEF IndInv, EndInv
<1>1. CASE SpawnSeen
  BY <1>0, <1>1 DEF SpawnSeen, TypeOK, Started
<1>2. CASE SpawnFailsOrAborts \/ SpawnTimesOut
  BY <1>0, <1>2, CutKept DEF SpawnFailsOrAborts, SpawnTimesOut,
         AbandonStartup, TypeOK, Started
<1>3. CASE AbandonTimeout
  BY <1>0, <1>3 DEF AbandonTimeout, LetGo, TypeOK, Started
<1>4. CASE AbandonReleaseTimeout
  BY <1>0, <1>4, SummaryTakesLabel DEF AbandonReleaseTimeout, Report, TypeOK,
         Started
<1>5. CASE AbandonReturns
  BY <1>0, <1>5 DEF AbandonReturns, Report, TypeOK, Started
<1>6. CASE Dies
  BY <1>0, <1>6 DEF Dies, TypeOK, Started
<1>7. CASE ExitSeen
  BY <1>0, <1>7 DEF ExitSeen, TypeOK, Started
<1>8. CASE BadOutput
  BY <1>0, <1>8, FailKeepsCut DEF BadOutput, TypeOK, Started
<1>9. CASE StdoutEnds
  BY <1>0, <1>9, FinalizeKeepsCut DEF StdoutEnds, TypeOK, Started
<1>10. CASE StdoutCloses
  BY <1>0, <1>10, FinalizeKeepsCut DEF StdoutCloses, TypeOK, Started
<1>11. CASE StdoutFails
  BY <1>0, <1>11, FailKeepsCut DEF StdoutFails, TypeOK, Started
<1>12. CASE StderrEnds
  BY <1>0, <1>12 DEF StderrEnds, TypeOK, Started
<1>13. CASE StderrFails
  BY <1>0, <1>13, FailKeepsCut DEF StderrFails, TypeOK, Started
<1>14. CASE ChildFails
  BY <1>0, <1>14, FailKeepsCut DEF ChildFails, TypeOK, Started
<1>15. CASE ChildCloses
  BY <1>0, <1>15, FinalizeKeepsCut, SummaryTakesLabel DEF ChildCloses, TypeOK,
         Started
<1>16. CASE WriterDrains
  BY <1>0, <1>16 DEF WriterDrains, TypeOK, Started
<1>17. CASE WriterFails
  BY <1>0, <1>17 DEF WriterFails, TypeOK, Started
<1>18. CASE Drained
  BY <1>0, <1>18 DEF Drained, EndInput, TypeOK, Started
<1>19. CASE DrainTimeout
  BY <1>0, <1>19 DEF DrainTimeout, EndInput, TypeOK, Started
<1>20. CASE EofTimeout
  BY <1>0, <1>20, CutKept DEF EofTimeout, Escalate, SignalDirectChild,
         DetachFrom, Waited, LetGo, TypeOK, Started
<1>21. CASE TermTimeout
  BY <1>0, <1>21, CutKept DEF TermTimeout, Escalate, SignalDirectChild,
         DetachFrom, Waited, LetGo, TypeOK, Started
<1>22. CASE KillTimeout
  BY <1>0, <1>22 DEF KillTimeout, DetachFrom, Waited, LetGo, TypeOK, Started
<1>23. CASE ReleaseTimeout
  BY <1>0, <1>23, FinalizeKeepsCut, SummaryTakesLabel DEF ReleaseTimeout,
         Waited, TypeOK, Started
<1>24. CASE CloseReturns
  BY <1>0, <1>24 DEF CloseReturns, TypeOK, Started
<1> QED
  BY <1>1, <1>2, <1>3, <1>4, <1>5, <1>6, <1>7, <1>8, <1>9, <1>10, <1>11,
         <1>12, <1>13, <1>14, <1>15, <1>16, <1>17, <1>18, <1>19, <1>20, <1>21,
         <1>22, <1>23, <1>24 DEF Starting, Events, Closing
-----------------------------------------------------------------------------
(* The session over the transport. *)

LEMMA GateStep == EndGate \/ GateDisconnects => [Next]_vars
BY DEF EndGate, GateCloses, GateDisconnects, Next

LEMMA SessionStep == [SessionNext]_allVars => [Next]_vars
BY GateStep
DEF SessionNext, OpenReturns, StartSettles, Opened, HandshakeFails,
    ClientTerminates,
    LeaseDisconnects, CloseSession, SessionEnds, TransportSteps, SessionRest,
      allVars,
    Next

(* What a step of the session does to its gate and its transport. *)
LEMMA GateActs ==
  ASSUME [SessionNext]_allVars
  PROVE  \/ UNCHANGED <<vars, gate>>
         \/ UNCHANGED vars /\ gate = "none" /\ gate' \in {"closed", "refused"}
         \/ Close /\ gate = "none" /\ gate' = "closed"
         \/ Disconnect /\ gate = "none" /\ gate' = "disconnected"
         \/ (Starting \/ Events \/ Closing) /\ gate' = gate
BY DEF SessionNext, OpenReturns, StartSettles, Opened, HandshakeFails,
       ClientTerminates,
       LeaseDisconnects, CloseSession, SessionEnds, TransportSteps, SessionRest,
         allVars,
       EndGate, GateCloses, GateDisconnects, sessionVars

LEMMA DisconnectedStep ==
  IndInv /\ EndInv /\ Disconnected /\ [SessionNext]_allVars => Disconnected'
<1> SUFFICES ASSUME IndInv, EndInv, Disconnected, [SessionNext]_allVars
             PROVE  Disconnected'
  OBVIOUS
<1> USE DEF Disconnected, DisconnectionIsTheCause, Settled, NoResult, Strong
<1>0. TypeOK /\ Started /\ Summarised
  BY DEF IndInv, EndInv
<1>1. CASE UNCHANGED vars
             /\ (gate' = gate
                  \/ (gate = "none" /\ gate' \in {"closed", "refused"}))
  BY <1>1 DEF vars, childVars, eventVars, startVars, ioVars, endVars
<1>2. CASE Close /\ gate = "none" /\ gate' = "closed"
  BY <1>2 DEF Close, eventVars, startVars, endVars
<1>3. CASE Disconnect /\ gate = "none" /\ gate' = "disconnected"
  <2>1. /\ termination' = "disconnect" /\ result' = result /\ start' = start
        /\ start = "done" /\ ~Settled
    BY <1>3 DEF Disconnect, Disconnectable, startVars
  <2>2. cut'
    BY <1>3, Zenon DEF Disconnect, Disconnectable, AbortLocalIo
  <2> QED
    BY <1>3, <2>1, <2>2
<1>4. CASE (Starting \/ Events \/ Closing) /\ gate' = gate
  <2>1. /\ cut => cut'
        /\ termination' = "disconnect" => termination = "disconnect"
        /\ start = "done" /\ termination \in Strong =>
             start' = "done" /\ termination' \in Strong
        /\ result' = result \/ result'.label = termination'
    BY <1>4, TransportKeeps
  <2>2. ASSUME termination' = "disconnect"
        PROVE  gate' = "disconnected" /\ cut'
    BY <1>4, <2>1, <2>2
  <2>3. ASSUME gate' = "disconnected"
        PROVE  start' = "done" /\ termination' \in Strong
    BY <1>4, <2>1, <2>3
  <2>4. DisconnectionIsTheCause'
    <3>1. CASE result' = result
      BY <1>4, <2>1, <3>1
    <3>2. CASE result'.label = termination'
      BY <2>2, <2>3, <3>2
    <3> QED
      BY <2>1, <3>1, <3>2
  <2> QED
    BY <2>2, <2>3, <2>4
<1> QED
  BY <1>1, <1>2, <1>3, <1>4, GateActs

LEMMA InitDisconnected == SessionInit => Disconnected
BY DEF SessionInit, Init, Disconnected, DisconnectionIsTheCause, Settled,
       NoResult

(* A session is a user of its transport: whatever it does, and leaves to its
   gate, is a behaviour of the transport. *)
THEOREM SessionUsesTransport == SessionSpec => Spec
<1>1. SessionInit => Init
  BY DEF SessionInit
<1> QED
  BY <1>1, SessionStep, PTL DEF SessionSpec, Spec

LEMMA SessionIsGood == SessionSpec => [](IndInv /\ EndInv /\ Disconnected)
<1>1. SessionSpec => [](IndInv /\ EndInv)
  BY SessionUsesTransport, EndsAreGood, PTL
<1> QED
  BY <1>1, InitDisconnected, DisconnectedStep, PTL DEF SessionSpec

(* A disconnection that the gate applied is named as the cause of the end, or
   the signal that enforced it is, and no end that has another cause is called
   a disconnection. *)
THEOREM CauseIsNamed == SessionSpec => []DisconnectionIsTheCause
<1>1. Disconnected => DisconnectionIsTheCause
  BY DEF Disconnected
<1> QED
  BY <1>1, SessionIsGood, PTL

-----------------------------------------------------------------------------
(* The session implements the contract of the runner. *)
phaseOf == IF session \in {"starting", "handshake"} THEN "opening" ELSE session
alive == process = "running"

(* No target comes back, and only its own death ends it. *)
LEMMA TargetLives ==
  ASSUME [Next]_vars
  PROVE  process' = process \/ Dies
BY DEF Next, Starting, Events, Closing, Rest, Close, Disconnect, SpawnSeen,
       SpawnFailsOrAborts, SpawnTimesOut, AbandonStartup, AbandonTimeout,
       AbandonReleaseTimeout, AbandonReturns, ExitSeen, BadOutput, StdoutEnds,
         StdoutCloses,
       StdoutFails, StderrEnds, StderrFails, ChildFails, ChildCloses,
         WriterDrains,
       WriterFails, Drained, DrainTimeout, EndInput, EofTimeout, TermTimeout,
         KillTimeout,
       Escalate, DetachFrom, ReleaseTimeout, CloseReturns, LetGo, vars,
         childVars

LEMMA OnlyTransportKills ==
  ASSUME [SessionNext]_allVars, process' # process
  PROVE  Dies /\ UNCHANGED sessionVars
<1>1. CASE TransportSteps
  BY <1>1, SessionStep, TargetLives DEF TransportSteps
<1>2. CASE UNCHANGED vars \/ Close \/ Disconnect
  BY <1>2 DEF vars, childVars, Close, Disconnect
<1> QED
  BY <1>1, <1>2
  DEF SessionNext, OpenReturns, StartSettles, Opened, HandshakeFails,
      ClientTerminates,
      LeaseDisconnects, CloseSession, SessionEnds, SessionRest, allVars,
      EndGate, GateCloses, GateDisconnects

LEMMA ContractStep ==
  IndInv /\ EndInv /\ [SessionNext]_allVars => [Contract!Next]_Contract!vars
<1> SUFFICES ASSUME IndInv, EndInv, [SessionNext]_allVars
             PROVE  Contract!Next \/ UNCHANGED <<alive, phaseOf, report>>
  BY DEF Contract!vars, alive, phaseOf
<1> USE DEF alive, phaseOf
<1>0. TypeOK /\ ResultIsSupported /\ ReportIsTrue /\ Abandoned
  BY DEF IndInv, EndInv
<1>1. CASE process' # process
  <2>1. process = "running" /\ process' = "dead" /\ session' = session
          /\ report' = report
    BY <1>1, OnlyTransportKills DEF Dies, sessionVars
  <2>2. Contract!TargetDies
    BY <2>1 DEF Contract!TargetDies
  <2> QED
    BY <2>2 DEF Contract!Next
<1>2. CASE process' = process
  <2>1. CASE session' = session /\ report' = report
    BY <1>2, <2>1
  <2>2. CASE StartSettles
    <3>1. CASE start = "done" /\ session' = "handshake"
      BY <1>2, <2>2, <3>1 DEF StartSettles
    <3>2. CASE start = "failed" /\ session' = "over"
      <4>1. report' = "proven" => process # "running"
        BY <1>0, <2>2, <3>2 DEF StartSettles, Abandoned, ReportIsTrue
      <4>2. report' \in {"proven", "unproven"} /\ session = "starting"
        BY <2>2, <3>2 DEF StartSettles
      <4>3. Contract!End
        BY <1>2, <3>2, <4>1, <4>2 DEF Contract!End
      <4> QED
        BY <4>3 DEF Contract!Next
    <3> QED
      BY <2>2, <3>1, <3>2 DEF StartSettles
  <2>3. CASE Opened
    <3>1. Contract!Opened
      BY <1>2, <2>3 DEF Opened, Contract!Opened
    <3> QED
      BY <3>1 DEF Contract!Next
  <2>4. CASE HandshakeFails \/ CloseSession
    <3>1. Contract!CloseBegins
      BY <1>2, <2>4 DEF HandshakeFails, CloseSession, Contract!CloseBegins
    <3> QED
      BY <3>1 DEF Contract!Next
  <2>5. CASE SessionEnds
    <3>1. report' = "proven" => process # "running"
      BY <1>0, <2>5 DEF SessionEnds, ReportIsTrue
    <3>2. report' \in {"proven", "unproven"} /\ session = "closing"
            /\ session' = "over"
      BY <2>5 DEF SessionEnds
    <3>3. Contract!End
      BY <1>2, <3>1, <3>2 DEF Contract!End
    <3> QED
      BY <3>3 DEF Contract!Next
  <2> QED
    BY <2>1, <2>2, <2>3, <2>4, <2>5
    DEF SessionNext, OpenReturns, ClientTerminates, LeaseDisconnects,
        TransportSteps,
        SessionRest, allVars, sessionVars
<1> QED
  BY <1>1, <1>2

(* The session keeps the promise on which the runner starts the next target:
   each way to its end is one of the contract's, so a target that is said to be
   gone is gone. *)
THEOREM SessionKeepsPromise == SessionSpec => Contract!Safety
<1>1. SessionInit => Contract!Init
  BY DEF SessionInit, Contract!Init
<1> QED
  BY <1>1, ContractStep, SessionIsGood, PTL DEF SessionSpec, Contract!Safety

=============================================================================
