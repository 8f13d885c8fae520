-------------------------- MODULE RunCommandProofs --------------------------
(***************************************************************************)
(* The promises of the run command about its report file, for any number   *)
(* of changes by other programs: each step of the command is related to    *)
(* what is written by then, and the checks of discard() to what they saw.  *)
(***************************************************************************)
EXTENDS RunCommand, TLAPS

Discarding == {"match", "release", "remove"}

TypeInv ==
  /\ wanted \in BOOLEAN /\ synced \in BOOLEAN /\ published \in BOOLEAN
  /\ parent \in BOOLEAN /\ aborted \in BOOLEAN
  /\ pc \in Steps \union {"over", "crashed"}
  /\ slot \in {"free", "ours", "other"}
  /\ suite \in Statuses \union {"none"}
  /\ exit \in Statuses \union Errors \union {"none", "interrupted"}
  /\ changes \in Nat /\ foundAt \in Nat
  /\ seen \subseteq {"parent", "file"}

(* What is written before a step, and survives a crash once it is synced. *)
WrittenInv ==
  /\ pc \in {"sync", "recheck", "close"} => content = "complete"
  /\ pc \in {"recheck", "close"} => synced
  /\ synced => content = "complete"
  /\ pc \in {"reserve", "inspect", "load", "run", "render", "check", "write"} =>
       ~synced
  /\ published => synced /\ wanted
  /\ pc \in {"reserve", "inspect"} \/ content # "none" => wanted

(* What the exit code is decided from. *)
ExitInv ==
  /\ pc \in Steps \ Discarding => exit = "none"
  /\ pc \in Steps \ {"decide"} => ~published
  /\ pc \in {"render", "check", "write", "sync", "recheck", "close",
       "decide"} =>
       suite \in Statuses
  /\ pc \in {"check", "write", "sync", "recheck", "close"} \union Discarding =>
       wanted
  /\ pc = "decide" => (wanted <=> published)
  /\ pc \in Discarding => exit \in Errors

(* What discard() has seen, others may have changed since. *)
SeenInv ==
  /\ pc \in {"match", "release", "remove"} /\ "file" \in seen =>
       foundAt <= changes /\ (foundAt = changes => slot = "ours")
  /\ pc = "remove" => "file" \in seen
  /\ pc \notin {"check", "recheck", "match", "release", "remove", "over",
       "crashed"} =>
       seen = {}

(* Without changes by others the file is where it was put. *)
PlaceInv ==
  changes = 0 =>
    /\ parent
    /\ pc = "reserve" => wanted /\ slot # "ours"
    /\ ~wanted => slot # "ours"
    /\ wanted /\ pc \in Steps \ {"reserve"} => slot = "ours"
    /\ pc = "release" /\ "match" \notin failed => Matches

IndInv ==
  /\ TypeInv /\ WrittenInv /\ ExitInv /\ SeenInv /\ PlaceInv
  /\ ExitMatchesReport /\ NothingIsLeft

LEMMA ReportingIsGood ==
  ASSUME IndInv, Reserve \/ ReserveFails \/ Inspect \/ Load \/ Run \/ Render
           \/ Decide
  PROVE  IndInv'
<1> USE DEF IndInv, fileVars, TypeInv, Statuses, Errors, Steps, Discarding
<1>1. CASE Reserve
  <2> USE <1>1 DEF Reserve, Continue
  <2>1. TypeInv'
    OBVIOUS
  <2>2. WrittenInv' /\ ExitInv'
    BY DEF WrittenInv, ExitInv
  <2>3. SeenInv'
    BY DEF SeenInv
  <2>4. PlaceInv'
    BY DEF PlaceInv, ExitInv, Matches
  <2>5. ExitMatchesReport'
    BY DEF ExitMatchesReport, WrittenInv, ExitInv
  <2>6. NothingIsLeft'
    BY DEF NothingIsLeft, PlaceInv, ExitInv, SeenInv, Matches
  <2> QED
    BY <2>1, <2>2, <2>3, <2>4, <2>5, <2>6
<1>2. CASE ReserveFails
  <2> USE <1>2 DEF ReserveFails, Continue, FileFails
  <2>1. TypeInv'
    OBVIOUS
  <2>2. WrittenInv' /\ ExitInv'
    BY DEF WrittenInv, ExitInv
  <2>3. SeenInv'
    BY DEF SeenInv
  <2>4. PlaceInv'
    BY DEF PlaceInv, ExitInv, Matches
  <2>5. ExitMatchesReport'
    BY DEF ExitMatchesReport, WrittenInv, ExitInv
  <2>6. NothingIsLeft'
    BY DEF NothingIsLeft, PlaceInv, ExitInv, SeenInv, Matches
  <2> QED
    BY <2>1, <2>2, <2>3, <2>4, <2>5, <2>6
<1>3. CASE Inspect
  <2> USE <1>3 DEF Inspect, Continue, FileFails
  <2>1. TypeInv'
    OBVIOUS
  <2>2. WrittenInv' /\ ExitInv'
    BY DEF WrittenInv, ExitInv
  <2>3. SeenInv'
    BY DEF SeenInv
  <2>4. PlaceInv'
    BY DEF PlaceInv, ExitInv, Matches
  <2>5. ExitMatchesReport'
    BY DEF ExitMatchesReport, WrittenInv, ExitInv
  <2>6. NothingIsLeft'
    BY DEF NothingIsLeft, PlaceInv, ExitInv, SeenInv, Matches
  <2> QED
    BY <2>1, <2>2, <2>3, <2>4, <2>5, <2>6
<1>4. CASE Load
  <2> USE <1>4 DEF Load, Throw, Continue
  <2>1. TypeInv'
    <3>1. pc' \in Steps \union {"over", "crashed"}
      OBVIOUS
    <3>2. exit' \in Statuses \union Errors \union {"none", "interrupted"}
      OBVIOUS
    <3>3. seen' \subseteq {"parent", "file"}
      OBVIOUS
    <3> QED
      BY <3>1, <3>2, <3>3
  <2>2. WrittenInv' /\ ExitInv'
    BY DEF WrittenInv, ExitInv
  <2>3. SeenInv'
    BY DEF SeenInv
  <2>4. PlaceInv'
    BY DEF PlaceInv, ExitInv, Matches
  <2>5. ExitMatchesReport'
    BY DEF ExitMatchesReport, WrittenInv, ExitInv
  <2>6. NothingIsLeft'
    BY DEF NothingIsLeft, PlaceInv, ExitInv, SeenInv, Matches
  <2> QED
    BY <2>1, <2>2, <2>3, <2>4, <2>5, <2>6
<1>5. CASE Run
  <2> USE <1>5 DEF Run, Throw, Continue
  <2>1. TypeInv'
    OBVIOUS
  <2>2. WrittenInv' /\ ExitInv'
    BY DEF WrittenInv, ExitInv
  <2>3. SeenInv'
    BY DEF SeenInv
  <2>4. PlaceInv'
    BY DEF PlaceInv, ExitInv, Matches
  <2>5. ExitMatchesReport'
    BY DEF ExitMatchesReport, WrittenInv, ExitInv
  <2>6. NothingIsLeft'
    BY DEF NothingIsLeft, PlaceInv, ExitInv, SeenInv, Matches
  <2> QED
    BY <2>1, <2>2, <2>3, <2>4, <2>5, <2>6
<1>6. CASE Render
  <2> USE <1>6 DEF Render, Throw, Continue
  <2>1. TypeInv'
    <3>1. pc' \in Steps \union {"over", "crashed"}
      OBVIOUS
    <3>2. exit' \in Statuses \union Errors \union {"none", "interrupted"}
      OBVIOUS
    <3>3. seen' \subseteq {"parent", "file"}
      OBVIOUS
    <3> QED
      BY <3>1, <3>2, <3>3
  <2>2. WrittenInv' /\ ExitInv'
    BY DEF WrittenInv, ExitInv
  <2>3. SeenInv'
    BY DEF SeenInv
  <2>4. PlaceInv'
    BY DEF PlaceInv, ExitInv, Matches
  <2>5. ExitMatchesReport'
    BY DEF ExitMatchesReport, WrittenInv, ExitInv
  <2>6. NothingIsLeft'
    BY DEF NothingIsLeft, PlaceInv, ExitInv, SeenInv, Matches
  <2> QED
    BY <2>1, <2>2, <2>3, <2>4, <2>5, <2>6
<1>7. CASE Decide
  <2> USE <1>7 DEF Decide, Continue
  <2>1. TypeInv'
    OBVIOUS
  <2>2. WrittenInv' /\ ExitInv'
    BY DEF WrittenInv, ExitInv
  <2>3. SeenInv'
    BY DEF SeenInv
  <2>4. PlaceInv'
    BY DEF PlaceInv, ExitInv, Matches
  <2>5. ExitMatchesReport'
    BY DEF ExitMatchesReport, WrittenInv, ExitInv
  <2>6. NothingIsLeft'
    BY DEF NothingIsLeft, PlaceInv, ExitInv, SeenInv, Matches
  <2> QED
    BY <2>1, <2>2, <2>3, <2>4, <2>5, <2>6
<1> QED
  BY <1>1, <1>2, <1>3, <1>4, <1>5, <1>6, <1>7

LEMMA CommitIsGood ==
  ASSUME IndInv, Commit
  PROVE  IndInv'
<1> USE DEF IndInv, fileVars, TypeInv, Statuses, Errors, Steps, Discarding
<1>1. CASE Look("check")
  <2> USE <1>1 DEF Look, InPlace
  <2>1. TypeInv'
    OBVIOUS
  <2>2. WrittenInv' /\ ExitInv'
    BY DEF WrittenInv, ExitInv
  <2>3. SeenInv'
    BY DEF SeenInv
  <2>4. PlaceInv'
    BY DEF PlaceInv, ExitInv, Matches
  <2>5. ExitMatchesReport'
    BY DEF ExitMatchesReport, WrittenInv, ExitInv
  <2>6. NothingIsLeft'
    BY DEF NothingIsLeft, PlaceInv, ExitInv, SeenInv, Matches
  <2> QED
    BY <2>1, <2>2, <2>3, <2>4, <2>5, <2>6
<1>2. CASE Assert("check", "write")
  <2> USE <1>2 DEF Assert, Matches, MayMismatch, Throw, Continue, FileFails
  <2>1. TypeInv'
    OBVIOUS
  <2>2. WrittenInv' /\ ExitInv'
    BY DEF WrittenInv, ExitInv
  <2>3. SeenInv'
    BY DEF SeenInv
  <2>4. PlaceInv'
    BY DEF PlaceInv, ExitInv
  <2>5. ExitMatchesReport'
    BY DEF ExitMatchesReport, WrittenInv, ExitInv
  <2>6. NothingIsLeft'
    BY DEF NothingIsLeft, PlaceInv, ExitInv, SeenInv
  <2> QED
    BY <2>1, <2>2, <2>3, <2>4, <2>5, <2>6
<1>3. CASE Write
  <2> USE <1>3 DEF Write, Throw, Continue, FileFails
  <2>1. TypeInv'
    <3>1. pc' \in Steps \union {"over", "crashed"}
      OBVIOUS
    <3>2. exit' \in Statuses \union Errors \union {"none", "interrupted"}
      OBVIOUS
    <3>3. seen' \subseteq {"parent", "file"}
      OBVIOUS
    <3> QED
      BY <3>1, <3>2, <3>3
  <2>2. WrittenInv' /\ ExitInv'
    BY DEF WrittenInv, ExitInv
  <2>3. SeenInv'
    BY DEF SeenInv
  <2>4. PlaceInv'
    BY DEF PlaceInv, ExitInv, Matches
  <2>5. ExitMatchesReport'
    BY DEF ExitMatchesReport, WrittenInv, ExitInv
  <2>6. NothingIsLeft'
    BY DEF NothingIsLeft, PlaceInv, ExitInv, SeenInv, Matches
  <2> QED
    BY <2>1, <2>2, <2>3, <2>4, <2>5, <2>6
<1>4. CASE Sync
  <2> USE <1>4 DEF Sync, Throw, Continue, FileFails
  <2>1. TypeInv'
    OBVIOUS
  <2>2. WrittenInv' /\ ExitInv'
    BY DEF WrittenInv, ExitInv
  <2>3. SeenInv'
    BY DEF SeenInv
  <2>4. PlaceInv'
    BY DEF PlaceInv, ExitInv, Matches
  <2>5. ExitMatchesReport'
    BY DEF ExitMatchesReport, WrittenInv, ExitInv
  <2>6. NothingIsLeft'
    BY DEF NothingIsLeft, PlaceInv, ExitInv, SeenInv, Matches
  <2> QED
    BY <2>1, <2>2, <2>3, <2>4, <2>5, <2>6
<1>5. CASE Look("recheck")
  <2> USE <1>5 DEF Look, InPlace
  <2>1. TypeInv'
    OBVIOUS
  <2>2. WrittenInv' /\ ExitInv'
    BY DEF WrittenInv, ExitInv
  <2>3. SeenInv'
    BY DEF SeenInv
  <2>4. PlaceInv'
    BY DEF PlaceInv, ExitInv, Matches
  <2>5. ExitMatchesReport'
    BY DEF ExitMatchesReport, WrittenInv, ExitInv
  <2>6. NothingIsLeft'
    BY DEF NothingIsLeft, PlaceInv, ExitInv, SeenInv, Matches
  <2> QED
    BY <2>1, <2>2, <2>3, <2>4, <2>5, <2>6
<1>6. CASE Assert("recheck", "close")
  <2> USE <1>6 DEF Assert, Matches, MayMismatch, Throw, Continue, FileFails
  <2>1. TypeInv'
    OBVIOUS
  <2>2. WrittenInv' /\ ExitInv'
    BY DEF WrittenInv, ExitInv
  <2>3. SeenInv'
    BY DEF SeenInv
  <2>4. PlaceInv'
    BY DEF PlaceInv, ExitInv
  <2>5. ExitMatchesReport'
    BY DEF ExitMatchesReport, WrittenInv, ExitInv
  <2>6. NothingIsLeft'
    BY DEF NothingIsLeft, PlaceInv, ExitInv, SeenInv
  <2> QED
    BY <2>1, <2>2, <2>3, <2>4, <2>5, <2>6
<1>7. CASE CloseAndPublish
  <2> USE <1>7 DEF CloseAndPublish, Throw, Continue, FileFails
  <2>1. TypeInv'
    OBVIOUS
  <2>2. WrittenInv' /\ ExitInv'
    BY DEF WrittenInv, ExitInv
  <2>3. SeenInv'
    BY DEF SeenInv
  <2>4. PlaceInv'
    BY DEF PlaceInv, ExitInv, Matches
  <2>5. ExitMatchesReport'
    BY DEF ExitMatchesReport, WrittenInv, ExitInv
  <2>6. NothingIsLeft'
    BY DEF NothingIsLeft, PlaceInv, ExitInv, SeenInv, Matches
  <2> QED
    BY <2>1, <2>2, <2>3, <2>4, <2>5, <2>6
<1> QED
  BY <1>1, <1>2, <1>3, <1>4, <1>5, <1>6, <1>7 DEF Commit

LEMMA DiscardIsGood ==
  ASSUME IndInv, Discard
  PROVE  IndInv'
<1> USE DEF IndInv, fileVars, TypeInv, Statuses, Errors, Steps, Discarding
<1>1. CASE Look("match")
  <2> USE <1>1 DEF Look, InPlace
  <2>1. TypeInv'
    OBVIOUS
  <2>2. WrittenInv' /\ ExitInv'
    BY DEF WrittenInv, ExitInv
  <2>3. SeenInv'
    BY DEF SeenInv
  <2>4. PlaceInv'
    BY DEF PlaceInv, ExitInv, Matches
  <2>5. ExitMatchesReport'
    BY DEF ExitMatchesReport, WrittenInv, ExitInv
  <2>6. NothingIsLeft'
    BY DEF NothingIsLeft, PlaceInv, ExitInv, SeenInv, Matches
  <2> QED
    BY <2>1, <2>2, <2>3, <2>4, <2>5, <2>6
<1>2. CASE Match
  <2> USE <1>2 DEF Match, Matches, MayMismatch, InPlace, Continue, FileFails
  <2>1. TypeInv'
    OBVIOUS
  <2>2. WrittenInv' /\ ExitInv'
    BY DEF WrittenInv, ExitInv
  <2>3. SeenInv'
    BY DEF SeenInv
  <2>4. PlaceInv'
    BY DEF PlaceInv, ExitInv
  <2>5. ExitMatchesReport'
    BY DEF ExitMatchesReport, WrittenInv, ExitInv
  <2>6. NothingIsLeft'
    BY DEF NothingIsLeft, PlaceInv, ExitInv, SeenInv
  <2> QED
    BY <2>1, <2>2, <2>3, <2>4, <2>5, <2>6
<1>3. CASE Release
  <2> USE <1>3 DEF Release, Matches, Continue
  <2>1. TypeInv'
    OBVIOUS
  <2>2. WrittenInv' /\ ExitInv'
    BY DEF WrittenInv, ExitInv
  <2>3. SeenInv'
    BY DEF SeenInv
  <2>4. PlaceInv'
    BY DEF PlaceInv, ExitInv
  <2>5. ExitMatchesReport'
    BY DEF ExitMatchesReport, WrittenInv, ExitInv
  <2>6. NothingIsLeft'
    BY DEF NothingIsLeft, PlaceInv, ExitInv, SeenInv
  <2> QED
    BY <2>1, <2>2, <2>3, <2>4, <2>5, <2>6
<1>4. CASE Remove
  <2> USE <1>4 DEF Remove, Continue, FileFails
  <2>1. TypeInv'
    OBVIOUS
  <2>2. WrittenInv' /\ ExitInv'
    BY DEF WrittenInv, ExitInv
  <2>3. SeenInv'
    BY DEF SeenInv
  <2>4. PlaceInv'
    BY DEF PlaceInv, ExitInv, Matches
  <2>5. ExitMatchesReport'
    BY DEF ExitMatchesReport, WrittenInv, ExitInv
  <2>6. NothingIsLeft'
    BY DEF NothingIsLeft, PlaceInv, ExitInv, SeenInv, Matches
  <2> QED
    BY <2>1, <2>2, <2>3, <2>4, <2>5, <2>6
<1> QED
  BY <1>1, <1>2, <1>3, <1>4 DEF Discard

LEMMA OthersAreGood ==
  ASSUME IndInv, Others \/ Signal \/ Crash
  PROVE  IndInv'
<1> USE DEF IndInv, fileVars, TypeInv, Statuses, Errors, Steps, Discarding
<1>1. CASE Others
  <2> USE <1>1 DEF Others
  <2>1. TypeInv'
    <3>1. parent' \in BOOLEAN
      BY Zenon
    <3>2. changes' \in Nat /\ slot' \in {"free", "ours", "other"}
      OBVIOUS
    <3> QED
      BY <3>1, <3>2
  <2>2. WrittenInv' /\ ExitInv'
    BY DEF WrittenInv, ExitInv
  <2>3. SeenInv'
    BY DEF SeenInv
  <2>4. PlaceInv'
    BY DEF PlaceInv, ExitInv, Matches
  <2>5. ExitMatchesReport'
    BY DEF ExitMatchesReport, WrittenInv, ExitInv
  <2>6. NothingIsLeft'
    BY DEF NothingIsLeft, PlaceInv, ExitInv, SeenInv, Matches
  <2> QED
    BY <2>1, <2>2, <2>3, <2>4, <2>5, <2>6
<1>2. CASE Signal
  <2> USE <1>2 DEF Signal
  <2>1. TypeInv'
    OBVIOUS
  <2>2. WrittenInv' /\ ExitInv'
    BY DEF WrittenInv, ExitInv
  <2>3. SeenInv'
    BY DEF SeenInv
  <2>4. PlaceInv'
    BY DEF PlaceInv, ExitInv, Matches
  <2>5. ExitMatchesReport'
    BY DEF ExitMatchesReport, WrittenInv, ExitInv
  <2>6. NothingIsLeft'
    BY DEF NothingIsLeft, PlaceInv, ExitInv, SeenInv, Matches
  <2> QED
    BY <2>1, <2>2, <2>3, <2>4, <2>5, <2>6
<1>3. CASE Crash
  <2> USE <1>3 DEF Crash
  <2>1. TypeInv'
    OBVIOUS
  <2>2. WrittenInv' /\ ExitInv'
    BY DEF WrittenInv, ExitInv
  <2>3. SeenInv'
    BY DEF SeenInv
  <2>4. PlaceInv'
    <3>1. ~wanted => slot' = slot
      BY DEF WrittenInv
    <3>2. UNCHANGED <<parent, changes, wanted>> /\ pc' = "crashed"
      OBVIOUS
    <3> QED
      BY <3>1, <3>2 DEF PlaceInv
  <2>5. ExitMatchesReport'
    BY DEF ExitMatchesReport, WrittenInv, ExitInv
  <2>6. NothingIsLeft'
    BY DEF NothingIsLeft, PlaceInv, ExitInv, SeenInv, Matches
  <2> QED
    BY <2>1, <2>2, <2>3, <2>4, <2>5, <2>6
<1> QED
  BY <1>1, <1>2, <1>3

LEMMA InitIsGood == Init => IndInv
<1> SUFFICES ASSUME Init PROVE IndInv
  OBVIOUS
<1> USE RunAssumption DEF Init, Statuses, Errors, Steps, Discarding
<1>1. TypeInv
  BY DEF TypeInv
<1>2. WrittenInv /\ ExitInv /\ SeenInv
  BY DEF WrittenInv, ExitInv, SeenInv
<1>3. PlaceInv /\ ExitMatchesReport /\ NothingIsLeft
  BY DEF PlaceInv, ExitMatchesReport, NothingIsLeft
<1> QED
  BY <1>1, <1>2, <1>3 DEF IndInv

LEMMA StepIsGood == IndInv /\ [Next]_vars => IndInv'
<1> SUFFICES ASSUME IndInv, [Next]_vars PROVE IndInv'
  OBVIOUS
<1>1. CASE UNCHANGED vars
  BY <1>1
  DEF vars, fileVars, IndInv, TypeInv, WrittenInv, ExitInv, SeenInv, PlaceInv,
              Matches, ExitMatchesReport, NothingIsLeft
<1>2. CASE Command
  BY <1>2, ReportingIsGood, CommitIsGood, DiscardIsGood DEF Command
<1>3. CASE Others \/ Signal \/ Crash
  BY <1>3, OthersAreGood
<1> QED
  BY <1>1, <1>2, <1>3 DEF Next, Rest

LEMMA CommandIsGood == Spec => []IndInv
BY InitIsGood, StepIsGood, PTL DEF Spec

(* The exit code never says more of the report than what is on the disk. *)
THEOREM ExitCodesAreTrue == Spec => []ExitMatchesReport
<1>1. IndInv => ExitMatchesReport
  BY DEF IndInv
<1> QED
  BY <1>1, CommandIsGood, PTL

(* An unpublished report is removed, unless others or a failing file system
   prevent it. *)
THEOREM UnpublishedIsRemoved == Spec => []NothingIsLeft
<1>1. IndInv => NothingIsLeft
  BY DEF IndInv
<1> QED
  BY <1>1, CommandIsGood, PTL

(* The only file of others that the command ever removes is one that came after
   discard() had looked. *)
THEOREM FilesOfOthersAreKept == Spec => OthersAreKept
<1> DEFINE Kept == slot = "other" /\ slot' # "other" =>
                     changes' > changes \/ (pc = "remove" /\ changes > foundAt)
<1>1. IndInv /\ [Next]_vars => [Kept]_vars
  <2> SUFFICES ASSUME IndInv, Next, slot = "other", slot' # "other"
               PROVE  changes' > changes \/ (pc = "remove" /\ changes > foundAt)
    BY DEF vars
  <2>1. CASE Others
    BY <2>1 DEF Others, IndInv, TypeInv
  <2>2. CASE Remove
    BY <2>2 DEF Remove, Continue, IndInv, TypeInv, SeenInv
  <2>3. ~Others /\ ~Remove => slot' = slot \/ slot # "other"
    BY DEF Next, Command, Commit, Discard, Rest, vars, fileVars, Reserve,
           ReserveFails,
           Inspect, Load, Run, Render, Look, Assert, Write, Sync,
             CloseAndPublish,
           Decide, Match, Release, Signal, Crash
  <2> QED
    BY <2>1, <2>2, <2>3
<1> QED
  BY <1>1, CommandIsGood, PTL DEF Spec, OthersAreKept

=============================================================================
