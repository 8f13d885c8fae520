----------------------------- MODULE RunCommand -----------------------------
(***************************************************************************)
(* halfack run (src/cli/commands/run.ts) with its report file              *)
(* (src/cli/exclusive-output.ts): the file is reserved before the target   *)
(* is started, written when the suite is over, and removed again if it was *)
(* not published.  Meanwhile other programs may rename, remove or create   *)
(* files in that place, any operation of the file system may fail, a       *)
(* signal may arrive and the host may crash.                               *)
(*                                                                         *)
(* Of the file system the model keeps what the destination path leads to   *)
(* and what the reserved file contains.                                    *)
(***************************************************************************)
EXTENDS Naturals

CONSTANT MaxChanges    \* bound on what other programs change

ASSUME RunAssumption == MaxChanges \in Nat

VARIABLES
  pc,         \* the awaited step
  wanted,     \* --output was given
  slot,       \* the destination: "free", "ours" (the reserved file), "other"
  parent,     \* the requested directory is still the one that was resolved
  content,    \* of the reserved file: "none", "empty", "partial", "complete"
  synced,     \* the content of the reserved file is on the disk
  seen,       \* what the identity check under way has found to be in place
  published,  \* #published
  suite,      \* the suite's status
  exit,       \* the exit code by its meaning, or "none"
  aborted,    \* the signal
  failed,     \* ghost: the steps whose file operation failed
  changes,    \* ghost: the number of changes by others
  foundAt     \* ghost: changes when discard() found the file in its place

fileVars == <<slot, parent, content, synced>>
vars == <<pc, wanted, fileVars, seen, published, suite, exit, aborted, failed,
          changes, foundAt>>

Statuses == {"pass", "violation", "inconclusive"}
Errors   == {"usage", "config", "internal"}
Steps    == {"reserve", "inspect", "load", "run", "render", "check", "write",
             "sync", "recheck", "close", "decide", "match", "release", "remove"}

Init ==
  /\ wanted \in BOOLEAN
  /\ pc = IF wanted THEN "reserve" ELSE "load"
  /\ slot \in {"free", "other"} /\ parent = TRUE
  /\ content = "none" /\ synced = FALSE
  /\ seen = {} /\ published = FALSE
  /\ suite = "none" /\ exit = "none" /\ aborted = FALSE
  /\ failed = {} /\ changes = 0 /\ foundAt = MaxChanges

Continue(from, to) == pc = from /\ pc' = to

(* An error leaves the try block; its finally clause discards the report. *)
Throw(from, error) ==
  /\ Continue(from, IF wanted THEN "match" ELSE "over")
  /\ exit' = error
  /\ seen' = {}

FileFails == failed' = failed \union {pc}

-----------------------------------------------------------------------------
(* reserveExclusiveOutput: open with "wx" creates the file or fails. *)
Reserve ==
  /\ Continue("reserve", "inspect")
  /\ slot = "free" /\ slot' = "ours" /\ content' = "empty"
  /\ UNCHANGED <<wanted, parent, synced, seen, published, suite, exit, aborted,
                 failed, changes, foundAt>>

(* The path exists, or its directory or the file cannot be had. *)
ReserveFails ==
  /\ Continue("reserve", "over")
  /\ exit' = "usage"
  /\ \/ slot # "free" /\ UNCHANGED failed
     \/ FileFails
  /\ UNCHANGED <<wanted, fileVars, seen, published, suite, aborted, changes,
                 foundAt>>

(* The identity of the reserved file.  Without it the file is left behind. *)
Inspect ==
  /\ \/ Continue("inspect", "load") /\ UNCHANGED <<exit, failed>>
     \/ Continue("inspect", "over") /\ exit' = "usage" /\ FileFails
  /\ UNCHANGED <<wanted, fileVars, seen, published, suite, aborted, changes,
                 foundAt>>

(* loadScenario. *)
Load ==
  /\ \/ Continue("load", "run") /\ UNCHANGED <<exit, seen>>
     \/ Throw("load", "config")
  /\ UNCHANGED <<wanted, fileVars, published, suite, aborted, failed, changes,
                 foundAt>>

(* runScenario, which ends early with a suite when the signal is aborted. *)
Run ==
  /\ \/ Continue("run", "render") /\ suite' \in Statuses /\ UNCHANGED <<exit, seen>>
     \/ Throw("run", "internal") /\ UNCHANGED suite
  /\ UNCHANGED <<wanted, fileVars, published, aborted, failed, changes, foundAt>>

(* createReport and its rendering; without --output the report is printed. *)
Render ==
  /\ \/ Continue("render", IF wanted THEN "check" ELSE "decide")
        /\ UNCHANGED <<exit, seen>>
     \/ Throw("render", "internal")
  /\ UNCHANGED <<wanted, fileVars, published, suite, aborted, failed, changes,
                 foundAt>>

-----------------------------------------------------------------------------
(* #reservedPathMatches looks at the directory and at the file, in any order. *)
InPlace(what) == IF what = "parent" THEN parent ELSE slot = "ours"

Look(step) ==
  /\ pc = step
  /\ \E what \in {"parent", "file"} \ seen:
       /\ InPlace(what)
       /\ seen' = seen \union {what}
       /\ foundAt' = IF step = "match" /\ what = "file" THEN changes ELSE foundAt
  /\ UNCHANGED <<pc, wanted, fileVars, published, suite, exit, aborted, failed,
                 changes>>

Matches    == seen = {"parent", "file"}
MayMismatch == \E what \in {"parent", "file"} \ seen: ~InPlace(what)

(* #assertReservedPath in commit(). *)
Assert(step, next) ==
  /\ \/ Matches /\ Continue(step, next) /\ seen' = {} /\ UNCHANGED <<exit, failed>>
     \/ MayMismatch /\ Throw(step, "config") /\ UNCHANGED failed
     \/ ~Matches /\ Throw(step, "config") /\ FileFails
  /\ UNCHANGED <<wanted, fileVars, published, suite, aborted, changes, foundAt>>

(* The writing steps of commit(): through the handle, whatever the path leads
   to by now. *)
Write ==
  /\ \/ Continue("write", "sync") /\ content' = "complete" /\ UNCHANGED <<exit, failed, seen>>
     \/ Throw("write", "config") /\ FileFails /\ content' \in {"empty", "partial"}
  /\ UNCHANGED <<wanted, slot, parent, synced, published, suite, aborted, changes,
                 foundAt>>

(* Mutant: the report is not synced. *)
Sync_Skipped ==
  /\ Continue("sync", "recheck")
  /\ UNCHANGED <<wanted, fileVars, seen, published, suite, exit, aborted, failed,
                 changes, foundAt>>

Sync ==
  /\ \/ Continue("sync", "recheck") /\ synced' = TRUE /\ UNCHANGED <<exit, failed, seen>>
     \/ Throw("sync", "config") /\ FileFails /\ UNCHANGED synced
  /\ UNCHANGED <<wanted, slot, parent, content, published, suite, aborted, changes,
                 foundAt>>

CloseAndPublish ==
  /\ \/ Continue("close", "decide") /\ published' = TRUE /\ UNCHANGED <<exit, failed, seen>>
     \/ Throw("close", "config") /\ FileFails /\ UNCHANGED published
  /\ UNCHANGED <<wanted, fileVars, suite, aborted, changes, foundAt>>

Commit ==
  \/ Look("check") \/ Assert("check", "write")
  \/ Write \/ Sync
  \/ Look("recheck") \/ Assert("recheck", "close")
  \/ CloseAndPublish

(* The exit code of a run that reported.  No other event comes between it and
   the end, since discard() of a published report has nothing to wait for. *)
Decide ==
  /\ Continue("decide", "over")
  /\ exit' = IF aborted THEN "interrupted" ELSE suite
  /\ UNCHANGED <<wanted, fileVars, seen, published, suite, aborted, failed,
                 changes, foundAt>>

-----------------------------------------------------------------------------
(* Mutant: discard() does not look at what is in place. *)
Match_Unchecked ==
  /\ Continue("match", "release")
  /\ seen' = {"parent", "file"}
  /\ UNCHANGED <<wanted, fileVars, published, suite, exit, aborted, failed,
                 changes, foundAt>>

(* discard() of a report that was not published: the file is removed, by its
   name, if it was found in its place. *)
Match ==
  /\ \/ Matches /\ UNCHANGED <<seen, failed>>
     \/ MayMismatch /\ seen' = {} /\ UNCHANGED failed
     \/ ~Matches /\ seen' = {} /\ FileFails
  /\ Continue("match", "release")
  /\ UNCHANGED <<wanted, fileVars, published, suite, exit, aborted, changes,
                 foundAt>>

(* Mutant: discard() only closes the file. *)
Release_KeepsFile ==
  /\ Continue("release", "over")
  /\ UNCHANGED <<wanted, fileVars, seen, published, suite, exit, aborted, failed,
                 changes, foundAt>>

(* The handle is closed; an error of that is ignored. *)
Release ==
  /\ Continue("release", IF Matches THEN "remove" ELSE "over")
  /\ UNCHANGED <<wanted, fileVars, seen, published, suite, exit, aborted, failed,
                 changes, foundAt>>

Remove ==
  /\ Continue("remove", "over")
  /\ \/ slot' = "free" /\ UNCHANGED failed
     \/ UNCHANGED slot /\ FileFails
  /\ UNCHANGED <<wanted, parent, content, synced, seen, published, suite, exit,
                 aborted, changes, foundAt>>

Discard == Look("match") \/ Match \/ Release \/ Remove

Command ==
  \/ Reserve \/ ReserveFails \/ Inspect \/ Load \/ Run \/ Render
  \/ Commit \/ Decide \/ Discard

-----------------------------------------------------------------------------
(* Other programs put something else in the place of the file, or put it back
   there; or move the directory.  A file of theirs may appear before and after
   the command reserves its own. *)
Others ==
  /\ changes < MaxChanges /\ changes' = changes + 1
  /\ \/ /\ slot' \in {"free", "other"} \union
                     (IF content = "none" THEN {} ELSE {"ours"})
        /\ slot' # slot /\ UNCHANGED parent
     \/ parent' = ~parent /\ UNCHANGED slot
  /\ UNCHANGED <<pc, wanted, content, synced, seen, published, suite, exit,
                 aborted, failed, foundAt>>

Signal ==
  /\ ~aborted /\ aborted' = TRUE /\ pc # "over"
  /\ UNCHANGED <<pc, wanted, fileVars, seen, published, suite, exit, failed,
                 changes, foundAt>>

(* The host stops: content that was not synced may be there or not.  The
   directory is never synced, so that the name of the reserved file may be lost,
   or be back after discard() removed it; what others put in its place is theirs
   to keep. *)
Crash ==
  /\ pc # "crashed" /\ pc' = "crashed"
  /\ content' \in IF synced \/ content = "none" THEN {content}
                  ELSE {"empty", "partial", content}
  /\ slot' \in IF slot = "other" \/ content = "none" THEN {slot}
               ELSE {"free", "ours"}
  /\ UNCHANGED <<wanted, parent, synced, seen, published, suite, exit,
                 aborted, failed, changes, foundAt>>

Rest == pc \in {"over", "crashed"} /\ UNCHANGED vars

Next == Command \/ Others \/ Signal \/ Crash \/ Rest

Spec == Init /\ [][Next]_vars

-----------------------------------------------------------------------------
(* What the exit code says of the report is true: a status or "interrupted"
   means that the complete report was written and, with --output, that its
   content is on the disk, even if the host crashes later; an error means that
   no report was published.  It says nothing of the file's name, which a crash
   may still take away. *)
ExitMatchesReport ==
  /\ published => content = "complete"
  /\ pc = "over" =>
       /\ exit \in Statuses => exit = suite
       /\ exit = "interrupted" => aborted /\ suite \in Statuses
       /\ exit \in Statuses \union {"interrupted"} => (wanted <=> published)
       /\ exit \in Errors => ~published

(* A report that was not published leaves nothing behind, whichever step of
   the run or of commit() failed; only others, or a failure of discard() itself
   or of the first look at the new file, can leave it there. *)
NothingIsLeft ==
  pc = "over" /\ ~published /\ slot = "ours" =>
    changes > 0 \/ failed \intersect {"inspect", "match", "remove"} # {}

(* A file of others is never replaced and never removed, except one that took
   the place of the reserved file after discard() had seen that one there. *)
OthersAreKept ==
  [][slot = "other" /\ slot' # "other" =>
       changes' > changes \/ (pc = "remove" /\ changes > foundAt)]_vars

=============================================================================
