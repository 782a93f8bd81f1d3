-------------------------- MODULE ArchiveInjector --------------------------
(***************************************************************************)
(* scripts/inject-pgo-profile-runtime.py beside the build it serves.       *)
(* run-pgo-resource-limited.py starts the watcher and becomes the build.   *)
(* The watcher backs the compiler archive up, puts the profile runtime     *)
(* into it, and restores it: when the build has run for a quarter of an    *)
(* hour, when it ends, and on SIGTERM or SIGINT.  The next step of the     *)
(* workflow records the archive's digest.                                  *)
(*                                                                         *)
(* A copy passes through a state in which its target is cut short.  Every  *)
(* archive is treated alike and alone, so there is one.                    *)
(***************************************************************************)
EXTENDS Integers

CONSTANTS
    MaxFaults,   \* bound on failed copies and repacks, and on SIGKILL
    MaxSignals   \* bound on SIGTERM and SIGINT

ASSUME BoundsAssumption == {MaxFaults, MaxSignals} \subseteq Nat

VARIABLES
    watcher,    \* the watcher's step
    context,    \* what a restore is part of: the loop, the handler or the finally block
    trying,     \* the main loop's try block has been entered
    runtime,    \* the profile runtime has been found
    restored,   \* restored_archive
    archive,    \* bytes of the compiler archive
    backup,     \* bytes of its .original
    cut,        \* history: the backup was cut short
    late,       \* a quarter of an hour has passed
    build,      \* the build step
    captured,   \* what capture-pgo-toolchains.py recorded
    faults,     \* how many faults have happened
    signals     \* how many signals were sent

memoryVars == <<context, trying, runtime, restored>>
buildVars == <<late, build, captured>>
vars == <<watcher, memoryVars, archive, backup, cut, buildVars, faults, signals>>

Bytes == {"original", "injected", "partial"}
Handling == {"find", "inspect", "backup", "copying", "repack", "move", "moving", "loop",
             "restore", "restoring", "unlink"}

TypeOK ==
    /\ watcher \in {"none", "boot", "gone"} \cup Handling
    /\ context \in {"loop", "handler", "finally"}
    /\ {trying, runtime, restored, cut, late} \subseteq BOOLEAN
    /\ archive \in Bytes
    /\ backup \in {"none", "original", "partial"}
    /\ build \in {"before", "running", "ended"}
    /\ captured \in Bytes \cup {"none"}
    /\ faults \in 0..MaxFaults
    /\ signals \in 0..MaxSignals

Init ==
    /\ watcher = "none" /\ context = "loop"
    /\ trying = FALSE /\ runtime = FALSE /\ restored = FALSE
    /\ archive = "original" /\ backup = "none" /\ cut = FALSE
    /\ late = FALSE /\ build = "before" /\ captured = "none"
    /\ faults = 0 /\ signals = 0

Fault == faults < MaxFaults /\ faults' = faults + 1

(***************************************************************************)
(* The build                                                               *)
(***************************************************************************)

\* The watcher is started, and the same process goes on as the build.
Exec ==
    /\ build = "before"
    /\ watcher' = "boot"
    /\ build' = "running"
    /\ UNCHANGED <<memoryVars, archive, backup, cut, late, captured, faults, signals>>

Quarter ==
    /\ build = "running"
    /\ late' = TRUE
    /\ UNCHANGED <<watcher, memoryVars, archive, backup, cut, build, captured, faults,
                   signals>>

BuildEnds ==
    /\ build = "running"
    /\ build' = "ended"
    /\ UNCHANGED <<watcher, memoryVars, archive, backup, cut, late, captured, faults,
                   signals>>

Capture ==
    /\ build = "ended" /\ captured = "none"
    /\ captured' = archive
    /\ UNCHANGED <<watcher, memoryVars, archive, backup, cut, late, build, faults,
                   signals>>

(***************************************************************************)
(* Injection                                                               *)
(***************************************************************************)

InstallHandlers ==
    /\ watcher = "boot"
    /\ watcher' = "find"
    /\ UNCHANGED <<memoryVars, archive, backup, cut, buildVars, faults, signals>>

\* find_runtime, before the loop and in it until it succeeds.
FindRuntime ==
    /\ watcher = "find"
    /\ runtime' \in {runtime, TRUE}
    /\ watcher' = IF runtime' THEN "inspect" ELSE "loop"
    /\ UNCHANGED <<context, trying, restored, archive, backup, cut, buildVars, faults, signals>>

\* An archive that holds the runtime already, or that tar cannot list, is left alone.
Inspect ==
    /\ watcher = "inspect"
    /\ watcher' = IF archive # "original" THEN "loop"
                  ELSE IF backup = "none" THEN "backup" ELSE "repack"
    /\ UNCHANGED <<memoryVars, archive, backup, cut, buildVars, faults, signals>>

BackupBegins ==
    /\ watcher = "backup"
    /\ backup' = "partial"
    /\ watcher' = "copying"
    /\ UNCHANGED <<memoryVars, archive, cut, buildVars, faults, signals>>

BackupEnds ==
    /\ watcher = "copying"
    /\ backup' = archive
    /\ watcher' = "repack"
    /\ UNCHANGED <<memoryVars, archive, cut, buildVars, faults, signals>>

\* The exception is logged and the file stays.
BackupFails ==
    /\ watcher = "copying"
    /\ Fault
    /\ cut' = TRUE
    /\ watcher' = "loop"
    /\ UNCHANGED <<memoryVars, archive, backup, buildVars, signals>>

\* Unpacking, appending and packing happen in a temporary directory.
Repack ==
    /\ watcher = "repack"
    /\ \/ watcher' = "move" /\ UNCHANGED faults
       \/ Fault /\ watcher' = "loop"
    /\ UNCHANGED <<memoryVars, archive, backup, cut, buildVars, signals>>

\* Deviation: the repacked archive is moved to the backup's name.
MoveToBackup ==
    /\ watcher = "move"
    /\ backup' = "injected"
    /\ watcher' = "loop"
    /\ UNCHANGED <<memoryVars, archive, cut, buildVars, faults, signals>>

\* shutil.move renames, or copies when the temporary directory is on another device.
Move ==
    /\ watcher = "move"
    /\ \/ archive' = "injected" /\ watcher' = "loop"
       \/ archive' = "partial" /\ watcher' = "moving"
    /\ UNCHANGED <<memoryVars, backup, cut, buildVars, faults, signals>>

MoveEnds ==
    /\ watcher = "moving"
    /\ \/ archive' = "injected" /\ UNCHANGED faults
       \/ Fault /\ UNCHANGED archive
    /\ watcher' = "loop"
    /\ UNCHANGED <<memoryVars, backup, cut, buildVars, signals>>

(***************************************************************************)
(* The loop and the restore                                                *)
(***************************************************************************)

\* Deviation: the loop ends without a finally block.
LeaveLoopAtOnce ==
    /\ watcher = "loop"
    /\ build = "ended"
    /\ watcher' = "gone"
    /\ UNCHANGED <<memoryVars, archive, backup, cut, buildVars, faults, signals>>

\* The build's process is gone, or the watcher has lived for 280 minutes.
LeaveLoop ==
    /\ watcher = "loop"
    /\ build = "ended" \/ late
    /\ trying' = TRUE
    /\ context' = "finally"
    /\ watcher' = "restore"
    /\ UNCHANGED <<runtime, restored, archive, backup, cut, buildVars, faults, signals>>

\* Deviation: the runtime is looked for and injected in every iteration.
IterateAfresh ==
    /\ watcher = "loop" /\ build = "running"
    /\ trying' = TRUE
    /\ \/ watcher' = "find" /\ UNCHANGED context
       \/ late /\ ~restored /\ watcher' = "restore" /\ context' = "loop"
    /\ UNCHANGED <<runtime, restored, archive, backup, cut, buildVars, faults, signals>>

\* One iteration: the runtime is looked for once more, or the archive is restored.
Iterate ==
    /\ watcher = "loop" /\ build = "running"
    /\ trying' = TRUE
    /\ \/ ~runtime /\ watcher' = "find" /\ UNCHANGED context
       \/ late /\ ~restored /\ watcher' = "restore" /\ context' = "loop"
    /\ UNCHANGED <<runtime, restored, archive, backup, cut, buildVars, faults, signals>>

\* Where restore_compiler_archives returns to; sys.exit in the handler unwinds to the
\* finally block if the signal came in the try block.
Return ==
    /\ watcher' = IF context = "loop" THEN "loop"
                  ELSE IF context = "handler" /\ trying THEN "restore" ELSE "gone"
    /\ context' = IF context = "handler" THEN "finally" ELSE context

RestoreBegins ==
    /\ watcher = "restore"
    /\ IF backup = "none"
       THEN Return /\ UNCHANGED archive
       ELSE archive' = "partial" /\ watcher' = "restoring" /\ UNCHANGED context
    /\ UNCHANGED <<trying, runtime, restored, backup, cut, buildVars, faults, signals>>

RestoreEnds ==
    /\ watcher = "restoring"
    /\ archive' = backup
    /\ watcher' = "unlink"
    /\ UNCHANGED <<memoryVars, backup, cut, buildVars, faults, signals>>

\* Deviation: the backup is removed whether or not it could be copied.
RestoreFailsUnlinking ==
    /\ watcher = "restoring"
    /\ Fault
    /\ backup' = "none"
    /\ Return
    /\ UNCHANGED <<trying, runtime, restored, archive, cut, buildVars, signals>>

\* A failed copy is logged and leaves the backup for the next attempt.
RestoreFails ==
    /\ watcher = "restoring"
    /\ Fault
    /\ Return
    /\ UNCHANGED <<trying, runtime, restored, archive, backup, cut, buildVars, signals>>

Unlink ==
    /\ watcher = "unlink"
    /\ backup' = "none"
    /\ restored' = (restored \/ context = "loop")
    /\ Return
    /\ UNCHANGED <<trying, runtime, archive, cut, buildVars, faults, signals>>

\* SIGTERM or SIGINT: the default action ends the watcher until the handlers are there.
Signal ==
    /\ signals < MaxSignals
    /\ watcher \in Handling \cup {"boot"}
    /\ signals' = signals + 1
    /\ IF watcher = "boot"
       THEN watcher' = "gone" /\ UNCHANGED <<context, trying, cut>>
       ELSE /\ watcher' = "restore"
            /\ context' = "handler"
            /\ trying' = (trying /\ context # "finally")
            /\ cut' = (cut \/ watcher = "copying")
    /\ UNCHANGED <<runtime, restored, archive, backup, buildVars, faults>>

\* SIGKILL, and the runner's cleaning up.
Killed ==
    /\ watcher \in Handling \cup {"boot"}
    /\ Fault
    /\ cut' = (cut \/ watcher = "copying")
    /\ watcher' = "gone"
    /\ UNCHANGED <<memoryVars, archive, backup, buildVars, signals>>

Finished ==
    /\ watcher = "gone" /\ captured # "none"
    /\ UNCHANGED vars

Watch ==
    \/ InstallHandlers \/ FindRuntime \/ Inspect \/ BackupBegins \/ BackupEnds \/ Repack
    \/ Move \/ MoveEnds \/ LeaveLoop \/ Iterate \/ RestoreBegins \/ RestoreEnds \/ Unlink

Next ==
    \/ Watch \/ BackupFails \/ RestoreFails \/ Signal \/ Killed
    \/ Exec \/ Quarter \/ BuildEnds \/ Capture
    \/ Finished

Spec == Init /\ [][Next]_vars

\* The watcher never blocks: it sleeps two seconds between iterations.
Fairness == WF_vars(Watch)

FairSpec == Spec /\ Fairness

(***************************************************************************)
(* Properties                                                              *)
(***************************************************************************)

\* The archive's original bytes exist somewhere at every moment, through signals, kills and
\* failed copies, so that a watcher that comes back can restore them; except when the copy
\* that makes the backup was itself cut short.
OriginalKept == archive = "original" \/ backup = "original" \/ cut

\* Once the archive is restored in the middle of a build it stays so, and the step after
\* the build records its original bytes.
RestoredStays ==
    [][(restored /\ ~cut) => archive = "original" /\ captured' \in {captured, "original"}]_vars

\* "Automatically restores the original compiler archives": when the build has ended, the
\* watcher ends with the archive restored, however many signals interrupt it.  After a copy
\* that failed or was cut short, or a kill of the watcher, only its end is claimed.
RestoredInTheEnd ==
    build = "ended" ~> (watcher = "gone" /\ (archive = "original" \/ cut \/ faults > 0))

\* "Restore cached archives to their exact original bytes": what a finished restore leaves
\* in the archive's place is the original.
RestoredExactly == watcher = "unlink" => archive = "original"
=============================================================================
