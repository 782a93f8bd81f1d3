--------------------------- MODULE ProfileTraining ---------------------------
(***************************************************************************)
(* The pgo-train job: scripts/train-pgo.ps1 with run-profileserver and     *)
(* record-training of scripts/profile-artifacts.py, on Windows.            *)
(*                                                                         *)
(* mach runs the bootstrap and then the pinned profile server, which       *)
(* starts browsers.  Each browser process writes a raw profile as it       *)
(* ends, into the source directory; nothing makes mach wait for all of     *)
(* them.  The job moves the raw profiles to its output directory, records  *)
(* their hashes and hands the directory on as an artifact.  The jar log is *)
(* bound by its hash in the same way and stands under the raw profiles.    *)
(***************************************************************************)
EXTENDS Integers

CONSTANTS
    Browsers,         \* processes that write a raw profile each
    MaxTrainFaults    \* bound on failures around the training job

ASSUME TrainingAssumption == Browsers # {} /\ MaxTrainFaults \in Nat

VARIABLES
    train,       \* the step of the job
    command,     \* what run_logged runs: the bootstrap or the profile server
    stopping,    \* why the process tree was stopped
    status,      \* native-status.json
    mach,        \* the process run_logged waits for
    browser,     \* the browser processes
    source,      \* raw profiles in the Firefox source directory
    moving,      \* those the finally block has yet to move
    output,      \* raw profiles in the output directory
    errors,      \* a log reports a crash or a profile error, or a minidump exists
    manifest,    \* training-manifest.json: the raw profiles as recorded
    artifact,    \* the uploaded directory: its raw profiles, manifest and logs
    trainFaults

commandVars == <<command, stopping, status>>
processVars == <<mach, browser, source>>
resultVars == <<output, manifest, artifact>>
trainVars == <<train, commandVars, processVars, moving, errors, resultVars, trainFaults>>

Raw == [Browsers -> {"none", "partial", "whole"}]
NoRaw == [b \in Browsers |-> "none"]
Missing == [state |-> "missing"]
Artifact == [state : {"uploaded"}, raw : [Browsers -> {"none", "partial", "whole", "damaged"}],
             manifest : Raw, errors : BOOLEAN]
Exit == {"none", "zero", "nonzero"}

TrainOver == {"trained", "failed", "lost"}

TrainTypeOK ==
    /\ train \in {"launch", "wait", "stop", "stop_wait", "save", "move", "logs", "record",
                  "upload"} \cup TrainOver
    /\ command \in {"bootstrap", "profileserver"}
    /\ stopping \in {"no", "timeout", "interrupt"}
    /\ status \in [bootstrap : Exit, profileserver : Exit, timed_out : BOOLEAN]
    /\ mach \in {"none", "running", "zero", "nonzero", "killed"}
    /\ browser \in [Browsers -> {"none", "running", "writing", "gone"}]
    /\ {source, output} \subseteq Raw
    /\ moving \subseteq Browsers
    /\ errors \in BOOLEAN
    /\ manifest \in Raw
    /\ artifact \in Artifact \cup {Missing}
    /\ trainFaults \in 0..MaxTrainFaults

\* Stale output, source and package directories were refused before.
TrainInit ==
    /\ train = "launch" /\ command = "bootstrap" /\ stopping = "no"
    /\ status = [bootstrap |-> "none", profileserver |-> "none", timed_out |-> FALSE]
    /\ mach = "none" /\ browser = [b \in Browsers |-> "none"]
    /\ source = NoRaw /\ moving = {} /\ output = NoRaw
    /\ errors = FALSE /\ manifest = NoRaw /\ artifact = Missing
    /\ trainFaults = 0

TrainFault == trainFaults < MaxTrainFaults /\ trainFaults' = trainFaults + 1

(***************************************************************************)
(* The process tree                                                        *)
(***************************************************************************)

Alive(b) == browser[b] \in {"running", "writing"}

BrowserStarts(b) ==
    /\ command = "profileserver" /\ mach = "running" /\ browser[b] = "none"
    /\ browser' = [browser EXCEPT ![b] = "running"]
    /\ UNCHANGED <<train, commandVars, mach, source, moving, errors, resultVars, trainFaults>>

BrowserWrites(b) ==
    /\ browser[b] = "running"
    /\ browser' = [browser EXCEPT ![b] = "writing"]
    /\ source' = [source EXCEPT ![b] = "partial"]
    /\ UNCHANGED <<train, commandVars, mach, moving, errors, resultVars, trainFaults>>

BrowserEnds(b) ==
    /\ browser[b] = "writing"
    /\ browser' = [browser EXCEPT ![b] = "gone"]
    /\ source' = [source EXCEPT ![b] = "whole"]
    /\ UNCHANGED <<train, commandVars, mach, moving, errors, resultVars, trainFaults>>

\* A crash may be reported or leave no trace but a cut profile.
BrowserDies(b) ==
    /\ Alive(b)
    /\ TrainFault
    /\ browser' = [browser EXCEPT ![b] = "gone"]
    /\ errors' \in {errors, TRUE}
    /\ UNCHANGED <<train, commandVars, mach, source, moving, resultVars>>

MachEnds ==
    /\ mach = "running"
    /\ mach' \in {"zero", "nonzero"}
    /\ UNCHANGED <<train, commandVars, browser, source, moving, errors, resultVars, trainFaults>>

(***************************************************************************)
(* run_logged and stop_process_tree                                        *)
(***************************************************************************)

Launch ==
    /\ train = "launch"
    /\ mach' = "running"
    /\ train' = "wait"
    /\ UNCHANGED <<commandVars, browser, source, moving, errors, resultVars, trainFaults>>

Returned ==
    /\ train = "wait" /\ mach \in {"zero", "nonzero"}
    /\ status' = [status EXCEPT ![command] = mach]
    /\ IF mach = "zero" /\ command = "bootstrap"
       THEN command' = "profileserver" /\ train' = "launch"
       ELSE train' = "save" /\ UNCHANGED command
    /\ UNCHANGED <<stopping, processVars, moving, errors, resultVars, trainFaults>>

Expired ==
    /\ train = "wait" /\ mach = "running"
    /\ stopping' = "timeout"
    /\ train' = "stop"
    /\ UNCHANGED <<command, status, processVars, moving, errors, resultVars, trainFaults>>

Interrupted ==
    /\ train = "wait"
    /\ TrainFault
    /\ stopping' = "interrupt"
    /\ train' = "stop"
    /\ UNCHANGED <<command, status, processVars, moving, errors, resultVars>>

\* taskkill /T misses a process whose parent is gone, and its exit status is not read;
\* when it cannot be run, only mach is killed.
StopTree ==
    /\ train = "stop"
    /\ \E dead \in SUBSET {b \in Browsers : Alive(b)} :
          browser' = [b \in Browsers |-> IF b \in dead THEN "gone" ELSE browser[b]]
    /\ mach' \in {mach, "killed"}
    /\ train' = "stop_wait"
    /\ UNCHANGED <<commandVars, source, moving, errors, resultVars, trainFaults>>

\* Deviation: the process is waited for and not killed a second time.
StopWaitPatiently ==
    /\ train = "stop_wait"
    /\ mach # "running"
    /\ status' = IF stopping = "timeout"
                 THEN [status EXCEPT ![command] = "nonzero", !.timed_out = TRUE] ELSE status
    /\ train' = "save"
    /\ UNCHANGED <<command, stopping, processVars, moving, errors, resultVars, trainFaults>>

\* 124 becomes the exit code of a timeout, an interrupt leaves the status as it is, and
\* so does a process that outlives its second kill.
StopWait ==
    /\ train = "stop_wait"
    /\ \/ /\ mach' = IF mach = "running" THEN "killed" ELSE mach
          /\ status' = IF stopping = "timeout"
                       THEN [status EXCEPT ![command] = "nonzero", !.timed_out = TRUE] ELSE status
          /\ UNCHANGED trainFaults
       \/ /\ mach = "running" /\ TrainFault
          /\ UNCHANGED <<mach, status>>
    /\ train' = "save"
    /\ UNCHANGED <<command, stopping, browser, source, moving, errors, resultVars>>

(***************************************************************************)
(* The rest of the job                                                     *)
(***************************************************************************)

\* The finally block saves the status and lists the raw profiles once.
Save ==
    /\ train = "save"
    /\ moving' = {b \in Browsers : source[b] # "none"}
    /\ train' = "move"
    /\ UNCHANGED <<commandVars, processVars, errors, resultVars, trainFaults>>

\* Windows neither renames nor deletes a file that its writer holds open: shutil.move
\* falls back to a copy and then fails.
Move(b) ==
    /\ train = "move" /\ b \in moving
    /\ output' = [output EXCEPT ![b] = source[b]]
    /\ IF browser[b] = "writing"
       THEN train' = "failed" /\ UNCHANGED <<source, moving>>
       ELSE /\ source' = [source EXCEPT ![b] = "none"]
            /\ moving' = moving \ {b}
            /\ UNCHANGED train
    /\ UNCHANGED <<commandVars, mach, browser, errors, manifest, artifact, trainFaults>>

MovesEnd ==
    /\ train = "move" /\ moving = {}
    /\ train' = IF status.profileserver = "zero" THEN "logs" ELSE "failed"
    /\ UNCHANGED <<commandVars, processVars, moving, errors, resultVars, trainFaults>>

\* check_training_logs, and the look of train-pgo.ps1 for raw profiles.
CheckLogs ==
    /\ train = "logs"
    /\ train' = IF ~errors /\ output # NoRaw THEN "record" ELSE "failed"
    /\ UNCHANGED <<commandVars, processVars, moving, errors, resultVars, trainFaults>>

Record ==
    /\ train = "record"
    /\ IF /\ status = [bootstrap |-> "zero", profileserver |-> "zero", timed_out |-> FALSE]
          /\ ~errors /\ output # NoRaw
       THEN manifest' = output /\ train' = "upload"
       ELSE train' = "failed" /\ UNCHANGED manifest
    /\ UNCHANGED <<commandVars, processVars, moving, errors, output, artifact, trainFaults>>

\* The hosted runner goes with its job, and what still ran on it.
Upload ==
    /\ train = "upload"
    /\ browser' = [b \in Browsers |-> "gone"] /\ source' = NoRaw
    /\ artifact' = [state |-> "uploaded", raw |-> output, manifest |-> manifest,
                    errors |-> errors]
    /\ train' = "trained"
    /\ UNCHANGED <<commandVars, mach, moving, errors, output, manifest, trainFaults>>

ArtifactDamaged(b) ==
    /\ artifact # Missing
    /\ TrainFault
    /\ artifact' = [artifact EXCEPT !.raw[b] = "damaged"]
    /\ UNCHANGED <<train, commandVars, processVars, moving, errors, output, manifest>>

TrainLost ==
    /\ train \notin TrainOver
    /\ TrainFault
    /\ train' = "lost"
    /\ UNCHANGED <<commandVars, processVars, moving, errors, resultVars>>

(***************************************************************************)
(* What the merge job makes of the artifact                                *)
(***************************************************************************)

\* Deviation: llvm-profdata may leave a malformed raw profile out.
MergeAcceptsMalformed ==
    /\ artifact # Missing
    /\ artifact.raw = artifact.manifest
    /\ ~artifact.errors

\* validate_training: recorded names and hashes; --failure-mode=any: no malformed input.
MergeAccepts ==
    /\ artifact # Missing
    /\ artifact.raw = artifact.manifest
    /\ ~artifact.errors
    /\ \A b \in Browsers : artifact.raw[b] # "partial"

JobStep ==
    \/ Launch \/ Returned \/ Expired \/ StopTree \/ StopWait
    \/ Save \/ (\E b \in Browsers : Move(b)) \/ MovesEnd \/ CheckLogs \/ Record \/ Upload

TrainNext ==
    \/ JobStep \/ Interrupted \/ TrainLost \/ MachEnds
    \/ \E b \in Browsers : \/ BrowserStarts(b) \/ BrowserWrites(b) \/ BrowserEnds(b)
                           \/ BrowserDies(b) \/ ArtifactDamaged(b)

\* The job's steps are bounded by the timeouts of its waits.
TrainFairness == WF_trainVars(JobStep)
=============================================================================
