# A model of the PGO overlay's control logic

This directory holds TLA+ specifications of the programs in `scripts/` and of the
workflows in `.github/workflows/` that call them: what they promise, where concurrency,
crashes and retries can break it, TLC configurations that check it on small instances, and
TLAPS proofs of their invariants, action properties and refinements for every instance.

## 1. The system

A chain of GitHub Actions jobs builds a profile-guided Windows browser on top of pinned
upstream sources. Jobs run on fresh machines and can be lost at any moment, so everything
worth keeping goes through GitHub: Release assets hold build outputs ("checkpoints"), a
Check holds diagnostics, artifacts hold the rest. Bash and workflow files sequence the
work; the logic is in about twenty Python programs.

| Component | State it keeps | Operations | Interacts with | Hard behaviour | Correct means |
|---|---|---|---|---|---|
| Release checkpoints (`rbm-release-artifacts.py`) | the Release's assets and their upload state; `out/`; local registries | `stage-complete`, `restore`, `restore-required`, `snapshot`, `publish` | GitHub, the workflow steps that read its exit status, other runs | runs lost between any two calls, uploads finished after their client gave up, deletes by an old listing, non-reproducible builds | the registry commits the stage: it never names bytes that are not there, and success is for good |
| Durable telemetry (`publish-rbm-telemetry.py`) | the state file, the Check, the worker's counters | `start`, the detached worker, `stop` | the observer's resource log, GitHub's Checks API, signals | timeouts and late answers, signals between answer and write, pid reuse | the build starts only after an acknowledged check; nothing is claimed that GitHub has not stored |
| Build observer (`observe-rbm-build.py`) | the child's process group, its pipe, the resource log | `run_build` | the runner's signals, RBM, the telemetry worker | signals at any step, children that ignore them, escape or keep the pipe | honest exit code, complete log, no process left, no hang |
| Archive injector (`inject-pgo-profile-runtime.py`) | the compiler archive, its `.original` | inject, restore | the build in the same directory, the step that records the archive, signals | files replaced under readers, signals in the middle of a copy | the original bytes are never lost and come back |
| Training and profile checkpoint (`train-pgo.ps1`, `profile-artifacts.py`) | native status, raw profiles in three places, the manifest; the profile's prerelease; `profile-use` | `run-profileserver`, `record-training`, the merge's validation, `publish`, `restore` | browsers that write as they end, GitHub, the jobs of `windows-pgo.yml` | browsers that outlive `mach`, timeouts, requests of lost runners | only a whole profile of an undisturbed training is published, and it stays |
| Metadata retries (`rbm_network.py`) | attempts | `showconf` | RBM, git | which failures may be retried | at most three attempts, only for the one transient failure |
| Upstream lock (`resolve-upstream.sh`, `fetch-upstream.sh`) | `upstream.lock.json`, the checkout | resolve, fetch | git, GPG | replacement of the lock, bounded retries | a lock is whole and verified |
| Resource gate (`validate-pgo-resource-policy.py`, `probe-rbm-resource-control.py`, `run-pgo-resource-limited.py`) | the report, the progress trace, the policy file | validate, bounded native calls, admit and exec | the kernel's affinity, RBM metadata, the work trees and archives | everything it reads may change under it; descendants of a call; signals | a policy means one snapshot of what the build reads, and no build outside its envelope |
| Windows runtime check (`windows-runtime-check.py`) | a job object per command, the installations, the shared uninstall key, the report | `run_native`, `run_checks` | installers, uninstallers with a second process, browsers | process trees, timeouts, one key for two installations, failures in the finally block | a passed report is measured and leaves nothing behind |
| Pipeline (`pgo-stage4a.yml`, `windows-pgo.yml` and the called workflows) | outputs handed from job to job | jobs and gates | all of the above | reruns, skipped jobs | every consumer uses the identity its producer verified |

The remaining programs (identities, provenance, source preparation, packaging, rendering,
patches) are sequential; `PROJECT.json` lists each with the reason it is not modelled.

## 2. Modules

| Module | Models | |
|---|---|---|
| `CheckpointStore` | what a checkpoint promises: a write-once record | abstract specification |
| `ReleaseCheckpoint` | the checkpoint protocol on a shared Release, with the step that reads the exit status | component |
| `DurableLog` | what the diagnostics promise: a claim about kept snapshots | abstract specification |
| `MCReleaseCheckpoint` | symmetry sets for TLC | model checking |
| `Telemetry` | start, worker, stop, and the Checks API | component |
| `RequestBudget` | how often the worker may write: two sliding windows | component, proved only |
| `Observer` | `run_build`, the runner's signals, the build's processes | component |
| `ArchiveInjector` | the watcher, the build and the step after it | component |
| `ProfileTraining` | the job `pgo-train` with `mach`, its browsers and the artifact it uploads | component |
| `ProfileCheckpoint` | publish in the job `pgo-merge`, the prerelease, restore | component |
| `ProfilePipeline` | training, merge attempts and readers together | composition |
| `ResourceGate` | the gate, its native calls, the limiter | component |
| `RuntimeCheck` | `run_native` and `run_checks` with what they run | component |
| `*_proofs` (eight modules) | theorems about the module of the same name | proofs |

Every module names the deviations used as mutants directly above the definition they
deviate from (`\* Deviation: ...`). No deviation is part of a specification.

### The abstract specifications

`CheckpointStore` is a write-once record: a stage gets one content for good, which may be
withdrawn and shown again only until somebody has been told that the stage is finished. Two
protocols implement it by different means, with different mappings:

| `CheckpointStore` | `ReleaseCheckpoint` | `ProfileCheckpoint` |
|---|---|---|
| `value` | the only member of `commits` | the profile, once a registry and all payloads could be downloaded |
| `visible` | a registry can be downloaded | the same, and it never ends |
| `answered` | jobs that ended with status 0 | merge attempts that reported the profile published, readers that put it in place |
| how it keeps the promise | the registry last, one run at a time | no asset is ever deleted or replaced |

`DurableLog` says what the state file, the Check and the build owe each other: `Keep` (GitHub
has a snapshot), `Claim` (the file names a kept snapshot, not an older one than before),
`Close` (its last word) and `Grant` (the build starts, on a claim). In `Telemetry` a claim is
the acknowledged snapshot of a state file that has left the phase "starting", and `Close` is
the phase "ended".

### ReleaseCheckpoint

A *job* is one workflow run that executes the stage (`Runs`) or one that only restores it
with `restore-required` (`Readers`). `pc` names the call a job makes next; one action is the
stretch of code between two answers of GitHub that the code keeps and uses later. The
downloads that follow one registry are one step, because their only effect is a verdict.
`asset` is the Release by name: an asset is absent, a *starter* (upload begun, not
finished) or uploaded; ids grow, which is what `delete_incomplete_asset` deletes by.
`listed` and `seen` are the answers the code holds on to.

| Code | Actions |
|---|---|
| `stage_complete` and its step | `Begin`, `CheckListing`, `CheckRegistry`, `CheckBytes`, `CheckFails`, `Decide` |
| `restore`, the build | `RestoreListing`, `RestoreRegistry`, `RestoreOutputs`, `Build` |
| `restore_required` | `RequireListing`, `RequireRegistry`, `RequireBytes` |
| `publish` | `PublishListing`, `VerifyRegistry`, `VerifyCommitted`, `CreateRelease` |
| `upload_asset` | `UploadListing`, `DeleteIncomplete`, `Send`, `SendReturns`, `SendFails`, `ConfirmListing`, `VerifyUploaded` |
| GitHub, the runner | `Land`, `Lose` |

Workflows differ in three constants: `Serialised` (one concurrency group for all runs that
share the Release, as `build-rbm-dependencies.yml` and `pgo-support.yml`), `StrictGate`
(exit status 2 stops the job) and `RestoresFirst`. `Digests` says whether the listing gives
digests; without them only the download tells.

### Telemetry

Snapshots are numbers: snapshot *n* holds *n* resource records, so that "acknowledged" and
"stored" can be compared. `file` is the state file, `state` the worker's copy, `known` the
local `ready` of `run_worker`. `flight` holds requests GitHub may still carry out; a timeout
leaves its request there or not. SIGTERM raises `WorkerStop`: it ends the `try` block from
any of its steps, and cuts the `finally` block short. `holder` and `handle` are the process
behind the worker's pid and behind the pidfd of `stop`. The retry delay and the request
budget only delay the next attempt and are left out; the step is then possible at any time.

### RequestBudget

The worker may record 30 writes a minute and 400 an hour, wherever the minute or hour begins.
`sent` is the history of the recorded times, `writes` the deque, as the set of the writes
that are still in it (the clock is monotonic, so the order of times is that of numbers and
popping old ones from the left is leaving out all that are old). `Refuse` and `Publish` are
the two branches of `run_worker` after `delay`; `Record` asks for the delay again, as the code
does. Windows and limits are constants, in ticks of any size. The times are those handed to
`record`; the request follows.

### Observer

One iteration of the loop is `Drain`/`Forward` for each signal on the list, `Poll`, `Kill`,
`Leave`, `Read`. Time is two flags that may flip at any moment once they run (the grace and
the drain), which covers every value of the two constants. `open`, `kin` and `stray` are
whoever holds the pipe: the child, a member of its group, a process that left the group.

Every record goes through `Record`: it is `Written`, or it is `Unwritten`, because `snapshot`
and `Output.write` (lines 115-125 and 395-401) swallow a failure with a warning on the console,
and the caller goes on as if it had been written. So a signal is forwarded even if its record
is lost. `noted` counts the signal records in the log, `missed` those that could not be
written, and `shown` says that some record names a cancellation: each record carries the
signal observed so far, the next one therefore also makes up for a lost one. `copied` counts
the blocks taken from the pipe; their writes to the build log are swallowed in the same way,
and not modelled.

### ArchiveInjector

`watcher` is the program point and `context` says what a restore returns to: the loop, the
signal handler (which exits through the `finally` block if it interrupted the `try` block)
or the `finally` block. Copies take two steps, with a cut-off target in between.

### ProfileTraining, ProfileCheckpoint, ProfilePipeline

A browser writes its raw profile as it ends, and nothing makes `mach` wait for all of them;
so a profile is in the source directory, in the output directory, in the manifest and in the
artifact at different times, each time `none`, `partial` or `whole`. The job's `finally`
block moves what it lists, one file at a time, while browsers may still write.

| Code | Actions |
|---|---|
| `run_logged`, the process tree | `Launch`, `Returned`, `Expired`, `Interrupted`, `StopTree`, `StopWait` |
| the `finally` block, the status file | `Save`, `Move`, `MovesEnd` |
| the checks of `train-pgo.ps1`, `record_training`, the upload | `CheckLogs`, `Record`, `Upload` |
| `mach`, browsers, runner, artifact store | `MachEnds`, `Browser...`, `TrainLost`, `ArtifactDamaged` |
| `validate_training` and the merge | `MergeAccepts`, `Merge` |
| `publish` | `CreateRelease`, `List`, `Compare`, `Reuse`, `Send`, `Answered`, `UploadsEnd`, `Verify` |
| the job and its runner | `Begin`, `AttemptFails`, `JobTimeout` |
| GitHub | `Arrive`, `Store` |
| `restore` | `RestoreListing`, `Fetch`, `Place`, `Replace`, `ReaderFails`, `RestoreAgain` |

The profile's identity binds every byte of the bundle, so all attempts at one identity hold
the same bundle and an asset's bytes are `right` or `damaged`; an upload that has begun is a
`starter`. Unlike `ReleaseCheckpoint`, `publish` deletes nothing, and uploads that are still
under way can be finished by the server after their runner is gone. `listed` is what the
attempt knows, `request` and `item` what it has sent. `ProfilePipeline` couples the modules
in one place: the merge accepts what `MergeAccepts` says of the artifact, and no attempt
begins before the training job has succeeded.

### ResourceGate

The gate is one sequence of phases (`Order`), with the three cases as a loop in it; `phase`
is the phase in the program's own progress trace. What it reads are five *facets*: inputs,
sources, registries, archives, and the inventory of files. A facet is a version number, and
`recorded` is the version the gate has read first. `Change` and `CpusChange` may happen
between any two steps.

| Code | Actions |
|---|---|
| `main`, the first readings | `Begin`, `Preflight`, `LoadInputs`, `SourceRecords`, `RegistryRecords`, `ArchiveRecords`, `Inventory` |
| `run_native` of the probe | `Launch`, `Collect`, `ExpireCall` |
| the guard's answers and their cache | `Answer` in `Collect` |
| the readings of each case and the second readings | `SelectedInputs`, `CheckAgain`, `Compare`, `ParentAfter` |
| the records and the policy | `FinalReport`, `Finish`, `Publish`, `ExitVerified` |
| `Deadline`, `main`'s signals, exceptions | `Expire`, `Cancel`, `WriteFails`, `Fail` |
| the limiter | `Admit`, `Execute` |
| processes of a call | `LeaderForks`, `LeaderExits`, `HelperMoves` |

### RuntimeCheck

`step` is the step of `run_checks`, `native` that of the command it runs. `root` is the
process `run_native` has created and `child` a descendant, in the job or outside of it (it is
outside only if it was started before the process was assigned, which is why the process is
created suspended). Installers and uninstallers change their tree and the shared key at any
time while they or their child run.

| Code | Actions |
|---|---|
| `run_native` | `Create`, `Assign`, `Resume`, `RootEnded`, `Drained`, `TimesOut` |
| verification, installation, comparison | `Packages`, `Origin`, `Registered`, `Stage`, `Unpack`, `Verify`, `Copy`, `Recheck`, `Compare` |
| the return of a command, the measurement | `Returned` with `Measure`, `Failed`, `Summary` |
| the finally block | `CleanupNothing`, `Registry`, `Work`, `Report` |
| the commands themselves | `InstallerWorks`, `UninstallerWorks`, `RootForks`, `RootExits`, `ChildEnds` |
| the runner | `Interrupt`, `Killed` |

## 3. Runs

| Run | Question | Bounds and why they suffice |
|---|---|---|
| `ReleaseSerial` | is the checkpoint a write-once record? | 3 runs (one interrupted, one that resumes, one that finds it done), a reader, 2 payloads (an order matters), 2 possible builds, 2 faults, damaged uploads, no digests |
| `ReleaseRecovery` | does an interrupted publication recover? | 3 runs against 2 faults, reproducible build, fairness |
| `ReleaseConcurrent` | what if two refs share a Release? | 2 runs, 1 payload, no fault: violated |
| `ReleaseAndroid` | does android.yml rebuild only on status 1? | 2 runs, 1 fault: violated |
| `Telemetry` | is everything claimed stored, is `DurableLog` implemented, does everything end? | 2 records and a terminal one (two PATCHes can overtake each other), 3 faults |
| `Observer` | honest code, complete log, nobody left, no hang? | 2 signals (the second cuts the grace short), 2 blocks, 2 faults (a record that cannot be written, and the loss of the supervisor after it) |
| `ObserverCancelled` | can a captured cancellation be lost? | 1 signal, no fault: violated |
| `ArchiveInjector` | are the original bytes kept and restored? | 2 faults, 2 signals (one inside the handler of another) |
| `ProfilePipeline` | is only a whole profile of an undisturbed training published, and is the prerelease a write-once record, too? | 2 browsers (one ends in time, one does not), 1 training fault, 2 merge attempts (one lost, one that finds what it left), a reader, 2 payloads, 2 faults |
| `ResourceGate` | does a policy mean one snapshot, and does the job end? | 2 changes (one before and one after a reading, or a facet and the CPUs), 2 faults (a signal and a failed record) |
| `RuntimeCheck` | does passed mean measured and clean? | 3 measured rounds (both orders of the browsers, and one more), 3 faults (an interrupt, and two failures in the finally block) |
| `InjectorSignalled` | does a restore always restore the original? | 1 signal, no fault: violated |

`UploadAttempts` is 3 as in the code. Each run's `MaxFaults` bounds crashes, failed calls and damaged
transfers together; the counterexamples of the mutants all need at most two.

### What the four violations say

* **ReleaseConcurrent.** `pgo-toolchain.yml` groups by `github.ref`, its Release by
  identity alone. Both refs build, one lists an asset of the other as a starter, the other
  finishes and reports success, and the first deletes the asset by its id.
  `pgo-support.yml:14-15` explains why its own group does not depend on a branch.
* **ReleaseAndroid.** `android.yml` builds after any nonzero status; the program's
  docstring and the runbook reserve status 2 for "must not rebuild".
* **ObserverCancelled.** A signal after the drain of the list, before the `poll()` that
  finds the build ended with its pipe at the end, stays on the list. The window is short:
  the build must end by itself right after the signal.
* **InjectorSignalled.** `.original` is written in place. A signal (or, in the same way, a
  full disk) in the middle of the copy makes the restore overwrite the archive with it.

### Fairness

`ReleaseCheckpoint`: each run's steps are weakly fair, because every call has a timeout and
a queued run is started when its group is free; GitHub finishes an upload its client waits
for. `Telemetry`: each of start, worker, stop and the steps of the job is sequential code
whose waits have deadlines; the lifetime of the worker is bounded (`LeaveLoop`). Requests
are only fair while somebody waits. `Observer`: the loop blocks for at most 100 ms, and
time passes; nothing is assumed of the build. `ArchiveInjector`: the watcher never blocks.
`ProfilePipeline`: the steps of the training job and of a runner, whose waits have timeouts; a
merge job's own timeout ends an upload that is never answered. `ResourceGate` and `RuntimeCheck`: the steps of the one program,
which has a deadline or a timeout for every wait. Browsers, installers, native calls and their
descendants, and GitHub in `ProfileCheckpoint`, owe nothing: they may hang for ever. No fault, signal or late request is ever assumed to happen.

## 4. Proofs

`ReleaseCheckpoint_proofs` is checked by TLAPS for arbitrary sets of runs, readers,
payloads and contents, any number of faults and attempts. It uses the module's assumptions
(names and contents are distinct, runs are not readers); theorems 2 to 5 below also assume
`Serialised`, the property of the workflow's concurrency group.

1. `AnswersAreCommitted`: publish and restore-required report only committed records,
   whatever the concurrency.
2. `CommitIsBacked`: a visible registry has all its payloads, with the recorded bytes.
3. `SuccessLasts`: a reported success stays true.
4. `ContentIsUnique`: a stage never shows two records.
5. `Implements`: the protocol implements `CheckpointStore`.

`TypeCorrect` and `TypeInvariant` come first. None of 2 to 5 is inductive. The argument has
three layers, each checked by TLC before it was proved:

* `TypeInv`: types, plus what a program point may rely on (a run that uploads has outputs,
  a job that reads payloads has a record, readers never publish).
* `AnswerInv`: a visible registry is in `commits`, and so is what a job has read.
* `SerialInv`: at most one run is active; a registry's starter or uploaded asset is backed;
  what an active run has verified is stored as it saw it; it deletes only what is not
  committed; payloads of a commit are still there. The last ones are the point: a delete by
  an old listing is harmless only because nobody else moved the asset since, and the server
  can only have finished an upload nobody has committed.

`Implements` maps the abstract record to the only member of `commits`, its visibility to a
downloadable registry and the answered jobs to those that ended with status 0; each step is
a `Commit`, a `Withdraw` (a registry not yet verified is deleted and sent again), an
`Answer` or a stutter.

`StrictRebuilds` needs neither layer: with `StrictGate` a run that builds was told
"incomplete" (`RebuildOnlyIfIncomplete`). The run `ReleaseAndroid` violates the same property
without it, so the missing hypothesis is the whole finding.

`NeverWedged` is the safety half of `Recovery`: with one run at a time, a reproducible build
and no damaged transfer, a run ends in "failed" only in a step in which one of its own gh calls
fails or is killed (`FailsByFault`). Nothing an earlier run left behind does it. The invariant
is `Intact` (every asset, finished or not, holds the one record's bytes) and `Current` (what a
run has listed, or is about to delete, send, confirm or reuse, is still so in the store); a
late upload cannot break the latter, because a finished registry leaves no upload unfinished
and every interrupted asset is removed before its name is used again. The hypotheses are those
of the code: a damaged upload, and different bytes under a taken name, are meant to be fatal.

### The other modules

Each `*_proofs` module has a theorem `Inductive` (the inductive invariant, named `Inv`) and
draws the others from it. All hold for every value of the constants under the module's
assumption on them (`TrainingAssumption`, `CheckpointAssumption`, `GateAssumption`,
`RuntimeAssumption`, `BoundsAssumption`), which ask for no more than natural bounds, distinct
names, and at least one browser and one measured round.

| Module | Theorems | The invariant and why it is needed |
|---|---|---|
| `Telemetry_proofs` | `Acknowledged`, `AckStored`, `RemoteKept`, `CancelKept`, `WorkerStruck`, `Forward`, `Implements` | The pid is the worker's until its parent has reaped it, and a pid given away never comes back, so a handle opened before `owned_process` agreed is the worker's (`FlowInv`, `HandleInv`). An answer belongs to the request in hand (`StoredInv`). `CancelInv` says when the file may lag: between answer and write, or in the `finally` block of a worker that was already sent SIGTERM; without a fault only one of start and stop sends it. `StepRefines` maps each step to a step of `DurableLog` or a stutter: a PATCH that GitHub carries out late is a `Keep`, a state file that is written is a `Claim`, and `Finally` a `Close`. |
| `Observer_proofs` | `HonestExit`, `Recorded`, `NobodyLeft`, `Complete`, `TerminalLast`, `LateAtMost` | Cancellations are conserved: captured = pending + recorded + lost to a failed write, and what was forwarded is one of the last two (`CountInv`). Both of the loop's break conditions mean that the child has ended and its group is empty, and that stays so, because only a running child adds to the group (`ProcInv`). The stream's end is seen only when nobody holds the pipe, and nobody takes it up again (`StreamInv`). |
| `ArchiveInjector_proofs` | `OriginalIsKept`, `StaysRestored`, `RestoresExactly`, `RunsDown` | A partial backup exists only while it is copied or after a cut (`BytesInv`); a backup exists only once the runtime was found, so a restored archive is never looked at again (`MemoryInv`). |
| `ProfilePipeline_proofs` | `PublishedTrained`, `Restored`, `CommitFinal`, `Implements`, `JobsRunDown` | The profile server is recorded as successful only after an undisturbed wait (`TrainInv`); the registry is sent only when all payloads were downloaded back, and the server fills only free names, so what is verified stays (`StoreInv`, lemmas `AssetStep`, `VerifiedStays`); nothing is sent before the merge has accepted (`LinkInv`). `Implements` needs no more than that a job that was told of the profile was told while registry and payloads could be downloaded, and that a free name is the only thing that is ever filled. `Restored` is an invariant and an action property: the directory that is replaced has been removed empty (`ReadInv`, lemma `FilledStep`). |
| `ResourceGate_proofs` | `Certified`, `Earned`, `RunsDown` | `SnapshotInv`: a change after the first reading is either still to be found by a later phase or has failed the gate. It rests on lemmas about `Order` (each phase has its place and `Advance` moves on by one, or back to the next case). |
| `RuntimeCheck_proofs` | `Validated`, `Apart`, `RunsDown` | `SampleInv` counts the samples by round and turn: each browser has exactly one turn per round, in either order (lemmas `Turns`, `MeasureStep`). `ReportInv` says how far the finally block has confirmed a passed status; `KeyInv`, that an installer meets no registration. |
| `RequestBudget_proofs` | `Bounded`, `Small`, `Refuses` | The deque is the last writes, so a window that is full begins with the write that is one too many (lemma `Window`); `Open(t)` says that this write is a window older than `t`, `delay` is zero exactly when `Open(now)` holds, and otherwise names a time for which it holds (lemma `DelayIs`). The hypothesis `Limits` asks for positive windows and limits, the short window not longer than the long one. |

So every invariant, action property and refinement of the passing runs is proved as well as
checked.

### Two of the findings, bounded

A violation says that something can go wrong; a theorem about the same property says how much.
`RestoresExactly`: a finished restore has put the original back unless the copy that made the
backup was cut short. `LateAtMost`: success after a cancellation means that the signal is
still on the supervisor's list. Together with `StrictRebuilds` and `SuccessLasts` (which only
assumes `Serialised`) each of the four violations has the condition that removes it.

### Termination

Liveness (`Recovery`, `EveryJobEnds`, `EverythingEnds`, `Returns`, `RestoredInTheEnd`,
`GateEnds`, `CheckEnds`) is model-checked: the prover has neither fairness nor ENABLED. Half
of it is a safety property, though, and is proved where it holds for all bounds: every step
of the program lowers a rank in a well-founded order, and no step of anybody else raises it,
so no sequence of failures, signals and foreign steps sends the program round for ever.

| Theorem | Rank | Says of the code |
|---|---|---|
| `JobsRunDown` (`ReleaseCheckpoint`) | calls left, payloads left, attempts left for the current one, place in the attempt | `upload_asset`'s loop is bounded by its attempts whatever other jobs and late uploads do to the assets it looks at; the payloads are assumed finite |
| `JobsRunDown` (`ProfilePipeline`) | steps left; raw profiles left to move, or assets left to upload; place in `publish`'s loop | `train-pgo.ps1`, `publish` and `restore` end from any state; browsers that outlive mach, late requests, other attempts and readers do not set them back (the list of names is written by the one attempt that works), and a reader starts over only when somebody gives the command again |
| `RunsDown` (`ArchiveInjector`) | signals left, restores left (the loop's, the handler's, the `finally` block's), place in the one at hand | once the build has ended the watcher cannot go round its loop, handler and `finally` block for ever; before that it polls, as it should |
| `RunsDown` (`ResourceGate`) | phases left, cases left, steps left of the case | the gate and the limiter are one pass and a loop over three cases with two calls each; a call is not repeated |
| `RunsDown` (`RuntimeCheck`) | steps left, rounds left, turns left of the round, waits left of the command | `run_checks` and its `finally` block are one pass; installers, uninstallers and browsers do not set it back |

What remains for TLC is that the next step is taken, that is, fairness, and that the program
is never without one. `Observer` and the telemetry worker poll for as long as the build runs,
so they have no such rank; the retries of `Telemetry` are bounded by the model's faults only.
For `Recovery` there is one more half, `NeverWedged` above: with both, a run that suffers no
fault ends in success, and only that its steps are taken is left to fairness.

## 5. Limits

* GitHub: an asset has one of three states, downloads are atomic, names are unique.
  What the server does with the upload of a lost client is left open.
* `Recovery` needs a reproducible build. With two possible results an interrupted
  publication can only be finished by a run that produces the same bytes; the code treats
  other bytes as fatal, on purpose.
* Three Android architectures share one Release and one stage name with the same lock; as
  they are one group per architecture, `ReleaseConcurrent` applies to them too.
* Paths, symlinks, JSON schemas and digests are abstracted to "verified or not".
* `ArchiveInjector` has one archive, and does not model the injection into containers nor
  the moment at which RBM extracts the archive.
* In `Observer`, SIGKILL acts at once; in `RuntimeCheck` a killed process does nothing more.
* `ProfileCheckpoint`: a merge job that has published is not run again (it would find its
  release complete and end).
* `ProfileTraining` treats the jar log as bound by its hash and leaves the workload out; the
  restore from a local directory differs only in where the bytes come from.
* `ResourceGate`: versions only grow, so a change that is taken back between two readings is
  not considered; descendants of a native call stay in its session; the time between the
  limiter's look at its CPUs and its own `sched_setaffinity` is not claimed; the gate's git calls
  are steps that succeed or fail, not native calls that can hang.
* `RuntimeCheck`: `prepare-baseline` and the content of the comparisons are left out.

### Observations

Met while modelling; the models do what the code does, and no property claims otherwise.

* `validate-pgo-resource-policy.py:939`: the guard answers filename queries from
  `/tmp/.pgo_metadata_cache`, whose key has no CPU mask. The names of the second and third case
  are therefore those of the first, while line 921 and `docs/pgo-runbook.md:132` speak of a
  fresh interpreter for each query. `PolicyIsEarned` claims independence of the CPUs for the
  renders only, which are not cached.
* `validate-pgo-resource-policy.py:1307` writes a policy of four CPUs, while its own line 2,
  `run-pgo-resource-limited.py:2` and the runbook (152, 165) speak of two.
* A signal after the policy was renamed into place leaves it there although `main` prints that
  no policy was created (`validate-pgo-resource-policy.py:1356`). The step has failed, so no
  build uses it (`BuildIsCertified`).
* `profile-artifacts.py:491` compares assets by name and bytes, whatever their state: an
  interrupted upload blocks its profile identity for good. `ImplementsStore` depends on it: an
  asset that could be replaced could be replaced by a late request, too.
* `publish` does not download the registry back: a damaged registry is reported as published,
  and refused by every reader. The refinement mapping of `ProfileCheckpoint` therefore counts
  an attempt as answered only while the registry is not a damaged one (`Served`).
* A raw profile created after the `finally` block listed the directory
  (`profile-artifacts.py:480`) is left behind without a trace.
* `observe-rbm-build.py:446` says "Snapshot and flush BEFORE forwarding". That is the order of
  the calls; on a full disk the record is lost with a warning and the signal goes out all the
  same. `RecordedFirst` therefore counts the lost records instead of claiming that there is a
  record for every signal.
* `windows-runtime-check.py:1009`: a browser profile that `rmtree` could not remove is ignored.

## 6. Not modelled

* `rbm_network.py`: at most three attempts of one sequential call, told apart by the text of
  the failure; a table test covers it, and no other actor takes part.
* `resolve-upstream.sh`, `fetch-upstream.sh`: sequential; the lock is written to a temporary
  file and renamed by a maintainer's command that no job runs.
* Identities and provenance, source preparation, generation and use builds, packaging,
  rendering: sequential programs that compare digests, transform files or call a build.
* `prepare-baseline`, the probe's own sequence of cases, `snapshot` as a command of its own.
* Pure arithmetic: `Measurements`, the offsets of `ProjectTails`. They have unit tests at
  their boundaries; the models let a record be read at any time, which includes what the
  arithmetic allows. `Telemetry` lets a request go at any time; when it may go is
  `RequestBudget`, which is proved about and has no run of its own.

## 7. Plan

Done: the checkpoint and the profile's prerelease as two implementations of one abstract
specification, telemetry with its own, observer, injector, training and profile checkpoint
with their composition, the gate with the limiter, the runtime check, the request budget;
proofs of all their invariants, action properties and refinements, and of termination up to
fairness, with the safety half of `Recovery`. Left, in this order: the composition of the
checkpoint with the profile's prerelease through the identities that one hands to the other;
`Measurements` against a reference definition.
