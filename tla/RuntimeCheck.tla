----------------------------- MODULE RuntimeCheck -----------------------------
(***************************************************************************)
(* scripts/windows-runtime-check.py check: the final packages are          *)
(* installed, run and compared with a baseline on one Windows machine.     *)
(*                                                                         *)
(* The two stock installers share one uninstall key, so the baseline is    *)
(* copied and uninstalled before the PGO build is installed, and whatever  *)
(* was begun is uninstalled in the end.  Every native command runs in a    *)
(* kill-on-close job under a timeout.  An uninstaller leaves its work to a *)
(* second process.  A process that was killed does nothing more.           *)
(***************************************************************************)
EXTENDS Integers, Sequences

CONSTANTS
    Samples,      \* measured rounds after the discarded one
    MaxFaults     \* bound on failures and interrupts

ASSUME RuntimeAssumption == Samples \in Nat \ {0} /\ MaxFaults \in Nat

VARIABLES
    step,         \* the step of run_checks
    baseline,     \* a baseline directory was given
    variant,      \* the installation the step is about
    installed,    \* installations to clean up
    tree,         \* their directories
    copy,         \* the copy of the baseline that is run
    registration, \* the shared uninstall key and whose it is
    native,       \* the step of run_native
    root,         \* the process it has created
    child,        \* a descendant: in the job, outside of it, or none
    round, turn,  \* the measurement
    measured,     \* results per browser, without the warm-up
    status,       \* report["status"]
    disk,         \* the status in runtime-report.json
    exit,         \* the exit of the program
    faults

treeVars == <<tree, copy, registration>>
processVars == <<native, root, child>>
sampleVars == <<round, turn, measured>>
reportVars == <<status, disk, exit>>
vars == <<step, baseline, variant, installed, treeVars, processVars, sampleVars, reportVars,
          faults>>

Installs == {"baseline", "installer"}
Statuses == {"failed", "passed", "experiment-without-baseline"}
Over == {"done", "killed"}
Native == {"install", "uninstall", "calibrate", "round", "cleanup"}

TypeOK ==
    /\ step \in {"begin", "origin", "registered", "stage", "unpack", "verify", "copy",
                 "recheck", "compare", "summary", "registry", "work", "report"}
                \cup Native \cup Over
    /\ baseline \in BOOLEAN
    /\ variant \in Installs
    /\ installed \subseteq Installs
    /\ tree \in [Installs -> {"none", "partial", "complete"}]
    /\ copy \in {"none", "same", "differs"}
    /\ registration \in {"none", "user"} \cup Installs
    /\ native \in {"idle", "created", "assigned", "root_wait", "job_drain", "zero", "nonzero"}
    /\ root \in {"none", "suspended", "running", "zero", "nonzero"}
    /\ child \in {"none", "in_job", "outside"}
    /\ round \in 0..Samples /\ turn \in 1..3
    /\ measured \in [Installs \cup {"portable"} -> 0..Samples]
    /\ status \in Statuses /\ disk \in Statuses \cup {"none"}
    /\ exit \in {"none", "zero", "nonzero"}
    /\ faults \in 0..MaxFaults

Init ==
    /\ step = "begin" /\ baseline \in BOOLEAN /\ variant = "baseline" /\ installed = {}
    /\ tree = [v \in Installs |-> "none"] /\ copy = "none"
    /\ registration \in {"none", "user"}
    /\ native = "idle" /\ root = "none" /\ child = "none"
    /\ round = 0 /\ turn = 1
    /\ measured = [b \in Installs \cup {"portable"} |-> 0]
    /\ status = "failed" /\ disk = "none" /\ exit = "none" /\ faults = 0

Fault == faults < MaxFaults /\ faults' = faults + 1

Goto(s) == step' = s

\* An exception of the body: on to the finally block.
Raise == step' = "cleanup" /\ exit' = "nonzero"

\* In the finally block a failure is noted and the block goes on.
Note(s) == step' = s /\ status' = "failed" /\ exit' = "nonzero"

(***************************************************************************)
(* What the native commands do                                             *)
(***************************************************************************)

Installing == step = "install"
Uninstalling == step \in {"uninstall", "cleanup"}

Works == root = "running" \/ child # "none"

InstallerWorks ==
    /\ Installing /\ Works
    /\ \/ /\ tree[variant] # "complete"
          /\ tree' = [tree EXCEPT ![variant] = IF @ = "none" THEN "partial" ELSE "complete"]
          /\ UNCHANGED registration
       \/ registration' = variant /\ registration # variant /\ UNCHANGED tree
    /\ UNCHANGED <<step, baseline, variant, installed, copy, processVars, sampleVars, reportVars,
                   faults>>

UninstallerWorks ==
    /\ Uninstalling /\ Works
    /\ \/ /\ tree[variant] # "none"
          /\ tree' = [tree EXCEPT ![variant] = IF @ = "complete" THEN "partial" ELSE "none"]
          /\ UNCHANGED registration
       \/ registration' = "none" /\ registration # "none" /\ UNCHANGED tree
    /\ UNCHANGED <<step, baseline, variant, installed, copy, processVars, sampleVars, reportVars,
                   faults>>

WorkDone ==
    /\ Installing => tree[variant] = "complete" /\ registration = variant
    /\ Uninstalling => tree[variant] = "none" /\ registration = "none"

\* A descendant belongs to the job if its parent did when it was started.
RootForks ==
    /\ root = "running" /\ child = "none"
    /\ child' = IF native = "created" THEN "outside" ELSE "in_job"
    /\ UNCHANGED <<step, baseline, variant, installed, treeVars, native, root, sampleVars,
                   reportVars, faults>>

\* Zero is no proof of the work: a fault leaves it half done.
RootExits ==
    /\ root = "running"
    /\ \/ root' = "zero" /\ (WorkDone \/ child # "none") /\ UNCHANGED faults
       \/ root' \in {"zero", "nonzero"} /\ Fault
    /\ UNCHANGED <<step, baseline, variant, installed, treeVars, native, child, sampleVars,
                   reportVars>>

ChildEnds ==
    /\ child # "none"
    /\ child' = "none"
    /\ \/ (WorkDone \/ root = "running") /\ UNCHANGED faults
       \/ Fault
    /\ UNCHANGED <<step, baseline, variant, installed, treeVars, native, root, sampleVars,
                   reportVars>>

(***************************************************************************)
(* run_native                                                              *)
(***************************************************************************)

keptByNative == <<step, baseline, variant, installed, treeVars, sampleVars, reportVars>>

\* The first thing an installation does is to list itself for the cleanup.
Listed == IF Installing THEN installed \cup {variant} ELSE installed

\* Deviation: the process runs as soon as it is created.
CreateRunning ==
    /\ native = "idle" /\ step \in Native
    /\ step = "cleanup" => variant \in installed /\ tree[variant] # "none"
    /\ installed' = Listed
    /\ native' = "created" /\ root' = "running"
    /\ UNCHANGED <<step, baseline, variant, treeVars, child, sampleVars, reportVars, faults>>

\* CreateProcess, suspended.
Create ==
    /\ native = "idle" /\ step \in Native
    /\ step = "cleanup" => variant \in installed /\ tree[variant] # "none"
    /\ installed' = Listed
    /\ native' = "created" /\ root' = "suspended"
    /\ UNCHANGED <<step, baseline, variant, treeVars, child, sampleVars, reportVars, faults>>

\* The job is closed and ends what is in it; without one the process itself is ended.
KillTree ==
    /\ root' = "none"
    /\ child' = IF child = "in_job" THEN "none" ELSE child

Assign ==
    /\ native = "created"
    /\ \/ native' = "assigned" /\ UNCHANGED <<root, child, faults>>
       \/ Fault /\ native' = "nonzero" /\ KillTree
    /\ UNCHANGED keptByNative

Resume ==
    /\ native = "assigned"
    /\ \/ /\ native' = "root_wait"
          /\ root' = IF root = "suspended" THEN "running" ELSE root
          /\ UNCHANGED <<child, faults>>
       \/ Fault /\ native' = "nonzero" /\ KillTree
    /\ UNCHANGED keptByNative

\* Only after a zero exit is the rest of the tree waited for.
RootEnded ==
    /\ native = "root_wait" /\ root \in {"zero", "nonzero"}
    /\ IF root = "zero"
       THEN native' = "job_drain" /\ UNCHANGED <<root, child>>
       ELSE native' = "nonzero" /\ KillTree
    /\ UNCHANGED <<keptByNative, faults>>

Drained ==
    /\ native = "job_drain" /\ child # "in_job"
    /\ native' = "zero"
    /\ KillTree
    /\ UNCHANGED <<keptByNative, faults>>

\* Deviation: the drain of the job has no end.
TimesOutWaiting ==
    /\ native = "root_wait"
    /\ native' = "nonzero" /\ KillTree
    /\ UNCHANGED <<keptByNative, faults>>

\* 124, even if the process exits before it is killed.
TimesOut ==
    /\ native \in {"root_wait", "job_drain"}
    /\ native' = "nonzero" /\ KillTree
    /\ UNCHANGED <<keptByNative, faults>>

(***************************************************************************)
(* run_checks                                                              *)
(***************************************************************************)

\* reject_existing_install: the key is looked up in every hive and view.
NothingRegistered == registration = "none"

\* A step that reads and verifies: on to the next one or out of the body.
Passes(next) ==
    \/ Goto(next) /\ UNCHANGED <<exit, faults>>
    \/ Fault /\ Raise

keptByReading == <<baseline, installed, treeVars, processVars, sampleVars, status, disk>>

\* verify_packages: the manifest, its assets and their digests.
Packages == step = "begin" /\ Passes("origin") /\ UNCHANGED <<keptByReading, variant>>

\* verify_baseline: its record, origin and installer, when there is one.
Origin == step = "origin" /\ Passes("registered") /\ UNCHANGED <<keptByReading, variant>>

Registered ==
    /\ step = "registered"
    /\ IF NothingRegistered THEN Goto("stage") /\ UNCHANGED exit ELSE Raise
    /\ UNCHANGED <<keptByReading, variant, faults>>

\* Copies of the assets are checked again.
Stage == step = "stage" /\ Passes("unpack") /\ UNCHANGED <<keptByReading, variant>>

\* The portable tree, and on to the first installation.
Unpack ==
    /\ step = "unpack"
    /\ Passes("install")
    /\ variant' = IF baseline THEN "baseline" ELSE "installer"
    /\ UNCHANGED keptByReading

\* verify_browser_tree of the installed tree.
Verify ==
    /\ step = "verify"
    /\ IF tree[variant] = "complete"
       THEN Passes(IF variant = "baseline" THEN "copy" ELSE "compare")
       ELSE Raise /\ UNCHANGED faults
    /\ UNCHANGED <<keptByReading, variant>>

\* copytree and the comparison of every file.
Copy ==
    /\ step = "copy"
    /\ \/ copy' = "same" /\ Goto("uninstall") /\ UNCHANGED <<exit, faults>>
       \/ Fault /\ copy' = "differs" /\ Raise
    /\ UNCHANGED <<baseline, variant, installed, tree, registration, processVars, sampleVars,
                   status, disk>>

\* The baseline is off the list, and its registration has to be gone.
Recheck ==
    /\ step = "recheck"
    /\ installed' = installed \ {"baseline"}
    /\ IF NothingRegistered
       THEN Goto("install") /\ variant' = "installer" /\ UNCHANGED exit
       ELSE Raise /\ UNCHANGED variant
    /\ UNCHANGED <<baseline, treeVars, processVars, sampleVars, status, disk, faults>>

\* The installed and the portable binaries are the same.
Compare ==
    /\ step = "compare"
    /\ Passes("calibrate")
    /\ UNCHANGED <<keptByReading, variant>>

Order == IF baseline THEN <<"baseline", "installer", "portable">> ELSE <<"installer", "portable">>

Browser == IF round % 2 = 0 THEN Order[turn] ELSE Order[Len(Order) + 1 - turn]

\* Deviation: one round too many.
MeasureOnceMore ==
    /\ measured' = IF round = 0 THEN measured ELSE [measured EXCEPT ![Browser] = @ + 1]
    /\ disk' = status
    /\ IF turn < Len(Order) THEN turn' = turn + 1 /\ UNCHANGED <<round, step>>
       ELSE IF round <= Samples THEN round' = round + 1 /\ turn' = 1 /\ UNCHANGED step
       ELSE Goto("summary") /\ UNCHANGED <<round, turn>>
    /\ UNCHANGED <<status, exit>>

\* Round 0 is discarded; the report is written after every launch.
Measure ==
    /\ measured' = IF round = 0 THEN measured ELSE [measured EXCEPT ![Browser] = @ + 1]
    /\ disk' = status
    /\ IF turn < Len(Order) THEN turn' = turn + 1 /\ UNCHANGED <<round, step>>
       ELSE IF round < Samples THEN round' = round + 1 /\ turn' = 1 /\ UNCHANGED step
       ELSE Goto("summary") /\ UNCHANGED <<round, turn>>
    /\ UNCHANGED <<status, exit>>

After == [install |-> "verify", uninstall |-> "recheck", calibrate |-> "round",
          cleanup |-> "registry"]

Returned ==
    /\ native = "zero"
    /\ native' = "idle"
    /\ \/ /\ UNCHANGED faults
          /\ IF step = "round" THEN Measure
             ELSE Goto(After[step]) /\ UNCHANGED <<sampleVars, reportVars>>
       \/ /\ step \in {"calibrate", "round"} /\ Fault      \* no valid screenshot
          /\ Raise /\ UNCHANGED <<sampleVars, status, disk>>
    /\ UNCHANGED <<baseline, variant, installed, treeVars, root, child>>

Failed ==
    /\ native = "nonzero"
    /\ native' = "idle"
    /\ IF step = "cleanup" THEN Note("registry") ELSE Raise /\ UNCHANGED status
    /\ UNCHANGED <<baseline, variant, installed, treeVars, root, child, sampleVars, disk, faults>>

Summary ==
    /\ step = "summary"
    /\ status' = IF baseline THEN "passed" ELSE "experiment-without-baseline"
    /\ Goto("cleanup")
    /\ UNCHANGED <<baseline, variant, installed, treeVars, processVars, sampleVars, disk, exit,
                   faults>>

(***************************************************************************)
(* The finally block                                                       *)
(***************************************************************************)

\* Nothing was begun, or the uninstaller is missing: a partial tree may lack it.
CleanupNothing ==
    /\ step = "cleanup" /\ native = "idle"
    /\ \/ installed = {} /\ Goto("work") /\ UNCHANGED <<status, exit>>
       \/ installed # {} /\ tree[variant] # "complete" /\ Note("registry")
    /\ UNCHANGED <<baseline, variant, installed, treeVars, processVars, sampleVars, disk, faults>>

\* Deviation: the registry is looked at only when the uninstaller had failed.
RegistryIfFailed ==
    /\ step = "registry"
    /\ IF NothingRegistered \/ status # "failed"
       THEN Goto("work") /\ UNCHANGED <<status, exit>> ELSE Note("work")
    /\ UNCHANGED <<baseline, variant, installed, treeVars, processVars, sampleVars, disk, faults>>

Registry ==
    /\ step = "registry"
    /\ IF NothingRegistered THEN Goto("work") /\ UNCHANGED <<status, exit>> ELSE Note("work")
    /\ UNCHANGED <<baseline, variant, installed, treeVars, processVars, sampleVars, disk, faults>>

\* rmtree of the private directory with the installations in it.
Work ==
    /\ step = "work"
    /\ \/ /\ tree' = [v \in Installs |-> "none"]
          /\ Goto("report") /\ UNCHANGED <<status, exit, faults>>
       \/ Fault /\ Note("report") /\ UNCHANGED tree
    /\ UNCHANGED <<baseline, variant, installed, copy, registration, processVars, sampleVars, disk>>

Report ==
    /\ step = "report"
    /\ \/ /\ disk' = status
          /\ exit' = IF exit = "none" THEN "zero" ELSE exit
          /\ UNCHANGED faults
       \/ Fault /\ disk' \in {disk, "none"} /\ exit' = "nonzero"
    /\ Goto("done")
    /\ UNCHANGED <<baseline, variant, installed, treeVars, processVars, sampleVars, status>>

\* A KeyboardInterrupt passes the except clause but not the finally block; a second one,
\* or one in that block, ends the program before its report.
Interrupt ==
    /\ step \notin Over
    /\ Fault
    /\ native' = "idle" /\ KillTree
    /\ Goto(IF step \in {"cleanup", "registry", "work", "report"} THEN "done" ELSE "cleanup")
    /\ exit' = "nonzero"
    /\ UNCHANGED <<baseline, variant, installed, treeVars, sampleVars, status, disk>>

\* The job of the workflow runs out of time: its handles are closed, and the job object
\* ends its processes.
Killed ==
    /\ step \notin Over
    /\ Fault
    /\ native' = "idle" /\ KillTree
    /\ Goto("killed") /\ exit' = "nonzero"
    /\ UNCHANGED <<baseline, variant, installed, treeVars, sampleVars, status, disk>>

CheckStep ==
    \/ Create \/ Assign \/ Resume \/ RootEnded \/ Drained \/ TimesOut
    \/ Packages \/ Origin \/ Registered \/ Stage \/ Unpack \/ Verify \/ Copy \/ Recheck
    \/ Compare \/ Returned \/ Failed \/ Summary \/ CleanupNothing \/ Registry \/ Work \/ Report

Next ==
    \/ CheckStep \/ Interrupt \/ Killed
    \/ InstallerWorks \/ UninstallerWorks \/ RootForks \/ RootExits \/ ChildEnds

Spec == Init /\ [][Next]_vars

\* The program goes on, and its waits have timeouts.  What it runs owes nothing.
FairSpec == Spec /\ WF_vars(CheckStep)

(***************************************************************************)
(* What the check promises                                                 *)
(***************************************************************************)

\* A report that says passed was written last, after everything: a baseline was there
\* and measured from a byte-equal copy, every browser has all its samples, and the
\* machine is as it was: no registration, no tree and no process is left.
ValidatedIsClean ==
    /\ disk = "passed" =>
          /\ baseline /\ copy = "same"
          /\ \A b \in Installs \cup {"portable"} : measured[b] = Samples
          /\ registration = "none"
          /\ \A v \in Installs : tree[v] = "none"
          /\ root = "none" /\ child = "none"
    /\ exit = "zero" => disk # "failed"

\* A native command is started only when nothing of an earlier one runs, an installer
\* only when no installation is registered, and a registration that was there before is
\* never changed (stock installers share one key).
KeptApart ==
    [][ /\ root = "none" /\ root' # "none" =>
              /\ child = "none"
              /\ step = "install" => registration = "none"
        /\ registration = "user" => registration' = "user" ]_vars

\* The check ends although an installer, an uninstaller's second process or a browser
\* hangs.
CheckEnds == <>(step \in Over)
=============================================================================
