----------------------------- MODULE Telemetry -----------------------------
(***************************************************************************)
(* Durable build diagnostics, scripts/publish-rbm-telemetry.py: the step   *)
(* that starts the publisher, the detached publisher ("worker"), the step  *)
(* that stops it, and GitHub's Checks API.  pgo-stage4a.yml runs start,    *)
(* then the heavy build if start succeeded, then stop in any case.         *)
(*                                                                         *)
(* The steps and the worker share the state file only.  The worker talks   *)
(* to GitHub in requests that may fail, time out, or be carried out after  *)
(* their client gave up.  A signal reaches the worker between any two of   *)
(* its steps.  Snapshots are numbers: snapshot n holds n resource records. *)
(***************************************************************************)
EXTENDS Integers

CONSTANTS
    MaxSamples,  \* bound on resource records before the build's last one
    MaxFaults    \* bound on failed requests and writes, kills and cancellations

ASSUME BoundsAssumption == MaxSamples \in Nat /\ MaxFaults \in Nat

VARIABLES
    starter,   \* the start step
    build,     \* the build step, whose observer writes the resource records
    stopper,   \* the stop step
    worker,    \* the worker's program point
    killed,    \* the worker was ended by a signal it does not handle
    holder,    \* whose process has the worker's pid
    handle,    \* whose process the stop step's pidfd refers to
    struck,    \* history: whom the stop step has signalled
    log,       \* resource records written, in number
    closed,    \* the last of them is terminal
    seq,       \* records the worker has taken in
    terminal,  \* the last of those is terminal
    state,     \* the worker's copy of the state
    known,     \* run_worker's local variable ready
    file,      \* the state file
    flight,    \* requests GitHub may still carry out; 0 is the POST
    reply,     \* the current request has been carried out
    stored,    \* history: every snapshot the check has shown
    remote,    \* the snapshot the check shows
    overtaken, \* history: an abandoned PATCH was carried out after a later one
    faults     \* how many faults have happened

buildVars == <<build, log, closed>>
stopVars == <<stopper, handle, struck>>
memoryVars == <<seq, terminal, state, known>>
githubVars == <<flight, reply, stored, remote, overtaken>>
vars == <<starter, worker, killed, holder, file, faults, buildVars, stopVars, memoryVars,
          githubVars>>

Phases == {"starting", "ready", "running", "ended"}
State == [phase : Phases, pid : BOOLEAN, ack : Nat, count : Nat]
NoFile == [phase |-> "none", pid |-> FALSE, ack |-> 0, count |-> 0]
Reserved == [phase |-> "starting", pid |-> FALSE, ack |-> 0, count |-> 0]

\* The worker's steps outside and inside its try block.
Trying == {"lookup", "post", "posting", "created", "mark", "loop", "patching", "acked"}
Alive == {"boot", "booted", "finally"} \cup Trying

TypeOK ==
    /\ starter \in {"idle", "launch", "poll", "wait", "ready", "failed"}
    /\ build \in {"waiting", "running", "over"}
    /\ stopper \in {"idle", "open", "check", "send", "wait", "open_kill", "check_kill",
                    "send_kill", "done"}
    /\ worker \in {"none", "dead"} \cup Alive
    /\ {killed, closed, terminal, known, reply, overtaken} \subseteq BOOLEAN
    /\ holder \in {"nobody", "worker", "other"}
    /\ handle \in {"nobody", "worker", "other"}
    /\ struck \subseteq {"worker", "other"}
    /\ {log, seq} \subseteq 0..(MaxSamples + 1)
    /\ state \in State
    /\ file \in State \cup {NoFile}
    /\ flight \subseteq 0..(MaxSamples + 1)
    /\ stored \subseteq 0..(MaxSamples + 1)
    /\ remote \in -1..(MaxSamples + 1)
    /\ faults \in 0..MaxFaults

Init ==
    /\ starter = "idle" /\ build = "waiting" /\ stopper = "idle" /\ worker = "none"
    /\ killed = FALSE /\ closed = FALSE /\ terminal = FALSE /\ known = FALSE /\ reply = FALSE
    /\ holder = "nobody" /\ handle = "nobody" /\ struck = {}
    /\ log = 0 /\ seq = 0
    /\ state = Reserved /\ file = NoFile
    /\ flight = {} /\ stored = {} /\ remote = -1 /\ overtaken = FALSE
    /\ faults = 0

Fault == faults < MaxFaults /\ faults' = faults + 1

\* SIGTERM: WorkerStop ends the try block, and interrupts the finally block itself.
Terminated ==
    /\ worker' = IF worker \in Trying THEN "finally"
                 ELSE IF worker \in Alive THEN "dead" ELSE worker
    /\ killed' = (killed \/ worker \in {"boot", "booted"})

\* SIGKILL.
Slain ==
    /\ worker' = IF worker \in Alive THEN "dead" ELSE worker
    /\ killed' = (killed \/ worker \in Alive)

(***************************************************************************)
(* start                                                                   *)
(***************************************************************************)

\* An exclusive marker reserves the state file.
Reserve ==
    /\ starter = "idle"
    /\ file' = Reserved
    /\ starter' = "launch"
    /\ UNCHANGED <<worker, killed, holder, faults, buildVars, stopVars, memoryVars, githubVars>>

Launch ==
    /\ starter = "launch"
    /\ worker' = "boot"
    /\ holder' = "worker"
    /\ starter' = "poll"
    /\ UNCHANGED <<killed, file, faults, buildVars, stopVars, memoryVars, githubVars>>

\* Deviation: any state the worker has written counts as ready.
PollStarted ==
    /\ starter = "poll"
    /\ file.pid /\ file.phase # "ended"
    /\ starter' = "ready"
    /\ UNCHANGED <<worker, killed, holder, file, faults, buildVars, stopVars, memoryVars,
                   githubVars>>

\* The state file names the worker and says that the POST was acknowledged.
PollReady ==
    /\ starter = "poll"
    /\ file.pid /\ file.phase \in {"ready", "running"}
    /\ starter' = "ready"
    /\ UNCHANGED <<worker, killed, holder, file, faults, buildVars, stopVars, memoryVars,
                   githubVars>>

\* poll() finds the worker dead and reaps it, before or after start gave up on it.
PollDead ==
    /\ starter \in {"poll", "wait"}
    /\ worker = "dead"
    /\ holder' = "nobody"
    /\ starter' = "failed"
    /\ UNCHANGED <<worker, killed, file, faults, buildVars, stopVars, memoryVars, githubVars>>

\* The readiness deadline passes: SIGTERM, and SIGKILL half a second later.
Deadline ==
    /\ starter = "poll" /\ worker \in Alive
    /\ Terminated
    /\ starter' = "wait"
    /\ UNCHANGED <<holder, file, faults, buildVars, stopVars, memoryVars, githubVars>>

DeadlineKill ==
    /\ starter = "wait" /\ worker \in Alive
    /\ Slain
    /\ UNCHANGED <<starter, holder, file, faults, buildVars, stopVars, memoryVars, githubVars>>

\* The step is killed; the worker has a session of its own and lives on.
StarterCancelled ==
    /\ starter \in {"launch", "poll", "wait"}
    /\ Fault
    /\ starter' = "failed"
    /\ UNCHANGED <<worker, killed, holder, file, buildVars, stopVars, memoryVars, githubVars>>

(***************************************************************************)
(* run_worker                                                              *)
(***************************************************************************)

\* The reservation must be untouched; the worker enters its pid.
Boot ==
    /\ worker = "boot"
    /\ IF file = Reserved
       THEN /\ state' = [Reserved EXCEPT !.pid = TRUE]
            /\ file' = state'
            /\ worker' = "booted"
       ELSE worker' = "dead" /\ UNCHANGED <<state, file>>
    /\ UNCHANGED <<starter, killed, holder, seq, terminal, known, faults, buildVars, stopVars,
                   githubVars>>

InstallHandlers ==
    /\ worker = "booted"
    /\ worker' = "lookup"
    /\ UNCHANGED <<starter, killed, holder, file, faults, buildVars, stopVars, memoryVars,
                   githubVars>>

\* ensure_absent: the lookup finds no check of this run, attempt and job.
EnsureAbsent ==
    /\ worker = "lookup"
    /\ worker' = IF stored = {} THEN "post" ELSE "finally"
    /\ UNCHANGED <<starter, killed, holder, file, faults, buildVars, stopVars, memoryVars,
                   githubVars>>

Create ==
    /\ worker = "post"
    /\ flight' = flight \cup {0}
    /\ worker' = "posting"
    /\ UNCHANGED <<starter, killed, holder, file, faults, stored, remote, overtaken, reply,
                   buildVars, stopVars, memoryVars>>

\* The POST is acknowledged; the local flag ready follows, then the file.
Created ==
    /\ worker = "posting" /\ reply
    /\ state' = [state EXCEPT !.phase = "ready"]
    /\ reply' = FALSE
    /\ worker' = "created"
    /\ UNCHANGED <<starter, killed, holder, seq, terminal, known, file, faults, flight, stored,
                   remote, overtaken, buildVars, stopVars>>

MarkReady ==
    /\ worker = "created"
    /\ known' = TRUE
    /\ worker' = "mark"
    /\ UNCHANGED <<starter, killed, holder, seq, terminal, state, file, faults, buildVars,
                   stopVars, githubVars>>

\* write_state replaces the file atomically or fails and leaves it.
WriteReady ==
    /\ worker = "mark"
    /\ \/ file' = state /\ worker' = "loop" /\ UNCHANGED faults
       \/ Fault /\ worker' = "finally" /\ UNCHANGED file
    /\ UNCHANGED <<starter, killed, holder, buildVars, stopVars, memoryVars, githubVars>>

\* Deviation: the reader does not advance its offset and takes old records in again.
ReadSamplesAgain ==
    /\ worker = "loop"
    /\ \E n \in 1..log :
          /\ seq' = seq + n
          /\ terminal' = (closed /\ n = log)
    /\ UNCHANGED <<starter, worker, killed, holder, state, known, file, faults, buildVars,
                   stopVars, githubVars>>

\* ResourceReader and Measurements take in some of the new records.
ReadSamples ==
    /\ worker = "loop"
    /\ \E n \in (seq + 1)..log :
          /\ seq' = n
          /\ terminal' = (closed /\ n = log)
    /\ UNCHANGED <<starter, worker, killed, holder, state, known, file, faults, buildVars,
                   stopVars, githubVars>>

\* It is time to publish, the request budget allows it and there is something new.
Patch ==
    /\ worker = "loop" /\ seq > state.ack
    /\ flight' = flight \cup {seq}
    /\ worker' = "patching"
    /\ UNCHANGED <<starter, killed, holder, file, faults, stored, remote, overtaken, reply,
                   buildVars, stopVars, memoryVars>>

\* Deviation: the acknowledged number is taken from the log, not from the snapshot sent.
PatchedAsRead ==
    /\ worker = "patching" /\ reply
    /\ state' = [state EXCEPT !.ack = log, !.count = @ + 1, !.phase = "running"]
    /\ reply' = FALSE
    /\ worker' = "acked"
    /\ UNCHANGED <<starter, killed, holder, seq, terminal, known, file, faults, flight, stored,
                   remote, overtaken, buildVars, stopVars>>

\* The PATCH is acknowledged for the snapshot it carried.
Patched ==
    /\ worker = "patching" /\ reply
    /\ state' = [state EXCEPT !.ack = seq, !.count = @ + 1, !.phase = "running"]
    /\ reply' = FALSE
    /\ worker' = "acked"
    /\ UNCHANGED <<starter, killed, holder, seq, terminal, known, file, faults, flight, stored,
                   remote, overtaken, buildVars, stopVars>>

\* After an attempt to publish, the loop is left if the last record was terminal.
Onward == worker' = IF terminal THEN "finally" ELSE "loop"

\* A failed write counts as a failed attempt; the acknowledgment stays in memory.
WriteAck ==
    /\ worker = "acked"
    /\ \/ file' = state /\ UNCHANGED faults
       \/ Fault /\ UNCHANGED file
    /\ Onward
    /\ UNCHANGED <<starter, killed, holder, buildVars, stopVars, memoryVars, githubVars>>

\* What the worker is waiting for.
Current == IF worker = "posting" THEN {0} ELSE IF worker = "patching" THEN {seq} ELSE {}

\* The request is rejected, or times out and is left to GitHub.
RequestFails ==
    /\ worker \in {"lookup", "posting", "patching"}
    /\ Fault
    /\ flight' \in {flight, flight \ Current}
    /\ reply' = FALSE
    /\ IF worker = "patching" THEN Onward ELSE worker' = "finally"
    /\ UNCHANGED <<starter, killed, holder, file, stored, remote, overtaken, buildVars, stopVars,
                   memoryVars>>

\* Deviation: no lifetime; only the terminal record ends the loop.
LeaveWhenTerminal ==
    /\ worker = "loop" /\ terminal
    /\ worker' = "finally"
    /\ UNCHANGED <<starter, killed, holder, file, faults, buildVars, stopVars, memoryVars,
                   githubVars>>

\* Nothing new after the terminal record, or the lifetime is over.
LeaveLoop ==
    /\ worker = "loop"
    /\ worker' = "finally"
    /\ UNCHANGED <<starter, killed, holder, file, faults, buildVars, stopVars, memoryVars,
                   githubVars>>

\* Deviation: only an uninterrupted loop writes the state at the end.
FinallyIfTerminal ==
    /\ worker = "finally"
    /\ file' = IF known /\ terminal THEN [state EXCEPT !.phase = "ended"] ELSE file
    /\ worker' = "dead"
    /\ UNCHANGED <<starter, killed, holder, faults, buildVars, stopVars, memoryVars, githubVars>>

\* Deviation: the last state is made afresh and not from the one the worker holds.
FinallyAfresh ==
    /\ worker = "finally"
    /\ file' = IF known THEN [Reserved EXCEPT !.pid = TRUE, !.phase = "ended"] ELSE file
    /\ worker' = "dead"
    /\ UNCHANGED <<starter, killed, holder, faults, buildVars, stopVars, memoryVars, githubVars>>

\* The acknowledged state is written with the phase "ended", if there is one.
Finally ==
    /\ worker = "finally"
    /\ \/ file' = (IF known THEN [state EXCEPT !.phase = "ended"] ELSE file) /\ UNCHANGED faults
       \/ known /\ Fault /\ UNCHANGED file
    /\ worker' = "dead"
    /\ UNCHANGED <<starter, killed, holder, buildVars, stopVars, memoryVars, githubVars>>

\* The worker alone is killed, by the kernel or by the smoke test.
WorkerKilled ==
    /\ worker \in Alive
    /\ Fault
    /\ Slain
    /\ UNCHANGED <<starter, holder, file, buildVars, stopVars, memoryVars, githubVars>>

(***************************************************************************)
(* stop                                                                    *)
(***************************************************************************)

\* The step runs whether or not the build ran; it reads the pid and looks for it.
Stop ==
    /\ stopper = "idle"
    /\ starter = "failed" \/ build = "over"
    /\ stopper' = IF file.pid /\ holder # "nobody" THEN "open" ELSE "done"
    /\ UNCHANGED <<starter, worker, killed, holder, handle, struck, file, faults, buildVars,
                   memoryVars, githubVars>>

\* pidfd_open: from here on the handle stands for one process, whatever its pid does.
PidfdOpen ==
    /\ stopper \in {"open", "open_kill"}
    /\ handle' = holder
    /\ stopper' = IF holder = "nobody" THEN "done"
                  ELSE IF stopper = "open" THEN "check" ELSE "check_kill"
    /\ UNCHANGED <<starter, worker, killed, holder, struck, file, faults, buildVars, memoryVars,
                   githubVars>>

\* owned_process: start time, command line and owner of the pid are the worker's.
Owned == holder = "worker" /\ worker \in Alive

CheckOwned ==
    /\ stopper \in {"check", "check_kill"}
    /\ stopper' = IF ~Owned THEN "done" ELSE IF stopper = "check" THEN "send" ELSE "send_kill"
    /\ UNCHANGED <<starter, worker, killed, holder, handle, struck, file, faults, buildVars,
                   memoryVars, githubVars>>

\* Deviation: os.kill on the pid that was checked.
SendSignalToPid ==
    /\ stopper \in {"send", "send_kill"}
    /\ struck' = struck \cup ({holder} \ {"nobody"})
    /\ IF holder = "worker"
       THEN IF stopper = "send" THEN Terminated ELSE Slain
       ELSE UNCHANGED <<worker, killed>>
    /\ stopper' = IF stopper = "send" /\ holder # "nobody" THEN "wait" ELSE "done"
    /\ UNCHANGED <<starter, holder, handle, file, faults, buildVars, memoryVars, githubVars>>

\* pidfd_send_signal reaches the process the handle was opened for, or nobody.
SendSignal ==
    /\ stopper \in {"send", "send_kill"}
    /\ IF handle = holder
       THEN /\ struck' = struck \cup {handle}
            /\ IF stopper = "send" THEN Terminated ELSE Slain
            /\ stopper' = IF stopper = "send" THEN "wait" ELSE "done"
       ELSE stopper' = "done" /\ UNCHANGED <<struck, worker, killed>>
    /\ UNCHANGED <<starter, holder, handle, file, faults, buildVars, memoryVars, githubVars>>

\* The worker is seen to be gone, or a second passes.
StopWaits ==
    /\ stopper = "wait"
    /\ stopper' = IF Owned THEN "open_kill" ELSE "done"
    /\ UNCHANGED <<starter, worker, killed, holder, handle, struck, file, faults, buildVars,
                   memoryVars, githubVars>>

(***************************************************************************)
(* The build step, GitHub and the operating system                         *)
(***************************************************************************)

BuildStarts ==
    /\ build = "waiting" /\ starter = "ready"
    /\ build' = "running"
    /\ UNCHANGED <<starter, worker, killed, holder, file, faults, log, closed, stopVars,
                   memoryVars, githubVars>>

BuildSample ==
    /\ build = "running" /\ log < MaxSamples
    /\ log' = log + 1
    /\ UNCHANGED <<starter, worker, killed, holder, file, faults, build, closed, stopVars,
                   memoryVars, githubVars>>

\* The observer's last record is terminal, unless the observer was killed.
BuildEnds ==
    /\ build = "running"
    /\ build' = "over"
    /\ \/ log' = log + 1 /\ closed' = TRUE
       \/ UNCHANGED <<log, closed>>
    /\ UNCHANGED <<starter, worker, killed, holder, file, faults, stopVars, memoryVars,
                   githubVars>>

\* GitHub carries out a request, in whatever order they arrive.
CarryOut ==
    \E q \in flight :
        /\ stored' = stored \cup {q}
        /\ remote' = q
        /\ overtaken' = (overtaken \/ q < remote)
        /\ flight' = flight \ {q}
        /\ reply' = (reply \/ q \in Current)
        /\ UNCHANGED <<starter, worker, killed, holder, file, faults, buildVars, stopVars,
                       memoryVars>>

\* The dead worker is reaped once its parent is gone, and its pid may be used again.
Reaped ==
    /\ worker = "dead" /\ holder = "worker" /\ starter \in {"ready", "failed"}
    /\ holder' = "nobody"
    /\ UNCHANGED <<starter, worker, killed, file, faults, buildVars, stopVars, memoryVars,
                   githubVars>>

PidReused ==
    /\ worker = "dead" /\ holder = "nobody"
    /\ holder' = "other"
    /\ UNCHANGED <<starter, worker, killed, file, faults, buildVars, stopVars, memoryVars,
                   githubVars>>

Finished ==
    /\ stopper = "done" /\ worker \in {"none", "dead"}
    /\ UNCHANGED vars

Start == Reserve \/ Launch \/ PollReady \/ PollDead \/ Deadline \/ DeadlineKill

RunWorker ==
    \/ Boot \/ InstallHandlers \/ EnsureAbsent \/ Create \/ Created \/ MarkReady \/ WriteReady
    \/ ReadSamples \/ Patch \/ Patched \/ WriteAck \/ LeaveLoop \/ Finally

StopStep == Stop \/ PidfdOpen \/ CheckOwned \/ SendSignal \/ StopWaits

Next ==
    \/ Start \/ StarterCancelled
    \/ RunWorker \/ RequestFails \/ WorkerKilled
    \/ StopStep
    \/ BuildStarts \/ BuildSample \/ BuildEnds
    \/ CarryOut \/ Reaped \/ PidReused
    \/ Finished

Spec == Init /\ [][Next]_vars

\* Deadlines bound every wait: start's readiness, each request, the worker's lifetime,
\* stop's second; the workflow runs its steps in order and the build has a timeout.
Answer == worker \in {"posting", "patching"} /\ CarryOut
Fairness ==
    /\ WF_vars(Start) /\ WF_vars(StopStep)
    /\ WF_vars(RunWorker) /\ WF_vars(LeaveLoop) /\ WF_vars(Answer)
    /\ WF_vars(BuildStarts) /\ WF_vars(BuildEnds)

FairSpec == Spec /\ Fairness

(***************************************************************************)
(* Properties                                                              *)
(***************************************************************************)

\* "The heavy build must not start unless GitHub acknowledges check creation": the build
\* step runs only if the check exists and the state file has left the phase "starting".
BuildAcknowledged == build # "waiting" => 0 \in stored /\ file.phase # "starting"

\* An acknowledgment is never invented: the state the worker holds and the state file name
\* a snapshot the check has shown, and no more acknowledgments than records, through failed
\* and abandoned requests and failed writes.
AckWasStored ==
    /\ known => state.ack \in stored
    /\ file.phase \in {"ready", "running", "ended"} => file.ack \in stored
    /\ file.count <= file.ack /\ file.ack <= state.ack /\ state.ack <= log

\* What was acknowledged survives the loss of the runner ("lost a locally acknowledged
\* sample" in the smoke test): the check never shows less than the state file claims, unless
\* GitHub carries out a PATCH that timed out after it has acknowledged a later one.
RemoteKeepsAcked ==
    file.phase \in {"ready", "running", "ended"} /\ ~overtaken => remote >= file.ack

\* A worker that leaves by itself has put its last acknowledgment into the state file, even
\* if it is cancelled between GitHub's answer and the write.
CancelKeepsAck ==
    worker = "dead" /\ known /\ ~killed /\ faults = 0 => file.ack = state.ack

\* stop signals nobody but the worker, although the worker may die and its pid be used
\* again at any point of signal_owned.
OnlyWorkerStruck == "other" \notin struck

\* The state file only moves forward, and an ended state is final.
PhaseRank(phase) ==
    CHOOSE n \in 0..4 : <<"none", "starting", "ready", "running", "ended">>[n + 1] = phase
FileForward ==
    [][/\ PhaseRank(file.phase) <= PhaseRank(file'.phase)
       /\ file.ack <= file'.ack
       /\ file.phase = "ended" => file' = file]_file

\* Nothing hangs: start is answered, the worker ends and stop returns, whatever is lost,
\* killed or cancelled.
EverythingEnds == <>(stopper = "done" /\ worker \in {"none", "dead"})

(***************************************************************************)
(* Refinement: a claim about the snapshots that GitHub keeps               *)
(***************************************************************************)

\* What the state file claims, and whether it is its last word.
Claimed == IF file.phase \in {"ready", "running", "ended"} THEN file.ack ELSE -1
Final == file.phase = "ended"

Promise == INSTANCE DurableLog WITH
    Snapshots <- 0..(MaxSamples + 1), kept <- stored, claim <- Claimed, final <- Final,
    granted <- build # "waiting"

\* Start, worker and stop implement the claim of DurableLog: through failed, late and
\* abandoned requests, failed writes and signals the state file names what the check has
\* shown, its claim only grows and its last word stands, and the build starts on a claim.
ImplementsLog == Promise!LogSpec
=============================================================================
