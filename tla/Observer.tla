------------------------------ MODULE Observer ------------------------------
(***************************************************************************)
(* The build supervisor, scripts/observe-rbm-build.py: run_build launches  *)
(* the build in a process group of its own, copies its output, records the *)
(* machine's resources, passes cancellations on, and returns an exit code. *)
(*                                                                         *)
(* Signals arrive between any two steps and are only put on a list.  The   *)
(* build's child may leave other processes behind: members of its group,   *)
(* with or without its standard output, and a process that has left the    *)
(* group and keeps the output open for ever.                               *)
(***************************************************************************)
EXTENDS Integers

CONSTANTS
    MaxSignals,  \* bound on cancellations
    MaxOutput,   \* bound on blocks of output
    MaxFaults    \* bound on failed reads, on records that cannot be written and on the
                 \* loss of the supervisor

ASSUME BoundsAssumption == {MaxSignals, MaxOutput, MaxFaults} \subseteq Nat

VARIABLES
    pc,         \* the supervisor's step
    pending,    \* pending_signals, in number
    observed,   \* observed_signal is set
    noted,      \* signal records in the resource log
    missed,     \* history: signal records that could not be written
    told,       \* signals forwarded
    last,       \* the reason of the last record in the resource log
    shown,      \* history: a record in the log names a cancellation
    polled,     \* poll() has returned the child's status
    deadline,   \* the grace after the first signal or the child's end
    killed,     \* the drain after SIGKILL
    eof,        \* the stream is at its end
    copied,     \* blocks of output taken from the pipe for console and build log
    code,       \* what run_build returns
    child,      \* the child process
    status,     \* how it ended
    kin,        \* another member of its group, with its output ("loud") or without
    stray,      \* a descendant outside the group holds the output
    open,       \* the child holds its output
    written,    \* blocks of output written
    asked,      \* the group was sent SIGTERM
    signals,    \* cancellations so far
    early,      \* history: one of them came while the child was running
    faults      \* how many faults have happened

loopVars == <<polled, deadline, killed>>
logVars == <<observed, noted, missed, told, last, shown>>
streamVars == <<eof, copied>>
childVars == <<child, status, kin, stray, open, written, asked>>
signalVars == <<pending, signals, early>>
vars == <<pc, loopVars, logVars, streamVars, code, childVars, signalVars, faults>>

Terminal == {"exit", "launch-error"}

TypeOK ==
    /\ pc \in {"launch", "drain", "forward", "poll", "kill", "leave", "read", "reap", "exit",
               "done", "lost"}
    /\ {observed, shown, polled, eof, stray, open, asked, early} \subseteq BOOLEAN
    /\ {pending, noted, missed, told, signals} \subseteq 0..MaxSignals
    /\ last \in {"none", "start", "signal", "interval"} \cup Terminal
    /\ deadline \in {"none", "set", "passed"}
    /\ killed \in {"no", "draining", "drained"}
    /\ {copied, written} \subseteq 0..MaxOutput
    /\ code \in {"none", "ok", "failed", "cancelled"}
    /\ child \in {"none", "running", "ended"}
    /\ status \in {"none", "ok", "error", "signal"}
    /\ kin \in {"none", "quiet", "loud"}
    /\ faults \in 0..MaxFaults

Init ==
    /\ pc = "launch" /\ code = "none"
    /\ pending = 0 /\ signals = 0 /\ early = FALSE
    /\ observed = FALSE /\ noted = 0 /\ missed = 0 /\ told = 0
    /\ last = "none" /\ shown = FALSE
    /\ polled = FALSE /\ deadline = "none" /\ killed = "no"
    /\ eof = FALSE /\ copied = 0
    /\ child = "none" /\ status = "none" /\ kin = "none" /\ stray = FALSE /\ open = FALSE
    /\ written = 0 /\ asked = FALSE
    /\ faults = 0

Fault == faults < MaxFaults /\ faults' = faults + 1

\* A record with its reason; each one also names the signal observed so far, if any.
Written(reason, signalled) ==
    /\ last' = reason
    /\ shown' = (shown \/ signalled)
    /\ UNCHANGED faults

\* The write fails or is cut short, or the snapshot does: there is a warning on the
\* console, and the supervisor goes on as if the record had been written.
Unwritten == Fault /\ UNCHANGED <<last, shown>>

Record(reason, signalled) == Written(reason, signalled) \/ Unwritten

\* killpg finds the group while the child is not reaped or another member lives.
GroupAlive == ~polled \/ kin # "none"

\* SIGKILL to the group.
KillGroup ==
    /\ child' = "ended"
    /\ status' = IF child = "running" THEN "signal" ELSE status
    /\ kin' = "none"
    /\ open' = FALSE
    /\ UNCHANGED <<stray, written, asked>>

Launch ==
    /\ pc = "launch"
    /\ child' = "running" /\ open' = TRUE
    /\ Record("start", observed)
    /\ pc' = "drain"
    /\ UNCHANGED <<loopVars, streamVars, code, signalVars, observed, noted, missed, told,
                   status, kin, stray, written, asked>>

LaunchFails ==
    /\ pc = "launch"
    /\ Record("launch-error", observed)
    /\ code' = "failed"
    /\ pc' = "done"
    /\ UNCHANGED <<loopVars, streamVars, childVars, signalVars, observed, noted, missed, told>>

\* snapshot("signal"), with observed_signal set.
SignalRecord ==
    \/ Written("signal", TRUE) /\ noted' = noted + 1 /\ UNCHANGED missed
    \/ Unwritten /\ missed' = missed + 1 /\ UNCHANGED noted

\* Deviation: the signal is looked at and not taken off the list.
DrainKeepsSignal ==
    /\ pc = "drain"
    /\ IF pending > 0
       THEN observed' = TRUE /\ SignalRecord /\ pc' = "forward"
       ELSE pc' = "poll" /\ UNCHANGED <<observed, noted, missed, last, shown, faults>>
    /\ UNCHANGED <<loopVars, streamVars, code, childVars, told, signalVars>>

\* Deviation: a signal is passed on first and recorded with the next sample.
DrainUnrecorded ==
    /\ pc = "drain"
    /\ IF pending > 0
       THEN pending' = pending - 1 /\ observed' = TRUE /\ pc' = "forward"
       ELSE pc' = "poll" /\ UNCHANGED <<pending, observed>>
    /\ UNCHANGED <<loopVars, streamVars, code, childVars, noted, missed, told, last, shown,
                   signals, early, faults>>

\* Each captured signal is given to the log first; a record that could not be written does
\* not hold the signal back.
Drain ==
    /\ pc = "drain"
    /\ IF pending > 0
       THEN /\ pending' = pending - 1
            /\ observed' = TRUE /\ SignalRecord
            /\ pc' = "forward"
       ELSE /\ pc' = "poll"
            /\ UNCHANGED <<pending, observed, noted, missed, last, shown, faults>>
    /\ UNCHANGED <<loopVars, streamVars, code, childVars, told, signals, early>>

\* The first signal starts the grace, or it runs already; another one ends it at once.
Forward ==
    /\ pc = "forward"
    /\ told' = told + 1
    /\ asked' = (asked \/ GroupAlive)
    /\ deadline' = IF deadline = "none" THEN "set" ELSE "passed"
    /\ pc' = "drain"
    /\ UNCHANGED <<observed, noted, missed, last, shown, polled, killed, streamVars, code,
                   child, status, kin, stray, open, written, signalVars, faults>>

\* poll() reaps the child; what is left of its group is asked to end.
Poll ==
    /\ pc = "poll"
    /\ polled' = (child = "ended")
    /\ IF polled' /\ deadline = "none"
       THEN asked' = (asked \/ kin # "none") /\ deadline' = "set"
       ELSE UNCHANGED <<asked, deadline>>
    /\ pc' = "kill"
    /\ UNCHANGED <<logVars, killed, streamVars, code, child, status, kin, stray, open, written,
                   signalVars, faults>>

Kill ==
    /\ pc = "kill"
    /\ IF deadline = "passed" /\ killed = "no"
       THEN /\ killed' = "draining"
            /\ IF GroupAlive THEN KillGroup ELSE UNCHANGED childVars
       ELSE UNCHANGED <<killed, childVars>>
    /\ pc' = "leave"
    /\ UNCHANGED <<logVars, polled, deadline, streamVars, code, signalVars, faults>>

\* Deviation: the end of the child and of its output are enough.
EnoughAtEof == polled /\ eof

\* Deviation: the child's end is enough, or the end of the drain.
EnoughAtExit == (polled /\ (~GroupAlive \/ killed # "no")) \/ killed = "drained"

\* Deviation: the drain after SIGKILL is not bounded.
EnoughUnbounded == polled /\ eof /\ (~GroupAlive \/ killed # "no")

\* The loop's two break conditions.
Enough ==
    \/ polled /\ eof /\ (~GroupAlive \/ killed # "no")
    \/ killed = "drained"

Leave ==
    /\ pc = "leave"
    /\ pc' = IF Enough THEN "reap" ELSE "read"
    /\ UNCHANGED <<loopVars, logVars, streamVars, code, childVars, signalVars, faults>>

Held == open \/ kin = "loud" \/ stray

\* A periodic record if it is due; then a block of output, the end of it, or a timeout.
Read ==
    /\ pc = "read"
    /\ \/ UNCHANGED <<last, shown, faults>>
       \/ Record("interval", observed)
    /\ IF copied < written /\ ~eof
       THEN copied' = copied + 1 /\ UNCHANGED eof
       ELSE eof' = (eof \/ ~Held) /\ UNCHANGED copied
    /\ pc' = "drain"
    /\ UNCHANGED <<loopVars, observed, noted, missed, told, code, childVars, signalVars>>

\* A failed read ends the copying.
ReadFails ==
    /\ pc = "read"
    /\ Fault
    /\ eof' = TRUE
    /\ pc' = "drain"
    /\ UNCHANGED <<loopVars, logVars, copied, code, childVars, signalVars>>

\* Deviation: the child's exit status is the supervisor's.
CodeOfChild(how) == IF how = "ok" THEN "ok" ELSE "failed"

\* "A handled cancellation must not look like a completed build."
Code(how) == IF how # "ok" THEN "failed" ELSE IF observed THEN "cancelled" ELSE "ok"

\* A child that outlived the drain is killed with its group; the exit code is fixed.
Reap ==
    /\ pc = "reap"
    /\ IF child = "running" THEN KillGroup ELSE UNCHANGED childVars
    /\ polled' = TRUE
    /\ code' = Code(status')
    /\ pc' = "exit"
    /\ UNCHANGED <<logVars, deadline, killed, streamVars, signalVars, faults>>

\* Deviation: a cancellation that comes late is still handled after the exit record.
ExitUnlessCancelled ==
    /\ pc = "exit"
    /\ Record("exit", observed)
    /\ pc' = IF pending > 0 THEN "drain" ELSE "done"
    /\ UNCHANGED <<loopVars, observed, noted, missed, told, streamVars, code, childVars,
                   signalVars>>

Exit ==
    /\ pc = "exit"
    /\ Record("exit", observed)
    /\ pc' = "done"
    /\ UNCHANGED <<loopVars, observed, noted, missed, told, streamVars, code, childVars,
                   signalVars>>

\* The supervisor itself is killed, or its machine is lost.
Lost ==
    /\ pc \notin {"done", "lost"}
    /\ Fault
    /\ pc' = "lost"
    /\ UNCHANGED <<loopVars, logVars, streamVars, code, childVars, signalVars>>

GracePasses ==
    /\ deadline = "set"
    /\ deadline' = "passed"
    /\ UNCHANGED <<pc, logVars, polled, killed, streamVars, code, childVars, signalVars, faults>>

DrainPasses ==
    /\ killed = "draining"
    /\ killed' = "drained"
    /\ UNCHANGED <<pc, logVars, polled, deadline, streamVars, code, childVars, signalVars,
                   faults>>

(***************************************************************************)
(* The runner's cancellation, and the build's processes                    *)
(***************************************************************************)

\* capture: the handler puts the signal on the list.
Capture ==
    /\ pc \notin {"done", "lost"}
    /\ signals < MaxSignals
    /\ signals' = signals + 1
    /\ pending' = pending + 1
    /\ early' = (early \/ child = "running")
    /\ UNCHANGED <<pc, loopVars, logVars, streamVars, code, childVars, faults>>

Write ==
    /\ Held /\ written < MaxOutput
    /\ written' = written + 1
    /\ UNCHANGED <<pc, loopVars, logVars, streamVars, code, child, status, kin, stray, open,
                   asked, signalVars, faults>>

\* A process gives up its files before its parent can wait for it.
ChildCloses ==
    /\ open
    /\ open' = FALSE
    /\ UNCHANGED <<pc, loopVars, logVars, streamVars, code, child, status, kin, stray, written,
                   asked, signalVars, faults>>

ChildEnds ==
    /\ child = "running" /\ ~open
    /\ child' = "ended"
    /\ status' \in {"ok", "error"} \cup (IF asked THEN {"signal"} ELSE {})
    /\ UNCHANGED <<pc, loopVars, logVars, streamVars, code, kin, stray, open, written, asked,
                   signalVars, faults>>

\* The build starts another process, which ends or leaves the group when it likes.
KinStarts ==
    /\ child = "running" /\ open /\ kin = "none"
    /\ kin' \in {"quiet", "loud"}
    /\ UNCHANGED <<pc, loopVars, logVars, streamVars, code, child, status, stray, open, written,
                   asked, signalVars, faults>>

KinLeaves ==
    /\ kin # "none"
    /\ kin' = "none"
    /\ stray' \in {stray, stray \/ kin = "loud"}
    /\ UNCHANGED <<pc, loopVars, logVars, streamVars, code, child, status, open, written, asked,
                   signalVars, faults>>

Finished ==
    /\ pc \in {"done", "lost"}
    /\ UNCHANGED vars

Supervise ==
    \/ Launch \/ Drain \/ Forward \/ Poll \/ Kill \/ Leave \/ Read \/ Reap \/ Exit

Next ==
    \/ Supervise \/ LaunchFails \/ ReadFails \/ Lost
    \/ GracePasses \/ DrainPasses
    \/ Capture
    \/ Write \/ ChildCloses \/ ChildEnds \/ KinStarts \/ KinLeaves
    \/ Finished

Spec == Init /\ [][Next]_vars

\* The supervisor's loop never blocks for longer than 100 ms, and time passes.
Fairness == WF_vars(Supervise) /\ WF_vars(GracePasses) /\ WF_vars(DrainPasses)

FairSpec == Spec /\ Fairness

(***************************************************************************)
(* Properties                                                              *)
(***************************************************************************)

\* run_build reports success only for a build that succeeded and that it did not pass a
\* cancellation to, even if the build ends with status 0 after the signal.
ExitIsHonest == code = "ok" => status = "ok" /\ told = 0

\* "Snapshot and flush BEFORE forwarding": wherever the supervisor is lost, the only
\* cancellations the build saw and the resource log lacks are those whose own record could
\* not be written, and then no later record conceals them: a log that ends with the exit
\* names a cancellation if the build was sent one.
RecordedFirst ==
    /\ told <= noted + missed
    /\ last = "exit" /\ told > 0 => shown

\* A supervised build leaves nobody behind in its process group, whoever ignores SIGTERM,
\* outlives the child or gives up its output, and whether or not its end can be recorded.
GroupGone == pc = "done" => kin = "none" /\ child # "running"

\* A build that ends by itself, without a survivor to be killed, has all its output copied
\* if no read and no write fails: the loop does not end at the child's exit while the pipe
\* still holds blocks.
OutputComplete == pc \in {"exit", "done"} /\ killed = "no" /\ faults = 0 => copied = written

\* The record of the exit is the last of the resource log, whatever arrives while it is
\* written: the telemetry publisher ends on the first terminal record.
TerminalIsLast == [][(last \in Terminal) => last' = last]_vars

\* A build that ends or is cancelled does not hang its step, although a process that left
\* the group keeps the output open or the child ignores SIGTERM.
Returns == (child = "ended" \/ pending > 0) ~> (pc \in {"done", "lost"})

\* "A handled cancellation must not look like a completed build": success is not reported
\* when the supervisor had captured a cancellation while the build was running.
CancellationShows == code = "ok" => ~early
=============================================================================
