--------------------------- MODULE Observer_proofs ---------------------------
(***************************************************************************)
(* What the supervisor promises for every number of cancellations, blocks  *)
(* of output and faults.                                                   *)
(***************************************************************************)
EXTENDS Observer, TLAPS

USE BoundsAssumption DEF BoundsAssumption
USE DEF Fault, KillGroup, GroupAlive, Held, Terminal, Written, Unwritten, Record,
        SignalRecord, loopVars, logVars, streamVars, childVars, signalVars

\* TypeOK, one variable at a time.
Flags ==
    /\ observed \in BOOLEAN /\ shown \in BOOLEAN /\ polled \in BOOLEAN /\ eof \in BOOLEAN
    /\ stray \in BOOLEAN /\ open \in BOOLEAN /\ asked \in BOOLEAN /\ early \in BOOLEAN

Values ==
    /\ pc \in {"launch", "drain", "forward", "poll", "kill", "leave", "read", "reap",
               "exit", "done", "lost"}
    /\ pending \in 0..MaxSignals /\ noted \in 0..MaxSignals /\ missed \in 0..MaxSignals
    /\ told \in 0..MaxSignals /\ signals \in 0..MaxSignals
    /\ copied \in 0..MaxOutput /\ written \in 0..MaxOutput
    /\ last \in {"none", "start", "signal", "interval"} \cup Terminal
    /\ deadline \in {"none", "set", "passed"}
    /\ killed \in {"no", "draining", "drained"}
    /\ code \in {"none", "ok", "failed", "cancelled"}
    /\ child \in {"none", "running", "ended"}
    /\ status \in {"none", "ok", "error", "signal"}
    /\ kin \in {"none", "quiet", "loud"}
    /\ faults \in 0..MaxFaults

\* The counters tell what happened to each cancellation: captured, recorded or lost to a
\* failed write, forwarded.
CountInv ==
    /\ pending + noted + missed = signals
    /\ told <= noted + missed
    /\ pc = "forward" => told < noted + missed
    /\ copied <= written
    /\ noted + missed > 0 => observed
    /\ early => signals > 0

\* What the supervisor knows of the child and its group.
ProcInv ==
    /\ pc = "launch" =>
           /\ child = "none" /\ status = "none" /\ ~polled
           /\ killed = "no" /\ ~eof /\ last = "none"
    /\ child = "none" => kin = "none" /\ ~stray /\ ~open
    /\ open => child = "running"
    /\ child = "running" => status = "none"
    /\ polled => child = "ended"
    /\ killed # "no" => child = "ended" /\ kin = "none"
    /\ pc \in {"reap", "exit"} => child = "ended" /\ kin = "none"
    /\ pc = "done" => child # "running" /\ kin = "none"
    /\ last \in Terminal => pc = "done"
    /\ last = "exit" /\ observed => shown

\* The end of the stream is seen only when nobody holds the output and it is copied.
StreamInv ==
    faults = 0 => /\ eof => ~Held /\ copied = written
                  /\ pc \in {"reap", "exit", "done"} /\ killed = "no" =>
                        eof \/ child = "none"
                  /\ child = "none" => written = 0

\* A reported success.
CodeInv ==
    /\ code # "none" => pc \in {"exit", "done", "lost"}
    /\ code = "ok" => status = "ok" /\ child = "ended" /\ ~observed

Inv == Flags /\ Values /\ CountInv /\ ProcInv /\ StreamInv /\ CodeInv

\* Every step keeps the flags.
LEMMA FlagStep == Flags /\ [Next]_vars => Flags'
<1> SUFFICES ASSUME Flags, [Next]_vars PROVE Flags'
    OBVIOUS
<1> USE DEF Flags
<1>1. CASE Launch
    BY <1>1 DEF Launch
<1>2. CASE Drain
    BY <1>2 DEF Drain
<1>3. CASE Forward
    BY <1>3 DEF Forward
<1>4. CASE Poll
    BY <1>4 DEF Poll
<1>5. CASE Kill
    BY <1>5 DEF Kill
<1>6. CASE Leave
    BY <1>6 DEF Leave
<1>7. CASE Read
    BY <1>7 DEF Read
<1>8. CASE Reap
    BY <1>8 DEF Reap, Code
<1>9. CASE Exit
    BY <1>9 DEF Exit
<1>10. CASE LaunchFails
    BY <1>10 DEF LaunchFails
<1>11. CASE ReadFails
    BY <1>11 DEF ReadFails
<1>12. CASE Lost
    BY <1>12 DEF Lost
<1>13. CASE GracePasses
    BY <1>13 DEF GracePasses
<1>14. CASE DrainPasses
    BY <1>14 DEF DrainPasses
<1>15. CASE Capture
    BY <1>15 DEF Capture
<1>16. CASE Write
    BY <1>16 DEF Write
<1>17. CASE ChildCloses
    BY <1>17 DEF ChildCloses
<1>18. CASE ChildEnds
    BY <1>18 DEF ChildEnds
<1>19. CASE KinStarts
    BY <1>19 DEF KinStarts
<1>20. CASE KinLeaves
    BY <1>20 DEF KinLeaves
<1>21. CASE Finished
    BY <1>21 DEF Finished, vars
<1>22. CASE UNCHANGED vars
    BY <1>22 DEF vars
<1> QED
    BY <1>1, <1>2, <1>3, <1>4, <1>5, <1>6, <1>7, <1>8, <1>9, <1>10, <1>11, <1>12, <1>13,
      <1>14, <1>15, <1>16, <1>17, <1>18, <1>19, <1>20, <1>21, <1>22
       DEF Next, Supervise

\* Every step keeps the other types and the counters.
LEMMA ValueStep == Values /\ CountInv /\ [Next]_vars => Values' /\ CountInv'
<1> SUFFICES ASSUME Values, CountInv, [Next]_vars PROVE Values' /\ CountInv'
    OBVIOUS
<1> USE DEF Values, CountInv
<1>1. CASE Launch
    BY <1>1 DEF Launch
<1>2. CASE Drain
    BY <1>2 DEF Drain
<1>3. CASE Forward
    BY <1>3 DEF Forward
<1>4. CASE Poll
    BY <1>4 DEF Poll
<1>5. CASE Kill
    BY <1>5 DEF Kill
<1>6. CASE Leave
    BY <1>6 DEF Leave
<1>7. CASE Read
    BY <1>7 DEF Read
<1>8. CASE Reap
    BY <1>8 DEF Reap, Code
<1>9. CASE Exit
    BY <1>9 DEF Exit
<1>10. CASE LaunchFails
    BY <1>10 DEF LaunchFails
<1>11. CASE ReadFails
    BY <1>11 DEF ReadFails
<1>12. CASE Lost
    BY <1>12 DEF Lost
<1>13. CASE GracePasses
    BY <1>13 DEF GracePasses
<1>14. CASE DrainPasses
    BY <1>14 DEF DrainPasses
<1>15. CASE Capture
    BY <1>15 DEF Capture
<1>16. CASE Write
    BY <1>16 DEF Write
<1>17. CASE ChildCloses
    BY <1>17 DEF ChildCloses
<1>18. CASE ChildEnds
    BY <1>18 DEF ChildEnds
<1>19. CASE KinStarts
    BY <1>19 DEF KinStarts
<1>20. CASE KinLeaves
    BY <1>20 DEF KinLeaves
<1>21. CASE Finished
    BY <1>21 DEF Finished, vars
<1>22. CASE UNCHANGED vars
    BY <1>22 DEF vars
<1> QED
    BY <1>1, <1>2, <1>3, <1>4, <1>5, <1>6, <1>7, <1>8, <1>9, <1>10, <1>11, <1>12, <1>13,
      <1>14, <1>15, <1>16, <1>17, <1>18, <1>19, <1>20, <1>21, <1>22
       DEF Next, Supervise

\* Every step keeps ProcInv.
LEMMA ProcStep == Flags /\ Values /\ ProcInv /\ [Next]_vars => ProcInv'
<1> SUFFICES ASSUME Flags, Values, ProcInv, [Next]_vars PROVE ProcInv'
    OBVIOUS
<1> USE DEF Flags, Values, ProcInv
<1>1. CASE Launch
    BY <1>1 DEF Launch
<1>2. CASE Drain
    BY <1>2 DEF Drain
<1>3. CASE Forward
    BY <1>3 DEF Forward
<1>4. CASE Poll
    BY <1>4 DEF Poll
<1>5. CASE Kill
    BY <1>5 DEF Kill
<1>6. CASE Leave
    BY <1>6 DEF Leave, Enough
<1>7. CASE Read
    BY <1>7 DEF Read
<1>8. CASE Reap
    BY <1>8 DEF Reap
<1>9. CASE Exit
    BY <1>9 DEF Exit
<1>10. CASE LaunchFails
    BY <1>10 DEF LaunchFails
<1>11. CASE ReadFails
    BY <1>11 DEF ReadFails
<1>12. CASE Lost
    BY <1>12 DEF Lost
<1>13. CASE GracePasses
    BY <1>13 DEF GracePasses
<1>14. CASE DrainPasses
    BY <1>14 DEF DrainPasses
<1>15. CASE Capture
    BY <1>15 DEF Capture
<1>16. CASE Write
    BY <1>16 DEF Write
<1>17. CASE ChildCloses
    BY <1>17 DEF ChildCloses
<1>18. CASE ChildEnds
    BY <1>18 DEF ChildEnds
<1>19. CASE KinStarts
    BY <1>19 DEF KinStarts
<1>20. CASE KinLeaves
    BY <1>20 DEF KinLeaves
<1>21. CASE Finished
    BY <1>21 DEF Finished, vars
<1>22. CASE UNCHANGED vars
    BY <1>22 DEF vars
<1> QED
    BY <1>1, <1>2, <1>3, <1>4, <1>5, <1>6, <1>7, <1>8, <1>9, <1>10, <1>11, <1>12, <1>13,
      <1>14, <1>15, <1>16, <1>17, <1>18, <1>19, <1>20, <1>21, <1>22
       DEF Next, Supervise

\* Every step keeps StreamInv.
LEMMA StreamStep ==
    Flags /\ Values /\ CountInv /\ ProcInv /\ StreamInv /\ [Next]_vars => StreamInv'
<1> SUFFICES ASSUME Flags, Values, CountInv, ProcInv, StreamInv, [Next]_vars
             PROVE  StreamInv'
    OBVIOUS
<1> USE DEF Flags, Values, CountInv, ProcInv, StreamInv
<1>1. CASE Launch
    BY <1>1 DEF Launch
<1>2. CASE Drain
    BY <1>2 DEF Drain
<1>3. CASE Forward
    BY <1>3 DEF Forward
<1>4. CASE Poll
    BY <1>4 DEF Poll
<1>5. CASE Kill
    BY <1>5 DEF Kill
<1>6. CASE Leave
    BY <1>6 DEF Leave, Enough
<1>7. CASE Read
    BY <1>7 DEF Read
<1>8. CASE Reap
    BY <1>8 DEF Reap
<1>9. CASE Exit
    BY <1>9 DEF Exit
<1>10. CASE LaunchFails
    BY <1>10 DEF LaunchFails
<1>11. CASE ReadFails
    BY <1>11 DEF ReadFails
<1>12. CASE Lost
    BY <1>12 DEF Lost
<1>13. CASE GracePasses
    BY <1>13 DEF GracePasses
<1>14. CASE DrainPasses
    BY <1>14 DEF DrainPasses
<1>15. CASE Capture
    BY <1>15 DEF Capture
<1>16. CASE Write
    BY <1>16 DEF Write
<1>17. CASE ChildCloses
    BY <1>17 DEF ChildCloses
<1>18. CASE ChildEnds
    BY <1>18 DEF ChildEnds
<1>19. CASE KinStarts
    BY <1>19 DEF KinStarts
<1>20. CASE KinLeaves
    BY <1>20 DEF KinLeaves
<1>21. CASE Finished
    BY <1>21 DEF Finished, vars
<1>22. CASE UNCHANGED vars
    BY <1>22 DEF vars
<1> QED
    BY <1>1, <1>2, <1>3, <1>4, <1>5, <1>6, <1>7, <1>8, <1>9, <1>10, <1>11, <1>12, <1>13,
      <1>14, <1>15, <1>16, <1>17, <1>18, <1>19, <1>20, <1>21, <1>22
       DEF Next, Supervise

\* Every step keeps CodeInv.
LEMMA CodeStep == Flags /\ Values /\ ProcInv /\ CodeInv /\ [Next]_vars => CodeInv'
<1> SUFFICES ASSUME Flags, Values, ProcInv, CodeInv, [Next]_vars PROVE CodeInv'
    OBVIOUS
<1> USE DEF Flags, Values, ProcInv, CodeInv
<1>1. CASE Launch
    BY <1>1 DEF Launch
<1>2. CASE Drain
    BY <1>2 DEF Drain
<1>3. CASE Forward
    BY <1>3 DEF Forward
<1>4. CASE Poll
    BY <1>4 DEF Poll
<1>5. CASE Kill
    BY <1>5 DEF Kill
<1>6. CASE Leave
    BY <1>6 DEF Leave
<1>7. CASE Read
    BY <1>7 DEF Read
<1>8. CASE Reap
    BY <1>8 DEF Reap, Code
<1>9. CASE Exit
    BY <1>9 DEF Exit
<1>10. CASE LaunchFails
    BY <1>10 DEF LaunchFails
<1>11. CASE ReadFails
    BY <1>11 DEF ReadFails
<1>12. CASE Lost
    BY <1>12 DEF Lost
<1>13. CASE GracePasses
    BY <1>13 DEF GracePasses
<1>14. CASE DrainPasses
    BY <1>14 DEF DrainPasses
<1>15. CASE Capture
    BY <1>15 DEF Capture
<1>16. CASE Write
    BY <1>16 DEF Write
<1>17. CASE ChildCloses
    BY <1>17 DEF ChildCloses
<1>18. CASE ChildEnds
    BY <1>18 DEF ChildEnds
<1>19. CASE KinStarts
    BY <1>19 DEF KinStarts
<1>20. CASE KinLeaves
    BY <1>20 DEF KinLeaves
<1>21. CASE Finished
    BY <1>21 DEF Finished, vars
<1>22. CASE UNCHANGED vars
    BY <1>22 DEF vars
<1> QED
    BY <1>1, <1>2, <1>3, <1>4, <1>5, <1>6, <1>7, <1>8, <1>9, <1>10, <1>11, <1>12, <1>13,
      <1>14, <1>15, <1>16, <1>17, <1>18, <1>19, <1>20, <1>21, <1>22
       DEF Next, Supervise

\* The inductive invariant.
THEOREM Inductive == Spec => []Inv
<1>1. Init => Inv
    <2>1. MaxSignals \in Nat /\ MaxOutput \in Nat /\ MaxFaults \in Nat
        OBVIOUS
    <2>2. 0 \in 0..MaxSignals /\ 0 \in 0..MaxOutput /\ 0 \in 0..MaxFaults
        BY <2>1
    <2>3. Init => Flags /\ Values
        BY <2>2 DEF Init, Flags, Values
    <2>4. Init => CountInv /\ ProcInv /\ StreamInv /\ CodeInv
        BY DEF Init, CountInv, ProcInv, StreamInv, CodeInv
    <2> QED
        BY <2>3, <2>4 DEF Inv
<1>2. Inv /\ [Next]_vars => Inv'
    BY FlagStep, ValueStep, ProcStep, StreamStep, CodeStep DEF Inv
<1> QED
    BY <1>1, <1>2, PTL DEF Spec

\* Every variable keeps its type; no cancellation is counted twice.
THEOREM TypeCorrect == Spec => []TypeOK
<1>1. Inv => TypeOK
    BY DEF Inv, TypeOK, Flags, Values
<1> QED
    BY <1>1, Inductive, PTL

\* Success is reported only for a build that succeeded and was not cancelled through the
\* supervisor (run_build's exit code), with any number of cancellations.
THEOREM HonestExit == Spec => []ExitIsHonest
<1>1. Inv => ExitIsHonest
    <2> SUFFICES ASSUME Inv, code = "ok" PROVE status = "ok" /\ told = 0
        BY DEF ExitIsHonest
    <2>1. status = "ok" /\ ~observed
        BY DEF Inv, CodeInv
    <2>2. /\ noted \in Nat /\ missed \in Nat /\ told \in Nat
          /\ told <= noted + missed /\ ~(noted + missed > 0)
        BY <2>1 DEF Inv, CountInv, Values
    <2> QED
        BY <2>1, <2>2
<1> QED
    BY <1>1, Inductive, PTL

\* Every cancellation is given to the resource log before the build gets it (the loop over
\* pending_signals), wherever the supervisor is lost; only one whose own record could not
\* be written (Output.write goes on without it) is missing, and a log that ends with the
\* exit names a cancellation if the build was sent one.
THEOREM Recorded == Spec => []RecordedFirst
<1>1. Inv => told <= noted + missed
    BY DEF Inv, CountInv
<1>2. Inv /\ last = "exit" /\ told > 0 => shown
    <2> SUFFICES ASSUME Inv, last = "exit", told > 0 PROVE shown
        OBVIOUS
    <2>1. /\ noted \in Nat /\ missed \in Nat /\ told \in Nat
          /\ told <= noted + missed
        BY DEF Inv, CountInv, Values
    <2>2. observed
        BY <2>1 DEF Inv, CountInv
    <2> QED
        BY <2>2 DEF Inv, ProcInv
<1>3. Inv => RecordedFirst
    BY <1>1, <1>2 DEF RecordedFirst
<1> QED
    BY <1>3, Inductive, PTL

\* When run_build returns nobody is left in the child's process group (forward,
\* group_alive, the loop's break conditions), however often it forks.
THEOREM NobodyLeft == Spec => []GroupGone
<1>1. Inv => GroupGone
    BY DEF Inv, ProcInv, GroupGone
<1> QED
    BY <1>1, Inductive, PTL

\* A build that ends by itself has all its output copied (the condition on the stream's
\* end), however much it writes.
THEOREM Complete == Spec => []OutputComplete
<1>1. Inv => OutputComplete
    <2> SUFFICES ASSUME Inv, pc \in {"exit", "done"}, killed = "no", faults = 0
                 PROVE  copied = written
        BY DEF OutputComplete
    <2>1. CASE eof
        BY <2>1 DEF Inv, StreamInv
    <2>2. CASE child = "none"
        BY <2>2 DEF Inv, StreamInv, CountInv, Values
    <2> QED
        BY <2>1, <2>2 DEF Inv, StreamInv
<1> QED
    BY <1>1, Inductive, PTL

\* Nothing is recorded after the terminal record (snapshot and its callers), with any number
\* of cancellations while it is written.
THEOREM TerminalLast == Spec => TerminalIsLast
<1>1. Inv /\ [Next]_vars => [(last \in Terminal) => last' = last]_vars
    <2> SUFFICES ASSUME Inv, [Next]_vars, last \in Terminal PROVE last' = last
        OBVIOUS
    <2>1. pc = "done"
        BY DEF Inv, ProcInv
    <2> QED
        BY <2>1 DEF Next, vars,
               Supervise, Launch, Drain, Forward, Poll, Kill, Leave, Read, Reap, Exit,
               LaunchFails, ReadFails, Lost, GracePasses, DrainPasses, Capture, Write,
               ChildCloses, ChildEnds, KinStarts, KinLeaves, Finished
<1> QED
    BY <1>1, Inductive, PTL DEF Spec, TerminalIsLast

\* "A handled cancellation must not look like a completed build": success after a
\* cancellation that came while the build was running means that the signal is still on
\* the supervisor's list.  One that the loop has taken off is never lost, so the gap is
\* the stretch between the loop's last look at the list and the exit (run_build).
THEOREM LateAtMost == Spec => [](CancellationShows \/ pending > 0)
<1>1. Inv => CancellationShows \/ pending > 0
    BY DEF Inv, Flags, Values, CountInv, CodeInv, CancellationShows
<1> QED
    BY <1>1, Inductive, PTL
=============================================================================
