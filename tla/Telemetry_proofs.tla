-------------------------- MODULE Telemetry_proofs --------------------------
(***************************************************************************)
(* What the telemetry promises for every number of records and faults.     *)
(***************************************************************************)
EXTENDS Telemetry, TLAPS

USE BoundsAssumption DEF BoundsAssumption
USE DEF Fault, Terminated, Slain, Onward, Current, Owned, Alive, Trying, Phases, State,
        NoFile, Reserved, buildVars, stopVars, memoryVars, githubVars

Written == {"ready", "running", "ended"}

USE DEF Written

\* TypeOK, one variable at a time.
Flags ==
    /\ killed \in BOOLEAN /\ closed \in BOOLEAN /\ terminal \in BOOLEAN
    /\ known \in BOOLEAN /\ reply \in BOOLEAN /\ overtaken \in BOOLEAN

Points ==
    /\ starter \in {"idle", "launch", "poll", "wait", "ready", "failed"}
    /\ build \in {"waiting", "running", "over"}
    /\ stopper \in {"idle", "open", "check", "send", "wait", "open_kill", "check_kill",
                    "send_kill", "done"}
    /\ worker \in {"none", "dead"} \cup Alive
    /\ holder \in {"nobody", "worker", "other"}
    /\ handle \in {"nobody", "worker", "other"}
    /\ struck \subseteq {"worker", "other"}

Values ==
    /\ log \in 0..(MaxSamples + 1) /\ seq \in 0..(MaxSamples + 1)
    /\ state \in State
    /\ file \in State \cup {NoFile}
    /\ flight \subseteq 0..(MaxSamples + 1)
    /\ stored \subseteq 0..(MaxSamples + 1)
    /\ remote \in -1..(MaxSamples + 1)
    /\ faults \in 0..MaxFaults

\* The order of the steps, and whose process has the pid: it is not given away before the
\* worker is dead and reaped, which its parent alone can do.
FlowInv ==
    /\ starter \in {"idle", "launch"} => worker = "none"
    /\ worker = "none" => starter \in {"idle", "launch", "failed"} /\ holder = "nobody"
    /\ starter \in {"poll", "wait"} => holder = "worker"
    /\ holder \in {"nobody", "other"} => worker \in {"none", "dead"}
    /\ build # "waiting" => starter = "ready"
    /\ stopper # "idle" => starter \in {"ready", "failed"}

\* What the handle of stop stands for.
HandleInv ==
    /\ handle = "other" => holder = "other"
    /\ stopper \in {"check", "check_kill"} => handle # "nobody"
    /\ stopper \in {"send", "send_kill"} => handle = "worker"
    /\ "other" \notin struck

\* The two copies of the state.
FileInv ==
    /\ starter # "idle" <=> file.phase # "none"
    /\ worker \in {"none", "boot"} => state = Reserved /\ file \in {NoFile, Reserved}
    /\ worker \in {"none", "boot", "booted", "lookup", "post", "posting"} =>
           /\ state.phase = "starting" /\ state.ack = 0 /\ state.count = 0
           /\ file.phase \in {"none", "starting"} /\ file.ack = 0 /\ file.count = 0
           /\ ~known
    /\ worker \in {"created", "mark"} =>
           /\ state.phase = "ready" /\ state.ack = 0 /\ state.count = 0
           /\ file.phase = "starting" /\ file.ack = 0 /\ file.count = 0
    /\ worker \in {"loop", "patching"} => state.phase \in {"ready", "running"}
    /\ worker = "acked" => state.phase = "running"
    /\ worker \in {"mark", "loop", "patching", "acked"} => known
    /\ known => state.phase \in {"ready", "running"}
    /\ file.phase = "ended" => worker = "dead"
    /\ starter = "ready" => file.phase \in Written

\* What the counters say of each other.
CountInv ==
    /\ build # "over" => log <= MaxSamples
    /\ seq <= log
    /\ state.ack <= seq
    /\ worker = "patching" => state.ack < seq
    /\ state.count <= state.ack
    /\ file.count <= file.ack /\ file.ack <= state.ack

\* What GitHub has carried out.
StoredInv ==
    /\ reply => worker \in {"posting", "patching", "finally", "dead"}
    /\ reply /\ worker = "posting" => 0 \in stored
    /\ reply /\ worker = "patching" => seq \in stored
    /\ state.phase # "starting" => 0 \in stored /\ state.ack \in stored
    /\ file.phase \in Written => 0 \in stored /\ file.ack \in stored
    /\ \A q \in flight : q = 0 \/ 0 \in stored

\* The check shows the newest snapshot it has ever shown, unless one was overtaken.
RemoteInv == ~overtaken => \A n \in stored : n <= remote

\* The worker has been sent SIGTERM, or nobody will send it any more.
Asked ==
    starter = "wait" \/ stopper \in {"wait", "open_kill", "check_kill", "send_kill", "done"}

\* Without a fault the file lags behind the worker's copy only between GitHub's answer and
\* the write, or in the finally block of a worker that was asked to stop just there.
CancelInv ==
    known /\ faults = 0 /\ file.ack # state.ack =>
        worker = "acked" \/ (worker = "finally" /\ Asked) \/ (worker = "dead" /\ killed)

Inv == /\ Flags /\ Points /\ Values
       /\ FlowInv /\ HandleInv /\ FileInv /\ CountInv /\ StoredInv /\ RemoteInv /\ CancelInv

\* Every step keeps the flags.
LEMMA FlagStep == Flags /\ [Next]_vars => Flags'
<1> SUFFICES ASSUME Flags, [Next]_vars PROVE Flags'
    OBVIOUS
<1> USE DEF Flags
<1>1. CASE Reserve
    BY <1>1 DEF Reserve
<1>2. CASE Launch
    BY <1>2 DEF Launch
<1>3. CASE PollReady
    BY <1>3 DEF PollReady
<1>4. CASE PollDead
    BY <1>4 DEF PollDead
<1>5. CASE Deadline
    BY <1>5 DEF Deadline
<1>6. CASE DeadlineKill
    BY <1>6 DEF DeadlineKill
<1>7. CASE StarterCancelled
    BY <1>7 DEF StarterCancelled
<1>8. CASE Boot
    BY <1>8 DEF Boot
<1>9. CASE InstallHandlers
    BY <1>9 DEF InstallHandlers
<1>10. CASE EnsureAbsent
    BY <1>10 DEF EnsureAbsent
<1>11. CASE Create
    BY <1>11 DEF Create
<1>12. CASE Created
    BY <1>12 DEF Created
<1>13. CASE MarkReady
    BY <1>13 DEF MarkReady
<1>14. CASE WriteReady
    BY <1>14 DEF WriteReady
<1>15. CASE ReadSamples
    BY <1>15 DEF ReadSamples
<1>16. CASE Patch
    BY <1>16 DEF Patch
<1>17. CASE Patched
    BY <1>17 DEF Patched
<1>18. CASE WriteAck
    BY <1>18 DEF WriteAck
<1>19. CASE LeaveLoop
    BY <1>19 DEF LeaveLoop
<1>20. CASE Finally
    BY <1>20 DEF Finally
<1>21. CASE RequestFails
    BY <1>21 DEF RequestFails
<1>22. CASE WorkerKilled
    BY <1>22 DEF WorkerKilled
<1>23. CASE Stop
    BY <1>23 DEF Stop
<1>24. CASE PidfdOpen
    BY <1>24 DEF PidfdOpen
<1>25. CASE CheckOwned
    BY <1>25 DEF CheckOwned
<1>26. CASE SendSignal
    BY <1>26 DEF SendSignal
<1>27. CASE StopWaits
    BY <1>27 DEF StopWaits
<1>28. CASE BuildStarts
    BY <1>28 DEF BuildStarts
<1>29. CASE BuildSample
    BY <1>29 DEF BuildSample
<1>30. CASE BuildEnds
    BY <1>30 DEF BuildEnds
<1>31. CASE CarryOut
    BY <1>31 DEF CarryOut
<1>32. CASE Reaped
    BY <1>32 DEF Reaped
<1>33. CASE PidReused
    BY <1>33 DEF PidReused
<1>34. CASE Finished
    BY <1>34 DEF Finished, vars
<1>35. CASE UNCHANGED vars
    BY <1>35 DEF vars
<1> QED
    BY <1>1, <1>2, <1>3, <1>4, <1>5, <1>6, <1>7, <1>8, <1>9, <1>10, <1>11, <1>12, <1>13,
      <1>14, <1>15, <1>16, <1>17, <1>18, <1>19, <1>20, <1>21, <1>22, <1>23, <1>24, <1>25,
      <1>26, <1>27, <1>28, <1>29, <1>30, <1>31, <1>32, <1>33, <1>34, <1>35
       DEF Next, Start, RunWorker, StopStep

\* Every step keeps the program points in their ranges.
LEMMA PointStep == Points /\ HandleInv /\ [Next]_vars => Points'
<1> SUFFICES ASSUME Points, HandleInv, [Next]_vars PROVE Points'
    OBVIOUS
<1> USE DEF Points, HandleInv
<1>1. CASE Reserve
    BY <1>1 DEF Reserve
<1>2. CASE Launch
    BY <1>2 DEF Launch
<1>3. CASE PollReady
    BY <1>3 DEF PollReady
<1>4. CASE PollDead
    BY <1>4 DEF PollDead
<1>5. CASE Deadline
    BY <1>5 DEF Deadline
<1>6. CASE DeadlineKill
    BY <1>6 DEF DeadlineKill
<1>7. CASE StarterCancelled
    BY <1>7 DEF StarterCancelled
<1>8. CASE Boot
    BY <1>8 DEF Boot
<1>9. CASE InstallHandlers
    BY <1>9 DEF InstallHandlers
<1>10. CASE EnsureAbsent
    BY <1>10 DEF EnsureAbsent
<1>11. CASE Create
    BY <1>11 DEF Create
<1>12. CASE Created
    BY <1>12 DEF Created
<1>13. CASE MarkReady
    BY <1>13 DEF MarkReady
<1>14. CASE WriteReady
    BY <1>14 DEF WriteReady
<1>15. CASE ReadSamples
    BY <1>15 DEF ReadSamples
<1>16. CASE Patch
    BY <1>16 DEF Patch
<1>17. CASE Patched
    BY <1>17 DEF Patched
<1>18. CASE WriteAck
    BY <1>18 DEF WriteAck
<1>19. CASE LeaveLoop
    BY <1>19 DEF LeaveLoop
<1>20. CASE Finally
    BY <1>20 DEF Finally
<1>21. CASE RequestFails
    BY <1>21 DEF RequestFails
<1>22. CASE WorkerKilled
    BY <1>22 DEF WorkerKilled
<1>23. CASE Stop
    BY <1>23 DEF Stop
<1>24. CASE PidfdOpen
    BY <1>24 DEF PidfdOpen
<1>25. CASE CheckOwned
    BY <1>25 DEF CheckOwned
<1>26. CASE SendSignal
    <2>1. worker' = worker \/ worker' \in {"finally", "dead"}
        BY <1>26 DEF SendSignal
    <2>2. stopper' \in {"wait", "done"} /\ UNCHANGED <<starter, build, holder, handle>>
        BY <1>26 DEF SendSignal
    <2>3. struck' \subseteq struck \cup {"worker"}
        BY <1>26 DEF SendSignal
    <2> QED
        BY <2>1, <2>2, <2>3
<1>27. CASE StopWaits
    BY <1>27 DEF StopWaits
<1>28. CASE BuildStarts
    BY <1>28 DEF BuildStarts
<1>29. CASE BuildSample
    BY <1>29 DEF BuildSample
<1>30. CASE BuildEnds
    BY <1>30 DEF BuildEnds
<1>31. CASE CarryOut
    BY <1>31 DEF CarryOut
<1>32. CASE Reaped
    BY <1>32 DEF Reaped
<1>33. CASE PidReused
    BY <1>33 DEF PidReused
<1>34. CASE Finished
    BY <1>34 DEF Finished, vars
<1>35. CASE UNCHANGED vars
    BY <1>35 DEF vars
<1> QED
    BY <1>1, <1>2, <1>3, <1>4, <1>5, <1>6, <1>7, <1>8, <1>9, <1>10, <1>11, <1>12, <1>13,
      <1>14, <1>15, <1>16, <1>17, <1>18, <1>19, <1>20, <1>21, <1>22, <1>23, <1>24, <1>25,
      <1>26, <1>27, <1>28, <1>29, <1>30, <1>31, <1>32, <1>33, <1>34, <1>35
       DEF Next, Start, RunWorker, StopStep

\* Every step keeps the order of the steps.
LEMMA FlowStep == Points /\ FlowInv /\ [Next]_vars => FlowInv'
<1> SUFFICES ASSUME Points, FlowInv, [Next]_vars PROVE FlowInv'
    OBVIOUS
<1> USE DEF Points, FlowInv
<1>1. CASE Reserve
    BY <1>1 DEF Reserve
<1>2. CASE Launch
    BY <1>2 DEF Launch
<1>3. CASE PollReady
    BY <1>3 DEF PollReady
<1>4. CASE PollDead
    BY <1>4 DEF PollDead
<1>5. CASE Deadline
    BY <1>5 DEF Deadline
<1>6. CASE DeadlineKill
    BY <1>6 DEF DeadlineKill
<1>7. CASE StarterCancelled
    BY <1>7 DEF StarterCancelled
<1>8. CASE Boot
    BY <1>8 DEF Boot
<1>9. CASE InstallHandlers
    BY <1>9 DEF InstallHandlers
<1>10. CASE EnsureAbsent
    BY <1>10 DEF EnsureAbsent
<1>11. CASE Create
    BY <1>11 DEF Create
<1>12. CASE Created
    BY <1>12 DEF Created
<1>13. CASE MarkReady
    BY <1>13 DEF MarkReady
<1>14. CASE WriteReady
    BY <1>14 DEF WriteReady
<1>15. CASE ReadSamples
    BY <1>15 DEF ReadSamples
<1>16. CASE Patch
    BY <1>16 DEF Patch
<1>17. CASE Patched
    BY <1>17 DEF Patched
<1>18. CASE WriteAck
    BY <1>18 DEF WriteAck
<1>19. CASE LeaveLoop
    BY <1>19 DEF LeaveLoop
<1>20. CASE Finally
    BY <1>20 DEF Finally
<1>21. CASE RequestFails
    BY <1>21 DEF RequestFails
<1>22. CASE WorkerKilled
    BY <1>22 DEF WorkerKilled
<1>23. CASE Stop
    BY <1>23 DEF Stop
<1>24. CASE PidfdOpen
    BY <1>24 DEF PidfdOpen
<1>25. CASE CheckOwned
    BY <1>25 DEF CheckOwned
<1>26. CASE SendSignal
    <2>1. worker' = worker \/ (worker \in Alive /\ worker' \in {"finally", "dead"})
        BY <1>26 DEF SendSignal
    <2>2. UNCHANGED <<starter, build, holder>> /\ stopper # "idle"
        BY <1>26 DEF SendSignal
    <2> QED
        BY <2>1, <2>2
<1>27. CASE StopWaits
    BY <1>27 DEF StopWaits
<1>28. CASE BuildStarts
    BY <1>28 DEF BuildStarts
<1>29. CASE BuildSample
    BY <1>29 DEF BuildSample
<1>30. CASE BuildEnds
    BY <1>30 DEF BuildEnds
<1>31. CASE CarryOut
    BY <1>31 DEF CarryOut
<1>32. CASE Reaped
    BY <1>32 DEF Reaped
<1>33. CASE PidReused
    BY <1>33 DEF PidReused
<1>34. CASE Finished
    BY <1>34 DEF Finished, vars
<1>35. CASE UNCHANGED vars
    BY <1>35 DEF vars
<1> QED
    BY <1>1, <1>2, <1>3, <1>4, <1>5, <1>6, <1>7, <1>8, <1>9, <1>10, <1>11, <1>12, <1>13,
      <1>14, <1>15, <1>16, <1>17, <1>18, <1>19, <1>20, <1>21, <1>22, <1>23, <1>24, <1>25,
      <1>26, <1>27, <1>28, <1>29, <1>30, <1>31, <1>32, <1>33, <1>34, <1>35
       DEF Next, Start, RunWorker, StopStep

\* The handle stands for the worker whenever a signal is sent.
LEMMA HandleStep == Points /\ FlowInv /\ HandleInv /\ [Next]_vars => HandleInv'
<1> SUFFICES ASSUME Points, FlowInv, HandleInv, [Next]_vars PROVE HandleInv'
    OBVIOUS
<1> USE DEF Points, FlowInv, HandleInv
<1>1. CASE Reserve
    BY <1>1 DEF Reserve
<1>2. CASE Launch
    BY <1>2 DEF Launch
<1>3. CASE PollReady
    BY <1>3 DEF PollReady
<1>4. CASE PollDead
    BY <1>4 DEF PollDead
<1>5. CASE Deadline
    BY <1>5 DEF Deadline
<1>6. CASE DeadlineKill
    BY <1>6 DEF DeadlineKill
<1>7. CASE StarterCancelled
    BY <1>7 DEF StarterCancelled
<1>8. CASE Boot
    BY <1>8 DEF Boot
<1>9. CASE InstallHandlers
    BY <1>9 DEF InstallHandlers
<1>10. CASE EnsureAbsent
    BY <1>10 DEF EnsureAbsent
<1>11. CASE Create
    BY <1>11 DEF Create
<1>12. CASE Created
    BY <1>12 DEF Created
<1>13. CASE MarkReady
    BY <1>13 DEF MarkReady
<1>14. CASE WriteReady
    BY <1>14 DEF WriteReady
<1>15. CASE ReadSamples
    BY <1>15 DEF ReadSamples
<1>16. CASE Patch
    BY <1>16 DEF Patch
<1>17. CASE Patched
    BY <1>17 DEF Patched
<1>18. CASE WriteAck
    BY <1>18 DEF WriteAck
<1>19. CASE LeaveLoop
    BY <1>19 DEF LeaveLoop
<1>20. CASE Finally
    BY <1>20 DEF Finally
<1>21. CASE RequestFails
    BY <1>21 DEF RequestFails
<1>22. CASE WorkerKilled
    BY <1>22 DEF WorkerKilled
<1>23. CASE Stop
    BY <1>23 DEF Stop
<1>24. CASE PidfdOpen
    BY <1>24 DEF PidfdOpen
<1>25. CASE CheckOwned
    BY <1>25 DEF CheckOwned
<1>26. CASE SendSignal
    BY <1>26 DEF SendSignal
<1>27. CASE StopWaits
    BY <1>27 DEF StopWaits
<1>28. CASE BuildStarts
    BY <1>28 DEF BuildStarts
<1>29. CASE BuildSample
    BY <1>29 DEF BuildSample
<1>30. CASE BuildEnds
    BY <1>30 DEF BuildEnds
<1>31. CASE CarryOut
    BY <1>31 DEF CarryOut
<1>32. CASE Reaped
    BY <1>32 DEF Reaped
<1>33. CASE PidReused
    BY <1>33 DEF PidReused
<1>34. CASE Finished
    BY <1>34 DEF Finished, vars
<1>35. CASE UNCHANGED vars
    BY <1>35 DEF vars
<1> QED
    BY <1>1, <1>2, <1>3, <1>4, <1>5, <1>6, <1>7, <1>8, <1>9, <1>10, <1>11, <1>12, <1>13,
      <1>14, <1>15, <1>16, <1>17, <1>18, <1>19, <1>20, <1>21, <1>22, <1>23, <1>24, <1>25,
      <1>26, <1>27, <1>28, <1>29, <1>30, <1>31, <1>32, <1>33, <1>34, <1>35
       DEF Next, Start, RunWorker, StopStep

\* Every step keeps what is known of the two copies.
LEMMA FileStep == Points /\ Values /\ FlowInv /\ FileInv /\ [Next]_vars => FileInv'
<1> SUFFICES ASSUME Points, Values, FlowInv, FileInv, [Next]_vars PROVE FileInv'
    OBVIOUS
<1> USE DEF Points, Values, FlowInv, FileInv
<1>1. CASE Reserve
    BY <1>1 DEF Reserve
<1>2. CASE Launch
    BY <1>2 DEF Launch
<1>3. CASE PollReady
    BY <1>3 DEF PollReady
<1>4. CASE PollDead
    BY <1>4 DEF PollDead
<1>5. CASE Deadline
    BY <1>5 DEF Deadline
<1>6. CASE DeadlineKill
    BY <1>6 DEF DeadlineKill
<1>7. CASE StarterCancelled
    BY <1>7 DEF StarterCancelled
<1>8. CASE Boot
    BY <1>8 DEF Boot
<1>9. CASE InstallHandlers
    BY <1>9 DEF InstallHandlers
<1>10. CASE EnsureAbsent
    BY <1>10 DEF EnsureAbsent
<1>11. CASE Create
    BY <1>11 DEF Create
<1>12. CASE Created
    BY <1>12 DEF Created
<1>13. CASE MarkReady
    BY <1>13 DEF MarkReady
<1>14. CASE WriteReady
    <2>1. worker = "mark" /\ file' \in {file, state} /\ (worker' = "loop" => file' = state)
        BY <1>14 DEF WriteReady
    <2>2. worker' \in {"loop", "finally"} /\ UNCHANGED <<starter, state, known>>
        BY <1>14 DEF WriteReady
    <2>3. starter \notin {"idle", "launch"}
        BY <2>1
    <2> QED
        BY <2>1, <2>2, <2>3
<1>15. CASE ReadSamples
    BY <1>15 DEF ReadSamples
<1>16. CASE Patch
    BY <1>16 DEF Patch
<1>17. CASE Patched
    BY <1>17 DEF Patched
<1>18. CASE WriteAck
    BY <1>18 DEF WriteAck
<1>19. CASE LeaveLoop
    BY <1>19 DEF LeaveLoop
<1>20. CASE Finally
    BY <1>20 DEF Finally
<1>21. CASE RequestFails
    BY <1>21 DEF RequestFails
<1>22. CASE WorkerKilled
    BY <1>22 DEF WorkerKilled
<1>23. CASE Stop
    BY <1>23 DEF Stop
<1>24. CASE PidfdOpen
    BY <1>24 DEF PidfdOpen
<1>25. CASE CheckOwned
    BY <1>25 DEF CheckOwned
<1>26. CASE SendSignal
    BY <1>26 DEF SendSignal
<1>27. CASE StopWaits
    BY <1>27 DEF StopWaits
<1>28. CASE BuildStarts
    BY <1>28 DEF BuildStarts
<1>29. CASE BuildSample
    BY <1>29 DEF BuildSample
<1>30. CASE BuildEnds
    BY <1>30 DEF BuildEnds
<1>31. CASE CarryOut
    BY <1>31 DEF CarryOut
<1>32. CASE Reaped
    BY <1>32 DEF Reaped
<1>33. CASE PidReused
    BY <1>33 DEF PidReused
<1>34. CASE Finished
    BY <1>34 DEF Finished, vars
<1>35. CASE UNCHANGED vars
    BY <1>35 DEF vars
<1> QED
    BY <1>1, <1>2, <1>3, <1>4, <1>5, <1>6, <1>7, <1>8, <1>9, <1>10, <1>11, <1>12, <1>13,
      <1>14, <1>15, <1>16, <1>17, <1>18, <1>19, <1>20, <1>21, <1>22, <1>23, <1>24, <1>25,
      <1>26, <1>27, <1>28, <1>29, <1>30, <1>31, <1>32, <1>33, <1>34, <1>35
       DEF Next, Start, RunWorker, StopStep

\* Every step keeps the values in their ranges.
LEMMA ValueStep == Values /\ FlowInv /\ FileInv /\ CountInv /\ [Next]_vars => Values'
<1> SUFFICES ASSUME Values, FlowInv, FileInv, CountInv, [Next]_vars PROVE Values'
    OBVIOUS
<1> USE DEF Values, FlowInv, FileInv, CountInv
<1>1. CASE Reserve
    BY <1>1 DEF Reserve
<1>2. CASE Launch
    BY <1>2 DEF Launch
<1>3. CASE PollReady
    BY <1>3 DEF PollReady
<1>4. CASE PollDead
    BY <1>4 DEF PollDead
<1>5. CASE Deadline
    BY <1>5 DEF Deadline
<1>6. CASE DeadlineKill
    BY <1>6 DEF DeadlineKill
<1>7. CASE StarterCancelled
    BY <1>7 DEF StarterCancelled
<1>8. CASE Boot
    <2>1. [Reserved EXCEPT !.pid = TRUE] \in State
        OBVIOUS
    <2> QED
        BY <1>8, <2>1 DEF Boot
<1>9. CASE InstallHandlers
    BY <1>9 DEF InstallHandlers
<1>10. CASE EnsureAbsent
    BY <1>10 DEF EnsureAbsent
<1>11. CASE Create
    BY <1>11 DEF Create
<1>12. CASE Created
    BY <1>12 DEF Created
<1>13. CASE MarkReady
    BY <1>13 DEF MarkReady
<1>14. CASE WriteReady
    BY <1>14 DEF WriteReady
<1>15. CASE ReadSamples
    BY <1>15 DEF ReadSamples
<1>16. CASE Patch
    BY <1>16 DEF Patch
<1>17. CASE Patched
    <2>1. seq \in Nat /\ state.count + 1 \in Nat
        OBVIOUS
    <2>2. state' \in State
        BY <1>17, <2>1 DEF Patched
    <2> QED
        BY <1>17, <2>2 DEF Patched
<1>18. CASE WriteAck
    BY <1>18 DEF WriteAck
<1>19. CASE LeaveLoop
    BY <1>19 DEF LeaveLoop
<1>20. CASE Finally
    BY <1>20 DEF Finally
<1>21. CASE RequestFails
    BY <1>21 DEF RequestFails
<1>22. CASE WorkerKilled
    BY <1>22 DEF WorkerKilled
<1>23. CASE Stop
    BY <1>23 DEF Stop
<1>24. CASE PidfdOpen
    BY <1>24 DEF PidfdOpen
<1>25. CASE CheckOwned
    BY <1>25 DEF CheckOwned
<1>26. CASE SendSignal
    BY <1>26 DEF SendSignal
<1>27. CASE StopWaits
    BY <1>27 DEF StopWaits
<1>28. CASE BuildStarts
    BY <1>28 DEF BuildStarts
<1>29. CASE BuildSample
    BY <1>29 DEF BuildSample
<1>30. CASE BuildEnds
    BY <1>30 DEF BuildEnds
<1>31. CASE CarryOut
    BY <1>31 DEF CarryOut
<1>32. CASE Reaped
    BY <1>32 DEF Reaped
<1>33. CASE PidReused
    BY <1>33 DEF PidReused
<1>34. CASE Finished
    BY <1>34 DEF Finished, vars
<1>35. CASE UNCHANGED vars
    BY <1>35 DEF vars
<1> QED
    BY <1>1, <1>2, <1>3, <1>4, <1>5, <1>6, <1>7, <1>8, <1>9, <1>10, <1>11, <1>12, <1>13,
      <1>14, <1>15, <1>16, <1>17, <1>18, <1>19, <1>20, <1>21, <1>22, <1>23, <1>24, <1>25,
      <1>26, <1>27, <1>28, <1>29, <1>30, <1>31, <1>32, <1>33, <1>34, <1>35
       DEF Next, Start, RunWorker, StopStep

\* Every step keeps the order of the counters.
LEMMA CountStep ==
    Points /\ Values /\ FlowInv /\ FileInv /\ CountInv /\ [Next]_vars => CountInv'
<1> SUFFICES ASSUME Points, Values, FlowInv, FileInv, CountInv, [Next]_vars
             PROVE  CountInv'
    OBVIOUS
<1> USE DEF Points, Values, FlowInv, FileInv, CountInv
<1>1. CASE Reserve
    BY <1>1 DEF Reserve
<1>2. CASE Launch
    BY <1>2 DEF Launch
<1>3. CASE PollReady
    BY <1>3 DEF PollReady
<1>4. CASE PollDead
    BY <1>4 DEF PollDead
<1>5. CASE Deadline
    BY <1>5 DEF Deadline
<1>6. CASE DeadlineKill
    BY <1>6 DEF DeadlineKill
<1>7. CASE StarterCancelled
    BY <1>7 DEF StarterCancelled
<1>8. CASE Boot
    BY <1>8 DEF Boot
<1>9. CASE InstallHandlers
    BY <1>9 DEF InstallHandlers
<1>10. CASE EnsureAbsent
    BY <1>10 DEF EnsureAbsent
<1>11. CASE Create
    BY <1>11 DEF Create
<1>12. CASE Created
    BY <1>12 DEF Created
<1>13. CASE MarkReady
    BY <1>13 DEF MarkReady
<1>14. CASE WriteReady
    BY <1>14 DEF WriteReady
<1>15. CASE ReadSamples
    BY <1>15 DEF ReadSamples
<1>16. CASE Patch
    BY <1>16 DEF Patch
<1>17. CASE Patched
    BY <1>17 DEF Patched
<1>18. CASE WriteAck
    BY <1>18 DEF WriteAck
<1>19. CASE LeaveLoop
    BY <1>19 DEF LeaveLoop
<1>20. CASE Finally
    BY <1>20 DEF Finally
<1>21. CASE RequestFails
    BY <1>21 DEF RequestFails
<1>22. CASE WorkerKilled
    BY <1>22 DEF WorkerKilled
<1>23. CASE Stop
    BY <1>23 DEF Stop
<1>24. CASE PidfdOpen
    BY <1>24 DEF PidfdOpen
<1>25. CASE CheckOwned
    BY <1>25 DEF CheckOwned
<1>26. CASE SendSignal
    BY <1>26 DEF SendSignal
<1>27. CASE StopWaits
    BY <1>27 DEF StopWaits
<1>28. CASE BuildStarts
    BY <1>28 DEF BuildStarts
<1>29. CASE BuildSample
    BY <1>29 DEF BuildSample
<1>30. CASE BuildEnds
    BY <1>30 DEF BuildEnds
<1>31. CASE CarryOut
    BY <1>31 DEF CarryOut
<1>32. CASE Reaped
    BY <1>32 DEF Reaped
<1>33. CASE PidReused
    BY <1>33 DEF PidReused
<1>34. CASE Finished
    BY <1>34 DEF Finished, vars
<1>35. CASE UNCHANGED vars
    BY <1>35 DEF vars
<1> QED
    BY <1>1, <1>2, <1>3, <1>4, <1>5, <1>6, <1>7, <1>8, <1>9, <1>10, <1>11, <1>12, <1>13,
      <1>14, <1>15, <1>16, <1>17, <1>18, <1>19, <1>20, <1>21, <1>22, <1>23, <1>24, <1>25,
      <1>26, <1>27, <1>28, <1>29, <1>30, <1>31, <1>32, <1>33, <1>34, <1>35
       DEF Next, Start, RunWorker, StopStep

\* Every step keeps StoredInv.
LEMMA StoredStep ==
    Points /\ Values /\ FlowInv /\ FileInv /\ CountInv /\ StoredInv /\ [Next]_vars => StoredInv'
<1> SUFFICES ASSUME Points, Values, FlowInv, FileInv, CountInv, StoredInv, [Next]_vars
             PROVE  StoredInv'
    OBVIOUS
<1> USE DEF Points, Values, FlowInv, FileInv, CountInv, StoredInv
<1>1. CASE Reserve
    BY <1>1 DEF Reserve
<1>2. CASE Launch
    BY <1>2 DEF Launch
<1>3. CASE PollReady
    BY <1>3 DEF PollReady
<1>4. CASE PollDead
    BY <1>4 DEF PollDead
<1>5. CASE Deadline
    BY <1>5 DEF Deadline
<1>6. CASE DeadlineKill
    BY <1>6 DEF DeadlineKill
<1>7. CASE StarterCancelled
    BY <1>7 DEF StarterCancelled
<1>8. CASE Boot
    BY <1>8 DEF Boot
<1>9. CASE InstallHandlers
    BY <1>9 DEF InstallHandlers
<1>10. CASE EnsureAbsent
    BY <1>10 DEF EnsureAbsent
<1>11. CASE Create
    BY <1>11 DEF Create
<1>12. CASE Created
    BY <1>12 DEF Created
<1>13. CASE MarkReady
    BY <1>13 DEF MarkReady
<1>14. CASE WriteReady
    BY <1>14 DEF WriteReady
<1>15. CASE ReadSamples
    BY <1>15 DEF ReadSamples
<1>16. CASE Patch
    BY <1>16 DEF Patch
<1>17. CASE Patched
    BY <1>17 DEF Patched
<1>18. CASE WriteAck
    BY <1>18 DEF WriteAck
<1>19. CASE LeaveLoop
    BY <1>19 DEF LeaveLoop
<1>20. CASE Finally
    BY <1>20 DEF Finally
<1>21. CASE RequestFails
    BY <1>21 DEF RequestFails
<1>22. CASE WorkerKilled
    BY <1>22 DEF WorkerKilled
<1>23. CASE Stop
    BY <1>23 DEF Stop
<1>24. CASE PidfdOpen
    BY <1>24 DEF PidfdOpen
<1>25. CASE CheckOwned
    BY <1>25 DEF CheckOwned
<1>26. CASE SendSignal
    BY <1>26 DEF SendSignal
<1>27. CASE StopWaits
    BY <1>27 DEF StopWaits
<1>28. CASE BuildStarts
    BY <1>28 DEF BuildStarts
<1>29. CASE BuildSample
    BY <1>29 DEF BuildSample
<1>30. CASE BuildEnds
    BY <1>30 DEF BuildEnds
<1>31. CASE CarryOut
    BY <1>31 DEF CarryOut
<1>32. CASE Reaped
    BY <1>32 DEF Reaped
<1>33. CASE PidReused
    BY <1>33 DEF PidReused
<1>34. CASE Finished
    BY <1>34 DEF Finished, vars
<1>35. CASE UNCHANGED vars
    BY <1>35 DEF vars
<1> QED
    BY <1>1, <1>2, <1>3, <1>4, <1>5, <1>6, <1>7, <1>8, <1>9, <1>10, <1>11, <1>12, <1>13,
      <1>14, <1>15, <1>16, <1>17, <1>18, <1>19, <1>20, <1>21, <1>22, <1>23, <1>24, <1>25,
      <1>26, <1>27, <1>28, <1>29, <1>30, <1>31, <1>32, <1>33, <1>34, <1>35
       DEF Next, Start, RunWorker, StopStep

\* Every step keeps RemoteInv.
LEMMA RemoteStep == Values /\ RemoteInv /\ [Next]_vars => RemoteInv'
<1> SUFFICES ASSUME Values, RemoteInv, [Next]_vars PROVE RemoteInv'
    OBVIOUS
<1> USE DEF Values, RemoteInv
<1>1. CASE Reserve
    BY <1>1 DEF Reserve
<1>2. CASE Launch
    BY <1>2 DEF Launch
<1>3. CASE PollReady
    BY <1>3 DEF PollReady
<1>4. CASE PollDead
    BY <1>4 DEF PollDead
<1>5. CASE Deadline
    BY <1>5 DEF Deadline
<1>6. CASE DeadlineKill
    BY <1>6 DEF DeadlineKill
<1>7. CASE StarterCancelled
    BY <1>7 DEF StarterCancelled
<1>8. CASE Boot
    BY <1>8 DEF Boot
<1>9. CASE InstallHandlers
    BY <1>9 DEF InstallHandlers
<1>10. CASE EnsureAbsent
    BY <1>10 DEF EnsureAbsent
<1>11. CASE Create
    BY <1>11 DEF Create
<1>12. CASE Created
    BY <1>12 DEF Created
<1>13. CASE MarkReady
    BY <1>13 DEF MarkReady
<1>14. CASE WriteReady
    BY <1>14 DEF WriteReady
<1>15. CASE ReadSamples
    BY <1>15 DEF ReadSamples
<1>16. CASE Patch
    BY <1>16 DEF Patch
<1>17. CASE Patched
    BY <1>17 DEF Patched
<1>18. CASE WriteAck
    BY <1>18 DEF WriteAck
<1>19. CASE LeaveLoop
    BY <1>19 DEF LeaveLoop
<1>20. CASE Finally
    BY <1>20 DEF Finally
<1>21. CASE RequestFails
    BY <1>21 DEF RequestFails
<1>22. CASE WorkerKilled
    BY <1>22 DEF WorkerKilled
<1>23. CASE Stop
    BY <1>23 DEF Stop
<1>24. CASE PidfdOpen
    BY <1>24 DEF PidfdOpen
<1>25. CASE CheckOwned
    BY <1>25 DEF CheckOwned
<1>26. CASE SendSignal
    BY <1>26 DEF SendSignal
<1>27. CASE StopWaits
    BY <1>27 DEF StopWaits
<1>28. CASE BuildStarts
    BY <1>28 DEF BuildStarts
<1>29. CASE BuildSample
    BY <1>29 DEF BuildSample
<1>30. CASE BuildEnds
    BY <1>30 DEF BuildEnds
<1>31. CASE CarryOut
    <2>1. PICK q \in flight : /\ stored' = stored \cup {q} /\ remote' = q
                              /\ overtaken' = (overtaken \/ q < remote)
        BY <1>31 DEF CarryOut
    <2>2. q \in Int /\ remote \in Int /\ \A n \in stored : n \in Int
        OBVIOUS
    <2>3. ~overtaken' => ~overtaken /\ ~(q < remote)
        BY <2>1
    <2> QED
        BY <2>1, <2>2, <2>3
<1>32. CASE Reaped
    BY <1>32 DEF Reaped
<1>33. CASE PidReused
    BY <1>33 DEF PidReused
<1>34. CASE Finished
    BY <1>34 DEF Finished, vars
<1>35. CASE UNCHANGED vars
    BY <1>35 DEF vars
<1> QED
    BY <1>1, <1>2, <1>3, <1>4, <1>5, <1>6, <1>7, <1>8, <1>9, <1>10, <1>11, <1>12, <1>13,
      <1>14, <1>15, <1>16, <1>17, <1>18, <1>19, <1>20, <1>21, <1>22, <1>23, <1>24, <1>25,
      <1>26, <1>27, <1>28, <1>29, <1>30, <1>31, <1>32, <1>33, <1>34, <1>35
       DEF Next, Start, RunWorker, StopStep

\* Every step keeps CancelInv.
LEMMA CancelStep ==
    Points /\ Values /\ FlowInv /\ FileInv /\ CountInv /\ CancelInv /\ [Next]_vars => CancelInv'
<1> SUFFICES ASSUME Points, Values, FlowInv, FileInv, CountInv, CancelInv, [Next]_vars
             PROVE  CancelInv'
    OBVIOUS
<1> USE DEF Points, Values, FlowInv, FileInv, CountInv, CancelInv, Asked
<1>1. CASE Reserve
    BY <1>1 DEF Reserve
<1>2. CASE Launch
    BY <1>2 DEF Launch
<1>3. CASE PollReady
    BY <1>3 DEF PollReady
<1>4. CASE PollDead
    BY <1>4 DEF PollDead
<1>5. CASE Deadline
    BY <1>5 DEF Deadline
<1>6. CASE DeadlineKill
    BY <1>6 DEF DeadlineKill
<1>7. CASE StarterCancelled
    BY <1>7 DEF StarterCancelled
<1>8. CASE Boot
    BY <1>8 DEF Boot
<1>9. CASE InstallHandlers
    BY <1>9 DEF InstallHandlers
<1>10. CASE EnsureAbsent
    BY <1>10 DEF EnsureAbsent
<1>11. CASE Create
    BY <1>11 DEF Create
<1>12. CASE Created
    BY <1>12 DEF Created
<1>13. CASE MarkReady
    BY <1>13 DEF MarkReady
<1>14. CASE WriteReady
    BY <1>14 DEF WriteReady
<1>15. CASE ReadSamples
    BY <1>15 DEF ReadSamples
<1>16. CASE Patch
    BY <1>16 DEF Patch
<1>17. CASE Patched
    BY <1>17 DEF Patched
<1>18. CASE WriteAck
    BY <1>18 DEF WriteAck
<1>19. CASE LeaveLoop
    BY <1>19 DEF LeaveLoop
<1>20. CASE Finally
    BY <1>20 DEF Finally
<1>21. CASE RequestFails
    BY <1>21 DEF RequestFails
<1>22. CASE WorkerKilled
    BY <1>22 DEF WorkerKilled
<1>23. CASE Stop
    BY <1>23 DEF Stop
<1>24. CASE PidfdOpen
    BY <1>24 DEF PidfdOpen
<1>25. CASE CheckOwned
    BY <1>25 DEF CheckOwned
<1>26. CASE SendSignal
    BY <1>26 DEF SendSignal
<1>27. CASE StopWaits
    BY <1>27 DEF StopWaits
<1>28. CASE BuildStarts
    BY <1>28 DEF BuildStarts
<1>29. CASE BuildSample
    BY <1>29 DEF BuildSample
<1>30. CASE BuildEnds
    BY <1>30 DEF BuildEnds
<1>31. CASE CarryOut
    BY <1>31 DEF CarryOut
<1>32. CASE Reaped
    BY <1>32 DEF Reaped
<1>33. CASE PidReused
    BY <1>33 DEF PidReused
<1>34. CASE Finished
    BY <1>34 DEF Finished, vars
<1>35. CASE UNCHANGED vars
    BY <1>35 DEF vars
<1> QED
    BY <1>1, <1>2, <1>3, <1>4, <1>5, <1>6, <1>7, <1>8, <1>9, <1>10, <1>11, <1>12, <1>13,
      <1>14, <1>15, <1>16, <1>17, <1>18, <1>19, <1>20, <1>21, <1>22, <1>23, <1>24, <1>25,
      <1>26, <1>27, <1>28, <1>29, <1>30, <1>31, <1>32, <1>33, <1>34, <1>35
       DEF Next, Start, RunWorker, StopStep

\* The inductive invariant.
THEOREM Inductive == Spec => []Inv
<1>1. Init => Inv
    <2>1. MaxSamples \in Nat /\ MaxFaults \in Nat
        OBVIOUS
    <2>2. 0 \in 0..(MaxSamples + 1) /\ -1 \in -1..(MaxSamples + 1) /\ 0 \in 0..MaxFaults
        BY <2>1
    <2>3. Init => Flags /\ Points
        BY DEF Init, Flags, Points
    <2>4. Init => Values
        BY <2>2 DEF Init, Values
    <2>5. Init => FlowInv /\ HandleInv
        BY DEF Init, FlowInv, HandleInv
    <2>6. Init => FileInv
        BY DEF Init, FileInv
    <2>7. Init => CountInv
        BY <2>1 DEF Init, CountInv
    <2>8. Init => StoredInv /\ RemoteInv /\ CancelInv
        BY DEF Init, StoredInv, RemoteInv, CancelInv
    <2> QED
        BY <2>3, <2>4, <2>5, <2>6, <2>7, <2>8 DEF Inv
<1>2. Inv /\ [Next]_vars => Inv'
    BY FlagStep, PointStep, FlowStep, HandleStep, FileStep, ValueStep, CountStep,
       StoredStep, RemoteStep, CancelStep DEF Inv
<1> QED
    BY <1>1, <1>2, PTL DEF Spec

\* Every variable of start, worker, stop, build and GitHub keeps its type.
THEOREM TypeCorrect == Spec => []TypeOK
<1>1. Inv => TypeOK
    BY DEF Inv, TypeOK, Flags, Points, Values
<1> QED
    BY <1>1, Inductive, PTL

\* The heavy build runs only after GitHub has acknowledged the check (start's poll of the
\* state file, run_worker), however many requests fail or arrive late.
THEOREM Acknowledged == Spec => []BuildAcknowledged
<1>1. Inv => BuildAcknowledged
    BY DEF Inv, FlowInv, FileInv, StoredInv, BuildAcknowledged
<1> QED
    BY <1>1, Inductive, PTL

\* No acknowledgment is invented, and there are no more of them than records
\* (run_worker, write_state), for any number of records, requests and failed writes.
THEOREM AckStored == Spec => []AckWasStored
<1>1. Inv => AckWasStored
    BY DEF Inv, Values, FileInv, CountInv, StoredInv, AckWasStored
<1> QED
    BY <1>1, Inductive, PTL

\* The check never shows less than the state file claims while no abandoned PATCH has
\* overtaken a later one.
THEOREM RemoteKept == Spec => []RemoteKeepsAcked
<1>1. Inv => RemoteKeepsAcked
    BY DEF Inv, Values, StoredInv, RemoteInv, RemoteKeepsAcked
<1> QED
    BY <1>1, Inductive, PTL

\* A worker that leaves by itself leaves its last acknowledgment in the state file
\* (run_worker's finally block), at whatever step SIGTERM reaches it.
THEOREM CancelKept == Spec => []CancelKeepsAck
<1>1. Inv => CancelKeepsAck
    BY DEF Inv, CancelInv, CancelKeepsAck
<1> QED
    BY <1>1, Inductive, PTL

\* stop signals the worker or nobody (signal_owned, pidfd_send_signal), at whatever moment
\* the worker dies and its pid is used again.
THEOREM WorkerStruck == Spec => []OnlyWorkerStruck
<1>1. Inv => OnlyWorkerStruck
    BY DEF Inv, HandleInv, OnlyWorkerStruck
<1> QED
    BY <1>1, Inductive, PTL

\* The order of the phases.
LEMMA Ranks ==
    /\ PhaseRank("none") = 0 /\ PhaseRank("starting") = 1 /\ PhaseRank("ready") = 2
    /\ PhaseRank("running") = 3 /\ PhaseRank("ended") = 4
<1> DEFINE L == <<"none", "starting", "ready", "running", "ended">>
<1>1. /\ L[1] = "none" /\ L[2] = "starting" /\ L[3] = "ready"
      /\ L[4] = "running" /\ L[5] = "ended"
    OBVIOUS
<1>2. \A m \in 0..4 : m = 0 \/ m = 1 \/ m = 2 \/ m = 3 \/ m = 4
    OBVIOUS
<1>3. ASSUME NEW k \in 0..4 PROVE (CHOOSE n \in 0..4 : L[n + 1] = L[k + 1]) = k
    <2>1. \A m \in 0..4 : L[m + 1] = L[k + 1] => m = k
        BY <1>1, <1>2
    <2> HIDE DEF L
    <2> QED
        BY <2>1
<1>4. \A p : PhaseRank(p) = CHOOSE n \in 0..4 : L[n + 1] = p
    BY DEF PhaseRank
<1>5. /\ 0 \in 0..4 /\ 1 \in 0..4 /\ 2 \in 0..4 /\ 3 \in 0..4 /\ 4 \in 0..4
      /\ 0 + 1 = 1 /\ 1 + 1 = 2 /\ 2 + 1 = 3 /\ 3 + 1 = 4 /\ 4 + 1 = 5
    OBVIOUS
<1> HIDE DEF L
<1>6. \A k \in 0..4 : PhaseRank(L[k + 1]) = k
    BY <1>3, <1>4
<1> QED
    BY <1>1, <1>5, <1>6

\* The state file moves forward only and an ended state is final (write_state's callers),
\* wherever the worker is stopped or killed.
THEOREM Forward == Spec => FileForward
<1> DEFINE Step == /\ PhaseRank(file.phase) <= PhaseRank(file'.phase)
                   /\ file.ack <= file'.ack
                   /\ file.phase = "ended" => file' = file
<1>1. Inv /\ Inv' /\ [Next]_vars => [Step]_file
    <2> SUFFICES ASSUME Inv, Inv', [Next]_vars, file' # file PROVE Step
        OBVIOUS
    <2> USE DEF Inv, Points, Values, FlowInv, FileInv, CountInv
    <2>1. Reserve \/ Boot \/ WriteReady \/ WriteAck \/ Finally
        BY DEF Next, Start, RunWorker, StopStep, vars,
               Launch, PollReady, PollDead, Deadline, DeadlineKill, StarterCancelled,
               InstallHandlers, EnsureAbsent, Create, Created, MarkReady, ReadSamples,
               Patch, Patched, LeaveLoop, RequestFails, WorkerKilled, Stop, PidfdOpen,
               CheckOwned, SendSignal, StopWaits, BuildStarts, BuildSample, BuildEnds,
               CarryOut, Reaped, PidReused, Finished
    <2>2. CASE Reserve
        BY <2>2, Ranks DEF Reserve
    <2>3. CASE Boot
        BY <2>3, Ranks DEF Boot
    <2>4. CASE WriteReady
        BY <2>4, Ranks DEF WriteReady
    <2>5. CASE WriteAck
        BY <2>5, Ranks DEF WriteAck
    <2>6. CASE Finally
        BY <2>6, Ranks DEF Finally
    <2> QED
        BY <2>1, <2>2, <2>3, <2>4, <2>5, <2>6
<1> QED
    BY <1>1, Inductive, PTL DEF Spec, FileForward

(***************************************************************************)
(* Refinement: a claim about the snapshots that GitHub keeps               *)
(***************************************************************************)

\* Every step is a step of the claim, or leaves it alone.
LEMMA StepRefines ==
    ASSUME Inv, Inv', [Next]_vars
    PROVE  Promise!LogNext \/ UNCHANGED <<stored, Claimed, Final, build # "waiting">>
<1> USE DEF Inv, Points, Values, FlowInv, FileInv, CountInv, StoredInv
<1>1. CASE Reserve \/ Boot
    <2>1. file.phase \notin Written /\ file'.phase \notin Written
        BY <1>1 DEF Reserve, Boot
    <2>2. Claimed' = Claimed /\ Final' = Final
        BY <2>1 DEF Claimed, Final
    <2>3. UNCHANGED <<stored, build>>
        BY <1>1 DEF Reserve, Boot
    <2> QED
        BY <2>2, <2>3
<1>2. CASE WriteReady \/ WriteAck
    <2>1. UNCHANGED <<stored, build>>
        BY <1>2 DEF WriteReady, WriteAck
    <2>2. CASE file' = file
        BY <2>1, <2>2 DEF Claimed, Final
    <2>3. CASE file' = state
        <3>1. /\ state.phase \in {"ready", "running"} /\ state.ack \in stored
              /\ state.ack \in Nat /\ file.ack \in Nat /\ file.ack <= state.ack
              /\ file.phase # "ended"
            BY <1>2 DEF WriteReady, WriteAck
        <3>2. Claimed' = state.ack /\ Final = FALSE /\ Final' = FALSE
            BY <2>3, <3>1 DEF Claimed, Final
        <3>3. Claimed <= state.ack /\ Claimed \in Int
            BY <3>1 DEF Claimed
        <3>4. CASE Claimed = state.ack
            BY <2>1, <3>2, <3>4
        <3>5. CASE Claimed # state.ack
            <4>1. state.ack > Claimed
                BY <3>1, <3>3, <3>5
            <4>2. Promise!Claim(state.ack)
                BY <2>1, <3>1, <3>2, <4>1 DEF Promise!Claim
            <4> QED
                BY <3>1, <4>2 DEF Promise!LogNext
        <3> QED
            BY <3>4, <3>5
    <2> QED
        BY <1>2, <2>2, <2>3 DEF WriteReady, WriteAck
<1>3. CASE Finally
    <2>1. UNCHANGED <<stored, build>>
        BY <1>3 DEF Finally
    <2>2. CASE file' = file
        BY <2>1, <2>2 DEF Claimed, Final
    <2>3. CASE known /\ file' = [state EXCEPT !.phase = "ended"]
        <3>1. /\ state.ack \in stored /\ state.ack \in Nat
              /\ file.ack \in Nat /\ file.ack <= state.ack /\ file.phase # "ended"
            BY <1>3, <2>3 DEF Finally
        <3>2. Claimed' = state.ack /\ Final = FALSE /\ Final' = TRUE
            BY <2>3, <3>1 DEF Claimed, Final
        <3>3. state.ack >= Claimed
            BY <3>1 DEF Claimed
        <3>4. Promise!Close(state.ack)
            BY <2>1, <3>1, <3>2, <3>3 DEF Promise!Close
        <3> QED
            BY <3>1, <3>4 DEF Promise!LogNext
    <2> QED
        BY <1>3, <2>2, <2>3 DEF Finally
<1>4. CASE CarryOut
    <2>1. PICK q \in flight : stored' = stored \cup {q} /\ UNCHANGED <<file, build>>
        BY <1>4 DEF CarryOut
    <2>2. Claimed' = Claimed /\ Final' = Final
        BY <2>1 DEF Claimed, Final
    <2>3. Promise!Keep(q)
        BY <2>1, <2>2 DEF Promise!Keep
    <2> QED
        BY <2>1, <2>3 DEF Promise!LogNext
<1>5. CASE BuildStarts
    <2>1. UNCHANGED <<stored, file>>
        BY <1>5 DEF BuildStarts
    <2>2. Claimed' = Claimed /\ Final' = Final
        BY <2>1 DEF Claimed, Final
    <2>3. Claimed # -1
        BY <1>5 DEF BuildStarts, Claimed
    <2>4. (build # "waiting")' = TRUE
        BY <1>5 DEF BuildStarts
    <2>5. Promise!Grant
        BY <2>1, <2>2, <2>3, <2>4 DEF Promise!Grant, Promise!Unclaimed
    <2> QED
        BY <2>5 DEF Promise!LogNext
<1>6. CASE ~(\/ Reserve \/ Boot \/ WriteReady \/ WriteAck \/ Finally
             \/ CarryOut \/ BuildStarts)
    <2>1. UNCHANGED <<stored, file>>
        BY <1>6 DEF Next, Start, RunWorker, StopStep, vars,
               Launch, PollReady, PollDead, Deadline, DeadlineKill, StarterCancelled,
               InstallHandlers, EnsureAbsent, Create, Created, MarkReady, ReadSamples,
               Patch, Patched, LeaveLoop, RequestFails, WorkerKilled, Stop, PidfdOpen,
               CheckOwned, SendSignal, StopWaits, BuildSample, BuildEnds, Reaped,
               PidReused, Finished
    <2>2. (build # "waiting")' = (build # "waiting")
        BY <1>6 DEF Next, Start, RunWorker, StopStep, vars,
               Launch, PollReady, PollDead, Deadline, DeadlineKill, StarterCancelled,
               InstallHandlers, EnsureAbsent, Create, Created, MarkReady, ReadSamples,
               Patch, Patched, LeaveLoop, RequestFails, WorkerKilled, Stop, PidfdOpen,
               CheckOwned, SendSignal, StopWaits, BuildSample, BuildEnds, Reaped,
               PidReused, Finished
    <2> QED
        BY <2>1, <2>2 DEF Claimed, Final
<1> QED
    BY <1>1, <1>2, <1>3, <1>4, <1>5, <1>6

\* Start, worker and stop implement DurableLog: what the state file says of the check can
\* be relied on at every moment, and the build is let go on such a claim only.
THEOREM Implements == Spec => ImplementsLog
<1>1. Init => Promise!LogInit
    BY DEF Init, Promise!LogInit, Promise!Unclaimed, Claimed, Final
<1>2. Inv /\ Inv' /\ [Next]_vars =>
          [Promise!LogNext]_<<stored, Claimed, Final, build # "waiting">>
    BY StepRefines
<1> QED
    BY <1>1, <1>2, Inductive, PTL
       DEF Spec, ImplementsLog, Promise!LogSpec, Promise!logSpecVars
=============================================================================
