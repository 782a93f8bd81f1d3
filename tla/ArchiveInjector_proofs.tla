----------------------- MODULE ArchiveInjector_proofs -----------------------
(***************************************************************************)
(* What the watcher promises for every number of signals and faults.       *)
(***************************************************************************)
EXTENDS ArchiveInjector, TLAPS

USE BoundsAssumption DEF BoundsAssumption
USE DEF Fault, Return, Handling, Bytes, memoryVars, buildVars

\* What a step of the watcher relies on: the runtime is found before anything is copied,
\* and an archive that was restored while the build ran is not touched again.
MemoryInv ==
    /\ build = "before" => watcher = "none"
    /\ watcher \in {"none", "boot", "find"} => ~runtime
    /\ watcher \in {"inspect", "backup", "copying", "repack", "move", "moving"} =>
           runtime /\ ~restored
    /\ watcher \in {"backup", "copying"} => archive = "original"
    /\ backup # "none" => runtime
    /\ watcher \in {"restoring", "unlink"} => backup # "none"
    /\ restored => runtime /\ backup = "none"
    /\ watcher \notin {"restore", "restoring", "unlink", "gone"} => context = "loop"

\* Where the original bytes are, unless the copy that makes the backup was cut short.
BytesInv ==
    ~cut => /\ archive # "original" => backup = "original"
            /\ backup = "partial" => watcher = "copying"
            /\ watcher \in {"repack", "move", "moving"} => backup = "original"
            /\ watcher = "unlink" => archive = "original"

Inv == TypeOK /\ MemoryInv /\ BytesInv

\* Every step keeps the types.
LEMMA TypeStep == TypeOK /\ MemoryInv /\ [Next]_vars => TypeOK'
<1> SUFFICES ASSUME TypeOK, MemoryInv, [Next]_vars PROVE TypeOK'
    OBVIOUS
<1> USE DEF TypeOK, MemoryInv
<1>1. CASE InstallHandlers
    BY <1>1 DEF InstallHandlers
<1>2. CASE FindRuntime
    BY <1>2 DEF FindRuntime
<1>3. CASE Inspect
    BY <1>3 DEF Inspect
<1>4. CASE BackupBegins
    BY <1>4 DEF BackupBegins
<1>5. CASE BackupEnds
    BY <1>5 DEF BackupEnds
<1>6. CASE Repack
    BY <1>6 DEF Repack
<1>7. CASE Move
    BY <1>7 DEF Move
<1>8. CASE MoveEnds
    BY <1>8 DEF MoveEnds
<1>9. CASE LeaveLoop
    BY <1>9 DEF LeaveLoop
<1>10. CASE Iterate
    BY <1>10 DEF Iterate
<1>11. CASE RestoreBegins
    BY <1>11 DEF RestoreBegins
<1>12. CASE RestoreEnds
    BY <1>12 DEF RestoreEnds
<1>13. CASE Unlink
    BY <1>13 DEF Unlink
<1>14. CASE BackupFails
    BY <1>14 DEF BackupFails
<1>15. CASE RestoreFails
    BY <1>15 DEF RestoreFails
<1>16. CASE Signal
    <2>1. trying' \in BOOLEAN /\ cut' \in BOOLEAN
        BY <1>16 DEF Signal
    <2>2. watcher' \in Handling \cup {"gone"} /\ context' \in {"loop", "handler", "finally"}
        BY <1>16 DEF Signal
    <2> QED
        BY <1>16, <2>1, <2>2 DEF Signal
<1>17. CASE Killed
    BY <1>17 DEF Killed
<1>18. CASE Exec
    BY <1>18 DEF Exec
<1>19. CASE Quarter
    BY <1>19 DEF Quarter
<1>20. CASE BuildEnds
    BY <1>20 DEF BuildEnds
<1>21. CASE Capture
    BY <1>21 DEF Capture
<1>22. CASE Finished
    BY <1>22 DEF Finished, vars
<1>23. CASE UNCHANGED vars
    BY <1>23 DEF vars
<1> QED
    BY <1>1, <1>2, <1>3, <1>4, <1>5, <1>6, <1>7, <1>8, <1>9, <1>10, <1>11, <1>12, <1>13,
      <1>14, <1>15, <1>16, <1>17, <1>18, <1>19, <1>20, <1>21, <1>22, <1>23
       DEF Next, Watch

\* Every step keeps MemoryInv.
LEMMA MemoryStep == TypeOK /\ MemoryInv /\ [Next]_vars => MemoryInv'
<1> SUFFICES ASSUME TypeOK, MemoryInv, [Next]_vars PROVE MemoryInv'
    OBVIOUS
<1> USE DEF TypeOK, MemoryInv
<1>1. CASE InstallHandlers
    BY <1>1 DEF InstallHandlers
<1>2. CASE FindRuntime
    BY <1>2 DEF FindRuntime
<1>3. CASE Inspect
    BY <1>3 DEF Inspect
<1>4. CASE BackupBegins
    BY <1>4 DEF BackupBegins
<1>5. CASE BackupEnds
    BY <1>5 DEF BackupEnds
<1>6. CASE Repack
    BY <1>6 DEF Repack
<1>7. CASE Move
    BY <1>7 DEF Move
<1>8. CASE MoveEnds
    BY <1>8 DEF MoveEnds
<1>9. CASE LeaveLoop
    BY <1>9 DEF LeaveLoop
<1>10. CASE Iterate
    BY <1>10 DEF Iterate
<1>11. CASE RestoreBegins
    BY <1>11 DEF RestoreBegins
<1>12. CASE RestoreEnds
    BY <1>12 DEF RestoreEnds
<1>13. CASE Unlink
    <2>1. runtime' /\ backup' = "none"
        BY <1>13 DEF Unlink
    <2>2. watcher' \in {"loop", "restore", "gone"} /\ build' = build /\ build # "before"
        BY <1>13 DEF Unlink
    <2>3. watcher' = "loop" => context' = "loop"
        BY <1>13 DEF Unlink
    <2> QED
        BY <2>1, <2>2, <2>3
<1>14. CASE BackupFails
    BY <1>14 DEF BackupFails
<1>15. CASE RestoreFails
    BY <1>15 DEF RestoreFails
<1>16. CASE Signal
    BY <1>16 DEF Signal
<1>17. CASE Killed
    BY <1>17 DEF Killed
<1>18. CASE Exec
    BY <1>18 DEF Exec
<1>19. CASE Quarter
    BY <1>19 DEF Quarter
<1>20. CASE BuildEnds
    BY <1>20 DEF BuildEnds
<1>21. CASE Capture
    BY <1>21 DEF Capture
<1>22. CASE Finished
    BY <1>22 DEF Finished, vars
<1>23. CASE UNCHANGED vars
    BY <1>23 DEF vars
<1> QED
    BY <1>1, <1>2, <1>3, <1>4, <1>5, <1>6, <1>7, <1>8, <1>9, <1>10, <1>11, <1>12, <1>13,
      <1>14, <1>15, <1>16, <1>17, <1>18, <1>19, <1>20, <1>21, <1>22, <1>23
       DEF Next, Watch

\* Every step keeps BytesInv.
LEMMA BytesStep == TypeOK /\ MemoryInv /\ BytesInv /\ [Next]_vars => BytesInv'
<1> SUFFICES ASSUME TypeOK, MemoryInv, BytesInv, [Next]_vars PROVE BytesInv'
    OBVIOUS
<1> USE DEF TypeOK, MemoryInv, BytesInv
<1>1. CASE InstallHandlers
    BY <1>1 DEF InstallHandlers
<1>2. CASE FindRuntime
    BY <1>2 DEF FindRuntime
<1>3. CASE Inspect
    BY <1>3 DEF Inspect
<1>4. CASE BackupBegins
    BY <1>4 DEF BackupBegins
<1>5. CASE BackupEnds
    BY <1>5 DEF BackupEnds
<1>6. CASE Repack
    BY <1>6 DEF Repack
<1>7. CASE Move
    BY <1>7 DEF Move
<1>8. CASE MoveEnds
    BY <1>8 DEF MoveEnds
<1>9. CASE LeaveLoop
    BY <1>9 DEF LeaveLoop
<1>10. CASE Iterate
    BY <1>10 DEF Iterate
<1>11. CASE RestoreBegins
    BY <1>11 DEF RestoreBegins
<1>12. CASE RestoreEnds
    BY <1>12 DEF RestoreEnds
<1>13. CASE Unlink
    BY <1>13 DEF Unlink
<1>14. CASE BackupFails
    BY <1>14 DEF BackupFails
<1>15. CASE RestoreFails
    BY <1>15 DEF RestoreFails
<1>16. CASE Signal
    BY <1>16 DEF Signal
<1>17. CASE Killed
    BY <1>17 DEF Killed
<1>18. CASE Exec
    BY <1>18 DEF Exec
<1>19. CASE Quarter
    BY <1>19 DEF Quarter
<1>20. CASE BuildEnds
    BY <1>20 DEF BuildEnds
<1>21. CASE Capture
    BY <1>21 DEF Capture
<1>22. CASE Finished
    BY <1>22 DEF Finished, vars
<1>23. CASE UNCHANGED vars
    BY <1>23 DEF vars
<1> QED
    BY <1>1, <1>2, <1>3, <1>4, <1>5, <1>6, <1>7, <1>8, <1>9, <1>10, <1>11, <1>12, <1>13,
      <1>14, <1>15, <1>16, <1>17, <1>18, <1>19, <1>20, <1>21, <1>22, <1>23
       DEF Next, Watch

\* The inductive invariant: types, what the watcher remembers, where the original bytes are.
THEOREM Inductive == Spec => []Inv
<1>1. Init => Inv
    <2>1. Init => TypeOK
        <3>1. 0 \in 0..MaxFaults /\ 0 \in 0..MaxSignals
            <4>1. MaxFaults \in Nat /\ MaxSignals \in Nat
                OBVIOUS
            <4> QED
                BY <4>1
        <3> QED
            BY <3>1 DEF Init, TypeOK
    <2>2. Init => MemoryInv /\ BytesInv
        BY DEF Init, MemoryInv, BytesInv
    <2> QED
        BY <2>1, <2>2 DEF Inv
<1>2. Inv /\ [Next]_vars => Inv'
    BY TypeStep, MemoryStep, BytesStep DEF Inv
<1> QED
    BY <1>1, <1>2, PTL DEF Spec

\* Every variable of the watcher, the build and the two files keeps its type.
THEOREM TypeCorrect == Spec => []TypeOK
<1>1. Inv => TypeOK
    BY DEF Inv
<1> QED
    BY <1>1, Inductive, PTL

\* The original bytes of the compiler archive exist at every moment, with any number of
\* signals, kills and failed copies, unless the copy that makes the backup was cut short
\* (inject_into_compiler_archives, restore_compiler_archives, handle_signal).
THEOREM OriginalIsKept == Spec => []OriginalKept
<1>1. Inv => OriginalKept
    BY DEF Inv, BytesInv, OriginalKept
<1> QED
    BY <1>1, Inductive, PTL

\* An archive restored while the build runs is never injected again, and what is recorded
\* after the build is the original (the main loop's flags, capture-pgo-toolchains.py).
THEOREM StaysRestored == Spec => RestoredStays
<1> DEFINE Kept == (restored /\ ~cut) =>
                       archive = "original" /\ captured' \in {captured, "original"}
<1>1. Inv /\ [Next]_vars => [Kept]_vars
    <2> SUFFICES ASSUME Inv, [Next]_vars, restored, ~cut
                 PROVE  archive = "original" /\ captured' \in {captured, "original"}
        OBVIOUS
    <2>1. archive = "original"
        BY DEF Inv, MemoryInv, BytesInv
    <2>2. CASE Capture
        BY <2>1, <2>2 DEF Capture
    <2>3. CASE ~Capture
        <3>1. captured' = captured
            BY <2>3 DEF Next, vars,
                   InstallHandlers, FindRuntime, Inspect, BackupBegins, BackupEnds,
                   Repack, Move, MoveEnds, LeaveLoop, Iterate, RestoreBegins, RestoreEnds,
                   Unlink, BackupFails, RestoreFails, Signal, Killed, Exec, Quarter,
                   BuildEnds, Finished, Watch
        <3> QED
            BY <2>1, <3>1
    <2> QED
        BY <2>1, <2>2, <2>3
<1> QED
    BY <1>1, Inductive, PTL DEF Spec, RestoredStays

\* "Restore cached archives to their exact original bytes" holds of every restore unless
\* the copy that made the backup was cut short: that copy, which a signal interrupts and
\* whose file the restore takes for the original, is the only way to a damaged archive
\* (inject_into_compiler_archives' copy2, restore_compiler_archives).
THEOREM RestoresExactly == Spec => [](RestoredExactly \/ cut)
<1>1. Inv => RestoredExactly \/ cut
    BY DEF Inv, BytesInv, RestoredExactly
<1> QED
    BY <1>1, Inductive, PTL

(***************************************************************************)
(* What is left of the watcher once the build has ended                    *)
(***************************************************************************)

\* The restores still ahead: one of the loop's, the handler's, the finally block's.
Phase ==
    CASE watcher = "gone" -> 0
      [] watcher # "gone" /\ context = "loop" -> 3
      [] watcher # "gone" /\ context = "handler" -> 2
      [] OTHER -> 1

\* The way through one of them, or through an injection, back to the loop.
Position ==
    CASE watcher = "boot" -> 12
      [] watcher = "find" -> 11
      [] watcher = "inspect" -> 10
      [] watcher = "backup" -> 9
      [] watcher = "copying" -> 8
      [] watcher = "repack" -> 7
      [] watcher = "move" -> 6
      [] watcher = "moving" -> 5
      [] watcher = "restore" -> 4
      [] watcher = "restoring" -> 3
      [] watcher = "unlink" -> 2
      [] watcher = "loop" -> 1
      [] OTHER -> 0

Left == <<MaxSignals - signals, Phase, Position>>

Ranks == Nat \X Nat \X Nat

Less(a, b) ==
    \/ a[1] < b[1]
    \/ a[1] = b[1] /\ a[2] < b[2]
    \/ a[1] = b[1] /\ a[2] = b[2] /\ a[3] < b[3]

\* Steps of the watcher, failed copies and signals among them.
Moves == Watch \/ BackupFails \/ RestoreFails \/ Signal \/ Killed

LEMMA MovesCloser ==
    ASSUME TypeOK, MemoryInv, build = "ended", Moves
    PROVE  Less(Left', Left)
<1> USE DEF TypeOK, MemoryInv
<1>t. signals \in Nat /\ MaxSignals \in Nat
    OBVIOUS
<1>p. /\ (signals' = signals /\ Phase' < Phase => Less(Left', Left))
      /\ (signals' = signals /\ Phase' = Phase /\ Position' < Position => Less(Left', Left))
    BY <1>t DEF Less, Left
<1>1. CASE InstallHandlers
    <2>1. signals' = signals
        BY <1>1 DEF InstallHandlers
    <2>2. Phase' < Phase \/ (Phase' = Phase /\ Position' < Position)
        BY <1>1 DEF InstallHandlers, Phase, Position
    <2> QED
        BY <1>p, <2>1, <2>2
<1>2. CASE FindRuntime
    <2>1. signals' = signals
        BY <1>2 DEF FindRuntime
    <2>2. Phase' < Phase \/ (Phase' = Phase /\ Position' < Position)
        BY <1>2 DEF FindRuntime, Phase, Position
    <2> QED
        BY <1>p, <2>1, <2>2
<1>3. CASE Inspect
    <2>1. signals' = signals
        BY <1>3 DEF Inspect
    <2>2. Phase' < Phase \/ (Phase' = Phase /\ Position' < Position)
        BY <1>3 DEF Inspect, Phase, Position
    <2> QED
        BY <1>p, <2>1, <2>2
<1>4. CASE BackupBegins
    <2>1. signals' = signals
        BY <1>4 DEF BackupBegins
    <2>2. Phase' < Phase \/ (Phase' = Phase /\ Position' < Position)
        BY <1>4 DEF BackupBegins, Phase, Position
    <2> QED
        BY <1>p, <2>1, <2>2
<1>5. CASE BackupEnds
    <2>1. signals' = signals
        BY <1>5 DEF BackupEnds
    <2>2. Phase' < Phase \/ (Phase' = Phase /\ Position' < Position)
        BY <1>5 DEF BackupEnds, Phase, Position
    <2> QED
        BY <1>p, <2>1, <2>2
<1>6. CASE Repack
    <2>1. signals' = signals
        BY <1>6 DEF Repack
    <2>2. Phase' < Phase \/ (Phase' = Phase /\ Position' < Position)
        BY <1>6 DEF Repack, Phase, Position
    <2> QED
        BY <1>p, <2>1, <2>2
<1>7. CASE Move
    <2>1. signals' = signals
        BY <1>7 DEF Move
    <2>2. Phase' < Phase \/ (Phase' = Phase /\ Position' < Position)
        BY <1>7 DEF Move, Phase, Position
    <2> QED
        BY <1>p, <2>1, <2>2
<1>8. CASE MoveEnds
    <2>1. signals' = signals
        BY <1>8 DEF MoveEnds
    <2>2. Phase' < Phase \/ (Phase' = Phase /\ Position' < Position)
        BY <1>8 DEF MoveEnds, Phase, Position
    <2> QED
        BY <1>p, <2>1, <2>2
<1>9. CASE LeaveLoop
    <2>1. signals' = signals
        BY <1>9 DEF LeaveLoop
    <2>2. Phase' < Phase \/ (Phase' = Phase /\ Position' < Position)
        BY <1>9 DEF LeaveLoop, Phase, Position
    <2> QED
        BY <1>p, <2>1, <2>2
<1>10. CASE RestoreBegins
    <2>1. signals' = signals
        BY <1>10 DEF RestoreBegins
    <2>2. Phase' < Phase \/ (Phase' = Phase /\ Position' < Position)
        BY <1>10 DEF RestoreBegins, Phase, Position
    <2> QED
        BY <1>p, <2>1, <2>2
<1>11. CASE RestoreEnds
    <2>1. signals' = signals
        BY <1>11 DEF RestoreEnds
    <2>2. Phase' < Phase \/ (Phase' = Phase /\ Position' < Position)
        BY <1>11 DEF RestoreEnds, Phase, Position
    <2> QED
        BY <1>p, <2>1, <2>2
<1>12. CASE Unlink
    <2>1. signals' = signals
        BY <1>12 DEF Unlink
    <2>2. Phase' < Phase \/ (Phase' = Phase /\ Position' < Position)
        BY <1>12 DEF Unlink, Phase, Position
    <2> QED
        BY <1>p, <2>1, <2>2
<1>13. CASE BackupFails
    <2>1. signals' = signals
        BY <1>13 DEF BackupFails
    <2>2. Phase' < Phase \/ (Phase' = Phase /\ Position' < Position)
        BY <1>13 DEF BackupFails, Phase, Position
    <2> QED
        BY <1>p, <2>1, <2>2
<1>14. CASE RestoreFails
    <2>1. signals' = signals
        BY <1>14 DEF RestoreFails
    <2>2. Phase' < Phase \/ (Phase' = Phase /\ Position' < Position)
        BY <1>14 DEF RestoreFails, Phase, Position
    <2> QED
        BY <1>p, <2>1, <2>2
<1>15. CASE Signal
    BY <1>15, <1>t DEF Signal, Less, Left
<1>16. CASE Killed
    <2>1. signals' = signals
        BY <1>16 DEF Killed
    <2>2. Phase' < Phase \/ (Phase' = Phase /\ Position' < Position)
        BY <1>16 DEF Killed, Phase, Position
    <2> QED
        BY <1>p, <2>1, <2>2
<1>17. ~Iterate
    BY DEF Iterate
<1> QED
    BY <1>1, <1>2, <1>3, <1>4, <1>5, <1>6, <1>7, <1>8, <1>9, <1>10, <1>11, <1>12, <1>13,
       <1>14, <1>15, <1>16, <1>17
       DEF Moves, Watch

\* Once the build has ended, every step of the watcher brings it closer to its end in a
\* well-founded order: signals may come between any two of its steps, each starting a new
\* restore, and copies may fail, yet there is no way round the loop, the handler and the
\* finally block for ever (main's loop condition, handle_signal's sys.exit).
THEOREM RunsDown ==
    Spec => /\ [](Left \in Ranks)
            /\ [][build = "ended" => IF Moves THEN Less(Left', Left) ELSE Left' = Left]_vars
<1>1. Inv => Left \in Ranks
    <2> SUFFICES ASSUME Inv PROVE Left \in Ranks
        OBVIOUS
    <2>1. MaxSignals - signals \in Nat
        BY DEF Inv, TypeOK
    <2>2. Phase \in Nat
        BY DEF Phase
    <2>3. Position \in Nat
        BY DEF Position
    <2> QED
        BY <2>1, <2>2, <2>3 DEF Left, Ranks
<1>2. ASSUME Inv, [Next]_vars, build = "ended", ~Moves
      PROVE  Left' = Left
    <2>1. UNCHANGED <<watcher, context, signals>>
        BY <1>2 DEF Inv, MemoryInv, Next, Moves, vars, Exec, Quarter, BuildEnds, Capture,
           Finished
    <2> QED
        BY <2>1 DEF Left, Phase, Position
<1>3. Inv /\ [Next]_vars =>
          [build = "ended" => IF Moves THEN Less(Left', Left) ELSE Left' = Left]_vars
    BY <1>2, MovesCloser DEF Inv
<1> QED
    BY <1>1, <1>3, Inductive, PTL DEF Spec
=============================================================================
