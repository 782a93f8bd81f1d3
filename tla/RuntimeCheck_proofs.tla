------------------------- MODULE RuntimeCheck_proofs -------------------------
(***************************************************************************)
(* What the Windows check promises for every number of samples and faults. *)
(***************************************************************************)
EXTENDS RuntimeCheck, TLAPS

USE RuntimeAssumption DEF RuntimeAssumption
USE DEF Fault, Goto, Raise, Note, KillTree, Passes, keptByReading, keptByNative, treeVars,
        processVars, sampleVars, reportVars, NothingRegistered

(***************************************************************************)
(* The processes of a native command                                       *)
(***************************************************************************)

\* A process is in its job before it runs, and it is gone, with everything it has started,
\* before run_native returns.
ProcInv ==
    /\ native \in {"idle", "zero", "nonzero"} => root = "none" /\ child = "none"
    /\ native \in {"created", "assigned"} => root = "suspended" /\ child = "none"
    /\ child \in {"none", "in_job"}
    /\ native # "idle" => step \in Native

\* Every step keeps ProcInv.
LEMMA ProcStep == ProcInv /\ [Next]_vars => ProcInv'
<1> SUFFICES ASSUME ProcInv, [Next]_vars PROVE ProcInv'
    OBVIOUS
<1> USE DEF ProcInv, Native, Over, Works
<1>1. CASE Create
    BY <1>1 DEF Create
<1>2. CASE Assign
    BY <1>2 DEF Assign
<1>3. CASE Resume
    BY <1>3 DEF Resume
<1>4. CASE RootEnded
    BY <1>4 DEF RootEnded
<1>5. CASE Drained
    BY <1>5 DEF Drained
<1>6. CASE TimesOut
    BY <1>6 DEF TimesOut
<1>7. CASE Packages
    BY <1>7 DEF Packages
<1>8. CASE Origin
    BY <1>8 DEF Origin
<1>9. CASE Registered
    BY <1>9 DEF Registered
<1>10. CASE Stage
    BY <1>10 DEF Stage
<1>11. CASE Unpack
    BY <1>11 DEF Unpack
<1>12. CASE Verify
    BY <1>12 DEF Verify
<1>13. CASE Copy
    BY <1>13 DEF Copy
<1>14. CASE Recheck
    BY <1>14 DEF Recheck
<1>15. CASE Compare
    BY <1>15 DEF Compare
<1>16. CASE Returned
    BY <1>16 DEF Returned, Measure, After
<1>17. CASE Failed
    BY <1>17 DEF Failed
<1>18. CASE Summary
    BY <1>18 DEF Summary
<1>19. CASE CleanupNothing
    BY <1>19 DEF CleanupNothing
<1>20. CASE Registry
    BY <1>20 DEF Registry
<1>21. CASE Work
    BY <1>21 DEF Work
<1>22. CASE Report
    BY <1>22 DEF Report
<1>23. CASE Interrupt
    BY <1>23 DEF Interrupt
<1>24. CASE Killed
    BY <1>24 DEF Killed
<1>25. CASE InstallerWorks
    BY <1>25 DEF InstallerWorks
<1>26. CASE UninstallerWorks
    BY <1>26 DEF UninstallerWorks
<1>27. CASE RootForks
    BY <1>27 DEF RootForks
<1>28. CASE RootExits
    BY <1>28 DEF RootExits
<1>29. CASE ChildEnds
    BY <1>29 DEF ChildEnds
<1>30. CASE UNCHANGED vars
    BY <1>30 DEF vars
<1> QED
    BY <1>1, <1>2, <1>3, <1>4, <1>5, <1>6, <1>7, <1>8, <1>9, <1>10, <1>11, <1>12,
       <1>13, <1>14, <1>15, <1>16, <1>17, <1>18, <1>19, <1>20, <1>21, <1>22, <1>23,
       <1>24, <1>25, <1>26, <1>27, <1>28, <1>29, <1>30 DEF Next, CheckStep

(***************************************************************************)
(* The shared registration                                                 *)
(***************************************************************************)

\* A registration of the user stops the check before its first installation, and the
\* check starts an installer only when nothing is registered.
KeyInv ==
    /\ variant \in Installs
    /\ registration = "user" =>
          /\ native = "idle" /\ installed = {}
          /\ step \in {"begin", "origin", "registered", "cleanup", "registry", "work", "report"}
                      \cup Over
    /\ step \in {"stage", "unpack"} => registration = "none"
    /\ step = "install" /\ native \in {"idle", "created", "assigned"} => registration = "none"
    /\ step \in {"begin", "origin", "registered", "stage", "unpack"} => installed = {}

\* Every step keeps KeyInv.
LEMMA KeyStep == ProcInv /\ KeyInv /\ [Next]_vars => KeyInv'
<1> SUFFICES ASSUME ProcInv, KeyInv, [Next]_vars PROVE KeyInv'
    OBVIOUS
<1> USE DEF ProcInv, KeyInv, Native, Over, Works, Installing, Uninstalling, Installs
<1>1. CASE Create
    BY <1>1 DEF Create
<1>2. CASE Assign
    BY <1>2 DEF Assign
<1>3. CASE Resume
    BY <1>3 DEF Resume
<1>4. CASE RootEnded
    BY <1>4 DEF RootEnded
<1>5. CASE Drained
    BY <1>5 DEF Drained
<1>6. CASE TimesOut
    BY <1>6 DEF TimesOut
<1>7. CASE Packages
    BY <1>7 DEF Packages
<1>8. CASE Origin
    BY <1>8 DEF Origin
<1>9. CASE Registered
    BY <1>9 DEF Registered
<1>10. CASE Stage
    BY <1>10 DEF Stage
<1>11. CASE Unpack
    BY <1>11 DEF Unpack
<1>12. CASE Verify
    BY <1>12 DEF Verify
<1>13. CASE Copy
    BY <1>13 DEF Copy
<1>14. CASE Recheck
    BY <1>14 DEF Recheck
<1>15. CASE Compare
    BY <1>15 DEF Compare
<1>16. CASE Returned
    BY <1>16 DEF Returned, Measure, After
<1>17. CASE Failed
    BY <1>17 DEF Failed
<1>18. CASE Summary
    BY <1>18 DEF Summary
<1>19. CASE CleanupNothing
    BY <1>19 DEF CleanupNothing
<1>20. CASE Registry
    BY <1>20 DEF Registry
<1>21. CASE Work
    BY <1>21 DEF Work
<1>22. CASE Report
    BY <1>22 DEF Report
<1>23. CASE Interrupt
    BY <1>23 DEF Interrupt
<1>24. CASE Killed
    BY <1>24 DEF Killed
<1>25. CASE InstallerWorks
    BY <1>25 DEF InstallerWorks
<1>26. CASE UninstallerWorks
    BY <1>26 DEF UninstallerWorks
<1>27. CASE RootForks
    BY <1>27 DEF RootForks
<1>28. CASE RootExits
    BY <1>28 DEF RootExits
<1>29. CASE ChildEnds
    BY <1>29 DEF ChildEnds
<1>30. CASE UNCHANGED vars
    BY <1>30 DEF vars
<1> QED
    BY <1>1, <1>2, <1>3, <1>4, <1>5, <1>6, <1>7, <1>8, <1>9, <1>10, <1>11, <1>12,
       <1>13, <1>14, <1>15, <1>16, <1>17, <1>18, <1>19, <1>20, <1>21, <1>22, <1>23,
       <1>24, <1>25, <1>26, <1>27, <1>28, <1>29, <1>30 DEF Next, CheckStep

(***************************************************************************)
(* The measurement                                                         *)
(***************************************************************************)

Measured == IF baseline THEN Installs \cup {"portable"} ELSE {"installer", "portable"}

Rank == IF baseline THEN [baseline |-> 1, installer |-> 2, portable |-> 3]
                    ELSE [baseline |-> 0, installer |-> 1, portable |-> 2]

Last == IF baseline THEN 3 ELSE 2

\* The turn of a browser in the round.
TurnOf(b) == IF round % 2 = 0 THEN Rank[b] ELSE Last + 1 - Rank[b]

\* Two or three browsers have a turn.
LEMMA OrderLength == baseline \in BOOLEAN => Len(Order) = Last
BY DEF Order, Last

\* In every round each browser has one turn.
LEMMA Turns ==
    ASSUME baseline \in BOOLEAN, round \in Nat, turn \in 1..Last
    PROVE  /\ Browser \in Measured /\ TurnOf(Browser) = turn
           /\ \A b \in Measured : TurnOf(b) \in 1..Last /\ (TurnOf(b) = turn => b = Browser)
<1> USE DEF Browser, Measured, TurnOf, Rank, Order, Last, Installs
<1>1. CASE baseline /\ round % 2 = 0
    BY <1>1
<1>2. CASE baseline /\ round % 2 # 0
    BY <1>2
<1>3. CASE ~baseline /\ round % 2 = 0
    BY <1>3
<1>4. CASE ~baseline /\ round % 2 # 0
    BY <1>4
<1> QED
    BY <1>1, <1>2, <1>3, <1>4

SampleType ==
    /\ baseline \in BOOLEAN
    /\ round \in 0..Samples /\ turn \in 1..3
    /\ measured \in [Installs \cup {"portable"} -> 0..Samples]

Preparing == {"begin", "origin", "registered", "stage", "unpack", "install", "verify", "copy",
              "uninstall", "recheck", "compare", "calibrate"}

\* Each browser has a sample of every measured round that has had its turn.
SampleInv ==
    /\ SampleType
    /\ step \in Preparing => round = 0 /\ turn = 1 /\ \A b \in Measured : measured[b] = 0
    /\ step = "round" =>
          /\ turn \in 1..Last
          /\ \A b \in Measured :
                measured[b] = IF round = 0 THEN 0
                              ELSE IF TurnOf(b) < turn THEN round ELSE round - 1
    /\ step = "summary" => \A b \in Measured : measured[b] = Samples

\* One launch of the measurement.
LEMMA MeasureStep ==
    ASSUME SampleInv, step = "round", Measure, UNCHANGED baseline
    PROVE  SampleInv'
<1>1. /\ baseline \in BOOLEAN /\ round \in Nat /\ turn \in 1..Last /\ Len(Order) = Last
      /\ round \in 0..Samples
    BY OrderLength DEF SampleInv, SampleType
<1>2. /\ Browser \in Measured /\ TurnOf(Browser) = turn
      /\ \A b \in Measured : TurnOf(b) \in 1..Last /\ (TurnOf(b) = turn => b = Browser)
    BY <1>1, Turns
<1>3. Measured' = Measured /\ Last' = Last /\ Measured \subseteq Installs \cup {"portable"}
      /\ Last \in {2, 3}
    BY DEF Measured, Last, Installs
<1>4. /\ measured' \in [Installs \cup {"portable"} -> 0..Samples]
      /\ \A b \in Measured :
            measured'[b] = IF round = 0 THEN 0
                           ELSE IF TurnOf(b) <= turn THEN round ELSE round - 1
    <2>1. CASE round = 0
        BY <1>1, <2>1 DEF Measure, SampleInv, SampleType
    <2>2. CASE round # 0
        <3>1. measured' = [measured EXCEPT ![Browser] = measured[Browser] + 1]
            BY <2>2 DEF Measure
        <3>2. measured[Browser] = round - 1
            BY <1>1, <1>2, <2>2 DEF SampleInv
        <3>3. \A b \in Measured :
                 measured'[b] = IF TurnOf(b) <= turn THEN round ELSE round - 1
            <4> SUFFICES ASSUME NEW b \in Measured
                         PROVE  measured'[b] = IF TurnOf(b) <= turn THEN round ELSE round - 1
                OBVIOUS
            <4>1. CASE b = Browser
                BY <1>1, <1>2, <1>3, <3>1, <3>2, <4>1 DEF SampleInv, SampleType
            <4>2. CASE b # Browser
                <5>1. measured'[b] = measured[b]
                    BY <1>3, <3>1, <4>2 DEF SampleInv, SampleType
                <5>2. TurnOf(b) # turn /\ TurnOf(b) \in Int
                    BY <1>2, <1>3, <4>2
                <5> QED
                    BY <1>1, <2>2, <5>1, <5>2 DEF SampleInv
            <4> QED
                BY <4>1, <4>2
        <3>4. measured' \in [Installs \cup {"portable"} -> 0..Samples]
            BY <1>1, <1>2, <1>3, <2>2, <3>1, <3>2 DEF SampleInv, SampleType
        <3> QED
            BY <2>2, <3>3, <3>4
    <2> QED
        BY <2>1, <2>2
<1>5. CASE turn < Last
    <2>1. turn' = turn + 1 /\ round' = round /\ step' = step
        BY <1>1, <1>5 DEF Measure
    <2>2. \A b \in Measured : TurnOf(b)' = TurnOf(b)
        BY <2>1 DEF TurnOf, Rank, Last
    <2>3. \A b \in Measured : TurnOf(b) \in Int
        BY <1>2, <1>3
    <2>4. \A b \in Measured : TurnOf(b) <= turn <=> TurnOf(b)' < turn'
        BY <1>1, <2>1, <2>2, <2>3
    <2>5. SampleType'
        BY <1>1, <1>3, <1>4, <1>5, <2>1 DEF SampleType
    <2> HIDE DEF TurnOf
    <2> QED
        BY <1>1, <1>3, <1>4, <1>5, <2>1, <2>4, <2>5 DEF SampleInv, Preparing
<1>6. CASE turn >= Last /\ round < Samples
    <2>1. turn' = 1 /\ round' = round + 1 /\ step' = step
        BY <1>1, <1>6 DEF Measure
    <2>2. \A b \in Measured : measured'[b] = round
        BY <1>1, <1>2, <1>3, <1>4, <1>6
    <2>3. turn' \in 1..Last' /\ round' \in Nat
        BY <1>1, <1>3, <2>1
    <2>4. \A b \in Measured : TurnOf(b)' \in 1..Last
        <3>1. \A b \in Measured : Rank[b] \in 1..Last
            BY DEF Measured, Rank, Last, Installs
        <3> QED
            BY <1>3, <3>1 DEF TurnOf, Rank
    <2>5. SampleType'
        BY <1>1, <1>4, <1>6, <2>1 DEF SampleType
    <2> HIDE DEF TurnOf
    <2> QED
        BY <1>1, <1>3, <2>1, <2>2, <2>3, <2>4, <2>5 DEF SampleInv, Preparing
<1>7. CASE turn >= Last /\ round >= Samples
    <2>1. step' = "summary" /\ turn' = turn /\ round' = round /\ round = Samples
        BY <1>1, <1>7 DEF Measure
    <2>2. \A b \in Measured : measured'[b] = Samples
        BY <1>1, <1>2, <1>3, <1>4, <1>7, <2>1
    <2>3. SampleType'
        BY <1>1, <1>4, <2>1 DEF SampleType, SampleInv
    <2> QED
        BY <1>3, <2>1, <2>2, <2>3 DEF SampleInv, Preparing
<1> QED
    BY <1>1, <1>3, <1>5, <1>6, <1>7

\* Elsewhere the samples stay, and the first round begins with none.
LEMMA SampleElse ==
    ASSUME SampleInv, UNCHANGED <<baseline, sampleVars>>,
           \/ step' = step
           \/ step \in Preparing /\ step' \in Preparing \cup {"round"}
           \/ step' \notin Preparing \cup {"round", "summary"}
    PROVE  SampleInv'
<1>1. Measured' = Measured /\ Last' = Last
    BY DEF Measured, Last
<1>2. \A b \in Measured : TurnOf(b)' = TurnOf(b)
    BY DEF TurnOf, Rank, Last
<1>3. SampleType'
    BY DEF SampleInv, SampleType
<1> HIDE DEF TurnOf
<1>4. CASE step' = step
    BY <1>1, <1>2, <1>3, <1>4 DEF SampleInv
<1>5. CASE step \in Preparing /\ step' \in Preparing \cup {"round"}
    <2>1. round' = 0 /\ turn' = 1 /\ 1 \in 1..Last /\ \A b \in Measured : measured'[b] = 0
        BY <1>5 DEF SampleInv, Last
    <2>2. step' # "summary"
        BY <1>5 DEF Preparing
    <2> QED
        BY <1>1, <1>3, <2>1, <2>2 DEF SampleInv
<1>6. CASE step' \notin Preparing \cup {"round", "summary"}
    BY <1>3, <1>6 DEF SampleInv
<1> QED
    BY <1>4, <1>5, <1>6

\* Every step keeps SampleInv.
LEMMA SampleStep == ProcInv /\ SampleInv /\ [Next]_vars => SampleInv'
<1> SUFFICES ASSUME ProcInv, SampleInv, [Next]_vars PROVE SampleInv'
    OBVIOUS
<1>1. CASE Create
    BY <1>1, SampleElse DEF Create, Preparing
<1>2. CASE Assign
    BY <1>2, SampleElse DEF Assign, Preparing
<1>3. CASE Resume
    BY <1>3, SampleElse DEF Resume, Preparing
<1>4. CASE RootEnded
    BY <1>4, SampleElse DEF RootEnded, Preparing
<1>5. CASE Drained
    BY <1>5, SampleElse DEF Drained, Preparing
<1>6. CASE TimesOut
    BY <1>6, SampleElse DEF TimesOut, Preparing
<1>7. CASE Packages
    BY <1>7, SampleElse DEF Packages, Preparing
<1>8. CASE Origin
    BY <1>8, SampleElse DEF Origin, Preparing
<1>9. CASE Registered
    BY <1>9, SampleElse DEF Registered, Preparing
<1>10. CASE Stage
    BY <1>10, SampleElse DEF Stage, Preparing
<1>11. CASE Unpack
    BY <1>11, SampleElse DEF Unpack, Preparing
<1>12. CASE Verify
    BY <1>12, SampleElse DEF Verify, Preparing
<1>13. CASE Copy
    BY <1>13, SampleElse DEF Copy, Preparing
<1>14. CASE Recheck
    BY <1>14, SampleElse DEF Recheck, Preparing
<1>15. CASE Compare
    BY <1>15, SampleElse DEF Compare, Preparing
<1>16. CASE Returned
    <2>1. CASE step = "round" /\ Measure
        BY <1>16, <2>1, MeasureStep DEF Returned
    <2>2. CASE UNCHANGED sampleVars /\ ~(step = "round" /\ Measure)
        BY <1>16, <2>2, SampleElse DEF Returned, Preparing, After, ProcInv, Native
    <2> QED
        <3>1. (step = "round" /\ Measure) \/ UNCHANGED sampleVars
            BY <1>16, Zenon DEF Returned
        <3> QED
            BY <2>1, <2>2, <3>1
<1>17. CASE Failed
    BY <1>17, SampleElse DEF Failed, Preparing
<1>18. CASE Summary
    BY <1>18, SampleElse DEF Summary, Preparing
<1>19. CASE CleanupNothing
    BY <1>19, SampleElse DEF CleanupNothing, Preparing
<1>20. CASE Registry
    BY <1>20, SampleElse DEF Registry, Preparing
<1>21. CASE Work
    BY <1>21, SampleElse DEF Work, Preparing
<1>22. CASE Report
    BY <1>22, SampleElse DEF Report, Preparing
<1>23. CASE Interrupt
    BY <1>23, SampleElse DEF Interrupt, Preparing
<1>24. CASE Killed
    BY <1>24, SampleElse DEF Killed, Preparing
<1>25. CASE InstallerWorks
    BY <1>25, SampleElse DEF InstallerWorks, Preparing
<1>26. CASE UninstallerWorks
    BY <1>26, SampleElse DEF UninstallerWorks, Preparing
<1>27. CASE RootForks
    BY <1>27, SampleElse DEF RootForks, Preparing
<1>28. CASE RootExits
    BY <1>28, SampleElse DEF RootExits, Preparing
<1>29. CASE ChildEnds
    BY <1>29, SampleElse DEF ChildEnds, Preparing
<1>30. CASE UNCHANGED vars
    BY <1>30, SampleElse DEF vars
<1> QED
    BY <1>1, <1>2, <1>3, <1>4, <1>5, <1>6, <1>7, <1>8, <1>9, <1>10, <1>11, <1>12,
       <1>13, <1>14, <1>15, <1>16, <1>17, <1>18, <1>19, <1>20, <1>21, <1>22, <1>23,
       <1>24, <1>25, <1>26, <1>27, <1>28, <1>29, <1>30 DEF Next, CheckStep

(***************************************************************************)
(* The report                                                              *)
(***************************************************************************)

Finishing == {"cleanup", "registry", "work", "report"}

\* What the summary has found for the report: a measured baseline.
Found ==
    /\ baseline /\ copy = "same"
    /\ \A b \in Measured : measured[b] = Samples

Removed == \A v \in Installs : tree[v] = "none"

\* Until the summary the status is failed; later it is failed unless everything was
\* measured and, as far as the finally block has got, cleaned up.
ReportInv ==
    /\ status \in {"failed", "passed", "experiment-without-baseline"}
    /\ status # "failed" => step \in Finishing \cup Over
    /\ status = "passed" =>
          /\ Found
          /\ step \in {"work", "report"} => registration = "none"
          /\ step = "report" => Removed
    /\ status = "failed" /\ step \in Finishing => exit = "nonzero"
    /\ exit = "zero" => step = "done" /\ disk # "failed"
    /\ disk \in {"none", "failed"} \/ step = "done"
    /\ disk = "passed" => Found /\ registration = "none" /\ Removed
    /\ baseline /\ (variant = "installer" \/ step \in {"uninstall", "recheck"}) => copy = "same"
    /\ step \in {"copy", "uninstall", "recheck"} => variant = "baseline"
    /\ step \in {"compare", "calibrate", "round", "summary"} =>
          variant = "installer" /\ "installer" \in installed
    /\ (step = "install" /\ native # "idle") \/ step = "verify" => variant \in installed
    /\ status # "failed" => installed # {}

\* Every step keeps ReportInv.
LEMMA ReportStep == ProcInv /\ KeyInv /\ SampleInv /\ ReportInv /\ [Next]_vars => ReportInv'
<1> SUFFICES ASSUME ProcInv, KeyInv, SampleInv, ReportInv, [Next]_vars PROVE ReportInv'
    OBVIOUS
<1> USE DEF ProcInv, KeyInv, ReportInv, Native, Over, Finishing, Works, Installing, Uninstalling,
            Installs, Removed, Found, Measured
<1>1. CASE Create
    BY <1>1 DEF Create, Listed
<1>2. CASE Assign
    BY <1>2 DEF Assign
<1>3. CASE Resume
    BY <1>3 DEF Resume
<1>4. CASE RootEnded
    BY <1>4 DEF RootEnded
<1>5. CASE Drained
    BY <1>5 DEF Drained
<1>6. CASE TimesOut
    BY <1>6 DEF TimesOut
<1>7. CASE Packages
    BY <1>7 DEF Packages
<1>8. CASE Origin
    BY <1>8 DEF Origin
<1>9. CASE Registered
    BY <1>9 DEF Registered
<1>10. CASE Stage
    BY <1>10 DEF Stage
<1>11. CASE Unpack
    BY <1>11 DEF Unpack
<1>12. CASE Verify
    BY <1>12 DEF Verify
<1>13. CASE Copy
    BY <1>13 DEF Copy
<1>14. CASE Recheck
    BY <1>14 DEF Recheck
<1>15. CASE Compare
    BY <1>15 DEF Compare
<1>16. CASE Returned
    BY <1>16 DEF Returned, Measure, After
<1>17. CASE Failed
    BY <1>17 DEF Failed
<1>18. CASE Summary
    BY <1>18 DEF Summary, SampleInv
<1>19. CASE CleanupNothing
    BY <1>19 DEF CleanupNothing
<1>20. CASE Registry
    BY <1>20 DEF Registry
<1>21. CASE Work
    BY <1>21 DEF Work
<1>22. CASE Report
    BY <1>22 DEF Report
<1>23. CASE Interrupt
    BY <1>23 DEF Interrupt
<1>24. CASE Killed
    BY <1>24 DEF Killed
<1>25. CASE InstallerWorks
    BY <1>25 DEF InstallerWorks
<1>26. CASE UninstallerWorks
    BY <1>26 DEF UninstallerWorks
<1>27. CASE RootForks
    BY <1>27 DEF RootForks
<1>28. CASE RootExits
    BY <1>28 DEF RootExits
<1>29. CASE ChildEnds
    BY <1>29 DEF ChildEnds
<1>30. CASE UNCHANGED vars
    BY <1>30 DEF vars
<1> QED
    BY <1>1, <1>2, <1>3, <1>4, <1>5, <1>6, <1>7, <1>8, <1>9, <1>10, <1>11, <1>12,
       <1>13, <1>14, <1>15, <1>16, <1>17, <1>18, <1>19, <1>20, <1>21, <1>22, <1>23,
       <1>24, <1>25, <1>26, <1>27, <1>28, <1>29, <1>30 DEF Next, CheckStep

(***************************************************************************)
(* Types                                                                   *)
(***************************************************************************)

Steps == {"begin", "origin", "registered", "stage", "unpack", "verify", "copy", "recheck",
          "compare", "summary", "registry", "work", "report"} \cup Native \cup Over

\* Every step keeps the types.
LEMMA TypeStep == TypeOK /\ ProcInv /\ SampleInv /\ [Next]_vars => TypeOK'
<1> SUFFICES ASSUME TypeOK, ProcInv, SampleInv, [Next]_vars PROVE TypeOK'
    OBVIOUS
<1>0. SampleInv'
    BY SampleStep
<1> USE DEF TypeOK, Steps, ProcInv, Native, Over, Statuses
<1>1. CASE Create
    BY <1>1 DEF Create, Listed
<1>2. CASE Assign
    BY <1>2 DEF Assign
<1>3. CASE Resume
    BY <1>3 DEF Resume
<1>4. CASE RootEnded
    BY <1>4 DEF RootEnded
<1>5. CASE Drained
    BY <1>5 DEF Drained
<1>6. CASE TimesOut
    BY <1>6 DEF TimesOut
<1>7. CASE Packages
    BY <1>7 DEF Packages
<1>8. CASE Origin
    BY <1>8 DEF Origin
<1>9. CASE Registered
    BY <1>9 DEF Registered
<1>10. CASE Stage
    BY <1>10 DEF Stage
<1>11. CASE Unpack
    BY <1>11 DEF Unpack, Installs
<1>12. CASE Verify
    BY <1>12 DEF Verify
<1>13. CASE Copy
    BY <1>13 DEF Copy
<1>14. CASE Recheck
    BY <1>14 DEF Recheck, Installs
<1>15. CASE Compare
    BY <1>15 DEF Compare
<1>16. CASE Returned
    <2>1. UNCHANGED <<baseline, variant, installed, treeVars, root, child>> /\ native' = "idle"
        BY <1>16 DEF Returned
    <2>2. /\ step' \in Steps /\ status' \in Statuses /\ disk' \in Statuses \cup {"none"}
          /\ exit' \in {"none", "zero", "nonzero"} /\ faults' \in 0..MaxFaults
        BY <1>16 DEF Returned, Measure, After
    <2> QED
        BY <1>0, <2>1, <2>2 DEF SampleInv, SampleType
<1>17. CASE Failed
    BY <1>17 DEF Failed
<1>18. CASE Summary
    BY <1>18 DEF Summary
<1>19. CASE CleanupNothing
    BY <1>19 DEF CleanupNothing
<1>20. CASE Registry
    BY <1>20 DEF Registry
<1>21. CASE Work
    BY <1>21 DEF Work
<1>22. CASE Report
    BY <1>22 DEF Report
<1>23. CASE Interrupt
    BY <1>23 DEF Interrupt
<1>24. CASE Killed
    BY <1>24 DEF Killed
<1>25. CASE InstallerWorks
    BY <1>25 DEF InstallerWorks
<1>26. CASE UninstallerWorks
    BY <1>26 DEF UninstallerWorks
<1>27. CASE RootForks
    BY <1>27 DEF RootForks
<1>28. CASE RootExits
    BY <1>28 DEF RootExits
<1>29. CASE ChildEnds
    BY <1>29 DEF ChildEnds
<1>30. CASE UNCHANGED vars
    BY <1>30 DEF vars
<1> QED
    BY <1>1, <1>2, <1>3, <1>4, <1>5, <1>6, <1>7, <1>8, <1>9, <1>10, <1>11, <1>12,
       <1>13, <1>14, <1>15, <1>16, <1>17, <1>18, <1>19, <1>20, <1>21, <1>22, <1>23,
       <1>24, <1>25, <1>26, <1>27, <1>28, <1>29, <1>30 DEF Next, CheckStep

(***************************************************************************)
(* Results                                                                 *)
(***************************************************************************)

Inv == TypeOK /\ ProcInv /\ KeyInv /\ SampleInv /\ ReportInv

\* The initial states.
LEMMA InitInv == Init => Inv
<1> SUFFICES ASSUME Init PROVE Inv
    OBVIOUS
<1> USE DEF Init
<1>1. SampleType
    BY DEF SampleType
<1>2. TypeOK
    <2>1. /\ tree \in [Installs -> {"none", "partial", "complete"}]
          /\ variant \in Installs /\ faults \in 0..MaxFaults
        BY DEF Installs
    <2> QED
        BY <1>1, <2>1 DEF TypeOK, SampleType, Statuses
<1>3. ProcInv /\ KeyInv
    BY DEF ProcInv, KeyInv, Installs
<1>4. SampleInv
    BY <1>1 DEF SampleInv, Measured, Installs
<1>5. ReportInv
    BY DEF ReportInv, Finishing
<1> QED
    BY <1>2, <1>3, <1>4, <1>5 DEF Inv

\* All steps.
LEMMA NextInv == Inv /\ [Next]_vars => Inv'
BY TypeStep, ProcStep, KeyStep, SampleStep, ReportStep DEF Inv

\* The inductive invariant.
THEOREM Inductive == Spec => []Inv
BY InitInv, NextInv, PTL DEF Spec

\* Every variable of the check keeps its type; in particular no browser is measured more
\* often than Samples says (measure_browsers).
THEOREM TypeCorrect == Spec => []TypeOK
<1>1. Inv => TypeOK
    BY DEF Inv
<1> QED
    BY <1>1, Inductive, PTL

\* A report that says passed has all its samples and leaves nothing behind, whatever the
\* native commands do and however the check is interrupted (run_checks and its finally
\* block).
THEOREM Validated == Spec => []ValidatedIsClean
<1>1. Inv => ValidatedIsClean
    <2> SUFFICES ASSUME Inv PROVE ValidatedIsClean
        OBVIOUS
    <2>1. disk = "passed" => step = "done" /\ native = "idle"
        BY DEF Inv, ReportInv, ProcInv, Native
    <2>2. disk = "passed" => root = "none" /\ child = "none"
        BY <2>1 DEF Inv, ProcInv
    <2>3. disk = "passed" => Found /\ registration = "none" /\ Removed
        BY DEF Inv, ReportInv
    <2>4. exit = "zero" => disk # "failed"
        BY DEF Inv, ReportInv
    <2> QED
        BY <2>2, <2>3, <2>4 DEF ValidatedIsClean, Found, Removed, Measured
<1> QED
    BY <1>1, Inductive, PTL

\* Native commands do not overlap, installers meet no registration, and the user's own is
\* never touched (reject_existing_install, run_native).
THEOREM Apart == Spec => KeptApart
<1> DEFINE Goal == /\ root = "none" /\ root' # "none" =>
                         /\ child = "none"
                         /\ step = "install" => registration = "none"
                   /\ registration = "user" => registration' = "user"
<1>1. Inv /\ [Next]_vars => [Goal]_vars
    <2> SUFFICES ASSUME Inv, [Next]_vars PROVE Goal
        BY DEF vars
    <2>1. root = "none" /\ root' # "none" => Create
        BY DEF Next, CheckStep, vars, Inv, ProcInv, Assign, Resume, RootEnded, Drained,
               TimesOut, Packages, Origin, Registered, Stage, Unpack, Verify, Copy, Recheck,
               Compare, Returned, Failed, Summary, CleanupNothing, Registry, Work, Report,
               Interrupt, Killed, InstallerWorks, UninstallerWorks, RootForks, RootExits,
               ChildEnds
    <2>2. Create => child = "none" /\ (step = "install" => registration = "none")
        BY DEF Create, Inv, ProcInv, KeyInv
    <2>3. registration = "user" => registration' = registration
        BY DEF Next, CheckStep, vars, Inv, ProcInv, KeyInv, Create, Assign, Resume, RootEnded,
               Drained, TimesOut, Packages, Origin, Registered, Stage, Unpack, Verify, Copy,
               Recheck, Compare, Returned, Failed, Summary, CleanupNothing, Registry, Work,
               Report, Interrupt, Killed, InstallerWorks, UninstallerWorks, RootForks,
               RootExits, ChildEnds, Works
    <2> QED
        BY <2>1, <2>2, <2>3
<1> QED
    BY <1>1, Inductive, PTL DEF Spec, KeptApart

(***************************************************************************)
(* What is left of the check                                               *)
(***************************************************************************)

\* The steps of run_checks still ahead; installing and verifying come twice.
Ahead ==
    CASE step = "begin" -> 20
      [] step = "origin" -> 19
      [] step = "registered" -> 18
      [] step = "stage" -> 17
      [] step = "unpack" -> 16
      [] step = "install" -> IF variant = "baseline" THEN 15 ELSE 10
      [] step = "verify" -> IF variant = "baseline" THEN 14 ELSE 9
      [] step = "copy" -> 13
      [] step = "uninstall" -> 12
      [] step = "recheck" -> 11
      [] step = "compare" -> 8
      [] step = "calibrate" -> 7
      [] step = "round" -> 6
      [] step = "summary" -> 5
      [] step = "cleanup" -> 4
      [] step = "registry" -> 3
      [] step = "work" -> 2
      [] step = "report" -> 1
      [] OTHER -> 0

\* The steps of run_native still ahead.
Waits ==
    CASE native = "idle" -> 5
      [] native = "created" -> 4
      [] native = "assigned" -> 3
      [] native = "root_wait" -> 2
      [] native = "job_drain" -> 1
      [] OTHER -> 0

Left == <<Ahead, Samples - round, 3 - turn, Waits>>

Ranks == Nat \X Nat \X Nat \X Nat

Less(a, b) ==
    \/ a[1] < b[1]
    \/ a[1] = b[1] /\ a[2] < b[2]
    \/ a[1] = b[1] /\ a[2] = b[2] /\ a[3] < b[3]
    \/ a[1] = b[1] /\ a[2] = b[2] /\ a[3] = b[3] /\ a[4] < b[4]

\* Steps of the program, and what ends it from outside.
Acts == CheckStep \/ Interrupt \/ Killed

LEMMA LeftIsRank == TypeOK => Left \in Ranks
<1> SUFFICES ASSUME TypeOK PROVE Left \in Ranks
    OBVIOUS
<1>1. Samples - round \in Nat /\ 3 - turn \in Nat
    BY DEF TypeOK
<1>2. Ahead \in Nat
    BY DEF Ahead
<1>3. Waits \in Nat
    BY DEF Waits
<1> QED
    BY <1>1, <1>2, <1>3 DEF Left, Ranks

\* Every one of them leaves less to do.
LEMMA ActsCloser ==
    ASSUME TypeOK, ProcInv, Acts
    PROVE  Less(Left', Left)
<1> USE DEF TypeOK, ProcInv, Installs
<1>t. round \in Nat /\ turn \in Nat /\ Samples \in Nat
    OBVIOUS
<1>a. Ahead' < Ahead => Less(Left', Left)
    BY DEF Less, Left
<1>w. UNCHANGED <<Ahead, round, turn>> /\ Waits' < Waits => Less(Left', Left)
    BY DEF Less, Left
<1>1. CASE Packages
    <2>1. Ahead' < Ahead
        BY <1>1 DEF Packages, Ahead
    <2> QED
        BY <1>a, <2>1
<1>2. CASE Origin
    <2>1. Ahead' < Ahead
        BY <1>2 DEF Origin, Ahead
    <2> QED
        BY <1>a, <2>1
<1>3. CASE Registered
    <2>1. Ahead' < Ahead
        BY <1>3 DEF Registered, Ahead
    <2> QED
        BY <1>a, <2>1
<1>4. CASE Stage
    <2>1. Ahead' < Ahead
        BY <1>4 DEF Stage, Ahead
    <2> QED
        BY <1>a, <2>1
<1>5. CASE Unpack
    <2>1. Ahead' < Ahead
        BY <1>5 DEF Unpack, Ahead
    <2> QED
        BY <1>a, <2>1
<1>6. CASE Verify
    <2>1. Ahead' < Ahead
        BY <1>6 DEF Verify, Ahead
    <2> QED
        BY <1>a, <2>1
<1>7. CASE Copy
    <2>1. Ahead' < Ahead
        BY <1>7 DEF Copy, Ahead
    <2> QED
        BY <1>a, <2>1
<1>8. CASE Recheck
    <2>1. Ahead' < Ahead
        BY <1>8 DEF Recheck, Ahead
    <2> QED
        BY <1>a, <2>1
<1>9. CASE Compare
    <2>1. Ahead' < Ahead
        BY <1>9 DEF Compare, Ahead
    <2> QED
        BY <1>a, <2>1
<1>10. CASE Failed
    <2>1. Ahead' < Ahead
        BY <1>10 DEF Failed, Ahead, Native
    <2> QED
        BY <1>a, <2>1
<1>11. CASE Summary
    <2>1. Ahead' < Ahead
        BY <1>11 DEF Summary, Ahead
    <2> QED
        BY <1>a, <2>1
<1>12. CASE CleanupNothing
    <2>1. Ahead' < Ahead
        BY <1>12 DEF CleanupNothing, Ahead
    <2> QED
        BY <1>a, <2>1
<1>13. CASE Registry
    <2>1. Ahead' < Ahead
        BY <1>13 DEF Registry, Ahead
    <2> QED
        BY <1>a, <2>1
<1>14. CASE Work
    <2>1. Ahead' < Ahead
        BY <1>14 DEF Work, Ahead
    <2> QED
        BY <1>a, <2>1
<1>15. CASE Report
    <2>1. Ahead' < Ahead
        BY <1>15 DEF Report, Ahead
    <2> QED
        BY <1>a, <2>1
<1>16. CASE Interrupt
    <2>1. Ahead' < Ahead
        BY <1>16 DEF Interrupt, Ahead, Over, Native
    <2> QED
        BY <1>a, <2>1
<1>17. CASE Killed
    <2>1. Ahead' < Ahead
        BY <1>17 DEF Killed, Ahead, Over, Native
    <2> QED
        BY <1>a, <2>1
<1>18. CASE Create
    <2>1. UNCHANGED <<step, variant, round, turn>>
        BY <1>18 DEF Create
    <2>2. Waits' < Waits
        BY <1>18 DEF Create, Waits
    <2>3. UNCHANGED Ahead
        BY <2>1 DEF Ahead
    <2> QED
        BY <1>w, <2>1, <2>2, <2>3
<1>19. CASE Assign
    <2>1. UNCHANGED <<step, variant, round, turn>>
        BY <1>19 DEF Assign
    <2>2. Waits' < Waits
        BY <1>19 DEF Assign, Waits
    <2>3. UNCHANGED Ahead
        BY <2>1 DEF Ahead
    <2> QED
        BY <1>w, <2>1, <2>2, <2>3
<1>20. CASE Resume
    <2>1. UNCHANGED <<step, variant, round, turn>>
        BY <1>20 DEF Resume
    <2>2. Waits' < Waits
        BY <1>20 DEF Resume, Waits
    <2>3. UNCHANGED Ahead
        BY <2>1 DEF Ahead
    <2> QED
        BY <1>w, <2>1, <2>2, <2>3
<1>21. CASE RootEnded
    <2>1. UNCHANGED <<step, variant, round, turn>>
        BY <1>21 DEF RootEnded
    <2>2. Waits' < Waits
        BY <1>21 DEF RootEnded, Waits
    <2>3. UNCHANGED Ahead
        BY <2>1 DEF Ahead
    <2> QED
        BY <1>w, <2>1, <2>2, <2>3
<1>22. CASE Drained
    <2>1. UNCHANGED <<step, variant, round, turn>>
        BY <1>22 DEF Drained
    <2>2. Waits' < Waits
        BY <1>22 DEF Drained, Waits
    <2>3. UNCHANGED Ahead
        BY <2>1 DEF Ahead
    <2> QED
        BY <1>w, <2>1, <2>2, <2>3
<1>23. CASE TimesOut
    <2>1. UNCHANGED <<step, variant, round, turn>>
        BY <1>23 DEF TimesOut
    <2>2. Waits' < Waits
        BY <1>23 DEF TimesOut, Waits
    <2>3. UNCHANGED Ahead
        BY <2>1 DEF Ahead
    <2> QED
        BY <1>w, <2>1, <2>2, <2>3
<1>24. CASE Returned
    <2>1. CASE step = "round" /\ Measure /\ step' = step
        <3>1. Ahead' = Ahead
            BY <2>1 DEF Ahead
        <3>2. \/ turn' = turn + 1 /\ round' = round
              \/ round' = round + 1
            BY <2>1 DEF Measure
        <3> QED
            BY <1>t, <3>1, <3>2 DEF Less, Left
    <2>2. CASE ~(step = "round" /\ Measure /\ step' = step)
        <3>1. Ahead' < Ahead
            BY <1>24, <2>2 DEF Returned, Measure, After, Ahead, Native
        <3> QED
            BY <1>a, <3>1
    <2> QED
        BY <2>1, <2>2
<1> QED
    BY <1>1, <1>2, <1>3, <1>4, <1>5, <1>6, <1>7, <1>8, <1>9, <1>10, <1>11, <1>12, <1>13,
       <1>14, <1>15, <1>16, <1>17, <1>18, <1>19, <1>20, <1>21, <1>22, <1>23, <1>24
       DEF Acts, CheckStep

\* The check runs down: every step of the program, an interrupt or its failures included,
\* brings it closer to its end in a well-founded order, and nothing that an installer, an
\* uninstaller's second process or a browser does sets it back.  The rounds, run_native's
\* waits and the finally block end for every number of samples and faults.
THEOREM RunsDown ==
    Spec => /\ [](Left \in Ranks)
            /\ [][IF Acts THEN Less(Left', Left) ELSE Left' = Left]_vars
<1>1. Inv => Left \in Ranks
    BY LeftIsRank DEF Inv
<1>2. ASSUME [Next]_vars, ~Acts
      PROVE  Left' = Left
    <2>1. UNCHANGED <<step, variant, round, turn, native>>
        BY <1>2 DEF Acts, Next, vars, InstallerWorks, UninstallerWorks, RootForks, RootExits,
                    ChildEnds
    <2> QED
        BY <2>1 DEF Left, Ahead, Waits
<1>3. Inv /\ [Next]_vars => [IF Acts THEN Less(Left', Left) ELSE Left' = Left]_vars
    BY <1>2, ActsCloser DEF Inv
<1> QED
    BY <1>1, <1>3, Inductive, PTL DEF Spec
=============================================================================
