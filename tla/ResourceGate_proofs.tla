------------------------- MODULE ResourceGate_proofs -------------------------
(***************************************************************************)
(* What the resource policy of a build promises for every number of        *)
(* changes under the gate and of faults.                                   *)
(***************************************************************************)
EXTENDS ResourceGate, TLAPS

USE GateAssumption DEF GateAssumption
USE DEF Fault, callVars, worldVars, recordVars, baseVars

(***************************************************************************)
(* The order of the phases                                                 *)
(***************************************************************************)

Ordered == {Order[i] : i \in 1..Len(Order)}

\* The three sequences.
LEMMA Length == Len(Order) = 22 /\ Len(Cases) = 3 /\ Len(Calls) = 2
BY DEF Order, Cases, Calls

\* No phase stands twice in the order.
LEMMA Distinct == \A i, j \in 1..22 : Order[i] = Order[j] => i = j
BY DEF Order

\* Position finds a phase.
LEMMA Found ==
    /\ \A p \in Ordered : Position(p) \in 1..22 /\ Order[Position(p)] = p
    /\ \A i \in 1..22 : Position(Order[i]) = i
<1>1. \A p \in Ordered : Position(p) \in 1..22 /\ Order[Position(p)] = p
    BY Length DEF Position, Ordered
<1>2. \A i \in 1..22 : Position(Order[i]) = i
    BY <1>1, Length, Distinct DEF Ordered
<1> QED
    BY <1>1, <1>2

\* The positions of all phases.
LEMMA Positions ==
    /\ Position("preflight") = 1 /\ Position("inputs_before") = 2
    /\ Position("source_before") = 3 /\ Position("registries_before") = 4
    /\ Position("archives_before") = 5 /\ Position("inventory_before") = 6
    /\ Position("case_native") = 7 /\ Position("case_selected_inputs") = 8
    /\ Position("case_inventory") = 9 /\ Position("case_source") = 10
    /\ Position("case_comparison") = 11 /\ Position("archives_after") = 12
    /\ Position("inputs_after") = 13 /\ Position("registries_after") = 14
    /\ Position("source_after") = 15 /\ Position("selected_inputs_after") = 16
    /\ Position("inventory_after") = 17 /\ Position("parent_after") = 18
    /\ Position("final_report") = 19 /\ Position("finish") = 20
    /\ Position("publish") = 21 /\ Position("published") = 22
BY Found DEF Order

\* The phases outside of the order.
LEMMA OrderedPhases == Phases = Ordered \cup {"begin", "failing", "verified", "failed"}
BY DEF Phases, Ordered, Over

\* The order by name.
LEMMA Listed ==
    {"preflight", "inputs_before", "source_before", "registries_before", "archives_before",
     "inventory_before", "case_native", "case_selected_inputs", "case_inventory", "case_source",
     "case_comparison", "archives_after", "inputs_after", "registries_after", "source_after",
     "selected_inputs_after", "inventory_after", "parent_after", "final_report", "finish",
     "publish", "published"} = Ordered
BY Length DEF Ordered, Order

\* What Advance(TRUE) does: on to the next phase or to the next case.
Follows ==
    /\ phase = "preflight" => phase' = "inputs_before"
    /\ phase = "inputs_before" => phase' = "source_before"
    /\ phase = "source_before" => phase' = "registries_before"
    /\ phase = "registries_before" => phase' = "archives_before"
    /\ phase = "archives_before" => phase' = "inventory_before"
    /\ phase = "inventory_before" => phase' = "case_native"
    /\ phase = "case_native" => phase' = "case_selected_inputs"
    /\ phase = "case_selected_inputs" => phase' = "case_inventory"
    /\ phase = "case_inventory" => phase' = "case_source"
    /\ phase = "case_source" => phase' = "case_comparison"
    /\ phase = "case_comparison" => phase' = "archives_after"
    /\ phase = "archives_after" => phase' = "inputs_after"
    /\ phase = "inputs_after" => phase' = "registries_after"
    /\ phase = "registries_after" => phase' = "source_after"
    /\ phase = "source_after" => phase' = "selected_inputs_after"
    /\ phase = "selected_inputs_after" => phase' = "inventory_after"
    /\ phase = "inventory_after" => phase' = "parent_after"
    /\ phase = "parent_after" => phase' = "final_report"
    /\ phase = "final_report" => phase' = "finish"
    /\ phase = "finish" => phase' = "publish"
    /\ phase = "publish" => phase' = "published"

Moves ==
    \/ Follows /\ (phase = "case_comparison" => case >= 3) /\ UNCHANGED case
    \/ phase = "case_comparison" /\ case < 3 /\ phase' = "case_native" /\ case' = case + 1

\* The table of successors.
LEMMA Following ==
    ASSUME phase \in Ordered, phase' = Order[Position(phase) + 1]
    PROVE  Follows
BY Positions DEF Order, Follows

\* An unrefused phase moves on.
LEMMA Forward ==
    ASSUME TypeOK, phase \in Ordered, phase # "published", Advance(TRUE)
    PROVE  Moves
<1>1. case \in 1..3
    BY Length DEF TypeOK
<1>2. CASE phase = "case_comparison" /\ case < 3
    BY <1>2, Length DEF Advance, Moves
<1>3. CASE ~(phase = "case_comparison" /\ case < 3)
    BY <1>1, <1>3, Length, Following DEF Advance, Moves
<1> QED
    BY <1>2, <1>3

\* The actions that end a phase.
Advancing ==
    \/ Preflight \/ LoadInputs \/ SourceRecords \/ RegistryRecords \/ ArchiveRecords \/ Inventory
    \/ Collect \/ ExpireCall \/ SelectedInputs \/ CheckAgain \/ Compare \/ ParentAfter
    \/ FinalReport \/ Finish \/ Publish

Ends ==
    /\ phase \in Ordered /\ phase # "published"
    /\ \/ phase' = "failing" /\ UNCHANGED case
       \/ Moves
       \/ UNCHANGED <<phase, case>>

\* Each of them ends its phase, fails, or is the first call of a case.
LEMMA AdvanceStep == TypeOK /\ Advancing => Ends
<1> SUFFICES ASSUME TypeOK, Advancing PROVE Ends
    OBVIOUS
<1> DEFINE Stays == UNCHANGED <<phase, case>>
           Fails == phase' = "failing" /\ UNCHANGED case
<1>1. CASE Preflight
    <2>1. phase \in Ordered /\ phase # "published"
        BY <1>1, Listed DEF Preflight
    <2>2. Fails \/ Advance(TRUE) \/ Stays
        BY <1>1 DEF Preflight, Advance
    <2> QED
        BY <2>1, <2>2, Forward DEF Ends
<1>2. CASE LoadInputs
    <2>1. phase \in Ordered /\ phase # "published"
        BY <1>2, Listed DEF LoadInputs, Read
    <2>2. Fails \/ Advance(TRUE) \/ Stays
        BY <1>2 DEF LoadInputs, Read, Advance
    <2> QED
        BY <2>1, <2>2, Forward DEF Ends
<1>3. CASE SourceRecords
    <2>1. phase \in Ordered /\ phase # "published"
        BY <1>3, Listed DEF SourceRecords, Read
    <2>2. Fails \/ Advance(TRUE) \/ Stays
        BY <1>3 DEF SourceRecords, Read, Advance
    <2> QED
        BY <2>1, <2>2, Forward DEF Ends
<1>4. CASE RegistryRecords
    <2>1. phase \in Ordered /\ phase # "published"
        BY <1>4, Listed DEF RegistryRecords, Read
    <2>2. Fails \/ Advance(TRUE) \/ Stays
        BY <1>4 DEF RegistryRecords, Read, Advance
    <2> QED
        BY <2>1, <2>2, Forward DEF Ends
<1>5. CASE ArchiveRecords
    <2>1. phase \in Ordered /\ phase # "published"
        BY <1>5, Listed DEF ArchiveRecords, Read
    <2>2. Fails \/ Advance(TRUE) \/ Stays
        BY <1>5 DEF ArchiveRecords, Read, Advance
    <2> QED
        BY <2>1, <2>2, Forward DEF Ends
<1>6. CASE Inventory
    <2>1. phase \in Ordered /\ phase # "published"
        BY <1>6, Listed DEF Inventory, Read
    <2>2. Fails \/ Advance(TRUE) \/ Stays
        BY <1>6 DEF Inventory, Read, Advance
    <2> QED
        BY <2>1, <2>2, Forward DEF Ends
<1>7. CASE Collect
    <2>1. phase \in Ordered /\ phase # "published"
        BY <1>7, Listed DEF Collect
    <2>2. Fails \/ Advance(TRUE) \/ Stays
        BY <1>7 DEF Collect, Advance
    <2> QED
        BY <2>1, <2>2, Forward DEF Ends
<1>8. CASE ExpireCall
    <2>1. phase \in Ordered /\ phase # "published"
        BY <1>8, Listed DEF ExpireCall
    <2>2. Fails \/ Advance(TRUE) \/ Stays
        BY <1>8 DEF ExpireCall, Advance
    <2> QED
        BY <2>1, <2>2, Forward DEF Ends
<1>9. CASE SelectedInputs
    <2>1. phase \in Ordered /\ phase # "published"
        BY <1>9, Listed DEF SelectedInputs
    <2>2. Fails \/ Advance(TRUE) \/ Stays
        BY <1>9 DEF SelectedInputs, Advance
    <2> QED
        BY <2>1, <2>2, Forward DEF Ends
<1>10. CASE CheckAgain
    <2>1. phase \in Ordered /\ phase # "published"
        BY <1>10, Listed DEF CheckAgain, Check
    <2>2. Fails \/ Advance(TRUE) \/ Stays
        BY <1>10 DEF CheckAgain, Check, Advance
    <2> QED
        BY <2>1, <2>2, Forward DEF Ends
<1>11. CASE Compare
    <2>1. phase \in Ordered /\ phase # "published"
        BY <1>11, Listed DEF Compare
    <2>2. Fails \/ Advance(TRUE) \/ Stays
        BY <1>11 DEF Compare, Advance
    <2> QED
        BY <2>1, <2>2, Forward DEF Ends
<1>12. CASE ParentAfter
    <2>1. phase \in Ordered /\ phase # "published"
        BY <1>12, Listed DEF ParentAfter
    <2>2. Fails \/ Advance(TRUE) \/ Stays
        BY <1>12 DEF ParentAfter, Advance
    <2> QED
        BY <2>1, <2>2, Forward DEF Ends
<1>13. CASE FinalReport
    <2>1. phase \in Ordered /\ phase # "published"
        BY <1>13, Listed DEF FinalReport
    <2>2. Fails \/ Advance(TRUE) \/ Stays
        BY <1>13 DEF FinalReport, Advance
    <2> QED
        BY <2>1, <2>2, Forward DEF Ends
<1>14. CASE Finish
    <2>1. phase \in Ordered /\ phase # "published"
        BY <1>14, Listed DEF Finish
    <2>2. Fails \/ Advance(TRUE) \/ Stays
        BY <1>14 DEF Finish, Advance
    <2> QED
        BY <2>1, <2>2, Forward DEF Ends
<1>15. CASE Publish
    <2>1. phase \in Ordered /\ phase # "published"
        BY <1>15, Listed DEF Publish
    <2>2. Fails \/ Advance(TRUE) \/ Stays
        BY <1>15 DEF Publish, Advance
    <2> QED
        BY <2>1, <2>2, Forward DEF Ends
<1> QED
    BY <1>1, <1>2, <1>3, <1>4, <1>5, <1>6, <1>7, <1>8, <1>9, <1>10, <1>11, <1>12,
       <1>13, <1>14, <1>15 DEF Advancing

(***************************************************************************)
(* The processes of a native call                                          *)
(***************************************************************************)

\* Outside of a call no process of one is left, unless the gate has failed.
ProcInv ==
    phase \notin {"case_native", "failing", "failed"} => leader = "none" /\ helper = "none"

\* Only a native call has processes, and its end takes them along.
LEMMA ProcStep == ProcInv /\ [Next]_vars => ProcInv'
<1> SUFFICES ASSUME ProcInv, [Next]_vars PROVE ProcInv'
    OBVIOUS
<1> USE DEF ProcInv, KillGroup
<1>1. CASE Begin
    BY <1>1 DEF Begin
<1>2. CASE Preflight
    BY <1>2 DEF Preflight
<1>3. CASE LoadInputs
    BY <1>3 DEF LoadInputs, Read
<1>4. CASE SourceRecords
    BY <1>4 DEF SourceRecords, Read
<1>5. CASE RegistryRecords
    BY <1>5 DEF RegistryRecords, Read
<1>6. CASE ArchiveRecords
    BY <1>6 DEF ArchiveRecords, Read
<1>7. CASE Inventory
    BY <1>7 DEF Inventory, Read
<1>8. CASE Launch
    BY <1>8 DEF Launch
<1>9. CASE Collect
    BY <1>9 DEF Collect
<1>10. CASE ExpireCall
    BY <1>10 DEF ExpireCall, Advance
<1>11. CASE SelectedInputs
    BY <1>11 DEF SelectedInputs
<1>12. CASE CheckAgain
    BY <1>12 DEF CheckAgain, Check
<1>13. CASE Compare
    BY <1>13 DEF Compare
<1>14. CASE ParentAfter
    BY <1>14 DEF ParentAfter
<1>15. CASE FinalReport
    BY <1>15 DEF FinalReport
<1>16. CASE Finish
    BY <1>16 DEF Finish
<1>17. CASE Publish
    BY <1>17 DEF Publish
<1>18. CASE ExitVerified
    BY <1>18 DEF ExitVerified
<1>19. CASE Expire
    BY <1>19 DEF Expire
<1>20. CASE Fail
    BY <1>20 DEF Fail
<1>21. CASE Admit
    BY <1>21 DEF Admit
<1>22. CASE Execute
    BY <1>22 DEF Execute
<1>23. CASE WriteFails
    BY <1>23 DEF WriteFails
<1>24. CASE Cancel
    BY <1>24 DEF Cancel
<1>25. CASE LeaderForks
    BY <1>25 DEF LeaderForks
<1>26. CASE LeaderExits
    BY <1>26 DEF LeaderExits
<1>27. CASE HelperMoves
    BY <1>27 DEF HelperMoves
<1>28. CASE CpusChange
    BY <1>28 DEF CpusChange
<1>29. ASSUME NEW f \in Facets, Change(f) PROVE ProcInv'
    BY <1>29 DEF Change
<1>30. CASE UNCHANGED vars
    BY <1>30 DEF vars
<1> QED
    BY <1>1, <1>2, <1>3, <1>4, <1>5, <1>6, <1>7, <1>8, <1>9, <1>10, <1>11, <1>12,
       <1>13, <1>14, <1>15, <1>16, <1>17, <1>18, <1>19, <1>20, <1>21, <1>22, <1>23,
       <1>24, <1>25, <1>26, <1>27, <1>28, <1>29, <1>30 DEF Next, GateStep

(***************************************************************************)
(* Types                                                                   *)
(***************************************************************************)

\* The end of a phase keeps the types.
LEMMA PhaseType ==
    ASSUME TypeOK, Ends
    PROVE  phase' \in Phases /\ case' \in 1..Len(Cases)
<1> USE OrderedPhases, Listed, Length DEF TypeOK
<1>1. CASE phase' = "failing" /\ UNCHANGED case
    BY <1>1
<1>2. CASE Moves
    BY <1>2 DEF Moves, Follows, Ends
<1>3. CASE UNCHANGED <<phase, case>>
    BY <1>3
<1> QED
    BY <1>1, <1>2, <1>3 DEF Ends

\* What is recorded is a version that the facet has had.
LEMMA ReadType ==
    ASSUME TypeOK, NEW f \in Facets, Read(f)
    PROVE  recorded' \in [Facets -> Unread..(MaxChanges + 1)]
<1>1. recorded' = [recorded EXCEPT ![f] = world[f]]
    BY DEF Read
<1>2. world[f] \in Unread..(MaxChanges + 1)
    BY DEF TypeOK, Unread
<1>3. recorded \in [Facets -> Unread..(MaxChanges + 1)]
    BY DEF TypeOK
<1> QED
    BY <1>1, <1>2, <1>3

\* Every change is counted.
TypeInv == TypeOK /\ \A f \in Facets : world[f] <= changes + 1

\* All steps keep the types.
LEMMA TypeStep == TypeInv /\ [Next]_vars => TypeInv'
<1> SUFFICES ASSUME TypeInv, [Next]_vars PROVE TypeInv'
    OBVIOUS
<1>0. TypeOK /\ (Advancing => phase' \in Phases /\ case' \in 1..Len(Cases))
    BY AdvanceStep, PhaseType DEF TypeInv
<1> HIDE DEF Facets
<1>1. CASE Begin
    BY <1>0, <1>1, OrderedPhases, Listed, Length DEF Begin, TypeInv, TypeOK, Over
<1>2. CASE Preflight
    BY <1>0, <1>2 DEF Preflight, Advancing, TypeInv, TypeOK
<1>3. CASE LoadInputs
    <2>1. recorded' \in [Facets -> Unread..(MaxChanges + 1)]
        BY <1>0, <1>3, ReadType DEF LoadInputs, Facets
    <2> QED
        BY <1>0, <1>3, <2>1 DEF LoadInputs, Read, Advancing, TypeInv, TypeOK
<1>4. CASE SourceRecords
    <2>1. recorded' \in [Facets -> Unread..(MaxChanges + 1)]
        BY <1>0, <1>4, ReadType DEF SourceRecords, Facets
    <2> QED
        BY <1>0, <1>4, <2>1 DEF SourceRecords, Read, Advancing, TypeInv, TypeOK
<1>5. CASE RegistryRecords
    <2>1. recorded' \in [Facets -> Unread..(MaxChanges + 1)]
        BY <1>0, <1>5, ReadType DEF RegistryRecords, Facets
    <2> QED
        BY <1>0, <1>5, <2>1 DEF RegistryRecords, Read, Advancing, TypeInv, TypeOK
<1>6. CASE ArchiveRecords
    <2>1. recorded' \in [Facets -> Unread..(MaxChanges + 1)]
        BY <1>0, <1>6, ReadType DEF ArchiveRecords, Facets
    <2> QED
        BY <1>0, <1>6, <2>1 DEF ArchiveRecords, Read, Advancing, TypeInv, TypeOK
<1>7. CASE Inventory
    <2>1. recorded' \in [Facets -> Unread..(MaxChanges + 1)]
        BY <1>0, <1>7, ReadType DEF Inventory, Facets
    <2> QED
        BY <1>0, <1>7, <2>1 DEF Inventory, Read, Advancing, TypeInv, TypeOK
<1>8. CASE Launch
    BY <1>0, <1>8, OrderedPhases, Listed, Length DEF Launch, TypeInv, TypeOK, Over
<1>9. CASE Collect
    <2> DEFINE Answers == [1..Len(Cases) -> [names : 0..Len(Cases), render : 0..Len(Cases)]]
    <2>1. case \in 0..Len(Cases) /\ case \in 1..Len(Cases) /\ cache \in 0..Len(Cases)
        BY Length DEF TypeInv, TypeOK
    <2>2. cache' \in 0..Len(Cases) /\ answers' \in Answers
        <3>1. CASE Answer /\ Calls[call] = "names"
            <4>1. cache' \in 0..Len(Cases)
                BY <2>1, <3>1 DEF Answer
            <4>2. answers' = [answers EXCEPT ![case].names = cache']
                BY <3>1 DEF Answer
            <4> QED
                BY <2>1, <4>1, <4>2 DEF TypeInv, TypeOK
        <3>2. CASE Answer /\ Calls[call] # "names"
            <4>1. answers' = [answers EXCEPT ![case].render = case] /\ UNCHANGED cache
                BY <3>2 DEF Answer
            <4> QED
                BY <2>1, <4>1 DEF TypeInv, TypeOK
        <3>3. CASE UNCHANGED <<answers, cache>>
            BY <3>3 DEF TypeInv, TypeOK
        <3> QED
            BY <1>9, <3>1, <3>2, <3>3 DEF Collect
    <2>3. call' \in 1..Len(Calls)
        <3>1. call' \in {call, 1} \/ (call < Len(Calls) /\ call' = call + 1)
            BY <1>9, Zenon DEF Collect
        <3> QED
            BY <3>1, Length DEF TypeInv, TypeOK
    <2>4. leader' = "none" /\ helper' = "none"
        BY <1>9 DEF Collect, KillGroup
    <2>5. UNCHANGED <<worldVars, baseVars, recordVars, policy, build, faults>>
        BY <1>9 DEF Collect
    <2>6. phase' \in Phases /\ case' \in 1..Len(Cases)
        BY <1>0, <1>9 DEF Advancing
    <2> QED
        BY <2>6, <2>2, <2>3, <2>4, <2>5 DEF TypeInv, TypeOK
<1>10. CASE ExpireCall
    <2>1. leader' \in {"none", "running", "zero", "nonzero"}
        BY <1>10 DEF ExpireCall, KillGroup, TypeInv, TypeOK
    <2>2. helper' \in {"none", "holds", "quiet"}
        BY <1>10 DEF ExpireCall, KillGroup, TypeInv, TypeOK
    <2>3. faults' \in 0..MaxFaults
        BY <1>10 DEF ExpireCall, KillGroup, TypeInv, TypeOK
    <2>4. phase' \in Phases /\ case' \in 1..Len(Cases)
        BY <1>0, <1>10 DEF Advancing
    <2>5. UNCHANGED <<call, answers, cache, worldVars, baseVars, recordVars, policy, build>>
        BY <1>10 DEF ExpireCall
    <2> QED
        BY <2>1, <2>2, <2>3, <2>4, <2>5 DEF TypeInv, TypeOK
<1>11. CASE SelectedInputs
    BY <1>0, <1>11 DEF SelectedInputs, Advancing, TypeInv, TypeOK
<1>12. CASE CheckAgain
    BY <1>0, <1>12 DEF CheckAgain, Advancing, TypeInv, TypeOK
<1>13. CASE Compare
    BY <1>0, <1>13 DEF Compare, Advancing, TypeInv, TypeOK
<1>14. CASE ParentAfter
    BY <1>0, <1>14 DEF ParentAfter, Advancing, TypeInv, TypeOK
<1>15. CASE FinalReport
    BY <1>0, <1>15 DEF FinalReport, Advancing, TypeInv, TypeOK
<1>16. CASE Finish
    BY <1>0, <1>16 DEF Finish, Advancing, TypeInv, TypeOK
<1>17. CASE Publish
    BY <1>0, <1>17 DEF Publish, Advancing, TypeInv, TypeOK
<1>18. CASE ExitVerified
    BY <1>0, <1>18, OrderedPhases, Listed, Length DEF ExitVerified, TypeInv, TypeOK, Over
<1>19. CASE Expire
    BY <1>0, <1>19, OrderedPhases, Listed, Length DEF Expire, TypeInv, TypeOK, Over
<1>20. CASE Fail
    BY <1>0, <1>20, OrderedPhases, Listed, Length DEF Fail, TypeInv, TypeOK, Over
<1>21. CASE Admit
    BY <1>0, <1>21, OrderedPhases, Listed, Length DEF Admit, TypeInv, TypeOK, Over
<1>22. CASE Execute
    BY <1>0, <1>22, OrderedPhases, Listed, Length DEF Execute, TypeInv, TypeOK, Over
<1>23. CASE WriteFails
    BY <1>0, <1>23, OrderedPhases, Listed, Length DEF WriteFails, TypeInv, TypeOK, Over
<1>24. CASE Cancel
    <2>1. leader' \in {leader, "none"} /\ helper' \in {helper, "none"}
        BY <1>24 DEF Cancel, KillGroup
    <2>2. faults' \in 0..MaxFaults
        BY <1>24 DEF Cancel, TypeInv, TypeOK
    <2> QED
        BY <1>0, <1>24, <2>1, <2>2, OrderedPhases DEF Cancel, TypeInv, TypeOK
<1>25. CASE LeaderForks
    BY <1>0, <1>25, OrderedPhases, Listed, Length DEF LeaderForks, TypeInv, TypeOK, Over
<1>26. CASE LeaderExits
    BY <1>0, <1>26, OrderedPhases, Listed, Length DEF LeaderExits, TypeInv, TypeOK, Over
<1>27. CASE HelperMoves
    BY <1>0, <1>27, OrderedPhases, Listed, Length DEF HelperMoves, TypeInv, TypeOK, Over
<1>28. CASE CpusChange
    BY <1>0, <1>28, OrderedPhases, Listed, Length DEF CpusChange, TypeInv, TypeOK, Over
<1>29. ASSUME NEW f \in Facets, Change(f) PROVE TypeInv'
    BY <1>0, <1>29, OrderedPhases, Listed, Length DEF Change, TypeInv, TypeOK, Over
<1>30. CASE UNCHANGED vars
    BY <1>30 DEF vars, TypeInv, TypeOK
<1> QED
    BY <1>1, <1>2, <1>3, <1>4, <1>5, <1>6, <1>7, <1>8, <1>9, <1>10, <1>11, <1>12,
       <1>13, <1>14, <1>15, <1>16, <1>17, <1>18, <1>19, <1>20, <1>21, <1>22, <1>23,
       <1>24, <1>25, <1>26, <1>27, <1>28, <1>29, <1>30 DEF Next, GateStep

(***************************************************************************)
(* The records                                                             *)
(***************************************************************************)

\* Both records are complete before the policy.
RecordInv ==
    /\ phase \in {"finish", "publish", "published"} => report = "verified-metadata-only"
    /\ phase \in {"publish", "published"} => trace = "finished"

\* The records are completed in this order.
LEMMA RecordStep == TypeOK /\ RecordInv /\ [Next]_vars => RecordInv'
<1> SUFFICES ASSUME TypeOK, RecordInv, [Next]_vars PROVE RecordInv'
    OBVIOUS
<1>0. Advancing => Ends
    BY AdvanceStep
<1> USE DEF RecordInv, Ends, Moves, Follows, Over
<1>1. CASE Begin
    BY <1>0, <1>1 DEF Begin
<1>2. CASE Preflight
    BY <1>0, <1>2 DEF Preflight, Advancing
<1>3. CASE LoadInputs
    BY <1>0, <1>3 DEF LoadInputs, Advancing, Read
<1>4. CASE SourceRecords
    BY <1>0, <1>4 DEF SourceRecords, Advancing, Read
<1>5. CASE RegistryRecords
    BY <1>0, <1>5 DEF RegistryRecords, Advancing, Read
<1>6. CASE ArchiveRecords
    BY <1>0, <1>6 DEF ArchiveRecords, Advancing, Read
<1>7. CASE Inventory
    BY <1>0, <1>7 DEF Inventory, Advancing, Read
<1>8. CASE Launch
    BY <1>0, <1>8 DEF Launch
<1>9. CASE Collect
    BY <1>0, <1>9 DEF Collect, Advancing
<1>10. CASE ExpireCall
    BY <1>0, <1>10 DEF ExpireCall, Advancing
<1>11. CASE SelectedInputs
    BY <1>0, <1>11 DEF SelectedInputs, Advancing
<1>12. CASE CheckAgain
    BY <1>0, <1>12 DEF CheckAgain, Advancing, Check
<1>13. CASE Compare
    BY <1>0, <1>13 DEF Compare, Advancing
<1>14. CASE ParentAfter
    BY <1>0, <1>14 DEF ParentAfter, Advancing
<1>15. CASE FinalReport
    BY <1>0, <1>15 DEF FinalReport, Advancing
<1>16. CASE Finish
    BY <1>0, <1>16 DEF Finish, Advancing
<1>17. CASE Publish
    BY <1>0, <1>17 DEF Publish, Advancing
<1>18. CASE ExitVerified
    BY <1>0, <1>18 DEF ExitVerified
<1>19. CASE Expire
    BY <1>0, <1>19 DEF Expire
<1>20. CASE Fail
    BY <1>0, <1>20 DEF Fail
<1>21. CASE Admit
    BY <1>0, <1>21 DEF Admit
<1>22. CASE Execute
    BY <1>0, <1>22 DEF Execute
<1>23. CASE WriteFails
    BY <1>0, <1>23 DEF WriteFails
<1>24. CASE Cancel
    BY <1>0, <1>24 DEF Cancel
<1>25. CASE LeaderForks
    BY <1>0, <1>25 DEF LeaderForks
<1>26. CASE LeaderExits
    BY <1>0, <1>26 DEF LeaderExits
<1>27. CASE HelperMoves
    BY <1>0, <1>27 DEF HelperMoves
<1>28. CASE CpusChange
    BY <1>0, <1>28 DEF CpusChange
<1>29. ASSUME NEW f \in Facets, Change(f) PROVE RecordInv'
    BY <1>0, <1>29 DEF Change
<1>30. CASE UNCHANGED vars
    BY <1>0, <1>30 DEF vars
<1> QED
    BY <1>1, <1>2, <1>3, <1>4, <1>5, <1>6, <1>7, <1>8, <1>9, <1>10, <1>11, <1>12,
       <1>13, <1>14, <1>15, <1>16, <1>17, <1>18, <1>19, <1>20, <1>21, <1>22, <1>23,
       <1>24, <1>25, <1>26, <1>27, <1>28, <1>29, <1>30 DEF Next, GateStep

(***************************************************************************)
(* What was read before the cases                                          *)
(***************************************************************************)

Outer == {"begin", "failing", "verified", "failed"}

ToSource == {"preflight", "inputs_before", "source_before"}

ToArchives == ToSource \cup {"registries_before", "archives_before"}

ToCases == ToArchives \cup {"inventory_before"}

\* Versions only grow, and the pinned facets were recorded as pinned.
ReadInv ==
    /\ \A f \in Facets : recorded[f] <= world[f]
    /\ phase \notin Outer \cup ToSource => recorded["source"] = 0
    /\ phase \notin Outer \cup ToArchives => recorded["archives"] = 0

\* Every step keeps ReadInv.
LEMMA ReadStep == TypeOK /\ ReadInv /\ [Next]_vars => ReadInv'
<1> SUFFICES ASSUME TypeOK, ReadInv, [Next]_vars PROVE ReadInv'
    OBVIOUS
<1>0. Advancing => Ends
    BY AdvanceStep
<1> USE DEF ReadInv, Ends, Moves, Follows, Over, TypeOK, Outer, ToSource, ToArchives
<1>1. CASE Begin
    BY <1>0, <1>1 DEF Begin
<1>2. CASE Preflight
    BY <1>0, <1>2 DEF Preflight, Advancing
<1>3. CASE LoadInputs
    BY <1>0, <1>3 DEF LoadInputs, Advancing, Read
<1>4. CASE SourceRecords
    <2>1. phase' = "failing" \/ world["source"] = 0
        BY <1>4 DEF SourceRecords, Read, Accepted, Pinned, Advance
    <2> QED
        BY <1>0, <1>4, <2>1 DEF SourceRecords, Advancing, Read, Facets
<1>5. CASE RegistryRecords
    BY <1>0, <1>5 DEF RegistryRecords, Advancing, Read
<1>6. CASE ArchiveRecords
    <2>1. phase' = "failing" \/ world["archives"] = 0
        BY <1>6 DEF ArchiveRecords, Read, Accepted, Pinned, Advance
    <2> QED
        BY <1>0, <1>6, <2>1 DEF ArchiveRecords, Advancing, Read, Facets
<1>7. CASE Inventory
    BY <1>0, <1>7 DEF Inventory, Advancing, Read
<1>8. CASE Launch
    BY <1>0, <1>8 DEF Launch
<1>9. CASE Collect
    BY <1>0, <1>9 DEF Collect, Advancing
<1>10. CASE ExpireCall
    BY <1>0, <1>10 DEF ExpireCall, Advancing
<1>11. CASE SelectedInputs
    BY <1>0, <1>11 DEF SelectedInputs, Advancing
<1>12. CASE CheckAgain
    BY <1>0, <1>12 DEF CheckAgain, Advancing, Check
<1>13. CASE Compare
    BY <1>0, <1>13 DEF Compare, Advancing
<1>14. CASE ParentAfter
    BY <1>0, <1>14 DEF ParentAfter, Advancing
<1>15. CASE FinalReport
    BY <1>0, <1>15 DEF FinalReport, Advancing
<1>16. CASE Finish
    BY <1>0, <1>16 DEF Finish, Advancing
<1>17. CASE Publish
    BY <1>0, <1>17 DEF Publish, Advancing
<1>18. CASE ExitVerified
    BY <1>0, <1>18 DEF ExitVerified
<1>19. CASE Expire
    BY <1>0, <1>19 DEF Expire
<1>20. CASE Fail
    BY <1>0, <1>20 DEF Fail
<1>21. CASE Admit
    BY <1>0, <1>21 DEF Admit
<1>22. CASE Execute
    BY <1>0, <1>22 DEF Execute
<1>23. CASE WriteFails
    BY <1>0, <1>23 DEF WriteFails
<1>24. CASE Cancel
    BY <1>0, <1>24 DEF Cancel
<1>25. CASE LeaderForks
    BY <1>0, <1>25 DEF LeaderForks
<1>26. CASE LeaderExits
    BY <1>0, <1>26 DEF LeaderExits
<1>27. CASE HelperMoves
    BY <1>0, <1>27 DEF HelperMoves
<1>28. CASE CpusChange
    BY <1>0, <1>28 DEF CpusChange
<1>29. ASSUME NEW f \in Facets, Change(f) PROVE ReadInv'
    BY <1>0, <1>29 DEF Change
<1>30. CASE UNCHANGED vars
    BY <1>0, <1>30 DEF vars
<1> QED
    BY <1>1, <1>2, <1>3, <1>4, <1>5, <1>6, <1>7, <1>8, <1>9, <1>10, <1>11, <1>12,
       <1>13, <1>14, <1>15, <1>16, <1>17, <1>18, <1>19, <1>20, <1>21, <1>22, <1>23,
       <1>24, <1>25, <1>26, <1>27, <1>28, <1>29, <1>30 DEF Next, GateStep

(***************************************************************************)
(* The cases                                                               *)
(***************************************************************************)

InCase == {"case_selected_inputs", "case_inventory", "case_source", "case_comparison"}

\* Both calls of a case have answered, the render under the mask of that case.
Answered(c) == answers[c].render = c /\ answers[c].names # None

\* The cases run one after the other and each has its answers; the third is only reached
\* when the renders do not depend on the mask.
CaseInv ==
    /\ phase \in ToCases \cup {"begin"} => case = 1 /\ call = 1
    /\ phase \notin Outer =>
          /\ call # 1 => phase = "case_native" /\ answers[case].names # None
          /\ \A c \in 1..3 : c < case => Answered(c)
          /\ phase \notin ToCases \cup {"case_native"} => Answered(case)
          /\ phase \notin ToCases \cup InCase \cup {"case_native"} => case = 3
          /\ case = 3 => ~dependsOnCpus.render

caseVars == <<call, answers, dependsOnCpus>>

\* Steps beside the cases.
LEMMA CaseFrame == CaseInv /\ UNCHANGED <<phase, case, caseVars>> => CaseInv'
<1> SUFFICES ASSUME CaseInv, UNCHANGED <<phase, case, caseVars>> PROVE CaseInv'
    OBVIOUS
<1>1. phase' = phase /\ case' = case /\ call' = call /\ answers' = answers
      /\ dependsOnCpus' = dependsOnCpus
    BY DEF caseVars
<1>2. \A c \in 1..3 : Answered(c)' <=> Answered(c)
    BY <1>1 DEF Answered
<1> QED
    BY <1>1, <1>2, Zenon DEF CaseInv, Answered

\* Outside of the order CaseInv says nothing.
LEMMA CaseOuter == phase' \in Outer \ {"begin"} => CaseInv'
BY DEF CaseInv, Outer, ToCases, ToArchives, ToSource

\* Before and after the cases, and between their own phases, the answers stand.
LEMMA CaseMoves ==
    ASSUME TypeOK, CaseInv, phase \in Ordered, UNCHANGED caseVars,
           phase \notin {"case_native", "case_comparison", "published"},
           UNCHANGED case, Follows
    PROVE  CaseInv'
<1>1. call' = call /\ answers' = answers /\ dependsOnCpus' = dependsOnCpus
    BY DEF caseVars
<1>2. Answered(case)' <=> Answered(case)
    BY <1>1 DEF Answered
<1>3. \A c \in 1..3 : Answered(c)' <=> Answered(c)
    BY <1>1 DEF Answered
<1>4. phase \notin Outer
    BY Listed DEF Outer
<1> HIDE DEF Answered
<1>5. phase' \notin ToCases \cup {"case_native"} => phase \notin ToCases \cup {"case_native"}
    BY <1>4, Listed DEF Follows, ToCases, ToArchives, ToSource
<1>6. phase' \notin ToCases \cup InCase \cup {"case_native"} =>
          phase \notin ToCases \cup InCase \cup {"case_native"}
    BY <1>4, Listed DEF Follows, ToCases, ToArchives, ToSource, InCase
<1>7. phase' \in ToCases \cup {"begin"} => phase \in ToCases
    BY <1>4, Listed DEF Follows, ToCases, ToArchives, ToSource
<1>8. call' = 1
    BY <1>1, <1>4 DEF CaseInv
<1>9. case = 3 => ~dependsOnCpus'.render
    BY <1>1, <1>4 DEF CaseInv
<1> QED
    BY <1>2, <1>3, <1>4, <1>5, <1>6, <1>7, <1>8, <1>9 DEF CaseInv

\* The end of a phase that is no call and no comparison.
LEMMA CaseEnds ==
    ASSUME TypeOK, CaseInv, Ends, UNCHANGED caseVars,
           phase \notin {"case_native", "case_comparison"}
    PROVE  CaseInv'
<1>1. CASE phase' = "failing"
    BY <1>1, CaseOuter DEF Outer
<1>2. CASE Moves
    BY <1>2, CaseMoves DEF Moves, Ends
<1>3. CASE UNCHANGED <<phase, case>>
    BY <1>3, CaseFrame
<1> QED
    BY <1>1, <1>2, <1>3 DEF Ends

\* The names of a case are answered before its render, and the render ends the case.
LEMMA CaseCollect == TypeOK /\ CaseInv /\ Collect => CaseInv'
<1> SUFFICES ASSUME TypeOK, CaseInv, Collect PROVE CaseInv'
    OBVIOUS
<1>1. /\ phase = "case_native" /\ case \in 1..3 /\ call \in {1, 2} /\ phase \notin Outer
      /\ dependsOnCpus' = dependsOnCpus /\ cache \in 0..3
    BY Length DEF Collect, TypeOK, Outer
<1>2. CASE phase' = "failing"
    BY <1>2, CaseOuter DEF Outer
<1>3. CASE leader = "zero" /\ call = 1
    <2>1. /\ Answer /\ call' = 2 /\ UNCHANGED <<phase, case>>
        BY <1>3, Length DEF Collect
    <2>2. cache' # None /\ answers' = [answers EXCEPT ![case].names = cache']
        BY <1>1, <1>3, <2>1 DEF Answer, Calls, None
    <2>3. answers'[case].names # None
        BY <1>1, <2>2, Length DEF TypeOK
    <2>4. \A c \in 1..3 : c < case => answers'[c] = answers[c]
        BY <1>1, <2>2, Length DEF TypeOK
    <2>5. \A c \in 1..3 : c < case => Answered(c)'
        BY <1>1, <2>1, <2>4 DEF CaseInv, Answered
    <2>6. case = 3 => ~dependsOnCpus'.render
        BY <1>1 DEF CaseInv
    <2>7. phase' = "case_native" /\ case' = case /\ answers'[case'].names # None
        BY <1>1, <2>1, <2>3
    <2> HIDE DEF Answered
    <2> QED
        BY <2>5, <2>6, <2>7 DEF CaseInv, ToCases, ToArchives, ToSource
<1>4. CASE leader = "zero" /\ call = 2
    <2>1. Answer /\ call' = 1 /\ Advance(TRUE)
        <3>1. ~(call < Len(Calls))
            BY <1>4, Length
        <3> QED
            BY <1>4, <3>1, Zenon DEF Collect
    <2>2. phase' = "case_selected_inputs" /\ case' = case
        BY <1>1, <2>1, Forward, Listed DEF Moves, Follows
    <2>3. answers' = [answers EXCEPT ![case].render = case]
        BY <1>1, <1>4, <2>1 DEF Answer, Calls
    <2>4. answers'[case].render = case /\ answers'[case].names = answers[case].names
        BY <1>1, <2>3, Length DEF TypeOK
    <2>5. \A c \in 1..3 : c < case => answers'[c] = answers[c]
        BY <1>1, <2>3, Length DEF TypeOK
    <2>6. \A c \in 1..3 : c < case => Answered(c)'
        BY <1>1, <2>2, <2>5 DEF CaseInv, Answered
    <2>7. Answered(case)'
        BY <1>1, <1>4, <2>2, <2>4 DEF CaseInv, Answered
    <2> QED
        BY <1>1, <2>1, <2>2, <2>6, <2>7 DEF CaseInv, ToCases, ToArchives, ToSource, InCase
<1>5. leader # "zero" => phase' = "failing"
    BY DEF Collect, Advance
<1> QED
    BY <1>1, <1>2, <1>3, <1>4, <1>5

\* The second comparison sees the render of another mask.
LEMMA CaseCompare == TypeOK /\ CaseInv /\ Compare => CaseInv'
<1> SUFFICES ASSUME TypeOK, CaseInv, Compare PROVE CaseInv'
    OBVIOUS
<1>1. /\ phase = "case_comparison" /\ case \in 1..3 /\ phase \notin Outer
      /\ UNCHANGED caseVars
    BY Length DEF Compare, TypeOK, Outer, caseVars
<1>2. call = 1 /\ \A c \in 1..3 : c <= case => Answered(c)
    BY <1>1 DEF CaseInv, ToCases, ToArchives, ToSource
<1>3. \A c \in 1..3 : Answered(c)' <=> Answered(c)
    BY <1>1 DEF Answered, caseVars
<1>4. CASE phase' = "failing"
    BY <1>4, CaseOuter DEF Outer
<1>5. CASE Advance(TRUE) /\ SameAnswers /\ phase' # "failing"
    <2>1. Moves
        BY <1>1, <1>5, Forward, Listed
    <2>2. case >= 2 => ~dependsOnCpus.render
        <3>1. case >= 2 => answers[case].render = case /\ answers[1].render = 1
            BY <1>1, <1>2 DEF Answered
        <3> QED
            BY <1>1, <1>5, <3>1 DEF SameAnswers
    <2>3. case' \in {case, case + 1} /\ (case' = case + 1 => phase' = "case_native")
          /\ (case' = case => case = 3 /\ phase' = "archives_after")
        BY <1>1, <2>1 DEF Moves, Follows
    <2>4. call' = 1 /\ dependsOnCpus' = dependsOnCpus
        BY <1>1, <1>2 DEF caseVars
    <2>5. phase' \notin ToCases \cup {"begin"}
        BY <2>1, <1>1 DEF Moves, Follows, ToCases, ToArchives, ToSource
    <2>6. \A c \in 1..3 : c < case' => Answered(c)'
        BY <1>1, <1>2, <1>3, <2>3
    <2>7. phase' # "case_native" => case' = 3 /\ Answered(case)' 
        BY <1>1, <1>2, <1>3, <2>3 DEF Answered, caseVars
    <2>8. case' = 3 => ~dependsOnCpus'.render
        BY <1>1, <2>2, <2>3, <2>4
    <2> QED
        BY <2>4, <2>5, <2>6, <2>7, <2>8 DEF CaseInv
<1>6. phase' = "failing" \/ (Advance(TRUE) /\ SameAnswers)
    BY Zenon DEF Compare, Advance
<1> QED
    BY <1>4, <1>5, <1>6

\* Every step keeps CaseInv.
LEMMA CaseStep == TypeOK /\ CaseInv /\ [Next]_vars => CaseInv'
<1> SUFFICES ASSUME TypeOK, CaseInv, [Next]_vars PROVE CaseInv'
    OBVIOUS
<1>0. Advancing => Ends
    BY AdvanceStep
<1>1. CASE Begin
    <2>1. CASE phase' = "failed"
        BY <2>1, CaseOuter DEF Outer
    <2>2. CASE phase' = "preflight"
        <3>1. call' = 1 /\ case' = 1
            BY <1>1 DEF Begin, CaseInv
        <3> QED
            BY <2>2, <3>1 DEF CaseInv, ToCases, ToArchives, ToSource
    <2> QED
        BY <1>1, <2>1, <2>2 DEF Begin
<1>2. CASE Preflight
    BY <1>0, <1>2, CaseEnds DEF Preflight, Advancing, caseVars
<1>3. CASE LoadInputs
    BY <1>0, <1>3, CaseEnds DEF LoadInputs, Read, Advancing, caseVars
<1>4. CASE SourceRecords
    BY <1>0, <1>4, CaseEnds DEF SourceRecords, Read, Advancing, caseVars
<1>5. CASE RegistryRecords
    BY <1>0, <1>5, CaseEnds DEF RegistryRecords, Read, Advancing, caseVars
<1>6. CASE ArchiveRecords
    BY <1>0, <1>6, CaseEnds DEF ArchiveRecords, Read, Advancing, caseVars
<1>7. CASE Inventory
    BY <1>0, <1>7, CaseEnds DEF Inventory, Read, Advancing, caseVars
<1>8. CASE Launch
    BY <1>8, CaseFrame DEF Launch, caseVars
<1>9. CASE Collect
    BY <1>9, CaseCollect
<1>10. CASE ExpireCall
    BY <1>10, CaseOuter DEF ExpireCall, Advance, Outer
<1>11. CASE SelectedInputs
    BY <1>0, <1>11, CaseEnds DEF SelectedInputs, Advancing, caseVars
<1>12. CASE CheckAgain
    BY <1>0, <1>12, CaseEnds DEF CheckAgain, Check, Advancing, caseVars
<1>13. CASE Compare
    BY <1>13, CaseCompare
<1>14. CASE ParentAfter
    BY <1>0, <1>14, CaseEnds DEF ParentAfter, Advancing, caseVars
<1>15. CASE FinalReport
    BY <1>0, <1>15, CaseEnds DEF FinalReport, Advancing, caseVars
<1>16. CASE Finish
    BY <1>0, <1>16, CaseEnds DEF Finish, Advancing, caseVars
<1>17. CASE Publish
    BY <1>0, <1>17, CaseEnds DEF Publish, Advancing, caseVars
<1>18. CASE ExitVerified
    BY <1>18, CaseOuter DEF ExitVerified, Outer
<1>19. CASE Expire
    BY <1>19, CaseOuter DEF Expire, Outer
<1>20. CASE Fail
    BY <1>20, CaseOuter DEF Fail, Outer
<1>21. CASE Admit
    BY <1>21, CaseFrame DEF Admit, caseVars
<1>22. CASE Execute
    BY <1>22, CaseFrame DEF Execute, caseVars
<1>23. CASE WriteFails
    BY <1>23, CaseOuter DEF WriteFails, Outer
<1>24. CASE Cancel
    BY <1>24, CaseOuter DEF Cancel, Outer
<1>25. CASE LeaderForks
    BY <1>25, CaseFrame DEF LeaderForks, caseVars
<1>26. CASE LeaderExits
    BY <1>26, CaseFrame DEF LeaderExits, caseVars
<1>27. CASE HelperMoves
    BY <1>27, CaseFrame DEF HelperMoves, caseVars
<1>28. CASE CpusChange
    BY <1>28, CaseFrame DEF CpusChange, caseVars
<1>29. ASSUME NEW f \in Facets, Change(f) PROVE CaseInv'
    BY <1>29, CaseFrame DEF Change, caseVars
<1>30. CASE UNCHANGED vars
    BY <1>30, CaseFrame DEF vars, caseVars
<1> QED
    BY <1>1, <1>2, <1>3, <1>4, <1>5, <1>6, <1>7, <1>8, <1>9, <1>10, <1>11, <1>12,
       <1>13, <1>14, <1>15, <1>16, <1>17, <1>18, <1>19, <1>20, <1>21, <1>22, <1>23,
       <1>24, <1>25, <1>26, <1>27, <1>28, <1>29, <1>30 DEF Next, GateStep

(***************************************************************************)
(* One snapshot                                                            *)
(***************************************************************************)

Changed(f) == recorded[f] < world[f]

\* The phases in which a facet is still to be read again.
ArchivesDue == InCase \cup {"case_native", "archives_after"}
InputsDue == ArchivesDue \cup {"inputs_after"}
RegistriesDue == InputsDue \cup {"registries_after"}
SourceDue == RegistriesDue \cup {"source_after"}
InventoryDue == SourceDue \cup {"selected_inputs_after", "inventory_after"}

\* What has changed since the start of the cases is still to be found.
ToBeFound ==
    \/ Changed("archives") /\ phase \in ArchivesDue
    \/ Changed("inputs") /\ phase \in InputsDue
    \/ Changed("registries") /\ phase \in RegistriesDue
    \/ Changed("source") /\ phase \in SourceDue
    \/ Changed("inventory") /\ phase \in InventoryDue

SnapshotInv ==
    /\ phase \in ToCases \cup {"begin"} => ~disturbed
    /\ phase \notin Outer /\ disturbed => ToBeFound

\* Steps that read and change nothing.
LEMMA SnapshotFrame ==
    SnapshotInv /\ UNCHANGED <<phase, world, recorded, disturbed>> => SnapshotInv'
BY DEF SnapshotInv, ToBeFound, Changed

\* Outside of the order SnapshotInv says nothing.
LEMMA SnapshotOuter == phase' \in Outer \ {"begin"} => SnapshotInv'
BY DEF SnapshotInv, Outer, ToCases, ToArchives, ToSource

\* A phase that reads nothing again.
LEMMA SnapshotEnds ==
    ASSUME TypeOK, SnapshotInv, Ends, UNCHANGED <<world, recorded, disturbed>>,
           phase \notin DOMAIN Check \/ phase \in InCase
    PROVE  SnapshotInv'
<1> USE Listed DEF Outer, ToCases, ToArchives, ToSource
<1>1. CASE phase' = "failing"
    BY <1>1, SnapshotOuter
<1>2. CASE Moves
    <2>1. phase \notin Outer
        BY DEF Ends
    <2>2. phase' \in ToCases => phase \in ToCases
        BY <1>2 DEF Moves, Follows, Ends
    <2>3. phase' # "begin"
        BY <1>2 DEF Moves, Follows, Ends
    <2>4. ToBeFound => ToBeFound'
        <3> USE DEF Moves, Follows, Check, InCase, ArchivesDue, InputsDue, RegistriesDue,
                    SourceDue, InventoryDue
        <3>1. \A f \in Facets : Changed(f)' <=> Changed(f)
            BY DEF Changed
        <3>2. phase \in ArchivesDue => phase' \in ArchivesDue
            BY <1>2
        <3>3. phase \in InputsDue => phase' \in InputsDue
            BY <1>2
        <3>4. phase \in RegistriesDue => phase' \in RegistriesDue
            BY <1>2
        <3>5. phase \in SourceDue => phase' \in SourceDue
            BY <1>2
        <3>6. phase \in InventoryDue => phase' \in InventoryDue
            BY <1>2
        <3> HIDE DEF Changed
        <3> QED
            BY <3>1, <3>2, <3>3, <3>4, <3>5, <3>6 DEF ToBeFound, Facets
    <2>5. disturbed' = disturbed
        OBVIOUS
    <2> QED
        <3> HIDE DEF ToCases, Outer
        <3> QED
            BY <2>1, <2>2, <2>3, <2>4, <2>5 DEF SnapshotInv
<1>3. CASE UNCHANGED <<phase, case>>
    BY <1>3, SnapshotFrame
<1> QED
    BY <1>1, <1>2, <1>3 DEF Ends

\* Nor before the first change.
LEMMA SnapshotCalm == ~disturbed' => SnapshotInv'
BY DEF SnapshotInv

\* A facet that is read again has not changed, or the gate fails.
LEMMA SnapshotCheck == TypeOK /\ SnapshotInv /\ CheckAgain => SnapshotInv'
<1> SUFFICES ASSUME TypeOK, SnapshotInv, CheckAgain PROVE SnapshotInv'
    OBVIOUS
<1>1. /\ phase \in Ordered /\ phase # "published" /\ phase \notin Outer
      /\ phase \in DOMAIN Check
      /\ UNCHANGED <<world, recorded, disturbed>>
    BY Listed DEF CheckAgain, Check, Outer
<1>2. Ends
    BY AdvanceStep DEF Advancing
<1>3. CASE phase' = "failing"
    BY <1>3, SnapshotOuter DEF Outer
<1>4. CASE phase \in InCase
    BY <1>1, <1>2, <1>4, SnapshotEnds
<1>5. CASE Advance(TRUE) /\ Same(Check[phase]) /\ phase \notin InCase
    <2>1. Moves
        BY <1>1, <1>5, Forward
    <2>2. phase # "case_comparison" /\ Follows
        BY <1>5, <2>1 DEF Moves, InCase
    <2>3. \A f \in Facets : Changed(f)' <=> Changed(f)
        BY <1>1 DEF Changed
    <2>4. ~Changed(Check[phase])
        BY <1>1, <1>5 DEF Same, Changed, TypeOK, Check, Facets
    <2>5. phase \notin ToCases /\ phase' \notin ToCases \cup {"begin"}
        BY <1>1, <1>5, <2>2
           DEF Follows, Check, InCase, ToCases, ToArchives, ToSource
    <2>6. ToBeFound => ToBeFound'
        <3> USE DEF Follows, Check, InCase, ArchivesDue, InputsDue, RegistriesDue, SourceDue,
                    InventoryDue, ToBeFound, Facets
        <3>1. CASE phase = "archives_after"
            BY <2>2, <2>3, <2>4, <3>1
        <3>2. CASE phase = "inputs_after"
            BY <2>2, <2>3, <2>4, <3>2
        <3>3. CASE phase = "registries_after"
            BY <2>2, <2>3, <2>4, <3>3
        <3>4. CASE phase = "source_after"
            BY <2>2, <2>3, <2>4, <3>4
        <3>5. CASE phase = "inventory_after"
            BY <2>2, <2>3, <2>4, <3>5
        <3> QED
            BY <1>1, <1>5, <3>1, <3>2, <3>3, <3>4, <3>5
    <2>7. disturbed' = disturbed
        BY <1>1
    <2> QED
        BY <1>1, <2>5, <2>6, <2>7 DEF SnapshotInv
<1>6. phase' = "failing" \/ (Advance(TRUE) /\ Same(Check[phase]))
    BY Zenon DEF CheckAgain, Advance
<1> QED
    BY <1>3, <1>4, <1>5, <1>6

\* A change is either found later or comes too early or too late to matter.
LEMMA SnapshotChange ==
    ASSUME TypeOK, ReadInv, SnapshotInv, NEW f \in Facets, Change(f)
    PROVE  SnapshotInv'
<1>1. /\ phase' = phase /\ recorded' = recorded
      /\ world' = [world EXCEPT ![f] = world[f] + 1]
      /\ disturbed' = (disturbed \/ InCases)
    BY DEF Change
<1>2. \A g \in Facets : Changed(g) => Changed(g)'
    BY <1>1 DEF Changed, TypeOK
<1>3. Changed(f)'
    BY <1>1 DEF Changed, TypeOK, ReadInv
<1>4. InCases <=> phase \in ArchivesDue
    BY DEF InCases, ArchivesDue, InCase
<1>5. CASE phase \in ArchivesDue
    <2>1. phase' \notin ToCases \cup {"begin"}
        BY <1>1, <1>5 DEF ArchivesDue, InCase, ToCases, ToArchives, ToSource
    <2>2. ToBeFound'
        BY <1>1, <1>3, <1>5
           DEF ToBeFound, InputsDue, RegistriesDue, SourceDue, InventoryDue, Facets
    <2> QED
        BY <2>1, <2>2 DEF SnapshotInv
<1>6. CASE phase \notin ArchivesDue
    <2>1. disturbed' <=> disturbed
        BY <1>1, <1>4, <1>6
    <2>2. ToBeFound => ToBeFound'
        BY <1>1, <1>2 DEF ToBeFound, Facets
    <2> QED
        BY <1>1, <2>1, <2>2 DEF SnapshotInv
<1> QED
    BY <1>5, <1>6

\* Every step keeps SnapshotInv.
LEMMA SnapshotStep == TypeOK /\ ReadInv /\ SnapshotInv /\ [Next]_vars => SnapshotInv'
<1> SUFFICES ASSUME TypeOK, ReadInv, SnapshotInv, [Next]_vars PROVE SnapshotInv'
    OBVIOUS
<1>0. Advancing => Ends
    BY AdvanceStep
<1>1. CASE Begin
    BY <1>1, SnapshotCalm DEF Begin, SnapshotInv, ToCases, ToArchives, ToSource
<1>2. CASE Preflight
    BY <1>2, SnapshotCalm DEF Preflight, SnapshotInv, ToCases, ToArchives, ToSource
<1>3. CASE LoadInputs
    BY <1>3, SnapshotCalm DEF LoadInputs, Read, SnapshotInv, ToCases, ToArchives, ToSource
<1>4. CASE SourceRecords
    BY <1>4, SnapshotCalm DEF SourceRecords, Read, SnapshotInv, ToCases, ToArchives, ToSource
<1>5. CASE RegistryRecords
    BY <1>5, SnapshotCalm DEF RegistryRecords, Read, SnapshotInv, ToCases, ToArchives, ToSource
<1>6. CASE ArchiveRecords
    BY <1>6, SnapshotCalm DEF ArchiveRecords, Read, SnapshotInv, ToCases, ToArchives, ToSource
<1>7. CASE Inventory
    BY <1>7, SnapshotCalm DEF Inventory, Read, SnapshotInv, ToCases, ToArchives, ToSource
<1>8. CASE Launch
    BY <1>8, SnapshotFrame DEF Launch
<1>9. CASE Collect
    BY <1>0, <1>9, SnapshotEnds DEF Collect, Advancing, Check
<1>10. CASE ExpireCall
    BY <1>10, SnapshotOuter DEF ExpireCall, Advance, Outer
<1>11. CASE SelectedInputs
    BY <1>0, <1>11, SnapshotEnds DEF SelectedInputs, Advancing, Check, InCase
<1>12. CASE CheckAgain
    BY <1>12, SnapshotCheck
<1>13. CASE Compare
    BY <1>0, <1>13, SnapshotEnds DEF Compare, Advancing, Check
<1>14. CASE ParentAfter
    BY <1>0, <1>14, SnapshotEnds DEF ParentAfter, Advancing, Check
<1>15. CASE FinalReport
    BY <1>0, <1>15, SnapshotEnds DEF FinalReport, Advancing, Check
<1>16. CASE Finish
    BY <1>0, <1>16, SnapshotEnds DEF Finish, Advancing, Check
<1>17. CASE Publish
    BY <1>0, <1>17, SnapshotEnds DEF Publish, Advancing, Check
<1>18. CASE ExitVerified
    BY <1>18, SnapshotOuter DEF ExitVerified, Outer
<1>19. CASE Expire
    BY <1>19, SnapshotOuter DEF Expire, Outer
<1>20. CASE Fail
    BY <1>20, SnapshotOuter DEF Fail, Outer
<1>21. CASE Admit
    BY <1>21, SnapshotFrame DEF Admit
<1>22. CASE Execute
    BY <1>22, SnapshotFrame DEF Execute
<1>23. CASE WriteFails
    BY <1>23, SnapshotOuter DEF WriteFails, Outer
<1>24. CASE Cancel
    BY <1>24, SnapshotOuter DEF Cancel, Outer
<1>25. CASE LeaderForks
    BY <1>25, SnapshotFrame DEF LeaderForks
<1>26. CASE LeaderExits
    BY <1>26, SnapshotFrame DEF LeaderExits
<1>27. CASE HelperMoves
    BY <1>27, SnapshotFrame DEF HelperMoves
<1>28. CASE CpusChange
    BY <1>28, SnapshotFrame DEF CpusChange
<1>29. ASSUME NEW f \in Facets, Change(f) PROVE SnapshotInv'
    BY <1>29, SnapshotChange
<1>30. CASE UNCHANGED vars
    BY <1>30, SnapshotFrame DEF vars
<1> QED
    BY <1>1, <1>2, <1>3, <1>4, <1>5, <1>6, <1>7, <1>8, <1>9, <1>10, <1>11, <1>12,
       <1>13, <1>14, <1>15, <1>16, <1>17, <1>18, <1>19, <1>20, <1>21, <1>22, <1>23,
       <1>24, <1>25, <1>26, <1>27, <1>28, <1>29, <1>30 DEF Next, GateStep

(***************************************************************************)
(* Results                                                                 *)
(***************************************************************************)

Inv ==
    /\ TypeInv /\ ProcInv /\ RecordInv
    /\ ReadInv /\ CaseInv /\ SnapshotInv

\* The initial states.
LEMMA InitInv == Init => Inv
<1> SUFFICES ASSUME Init PROVE Inv
    OBVIOUS
<1> USE Length DEF Init
<1>1. TypeInv
    <2>1. world \in [Facets -> 0..(MaxChanges + 1)] /\ \A f \in Facets : world[f] <= 1
        OBVIOUS
    <2>2. recorded \in [Facets -> Unread..(MaxChanges + 1)]
        BY DEF Unread
    <2>3. answers \in [1..Len(Cases) -> [names : 0..Len(Cases), render : 0..Len(Cases)]]
        BY DEF None
    <2>4. changes \in 0..MaxChanges /\ faults \in 0..MaxFaults /\ cache \in 0..Len(Cases)
        BY DEF None
    <2>5. phase \in Phases /\ case \in 1..Len(Cases) /\ call \in 1..Len(Calls)
        BY OrderedPhases
    <2>6. TypeOK
        BY <2>1, <2>2, <2>3, <2>4, <2>5, Zenon DEF TypeOK
    <2> QED
        BY <2>1, <2>6 DEF TypeInv
<1>2. ProcInv /\ RecordInv
    BY DEF ProcInv, RecordInv
<1>3. ReadInv
    BY DEF ReadInv, Unread, Outer
<1>4. CaseInv
    BY DEF CaseInv, Outer
<1>5. SnapshotInv
    BY DEF SnapshotInv, Outer
<1> QED
    BY <1>1, <1>2, <1>3, <1>4, <1>5 DEF Inv

\* All steps.
LEMMA NextInv == Inv /\ [Next]_vars => Inv'
BY TypeStep, ProcStep, RecordStep, ReadStep, CaseStep, SnapshotStep DEF Inv, TypeInv

\* The inductive invariant.
THEOREM Inductive == Spec => []Inv
BY InitInv, NextInv, PTL DEF Spec

\* Every variable of the gate and the limiter keeps its type.
THEOREM TypeCorrect == Spec => []TypeOK
<1>1. Inv => TypeOK
    BY DEF Inv, TypeInv
<1> QED
    BY <1>1, Inductive, PTL

\* A build is admitted only by a verified gate with its four CPUs, and no process of a
\* native call is left then (run_bounded_native kills a session before it reaps its
\* leader, whatever ended the call).
THEOREM Certified == Spec => BuildIsCertified
<1> DEFINE Goal == build' = "admitted" /\ build # "admitted" =>
                       /\ phase = "verified" /\ policy = "own"
                       /\ affinity = "four"
                       /\ leader = "none" /\ helper = "none"
<1>1. Inv /\ [Next]_vars => [Goal]_vars
    <2> SUFFICES ASSUME Inv, [Next]_vars, build' = "admitted", build # "admitted"
                 PROVE  Goal
        OBVIOUS
    <2>1. Admit
        BY DEF Next, GateStep, vars, Begin, Preflight, LoadInputs, SourceRecords,
               RegistryRecords, ArchiveRecords, Inventory, Read, Launch, Collect, ExpireCall,
               SelectedInputs, CheckAgain, Compare, ParentAfter, FinalReport, Finish, Publish,
               ExitVerified, Expire, Fail, Execute, WriteFails, Cancel, LeaderForks,
               LeaderExits, HelperMoves, CpusChange, Change
    <2>2. phase = "verified" /\ policy = "own" /\ affinity = "four"
        BY <2>1 DEF Admit
    <2> QED
        BY <2>2 DEF Inv, ProcInv
<1> QED
    BY <1>1, Inductive, PTL DEF Spec, BuildIsCertified

\* The policy appears once, last, and for one snapshot of everything the build will read
\* (validate: records, cases and re-checks in this order), however often the machine
\* changes under the gate.
THEOREM Earned == Spec => PolicyIsEarned
<1> DEFINE Goal == policy' # policy =>
                       /\ policy = "none"
                       /\ report = "verified-metadata-only" /\ trace = "finished"
                       /\ \A c \in 1..Len(Cases) :
                             answers[c].render = c /\ answers[c].names # None
                       /\ ~dependsOnCpus.render
                       /\ ~disturbed
                       /\ \A f \in Pinned : recorded[f] = 0
<1>1. Inv /\ [Next]_vars => [Goal]_vars
    <2> SUFFICES ASSUME Inv, [Next]_vars, policy' # policy PROVE Goal
        OBVIOUS
    <2>1. Publish
        BY DEF Next, GateStep, vars, Begin, Preflight, LoadInputs, SourceRecords,
               RegistryRecords, ArchiveRecords, Inventory, Read, Launch, Collect, ExpireCall,
               SelectedInputs, CheckAgain, Compare, ParentAfter, FinalReport, Finish, Admit,
               ExitVerified, Expire, Fail, Execute, WriteFails, Cancel, LeaderForks,
               LeaderExits, HelperMoves, CpusChange, Change
    <2>2. phase = "publish" /\ policy = "none"
        BY <2>1 DEF Publish
    <2>3. report = "verified-metadata-only" /\ trace = "finished"
        BY <2>2 DEF Inv, RecordInv
    <2>4. phase \notin Outer \cup ToCases \cup InCase \cup {"case_native"}
        BY <2>2 DEF Outer, ToCases, ToArchives, ToSource, InCase
    <2>5. case = 3 /\ ~dependsOnCpus.render /\ \A c \in 1..3 : Answered(c)
        BY <2>4 DEF Inv, CaseInv
    <2>6. ~disturbed
        BY <2>2, <2>4 DEF Inv, SnapshotInv, ToBeFound, ArchivesDue, InputsDue, RegistriesDue,
                          SourceDue, InventoryDue, InCase
    <2>7. \A f \in Pinned : recorded[f] = 0
        BY <2>4 DEF Inv, ReadInv, Pinned, ToCases, ToArchives
    <2> QED
        BY <2>2, <2>3, <2>5, <2>6, <2>7, Length DEF Answered
<1> QED
    BY <1>1, Inductive, PTL DEF Spec, PolicyIsEarned

(***************************************************************************)
(* What is left of the job                                                 *)
(***************************************************************************)

\* The phases still ahead, the loop over the cases being one of them, and the limiter's
\* two steps.
Ahead ==
    CASE phase = "begin" -> 22
      [] phase = "preflight" -> 21
      [] phase = "inputs_before" -> 20
      [] phase = "source_before" -> 19
      [] phase = "registries_before" -> 18
      [] phase = "archives_before" -> 17
      [] phase = "inventory_before" -> 16
      [] phase \in InCase \cup {"case_native"} -> 15
      [] phase = "archives_after" -> 14
      [] phase = "inputs_after" -> 13
      [] phase = "registries_after" -> 12
      [] phase = "source_after" -> 11
      [] phase = "selected_inputs_after" -> 10
      [] phase = "inventory_after" -> 9
      [] phase = "parent_after" -> 8
      [] phase = "final_report" -> 7
      [] phase = "finish" -> 6
      [] phase = "publish" -> 5
      [] phase = "published" -> 4
      [] phase = "verified" /\ build = "none" -> 3
      [] phase = "verified" /\ build = "admitted" -> 2
      [] phase = "failing" -> 1
      [] OTHER -> 0

\* The steps of one case still ahead: two native calls, each launched and collected.
Place ==
    CASE phase = "case_native" /\ leader = "none" -> 10 - 2 * call
      [] phase = "case_native" /\ leader # "none" -> 9 - 2 * call
      [] phase = "case_selected_inputs" -> 4
      [] phase = "case_inventory" -> 3
      [] phase = "case_source" -> 2
      [] phase = "case_comparison" -> 1
      [] OTHER -> 0

Left == <<Ahead, 3 - case, Place>>

Ranks == Nat \X Nat \X Nat

Less(a, b) ==
    \/ a[1] < b[1]
    \/ a[1] = b[1] /\ a[2] < b[2]
    \/ a[1] = b[1] /\ a[2] = b[2] /\ a[3] < b[3]

\* Steps of the gate and the limiter, with what may cut them short.
Acts == GateStep \/ WriteFails \/ Cancel

\* The limiter runs after a verified gate, which does nothing any more.
BuildInv == build # "none" => phase = "verified"

LEMMA BuildStep == TypeOK /\ BuildInv /\ [Next]_vars => BuildInv'
<1> SUFFICES ASSUME TypeOK, BuildInv, [Next]_vars PROVE BuildInv'
    OBVIOUS
<1>1. build' # build => phase = "verified" /\ phase' = phase
    BY DEF Next, GateStep, vars, Begin, Preflight, LoadInputs, SourceRecords,
           RegistryRecords, ArchiveRecords, Inventory, Read, Launch, Collect, ExpireCall,
           SelectedInputs, CheckAgain, Compare, ParentAfter, FinalReport, Finish, Publish,
           ExitVerified, Expire, Fail, Admit, Execute, WriteFails, Cancel, LeaderForks,
           LeaderExits, HelperMoves, CpusChange, Change, BuildInv
<1>2. phase = "verified" => phase' = phase
    <2>1. "verified" \notin Ordered
        BY Listed
    <2>2. phase = "verified" => ~Advancing
        BY <2>1, AdvanceStep DEF Ends
    <2> QED
        BY <2>2 DEF Next, GateStep, vars, Advancing, Begin, Launch, ExitVerified, Expire, Timed,
                    Fail, Admit, Execute, WriteFails, Cancel, LeaderForks, LeaderExits,
                    HelperMoves, CpusChange, Change, Over
<1> QED
    BY <1>1, <1>2 DEF BuildInv

LEMMA LeftIsRank == TypeOK => Left \in Ranks
<1> SUFFICES ASSUME TypeOK PROVE Left \in Ranks
    OBVIOUS
<1>1. case \in 1..3 /\ call \in 1..2
    BY Length DEF TypeOK
<1>2. Ahead \in Nat
    BY DEF Ahead
<1>3. Place \in Nat
    BY <1>1 DEF Place
<1> QED
    BY <1>1, <1>2, <1>3 DEF Left, Ranks

\* The end of a phase leaves less to do, whether it succeeds or not.
LEMMA AdvanceCloser ==
    ASSUME TypeOK, phase \in Ordered, phase # "published", phase' = "failing" \/ Advance(TRUE)
    PROVE  Less(Left', Left)
<1>1. case \in 1..3 /\ call \in 1..2
    BY Length DEF TypeOK
<1>2. CASE phase' = "failing"
    <2>1. Ahead' = 1
        BY <1>2 DEF Ahead, InCase
    <2>2. Ahead > 1
        BY Listed DEF Ahead, InCase
    <2> QED
        BY <2>1, <2>2 DEF Less, Left
<1>3. CASE Moves /\ phase = "case_comparison" /\ phase' = "case_native"
    <2>1. case' = case + 1 /\ Ahead' = Ahead
        BY <1>3 DEF Moves, Follows, Ahead, InCase
    <2> QED
        BY <1>1, <2>1 DEF Less, Left
<1>4. CASE Moves /\ phase \in {"case_native", "case_selected_inputs", "case_inventory",
                               "case_source"}
    <2>1. case' = case /\ phase' \in InCase
        BY <1>4 DEF Moves, Follows, InCase
    <2>2. Ahead' = Ahead
        BY <1>4, <2>1 DEF Ahead, InCase
    <2>3. Place' < Place
        BY <1>1, <1>4, <2>1 DEF Place, Moves, Follows
    <2> QED
        BY <2>1, <2>2, <2>3 DEF Less, Left
<1>5. CASE /\ Moves /\ ~(phase = "case_comparison" /\ phase' = "case_native")
           /\ phase \notin {"case_native", "case_selected_inputs", "case_inventory",
                            "case_source"}
    <2>1. Ahead' < Ahead
        BY <1>5, Listed DEF Moves, Follows, Ahead, InCase
    <2> QED
        BY <2>1 DEF Less, Left
<1> QED
    BY <1>2, <1>3, <1>4, <1>5, Forward

\* Every step of the gate and the limiter leaves less to do.
LEMMA ActsCloser ==
    ASSUME TypeOK, BuildInv, Acts
    PROVE  Less(Left', Left)
<1>t. case \in 1..3 /\ call \in 1..2
    BY Length DEF TypeOK
<1>a. Ahead' < Ahead => Less(Left', Left)
    BY DEF Less, Left
<1>e. Advancing => phase \in Ordered /\ phase # "published"
    BY AdvanceStep DEF Ends
<1>1. CASE Preflight
    <2>1. phase' = "failing" \/ Advance(TRUE)
        BY <1>1 DEF Preflight, Advance
    <2> QED
        BY <1>1, <1>e, <2>1, AdvanceCloser DEF Advancing
<1>2. CASE LoadInputs
    <2>1. phase' = "failing" \/ Advance(TRUE)
        BY <1>2 DEF LoadInputs, Read, Advance
    <2> QED
        BY <1>2, <1>e, <2>1, AdvanceCloser DEF Advancing
<1>3. CASE SourceRecords
    <2>1. phase' = "failing" \/ Advance(TRUE)
        BY <1>3 DEF SourceRecords, Read, Advance
    <2> QED
        BY <1>3, <1>e, <2>1, AdvanceCloser DEF Advancing
<1>4. CASE RegistryRecords
    <2>1. phase' = "failing" \/ Advance(TRUE)
        BY <1>4 DEF RegistryRecords, Read, Advance
    <2> QED
        BY <1>4, <1>e, <2>1, AdvanceCloser DEF Advancing
<1>5. CASE ArchiveRecords
    <2>1. phase' = "failing" \/ Advance(TRUE)
        BY <1>5 DEF ArchiveRecords, Read, Advance
    <2> QED
        BY <1>5, <1>e, <2>1, AdvanceCloser DEF Advancing
<1>6. CASE Inventory
    <2>1. phase' = "failing" \/ Advance(TRUE)
        BY <1>6 DEF Inventory, Read, Advance
    <2> QED
        BY <1>6, <1>e, <2>1, AdvanceCloser DEF Advancing
<1>7. CASE ExpireCall
    <2>1. phase' = "failing" \/ Advance(TRUE)
        BY <1>7 DEF ExpireCall, Advance
    <2> QED
        BY <1>7, <1>e, <2>1, AdvanceCloser DEF Advancing
<1>8. CASE SelectedInputs
    <2>1. phase' = "failing" \/ Advance(TRUE)
        BY <1>8 DEF SelectedInputs, Advance
    <2> QED
        BY <1>8, <1>e, <2>1, AdvanceCloser DEF Advancing
<1>9. CASE CheckAgain
    <2>1. phase' = "failing" \/ Advance(TRUE)
        BY <1>9 DEF CheckAgain, Check, Advance
    <2> QED
        BY <1>9, <1>e, <2>1, AdvanceCloser DEF Advancing
<1>10. CASE Compare
    <2>1. phase' = "failing" \/ Advance(TRUE)
        BY <1>10 DEF Compare, Advance
    <2> QED
        BY <1>10, <1>e, <2>1, AdvanceCloser DEF Advancing
<1>11. CASE ParentAfter
    <2>1. phase' = "failing" \/ Advance(TRUE)
        BY <1>11 DEF ParentAfter, Advance
    <2> QED
        BY <1>11, <1>e, <2>1, AdvanceCloser DEF Advancing
<1>12. CASE FinalReport
    <2>1. phase' = "failing" \/ Advance(TRUE)
        BY <1>12 DEF FinalReport, Advance
    <2> QED
        BY <1>12, <1>e, <2>1, AdvanceCloser DEF Advancing
<1>13. CASE Finish
    <2>1. phase' = "failing" \/ Advance(TRUE)
        BY <1>13 DEF Finish, Advance
    <2> QED
        BY <1>13, <1>e, <2>1, AdvanceCloser DEF Advancing
<1>14. CASE Publish
    <2>1. phase' = "failing" \/ Advance(TRUE)
        BY <1>14 DEF Publish, Advance
    <2> QED
        BY <1>14, <1>e, <2>1, AdvanceCloser DEF Advancing
<1>15. CASE Begin
    BY <1>15, <1>a DEF Begin, Ahead, InCase
<1>16. CASE Launch
    <2>1. Ahead' = Ahead /\ case' = case
        BY <1>16 DEF Launch, Ahead, InCase
    <2>2. Place' < Place
        BY <1>16, <1>t DEF Launch, Place
    <2> QED
        BY <2>1, <2>2 DEF Less, Left
<1>17. CASE Collect
    <2>1. phase = "case_native" /\ leader # "none" /\ leader' = "none"
        BY <1>17 DEF Collect, KillGroup
    <2>2. CASE UNCHANGED <<phase, case>> /\ call < 2 /\ call' = call + 1
        <3>1. Ahead' = Ahead /\ case' = case
            BY <2>2 DEF Ahead
        <3>2. Place' < Place
            BY <1>t, <2>1, <2>2 DEF Place
        <3> QED
            BY <3>1, <3>2 DEF Less, Left
    <2>3. CASE phase' = "failing" \/ Advance(TRUE)
        BY <1>17, <1>e, <2>3, AdvanceCloser DEF Advancing
    <2> QED
        BY <1>17, <2>2, <2>3, Length DEF Collect, Advance
<1>18. CASE ExitVerified
    <2>1. build = "none" \/ phase = "verified"
        BY DEF BuildInv
    <2>2. Ahead = 4 /\ Ahead' = 3
        BY <1>18, <2>1 DEF ExitVerified, Ahead, InCase
    <2> QED
        BY <1>a, <2>2
<1>19. CASE Expire
    <2>1. phase \in Ordered /\ phase # "published" /\ phase' = "failing"
        BY <1>19, Listed DEF Expire, Timed
    <2> QED
        BY <2>1, AdvanceCloser
<1>20. CASE Fail
    <2>1. Ahead = 1 /\ Ahead' = 0
        BY <1>20 DEF Fail, Ahead, InCase
    <2> QED
        BY <1>a, <2>1
<1>21. CASE Admit
    <2>1. Ahead = 3 /\ Ahead' \in {0, 2}
        BY <1>21 DEF Admit, Ahead, InCase
    <2> QED
        BY <1>a, <2>1
<1>22. CASE Execute
    <2>1. phase = "verified" /\ build = "admitted" /\ phase' = phase
        BY <1>22 DEF Execute, BuildInv
    <2>2. Ahead = 2 /\ Ahead' = 0
        BY <1>22, <2>1 DEF Execute, Ahead, InCase
    <2> QED
        BY <1>a, <2>2
<1>23. CASE WriteFails
    <2>1. phase \in Ordered /\ phase' = "failing"
        BY <1>23, OrderedPhases DEF WriteFails, Over, TypeOK
    <2>2. CASE phase = "published"
        BY <1>a, <2>1, <2>2 DEF Ahead, InCase
    <2> QED
        BY <2>1, <2>2, AdvanceCloser
<1>24. CASE Cancel
    <2>1. phase \in Ordered /\ phase' = "failing"
        BY <1>24, OrderedPhases DEF Cancel, Over, TypeOK
    <2>2. CASE phase = "published"
        BY <1>a, <2>1, <2>2 DEF Ahead, InCase
    <2> QED
        BY <2>1, <2>2, AdvanceCloser
<1> QED
    BY <1>1, <1>2, <1>3, <1>4, <1>5, <1>6, <1>7, <1>8, <1>9, <1>10, <1>11, <1>12, <1>13,
       <1>14, <1>15, <1>16, <1>17, <1>18, <1>19, <1>20, <1>21, <1>22, <1>23, <1>24 DEF Acts,
       GateStep

\* The processes of a call and the machine set nothing back.
LEMMA OthersStay ==
    ASSUME \/ LeaderForks \/ LeaderExits \/ HelperMoves \/ CpusChange
           \/ \E f \in Facets : Change(f)
           \/ UNCHANGED vars
    PROVE  Left' = Left
<1>1. UNCHANGED <<phase, case, call, build>> /\ (leader' = "none" <=> leader = "none")
    BY DEF LeaderForks, LeaderExits, HelperMoves, CpusChange, Change, vars
<1>2. Ahead' = Ahead /\ Place' = Place
    BY <1>1 DEF Ahead, Place
<1> QED
    BY <1>1, <1>2 DEF Left

\* The gate and the limiter run down: each of their steps, a deadline, a failed write and a
\* signal included, lowers a rank that no process of a native call and no change of the
\* machine raises again (validate is one pass and a loop over three cases, two calls each).
THEOREM RunsDown ==
    Spec => [](Left \in Ranks)
            /\ [][IF Acts THEN Less(Left', Left) ELSE Left' = Left]_vars
<1> DEFINE Goal == IF Acts THEN Less(Left', Left) ELSE Left' = Left
<1>1. Inv => TypeOK
    BY DEF Inv, TypeInv
<1>2. Init => BuildInv
    BY DEF Init, BuildInv
<1>3. Spec => []BuildInv
    BY <1>1, <1>2, Inductive, BuildStep, PTL DEF Spec
<1>4. TypeOK /\ BuildInv /\ [Next]_vars => [Goal]_vars
    <2> SUFFICES ASSUME TypeOK, BuildInv, Next PROVE Goal
        BY DEF vars
    <2>1. CASE Acts
        BY <2>1, ActsCloser
    <2>2. CASE ~Acts
        BY <2>2, OthersStay DEF Next, Acts
    <2> QED
        BY <2>1, <2>2
<1> QED
    BY <1>1, <1>3, <1>4, LeftIsRank, Inductive, PTL DEF Spec
=============================================================================
