----------------------------- MODULE ResourceGate -----------------------------
(***************************************************************************)
(* The resource policy of a generation build: validate-pgo-resource-       *)
(* policy.py (the gate), the bounded native runner it takes from           *)
(* probe-rbm-resource-control.py, and run-pgo-resource-limited.py (the     *)
(* limiter), as two steps of one job on one machine.                       *)
(*                                                                         *)
(* The gate records what the build will read, runs native metadata calls   *)
(* with four, two and one CPUs, compares, reads everything again, and      *)
(* writes the policy last.  Everything it reads may change under it.  A    *)
(* facet is a version number that only grows: a change that is taken back  *)
(* is not considered.  Version 0 is the one the gate has pinned by hash.   *)
(***************************************************************************)
EXTENDS Integers, Sequences

CONSTANTS
    MaxChanges,   \* bound on changes of the machine under the gate
    MaxFaults     \* bound on signals, failed writes and failed calls

ASSUME GateAssumption == MaxChanges \in Nat /\ MaxFaults \in Nat

VARIABLES
    phase,       \* the phase of the gate
    case,        \* the case of the per-case phases
    call,        \* which native call of the case is next
    leader,      \* the process of the running call, as its session leader
    helper,      \* a descendant in its session: holds the call's output or not
    world,       \* the version of each facet
    recorded,    \* the version the gate has recorded
    affinity,    \* the CPUs allowed to the job: four or not
    parent,      \* those the gate has read
    dependsOnCpus, \* whether names or renders really depend on the CPU mask
    answers,     \* per case: the mask the names and the render were computed under
    cache,       \* /tmp/.pgo_metadata_cache: the case whose answer it holds
    report,      \* status of validation.json
    trace,       \* status of progress.json
    policy,      \* the execution policy: none, one of an earlier job, or this gate's
    build,       \* the limiter's step
    disturbed,   \* a facet has changed between the last record and the first re-check
    changes,
    faults

callVars == <<call, leader, helper, answers, cache>>
worldVars == <<world, affinity, dependsOnCpus, disturbed, changes>>
recordVars == <<report, trace>>
baseVars == <<recorded, parent>>
vars == <<phase, case, callVars, worldVars, baseVars, recordVars, policy, build, faults>>

Facets == {"inputs", "source", "registries", "archives", "inventory"}
Pinned == {"source", "archives"}
Cases == <<"baseline", "selected-two", "one-metadata-only">>
Calls == <<"names", "render">>
None == 0                          \* no case
Unread == -1

Check == [case_inventory |-> "inventory", case_source |-> "source",
          archives_after |-> "archives", inputs_after |-> "inputs",
          registries_after |-> "registries", source_after |-> "source",
          inventory_after |-> "inventory"]

Order == <<"preflight", "inputs_before", "source_before", "registries_before",
           "archives_before", "inventory_before", "case_native", "case_selected_inputs",
           "case_inventory", "case_source", "case_comparison", "archives_after",
           "inputs_after", "registries_after", "source_after", "selected_inputs_after",
           "inventory_after", "parent_after", "final_report", "finish", "publish",
           "published">>

Over == {"verified", "failed"}
Phases == {"begin", "failing"} \cup Over \cup {Order[i] : i \in 1..Len(Order)}

TypeOK ==
    /\ phase \in Phases
    /\ case \in 1..Len(Cases)
    /\ call \in 1..Len(Calls)
    /\ leader \in {"none", "running", "zero", "nonzero"}
    /\ helper \in {"none", "holds", "quiet"}
    /\ world \in [Facets -> 0..MaxChanges + 1]
    /\ recorded \in [Facets -> Unread..MaxChanges + 1]
    /\ affinity \in {"four", "other"} /\ parent \in {"unread", "four", "other"}
    /\ dependsOnCpus \in [names : BOOLEAN, render : BOOLEAN]
    /\ answers \in [1..Len(Cases) -> [names : 0..Len(Cases), render : 0..Len(Cases)]]
    /\ cache \in 0..Len(Cases)
    /\ report \in {"none", "starting", "verified-metadata-only", "failed"}
    /\ trace \in {"none", "running", "finished", "failed"}
    /\ policy \in {"none", "earlier", "own"}
    /\ build \in {"none", "admitted", "running", "rejected", "unexecuted"}
    /\ disturbed \in BOOLEAN
    /\ changes \in 0..MaxChanges
    /\ faults \in 0..MaxFaults

Init ==
    /\ phase = "begin" /\ case = 1 /\ call = 1
    /\ leader = "none" /\ helper = "none"
    /\ world \in {v \in [Facets -> {0, 1}] : \A f \in Facets \ Pinned : v[f] = 0}
    /\ recorded = [f \in Facets |-> Unread]
    /\ affinity \in {"four", "other"} /\ parent = "unread"
    /\ dependsOnCpus \in [names : BOOLEAN, render : BOOLEAN]
    /\ answers = [c \in 1..Len(Cases) |-> [names |-> None, render |-> None]]
    /\ cache = None
    /\ report = "none" /\ trace = "none"
    /\ policy \in {"none", "earlier"}
    /\ build = "none" /\ disturbed = FALSE /\ changes = 0 /\ faults = 0

Fault == faults < MaxFaults /\ faults' = faults + 1

Position(p) == CHOOSE i \in 1..Len(Order) : Order[i] = p

\* Deviation: the loop over the cases runs once more.
AdvanceOneMore(ok) ==
    IF ~ok THEN phase' = "failing" /\ UNCHANGED case
    ELSE IF phase = "case_comparison" /\ case <= Len(Cases)
    THEN phase' = "case_native" /\ case' = case + 1
    ELSE phase' = Order[Position(phase) + 1] /\ UNCHANGED case

\* The next phase, with the three cases as a loop; a failed requirement unwinds.
Advance(ok) ==
    IF ~ok THEN phase' = "failing" /\ UNCHANGED case
    ELSE IF phase = "case_comparison" /\ case < Len(Cases)
    THEN phase' = "case_native" /\ case' = case + 1
    ELSE phase' = Order[Position(phase) + 1] /\ UNCHANGED case

(***************************************************************************)
(* The machine under the gate                                              *)
(***************************************************************************)

\* From the start of the cases until the archives are read again.
InCases == phase \in {"case_native", "case_selected_inputs", "case_inventory", "case_source",
                      "case_comparison", "archives_after"}

Change(f) ==
    /\ changes < MaxChanges
    /\ changes' = changes + 1
    /\ world' = [world EXCEPT ![f] = @ + 1]
    /\ disturbed' = (disturbed \/ InCases)
    /\ UNCHANGED <<phase, case, callVars, affinity, dependsOnCpus, baseVars, recordVars, policy,
                   build, faults>>

CpusChange ==
    /\ changes < MaxChanges
    /\ changes' = changes + 1
    /\ affinity' \in {"four", "other"} \ {affinity}
    /\ UNCHANGED <<phase, case, callVars, world, dependsOnCpus, disturbed, baseVars, recordVars,
                   policy, build, faults>>

(***************************************************************************)
(* validate, up to the cases                                               *)
(***************************************************************************)

\* An existing policy or used diagnostics end the gate before its first record.
Begin ==
    /\ phase = "begin"
    /\ IF policy = "none"
       THEN /\ phase' = "preflight" /\ report' = "starting" /\ trace' = "running"
            /\ parent' = affinity
       ELSE phase' = "failed" /\ UNCHANGED <<recordVars, parent>>
    /\ UNCHANGED <<case, callVars, worldVars, recorded, policy, build, faults>>

\* Four CPUs, no CPU variable, no token, a well-formed binding.
Preflight ==
    /\ phase = "preflight"
    /\ Advance(parent = "four")
    /\ UNCHANGED <<callVars, worldVars, baseVars, recordVars, policy, build, faults>>

\* Pinned facets are compared with fixed hashes whenever they are read, the others with
\* each other and with what they have to look like.
Accepted(f) == IF f \in Pinned THEN {world[f] = 0} ELSE BOOLEAN

Read(f) ==
    /\ \E ok \in Accepted(f) : Advance(ok)
    /\ recorded' = [recorded EXCEPT ![f] = world[f]]
    /\ UNCHANGED <<callVars, worldVars, parent, recordVars, policy, build, faults>>

\* Identities, provenance, the support record and its registry.
LoadInputs == phase = "inputs_before" /\ Read("inputs")

\* Both work trees, the recipes under the overlay, the Firefox clone.
SourceRecords == phase = "source_before" /\ Read("source")

RegistryRecords == phase = "registries_before" /\ Read("registries")

\* The bytes of all restored archives.
ArchiveRecords == phase = "archives_before" /\ Read("archives")

\* Names, sizes and times of everything under out and the clones.
Inventory == phase = "inventory_before" /\ Read("inventory")

(***************************************************************************)
(* A native call                                                           *)
(***************************************************************************)

Launch ==
    /\ phase = "case_native" /\ leader = "none"
    /\ leader' = "running"
    /\ UNCHANGED <<phase, case, call, helper, answers, cache, worldVars, baseVars, recordVars,
                   policy, build, faults>>

\* Descendants stay in the session; whether they keep the output open is up to them.
LeaderForks ==
    /\ leader = "running" /\ helper = "none"
    /\ helper' \in {"holds", "quiet"}
    /\ UNCHANGED <<phase, case, call, leader, answers, cache, worldVars, baseVars, recordVars,
                   policy, build, faults>>

LeaderExits ==
    /\ leader = "running"
    /\ \/ /\ leader' = "zero"
          /\ case = 1 => affinity = "four"     \* the two smaller masks may still fit
          /\ UNCHANGED faults
       \/ leader' = "nonzero" /\ (affinity # "four" \/ world["source"] # 0) /\ UNCHANGED faults
       \/ leader' = "nonzero" /\ Fault
    /\ UNCHANGED <<phase, case, call, helper, answers, cache, worldVars, baseVars, recordVars,
                   policy, build>>

HelperMoves ==
    /\ helper # "none"
    /\ helper' \in {"quiet", "none"} \ {helper}
    /\ UNCHANGED <<phase, case, call, leader, answers, cache, worldVars, baseVars, recordVars,
                   policy, build, faults>>

\* Deviation: the leader is reaped first, and its group identifier with it.
ReapOnly == leader' = "none" /\ UNCHANGED helper

\* The finally block: the whole session is killed before its leader is reaped.
KillGroup == leader' = "none" /\ helper' = "none"

\* Names come from the cache of an earlier case when there is one: its key has no mask.
Answer ==
    IF Calls[call] = "names"
    THEN /\ cache' = IF cache = None THEN case ELSE cache
         /\ answers' = [answers EXCEPT ![case].names = cache']
    ELSE answers' = [answers EXCEPT ![case].render = case] /\ UNCHANGED cache

\* The call returns with its leader's exit and the end of its output.  A leader that
\* could not take its mask or found another identity has not exited with zero.
Collect ==
    /\ phase = "case_native" /\ leader \in {"zero", "nonzero"} /\ helper # "holds"
    /\ KillGroup
    /\ IF leader = "zero"
       THEN /\ Answer
            /\ IF call < Len(Calls)
               THEN call' = call + 1 /\ UNCHANGED <<phase, case>>
               ELSE call' = 1 /\ Advance(TRUE)
       ELSE Advance(FALSE) /\ UNCHANGED <<call, answers, cache>>
    /\ UNCHANGED <<worldVars, baseVars, recordVars, policy, build, faults>>

\* Deviation: the runner looks at the clock only while the leader lives.
ExpireCallWithLeader ==
    /\ phase = "case_native" /\ leader = "running"
    /\ KillGroup /\ Advance(FALSE)
    /\ UNCHANGED <<call, answers, cache, worldVars, baseVars, recordVars, policy, build, faults>>

\* The call's 45 seconds, what is left of the gate's, or the limit of its output.  The
\* leader is waited for a second at most after it was killed.
ExpireCall ==
    /\ phase = "case_native" /\ leader # "none"
    /\ \/ KillGroup /\ UNCHANGED faults
       \/ leader = "running" /\ Fault /\ UNCHANGED <<leader, helper>>
    /\ Advance(FALSE)
    /\ UNCHANGED <<call, answers, cache, worldVars, baseVars, recordVars, policy, build>>

(***************************************************************************)
(* validate, from the cases on                                             *)
(***************************************************************************)

Same(f) == world[f] = recorded[f] /\ (f \in Pinned => world[f] = 0)

\* validate_selected_inputs hashes the selected files against the restored archives.
SelectedInputs ==
    /\ phase \in {"case_selected_inputs", "selected_inputs_after"}
    /\ Advance(Same("archives"))
    /\ UNCHANGED <<callVars, worldVars, baseVars, recordVars, policy, build, faults>>

\* Deviation: the inputs are not read again after the cases.
CheckAgainButInputs ==
    /\ phase \in DOMAIN Check
    /\ Advance(phase = "inputs_after" \/ Same(Check[phase]))
    /\ UNCHANGED <<callVars, worldVars, baseVars, recordVars, policy, build, faults>>

CheckAgain ==
    /\ phase \in DOMAIN Check
    /\ Advance(Same(Check[phase]))
    /\ UNCHANGED <<callVars, worldVars, baseVars, recordVars, policy, build, faults>>

\* Names and normalized renders equal those of the baseline.
SameAnswers ==
    \A k \in {"names", "render"} :
        dependsOnCpus[k] => answers[case][k] = answers[1][k]

Compare ==
    /\ phase = "case_comparison"
    /\ Advance(SameAnswers)
    /\ UNCHANGED <<callVars, worldVars, baseVars, recordVars, policy, build, faults>>

ParentAfter ==
    /\ phase = "parent_after"
    /\ Advance(affinity = parent)
    /\ UNCHANGED <<callVars, worldVars, baseVars, recordVars, policy, build, faults>>

FinalReport ==
    /\ phase = "final_report"
    /\ report' = "verified-metadata-only"
    /\ Advance(TRUE)
    /\ UNCHANGED <<callVars, worldVars, baseVars, trace, policy, build, faults>>

Finish ==
    /\ phase = "finish"
    /\ trace' = "finished"
    /\ Advance(TRUE)
    /\ UNCHANGED <<callVars, worldVars, baseVars, report, policy, build, faults>>

Publish ==
    /\ phase = "publish"
    /\ Advance(policy = "none")
    /\ policy' = IF policy = "none" THEN "own" ELSE policy
    /\ UNCHANGED <<callVars, worldVars, baseVars, recordVars, build, faults>>

ExitVerified ==
    /\ phase = "published"
    /\ phase' = "verified"
    /\ UNCHANGED <<case, callVars, worldVars, baseVars, recordVars, policy, build, faults>>

\* Phases in which the global deadline is looked at.
Timed == {"source_before", "archives_before", "inventory_before", "case_selected_inputs",
          "case_inventory", "case_source", "archives_after", "source_after",
          "selected_inputs_after", "inventory_after", "publish"}

Expire ==
    /\ \/ phase \in Timed
       \/ phase = "case_native" /\ leader = "none"
    /\ phase' = "failing"
    /\ UNCHANGED <<case, callVars, worldVars, baseVars, recordVars, policy, build, faults>>

\* A report, the trace or the policy cannot be written.
WriteFails ==
    /\ phase \notin {"begin", "failing", "published"} \cup Over /\ leader = "none"
    /\ Fault
    /\ phase' = "failing"
    /\ UNCHANGED <<case, callVars, worldVars, baseVars, recordVars, policy, build>>

\* A signal raises where it strikes; inside a call the group is killed on the way out,
\* but while it is launched its pid is not known yet.
Cancel ==
    /\ phase \notin {"begin", "failing"} \cup Over
    /\ Fault
    /\ phase' = "failing"
    /\ \/ KillGroup
       \/ leader = "running" /\ helper = "none" /\ UNCHANGED <<leader, helper>>
    /\ UNCHANGED <<case, call, answers, cache, worldVars, baseVars, recordVars, policy, build>>

\* Both records are marked, unless they cannot be written; the trace is tried once.
Fail ==
    /\ phase = "failing"
    /\ phase' = "failed"
    /\ \/ report' = "failed" /\ trace' = "failed" /\ UNCHANGED faults
       \/ report' \in {report, "failed"} /\ trace' \in {trace, "failed"} /\ Fault
    /\ UNCHANGED <<case, callVars, worldVars, baseVars, policy, build>>

(***************************************************************************)
(* The limiter                                                             *)
(***************************************************************************)

\* read_policy and validate_policy: pins, binding to this job, and the CPUs once more.
Admit ==
    /\ phase = "verified" /\ build = "none"
    /\ build' = IF policy = "own" /\ affinity = "four" THEN "admitted" ELSE "rejected"
    /\ UNCHANGED <<phase, case, callVars, worldVars, baseVars, recordVars, policy, faults>>

\* sched_setaffinity, the archive injector, and the exec of the build.
Execute ==
    /\ build = "admitted"
    /\ \/ build' = "running" /\ UNCHANGED faults
       \/ build' \in {"rejected", "unexecuted"} /\ Fault
    /\ UNCHANGED <<phase, case, callVars, worldVars, baseVars, recordVars, policy>>

GateStep ==
    \/ Begin \/ Preflight \/ LoadInputs \/ SourceRecords \/ RegistryRecords \/ ArchiveRecords
    \/ Inventory \/ Launch \/ Collect \/ ExpireCall \/ SelectedInputs \/ CheckAgain \/ Compare
    \/ ParentAfter \/ FinalReport \/ Finish \/ Publish \/ ExitVerified \/ Expire \/ Fail
    \/ Admit \/ Execute

Next ==
    \/ GateStep \/ WriteFails \/ Cancel \/ LeaderForks \/ LeaderExits \/ HelperMoves
    \/ CpusChange \/ \E f \in Facets : Change(f)

Spec == Init /\ [][Next]_vars

\* The steps of the job are bounded by its deadlines.  Calls owe nothing.
FairSpec == Spec /\ WF_vars(GateStep)

(***************************************************************************)
(* What a policy promises                                                  *)
(***************************************************************************)

\* A policy appears once, over no other, after both records say so, and only when every
\* case ran, no render depended on the CPUs, and what the gate recorded stood still from
\* before the first native call until after the last: the two passes over inputs, source,
\* registries, archives and inventory are one snapshot.
PolicyIsEarned ==
    [][ policy' # policy =>
            /\ policy = "none"
            /\ report = "verified-metadata-only" /\ trace = "finished"
            /\ \A c \in 1..Len(Cases) : answers[c].render = c /\ answers[c].names # None
            /\ ~dependsOnCpus.render
            /\ ~disturbed
            /\ \A f \in Pinned : recorded[f] = 0 ]_vars

\* The build is admitted only by a gate that exited with zero, with the four CPUs its
\* cases were run under, and while no process of a native call is left that could change
\* what was verified (the runner kills each session before it reaps its leader).
BuildIsCertified ==
    [][ build' = "admitted" /\ build # "admitted" =>
            /\ phase = "verified" /\ policy = "own"
            /\ affinity = "four"
            /\ leader = "none" /\ helper = "none" ]_vars

\* The job ends with a failed gate, a refusal or the build, although a native call hangs
\* or a descendant of it keeps its output open.
GateEnds == <>(phase = "failed" \/ build \in {"running", "rejected", "unexecuted"})
=============================================================================
