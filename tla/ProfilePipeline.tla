--------------------------- MODULE ProfilePipeline ---------------------------
(***************************************************************************)
(* pgo-train, pgo-merge and the readers of windows-pgo.yml together.  The  *)
(* merge job needs the training job; it validates and merges the training  *)
(* artifact and publishes what it merged.                                  *)
(***************************************************************************)
EXTENDS ProfileTraining, ProfileCheckpoint

vars == <<trainVars, checkpointVars>>

TypeOK == TrainTypeOK /\ CheckpointTypeOK

Init == TrainInit /\ CheckpointInit

\* needs: pgo-train; without its artifact no attempt begins.
MergeJobs ==
    /\ train = "trained"
    /\ CheckpointNext \/ \E a \in Attempts : Merge(a, MergeAccepts)
    /\ UNCHANGED trainVars

Next ==
    \/ TrainNext /\ UNCHANGED checkpointVars
    \/ MergeJobs

Spec == Init /\ [][Next]_vars

FairSpec ==
    /\ Spec /\ TrainFairness /\ CheckpointFairness
    /\ \A a \in Attempts : WF_checkpointVars(Merge(a, MergeAccepts))

\* A profile that got past the merge, and so a committed one, comes from a training run
\* that exited with zero and was never stopped, and from raw profiles that their
\* processes had finished writing, at least one of them (record_training,
\* validate_training and the merge), whatever outlived mach.
PublishedIsTrained ==
    ((\E a \in Attempts : pc[a] \notin {"idle", "merge", "failed", "lost"}) \/ Committed) =>
        /\ stopping = "no"
        /\ mach = "zero" /\ command = "profileserver"
        /\ manifest # NoRaw
        /\ \A b \in Browsers : manifest[b] \in {"none", "whole"}

\* The training job ends although browsers ignore it or outlive it, a merge job ends
\* although an upload is never answered, and a reader ends.
EveryJobEnds ==
    /\ <>(train \in TrainOver)
    /\ \A j \in Attempts \cup Readers : Active(j) ~> ~Active(j)
=============================================================================
