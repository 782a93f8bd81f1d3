-------------------------- MODULE CheckpointStore --------------------------
(***************************************************************************)
(* What a checkpoint promises the workflows: a write-once record.  A stage *)
(* gets one content for good.  The record may be withdrawn and shown again *)
(* as long as no run has been told that the stage is finished; from then   *)
(* on it stays.  A run is answered while the record is visible; a reader   *)
(* that began while it was visible may end later, with the same content.   *)
(***************************************************************************)
CONSTANTS Records, Runs, Readers, None

VARIABLES value, visible, answered

storeSpecVars == <<value, visible, answered>>

StoreInit == value = None /\ visible = FALSE /\ answered = {}

Commit(record) ==
    /\ value \in {None, record}
    /\ value' = record
    /\ visible' = TRUE
    /\ UNCHANGED answered

Withdraw ==
    /\ visible
    /\ answered \cap Runs = {}
    /\ visible' = FALSE
    /\ UNCHANGED <<value, answered>>

Answer(j) ==
    /\ value # None
    /\ j \in Runs => visible
    /\ answered' = answered \cup {j}
    /\ UNCHANGED <<value, visible>>

StoreNext ==
    \/ \E record \in Records : Commit(record)
    \/ Withdraw
    \/ \E j \in Runs \cup Readers : Answer(j)

StoreSpec == StoreInit /\ [][StoreNext]_storeSpecVars
=============================================================================
