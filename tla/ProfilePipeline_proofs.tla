----------------------- MODULE ProfilePipeline_proofs -----------------------
(***************************************************************************)
(* What training, merge, publication and restoration of a profile promise  *)
(* for every number of browsers, attempts, readers, payloads and faults.   *)
(***************************************************************************)
EXTENDS ProfilePipeline, FiniteSetTheorems, TLAPS

USE TrainingAssumption, CheckpointAssumption DEF TrainingAssumption, CheckpointAssumption
USE DEF TrainFault, Fault, Goto, commandVars, processVars, resultVars, remoteVars

(***************************************************************************)
(* Types                                                                   *)
(***************************************************************************)

\* Training keeps its types.
LEMMA TrainTypeStep == TrainTypeOK /\ [TrainNext]_trainVars => TrainTypeOK'
<1> SUFFICES ASSUME TrainTypeOK, [TrainNext]_trainVars PROVE TrainTypeOK'
    OBVIOUS
<1> USE DEF TrainTypeOK, Exit, Raw, TrainOver
<1>1. CASE Launch
    BY <1>1 DEF Launch
<1>2. CASE Returned
    <2>1. status' \in [bootstrap : Exit, profileserver : Exit, timed_out : BOOLEAN]
        BY <1>2 DEF Returned
    <2> QED
        BY <1>2, <2>1 DEF Returned
<1>3. CASE Expired
    BY <1>3 DEF Expired
<1>4. CASE StopTree
    BY <1>4 DEF StopTree
<1>5. CASE StopWait
    <2> DEFINE timedOut == [status EXCEPT ![command] = "nonzero", !.timed_out = TRUE]
    <2>1. timedOut \in [bootstrap : Exit, profileserver : Exit, timed_out : BOOLEAN]
        <3>1. CASE command = "bootstrap"
            BY <3>1
        <3>2. CASE command = "profileserver"
            BY <3>2
        <3> QED
            BY <3>1, <3>2
    <2>2. /\ train' = "save"
          /\ status' = timedOut \/ UNCHANGED status
          /\ mach' \in {mach, "killed"}
          /\ UNCHANGED trainFaults \/ TrainFault
          /\ UNCHANGED <<command, stopping, browser, source, moving, errors, resultVars>>
        BY <1>5, Zenon DEF StopWait
    <2> QED
        <3> HIDE DEF timedOut
        <3> QED
            BY <2>1, <2>2
<1>6. CASE Save
    BY <1>6 DEF Save
<1>7. ASSUME NEW b \in Browsers, Move(b) PROVE TrainTypeOK'
    BY <1>7 DEF Move
<1>8. CASE MovesEnd
    BY <1>8 DEF MovesEnd
<1>9. CASE CheckLogs
    BY <1>9 DEF CheckLogs
<1>10. CASE Record
    BY <1>10 DEF Record
<1>11. CASE Upload
    <2>1. artifact' \in Artifact
        BY <1>11 DEF Upload, Artifact
    <2> QED
        BY <1>11, <2>1 DEF Upload, NoRaw
<1>12. CASE Interrupted
    BY <1>12 DEF Interrupted
<1>13. CASE TrainLost
    BY <1>13 DEF TrainLost
<1>14. CASE MachEnds
    BY <1>14 DEF MachEnds
<1>15. ASSUME NEW b \in Browsers, BrowserStarts(b) PROVE TrainTypeOK'
    BY <1>15 DEF BrowserStarts
<1>16. ASSUME NEW b \in Browsers, BrowserWrites(b) PROVE TrainTypeOK'
    BY <1>16 DEF BrowserWrites
<1>17. ASSUME NEW b \in Browsers, BrowserEnds(b) PROVE TrainTypeOK'
    BY <1>17 DEF BrowserEnds
<1>18. ASSUME NEW b \in Browsers, BrowserDies(b) PROVE TrainTypeOK'
    <2>1. errors' \in BOOLEAN
        BY <1>18, Zenon DEF BrowserDies
    <2>2. trainFaults' \in 0..MaxTrainFaults
        BY <1>18 DEF BrowserDies
    <2>3. browser' \in [Browsers -> {"none", "running", "writing", "gone"}]
        BY <1>18 DEF BrowserDies
    <2> QED
        BY <1>18, <2>1, <2>2, <2>3 DEF BrowserDies
<1>19. ASSUME NEW b \in Browsers, ArtifactDamaged(b) PROVE TrainTypeOK'
    <2>1. artifact \in Artifact
        BY <1>19 DEF ArtifactDamaged
    <2>2. artifact' = [artifact EXCEPT !.raw = [artifact.raw EXCEPT ![b] = "damaged"]]
        BY <1>19, <2>1 DEF ArtifactDamaged, Artifact
    <2>3. artifact' \in Artifact
        BY <2>1, <2>2 DEF Artifact
    <2> QED
        BY <1>19, <2>3 DEF ArtifactDamaged
<1>20. CASE UNCHANGED trainVars
    BY <1>20 DEF trainVars
<1> QED
    BY <1>1, <1>2, <1>3, <1>4, <1>5, <1>6, <1>7, <1>8, <1>9, <1>10, <1>11, <1>12, <1>13,
       <1>14, <1>15, <1>16, <1>17, <1>18, <1>19, <1>20 DEF TrainNext, JobStep

\* What the merge jobs, the server and the readers do, and the answer of one merge.
MergeStep(accepted) ==
    \/ CheckpointNext
    \/ \E a \in Attempts : Merge(a, accepted)
    \/ UNCHANGED checkpointVars

\* A request is for an asset.
RequestInv == \A a \in Attempts : request[a] # "none" => item[a] \in Names

\* So do publication and restoration, and every request stays one for an asset.
LEMMA CheckpointTypeStep ==
    ASSUME CheckpointTypeOK, RequestInv, NEW accepted, MergeStep(accepted)
    PROVE  CheckpointTypeOK' /\ RequestInv'
<1> USE DEF CheckpointTypeOK, RequestInv, AttemptOver, Names
<1>1. ASSUME NEW a \in Attempts, Begin(a) PROVE CheckpointTypeOK' /\ RequestInv'
    BY <1>1 DEF Begin
<1>2. ASSUME NEW a \in Attempts, Merge(a, accepted) PROVE CheckpointTypeOK' /\ RequestInv'
    BY <1>2 DEF Merge
<1>3. ASSUME NEW a \in Attempts, CreateRelease(a) PROVE CheckpointTypeOK' /\ RequestInv'
    BY <1>3 DEF CreateRelease
<1>4. ASSUME NEW a \in Attempts, List(a) PROVE CheckpointTypeOK' /\ RequestInv'
    BY <1>4 DEF List, Shown
<1>5. ASSUME NEW a \in Attempts, Compare(a) PROVE CheckpointTypeOK' /\ RequestInv'
    BY <1>5 DEF Compare
<1>6. ASSUME NEW a \in Attempts, Reuse(a) PROVE CheckpointTypeOK' /\ RequestInv'
    BY <1>6 DEF Reuse
<1>7. ASSUME NEW a \in Attempts, NEW n \in Names, Send(a, n) PROVE CheckpointTypeOK' /\ RequestInv'
    BY <1>7 DEF Send
<1>8. ASSUME NEW a \in Attempts, Answered(a) PROVE CheckpointTypeOK' /\ RequestInv'
    BY <1>8 DEF Answered
<1>9. ASSUME NEW a \in Attempts, UploadsEnd(a) PROVE CheckpointTypeOK' /\ RequestInv'
    BY <1>9 DEF UploadsEnd
<1>10. ASSUME NEW a \in Attempts, Verify(a) PROVE CheckpointTypeOK' /\ RequestInv'
    BY <1>10 DEF Verify
<1>11. ASSUME NEW a \in Attempts, AttemptFails(a) PROVE CheckpointTypeOK' /\ RequestInv'
    BY <1>11 DEF AttemptFails
<1>12. ASSUME NEW a \in Attempts, JobTimeout(a) PROVE CheckpointTypeOK' /\ RequestInv'
    BY <1>12 DEF JobTimeout
<1>13. ASSUME NEW a \in Attempts, Arrive(a) PROVE CheckpointTypeOK' /\ RequestInv'
    BY <1>13 DEF Arrive
<1>14. ASSUME NEW a \in Attempts, Store(a) PROVE CheckpointTypeOK' /\ RequestInv'
    <2>1. CASE asset' = [asset EXCEPT ![item[a]] = "right"] /\ UNCHANGED faults
        BY <1>14, <2>1 DEF Store
    <2>2. CASE Fault /\ asset' = [asset EXCEPT ![item[a]] = "damaged"]
        BY <1>14, <2>2 DEF Store
    <2> QED
        BY <1>14, <2>1, <2>2, Zenon DEF Store
<1>15. ASSUME NEW c \in Readers, RestoreListing(c) PROVE CheckpointTypeOK' /\ RequestInv'
    BY <1>15 DEF RestoreListing
<1>16. ASSUME NEW c \in Readers, Fetch(c) PROVE CheckpointTypeOK' /\ RequestInv'
    BY <1>16 DEF Fetch
<1>17. ASSUME NEW c \in Readers, Place(c) PROVE CheckpointTypeOK' /\ RequestInv'
    BY <1>17 DEF Place
<1>18. ASSUME NEW c \in Readers, Replace(c) PROVE CheckpointTypeOK' /\ RequestInv'
    BY <1>18 DEF Replace
<1>19. ASSUME NEW c \in Readers, ReaderFails(c) PROVE CheckpointTypeOK' /\ RequestInv'
    BY <1>19 DEF ReaderFails
<1>20. ASSUME NEW c \in Readers, RestoreAgain(c) PROVE CheckpointTypeOK' /\ RequestInv'
    BY <1>20 DEF RestoreAgain
<1>21. CASE UNCHANGED checkpointVars
    BY <1>21 DEF checkpointVars
<1> QED
    BY <1>1, <1>2, <1>3, <1>4, <1>5, <1>6, <1>7, <1>8, <1>9, <1>10, <1>11, <1>12,
       <1>13, <1>14, <1>15, <1>16, <1>17, <1>18, <1>19, <1>20, <1>21 DEF MergeStep,
       CheckpointNext, AttemptStep, ReaderStep

(***************************************************************************)
(* The prerelease                                                          *)
(***************************************************************************)

\* A name is stored under for one request at a time, and the registry is only sent, and so
\* only begins to exist, once the payloads are there with the profile's bytes.
StoreInv ==
    /\ \A a \in Attempts : request[a] = "storing" => asset[item[a]] = "starter"
    /\ \A a, b \in Attempts :
          request[a] = "storing" /\ request[b] = "storing" /\ item[a] = item[b] => a = b
    /\ \A a \in Attempts : pc[a] = "register" => Verified(Payloads)
    /\ \A a \in Attempts : item[a] = Registry => Verified(Payloads)
    /\ asset[Registry] # "absent" => Verified(Payloads)

\* The server only fills a free name and ends what it has begun.
LEMMA AssetStep ==
    ASSUME CheckpointTypeOK, RequestInv, StoreInv, NEW accepted, MergeStep(accepted)
    PROVE  \/ UNCHANGED asset
           \/ \E a \in Attempts :
                 /\ item[a] \in Names
                 /\ \/ asset[item[a]] = "absent"
                       /\ asset' = [asset EXCEPT ![item[a]] = "starter"]
                    \/ asset[item[a]] = "starter"
                       /\ \E v \in {"right", "damaged"} : asset' = [asset EXCEPT ![item[a]] = v]
<1> DEFINE Goal == \/ UNCHANGED asset
                   \/ \E a \in Attempts :
                         /\ item[a] \in Names
                         /\ \/ asset[item[a]] = "absent"
                               /\ asset' = [asset EXCEPT ![item[a]] = "starter"]
                            \/ asset[item[a]] = "starter"
                               /\ \E v \in {"right", "damaged"} :
                                     asset' = [asset EXCEPT ![item[a]] = v]
<1> SUFFICES Goal
    OBVIOUS
<1>1. ASSUME NEW a \in Attempts, Begin(a) PROVE Goal
    BY <1>1 DEF Begin
<1>2. ASSUME NEW a \in Attempts, Merge(a, accepted) PROVE Goal
    BY <1>2 DEF Merge
<1>3. ASSUME NEW a \in Attempts, CreateRelease(a) PROVE Goal
    BY <1>3 DEF CreateRelease
<1>4. ASSUME NEW a \in Attempts, List(a) PROVE Goal
    BY <1>4 DEF List
<1>5. ASSUME NEW a \in Attempts, Compare(a) PROVE Goal
    BY <1>5 DEF Compare
<1>6. ASSUME NEW a \in Attempts, Reuse(a) PROVE Goal
    BY <1>6 DEF Reuse
<1>7. ASSUME NEW a \in Attempts, NEW n \in Names, Send(a, n) PROVE Goal
    BY <1>7 DEF Send
<1>8. ASSUME NEW a \in Attempts, Answered(a) PROVE Goal
    BY <1>8 DEF Answered
<1>9. ASSUME NEW a \in Attempts, UploadsEnd(a) PROVE Goal
    BY <1>9 DEF UploadsEnd
<1>10. ASSUME NEW a \in Attempts, Verify(a) PROVE Goal
    BY <1>10 DEF Verify
<1>11. ASSUME NEW a \in Attempts, AttemptFails(a) PROVE Goal
    BY <1>11 DEF AttemptFails
<1>12. ASSUME NEW a \in Attempts, JobTimeout(a) PROVE Goal
    BY <1>12 DEF JobTimeout
<1>13. ASSUME NEW a \in Attempts, Arrive(a) PROVE Goal
    BY <1>13 DEF Arrive, RequestInv
<1>14. ASSUME NEW a \in Attempts, Store(a) PROVE Goal
    BY <1>14 DEF Store, RequestInv, StoreInv
<1>15. ASSUME NEW c \in Readers, RestoreListing(c) PROVE Goal
    BY <1>15 DEF RestoreListing
<1>16. ASSUME NEW c \in Readers, Fetch(c) PROVE Goal
    BY <1>16 DEF Fetch
<1>17. ASSUME NEW c \in Readers, Place(c) PROVE Goal
    BY <1>17 DEF Place
<1>18. ASSUME NEW c \in Readers, Replace(c) PROVE Goal
    BY <1>18 DEF Replace
<1>19. ASSUME NEW c \in Readers, ReaderFails(c) PROVE Goal
    BY <1>19 DEF ReaderFails
<1>20. ASSUME NEW c \in Readers, RestoreAgain(c) PROVE Goal
    BY <1>20 DEF RestoreAgain
<1>21. CASE UNCHANGED checkpointVars
    BY <1>21 DEF checkpointVars
<1> QED
    BY <1>1, <1>2, <1>3, <1>4, <1>5, <1>6, <1>7, <1>8, <1>9, <1>10, <1>11, <1>12,
       <1>13, <1>14, <1>15, <1>16, <1>17, <1>18, <1>19, <1>20, <1>21 DEF MergeStep,
       CheckpointNext, AttemptStep, ReaderStep

\* What is stored with the profile's bytes stays so.
LEMMA RightStays ==
    ASSUME CheckpointTypeOK, RequestInv, StoreInv, NEW accepted, MergeStep(accepted),
           NEW n \in Names, asset[n] = "right"
    PROVE  asset'[n] = "right"
<1>1. CASE UNCHANGED asset
    BY <1>1
<1>2. ASSUME NEW a \in Attempts, NEW v, item[a] \in Names, asset[item[a]] # "right",
             asset' = [asset EXCEPT ![item[a]] = v]
      PROVE  asset'[n] = "right"
    BY <1>2 DEF CheckpointTypeOK
<1> QED
    BY <1>1, <1>2, AssetStep

\* And so does what was verified, whoever acts next.
LEMMA VerifiedStays ==
    ASSUME CheckpointTypeOK, RequestInv, StoreInv, NEW accepted, MergeStep(accepted),
           NEW S \in SUBSET Names, Verified(S)
    PROVE  Verified(S)'
BY RightStays DEF Verified

\* StoreInv is kept by every step.
LEMMA StoreStep ==
    ASSUME CheckpointTypeOK, RequestInv, StoreInv, NEW accepted, MergeStep(accepted)
    PROVE  StoreInv'
<1>0. Verified(Payloads) => Verified(Payloads)'
    BY VerifiedStays DEF Names
<1>1. ASSUME NEW a \in Attempts, Begin(a) PROVE StoreInv'
    BY <1>0, <1>1 DEF Begin, StoreInv, CheckpointTypeOK, RequestInv, Names
<1>2. ASSUME NEW a \in Attempts, Merge(a, accepted) PROVE StoreInv'
    BY <1>0, <1>2 DEF Merge, StoreInv, CheckpointTypeOK, RequestInv, Names
<1>3. ASSUME NEW a \in Attempts, CreateRelease(a) PROVE StoreInv'
    BY <1>0, <1>3 DEF CreateRelease, StoreInv, CheckpointTypeOK, RequestInv, Names
<1>4. ASSUME NEW a \in Attempts, List(a) PROVE StoreInv'
    BY <1>0, <1>4 DEF List, StoreInv, CheckpointTypeOK, RequestInv, Names
<1>5. ASSUME NEW a \in Attempts, Compare(a) PROVE StoreInv'
    BY <1>0, <1>5 DEF Compare, StoreInv, CheckpointTypeOK, RequestInv, Names
<1>6. ASSUME NEW a \in Attempts, Reuse(a) PROVE StoreInv'
    BY <1>0, <1>6 DEF Reuse, StoreInv, CheckpointTypeOK, RequestInv, Names
<1>7. ASSUME NEW a \in Attempts, NEW n \in Names, Send(a, n) PROVE StoreInv'
    BY <1>0, <1>7 DEF Send, StoreInv, CheckpointTypeOK, RequestInv, Names
<1>8. ASSUME NEW a \in Attempts, Answered(a) PROVE StoreInv'
    BY <1>0, <1>8 DEF Answered, StoreInv, CheckpointTypeOK, RequestInv, Names
<1>9. ASSUME NEW a \in Attempts, UploadsEnd(a) PROVE StoreInv'
    BY <1>0, <1>9 DEF UploadsEnd, StoreInv, CheckpointTypeOK, RequestInv, Names
<1>10. ASSUME NEW a \in Attempts, Verify(a) PROVE StoreInv'
    BY <1>0, <1>10 DEF Verify, StoreInv, CheckpointTypeOK, RequestInv, Names
<1>11. ASSUME NEW a \in Attempts, AttemptFails(a) PROVE StoreInv'
    BY <1>0, <1>11 DEF AttemptFails, StoreInv, CheckpointTypeOK, RequestInv, Names
<1>12. ASSUME NEW a \in Attempts, JobTimeout(a) PROVE StoreInv'
    BY <1>0, <1>12 DEF JobTimeout, StoreInv, CheckpointTypeOK, RequestInv, Names
<1>13. ASSUME NEW a \in Attempts, Arrive(a) PROVE StoreInv'
    BY <1>0, <1>13 DEF Arrive, StoreInv, CheckpointTypeOK, RequestInv, Names
<1>14. ASSUME NEW a \in Attempts, Store(a) PROVE StoreInv'
    BY <1>0, <1>14 DEF Store, StoreInv, CheckpointTypeOK, RequestInv, Names
<1>15. ASSUME NEW c \in Readers, RestoreListing(c) PROVE StoreInv'
    BY <1>0, <1>15 DEF RestoreListing, StoreInv, CheckpointTypeOK, RequestInv, Names
<1>16. ASSUME NEW c \in Readers, Fetch(c) PROVE StoreInv'
    BY <1>0, <1>16 DEF Fetch, StoreInv, CheckpointTypeOK, RequestInv, Names
<1>17. ASSUME NEW c \in Readers, Place(c) PROVE StoreInv'
    BY <1>0, <1>17 DEF Place, StoreInv, CheckpointTypeOK, RequestInv, Names
<1>18. ASSUME NEW c \in Readers, Replace(c) PROVE StoreInv'
    BY <1>0, <1>18 DEF Replace, StoreInv, CheckpointTypeOK, RequestInv, Names
<1>19. ASSUME NEW c \in Readers, ReaderFails(c) PROVE StoreInv'
    BY <1>0, <1>19 DEF ReaderFails, StoreInv, CheckpointTypeOK, RequestInv, Names
<1>20. ASSUME NEW c \in Readers, RestoreAgain(c) PROVE StoreInv'
    BY <1>0, <1>20 DEF RestoreAgain, StoreInv, CheckpointTypeOK, RequestInv, Names
<1>21. CASE UNCHANGED checkpointVars
    BY <1>0, <1>21 DEF checkpointVars, StoreInv
<1> QED
    BY <1>1, <1>2, <1>3, <1>4, <1>5, <1>6, <1>7, <1>8, <1>9, <1>10, <1>11, <1>12,
       <1>13, <1>14, <1>15, <1>16, <1>17, <1>18, <1>19, <1>20, <1>21 DEF MergeStep,
       CheckpointNext, AttemptStep, ReaderStep

\* A request that was answered has left its asset in a final state, and so has an attempt
\* that ended well the registry; which of the two states publish does not look at.
SettledInv ==
    /\ \A a \in Attempts : request[a] = "stored" => asset[item[a]] \in {"right", "damaged"}
    /\ \A a \in Attempts : pc[a] = "published" => asset[Registry] \in {"right", "damaged"}

\* SettledInv is kept by every step.
LEMMA SettledStep ==
    ASSUME CheckpointTypeOK, RequestInv, StoreInv, SettledInv, NEW accepted,
           MergeStep(accepted)
    PROVE  SettledInv'
<1> USE DEF SettledInv, CheckpointTypeOK, RequestInv, Names
<1>1. ASSUME NEW a \in Attempts, Begin(a) PROVE SettledInv'
    BY <1>1 DEF Begin
<1>2. ASSUME NEW a \in Attempts, Merge(a, accepted) PROVE SettledInv'
    BY <1>2 DEF Merge
<1>3. ASSUME NEW a \in Attempts, CreateRelease(a) PROVE SettledInv'
    BY <1>3 DEF CreateRelease
<1>4. ASSUME NEW a \in Attempts, List(a) PROVE SettledInv'
    BY <1>4 DEF List
<1>5. ASSUME NEW a \in Attempts, Compare(a) PROVE SettledInv'
    BY <1>5 DEF Compare, Verified
<1>6. ASSUME NEW a \in Attempts, Reuse(a) PROVE SettledInv'
    BY <1>6 DEF Reuse
<1>7. ASSUME NEW a \in Attempts, NEW n \in Names, Send(a, n) PROVE SettledInv'
    BY <1>7 DEF Send
<1>8. ASSUME NEW a \in Attempts, Answered(a) PROVE SettledInv'
    BY <1>8 DEF Answered
<1>9. ASSUME NEW a \in Attempts, UploadsEnd(a) PROVE SettledInv'
    BY <1>9 DEF UploadsEnd
<1>10. ASSUME NEW a \in Attempts, Verify(a) PROVE SettledInv'
    BY <1>10 DEF Verify
<1>11. ASSUME NEW a \in Attempts, AttemptFails(a) PROVE SettledInv'
    BY <1>11 DEF AttemptFails
<1>12. ASSUME NEW a \in Attempts, JobTimeout(a) PROVE SettledInv'
    BY <1>12 DEF JobTimeout
<1>13. ASSUME NEW a \in Attempts, Arrive(a) PROVE SettledInv'
    BY <1>13 DEF Arrive
<1>14. ASSUME NEW a \in Attempts, Store(a) PROVE SettledInv'
    <2>1. asset[item[a]] = "starter" /\ item[a] \in Names
        BY <1>14 DEF Store, StoreInv
    <2>2. PICK v \in {"right", "damaged"} : asset' = [asset EXCEPT ![item[a]] = v]
        BY <1>14 DEF Store
    <2>3. request' = [request EXCEPT ![a] = "stored"] /\ UNCHANGED <<item, pc>>
        BY <1>14 DEF Store
    <2> QED
        BY <2>1, <2>2, <2>3
<1>15. ASSUME NEW c \in Readers, RestoreListing(c) PROVE SettledInv'
    BY <1>15 DEF RestoreListing
<1>16. ASSUME NEW c \in Readers, Fetch(c) PROVE SettledInv'
    BY <1>16 DEF Fetch
<1>17. ASSUME NEW c \in Readers, Place(c) PROVE SettledInv'
    BY <1>17 DEF Place
<1>18. ASSUME NEW c \in Readers, Replace(c) PROVE SettledInv'
    BY <1>18 DEF Replace
<1>19. ASSUME NEW c \in Readers, ReaderFails(c) PROVE SettledInv'
    BY <1>19 DEF ReaderFails
<1>20. ASSUME NEW c \in Readers, RestoreAgain(c) PROVE SettledInv'
    BY <1>20 DEF RestoreAgain
<1>21. CASE UNCHANGED checkpointVars
    BY <1>21 DEF checkpointVars
<1> QED
    BY <1>1, <1>2, <1>3, <1>4, <1>5, <1>6, <1>7, <1>8, <1>9, <1>10, <1>11, <1>12,
       <1>13, <1>14, <1>15, <1>16, <1>17, <1>18, <1>19, <1>20, <1>21 DEF MergeStep,
       CheckpointNext, AttemptStep, ReaderStep

\* One step of CommitIsFinal.
LEMMA CommitStep ==
    ASSUME CheckpointTypeOK, RequestInv, StoreInv, NEW accepted, MergeStep(accepted)
    PROVE  (asset'[Registry] = "right" => Committed') /\ (Committed => Committed')
<1>1. Committed => Committed'
    BY VerifiedStays DEF Committed
<1>2. StoreInv'
    BY StoreStep
<1>3. asset'[Registry] = "right" => Committed'
    BY <1>2 DEF StoreInv, Committed, Verified, Names
<1> QED
    BY <1>1, <1>3

(***************************************************************************)
(* The readers                                                             *)
(***************************************************************************)

\* A reader that has validated its downloads holds a committed bundle.
ReadInv ==
    \A c \in Readers :
        /\ pc[c] \in {"place", "replace"} => Committed
        /\ pc[c] = "replace" => destination[c] = "absent"
        /\ destination[c] = "bundle" => Committed
        /\ pc[c] = "restored" => destination[c] = "bundle"

\* ReadInv is kept by every step.
LEMMA ReadStep ==
    ASSUME CheckpointTypeOK, RequestInv, StoreInv, ReadInv, NEW accepted, MergeStep(accepted)
    PROVE  ReadInv'
<1>0. Committed => Committed'
    BY CommitStep
<1>1. ASSUME NEW a \in Attempts, Begin(a) PROVE ReadInv'
    BY <1>0, <1>1 DEF Begin, ReadInv, CheckpointTypeOK
<1>2. ASSUME NEW a \in Attempts, Merge(a, accepted) PROVE ReadInv'
    BY <1>0, <1>2 DEF Merge, ReadInv, CheckpointTypeOK
<1>3. ASSUME NEW a \in Attempts, CreateRelease(a) PROVE ReadInv'
    BY <1>0, <1>3 DEF CreateRelease, ReadInv, CheckpointTypeOK
<1>4. ASSUME NEW a \in Attempts, List(a) PROVE ReadInv'
    BY <1>0, <1>4 DEF List, ReadInv, CheckpointTypeOK
<1>5. ASSUME NEW a \in Attempts, Compare(a) PROVE ReadInv'
    BY <1>0, <1>5 DEF Compare, ReadInv, CheckpointTypeOK
<1>6. ASSUME NEW a \in Attempts, Reuse(a) PROVE ReadInv'
    BY <1>0, <1>6 DEF Reuse, ReadInv, CheckpointTypeOK
<1>7. ASSUME NEW a \in Attempts, NEW n \in Names, Send(a, n) PROVE ReadInv'
    BY <1>0, <1>7 DEF Send, ReadInv, CheckpointTypeOK
<1>8. ASSUME NEW a \in Attempts, Answered(a) PROVE ReadInv'
    BY <1>0, <1>8 DEF Answered, ReadInv, CheckpointTypeOK
<1>9. ASSUME NEW a \in Attempts, UploadsEnd(a) PROVE ReadInv'
    BY <1>0, <1>9 DEF UploadsEnd, ReadInv, CheckpointTypeOK
<1>10. ASSUME NEW a \in Attempts, Verify(a) PROVE ReadInv'
    BY <1>0, <1>10 DEF Verify, ReadInv, CheckpointTypeOK
<1>11. ASSUME NEW a \in Attempts, AttemptFails(a) PROVE ReadInv'
    BY <1>0, <1>11 DEF AttemptFails, ReadInv, CheckpointTypeOK
<1>12. ASSUME NEW a \in Attempts, JobTimeout(a) PROVE ReadInv'
    BY <1>0, <1>12 DEF JobTimeout, ReadInv, CheckpointTypeOK
<1>13. ASSUME NEW a \in Attempts, Arrive(a) PROVE ReadInv'
    BY <1>0, <1>13 DEF Arrive, ReadInv, CheckpointTypeOK
<1>14. ASSUME NEW a \in Attempts, Store(a) PROVE ReadInv'
    BY <1>0, <1>14 DEF Store, ReadInv, CheckpointTypeOK
<1>15. ASSUME NEW c \in Readers, RestoreListing(c) PROVE ReadInv'
    BY <1>0, <1>15 DEF RestoreListing, ReadInv, CheckpointTypeOK
<1>16. ASSUME NEW c \in Readers, Fetch(c) PROVE ReadInv'
    BY <1>0, <1>16 DEF Fetch, ReadInv, CheckpointTypeOK, Committed
<1>17. ASSUME NEW c \in Readers, Place(c) PROVE ReadInv'
    BY <1>0, <1>17 DEF Place, ReadInv, CheckpointTypeOK
<1>18. ASSUME NEW c \in Readers, Replace(c) PROVE ReadInv'
    BY <1>0, <1>18 DEF Replace, ReadInv, CheckpointTypeOK
<1>19. ASSUME NEW c \in Readers, ReaderFails(c) PROVE ReadInv'
    BY <1>0, <1>19 DEF ReaderFails, ReadInv, CheckpointTypeOK
<1>20. ASSUME NEW c \in Readers, RestoreAgain(c) PROVE ReadInv'
    BY <1>0, <1>20 DEF RestoreAgain, ReadInv, CheckpointTypeOK
<1>21. CASE UNCHANGED checkpointVars
    BY <1>0, <1>21 DEF checkpointVars, ReadInv
<1> QED
    BY <1>1, <1>2, <1>3, <1>4, <1>5, <1>6, <1>7, <1>8, <1>9, <1>10, <1>11, <1>12,
       <1>13, <1>14, <1>15, <1>16, <1>17, <1>18, <1>19, <1>20, <1>21 DEF MergeStep,
       CheckpointNext, AttemptStep, ReaderStep

(***************************************************************************)
(* Training                                                                *)
(***************************************************************************)

\* The profile server has exited with zero only after an undisturbed wait, and the job
\* goes on to its logs, its record and its artifact only then.
TrainInv ==
    /\ train \in {"launch", "wait"} => stopping = "no" /\ status.profileserver = "none"
    /\ status.profileserver = "zero" =>
          /\ stopping = "no" /\ mach = "zero" /\ command = "profileserver"
          /\ train \notin {"launch", "wait", "stop", "stop_wait"}
    /\ train \in {"logs", "record", "upload", "trained"} => status.profileserver = "zero"
    /\ train \in {"upload", "trained"} => manifest # NoRaw
    /\ artifact # Missing => train = "trained" /\ artifact.manifest = manifest

\* TrainInv is kept by every step of training.
LEMMA TrainStep == TrainTypeOK /\ TrainInv /\ [TrainNext]_trainVars => TrainInv'
<1> SUFFICES ASSUME TrainTypeOK, TrainInv, [TrainNext]_trainVars PROVE TrainInv'
    OBVIOUS
<1> USE DEF TrainInv, TrainTypeOK, TrainOver, Exit
<1>1. CASE Launch
    BY <1>1 DEF Launch
<1>2. CASE Returned
    BY <1>2 DEF Returned
<1>3. CASE Expired
    BY <1>3 DEF Expired
<1>4. CASE StopTree
    BY <1>4 DEF StopTree
<1>5. CASE StopWait
    <2> DEFINE timedOut == [status EXCEPT ![command] = "nonzero", !.timed_out = TRUE]
    <2>1. timedOut.profileserver # "zero" \/ timedOut.profileserver = status.profileserver
        <3>1. CASE command = "bootstrap"
            BY <3>1
        <3>2. CASE command = "profileserver"
            BY <3>2
        <3> QED
            BY <3>1, <3>2
    <2>2. /\ train = "stop_wait" /\ train' = "save"
          /\ status' = timedOut \/ UNCHANGED status
          /\ UNCHANGED <<command, stopping, artifact, manifest>>
        BY <1>5, Zenon DEF StopWait
    <2> QED
        <3> HIDE DEF timedOut
        <3> QED
            BY <2>1, <2>2
<1>6. CASE Save
    BY <1>6 DEF Save
<1>7. ASSUME NEW b \in Browsers, Move(b) PROVE TrainInv'
    BY <1>7 DEF Move
<1>8. CASE MovesEnd
    BY <1>8 DEF MovesEnd
<1>9. CASE CheckLogs
    BY <1>9 DEF CheckLogs
<1>10. CASE Record
    BY <1>10 DEF Record
<1>11. CASE Upload
    BY <1>11 DEF Upload
<1>12. CASE Interrupted
    BY <1>12 DEF Interrupted
<1>13. CASE TrainLost
    BY <1>13 DEF TrainLost
<1>14. CASE MachEnds
    BY <1>14 DEF MachEnds
<1>15. ASSUME NEW b \in Browsers, BrowserStarts(b) PROVE TrainInv'
    BY <1>15 DEF BrowserStarts
<1>16. ASSUME NEW b \in Browsers, BrowserWrites(b) PROVE TrainInv'
    BY <1>16 DEF BrowserWrites
<1>17. ASSUME NEW b \in Browsers, BrowserEnds(b) PROVE TrainInv'
    BY <1>17 DEF BrowserEnds
<1>18. ASSUME NEW b \in Browsers, BrowserDies(b) PROVE TrainInv'
    BY <1>18 DEF BrowserDies
<1>19. ASSUME NEW b \in Browsers, ArtifactDamaged(b) PROVE TrainInv'
    BY <1>19 DEF ArtifactDamaged
<1>20. CASE UNCHANGED trainVars
    BY <1>20 DEF trainVars
<1> QED
    BY <1>1, <1>2, <1>3, <1>4, <1>5, <1>6, <1>7, <1>8, <1>9, <1>10, <1>11, <1>12,
       <1>13, <1>14, <1>15, <1>16, <1>17, <1>18, <1>19, <1>20 DEF TrainNext, JobStep

(***************************************************************************)
(* The jobs together                                                       *)
(***************************************************************************)

\* What PublishedIsTrained concludes.
Trained ==
    /\ train = "trained"
    /\ stopping = "no"
    /\ mach = "zero" /\ command = "profileserver"
    /\ manifest # NoRaw
    /\ \A b \in Browsers : manifest[b] \in {"none", "whole"}

Merged(a) == pc[a] \notin {"idle", "merge", "failed", "lost"}

\* Nothing is sent or stored before an attempt has got past its merge.
LinkInv ==
    /\ \A a \in Attempts : Merged(a) \/ request[a] # "none" => Trained
    /\ \A n \in Names : asset[n] # "absent" => Trained

Inv ==
    /\ TrainTypeOK /\ TrainInv
    /\ CheckpointTypeOK /\ RequestInv /\ StoreInv /\ SettledInv /\ ReadInv
    /\ LinkInv

\* The initial states.
LEMMA InitInv == Init => Inv
<1> SUFFICES ASSUME Init PROVE Inv
    OBVIOUS
<1> USE DEF Init, TrainInit, CheckpointInit
<1>1. TrainTypeOK
    <2>1. NoRaw \in Raw /\ 0 \in 0..MaxTrainFaults
        BY DEF NoRaw, Raw
    <2>2. status \in [bootstrap : Exit, profileserver : Exit, timed_out : BOOLEAN]
        BY DEF Exit
    <2>3. browser \in [Browsers -> {"none", "running", "writing", "gone"}]
        OBVIOUS
    <2> QED
        BY <2>1, <2>2, <2>3 DEF TrainTypeOK
<1>2. TrainInv
    BY DEF TrainInv
<1>3. CheckpointTypeOK /\ RequestInv
    <2>1. /\ asset \in [Names -> {"absent", "starter", "right", "damaged"}]
          /\ item \in [Attempts -> Names \cup {Nothing}]
          /\ request \in [Attempts -> {"none", "sent", "storing", "stored", "refused"}]
        OBVIOUS
    <2>2. pc \in [Attempts \cup Readers -> {"idle"}]
        OBVIOUS
    <2>3. destination \in [Readers -> {"absent", "empty", "other", "bundle"}]
        <3>1. destination \in [Readers -> {"empty", "other"}]
            OBVIOUS
        <3> QED
            BY <3>1
    <2>4. faults \in 0..MaxFaults
        OBVIOUS
    <2>5. RequestInv
        BY DEF RequestInv
    <2> QED
        BY <2>1, <2>2, <2>3, <2>4, <2>5 DEF CheckpointTypeOK
<1>4. StoreInv
    BY DEF StoreInv, Names
<1>5. ReadInv
    BY DEF ReadInv
<1>6. LinkInv
    BY DEF LinkInv, Merged
<1>7. SettledInv
    BY DEF SettledInv
<1> QED
    BY <1>1, <1>2, <1>3, <1>4, <1>5, <1>6, <1>7 DEF Inv

\* A finished training run stays as it is.
LEMMA TrainedStays == Inv /\ Trained /\ [TrainNext]_trainVars => Trained'
<1> SUFFICES ASSUME Inv, Trained, [TrainNext]_trainVars PROVE Trained'
    OBVIOUS
<1> USE DEF Trained, Inv, TrainOver
<1>1. CASE Launch
    BY <1>1 DEF Launch
<1>2. CASE Returned
    BY <1>2 DEF Returned
<1>3. CASE Expired
    BY <1>3 DEF Expired
<1>4. CASE StopTree
    BY <1>4 DEF StopTree
<1>5. CASE StopWait
    BY <1>5 DEF StopWait
<1>6. CASE Save
    BY <1>6 DEF Save
<1>7. ASSUME NEW b \in Browsers, Move(b) PROVE Trained'
    BY <1>7 DEF Move
<1>8. CASE MovesEnd
    BY <1>8 DEF MovesEnd
<1>9. CASE CheckLogs
    BY <1>9 DEF CheckLogs
<1>10. CASE Record
    BY <1>10 DEF Record
<1>11. CASE Upload
    BY <1>11 DEF Upload
<1>12. CASE Interrupted
    BY <1>12 DEF Interrupted
<1>13. CASE TrainLost
    BY <1>13 DEF TrainLost
<1>14. CASE MachEnds
    BY <1>14 DEF MachEnds
<1>15. ASSUME NEW b \in Browsers, BrowserStarts(b) PROVE Trained'
    BY <1>15 DEF BrowserStarts
<1>16. ASSUME NEW b \in Browsers, BrowserWrites(b) PROVE Trained'
    BY <1>16 DEF BrowserWrites
<1>17. ASSUME NEW b \in Browsers, BrowserEnds(b) PROVE Trained'
    BY <1>17 DEF BrowserEnds
<1>18. ASSUME NEW b \in Browsers, BrowserDies(b) PROVE Trained'
    BY <1>18 DEF BrowserDies
<1>19. ASSUME NEW b \in Browsers, ArtifactDamaged(b) PROVE Trained'
    BY <1>19 DEF ArtifactDamaged
<1>20. CASE UNCHANGED trainVars
    BY <1>20 DEF trainVars
<1> QED
    BY <1>1, <1>2, <1>3, <1>4, <1>5, <1>6, <1>7, <1>8, <1>9, <1>10, <1>11, <1>12,
       <1>13, <1>14, <1>15, <1>16, <1>17, <1>18, <1>19, <1>20 DEF TrainNext, JobStep

\* The merge accepts only what a sound training run has recorded.
LEMMA AcceptedIsTrained == Inv /\ MergeAccepts => Trained
<1> SUFFICES ASSUME Inv, MergeAccepts PROVE Trained
    OBVIOUS
<1> USE DEF Inv, MergeAccepts
<1>1. artifact \in Artifact /\ artifact.manifest = manifest /\ train = "trained"
    BY DEF TrainInv, TrainTypeOK
<1>2. /\ stopping = "no" /\ mach = "zero" /\ command = "profileserver"
      /\ manifest # NoRaw
    BY <1>1 DEF TrainInv
<1>3. \A b \in Browsers : manifest[b] \in {"none", "whole"}
    <2>1. manifest \in Raw /\ artifact.raw = manifest
        BY <1>1, Zenon DEF TrainTypeOK
    <2>2. \A b \in Browsers : manifest[b] # "partial"
        BY <2>1
    <2> QED
        BY <2>1, <2>2 DEF Raw
<1> QED
    BY <1>1, <1>2, <1>3 DEF Trained

\* With a training run already accepted the checkpoint changes nothing that matters.
LEMMA LinkStep ==
    Inv /\ MergeStep(MergeAccepts) /\ UNCHANGED trainVars => LinkInv'
<1> SUFFICES ASSUME Inv, MergeStep(MergeAccepts), UNCHANGED trainVars PROVE LinkInv'
    OBVIOUS
<1>0. Trained <=> Trained'
    BY DEF Trained, trainVars
<1> DEFINE accepted == MergeAccepts
<1>1. ASSUME NEW a \in Attempts, Begin(a) PROVE LinkInv'
    BY <1>0, <1>1 DEF Begin, LinkInv, Merged, Inv, CheckpointTypeOK, RequestInv
<1>2. ASSUME NEW a \in Attempts, Merge(a, accepted) PROVE LinkInv'
    BY <1>0, <1>2, AcceptedIsTrained DEF Merge, LinkInv, Merged, Inv, CheckpointTypeOK
<1>3. ASSUME NEW a \in Attempts, CreateRelease(a) PROVE LinkInv'
    BY <1>0, <1>3 DEF CreateRelease, LinkInv, Merged, Inv, CheckpointTypeOK, RequestInv
<1>4. ASSUME NEW a \in Attempts, List(a) PROVE LinkInv'
    BY <1>0, <1>4 DEF List, LinkInv, Merged, Inv, CheckpointTypeOK, RequestInv
<1>5. ASSUME NEW a \in Attempts, Compare(a) PROVE LinkInv'
    BY <1>0, <1>5 DEF Compare, LinkInv, Merged, Inv, CheckpointTypeOK, RequestInv
<1>6. ASSUME NEW a \in Attempts, Reuse(a) PROVE LinkInv'
    BY <1>0, <1>6 DEF Reuse, LinkInv, Merged, Inv, CheckpointTypeOK, RequestInv
<1>7. ASSUME NEW a \in Attempts, NEW n \in Names, Send(a, n) PROVE LinkInv'
    BY <1>0, <1>7 DEF Send, LinkInv, Merged, Inv, CheckpointTypeOK, RequestInv
<1>8. ASSUME NEW a \in Attempts, Answered(a) PROVE LinkInv'
    BY <1>0, <1>8 DEF Answered, LinkInv, Merged, Inv, CheckpointTypeOK, RequestInv
<1>9. ASSUME NEW a \in Attempts, UploadsEnd(a) PROVE LinkInv'
    BY <1>0, <1>9 DEF UploadsEnd, LinkInv, Merged, Inv, CheckpointTypeOK, RequestInv
<1>10. ASSUME NEW a \in Attempts, Verify(a) PROVE LinkInv'
    BY <1>0, <1>10 DEF Verify, LinkInv, Merged, Inv, CheckpointTypeOK, RequestInv
<1>11. ASSUME NEW a \in Attempts, AttemptFails(a) PROVE LinkInv'
    BY <1>0, <1>11 DEF AttemptFails, LinkInv, Merged, Inv, CheckpointTypeOK, RequestInv
<1>12. ASSUME NEW a \in Attempts, JobTimeout(a) PROVE LinkInv'
    BY <1>0, <1>12 DEF JobTimeout, LinkInv, Merged, Inv, CheckpointTypeOK, RequestInv
<1>13. ASSUME NEW a \in Attempts, Arrive(a) PROVE LinkInv'
    BY <1>0, <1>13 DEF Arrive, LinkInv, Merged, Inv, CheckpointTypeOK, RequestInv
<1>14. ASSUME NEW a \in Attempts, Store(a) PROVE LinkInv'
    BY <1>0, <1>14 DEF Store, LinkInv, Merged, Inv, CheckpointTypeOK, RequestInv
<1>15. ASSUME NEW c \in Readers, RestoreListing(c) PROVE LinkInv'
    BY <1>0, <1>15 DEF RestoreListing, LinkInv, Merged, Inv, CheckpointTypeOK, RequestInv
<1>16. ASSUME NEW c \in Readers, Fetch(c) PROVE LinkInv'
    BY <1>0, <1>16 DEF Fetch, LinkInv, Merged, Inv, CheckpointTypeOK, RequestInv
<1>17. ASSUME NEW c \in Readers, Place(c) PROVE LinkInv'
    BY <1>0, <1>17 DEF Place, LinkInv, Merged, Inv, CheckpointTypeOK, RequestInv
<1>18. ASSUME NEW c \in Readers, Replace(c) PROVE LinkInv'
    BY <1>0, <1>18 DEF Replace, LinkInv, Merged, Inv, CheckpointTypeOK, RequestInv
<1>19. ASSUME NEW c \in Readers, ReaderFails(c) PROVE LinkInv'
    BY <1>0, <1>19 DEF ReaderFails, LinkInv, Merged, Inv, CheckpointTypeOK, RequestInv
<1>20. ASSUME NEW c \in Readers, RestoreAgain(c) PROVE LinkInv'
    BY <1>0, <1>20 DEF RestoreAgain, LinkInv, Merged, Inv, CheckpointTypeOK, RequestInv
<1>21. CASE UNCHANGED checkpointVars
    BY <1>0, <1>21 DEF checkpointVars, LinkInv, Merged, Inv
<1> QED
    BY <1>1, <1>2, <1>3, <1>4, <1>5, <1>6, <1>7, <1>8, <1>9, <1>10, <1>11, <1>12,
       <1>13, <1>14, <1>15, <1>16, <1>17, <1>18, <1>19, <1>20, <1>21 DEF MergeStep,
       CheckpointNext, AttemptStep, ReaderStep

\* A step of the training job, or of a merge job and a reader after it.
LEMMA Split ==
    [Next]_vars => \/ [TrainNext]_trainVars /\ UNCHANGED checkpointVars
                   \/ MergeStep(MergeAccepts) /\ UNCHANGED trainVars
BY DEF Next, MergeJobs, MergeStep, vars

\* The steps of all jobs.
LEMMA NextInv == Inv /\ [Next]_vars => Inv'
<1> SUFFICES ASSUME Inv, [Next]_vars PROVE Inv'
    OBVIOUS
<1>1. CASE [TrainNext]_trainVars /\ UNCHANGED checkpointVars
    <2>1. TrainTypeOK' /\ TrainInv'
        BY <1>1, TrainTypeStep, TrainStep DEF Inv
    <2>2. CheckpointTypeOK' /\ RequestInv' /\ StoreInv' /\ SettledInv' /\ ReadInv'
        BY <1>1 DEF Inv, checkpointVars, CheckpointTypeOK, RequestInv, StoreInv, SettledInv,
                    ReadInv, Verified, Committed
    <2>3. LinkInv'
        BY <1>1, TrainedStays DEF Inv, checkpointVars, LinkInv, Merged
    <2> QED
        BY <2>1, <2>2, <2>3 DEF Inv
<1>2. CASE MergeStep(MergeAccepts) /\ UNCHANGED trainVars
    <2>1. TrainTypeOK' /\ TrainInv'
        BY <1>2 DEF Inv, trainVars, TrainTypeOK, TrainInv
    <2>2. CheckpointTypeOK' /\ RequestInv'
        BY <1>2, CheckpointTypeStep DEF Inv
    <2>3. StoreInv'
        BY <1>2, StoreStep DEF Inv
    <2>4. ReadInv'
        BY <1>2, ReadStep DEF Inv
    <2>5. LinkInv'
        BY <1>2, LinkStep DEF Inv
    <2>6. SettledInv'
        BY <1>2, SettledStep DEF Inv
    <2> QED
        BY <2>1, <2>2, <2>3, <2>4, <2>5, <2>6 DEF Inv
<1> QED
    BY <1>1, <1>2, Split

\* The inductive invariant: types, what training has recorded, what the prerelease holds,
\* what a reader relies on and what ties the merge jobs to the training job.
THEOREM Inductive == Spec => []Inv
<1> QED
    BY InitInv, NextInv, PTL DEF Spec

(***************************************************************************)
(* Results                                                                 *)
(***************************************************************************)

\* Every variable of training, publication and restoration keeps its type.
THEOREM TypeCorrect == Spec => []TypeOK
<1>1. Inv => TypeOK
    BY DEF Inv, TypeOK
<1> QED
    BY <1>1, Inductive, PTL

\* A profile that got past its merge comes from an undisturbed training run and from raw
\* profiles that were finished before they were recorded (train-pgo.ps1, record_training,
\* validate_training), whatever is left running and however an attempt was interrupted.
THEOREM PublishedTrained == Spec => []PublishedIsTrained
<1>1. Inv => PublishedIsTrained
    BY DEF Inv, LinkInv, Merged, Trained, PublishedIsTrained, Committed, Verified, Names
<1> QED
    BY <1>1, Inductive, PTL

\* No step touches a directory that holds something.
LEMMA FilledStep ==
    ASSUME CheckpointTypeOK, ReadInv, NEW accepted, MergeStep(accepted),
           NEW c \in Readers, destination[c] \in {"other", "bundle"}
    PROVE  destination'[c] = destination[c]
<1> USE DEF CheckpointTypeOK, ReadInv
<1>1. ASSUME NEW d \in Readers, Place(d) PROVE destination'[c] = destination[c]
    BY <1>1 DEF Place
<1>2. ASSUME NEW d \in Readers, Replace(d) PROVE destination'[c] = destination[c]
    BY <1>2 DEF Replace
<1>3. CASE ~ \E d \in Readers : Place(d) \/ Replace(d)
    BY <1>3 DEF MergeStep, CheckpointNext, AttemptStep, ReaderStep, Begin, Merge,
       CreateRelease, List, Compare, Reuse, Send, Answered, UploadsEnd, Verify, AttemptFails,
       JobTimeout, Arrive, Store, RestoreListing, Fetch, ReaderFails, RestoreAgain,
       checkpointVars
<1> QED
    BY <1>1, <1>2, <1>3

\* A reader's directory never holds a part of a bundle or one that is not committed, and a
\* directory that holds something is never changed (restore validates in a temporary
\* directory and compares), with any number of attempts, readers and interruptions.
THEOREM Restored == Spec => RestoredWhole
<1> DEFINE Whole == \A c \in Readers :
                        /\ destination[c] = "bundle" => Committed
                        /\ pc[c] = "restored" => destination[c] = "bundle"
           Kept == \A c \in Readers :
                       destination[c] \in {"other", "bundle"} => destination'[c] = destination[c]
<1>1. Inv => Whole
    BY DEF Inv, ReadInv
<1>2. Inv /\ [Next]_vars => [Kept]_destination
    <2> SUFFICES ASSUME Inv, [Next]_vars PROVE [Kept]_destination
        OBVIOUS
    <2>1. CASE UNCHANGED checkpointVars
        BY <2>1 DEF checkpointVars
    <2>2. CASE MergeStep(MergeAccepts)
        BY <2>2, FilledStep DEF Inv
    <2> QED
        BY <2>1, <2>2, Split
<1> HIDE DEF Whole, Kept
<1>3. RestoredWhole <=> []Whole /\ [][Kept]_destination
    BY DEF RestoredWhole, Whole, Kept
<1> QED
    BY <1>1, <1>2, <1>3, Inductive, PTL DEF Spec

\* The registry commits a profile and a committed profile is never touched again, with any
\* number of attempts and requests that arrive late (publish).
THEOREM CommitFinal == Spec => CommitIsFinal
<1> DEFINE Final == /\ asset'[Registry] = "right" => Committed'
                    /\ Committed => Committed'
<1>1. Inv /\ [Next]_vars => [Final]_checkpointVars
    <2> SUFFICES ASSUME Inv, [Next]_vars PROVE [Final]_checkpointVars
        OBVIOUS
    <2>1. CASE UNCHANGED checkpointVars
        BY <2>1
    <2>2. CASE MergeStep(MergeAccepts)
        BY <2>2, CommitStep DEF Inv
    <2> QED
        BY <2>1, <2>2, Split
<1> QED
    BY <1>1, Inductive, PTL DEF Spec, CommitIsFinal

(***************************************************************************)
(* The write-once record                                                   *)
(***************************************************************************)

\* A registry with its right bytes is a committed profile.
LEMMA ShownIsCommitted ==
    StoreInv => /\ (asset[Registry] = "right") = Committed
                /\ Profile = IF asset[Registry] = "right" THEN "bundle" ELSE "nothing"
BY DEF StoreInv, Profile, Committed, Verified, Names

\* A step that leaves the registry alone gives the profile to at most one more job, and
\* only from a registry with its right bytes.
LEMMA ServedStep ==
    ASSUME Inv, NEW accepted, MergeStep(accepted), asset'[Registry] = asset[Registry]
    PROVE  \/ Served' = Served
           \/ /\ asset[Registry] = "right"
              /\ \E j \in Attempts \cup Readers : Served' = Served \cup {j}
<1> DEFINE Goal == \/ Served' = Served
                   \/ /\ asset[Registry] = "right"
                      /\ \E j \in Attempts \cup Readers : Served' = Served \cup {j}
<1> SUFFICES Goal
    OBVIOUS
<1> USE DEF Inv, CheckpointTypeOK, Served, AttemptOver, ReaderOver, Active
<1>1. ASSUME NEW a \in Attempts, Begin(a) PROVE Goal
    BY <1>1 DEF Begin
<1>2. ASSUME NEW a \in Attempts, Merge(a, accepted) PROVE Goal
    BY <1>2 DEF Merge
<1>3. ASSUME NEW a \in Attempts, CreateRelease(a) PROVE Goal
    BY <1>3 DEF CreateRelease
<1>4. ASSUME NEW a \in Attempts, List(a) PROVE Goal
    BY <1>4 DEF List
<1>5. ASSUME NEW a \in Attempts, Compare(a) PROVE Goal
    <2>1. CASE Verified(Names)
        BY <1>5, <2>1 DEF Compare, Verified, Names
    <2>2. CASE ~Verified(Names)
        BY <1>5, <2>2 DEF Compare
    <2> QED
        BY <2>1, <2>2
<1>6. ASSUME NEW a \in Attempts, Reuse(a) PROVE Goal
    BY <1>6 DEF Reuse
<1>7. ASSUME NEW a \in Attempts, NEW n \in Names, Send(a, n) PROVE Goal
    BY <1>7 DEF Send
<1>8. ASSUME NEW a \in Attempts, Answered(a) PROVE Goal
    <2>1. CASE request[a] = "stored" /\ item[a] = Registry
        <3>1. pc' = [pc EXCEPT ![a] = "published"] /\ UNCHANGED <<asset, destination>>
            BY <1>8, <2>1 DEF Answered
        <3>2. asset[Registry] \in {"right", "damaged"} /\ pc[a] # "published"
            BY <1>8, <2>1 DEF Answered, SettledInv
        <3> QED
            BY <3>1, <3>2
    <2>2. CASE ~(request[a] = "stored" /\ item[a] = Registry)
        BY <1>8, <2>2 DEF Answered
    <2> QED
        BY <2>1, <2>2
<1>9. ASSUME NEW a \in Attempts, UploadsEnd(a) PROVE Goal
    BY <1>9 DEF UploadsEnd
<1>10. ASSUME NEW a \in Attempts, Verify(a) PROVE Goal
    BY <1>10 DEF Verify
<1>11. ASSUME NEW a \in Attempts, AttemptFails(a) PROVE Goal
    BY <1>11 DEF AttemptFails
<1>12. ASSUME NEW a \in Attempts, JobTimeout(a) PROVE Goal
    BY <1>12 DEF JobTimeout
<1>13. ASSUME NEW a \in Attempts, Arrive(a) PROVE Goal
    BY <1>13 DEF Arrive
<1>14. ASSUME NEW a \in Attempts, Store(a) PROVE Goal
    BY <1>14 DEF Store
<1>15. ASSUME NEW c \in Readers, RestoreListing(c) PROVE Goal
    BY <1>15 DEF RestoreListing
<1>16. ASSUME NEW c \in Readers, Fetch(c) PROVE Goal
    BY <1>16 DEF Fetch
<1>17. ASSUME NEW c \in Readers, Place(c) PROVE Goal
    BY <1>17 DEF Place
<1>18. ASSUME NEW c \in Readers, Replace(c) PROVE Goal
    <2>1. asset[Registry] = "right"
        BY <1>18 DEF Replace, ReadInv, Committed, Verified, Names
    <2>2. Served' = Served \cup {c}
        BY <1>18 DEF Replace
    <2> QED
        BY <2>1, <2>2
<1>19. ASSUME NEW c \in Readers, ReaderFails(c) PROVE Goal
    BY <1>19 DEF ReaderFails
<1>20. ASSUME NEW c \in Readers, RestoreAgain(c) PROVE Goal
    BY <1>20 DEF RestoreAgain
<1>21. CASE UNCHANGED checkpointVars
    BY <1>21 DEF checkpointVars
<1> QED
    BY <1>1, <1>2, <1>3, <1>4, <1>5, <1>6, <1>7, <1>8, <1>9, <1>10, <1>11, <1>12,
       <1>13, <1>14, <1>15, <1>16, <1>17, <1>18, <1>19, <1>20, <1>21 DEF MergeStep,
       CheckpointNext, AttemptStep, ReaderStep

\* Every step is a step of the write-once record, or leaves it alone.
LEMMA StepRefines ==
    ASSUME Inv, Inv', [Next]_vars
    PROVE  Promise!StoreNext \/ UNCHANGED <<Profile, asset[Registry] = "right", Served>>
<1> DEFINE Goal == Promise!StoreNext
                   \/ UNCHANGED <<Profile, asset[Registry] = "right", Served>>
<1> SUFFICES Goal
    OBVIOUS
<1>a. Profile = IF asset[Registry] = "right" THEN "bundle" ELSE "nothing"
    BY ShownIsCommitted DEF Inv
<1>b. StoreInv'
    BY DEF Inv
<1>c. ((asset[Registry] = "right") = Committed
       /\ Profile = IF asset[Registry] = "right" THEN "bundle" ELSE "nothing")'
    BY <1>b, ShownIsCommitted, PTL
<1>0. /\ Profile = IF asset[Registry] = "right" THEN "bundle" ELSE "nothing"
      /\ Profile' = IF asset'[Registry] = "right" THEN "bundle" ELSE "nothing"
    BY <1>a, <1>c
<1>1. CASE UNCHANGED checkpointVars
    BY <1>1, <1>0 DEF checkpointVars, Served
<1>2. ASSUME MergeStep(MergeAccepts), asset'[Registry] = asset[Registry] PROVE Goal
    <2>1. CASE Served' = Served
        BY <1>0, <1>2, <2>1
    <2>2. ASSUME NEW j \in Attempts \cup Readers, asset[Registry] = "right",
                 Served' = Served \cup {j}
          PROVE  Goal
        <3>1. Promise!Answer(j)
            BY <1>0, <1>2, <2>2 DEF Promise!Answer
        <3> QED
            BY <3>1 DEF Promise!StoreNext
    <2> QED
        BY <1>2, <2>1, <2>2, ServedStep
<1>3. ASSUME MergeStep(MergeAccepts), asset'[Registry] # asset[Registry] PROVE Goal
    <2>0. CheckpointTypeOK /\ RequestInv /\ StoreInv
        BY DEF Inv
    <2>1. asset[Registry] \in {"absent", "starter"}
        <3>1. PICK a \in Attempts, v \in {"starter", "right", "damaged"} :
                 /\ item[a] \in Names
                 /\ asset[item[a]] \in {"absent", "starter"}
                 /\ asset' = [asset EXCEPT ![item[a]] = v]
            BY <1>3, <2>0, AssetStep
        <3> QED
            BY <1>3, <2>0, <3>1 DEF CheckpointTypeOK
    <2>2. \A a \in Attempts : pc[a] # "published"
        BY <2>1 DEF Inv, SettledInv
    <2>3. UNCHANGED <<pc, destination>>
        BY <1>3 DEF MergeStep, CheckpointNext, AttemptStep, ReaderStep, Begin, Merge,
           CreateRelease, List, Compare, Reuse, Send, Answered, UploadsEnd, Verify,
           AttemptFails, JobTimeout, Arrive, Store, RestoreListing, Fetch, Place, Replace,
           ReaderFails, RestoreAgain, checkpointVars
    <2>4. Served' = Served
        BY <2>2, <2>3 DEF Served
    <2>5. CASE asset'[Registry] = "right"
        <3>1. Promise!Commit("bundle")
            BY <1>0, <2>1, <2>4, <2>5 DEF Promise!Commit
        <3> QED
            BY <3>1 DEF Promise!StoreNext
    <2>6. CASE asset'[Registry] # "right"
        BY <1>0, <2>1, <2>4, <2>6
    <2> QED
        BY <2>5, <2>6
<1> QED
    BY <1>1, <1>2, <1>3, Split

\* publish and restore of profile-artifacts.py implement CheckpointStore, for any number of
\* attempts, readers, payloads and faults: a second protocol for the same promise, which
\* rests on names that are taken once and not on a concurrency group.
THEOREM Implements == Spec => ImplementsStore
<1>1. Init => Promise!StoreInit
    <2> SUFFICES ASSUME Init PROVE Promise!StoreInit
        OBVIOUS
    <2>1. asset[Registry] = "absent" /\ \A a \in Attempts : pc[a] = "idle"
        BY DEF Init, CheckpointInit, Names
    <2>2. \A c \in Readers : destination[c] # "bundle"
        BY DEF Init, CheckpointInit
    <2>3. Served = {}
        BY <2>1, <2>2 DEF Served
    <2>4. Profile = "nothing"
        BY <2>1, InitInv, ShownIsCommitted DEF Inv
    <2> QED
        BY <2>1, <2>3, <2>4 DEF Promise!StoreInit
<1>2. Inv /\ Inv' /\ [Next]_vars
          => [Promise!StoreNext]_<<Profile, asset[Registry] = "right", Served>>
    BY StepRefines
<1> QED
    BY <1>1, <1>2, Inductive, PTL
       DEF Spec, ImplementsStore, Promise!StoreSpec, Promise!storeSpecVars

(***************************************************************************)
(* What is left of a job                                                   *)
(***************************************************************************)

\* The steps of the training job that are still ahead; its two commands are launched and
\* waited for one after the other.
TrainPhase(step, run) ==
    CASE step = "launch" -> IF run = "bootstrap" THEN 11 ELSE 9
      [] step = "wait" -> IF run = "bootstrap" THEN 10 ELSE 8
      [] step = "stop" -> 7
      [] step = "stop_wait" -> 6
      [] step = "save" -> 5
      [] step = "move" -> 4
      [] step = "logs" -> 3
      [] step = "record" -> 2
      [] step = "upload" -> 1
      [] OTHER -> 0

\* publish's loop over the assets, with the look at the payloads before the last one.
Looping == {"upload", "sending", "verify", "register"}

\* The steps ahead of an attempt or a reader, the loop being one of them.
JobPhase(step) ==
    CASE step = "idle" -> 6
      [] step = "merge" -> 5
      [] step = "create" -> 4
      [] step \in {"list", "fetch"} -> 3
      [] step \in {"compare", "reuse", "place"} -> 2
      [] step \in Looping \cup {"replace"} -> 1
      [] OTHER -> 0

\* The place in the loop, where each asset goes from "upload" or "register" to "sending".
Position(step) ==
    CASE step = "upload" -> 3
      [] step = "verify" -> 2
      [] step = "register" -> 1
      [] OTHER -> 0

\* What is left of a job: its phase, then what it has yet to move or to upload, then the
\* place in the loop, the first the most significant.
TrainLeft == <<TrainPhase(train, command), Cardinality(moving), 0>>

Left(j) ==
    <<JobPhase(pc[j]),
      IF pc[j] \in Looping THEN Cardinality(Names \ listed) ELSE 0,
      Position(pc[j])>>

Ranks == Nat \X Nat \X Nat

Less(a, b) ==
    \/ a[1] < b[1]
    \/ a[1] = b[1] /\ a[2] < b[2]
    \/ a[1] = b[1] /\ a[2] = b[2] /\ a[3] < b[3]

\* The steps of the jobs; the server and the browsers take the others.
TrainMoves == JobStep \/ Interrupted \/ TrainLost

AttemptMoves(a) ==
    Begin(a) \/ Merge(a, MergeAccepts) \/ AttemptStep(a) \/ AttemptFails(a) \/ JobTimeout(a)

ReaderMoves(c) == ReaderStep(c) \/ ReaderFails(c)

\* The attempt that works is alone with its list of names, and the asset it sends is not
\* on it yet; a reader does not upload.
LoopInv ==
    /\ \A a, b \in Attempts : Active(a) /\ Active(b) => a = b
    /\ \A a \in Attempts : pc[a] = "sending" => item[a] \in Names \ listed
    /\ \A c \in Readers : pc[c] \notin Looping

\* A step of the merge jobs or of the readers keeps that.
LEMMA LoopStep ==
    ASSUME CheckpointTypeOK, LoopInv, NEW accepted, MergeStep(accepted)
    PROVE  LoopInv'
<1> USE DEF CheckpointTypeOK, LoopInv, Active, AttemptOver, ReaderOver, Looping
<1>1. ASSUME NEW a \in Attempts, Begin(a) PROVE LoopInv'
    BY <1>1 DEF Begin
<1>2. ASSUME NEW a \in Attempts, Merge(a, accepted) PROVE LoopInv'
    BY <1>2 DEF Merge
<1>3. ASSUME NEW a \in Attempts, CreateRelease(a) PROVE LoopInv'
    BY <1>3 DEF CreateRelease
<1>4. ASSUME NEW a \in Attempts, List(a) PROVE LoopInv'
    BY <1>4 DEF List
<1>5. ASSUME NEW a \in Attempts, Compare(a) PROVE LoopInv'
    BY <1>5 DEF Compare
<1>6. ASSUME NEW a \in Attempts, Reuse(a) PROVE LoopInv'
    BY <1>6 DEF Reuse
<1>7. ASSUME NEW a \in Attempts, NEW n \in Names, Send(a, n) PROVE LoopInv'
    BY <1>7 DEF Send
<1>8. ASSUME NEW a \in Attempts, Answered(a) PROVE LoopInv'
    BY <1>8 DEF Answered
<1>9. ASSUME NEW a \in Attempts, UploadsEnd(a) PROVE LoopInv'
    BY <1>9 DEF UploadsEnd
<1>10. ASSUME NEW a \in Attempts, Verify(a) PROVE LoopInv'
    BY <1>10 DEF Verify
<1>11. ASSUME NEW a \in Attempts, AttemptFails(a) PROVE LoopInv'
    BY <1>11 DEF AttemptFails
<1>12. ASSUME NEW a \in Attempts, JobTimeout(a) PROVE LoopInv'
    BY <1>12 DEF JobTimeout
<1>13. ASSUME NEW a \in Attempts, Arrive(a) PROVE LoopInv'
    BY <1>13 DEF Arrive
<1>14. ASSUME NEW a \in Attempts, Store(a) PROVE LoopInv'
    BY <1>14 DEF Store
<1>15. ASSUME NEW c \in Readers, RestoreListing(c) PROVE LoopInv'
    BY <1>15 DEF RestoreListing
<1>16. ASSUME NEW c \in Readers, Fetch(c) PROVE LoopInv'
    BY <1>16 DEF Fetch
<1>17. ASSUME NEW c \in Readers, Place(c) PROVE LoopInv'
    BY <1>17 DEF Place
<1>18. ASSUME NEW c \in Readers, Replace(c) PROVE LoopInv'
    BY <1>18 DEF Replace
<1>19. ASSUME NEW c \in Readers, ReaderFails(c) PROVE LoopInv'
    BY <1>19 DEF ReaderFails
<1>20. ASSUME NEW c \in Readers, RestoreAgain(c) PROVE LoopInv'
    BY <1>20 DEF RestoreAgain
<1>21. CASE UNCHANGED checkpointVars
    BY <1>21 DEF checkpointVars
<1> QED
    BY <1>1, <1>2, <1>3, <1>4, <1>5, <1>6, <1>7, <1>8, <1>9, <1>10, <1>11, <1>12,
       <1>13, <1>14, <1>15, <1>16, <1>17, <1>18, <1>19, <1>20, <1>21 DEF MergeStep,
       CheckpointNext, AttemptStep, ReaderStep

\* What is left is a rank, and moving or uploading something leaves less.
LEMMA LeftIsRank ==
    ASSUME IsFiniteSet(Browsers), IsFiniteSet(Payloads), TrainTypeOK, CheckpointTypeOK
    PROVE  /\ TrainLeft \in Ranks
           /\ \A j \in Attempts \cup Readers : Left(j) \in Ranks
           /\ Cardinality(moving) \in Nat /\ Cardinality(Names \ listed) \in Nat
           /\ \A b \in moving : /\ Cardinality(moving \ {b}) \in Nat
                                /\ Cardinality(moving \ {b}) < Cardinality(moving)
           /\ \A n \in Names \ listed :
                 /\ Cardinality(Names \ (listed \cup {n})) \in Nat
                 /\ Cardinality(Names \ (listed \cup {n})) < Cardinality(Names \ listed)
<1>1. IsFiniteSet(moving) /\ IsFiniteSet(Names \ listed)
    <2>1. IsFiniteSet(Names)
        BY FS_AddElement DEF Names
    <2> QED
        BY <2>1, FS_Subset DEF TrainTypeOK
<1>2. Cardinality(moving) \in Nat /\ Cardinality(Names \ listed) \in Nat
    BY <1>1, FS_CardinalityType
<1>3. ASSUME NEW b \in moving
      PROVE  /\ Cardinality(moving \ {b}) \in Nat
             /\ Cardinality(moving \ {b}) < Cardinality(moving)
    <2>1. IsFiniteSet(moving \ {b}) /\ Cardinality(moving \ {b}) = Cardinality(moving) - 1
        BY <1>1, FS_RemoveElement
    <2>2. Cardinality(moving \ {b}) \in Nat
        BY <2>1, FS_CardinalityType
    <2> QED
        BY <1>2, <2>1, <2>2
<1>4. ASSUME NEW n \in Names \ listed
      PROVE  /\ Cardinality(Names \ (listed \cup {n})) \in Nat
             /\ Cardinality(Names \ (listed \cup {n})) < Cardinality(Names \ listed)
    <2> DEFINE left == (Names \ listed) \ {n}
    <2>1. IsFiniteSet(left) /\ Cardinality(left) = Cardinality(Names \ listed) - 1
        BY <1>1, FS_RemoveElement
    <2>2. Cardinality(left) \in Nat
        BY <2>1, FS_CardinalityType
    <2>3. left = Names \ (listed \cup {n})
        OBVIOUS
    <2> QED
        BY <1>2, <2>1, <2>2, <2>3
<1>5. TrainPhase(train, command) \in Nat
    BY DEF TrainPhase
<1>6. \A j \in Attempts \cup Readers : JobPhase(pc[j]) \in Nat /\ Position(pc[j]) \in Nat
    BY DEF JobPhase, Position
<1> QED
    BY <1>2, <1>3, <1>4, <1>5, <1>6 DEF TrainLeft, Left, Ranks

\* Every step of the training job leaves it less to do, and nobody else's step more.
LEMMA TrainCloser ==
    ASSUME IsFiniteSet(Browsers), IsFiniteSet(Payloads), TrainTypeOK, CheckpointTypeOK
    PROVE  /\ TrainMoves => Less(TrainLeft', TrainLeft)
           /\ [TrainNext]_trainVars /\ ~TrainMoves => TrainLeft' = TrainLeft
<1> DEFINE Onward ==
        \/ train = "launch" /\ train' = "wait" /\ command' = command
        \/ /\ train = "wait" /\ command = "bootstrap"
           /\ train' = "launch" /\ command' = "profileserver"
        \/ train = "wait" /\ train' \in {"save", "stop"}
        \/ train = "stop" /\ train' = "stop_wait"
        \/ train = "stop_wait" /\ train' = "save"
        \/ train = "save" /\ train' = "move"
        \/ train = "move" /\ train' = "logs"
        \/ train = "logs" /\ train' = "record"
        \/ train = "record" /\ train' = "upload"
        \/ train = "upload" /\ train' = "trained"
        \/ train \notin TrainOver /\ train' \in {"failed", "lost"}
<1>1. Onward => Less(TrainLeft', TrainLeft)
    <2>1. /\ train \in {"launch", "wait", "stop", "stop_wait", "save", "move", "logs", "record",
                        "upload", "trained", "failed", "lost"}
          /\ command \in {"bootstrap", "profileserver"}
        BY DEF TrainTypeOK, TrainOver
    <2>2. Onward => TrainPhase(train', command') < TrainPhase(train, command)
        BY <2>1, SMTT(30) DEF TrainPhase, TrainOver
    <2> HIDE DEF Onward
    <2> QED
        BY <2>2 DEF Less, TrainLeft
<1>2. ASSUME NEW b \in Browsers, Move(b) PROVE Less(TrainLeft', TrainLeft)
    <2>1. b \in moving /\ train = "move" /\ command' = command
        BY <1>2 DEF Move
    <2>2. \/ train' = "failed"
          \/ train' = train /\ moving' = moving \ {b}
        BY <1>2 DEF Move
    <2>3. CASE train' = "failed"
        BY <1>1, <2>1, <2>3 DEF TrainOver
    <2>4. CASE train' = train /\ moving' = moving \ {b}
        <3>1. TrainPhase(train, command)' = TrainPhase(train, command)
            BY <2>1, <2>4
        <3> QED
            BY <2>1, <2>4, <3>1, LeftIsRank DEF Less, TrainLeft
    <2> QED
        BY <2>2, <2>3, <2>4
<1>3. Launch \/ Returned \/ Expired \/ StopTree \/ StopWait => Onward
    <2>1. Returned => Onward
        BY DEF Returned
    <2>2. StopWait => Onward
        BY DEF StopWait
    <2>3. Launch \/ Expired \/ StopTree => Onward
        BY DEF Launch, Expired, StopTree
    <2> QED
        BY <2>1, <2>2, <2>3
<1>4. Save \/ MovesEnd \/ CheckLogs \/ Record \/ Upload => Onward
    BY DEF Save, MovesEnd, CheckLogs, Record, Upload, TrainOver
<1>5. Interrupted \/ TrainLost => Onward
    BY DEF Interrupted, TrainLost
<1>6. ASSUME [TrainNext]_trainVars, ~TrainMoves PROVE TrainLeft' = TrainLeft
    BY <1>6 DEF TrainNext, TrainMoves, TrainLeft, trainVars, MachEnds, BrowserStarts,
                BrowserWrites, BrowserEnds, BrowserDies, ArtifactDamaged
<1> HIDE DEF Onward
<1> QED
    BY <1>1, <1>2, <1>3, <1>4, <1>5, <1>6 DEF TrainMoves, JobStep

\* Every step of an attempt leaves it less to do.
LEMMA AttemptCloser ==
    ASSUME IsFiniteSet(Browsers), IsFiniteSet(Payloads), TrainTypeOK, CheckpointTypeOK,
           LoopInv, NEW a \in Attempts, AttemptMoves(a)
    PROVE  Less(Left(a)', Left(a))
<1> USE DEF Left, Less, CheckpointTypeOK, AttemptOver, Looping
<1>0. Cardinality(Names \ listed) \in Nat
    BY LeftIsRank
<1>1. CASE Begin(a)
    BY <1>1 DEF Begin, JobPhase
<1>2. CASE Merge(a, MergeAccepts)
    BY <1>2 DEF Merge, JobPhase
<1>3. CASE CreateRelease(a)
    BY <1>3 DEF CreateRelease, JobPhase
<1>4. CASE List(a)
    BY <1>4 DEF List, JobPhase
<1>5. CASE Compare(a)
    BY <1>5 DEF Compare, JobPhase
<1>6. CASE Reuse(a)
    BY <1>6 DEF Reuse, JobPhase
<1>7. ASSUME NEW n \in Names, Send(a, n) PROVE Less(Left(a)', Left(a))
    BY <1>0, <1>7 DEF Send, JobPhase, Position
<1>8. CASE Answered(a)
    <2>1. /\ pc[a] = "sending" /\ listed' = listed \cup {item[a]}
          /\ item[a] \in Names \ listed
        BY <1>8 DEF Answered, LoopInv
    <2>2. pc'[a] \in {"failed", "published", "upload"}
        BY <1>8 DEF Answered
    <2>3. CASE pc'[a] = "upload"
        <3>1. /\ Cardinality(Names \ listed') \in Nat
              /\ Cardinality(Names \ listed') < Cardinality(Names \ listed)
            BY <2>1, LeftIsRank
        <3> QED
            BY <1>0, <2>1, <2>3, <3>1 DEF JobPhase, Position
    <2>4. CASE pc'[a] \in {"failed", "published"}
        BY <2>1, <2>4 DEF JobPhase
    <2> QED
        BY <2>2, <2>3, <2>4
<1>9. CASE UploadsEnd(a)
    BY <1>0, <1>9 DEF UploadsEnd, JobPhase, Position
<1>10. CASE Verify(a)
    BY <1>0, <1>10 DEF Verify, JobPhase, Position
<1>11. CASE AttemptFails(a)
    <2>1. pc'[a] = "failed" /\ JobPhase(pc[a]) > 0
        BY <1>11 DEF AttemptFails, Active, ReaderOver, JobPhase
    <2> QED
        BY <2>1 DEF JobPhase
<1>12. CASE JobTimeout(a)
    BY <1>12 DEF JobTimeout, JobPhase
<1> QED
    BY <1>1, <1>2, <1>3, <1>4, <1>5, <1>6, <1>7, <1>8, <1>9, <1>10, <1>11, <1>12
       DEF AttemptMoves, AttemptStep

\* And so does every step of a reader.
LEMMA ReaderCloser ==
    ASSUME CheckpointTypeOK, LoopInv, NEW c \in Readers, ReaderMoves(c)
    PROVE  Less(Left(c)', Left(c))
<1> USE DEF Left, Less, CheckpointTypeOK, ReaderOver, Looping
<1>1. CASE RestoreListing(c)
    BY <1>1 DEF RestoreListing, JobPhase
<1>2. CASE Fetch(c)
    BY <1>2 DEF Fetch, JobPhase
<1>3. CASE Place(c)
    BY <1>3 DEF Place, JobPhase
<1>4. CASE Replace(c)
    BY <1>4 DEF Replace, JobPhase
<1>5. CASE ReaderFails(c)
    BY <1>5 DEF ReaderFails, Active, AttemptOver, LoopInv, JobPhase
<1> QED
    BY <1>1, <1>2, <1>3, <1>4, <1>5 DEF ReaderMoves, ReaderStep

\* The list of names is only written by the attempt that works, so no step of anybody else
\* gives a job more to do; a reader begins again only when it is started again.
LEMMA OthersStay ==
    ASSUME CheckpointTypeOK, LoopInv, MergeStep(MergeAccepts), NEW j \in Attempts \cup Readers
    PROVE  \/ j \in Attempts /\ AttemptMoves(j)
           \/ j \in Readers /\ (ReaderMoves(j) \/ RestoreAgain(j))
           \/ Left(j)' = Left(j)
<1> DEFINE Goal == \/ j \in Attempts /\ AttemptMoves(j)
                   \/ j \in Readers /\ (ReaderMoves(j) \/ RestoreAgain(j))
                   \/ Left(j)' = Left(j)
<1> SUFFICES Goal
    OBVIOUS
<1> USE DEF CheckpointTypeOK
<1>0. /\ pc'[j] = pc[j] /\ listed' = listed => Left(j)' = Left(j)
      /\ pc'[j] = pc[j] /\ pc[j] \notin Looping => Left(j)' = Left(j)
    BY DEF Left
<1>1. ASSUME NEW a \in Attempts, AttemptMoves(a) PROVE Goal
    <2>1. CASE a = j
        BY <1>1, <2>1
    <2>2. CASE a # j
        <3>1. pc'[j] = pc[j]
            BY <1>1, <2>2 DEF AttemptMoves, AttemptStep, Begin, Merge, CreateRelease, List,
                  Compare, Reuse, Send, Answered, UploadsEnd, Verify, AttemptFails, JobTimeout
        <3>2. listed' = listed \/ (Begin(a) \/ List(a) \/ Answered(a))
            BY <1>1 DEF AttemptMoves, AttemptStep, Merge, CreateRelease,
                  Compare, Reuse, Send, UploadsEnd, Verify, AttemptFails, JobTimeout
        <3>3. Begin(a) \/ List(a) \/ Answered(a) => pc[j] \notin Looping
            BY <2>2 DEF Begin, List, Answered, LoopInv, Active, AttemptOver, ReaderOver, Looping
        <3> QED
            BY <1>0, <3>1, <3>2, <3>3
    <2> QED
        BY <2>1, <2>2
<1>2. ASSUME NEW a \in Attempts, Arrive(a) \/ Store(a) PROVE Goal
    BY <1>0, <1>2 DEF Arrive, Store
<1>3. ASSUME NEW c \in Readers, ReaderMoves(c) \/ RestoreAgain(c) PROVE Goal
    <2>1. CASE c = j
        BY <1>3, <2>1
    <2>2. CASE c # j
        <3>1. pc'[j] = pc[j] /\ listed' = listed
            BY <1>3, <2>2 DEF ReaderMoves, ReaderStep, RestoreListing, Fetch, Place, Replace,
                  ReaderFails, RestoreAgain
        <3> QED
            BY <1>0, <3>1
    <2> QED
        BY <2>1, <2>2
<1>4. CASE UNCHANGED checkpointVars
    BY <1>0, <1>4 DEF checkpointVars
<1> QED
    BY <1>1, <1>2, <1>3, <1>4 DEF MergeStep, CheckpointNext, AttemptMoves, ReaderMoves

\* What one step of the whole does to the three kinds of job.
RunDown ==
    /\ IF TrainMoves THEN Less(TrainLeft', TrainLeft) ELSE TrainLeft' = TrainLeft
    /\ \A a \in Attempts : IF AttemptMoves(a) THEN Less(Left(a)', Left(a))
                                             ELSE Left(a)' = Left(a)
    /\ \A c \in Readers : IF ReaderMoves(c) THEN Less(Left(c)', Left(c))
                                            ELSE RestoreAgain(c) \/ Left(c)' = Left(c)

LEMMA StepRunsDown ==
    ASSUME IsFiniteSet(Browsers), IsFiniteSet(Payloads), Inv, Inv', LoopInv, [Next]_vars
    PROVE  RunDown
<1>1. TrainTypeOK /\ CheckpointTypeOK /\ TrainTypeOK'
    BY DEF Inv
<1>2. [TrainNext]_trainVars /\ MergeStep(MergeAccepts)
    BY Split DEF MergeStep
<1>3. IF TrainMoves THEN Less(TrainLeft', TrainLeft) ELSE TrainLeft' = TrainLeft
    BY <1>1, <1>2, TrainCloser
<1>4. ASSUME NEW a \in Attempts
      PROVE  IF AttemptMoves(a) THEN Less(Left(a)', Left(a)) ELSE Left(a)' = Left(a)
    BY <1>1, <1>2, AttemptCloser, OthersStay
<1>5. ASSUME NEW c \in Readers
      PROVE  IF ReaderMoves(c) THEN Less(Left(c)', Left(c))
                               ELSE RestoreAgain(c) \/ Left(c)' = Left(c)
    BY <1>1, <1>2, ReaderCloser, OthersStay
<1> QED
    BY <1>3, <1>4, <1>5 DEF RunDown

\* The loops of train-pgo.ps1, publish and restore are bounded: with finitely many raw
\* profiles and payloads, every step of the training job, of an attempt or of a reader, its
\* failures and interruptions included, brings it closer to its end in a well-founded
\* order.  Browsers that outlive mach, the server with its late requests, other attempts
\* and readers do not set it back; only somebody who gives the restore command again does.
THEOREM JobsRunDown ==
    ASSUME IsFiniteSet(Browsers), IsFiniteSet(Payloads)
    PROVE  Spec => /\ [](TrainLeft \in Ranks /\ \A j \in Attempts \cup Readers : Left(j) \in Ranks)
                   /\ [][RunDown]_vars
<1>1. Init => LoopInv
    BY DEF Init, CheckpointInit, LoopInv, Active, Looping
<1>2. Inv /\ LoopInv /\ [Next]_vars => LoopInv'
    <2> SUFFICES ASSUME Inv, LoopInv, [Next]_vars PROVE LoopInv'
        OBVIOUS
    <2>1. MergeStep(MergeAccepts)
        BY Split DEF MergeStep
    <2> QED
        BY <2>1, LoopStep DEF Inv
<1>3. Inv => TrainLeft \in Ranks /\ \A j \in Attempts \cup Readers : Left(j) \in Ranks
    BY LeftIsRank DEF Inv
<1>4. Inv /\ Inv' /\ LoopInv /\ [Next]_vars => [RunDown]_vars
    BY StepRunsDown
<1> QED
    BY <1>1, <1>2, <1>3, <1>4, Inductive, PTL DEF Spec
=============================================================================
