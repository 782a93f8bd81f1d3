---------------------- MODULE ReleaseCheckpoint_proofs ----------------------
(***************************************************************************)
(* What ReleaseCheckpoint promises for every number of runs, readers,      *)
(* payloads, build results, attempts and faults.                           *)
(***************************************************************************)
EXTENDS ReleaseCheckpoint, FiniteSetTheorems, TLAPS

\* Where upload_asset has chosen an asset, and where publish loops over the assets.
Handling == {"reuse", "delete", "send", "sending", "confirm", "confirm_bytes"}
Uploading == Handling \cup {"next"}

\* Where a job has read a registry and compares payloads with it.
Comparing == {"check_bytes", "restore_bytes", "require_bytes", "verify_bytes"}

\* Before upload_asset is called for the first time.
Early == {"idle", "build", "publish", "verify_registry", "verify_bytes", "create",
          "restore", "restore_registry", "restore_bytes"} \cup Checking

\* A reader only restores; a run never takes a reader's steps.
Roles ==
    /\ \A c \in Readers : pc[c] \in {"idle", "require_registry", "require_bytes",
                                     "restored", "failed", "lost"}
    /\ \A r \in Runs : pc[r] \notin {"require_registry", "require_bytes", "restored"}

\* What the code's variables hold at the program points that use them.
Ready(j) ==
    /\ pc[j] \in Comparing => record[j] \in Records
    /\ pc[j] \in Publishing => outputs[j] \in Records
    /\ pc[j] \in Handling => item[j] \in Names
    /\ pc[j] = "next" => tries[j] < UploadAttempts
    /\ pc[j] \in Early => tries[j] = 0 /\ item[j] = Nothing /\ todo[j] = Payloads

TypeInv == TypeOK /\ Roles /\ \A j \in Jobs : Ready(j)

USE DEF Handling, Uploading, Comparing, Early, Checking, Publishing, Restoring, Succeeded, Over

LEMMA InitTypeInv == Init => TypeInv
<1> SUFFICES ASSUME Init PROVE TypeInv
    OBVIOUS
<1> USE NamesAssumption, ContentsAssumption, JobsAssumption, BoundsAssumption
<1>1. TypeOK
    <2>1. Absent \in Asset
        BY DEF Absent, Asset, Contents
    <2>2. pc \in [Jobs -> Steps] /\ gate \in [Jobs -> {"none", "verified", "incomplete", "error"}]
        BY DEF Init, Steps
    <2>3. asset \in [Names -> Asset] /\ listed \in [Jobs -> [Names -> Asset]]
        BY <2>1 DEF Init
    <2>4. seen \in [Jobs -> Asset]
        BY <2>1 DEF Init
    <2>5. tries \in [Jobs -> 0..UploadAttempts] /\ faults \in 0..MaxFaults
        BY DEF Init
    <2> QED
        BY <2>2, <2>3, <2>4, <2>5 DEF Init, TypeOK
<1>2. Roles
    BY DEF Init, Roles, Jobs
<1>3. \A j \in Jobs : Ready(j)
    BY DEF Init, Ready
<1> QED
    BY <1>1, <1>2, <1>3 DEF TypeInv

LEMMA StepTypeInv == TypeInv /\ [Next]_vars => TypeInv'
<1> SUFFICES ASSUME TypeInv, [Next]_vars PROVE TypeInv'
    OBVIOUS
<1> USE NamesAssumption, ContentsAssumption, JobsAssumption, BoundsAssumption
<1> USE DEF TypeInv, Goto
<1>1. ASSUME NEW r \in Jobs, Begin(r) PROVE TypeInv'
    <2>1. TypeOK'
        <3>1. pc' \in [Jobs -> Steps]
            BY <1>1 DEF TypeOK, Steps, storeVars, Begin, Active
        <3> QED
            BY <1>1, <3>1 DEF TypeOK, storeVars, Begin, Active
    <2>2. Roles'
        BY <1>1 DEF TypeOK, Roles, Jobs, storeVars, Begin, Active
    <2>3. \A j \in Jobs : Ready(j)'
        BY <1>1 DEF TypeOK, Roles, Jobs, Ready, storeVars, Begin, Active
    <2> QED
        BY <2>1, <2>2, <2>3
<1>2. ASSUME NEW r \in Jobs, CheckListing(r) PROVE TypeInv'
    <2>1. TypeOK'
        <3>1. pc' \in [Jobs -> Steps]
            BY <1>2 DEF TypeOK, Steps, storeVars, CheckListing, List, Decide
        <3>2. gate' \in [Jobs -> {"none", "verified", "incomplete", "error"}]
            BY <1>2 DEF TypeOK, storeVars, CheckListing, List, Decide
        <3>3. listed' \in [Jobs -> [Names -> Asset]]
            BY <1>2 DEF TypeOK, storeVars, CheckListing, List, Decide
        <3> QED
            BY <1>2, <3>1, <3>2, <3>3 DEF TypeOK, storeVars, CheckListing, List, Decide
    <2>2. Roles'
        BY <1>2 DEF TypeOK, Roles, Jobs, storeVars, CheckListing, List, Decide
    <2>3. \A j \in Jobs : Ready(j)'
        BY <1>2 DEF TypeOK, Roles, Jobs, Ready, storeVars, CheckListing, List, Decide
    <2> QED
        BY <2>1, <2>2, <2>3
<1>3. ASSUME NEW r \in Jobs, CheckRegistry(r) PROVE TypeInv'
    <2>1. TypeOK'
        <3>1. pc' \in [Jobs -> Steps]
            BY <1>3 DEF TypeOK, Steps, storeVars, CheckRegistry, ReadRegistry, Decide
        <3>2. gate' \in [Jobs -> {"none", "verified", "incomplete", "error"}]
            BY <1>3 DEF TypeOK, storeVars, CheckRegistry, ReadRegistry, Decide
        <3>3. record' \in [Jobs -> Records \cup {Nothing}]
            BY <1>3 DEF TypeOK, storeVars, CheckRegistry, ReadRegistry, Decide
        <3> QED
            BY <1>3, <3>1, <3>2, <3>3 DEF TypeOK, storeVars, CheckRegistry, ReadRegistry, Decide
    <2>2. Roles'
        BY <1>3 DEF TypeOK, Roles, Jobs, storeVars, CheckRegistry, ReadRegistry, Decide
    <2>3. \A j \in Jobs : Ready(j)'
        BY <1>3 DEF TypeOK, Roles, Jobs, Ready, storeVars, CheckRegistry, ReadRegistry, Decide
    <2> QED
        BY <2>1, <2>2, <2>3
<1>4. ASSUME NEW r \in Jobs, CheckBytes(r) PROVE TypeInv'
    <2>1. TypeOK'
        <3>1. pc' \in [Jobs -> Steps]
            BY <1>4 DEF TypeOK, Steps, storeVars, CheckBytes, Decide
        <3>2. gate' \in [Jobs -> {"none", "verified", "incomplete", "error"}]
            BY <1>4 DEF TypeOK, storeVars, CheckBytes, Decide
        <3> QED
            BY <1>4, <3>1, <3>2 DEF TypeOK, storeVars, CheckBytes, Decide
    <2>2. Roles'
        BY <1>4 DEF TypeOK, Roles, Jobs, storeVars, CheckBytes, Decide
    <2>3. \A j \in Jobs : Ready(j)'
        BY <1>4 DEF TypeOK, Roles, Jobs, Ready, storeVars, CheckBytes, Decide
    <2> QED
        BY <2>1, <2>2, <2>3
<1>5. ASSUME NEW r \in Jobs, RestoreListing(r) PROVE TypeInv'
    <2>1. TypeOK'
        <3>1. pc' \in [Jobs -> Steps]
            BY <1>5, SMTT(30) DEF TypeOK, Steps, RestoreListing
        <3>2. listed' \in [Jobs -> [Names -> Asset]]
            BY <1>5 DEF TypeOK, storeVars, RestoreListing, List
        <3> QED
            BY <1>5, <3>1, <3>2 DEF TypeOK, storeVars, RestoreListing, List
    <2>2. Roles'
        BY <1>5 DEF TypeOK, Roles, Jobs, storeVars, RestoreListing, List
    <2>3. \A j \in Jobs : Ready(j)'
        BY <1>5 DEF TypeOK, Roles, Jobs, Ready, storeVars, RestoreListing, List
    <2> QED
        BY <2>1, <2>2, <2>3
<1>6. ASSUME NEW r \in Jobs, RestoreRegistry(r) PROVE TypeInv'
    <2>1. TypeOK'
        <3>1. pc' \in [Jobs -> Steps]
            BY <1>6 DEF TypeOK, Steps, storeVars, RestoreRegistry, ReadRegistry, RestoreGivesUp
        <3>2. record' \in [Jobs -> Records \cup {Nothing}]
            BY <1>6 DEF TypeOK, storeVars, RestoreRegistry, ReadRegistry, RestoreGivesUp
        <3> QED
            BY <1>6, <3>1, <3>2 DEF TypeOK, storeVars, RestoreRegistry, ReadRegistry, RestoreGivesUp
    <2>2. Roles'
        BY <1>6 DEF TypeOK, Roles, Jobs, storeVars, RestoreRegistry, ReadRegistry, RestoreGivesUp
    <2>3. \A j \in Jobs : Ready(j)'
        BY <1>6 DEF TypeOK, Roles, Jobs, Ready, storeVars, RestoreRegistry, ReadRegistry,
                    RestoreGivesUp
    <2> QED
        BY <2>1, <2>2, <2>3
<1>7. ASSUME NEW r \in Jobs, RestoreOutputs(r) PROVE TypeInv'
    <2>1. TypeOK'
        <3>1. pc' \in [Jobs -> Steps]
            BY <1>7 DEF TypeOK, Steps, storeVars, RestoreOutputs, RestoreGivesUp
        <3>2. outputs' \in [Jobs -> Records \cup {Nothing}]
            BY <1>7 DEF TypeOK, storeVars, RestoreOutputs, RestoreGivesUp
        <3> QED
            BY <1>7, <3>1, <3>2 DEF TypeOK, storeVars, RestoreOutputs, RestoreGivesUp
    <2>2. Roles'
        BY <1>7 DEF TypeOK, Roles, Jobs, storeVars, RestoreOutputs, RestoreGivesUp
    <2>3. \A j \in Jobs : Ready(j)'
        BY <1>7 DEF TypeOK, Roles, Jobs, Ready, storeVars, RestoreOutputs, RestoreGivesUp
    <2> QED
        BY <2>1, <2>2, <2>3
<1>8. ASSUME NEW r \in Jobs, Build(r) PROVE TypeInv'
    <2>1. TypeOK'
        <3>1. pc' \in [Jobs -> Steps]
            BY <1>8 DEF TypeOK, Steps, storeVars, Build
        <3>2. outputs' \in [Jobs -> Records \cup {Nothing}]
            BY <1>8 DEF TypeOK, storeVars, Build
        <3> QED
            BY <1>8, <3>1, <3>2 DEF TypeOK, storeVars, Build
    <2>2. Roles'
        BY <1>8 DEF TypeOK, Roles, Jobs, storeVars, Build
    <2>3. \A j \in Jobs : Ready(j)'
        BY <1>8 DEF TypeOK, Roles, Jobs, Ready, storeVars, Build
    <2> QED
        BY <2>1, <2>2, <2>3
<1>9. ASSUME NEW r \in Jobs, RequireListing(r) PROVE TypeInv'
    <2>1. TypeOK'
        <3>1. pc' \in [Jobs -> Steps]
            BY <1>9 DEF TypeOK, Steps, storeVars, RequireListing, List
        <3>2. listed' \in [Jobs -> [Names -> Asset]]
            BY <1>9 DEF TypeOK, storeVars, RequireListing, List
        <3> QED
            BY <1>9, <3>1, <3>2 DEF TypeOK, storeVars, RequireListing, List
    <2>2. Roles'
        BY <1>9 DEF TypeOK, Roles, Jobs, storeVars, RequireListing, List
    <2>3. \A j \in Jobs : Ready(j)'
        BY <1>9 DEF TypeOK, Roles, Jobs, Ready, storeVars, RequireListing, List
    <2> QED
        BY <2>1, <2>2, <2>3
<1>10. ASSUME NEW r \in Jobs, RequireRegistry(r) PROVE TypeInv'
    <2>1. TypeOK'
        <3>1. pc' \in [Jobs -> Steps]
            BY <1>10 DEF TypeOK, Steps, storeVars, RequireRegistry, ReadRegistry
        <3>2. record' \in [Jobs -> Records \cup {Nothing}]
            BY <1>10 DEF TypeOK, storeVars, RequireRegistry, ReadRegistry
        <3> QED
            BY <1>10, <3>1, <3>2 DEF TypeOK, storeVars, RequireRegistry, ReadRegistry
    <2>2. Roles'
        BY <1>10 DEF TypeOK, Roles, Jobs, storeVars, RequireRegistry, ReadRegistry
    <2>3. \A j \in Jobs : Ready(j)'
        BY <1>10 DEF TypeOK, Roles, Jobs, Ready, storeVars, RequireRegistry, ReadRegistry
    <2> QED
        BY <2>1, <2>2, <2>3
<1>11. ASSUME NEW r \in Jobs, RequireBytes(r) PROVE TypeInv'
    <2>1. TypeOK'
        <3>1. pc' \in [Jobs -> Steps]
            BY <1>11, SMTT(30) DEF TypeOK, Steps, RequireBytes
        <3>2. outputs' \in [Jobs -> Records \cup {Nothing}]
            BY <1>11 DEF TypeOK, storeVars, RequireBytes
        <3> QED
            BY <1>11, <3>1, <3>2 DEF TypeOK, storeVars, RequireBytes
    <2>2. Roles'
        BY <1>11 DEF TypeOK, Roles, Jobs, storeVars, RequireBytes
    <2>3. \A j \in Jobs : Ready(j)'
        BY <1>11 DEF TypeOK, Roles, Jobs, Ready, storeVars, RequireBytes
    <2> QED
        BY <2>1, <2>2, <2>3
<1>12. ASSUME NEW r \in Jobs, PublishListing(r) PROVE TypeInv'
    <2>1. TypeOK'
        <3>1. pc' \in [Jobs -> Steps]
            BY <1>12 DEF TypeOK, Steps, storeVars, PublishListing, List
        <3>2. listed' \in [Jobs -> [Names -> Asset]]
            BY <1>12 DEF TypeOK, storeVars, PublishListing, List
        <3> QED
            BY <1>12, <3>1, <3>2 DEF TypeOK, storeVars, PublishListing, List
    <2>2. Roles'
        BY <1>12 DEF TypeOK, Roles, Jobs, storeVars, PublishListing, List
    <2>3. \A j \in Jobs : Ready(j)'
        BY <1>12 DEF TypeOK, Roles, Jobs, Ready, storeVars, PublishListing, List
    <2> QED
        BY <2>1, <2>2, <2>3
<1>13. ASSUME NEW r \in Jobs, VerifyRegistry(r) PROVE TypeInv'
    <2>1. TypeOK'
        <3>1. pc' \in [Jobs -> Steps]
            BY <1>13 DEF TypeOK, Steps, storeVars, VerifyRegistry, ReadRegistry
        <3>2. record' \in [Jobs -> Records \cup {Nothing}]
            BY <1>13 DEF TypeOK, storeVars, VerifyRegistry, ReadRegistry
        <3> QED
            BY <1>13, <3>1, <3>2 DEF TypeOK, storeVars, VerifyRegistry, ReadRegistry
    <2>2. Roles'
        BY <1>13 DEF TypeOK, Roles, Jobs, storeVars, VerifyRegistry, ReadRegistry
    <2>3. \A j \in Jobs : Ready(j)'
        BY <1>13 DEF TypeOK, Roles, Jobs, Ready, storeVars, VerifyRegistry, ReadRegistry
    <2> QED
        BY <2>1, <2>2, <2>3
<1>14. ASSUME NEW r \in Jobs, VerifyCommitted(r) PROVE TypeInv'
    <2>1. TypeOK'
        <3>1. pc' \in [Jobs -> Steps]
            BY <1>14 DEF TypeOK, Steps, storeVars, VerifyCommitted
        <3> QED
            BY <1>14, <3>1 DEF TypeOK, storeVars, VerifyCommitted
    <2>2. Roles'
        BY <1>14 DEF TypeOK, Roles, Jobs, storeVars, VerifyCommitted
    <2>3. \A j \in Jobs : Ready(j)'
        BY <1>14 DEF TypeOK, Roles, Jobs, Ready, storeVars, VerifyCommitted
    <2> QED
        BY <2>1, <2>2, <2>3
<1>15. ASSUME NEW r \in Jobs, CreateRelease(r) PROVE TypeInv'
    <2>1. TypeOK'
        <3>1. pc' \in [Jobs -> Steps]
            BY <1>15 DEF TypeOK, Steps, storeVars, CreateRelease
        <3>2. release' \in BOOLEAN
            BY <1>15 DEF TypeOK, storeVars, CreateRelease
        <3> QED
            BY <1>15, <3>1, <3>2 DEF TypeOK, storeVars, CreateRelease
    <2>2. Roles'
        BY <1>15 DEF TypeOK, Roles, Jobs, storeVars, CreateRelease
    <2>3. \A j \in Jobs : Ready(j)'
        BY <1>15 DEF TypeOK, Roles, Jobs, Ready, storeVars, CreateRelease
    <2> QED
        BY <2>1, <2>2, <2>3
<1>16. ASSUME NEW r \in Jobs, UploadListing(r) PROVE TypeInv'
    <2>1. TypeOK'
        <3>1. pc' \in [Jobs -> Steps]
            BY <1>16 DEF TypeOK, Steps, storeVars, UploadListing, Candidates
        <3>2. item' \in [Jobs -> Names \cup {Nothing}]
            BY <1>16 DEF TypeOK, storeVars, UploadListing, Candidates, Candidates, Names, Ready
        <3>3. seen' \in [Jobs -> Asset]
            BY <1>16 DEF TypeOK, storeVars, UploadListing, Candidates, Candidates, Names, Ready
        <3>4. tries' \in [Jobs -> 0..UploadAttempts]
            BY <1>16 DEF TypeOK, storeVars, UploadListing, Candidates, Candidates, Names, Ready
        <3> QED
            BY <1>16, <3>1, <3>2, <3>3, <3>4 DEF TypeOK, storeVars, UploadListing, Candidates
    <2>2. Roles'
        BY <1>16 DEF TypeOK, Roles, Jobs, storeVars, UploadListing, Candidates
    <2>3. \A j \in Jobs : Ready(j)'
        BY <1>16 DEF TypeOK, Roles, Jobs, Ready, storeVars, UploadListing, Candidates, Names
    <2> QED
        BY <2>1, <2>2, <2>3
<1>17. ASSUME NEW r \in Jobs, DeleteIncomplete(r) PROVE TypeInv'
    <2>1. TypeOK'
        <3>1. pc' \in [Jobs -> Steps]
            <4>1. \E step \in {"send", "failed"} : pc' = [pc EXCEPT ![r] = step]
                BY <1>17 DEF DeleteIncomplete
            <4> QED
                BY <4>1 DEF TypeOK, Steps
        <3>2. asset' \in [Names -> Asset]
            <4>1. Absent \in Asset
                BY DEF Absent, Asset, Contents
            <4>2. item[r] \in Names
                BY <1>17 DEF DeleteIncomplete, Ready
            <4> QED
                BY <1>17, <4>1, <4>2 DEF TypeOK, DeleteIncomplete
        <3> QED
            BY <1>17, <3>1, <3>2 DEF TypeOK, storeVars, DeleteIncomplete
    <2>2. Roles'
        BY <1>17 DEF TypeOK, Roles, Jobs, storeVars, DeleteIncomplete
    <2>3. \A j \in Jobs : Ready(j)'
        BY <1>17 DEF TypeOK, Roles, Jobs, Ready, storeVars, DeleteIncomplete
    <2> QED
        BY <2>1, <2>2, <2>3
<1>18. ASSUME NEW r \in Jobs, Send(r) PROVE TypeInv'
    <2>1. TypeOK'
        <3>1. pc' \in [Jobs -> Steps]
            BY <1>18 DEF TypeOK, Steps, storeVars, Send, Retry
        <3>2. asset' \in [Names -> Asset] /\ seen' \in [Jobs -> Asset]
            <4> DEFINE new == [id |-> lastId + 1, state |-> "starter",
                               body |-> Expected(r, item[r])]
            <4>1. item[r] \in Names /\ outputs[r] \in Records
                BY <1>18 DEF Send, Ready
            <4>2. Expected(r, item[r]) \in Contents
                BY <4>1 DEF Expected, Records, Contents, Names
            <4>3. new \in Asset
                BY <4>2 DEF TypeOK, Asset
            <4>4. \/ asset' = [asset EXCEPT ![item[r]] = new] /\ seen' = [seen EXCEPT ![r] = new]
                  \/ UNCHANGED <<asset, seen>>
                BY <1>18 DEF Send
            <4>5. asset \in [Names -> Asset] /\ seen \in [Jobs -> Asset]
                BY DEF TypeOK
            <4> HIDE DEF new
            <4> QED
                BY <4>1, <4>3, <4>4, <4>5
        <3>3. lastId' \in Nat
            BY <1>18 DEF TypeOK, storeVars, Send, Retry, Ready
        <3> QED
            BY <1>18, <3>1, <3>2, <3>3 DEF TypeOK, storeVars, Send, Retry
    <2>2. Roles'
        BY <1>18 DEF TypeOK, Roles, Jobs, storeVars, Send, Retry
    <2>3. \A j \in Jobs : Ready(j)'
        BY <1>18 DEF TypeOK, Roles, Jobs, Ready, storeVars, Send, Retry
    <2> QED
        BY <2>1, <2>2, <2>3
<1>19. ASSUME NEW r \in Jobs, SendReturns(r) PROVE TypeInv'
    <2>1. TypeOK'
        <3>1. pc' \in [Jobs -> Steps]
            BY <1>19 DEF TypeOK, Steps, storeVars, SendReturns, Retry
        <3> QED
            BY <1>19, <3>1 DEF TypeOK, storeVars, SendReturns, Retry
    <2>2. Roles'
        BY <1>19 DEF TypeOK, Roles, Jobs, storeVars, SendReturns, Retry
    <2>3. \A j \in Jobs : Ready(j)'
        BY <1>19 DEF TypeOK, Roles, Jobs, Ready, storeVars, SendReturns, Retry
    <2> QED
        BY <2>1, <2>2, <2>3
<1>20. ASSUME NEW r \in Jobs, ConfirmListing(r) PROVE TypeInv'
    <2>1. TypeOK'
        <3>1. pc' \in [Jobs -> Steps]
            BY <1>20 DEF TypeOK, Steps, storeVars, ConfirmListing, Retry
        <3>2. seen' \in [Jobs -> Asset]
            BY <1>20 DEF TypeOK, ConfirmListing, Ready
        <3> QED
            BY <1>20, <3>1, <3>2 DEF TypeOK, storeVars, ConfirmListing, Retry
    <2>2. Roles'
        BY <1>20 DEF TypeOK, Roles, Jobs, storeVars, ConfirmListing, Retry
    <2>3. \A j \in Jobs : Ready(j)'
        BY <1>20 DEF TypeOK, Roles, Jobs, Ready, storeVars, ConfirmListing, Retry
    <2> QED
        BY <2>1, <2>2, <2>3
<1>21. ASSUME NEW r \in Jobs, VerifyUploaded(r) PROVE TypeInv'
    <2>1. TypeOK'
        <3>1. pc' \in [Jobs -> Steps]
            BY <1>21 DEF TypeOK, Steps, storeVars, VerifyUploaded, ItemDone, Retry
        <3>2. todo' \in [Jobs -> SUBSET Payloads]
            <4>1. todo[r] \ {item[r]} \in SUBSET Payloads
                BY DEF TypeOK
            <4>2. todo' = [todo EXCEPT ![r] = todo[r] \ {item[r]}] \/ UNCHANGED todo
                BY <1>21 DEF TypeOK, VerifyUploaded, ItemDone
            <4> QED
                BY <4>1, <4>2 DEF TypeOK
        <3>3. item' \in [Jobs -> Names \cup {Nothing}]
            BY <1>21 DEF TypeOK, storeVars, VerifyUploaded, ItemDone, Retry, Ready
        <3>4. tries' \in [Jobs -> 0..UploadAttempts]
            BY <1>21 DEF TypeOK, storeVars, VerifyUploaded, ItemDone, Retry, Ready
        <3> QED
            BY <1>21, <3>1, <3>2, <3>3, <3>4 DEF TypeOK, storeVars, VerifyUploaded, ItemDone, Retry
    <2>2. Roles'
        BY <1>21 DEF TypeOK, Roles, Jobs, storeVars, VerifyUploaded, ItemDone, Retry
    <2>3. \A j \in Jobs : Ready(j)'
        BY <1>21 DEF TypeOK, Roles, Jobs, Ready, storeVars, VerifyUploaded, ItemDone, Retry
    <2> QED
        BY <2>1, <2>2, <2>3
<1>22. ASSUME NEW r \in Jobs, CheckFails(r) PROVE TypeInv'
    <2>1. TypeOK'
        <3>1. pc' \in [Jobs -> Steps]
            BY <1>22 DEF TypeOK, Steps, storeVars, CheckFails, Fault, Decide
        <3>2. faults' \in 0..MaxFaults
            BY <1>22 DEF TypeOK, storeVars, CheckFails, Fault, Decide
        <3>3. gate' \in [Jobs -> {"none", "verified", "incomplete", "error"}]
            BY <1>22 DEF TypeOK, storeVars, CheckFails, Fault, Decide
        <3> QED
            BY <1>22, <3>1, <3>2, <3>3 DEF TypeOK, storeVars, CheckFails, Fault, Decide
    <2>2. Roles'
        BY <1>22 DEF TypeOK, Roles, Jobs, storeVars, CheckFails, Fault, Decide
    <2>3. \A j \in Jobs : Ready(j)'
        BY <1>22 DEF TypeOK, Roles, Jobs, Ready, storeVars, CheckFails, Fault, Decide
    <2> QED
        BY <2>1, <2>2, <2>3
<1>23. ASSUME NEW r \in Jobs, SendFails(r) PROVE TypeInv'
    <2>1. TypeOK'
        <3>1. pc' \in [Jobs -> Steps]
            BY <1>23 DEF TypeOK, Steps, storeVars, SendFails, Fault, Retry
        <3>2. faults' \in 0..MaxFaults
            BY <1>23 DEF TypeOK, storeVars, SendFails, Fault, Retry
        <3> QED
            BY <1>23, <3>1, <3>2 DEF TypeOK, storeVars, SendFails, Fault, Retry
    <2>2. Roles'
        BY <1>23 DEF TypeOK, Roles, Jobs, storeVars, SendFails, Fault, Retry
    <2>3. \A j \in Jobs : Ready(j)'
        BY <1>23 DEF TypeOK, Roles, Jobs, Ready, storeVars, SendFails, Fault, Retry
    <2> QED
        BY <2>1, <2>2, <2>3
<1>24. ASSUME NEW r \in Jobs, Lose(r) PROVE TypeInv'
    <2>1. TypeOK'
        <3>1. pc' \in [Jobs -> Steps]
            BY <1>24 DEF TypeOK, Steps, storeVars, Lose, Fault, Active
        <3>2. faults' \in 0..MaxFaults
            BY <1>24 DEF TypeOK, storeVars, Lose, Fault, Active
        <3> QED
            BY <1>24, <3>1, <3>2 DEF TypeOK, storeVars, Lose, Fault, Active
    <2>2. Roles'
        BY <1>24 DEF TypeOK, Roles, Jobs, storeVars, Lose, Fault, Active
    <2>3. \A j \in Jobs : Ready(j)'
        BY <1>24 DEF TypeOK, Roles, Jobs, Ready, storeVars, Lose, Fault, Active
    <2> QED
        BY <2>1, <2>2, <2>3
<1>25. ASSUME NEW n \in Names, Land(n) PROVE TypeInv'
    <2>1. TypeOK'
        <3>1. asset' \in [Names -> Asset]
            <4>1. /\ [asset[n] EXCEPT !.state = "uploaded"] \in Asset
                  /\ [asset[n] EXCEPT !.state = "uploaded", !.body = Corrupt] \in Asset
                <5>1. asset[n] \in Asset /\ Corrupt \in Contents
                    BY DEF TypeOK, Contents
                <5>2. ASSUME NEW a \in Asset
                      PROVE  /\ [a EXCEPT !.state = "uploaded"] \in Asset
                             /\ [a EXCEPT !.state = "uploaded", !.body = Corrupt] \in Asset
                    BY <5>1 DEF Asset
                <5> QED
                    BY <5>1, <5>2
            <4>2. \/ asset' = [asset EXCEPT ![n] = [asset[n] EXCEPT !.state = "uploaded"]]
                  \/ asset' = [asset EXCEPT ![n] = [asset[n] EXCEPT !.state = "uploaded",
                                                                  !.body = Corrupt]]
                BY <1>25 DEF TypeOK, Land
            <4> QED
                BY <4>1, <4>2 DEF TypeOK
        <3>2. faults' \in 0..MaxFaults
            BY <1>25 DEF TypeOK, storeVars, Land, Fault, runVars
        <3>3. commits' \in SUBSET Records
            BY <1>25 DEF TypeOK, storeVars, Land, Fault, runVars
        <3> QED
            BY <1>25, <3>1, <3>2, <3>3 DEF TypeOK, storeVars, Land, Fault, runVars
    <2>2. Roles'
        BY <1>25 DEF TypeOK, Roles, Jobs, storeVars, Land, Fault, runVars
    <2>3. \A j \in Jobs : Ready(j)'
        BY <1>25 DEF TypeOK, Roles, Jobs, Ready, storeVars, Land, Fault, runVars
    <2> QED
        BY <2>1, <2>2, <2>3
<1>26. ASSUME UNCHANGED vars PROVE TypeInv'
    <2>1. TypeOK'
        <3> QED
            BY <1>26 DEF TypeOK, storeVars, vars, runVars
    <2>2. Roles'
        BY <1>26 DEF TypeOK, Roles, Jobs, storeVars, vars, runVars
    <2>3. \A j \in Jobs : Ready(j)'
        BY <1>26 DEF TypeOK, Roles, Jobs, Ready, storeVars, vars, runVars
    <2> QED
        BY <2>1, <2>2, <2>3
<1> QED
    BY <1>1, <1>2, <1>3, <1>4, <1>5, <1>6, <1>7, <1>8, <1>9, <1>10, <1>11, <1>12, <1>13, <1>14,
       <1>15, <1>16, <1>17, <1>18, <1>19, <1>20, <1>21, <1>22, <1>23, <1>24, <1>25, <1>26
       DEF Next, JobStep, JobFault, Finished

\* Every variable keeps its type, and the program points that use outputs, record, item
\* and the attempt counter find them set (publish, upload_asset, restore_registries).
THEOREM TypeCorrect == Spec => []TypeOK
<1>1. TypeInv => TypeOK
    BY DEF TypeInv
<1> QED
    BY <1>1, InitTypeInv, StepTypeInv, PTL DEF Spec

THEOREM TypeInvariant == Spec => []TypeInv
    BY InitTypeInv, StepTypeInv, PTL DEF Spec

(***************************************************************************)
(* What is answered has been committed                                     *)
(***************************************************************************)

\* A registry that can be downloaded is part of the history.
Visible == \A content \in Records : Downloads(Registry, content) => content \in commits

\* A registry a job has read is part of the history.
ReadCommitted(j) == pc[j] \in Comparing => record[j] \in commits

AnswerInv == Visible /\ (\A j \in Jobs : ReadCommitted(j)) /\ AnswersCommitted

LEMMA StepAnswerInv == TypeInv /\ AnswerInv /\ [Next]_vars => AnswerInv'
<1> SUFFICES ASSUME TypeInv, AnswerInv, [Next]_vars PROVE AnswerInv'
    OBVIOUS
<1> USE NamesAssumption, ContentsAssumption, JobsAssumption
<1> USE DEF AnswerInv, TypeInv, Goto
<1>1. ASSUME NEW r \in Jobs, Begin(r) PROVE AnswerInv'
    BY <1>1 DEF Visible, Downloads, ReadCommitted, AnswersCommitted, TypeOK, storeVars, Begin,
                Active
<1>2. ASSUME NEW r \in Jobs, CheckListing(r) PROVE AnswerInv'
    BY <1>2 DEF Visible, Downloads, ReadCommitted, AnswersCommitted, TypeOK, storeVars,
                CheckListing, List, Decide
<1>3. ASSUME NEW r \in Jobs, CheckRegistry(r) PROVE AnswerInv'
    <2>1. Visible'
        BY <1>3 DEF Visible, Downloads, storeVars, CheckRegistry, ReadRegistry, Decide
    <2>2. \A j \in Jobs : ReadCommitted(j)'
        BY <1>3 DEF ReadCommitted, TypeOK, storeVars, CheckRegistry, ReadRegistry, RegistryRead,
                    Visible, Decide
    <2>3. AnswersCommitted'
        BY <1>3 DEF AnswersCommitted, TypeOK, storeVars, CheckRegistry, ReadRegistry, Decide
    <2> QED
        BY <2>1, <2>2, <2>3
<1>4. ASSUME NEW r \in Jobs, CheckBytes(r) PROVE AnswerInv'
    BY <1>4 DEF Visible, Downloads, ReadCommitted, AnswersCommitted, TypeOK, storeVars,
                CheckBytes, Decide
<1>5. ASSUME NEW r \in Jobs, RestoreListing(r) PROVE AnswerInv'
    BY <1>5 DEF Visible, Downloads, ReadCommitted, AnswersCommitted, TypeOK, storeVars,
                RestoreListing, List
<1>6. ASSUME NEW r \in Jobs, RestoreRegistry(r) PROVE AnswerInv'
    <2>1. Visible'
        BY <1>6 DEF Visible, Downloads, storeVars, RestoreRegistry, ReadRegistry, RestoreGivesUp
    <2>2. \A j \in Jobs : ReadCommitted(j)'
        BY <1>6 DEF ReadCommitted, TypeOK, storeVars, RestoreRegistry, ReadRegistry,
                    RegistryRead, Visible, RestoreGivesUp
    <2>3. AnswersCommitted'
        BY <1>6 DEF AnswersCommitted, TypeOK, storeVars, RestoreRegistry, ReadRegistry,
                    RestoreGivesUp
    <2> QED
        BY <2>1, <2>2, <2>3
<1>7. ASSUME NEW r \in Jobs, RestoreOutputs(r) PROVE AnswerInv'
    BY <1>7 DEF Visible, Downloads, ReadCommitted, AnswersCommitted, TypeOK, storeVars,
                RestoreOutputs, RestoreGivesUp
<1>8. ASSUME NEW r \in Jobs, Build(r) PROVE AnswerInv'
    BY <1>8 DEF Visible, Downloads, ReadCommitted, AnswersCommitted, TypeOK, storeVars, Build
<1>9. ASSUME NEW r \in Jobs, RequireListing(r) PROVE AnswerInv'
    BY <1>9 DEF Visible, Downloads, ReadCommitted, AnswersCommitted, TypeOK, storeVars,
                RequireListing, List
<1>10. ASSUME NEW r \in Jobs, RequireRegistry(r) PROVE AnswerInv'
    <2>1. Visible'
        BY <1>10 DEF Visible, Downloads, storeVars, RequireRegistry, ReadRegistry
    <2>2. \A j \in Jobs : ReadCommitted(j)'
        BY <1>10 DEF ReadCommitted, TypeOK, storeVars, RequireRegistry, ReadRegistry,
                     RegistryRead, Visible
    <2>3. AnswersCommitted'
        BY <1>10 DEF AnswersCommitted, TypeOK, storeVars, RequireRegistry, ReadRegistry
    <2> QED
        BY <2>1, <2>2, <2>3
<1>11. ASSUME NEW r \in Jobs, RequireBytes(r) PROVE AnswerInv'
    <2>1. Visible'
        BY <1>11 DEF Visible, Downloads, storeVars, RequireBytes
    <2>2. \A j \in Jobs : ReadCommitted(j)'
        BY <1>11 DEF ReadCommitted, TypeOK, storeVars, storeVars, RequireBytes
    <2>3. AnswersCommitted'
        BY <1>11 DEF AnswersCommitted, ReadCommitted, TypeOK, storeVars, RequireBytes
    <2> QED
        BY <2>1, <2>2, <2>3
<1>12. ASSUME NEW r \in Jobs, PublishListing(r) PROVE AnswerInv'
    BY <1>12 DEF Visible, Downloads, ReadCommitted, AnswersCommitted, TypeOK, storeVars,
                 PublishListing, List
<1>13. ASSUME NEW r \in Jobs, VerifyRegistry(r) PROVE AnswerInv'
    <2>1. Visible'
        BY <1>13 DEF Visible, Downloads, storeVars, VerifyRegistry, ReadRegistry
    <2>2. \A j \in Jobs : ReadCommitted(j)'
        BY <1>13 DEF ReadCommitted, TypeOK, storeVars, VerifyRegistry, ReadRegistry,
                     RegistryRead, Visible
    <2>3. AnswersCommitted'
        BY <1>13 DEF AnswersCommitted, TypeOK, storeVars, VerifyRegistry, ReadRegistry
    <2> QED
        BY <2>1, <2>2, <2>3
<1>14. ASSUME NEW r \in Jobs, VerifyCommitted(r) PROVE AnswerInv'
    <2>1. Visible'
        BY <1>14 DEF Visible, Downloads, storeVars, VerifyCommitted
    <2>2. \A j \in Jobs : ReadCommitted(j)'
        BY <1>14 DEF ReadCommitted, TypeOK, storeVars, storeVars, VerifyCommitted
    <2>3. AnswersCommitted'
        BY <1>14 DEF AnswersCommitted, ReadCommitted, TypeOK, storeVars, VerifyCommitted
    <2> QED
        BY <2>1, <2>2, <2>3
<1>15. ASSUME NEW r \in Jobs, CreateRelease(r) PROVE AnswerInv'
    BY <1>15 DEF Visible, Downloads, ReadCommitted, AnswersCommitted, TypeOK, storeVars,
                 CreateRelease
<1>16. ASSUME NEW r \in Jobs, UploadListing(r) PROVE AnswerInv'
    BY <1>16 DEF Visible, Downloads, ReadCommitted, AnswersCommitted, TypeOK, storeVars,
                 UploadListing, Candidates
<1>17. ASSUME NEW r \in Jobs, DeleteIncomplete(r) PROVE AnswerInv'
    <2>1. Visible'
        BY <1>17 DEF Visible, Downloads, TypeOK, Ready, Names, Absent, DeleteIncomplete
    <2>2. \A j \in Jobs : ReadCommitted(j)'
        BY <1>17 DEF ReadCommitted, TypeOK, storeVars, storeVars, DeleteIncomplete
    <2>3. AnswersCommitted'
        BY <1>17 DEF AnswersCommitted, TypeOK, storeVars, DeleteIncomplete
    <2> QED
        BY <2>1, <2>2, <2>3
<1>18. ASSUME NEW r \in Jobs, Send(r) PROVE AnswerInv'
    <2>1. Visible'
        BY <1>18 DEF Visible, Downloads, TypeOK, Ready, Names, Send
    <2>2. \A j \in Jobs : ReadCommitted(j)'
        BY <1>18 DEF ReadCommitted, TypeOK, storeVars, storeVars, Send, Retry
    <2>3. AnswersCommitted'
        BY <1>18 DEF AnswersCommitted, TypeOK, storeVars, Send, Retry
    <2> QED
        BY <2>1, <2>2, <2>3
<1>19. ASSUME NEW r \in Jobs, SendReturns(r) PROVE AnswerInv'
    BY <1>19 DEF Visible, Downloads, ReadCommitted, AnswersCommitted, TypeOK, storeVars,
                 SendReturns, Retry
<1>20. ASSUME NEW r \in Jobs, ConfirmListing(r) PROVE AnswerInv'
    BY <1>20 DEF Visible, Downloads, ReadCommitted, AnswersCommitted, TypeOK, storeVars,
                 ConfirmListing, Retry
<1>21. ASSUME NEW r \in Jobs, VerifyUploaded(r) PROVE AnswerInv'
    <2>1. Visible'
        BY <1>21 DEF Visible, Downloads, storeVars, VerifyUploaded, ItemDone, Retry
    <2>2. \A j \in Jobs : ReadCommitted(j)'
        BY <1>21 DEF ReadCommitted, TypeOK, storeVars, storeVars, VerifyUploaded, ItemDone, Retry
    <2>3. AnswersCommitted'
        BY <1>21 DEF AnswersCommitted, Visible, Ready, UploadedVerified, Expected, TypeOK,
                     storeVars, VerifyUploaded, ItemDone, Retry
    <2> QED
        BY <2>1, <2>2, <2>3
<1>22. ASSUME NEW r \in Jobs, CheckFails(r) PROVE AnswerInv'
    BY <1>22 DEF Visible, Downloads, ReadCommitted, AnswersCommitted, TypeOK, storeVars,
                 CheckFails, Fault, Decide
<1>23. ASSUME NEW r \in Jobs, SendFails(r) PROVE AnswerInv'
    BY <1>23 DEF Visible, Downloads, ReadCommitted, AnswersCommitted, TypeOK, storeVars,
                 SendFails, Fault, Retry
<1>24. ASSUME NEW r \in Jobs, Lose(r) PROVE AnswerInv'
    BY <1>24 DEF Visible, Downloads, ReadCommitted, AnswersCommitted, TypeOK, storeVars, Lose,
                 Fault, Active
<1>25. ASSUME NEW n \in Names, Land(n) PROVE AnswerInv'
    <2>1. Visible'
        BY <1>25 DEF Visible, Downloads, TypeOK, Asset, Land, Names
    <2>2. \A j \in Jobs : ReadCommitted(j)'
        BY <1>25 DEF ReadCommitted, TypeOK, storeVars, storeVars, Land, Fault, runVars
    <2>3. AnswersCommitted'
        BY <1>25 DEF AnswersCommitted, TypeOK, storeVars, Land, Fault, runVars
    <2> QED
        BY <2>1, <2>2, <2>3
<1>26. ASSUME UNCHANGED vars PROVE AnswerInv'
    BY <1>26 DEF Visible, Downloads, ReadCommitted, AnswersCommitted, TypeOK, storeVars, vars,
                 runVars
<1> QED
    BY <1>1, <1>2, <1>3, <1>4, <1>5, <1>6, <1>7, <1>8, <1>9, <1>10, <1>11, <1>12, <1>13, <1>14,
       <1>15, <1>16, <1>17, <1>18, <1>19, <1>20, <1>21, <1>22, <1>23, <1>24, <1>25, <1>26
       DEF Next, JobStep, JobFault, Finished

LEMMA InitAnswerInv == Init => AnswerInv
    BY ContentsAssumption DEF Init, AnswerInv, Visible, ReadCommitted, AnswersCommitted,
                              Downloads, Absent, Names, Jobs

\* What publish reports as published, and what restore-required puts into out/, has been
\* a committed record: for any number of concurrent runs, crashes and damaged transfers.
THEOREM AnswersAreCommitted == Spec => []AnswersCommitted
<1>1. AnswerInv => AnswersCommitted
    BY DEF AnswerInv
<1> QED
    BY <1>1, InitAnswerInv, TypeInvariant, StepAnswerInv, PTL DEF Spec

(***************************************************************************)
(* One run at a time                                                       *)
(***************************************************************************)

\* The concurrency group.
Alone == \A r, s \in Runs : Active(r) /\ Active(s) => r = s

\* The registry asset is, or is about to become, a commit record.
Genuine == asset[Registry].state # "absent" /\ asset[Registry].body \in Records

RegistryBacked == Genuine => Backed(asset[Registry].body)

CommitsBacked == \A content \in commits : Backed(content)

\* publish has stored every payload it no longer has to do.
Stored(r) ==
    pc[r] \in Uploading =>
        /\ \A p \in Payloads \ todo[r] : Downloads(p, outputs[r][p])
        /\ item[r] \in Payloads => item[r] \in todo[r]
        /\ item[r] = Registry => todo[r] = {}

\* Whoever is about to delete works on an uncommitted stage.
DeletesUncommitted(r) ==
    pc[r] = "delete" =>
        /\ \A s \in Runs : pc[s] \notin Succeeded
        /\ item[r] \in Payloads => ~Genuine /\ commits = {}

\* The registry a run has read is still there when it compares the payloads.
StillThere(r) ==
    pc[r] \in {"check_bytes", "verify_bytes"} => Downloads(Registry, record[r])

Kept ==
    (\E r \in Runs : pc[r] \in Succeeded) => Genuine /\ asset[Registry].state = "uploaded"

SerialInv ==
    /\ Alone
    /\ RegistryBacked
    /\ CommitsBacked
    /\ \A r \in Runs : Stored(r) /\ DeletesUncommitted(r) /\ StillThere(r)
    /\ Kept

LEMMA StepSerialInv ==
    ASSUME Serialised, TypeInv, SerialInv, [Next]_vars
    PROVE  SerialInv'
<1> USE NamesAssumption, ContentsAssumption, JobsAssumption
<1> USE DEF SerialInv, TypeInv, Goto
<1>1. ASSUME NEW r \in Jobs, Begin(r) PROVE SerialInv'
    BY <1>1 DEF Alone, Active, RegistryBacked, CommitsBacked, Backed, Genuine, Stored, Kept,
                Downloads, DeletesUncommitted, StillThere, Roles, Ready, Jobs, TypeOK,
                storeVars, Begin, Active
<1>2. ASSUME NEW r \in Jobs, CheckListing(r) PROVE SerialInv'
    <2>1. Alone'
        BY <1>2 DEF Alone, Active, Roles, Jobs, TypeOK, storeVars, CheckListing, List, Decide
    <2>2. RegistryBacked'
        BY <1>2 DEF RegistryBacked, Genuine, Backed, Downloads, storeVars, CheckListing, List,
                    Decide
    <2>3. CommitsBacked'
        BY <1>2 DEF CommitsBacked, Backed, Downloads, storeVars, CheckListing, List, Decide
    <2>4. \A s \in Runs : Stored(s)'
        BY <1>2 DEF Stored, Downloads, TypeOK, Ready, Alone, Active, Jobs, storeVars,
                    CheckListing, List, Decide
    <2>5. \A s \in Runs : DeletesUncommitted(s)'
        BY <1>2 DEF DeletesUncommitted, Genuine, TypeOK, Alone, Active, Roles, Jobs, storeVars,
                    CheckListing, List, Decide
    <2>6. \A s \in Runs : StillThere(s)'
        BY <1>2 DEF StillThere, Downloads, TypeOK, Alone, Active, Jobs, storeVars, CheckListing,
                    List, Decide
    <2>7. Kept'
        BY <1>2 DEF Kept, Genuine, TypeOK, Roles, Jobs, storeVars, CheckListing, List, Decide
    <2> QED
        BY <2>1, <2>2, <2>3, <2>4, <2>5, <2>6, <2>7
<1>3. ASSUME NEW r \in Jobs, CheckRegistry(r) PROVE SerialInv'
    <2>1. Alone'
        BY <1>3 DEF Alone, Active, Roles, Jobs, TypeOK, storeVars, CheckRegistry, ReadRegistry,
                    Decide
    <2>2. RegistryBacked'
        BY <1>3 DEF RegistryBacked, Genuine, Backed, Downloads, storeVars, CheckRegistry,
                    ReadRegistry, Decide
    <2>3. CommitsBacked'
        BY <1>3 DEF CommitsBacked, Backed, Downloads, storeVars, CheckRegistry, ReadRegistry, Decide
    <2>4. \A s \in Runs : Stored(s)'
        BY <1>3 DEF Stored, Downloads, TypeOK, Ready, Alone, Active, Jobs, storeVars,
                    CheckRegistry, ReadRegistry, Decide
    <2>5. \A s \in Runs : DeletesUncommitted(s)'
        BY <1>3 DEF DeletesUncommitted, Genuine, TypeOK, Alone, Active, Roles, Jobs, storeVars,
                    CheckRegistry, ReadRegistry, Decide
    <2>6. \A s \in Runs : StillThere(s)'
        BY <1>3 DEF StillThere, RegistryRead, Downloads, TypeOK, Alone, Active, Jobs, storeVars,
                    CheckRegistry, ReadRegistry, Decide
    <2>7. Kept'
        BY <1>3 DEF Kept, Genuine, TypeOK, Roles, Jobs, storeVars, CheckRegistry, ReadRegistry,
                    Decide
    <2> QED
        BY <2>1, <2>2, <2>3, <2>4, <2>5, <2>6, <2>7
<1>4. ASSUME NEW r \in Jobs, CheckBytes(r) PROVE SerialInv'
    <2>1. Alone'
        BY <1>4 DEF Alone, Active, Roles, Jobs, TypeOK, storeVars, CheckBytes, Decide
    <2>2. RegistryBacked'
        BY <1>4 DEF RegistryBacked, Genuine, Backed, Downloads, storeVars, CheckBytes, Decide
    <2>3. CommitsBacked'
        BY <1>4 DEF CommitsBacked, Backed, Downloads, storeVars, CheckBytes, Decide
    <2>4. \A s \in Runs : Stored(s)'
        BY <1>4 DEF Stored, Downloads, TypeOK, Ready, Alone, Active, Jobs, storeVars,
                    CheckBytes, Decide
    <2>5. \A s \in Runs : DeletesUncommitted(s)'
        BY <1>4 DEF DeletesUncommitted, Genuine, TypeOK, Alone, Active, Roles, Jobs, storeVars,
                    CheckBytes, Decide
    <2>6. \A s \in Runs : StillThere(s)'
        BY <1>4 DEF StillThere, Downloads, TypeOK, Alone, Active, Jobs, storeVars, CheckBytes,
                    Decide
    <2>7. Kept'
        BY <1>4 DEF Kept, StillThere, Genuine, Downloads, Ready, TypeOK, Roles, Jobs, storeVars,
                    CheckBytes, Decide
    <2> QED
        BY <2>1, <2>2, <2>3, <2>4, <2>5, <2>6, <2>7
<1>5. ASSUME NEW r \in Jobs, RestoreListing(r) PROVE SerialInv'
    BY <1>5 DEF Alone, Active, RegistryBacked, CommitsBacked, Backed, Genuine, Stored, Kept,
                Downloads, DeletesUncommitted, StillThere, Roles, Ready, Jobs, TypeOK,
                storeVars, RestoreListing, List
<1>6. ASSUME NEW r \in Jobs, RestoreRegistry(r) PROVE SerialInv'
    BY <1>6 DEF Alone, Active, RegistryBacked, CommitsBacked, Backed, Genuine, Stored, Kept,
                Downloads, DeletesUncommitted, StillThere, Roles, Ready, Jobs, TypeOK,
                storeVars, RestoreRegistry, ReadRegistry, RestoreGivesUp
<1>7. ASSUME NEW r \in Jobs, RestoreOutputs(r) PROVE SerialInv'
    <2>1. Alone'
        BY <1>7 DEF Alone, Active, Roles, Jobs, TypeOK, storeVars, RestoreOutputs, RestoreGivesUp
    <2>2. RegistryBacked'
        BY <1>7 DEF RegistryBacked, Genuine, Backed, Downloads, storeVars, RestoreOutputs,
                    RestoreGivesUp
    <2>3. CommitsBacked'
        BY <1>7 DEF CommitsBacked, Backed, Downloads, storeVars, RestoreOutputs, RestoreGivesUp
    <2>4. \A s \in Runs : Stored(s)'
        BY <1>7 DEF Stored, Downloads, TypeOK, Ready, Alone, Active, Jobs, storeVars,
                    RestoreOutputs, RestoreGivesUp
    <2>5. \A s \in Runs : DeletesUncommitted(s)'
        BY <1>7 DEF DeletesUncommitted, Genuine, TypeOK, Alone, Active, Roles, Jobs, storeVars,
                    RestoreOutputs, RestoreGivesUp
    <2>6. \A s \in Runs : StillThere(s)'
        BY <1>7 DEF StillThere, Downloads, TypeOK, Alone, Active, Jobs, storeVars,
                    RestoreOutputs, RestoreGivesUp
    <2>7. Kept'
        BY <1>7 DEF Kept, Genuine, TypeOK, Roles, Jobs, storeVars, RestoreOutputs, RestoreGivesUp
    <2> QED
        BY <2>1, <2>2, <2>3, <2>4, <2>5, <2>6, <2>7
<1>8. ASSUME NEW r \in Jobs, Build(r) PROVE SerialInv'
    BY <1>8 DEF Alone, Active, RegistryBacked, CommitsBacked, Backed, Genuine, Stored, Kept,
                Downloads, DeletesUncommitted, StillThere, Roles, Ready, Jobs, TypeOK,
                storeVars, Build
<1>9. ASSUME NEW r \in Jobs, RequireListing(r) PROVE SerialInv'
    BY <1>9 DEF Alone, Active, RegistryBacked, CommitsBacked, Backed, Genuine, Stored, Kept,
                Downloads, DeletesUncommitted, StillThere, Roles, Ready, Jobs, TypeOK,
                storeVars, RequireListing, List
<1>10. ASSUME NEW r \in Jobs, RequireRegistry(r) PROVE SerialInv'
    BY <1>10 DEF Alone, Active, RegistryBacked, CommitsBacked, Backed, Genuine, Stored, Kept,
                 Downloads, DeletesUncommitted, StillThere, Roles, Ready, Jobs, TypeOK,
                 storeVars, RequireRegistry, ReadRegistry
<1>11. ASSUME NEW r \in Jobs, RequireBytes(r) PROVE SerialInv'
    BY <1>11 DEF Alone, Active, RegistryBacked, CommitsBacked, Backed, Genuine, Stored, Kept,
                 Downloads, DeletesUncommitted, StillThere, Roles, Ready, Jobs, TypeOK,
                 storeVars, RequireBytes
<1>12. ASSUME NEW r \in Jobs, PublishListing(r) PROVE SerialInv'
    <2>1. Alone'
        BY <1>12 DEF Alone, Active, Roles, Jobs, TypeOK, storeVars, PublishListing, List
    <2>2. RegistryBacked'
        BY <1>12 DEF RegistryBacked, Genuine, Backed, Downloads, storeVars, PublishListing, List
    <2>3. CommitsBacked'
        BY <1>12 DEF CommitsBacked, Backed, Downloads, storeVars, PublishListing, List
    <2>4. \A s \in Runs : Stored(s)'
        BY <1>12 DEF Stored, Names, Downloads, TypeOK, Ready, Alone, Active, Jobs, storeVars,
                     PublishListing, List
    <2>5. \A s \in Runs : DeletesUncommitted(s)'
        BY <1>12 DEF DeletesUncommitted, Genuine, TypeOK, Alone, Active, Roles, Jobs, storeVars,
                     PublishListing, List
    <2>6. \A s \in Runs : StillThere(s)'
        BY <1>12 DEF StillThere, Downloads, TypeOK, Alone, Active, Jobs, storeVars,
                     PublishListing, List
    <2>7. Kept'
        BY <1>12 DEF Kept, Genuine, TypeOK, Roles, Jobs, storeVars, PublishListing, List
    <2> QED
        BY <2>1, <2>2, <2>3, <2>4, <2>5, <2>6, <2>7
<1>13. ASSUME NEW r \in Jobs, VerifyRegistry(r) PROVE SerialInv'
    <2>1. Alone'
        BY <1>13 DEF Alone, Active, Roles, Jobs, TypeOK, storeVars, VerifyRegistry, ReadRegistry
    <2>2. RegistryBacked'
        BY <1>13 DEF RegistryBacked, Genuine, Backed, Downloads, storeVars, VerifyRegistry,
                     ReadRegistry
    <2>3. CommitsBacked'
        BY <1>13 DEF CommitsBacked, Backed, Downloads, storeVars, VerifyRegistry, ReadRegistry
    <2>4. \A s \in Runs : Stored(s)'
        BY <1>13 DEF Stored, Downloads, TypeOK, Ready, Alone, Active, Jobs, storeVars,
                     VerifyRegistry, ReadRegistry
    <2>5. \A s \in Runs : DeletesUncommitted(s)'
        BY <1>13 DEF DeletesUncommitted, Genuine, TypeOK, Alone, Active, Roles, Jobs, storeVars,
                     VerifyRegistry, ReadRegistry
    <2>6. \A s \in Runs : StillThere(s)'
        BY <1>13 DEF StillThere, RegistryRead, Downloads, TypeOK, Alone, Active, Jobs,
                     storeVars, VerifyRegistry, ReadRegistry
    <2>7. Kept'
        BY <1>13 DEF Kept, Genuine, TypeOK, Roles, Jobs, storeVars, VerifyRegistry, ReadRegistry
    <2> QED
        BY <2>1, <2>2, <2>3, <2>4, <2>5, <2>6, <2>7
<1>14. ASSUME NEW r \in Jobs, VerifyCommitted(r) PROVE SerialInv'
    <2>1. Alone'
        BY <1>14 DEF Alone, Active, Roles, Jobs, TypeOK, storeVars, VerifyCommitted
    <2>2. RegistryBacked'
        BY <1>14 DEF RegistryBacked, Genuine, Backed, Downloads, storeVars, VerifyCommitted
    <2>3. CommitsBacked'
        BY <1>14 DEF CommitsBacked, Backed, Downloads, storeVars, VerifyCommitted
    <2>4. \A s \in Runs : Stored(s)'
        BY <1>14 DEF Stored, Downloads, TypeOK, Ready, Alone, Active, Jobs, storeVars,
                     VerifyCommitted
    <2>5. \A s \in Runs : DeletesUncommitted(s)'
        BY <1>14 DEF DeletesUncommitted, Genuine, TypeOK, Alone, Active, Roles, Jobs, storeVars,
                     VerifyCommitted
    <2>6. \A s \in Runs : StillThere(s)'
        BY <1>14 DEF StillThere, Downloads, TypeOK, Alone, Active, Jobs, storeVars, VerifyCommitted
    <2>7. Kept'
        BY <1>14 DEF Kept, StillThere, Genuine, Downloads, Ready, TypeOK, Roles, Jobs,
                     storeVars, VerifyCommitted
    <2> QED
        BY <2>1, <2>2, <2>3, <2>4, <2>5, <2>6, <2>7
<1>15. ASSUME NEW r \in Jobs, CreateRelease(r) PROVE SerialInv'
    <2>1. Alone'
        BY <1>15 DEF Alone, Active, Roles, Jobs, TypeOK, storeVars, CreateRelease
    <2>2. RegistryBacked'
        BY <1>15 DEF RegistryBacked, Genuine, Backed, Downloads, storeVars, CreateRelease
    <2>3. CommitsBacked'
        BY <1>15 DEF CommitsBacked, Backed, Downloads, storeVars, CreateRelease
    <2>4. \A s \in Runs : Stored(s)'
        BY <1>15 DEF Stored, Names, Downloads, TypeOK, Ready, Alone, Active, Jobs, storeVars,
                     CreateRelease
    <2>5. \A s \in Runs : DeletesUncommitted(s)'
        BY <1>15 DEF DeletesUncommitted, Genuine, TypeOK, Alone, Active, Roles, Jobs, storeVars,
                     CreateRelease
    <2>6. \A s \in Runs : StillThere(s)'
        BY <1>15 DEF StillThere, Downloads, TypeOK, Alone, Active, Jobs, storeVars, CreateRelease
    <2>7. Kept'
        BY <1>15 DEF Kept, Genuine, TypeOK, Roles, Jobs, storeVars, CreateRelease
    <2> QED
        BY <2>1, <2>2, <2>3, <2>4, <2>5, <2>6, <2>7
<1>16. ASSUME NEW r \in Jobs, UploadListing(r) PROVE SerialInv'
    <2>1. Alone'
        BY <1>16 DEF Alone, Active, Roles, Jobs, TypeOK, storeVars, UploadListing, Candidates
    <2>2. RegistryBacked'
        BY <1>16 DEF RegistryBacked, Genuine, Backed, Downloads, storeVars, UploadListing,
                     Candidates
    <2>3. CommitsBacked'
        BY <1>16 DEF CommitsBacked, Backed, Downloads, storeVars, UploadListing, Candidates
    <2>4. \A s \in Runs : Stored(s)'
        BY <1>16 DEF Stored, Downloads, TypeOK, Ready, Alone, Active, Jobs, storeVars,
                     UploadListing, Candidates
    <2>5. \A s \in Runs : DeletesUncommitted(s)'
        <3>1. r \in Runs /\ pc[r] = "next"
            BY <1>16 DEF UploadListing, Roles, Jobs
        <3>2. PICK n \in Candidates(r) :
                  /\ item' = [item EXCEPT ![r] = n]
                  /\ pc' = [pc EXCEPT ![r] = IF asset[n].state = "uploaded" THEN "reuse"
                                            ELSE IF asset[n].state = "starter" THEN "delete"
                                            ELSE "send"]
            BY <1>16 DEF UploadListing
        <3>3. n \in Names
            BY <1>16, <3>2 DEF Candidates, TypeOK, Names
        <3>4. UNCHANGED <<asset, commits>>
            BY <1>16 DEF UploadListing, storeVars
        <3>5. asset[n].state = "starter" =>
                  /\ \A s \in Runs : pc[s] \notin Succeeded
                  /\ n \in Payloads => ~Genuine /\ commits = {}
            BY <3>3 DEF Kept, RegistryBacked, CommitsBacked, Backed, Downloads, Names
        <3>6. \A s \in Runs : s # r => pc'[s] = pc[s] /\ pc[s] # "delete"
            BY <3>1, <3>2 DEF Alone, Active, TypeOK
        <3>7. Genuine' = Genuine
            BY <3>4 DEF Genuine
        <3> QED
            BY <3>1, <3>2, <3>4, <3>5, <3>6, <3>7 DEF DeletesUncommitted, TypeOK, Jobs
    <2>6. \A s \in Runs : StillThere(s)'
        BY <1>16 DEF StillThere, Downloads, TypeOK, Alone, Active, Jobs, storeVars,
                     UploadListing, Candidates
    <2>7. Kept'
        BY <1>16 DEF Kept, Genuine, TypeOK, Roles, Jobs, storeVars, UploadListing, Candidates
    <2> QED
        BY <2>1, <2>2, <2>3, <2>4, <2>5, <2>6, <2>7
<1>17. ASSUME NEW r \in Jobs, DeleteIncomplete(r) PROVE SerialInv'
    <2>1. /\ r \in Runs
          /\ item[r] \in Names
          /\ \A s \in Runs : pc[s] \notin Succeeded
          /\ item[r] \in Payloads => ~Genuine /\ commits = {}
        BY <1>17 DEF DeleteIncomplete, DeletesUncommitted, Roles, Ready, Jobs
    <2>2. asset' = [asset EXCEPT ![item[r]] = Absent] \/ asset' = asset
        BY <1>17 DEF DeleteIncomplete
    <2>3. /\ \E step \in {"send", "failed"} : pc' = [pc EXCEPT ![r] = step]
          /\ UNCHANGED <<commits, outputs, record, todo, item>>
        BY <1>17 DEF DeleteIncomplete
    <2>4. \A n \in Names \ {item[r]} : asset'[n] = asset[n]
        BY <2>1, <2>2 DEF TypeOK
    <2>5. \A s \in Runs : s # r => pc'[s] = pc[s] /\ ~Active(s)
        BY <1>17, <2>1, <2>3 DEF DeleteIncomplete, Alone, Active, TypeOK
    <2>6. Alone'
        BY <2>3, <2>5 DEF Alone, Active
    <2>7. RegistryBacked' /\ CommitsBacked'
        <3>1. CASE item[r] = Registry
            <4>1. asset'[Registry] = Absent \/ asset' = asset
                BY <2>1, <2>2, <3>1 DEF TypeOK
            <4> QED
                BY <2>3, <2>4, <3>1, <4>1
                   DEF RegistryBacked, CommitsBacked, Genuine, Backed, Downloads, Absent, Names
        <3>2. CASE item[r] \in Payloads
            BY <2>1, <2>3, <2>4, <3>2 DEF RegistryBacked, CommitsBacked, Genuine, Names
        <3> QED
            BY <2>1, <3>1, <3>2 DEF Names
    <2>8. \A s \in Runs : Stored(s)'
        <3>1. Stored(r)'
            BY <1>17, <2>1, <2>3, <2>4 DEF DeleteIncomplete, Stored, Downloads, Names
        <3> QED
            BY <2>5, <3>1 DEF Stored, Active
    <2>9. \A s \in Runs : DeletesUncommitted(s)' /\ StillThere(s)'
        BY <2>1, <2>3, <2>5 DEF DeletesUncommitted, StillThere, Active, TypeOK, Jobs
    <2>10. Kept'
        BY <2>1, <2>3 DEF Kept, TypeOK, Jobs
    <2> QED
        BY <2>6, <2>7, <2>8, <2>9, <2>10
<1>18. ASSUME NEW r \in Jobs, Send(r) PROVE SerialInv'
    <2>1. r \in Runs /\ item[r] \in Names /\ outputs[r] \in Records /\ pc[r] = "send"
        BY <1>18 DEF Send, Roles, Ready, Jobs
    <2>2. /\ \E step \in {"sending", "next", "failed"} : pc' = [pc EXCEPT ![r] = step]
          /\ UNCHANGED <<commits, outputs, record, todo, item>>
        BY <1>18 DEF Send, Retry
    <2>3. \/ asset' = asset
          \/ /\ asset[item[r]].state = "absent"
             /\ asset' = [asset EXCEPT ![item[r]] = [id |-> lastId + 1, state |-> "starter",
                                                     body |-> Expected(r, item[r])]]
        BY <1>18 DEF Send
    <2>4. \A n \in Names : asset'[n] = asset[n] \/ (n = item[r] /\ asset[n].state = "absent")
        BY <2>1, <2>3 DEF TypeOK
    <2>5. \A s \in Runs : s # r => pc'[s] = pc[s] /\ ~Active(s)
        BY <2>1, <2>2 DEF Alone, Active, TypeOK
    <2>6. Alone'
        BY <2>2, <2>5 DEF Alone, Active
    <2>7. \A n \in Names : \A body : Downloads(n, body) => Downloads(n, body)'
        BY <2>4 DEF Downloads
    <2>8. RegistryBacked'
        <3>1. CASE asset'[Registry] = asset[Registry]
            BY <2>7, <3>1 DEF RegistryBacked, Genuine, Backed, Names
        <3>2. CASE asset'[Registry] # asset[Registry]
            <4>1. item[r] = Registry /\ asset'[Registry].body = outputs[r]
                BY <2>3, <2>4, <3>2 DEF Names, Expected, TypeOK
            <4>2. \A p \in Payloads : Downloads(p, outputs[r][p])
                BY <1>18, <2>1, <4>1 DEF Send, Stored
            <4> QED
                BY <2>7, <4>1, <4>2 DEF RegistryBacked, Genuine, Backed, Names
        <3> QED
            BY <3>1, <3>2
    <2>9. CommitsBacked'
        BY <2>2, <2>7 DEF CommitsBacked, Backed, Names
    <2>10. \A s \in Runs : Stored(s)'
        <3>1. Stored(r)'
            BY <1>18, <2>1, <2>2, <2>7 DEF Send, Stored, Names
        <3> QED
            BY <2>5, <3>1 DEF Stored, Active
    <2>11. \A s \in Runs : DeletesUncommitted(s)' /\ StillThere(s)'
        BY <2>1, <2>2, <2>5 DEF DeletesUncommitted, StillThere, Active, TypeOK, Jobs
    <2>12. Kept'
        BY <2>1, <2>2, <2>4 DEF Kept, Genuine, TypeOK, Jobs, Names
    <2> QED
        BY <2>6, <2>8, <2>9, <2>10, <2>11, <2>12
<1>19. ASSUME NEW r \in Jobs, SendReturns(r) PROVE SerialInv'
    BY <1>19 DEF Alone, Active, RegistryBacked, CommitsBacked, Backed, Genuine, Stored, Kept,
                 Downloads, DeletesUncommitted, StillThere, Roles, Ready, Jobs, TypeOK,
                 storeVars, SendReturns, Retry
<1>20. ASSUME NEW r \in Jobs, ConfirmListing(r) PROVE SerialInv'
    <2>1. Alone'
        BY <1>20 DEF Alone, Active, Roles, Jobs, TypeOK, storeVars, ConfirmListing, Retry
    <2>2. RegistryBacked'
        BY <1>20 DEF RegistryBacked, Genuine, Backed, Downloads, storeVars, ConfirmListing, Retry
    <2>3. CommitsBacked'
        BY <1>20 DEF CommitsBacked, Backed, Downloads, storeVars, ConfirmListing, Retry
    <2>4. \A s \in Runs : Stored(s)'
        BY <1>20 DEF Stored, Downloads, TypeOK, Ready, Alone, Active, Jobs, storeVars,
                     ConfirmListing, Retry
    <2>5. \A s \in Runs : DeletesUncommitted(s)'
        BY <1>20 DEF DeletesUncommitted, Genuine, TypeOK, Alone, Active, Roles, Jobs, storeVars,
                     ConfirmListing, Retry
    <2>6. \A s \in Runs : StillThere(s)'
        BY <1>20 DEF StillThere, Downloads, TypeOK, Alone, Active, Jobs, storeVars,
                     ConfirmListing, Retry
    <2>7. Kept'
        BY <1>20 DEF Kept, Genuine, TypeOK, Roles, Jobs, storeVars, ConfirmListing, Retry
    <2> QED
        BY <2>1, <2>2, <2>3, <2>4, <2>5, <2>6, <2>7
<1>21. ASSUME NEW r \in Jobs, VerifyUploaded(r) PROVE SerialInv'
    <2>1. Alone'
        BY <1>21 DEF Alone, Active, Roles, Jobs, TypeOK, storeVars, VerifyUploaded, ItemDone, Retry
    <2>2. RegistryBacked'
        BY <1>21 DEF RegistryBacked, Genuine, Backed, Downloads, storeVars, VerifyUploaded,
                     ItemDone, Retry
    <2>3. CommitsBacked'
        BY <1>21 DEF CommitsBacked, Backed, Downloads, storeVars, VerifyUploaded, ItemDone, Retry
    <2>4. \A s \in Runs : Stored(s)'
        BY <1>21 DEF Stored, Names, UploadedVerified, Expected, Downloads, TypeOK, Ready, Alone,
               Active, Jobs, storeVars, VerifyUploaded, ItemDone, Retry
    <2>5. \A s \in Runs : DeletesUncommitted(s)'
        BY <1>21 DEF DeletesUncommitted, Genuine, TypeOK, Alone, Active, Roles, Jobs, storeVars,
                     VerifyUploaded, ItemDone, Retry
    <2>6. \A s \in Runs : StillThere(s)'
        BY <1>21 DEF StillThere, Downloads, TypeOK, Alone, Active, Jobs, storeVars,
                     VerifyUploaded, ItemDone, Retry
    <2>7. Kept'
        BY <1>21 DEF Kept, UploadedVerified, Expected, Genuine, Downloads, Ready, TypeOK, Roles,
               Jobs, storeVars, VerifyUploaded, ItemDone, Retry
    <2> QED
        BY <2>1, <2>2, <2>3, <2>4, <2>5, <2>6, <2>7
<1>22. ASSUME NEW r \in Jobs, CheckFails(r) PROVE SerialInv'
    BY <1>22 DEF Alone, Active, RegistryBacked, CommitsBacked, Backed, Genuine, Stored, Kept,
                 Downloads, DeletesUncommitted, StillThere, Roles, Ready, Jobs, TypeOK,
                 storeVars, CheckFails, Fault, Decide
<1>23. ASSUME NEW r \in Jobs, SendFails(r) PROVE SerialInv'
    BY <1>23 DEF Alone, Active, RegistryBacked, CommitsBacked, Backed, Genuine, Stored, Kept,
                 Downloads, DeletesUncommitted, StillThere, Roles, Ready, Jobs, TypeOK,
                 storeVars, SendFails, Fault, Retry
<1>24. ASSUME NEW r \in Jobs, Lose(r) PROVE SerialInv'
    BY <1>24 DEF Alone, Active, RegistryBacked, CommitsBacked, Backed, Genuine, Stored, Kept,
                 Downloads, DeletesUncommitted, StillThere, Roles, Ready, Jobs, TypeOK,
                 storeVars, Lose, Fault, Active
<1>25. ASSUME NEW n \in Names, Land(n) PROVE SerialInv'
    <2>1. UNCHANGED <<pc, outputs, record, todo, item>>
        BY <1>25 DEF Land, runVars
    <2>2. /\ asset[n].state = "starter"
          /\ asset'[n].state = "uploaded"
          /\ asset'[n].body \in {asset[n].body, Corrupt}
          /\ \A m \in Names \ {n} : asset'[m] = asset[m]
        BY <1>25 DEF Land, TypeOK, Asset
    <2>3. commits' = IF n = Registry /\ asset'[n].body \in Records
                     THEN commits \cup {asset'[n].body} ELSE commits
        BY <1>25 DEF Land
    <2>4. \A m \in Names : \A body : Downloads(m, body) => Downloads(m, body)'
        BY <2>2 DEF Downloads
    <2>5. Genuine' => Genuine /\ asset'[Registry].body = asset[Registry].body
        BY <2>2 DEF Genuine, Names
    <2>6. Alone'
        BY <2>1 DEF Alone, Active
    <2>7. RegistryBacked'
        BY <2>4, <2>5 DEF RegistryBacked, Backed, Names
    <2>8. CommitsBacked'
        <3>1. \A content \in commits : Backed(content)'
            BY <2>4 DEF CommitsBacked, Backed, Names
        <3>2. ASSUME NEW content \in Records, n = Registry, asset'[n].body = content
              PROVE  Backed(content)'
            BY <2>2, <2>7, <3>2 DEF RegistryBacked, Genuine
        <3> QED
            BY <2>3, <3>1, <3>2 DEF CommitsBacked
    <2>9. \A s \in Runs : Stored(s)' /\ StillThere(s)'
        BY <2>1, <2>4 DEF Stored, StillThere, Names
    <2>10. \A s \in Runs : DeletesUncommitted(s)'
        BY <2>1, <2>2, <2>3, <2>5 DEF DeletesUncommitted, Genuine
    <2>11. Kept'
        BY <2>1, <2>2 DEF Kept, Genuine, Names
    <2> QED
        BY <2>6, <2>7, <2>8, <2>9, <2>10, <2>11
<1>26. ASSUME UNCHANGED vars PROVE SerialInv'
    BY <1>26 DEF Alone, Active, RegistryBacked, CommitsBacked, Backed, Genuine, Stored, Kept,
                 Downloads, DeletesUncommitted, StillThere, Roles, Ready, Jobs, TypeOK,
                 storeVars, vars, runVars
<1> QED
    BY <1>1, <1>2, <1>3, <1>4, <1>5, <1>6, <1>7, <1>8, <1>9, <1>10, <1>11, <1>12, <1>13, <1>14,
       <1>15, <1>16, <1>17, <1>18, <1>19, <1>20, <1>21, <1>22, <1>23, <1>24, <1>25, <1>26
       DEF Next, JobStep, JobFault, Finished

LEMMA InitSerialInv == Init => SerialInv
    BY ContentsAssumption
       DEF Init, SerialInv, Alone, Active, RegistryBacked, CommitsBacked, Genuine, Stored,
           DeletesUncommitted, StillThere, Kept, Absent, Names, Jobs

LEMMA SerialInvariant ==
    ASSUME Serialised
    PROVE  Spec => [](TypeInv /\ SerialInv)
<1>1. TypeInv /\ SerialInv /\ [Next]_vars => SerialInv'
    BY StepSerialInv
<1> QED
    BY <1>1, InitSerialInv, TypeInvariant, PTL DEF Spec

\* When the concurrency group admits one run at a time, a readable registry is backed by
\* every payload it records, whatever crashes, retries and late uploads led here.
THEOREM CommitIsBacked ==
    ASSUME Serialised
    PROVE  Spec => []CommitBacked
<1>1. SerialInv => CommitBacked
    BY ContentsAssumption DEF SerialInv, RegistryBacked, Genuine, CommitBacked, Downloads
<1> QED
    BY <1>1, SerialInvariant, PTL

\* Under the same condition, what stage-complete or publish has reported as finished stays
\* committed for good.
THEOREM SuccessLasts ==
    ASSUME Serialised
    PROVE  Spec => []SuccessIsDurable
<1>1. SerialInv => SuccessIsDurable
    BY DEF SerialInv, Kept, RegistryBacked, Genuine, SuccessIsDurable, Downloads
<1> QED
    BY <1>1, SerialInvariant, PTL

\* Two registries that were ever visible record the same bytes for every payload, because
\* both are backed by the same assets.
LEMMA BackedTwice ==
    ASSUME NEW a \in Records, NEW b \in Records, Backed(a), Backed(b)
    PROVE  a = b
<1>1. \A p \in Payloads : a[p] = b[p]
    BY DEF Backed, Downloads
<1> QED
    BY <1>1 DEF Records

\* Under the same condition a stage has one content, though its builds differ.
THEOREM ContentIsUnique ==
    ASSUME Serialised
    PROVE  Spec => []OneContent
<1>1. TypeInv /\ SerialInv => OneContent
    BY BackedTwice DEF TypeInv, TypeOK, SerialInv, CommitsBacked, OneContent
<1> QED
    BY <1>1, SerialInvariant, PTL

(***************************************************************************)
(* Refinement: the Release is a write-once record                          *)
(***************************************************************************)

SafeInv == TypeInv /\ AnswerInv /\ SerialInv

LEMMA CommitsAreOne ==
    SafeInv => \A a \in commits : commits = {a} /\ Value = a /\ a \in Records
<1> SUFFICES ASSUME SafeInv, NEW a \in commits
             PROVE  commits = {a} /\ Value = a /\ a \in Records
    OBVIOUS
<1>1. commits = {a} /\ a \in Records
    BY BackedTwice DEF SafeInv, TypeInv, TypeOK, SerialInv, CommitsBacked
<1> QED
    BY <1>1 DEF Value

\* A job only moves itself, and only while it is not over.
LEMMA JobMoves ==
    ASSUME TypeInv, NEW r \in Jobs, JobStep(r) \/ JobFault(r)
    PROVE  /\ pc[r] \notin Over
           /\ \E step \in Steps : pc' = [pc EXCEPT ![r] = step]
           /\ UNCHANGED commits
           /\ UNCHANGED asset \/ DeleteIncomplete(r) \/ Send(r)
<1>1. pc[r] \notin Over /\ UNCHANGED commits
    BY DEF JobStep, JobFault, storeVars,
           Active, Begin, Build, CheckBytes, CheckFails, CheckListing, CheckRegistry,
           ConfirmListing, CreateRelease, Decide, DeleteIncomplete, Fault, ItemDone, List,
           Lose, PublishListing, ReadRegistry, RequireBytes, RequireListing, RequireRegistry,
           RestoreGivesUp, RestoreListing, RestoreOutputs, RestoreRegistry, Retry, Send,
           SendFails, SendReturns, UploadListing, VerifyCommitted, VerifyRegistry,
           VerifyUploaded
<1>2. UNCHANGED asset \/ DeleteIncomplete(r) \/ Send(r)
    BY DEF JobStep, JobFault, storeVars,
           Active, Begin, Build, CheckBytes, CheckFails, CheckListing, CheckRegistry,
           ConfirmListing, CreateRelease, Decide, DeleteIncomplete, Fault, ItemDone, List,
           Lose, PublishListing, ReadRegistry, RequireBytes, RequireListing, RequireRegistry,
           RestoreGivesUp, RestoreListing, RestoreOutputs, RestoreRegistry, Retry, Send,
           SendFails, SendReturns, UploadListing, VerifyCommitted, VerifyRegistry,
           VerifyUploaded
<1>3. \E step \in Steps : pc' = [pc EXCEPT ![r] = step]
    BY DEF JobStep, JobFault, Steps, Goto,
           Active, Begin, Build, CheckBytes, CheckFails, CheckListing, CheckRegistry,
           ConfirmListing, CreateRelease, Decide, DeleteIncomplete, Fault, ItemDone, List,
           Lose, PublishListing, ReadRegistry, RequireBytes, RequireListing, RequireRegistry,
           RestoreGivesUp, RestoreListing, RestoreOutputs, RestoreRegistry, Retry, Send,
           SendFails, SendReturns, UploadListing, VerifyCommitted, VerifyRegistry,
           VerifyUploaded
<1> QED
    BY <1>1, <1>2, <1>3

\* A run that is told of success finds the record visible; a reader has seen it.
LEMMA AnsweredSeen ==
    SafeInv => \A j \in Answered : Value # Nothing /\ (j \in Runs => Shown)
<1> SUFFICES ASSUME SafeInv, NEW j \in Answered
             PROVE  Value # Nothing /\ (j \in Runs => Shown)
    OBVIOUS
<1>1. CASE j \in Runs
    <2>1. Downloads(Registry, asset[Registry].body) /\ asset[Registry].body \in Records
        BY <1>1 DEF Answered, SafeInv, SerialInv, Kept, Genuine, Downloads
    <2>2. asset[Registry].body \in commits
        BY <2>1 DEF SafeInv, AnswerInv, Visible
    <2> QED
        BY <2>1, <2>2, CommitsAreOne, ContentsAssumption DEF Shown
<1>2. CASE j \in Readers
    <2>1. outputs[j] \in commits
        BY <1>2 DEF Answered, SafeInv, TypeInv, Roles, AnswerInv, AnswersCommitted
    <2> QED
        BY <1>2, <2>1, CommitsAreOne, ContentsAssumption, JobsAssumption
<1> QED
    BY <1>1, <1>2 DEF Answered, Jobs

\* Every step is a step of the write-once record, or leaves it alone.
LEMMA StepRefines ==
    ASSUME Serialised, SafeInv, SafeInv', [Next]_vars
    PROVE  Promise!StoreNext \/ UNCHANGED <<Value, Shown, Answered>>
<1> USE DEF Promise!StoreNext, Promise!Commit, Promise!Withdraw, Promise!Answer
<1>a. (\A j \in Answered : Value # Nothing /\ (j \in Runs => Shown))'
    BY AnsweredSeen, PTL
<1>b. (\A a \in commits : commits = {a} /\ Value = a /\ a \in Records)'
    BY CommitsAreOne, PTL
<1>1. ASSUME NEW r \in Jobs, JobStep(r) \/ JobFault(r)
      PROVE  Promise!StoreNext \/ UNCHANGED <<Value, Shown, Answered>>
    <2>1. PICK step \in Steps : pc' = [pc EXCEPT ![r] = step]
        BY <1>1, JobMoves DEF SafeInv
    <2>2. pc[r] \notin Over /\ UNCHANGED commits
        BY <1>1, JobMoves DEF SafeInv
    <2>3. Answered' = IF step \in Succeeded THEN Answered \cup {r} ELSE Answered
        BY <2>1, <2>2 DEF Answered, SafeInv, TypeInv, TypeOK
    <2>4. Value' = Value
        BY <2>2 DEF Value
    <2>5. CASE UNCHANGED asset
        <3>1. Shown' = Shown
            BY <2>5 DEF Shown, Downloads
        <3>2. CASE step \in Succeeded
            <4>1. r \in Answered'
                BY <2>3, <3>2
            <4>2. Value' # Nothing /\ (r \in Runs => Shown')
                BY <4>1, <1>a
            <4> QED
                BY <2>3, <2>4, <3>1, <3>2, <4>2 DEF Jobs
        <3> QED
            BY <2>3, <2>4, <3>1, <3>2
    <2>6. CASE Send(r)
        <3>1. step \notin Succeeded
            BY <2>1, <2>6 DEF Send, Retry, Goto, SafeInv, TypeInv, TypeOK
        <3>2. asset'[Registry] = asset[Registry]
              \/ (asset[Registry].state = "absent" /\ asset'[Registry].state = "starter")
            BY <2>6 DEF Send, SafeInv, TypeInv, TypeOK, Ready, Names
        <3>3. Shown' = Shown
            BY <3>2 DEF Shown, Downloads
        <3> QED
            BY <2>3, <2>4, <3>1, <3>3
    <2>7. CASE DeleteIncomplete(r)
        <3>1. step \notin Succeeded
            BY <2>1, <2>7 DEF DeleteIncomplete, Goto, SafeInv, TypeInv, TypeOK
        <3>2. Shown' => Shown
            BY <2>7 DEF DeleteIncomplete, Shown, Downloads, Absent, SafeInv, TypeInv, TypeOK,
                        Ready, Names
        <3>3. Answered \cap Runs = {}
            BY <2>7 DEF DeleteIncomplete, SafeInv, TypeInv, Roles, SerialInv, DeletesUncommitted,
                        Answered, Jobs
        <3>4. CASE Shown' = Shown
            BY <2>3, <2>4, <3>1, <3>4
        <3>5. CASE Shown /\ ~Shown'
            <4>1. Shown /\ Shown' = FALSE
                BY <3>5
            <4> QED
                BY <2>3, <2>4, <3>1, <3>3, <4>1
        <3> QED
            BY <3>2, <3>4, <3>5 DEF Shown
    <2> QED
        BY <1>1, <2>5, <2>6, <2>7, JobMoves DEF SafeInv
<1>2. ASSUME NEW n \in Names, Land(n)
      PROVE  Promise!StoreNext \/ UNCHANGED <<Value, Shown, Answered>>
    <2>1. Answered' = Answered
        BY <1>2 DEF Land, runVars, Answered
    <2>2. CASE n = Registry /\ asset'[n].body \in Records
        <3>1. PICK a \in Records : a = asset'[n].body
            BY <2>2
        <3>2. asset'[n].state = "uploaded" /\ commits' = commits \cup {a}
            BY <1>2, <2>2, <3>1 DEF Land, SafeInv, TypeInv, TypeOK, Asset
        <3>3. Value' = a
            BY <3>2, <1>b
        <3>4. Value \in {Nothing, a}
            BY <3>2, <1>b, CommitsAreOne DEF Value
        <3>5. Shown' = TRUE
            BY <2>2, <3>1, <3>2 DEF Shown, Downloads
        <3> QED
            BY <2>1, <3>3, <3>4, <3>5
    <2>3. CASE n # Registry \/ asset'[n].body \notin Records
        <3>1. Value' = Value
            <4>1. commits' = IF n = Registry /\ asset'[n].body \in Records
                             THEN commits \cup {asset'[n].body} ELSE commits
                BY <1>2 DEF Land
            <4>2. commits' = commits
                BY <2>3, <4>1
            <4> QED
                BY <4>2 DEF Value
        <3>2. Shown' = Shown
            BY <1>2, <2>3, ContentsAssumption
               DEF Land, Shown, Downloads, SafeInv, TypeInv, TypeOK, Asset, Names
        <3> QED
            BY <2>1, <3>1, <3>2
    <2> QED
        BY <2>2, <2>3
<1>3. CASE UNCHANGED vars
    BY <1>3 DEF vars, storeVars, runVars, Value, Shown, Downloads, Answered
<1> QED
    BY <1>1, <1>2, <1>3 DEF Next, Finished

\* With one run at a time the Release protocol implements CheckpointStore.
THEOREM Implements ==
    ASSUME Serialised
    PROVE  Spec => ImplementsStore
<1>1. Init => Promise!StoreInit
    BY ContentsAssumption
       DEF Init, Promise!StoreInit, Value, Shown, Answered, Downloads, Absent, Names
<1>2. SafeInv /\ SafeInv' /\ [Next]_vars => [Promise!StoreNext]_<<Value, Shown, Answered>>
    BY StepRefines
<1>3. Spec => []SafeInv
    <2>1. Init => AnswerInv
        BY InitAnswerInv
    <2> QED
        BY <2>1, StepAnswerInv, SerialInvariant, PTL DEF Spec, SafeInv
<1> QED
    BY <1>1, <1>2, <1>3, PTL DEF Spec, ImplementsStore, Promise!StoreSpec, Promise!storeSpecVars

(***************************************************************************)
(* The gate of a strict workflow                                           *)
(***************************************************************************)

\* Where a run goes once its workflow has decided to build the stage.
Rebuilding == {"restore", "restore_registry", "restore_bytes", "build"} \cup Publishing

GateInv == \A r \in Runs : pc[r] \in Rebuilding => gate[r] = "incomplete"

\* A run enters the rebuild from the checks alone, and its gate is not asked again.
LEMMA StepGateInv ==
    ASSUME StrictGate, TypeInv, GateInv, [Next]_vars
    PROVE  GateInv'
<1>1. ASSUME NEW r \in Jobs, JobStep(r) \/ JobFault(r) PROVE GateInv'
    <2>1. \A s \in Jobs \ {r} : pc'[s] = pc[s] /\ gate'[s] = gate[s]
        BY <1>1 DEF TypeInv, TypeOK, JobStep, JobFault, Goto,
           Active, Begin, Build, CheckBytes, CheckFails, CheckListing, CheckRegistry,
           ConfirmListing, CreateRelease, Decide, DeleteIncomplete, Fault, ItemDone, List,
           Lose, PublishListing, ReadRegistry, RequireBytes, RequireListing, RequireRegistry,
           RestoreGivesUp, RestoreListing, RestoreOutputs, RestoreRegistry, Retry, Send,
           SendFails, SendReturns, UploadListing, VerifyCommitted, VerifyRegistry,
           VerifyUploaded
    <2>2. r \in Runs /\ pc'[r] \in Rebuilding =>
              (pc[r] \in Rebuilding /\ gate'[r] = gate[r]) \/ gate'[r] = "incomplete"
        BY <1>1 DEF TypeInv, TypeOK, Roles, Rebuilding, JobStep, JobFault, Goto,
           Active, Begin, Build, CheckBytes, CheckFails, CheckListing, CheckRegistry,
           ConfirmListing, CreateRelease, Decide, DeleteIncomplete, Fault, ItemDone, List,
           Lose, PublishListing, ReadRegistry, RequireBytes, RequireListing, RequireRegistry,
           RestoreGivesUp, RestoreListing, RestoreOutputs, RestoreRegistry, Retry, Send,
           SendFails, SendReturns, UploadListing, VerifyCommitted, VerifyRegistry,
           VerifyUploaded
    <2> QED
        BY <2>1, <2>2 DEF GateInv, Jobs
<1>2. ASSUME NEW n \in Names, Land(n) PROVE GateInv'
    BY <1>2 DEF Land, runVars, GateInv
<1>3. CASE UNCHANGED vars
    BY <1>3 DEF vars, runVars, GateInv
<1> QED
    BY <1>1, <1>2, <1>3 DEF Next, Finished

\* "Callers must not rebuild on exit 2": a workflow that stops on exit status 2 of
\* stage-complete rebuilds only a stage it was told is incomplete.  The steps of
\* android.yml, which take every nonzero status alike, are what breaks this.
THEOREM StrictRebuilds ==
    ASSUME StrictGate
    PROVE  Spec => []RebuildOnlyIfIncomplete
<1>1. Init => GateInv
    BY DEF Init, GateInv, Rebuilding, Jobs
<1>2. TypeInv /\ GateInv /\ [Next]_vars => GateInv'
    BY StepGateInv
<1>3. GateInv => RebuildOnlyIfIncomplete
    BY DEF GateInv, Rebuilding, RebuildOnlyIfIncomplete
<1> QED
    BY <1>1, <1>2, <1>3, TypeInvariant, PTL DEF Spec

(***************************************************************************)
(* What is left of a job                                                   *)
(***************************************************************************)

\* The calls still ahead of a job, the loop over the assets being one of them.
Phase(step) ==
    CASE step = "idle" -> 13
      [] step = "check" -> 12
      [] step = "check_registry" -> 11
      [] step = "check_bytes" -> 10
      [] step = "restore" -> 9
      [] step \in {"restore_registry", "require_registry"} -> 8
      [] step \in {"restore_bytes", "require_bytes"} -> 7
      [] step = "build" -> 6
      [] step = "publish" -> 5
      [] step = "verify_registry" -> 4
      [] step = "verify_bytes" -> 3
      [] step = "create" -> 2
      [] step \in Uploading -> 1
      [] OTHER -> 0

\* The calls ahead in one attempt of upload_asset.
Position(step) ==
    CASE step = "delete" -> 6
      [] step = "send" -> 5
      [] step = "sending" -> 4
      [] step = "confirm" -> 3
      [] step = "confirm_bytes" -> 2
      [] step = "reuse" -> 1
      [] OTHER -> 0

Attempts(j) == UploadAttempts - tries[j]

\* What is left of a job: its phase, then the payloads, the attempts for the current one
\* and the place in the attempt, the first the most significant.
Left(j) == <<Phase(pc[j]), Cardinality(todo[j]), Attempts(j), Position(pc[j])>>

Ranks == Nat \X Nat \X Nat \X Nat

Less(a, b) ==
    \/ a[1] < b[1]
    \/ a[1] = b[1] /\ a[2] < b[2]
    \/ a[1] = b[1] /\ a[2] = b[2] /\ a[3] < b[3]
    \/ a[1] = b[1] /\ a[2] = b[2] /\ a[3] = b[3] /\ a[4] < b[4]

\* The asset upload_asset works on is one that publish still owes.
ItemInv ==
    \A j \in Jobs : pc[j] \in Uploading => item[j] \in todo[j] \cup {Registry, Nothing}

LEMMA StepItemInv == TypeInv /\ ItemInv /\ [Next]_vars => ItemInv'
<1> SUFFICES ASSUME TypeInv, ItemInv, [Next]_vars PROVE ItemInv'
    OBVIOUS
<1>1. ASSUME NEW r \in Jobs, JobStep(r) \/ JobFault(r) PROVE ItemInv'
    <2>1. \A s \in Jobs \ {r} : pc'[s] = pc[s] /\ item'[s] = item[s] /\ todo'[s] = todo[s]
        BY <1>1 DEF TypeInv, TypeOK, JobStep, JobFault, Goto,
           Active, Begin, Build, CheckBytes, CheckFails, CheckListing, CheckRegistry,
           ConfirmListing, CreateRelease, Decide, DeleteIncomplete, Fault, ItemDone, List,
           Lose, PublishListing, ReadRegistry, RequireBytes, RequireListing, RequireRegistry,
           RestoreGivesUp, RestoreListing, RestoreOutputs, RestoreRegistry, Retry, Send,
           SendFails, SendReturns, UploadListing, VerifyCommitted, VerifyRegistry,
           VerifyUploaded
    <2>2. pc'[r] \in Uploading => item'[r] \in todo'[r] \cup {Registry, Nothing}
        <3>1. CASE UploadListing(r)
            BY <3>1 DEF UploadListing, Candidates, ItemInv, TypeInv, TypeOK, Goto
        <3>2. CASE VerifyUploaded(r)
            BY <3>2 DEF VerifyUploaded, ItemDone, Retry, ItemInv, TypeInv, TypeOK, Goto
        <3>3. CASE ~UploadListing(r) /\ ~VerifyUploaded(r)
            <4>1. item'[r] = item[r] /\ todo'[r] = todo[r]
                BY <1>1, <3>3 DEF JobStep, JobFault, Goto,
           Active, Begin, Build, CheckBytes, CheckFails, CheckListing, CheckRegistry,
           ConfirmListing, CreateRelease, Decide, DeleteIncomplete, Fault, List,
           Lose, PublishListing, ReadRegistry, RequireBytes, RequireListing, RequireRegistry,
           RestoreGivesUp, RestoreListing, RestoreOutputs, RestoreRegistry, Retry, Send,
           SendFails, SendReturns, VerifyCommitted, VerifyRegistry
            <4>2. pc'[r] \in Uploading => pc[r] \in Uploading \cup {"publish", "create"}
                BY <1>1, <3>3 DEF TypeInv, TypeOK, JobStep, JobFault, Goto,
           Active, Begin, Build, CheckBytes, CheckFails, CheckListing, CheckRegistry,
           ConfirmListing, CreateRelease, Decide, DeleteIncomplete, Fault, List,
           Lose, PublishListing, ReadRegistry, RequireBytes, RequireListing, RequireRegistry,
           RestoreGivesUp, RestoreListing, RestoreOutputs, RestoreRegistry, Retry, Send,
           SendFails, SendReturns, VerifyCommitted, VerifyRegistry
            <4> QED
                BY <4>1, <4>2 DEF ItemInv, TypeInv, Ready
        <3> QED
            BY <3>1, <3>2, <3>3
    <2> QED
        BY <2>1, <2>2 DEF ItemInv
<1>2. ASSUME NEW n \in Names, Land(n) PROVE ItemInv'
    BY <1>2 DEF Land, runVars, ItemInv
<1>3. CASE UNCHANGED vars
    BY <1>3 DEF vars, runVars, ItemInv
<1> QED
    BY <1>1, <1>2, <1>3 DEF Next, Finished

LEMMA LeftIsRank ==
    ASSUME IsFiniteSet(Payloads), TypeInv, NEW j \in Jobs
    PROVE  /\ Left(j) \in Ranks
           /\ Cardinality(todo[j]) \in Nat
           /\ Attempts(j) \in Nat
           /\ \A p \in todo[j] : /\ Cardinality(todo[j] \ {p}) \in Nat
                                 /\ Cardinality(todo[j] \ {p}) < Cardinality(todo[j])
<1>1. todo[j] \in SUBSET Payloads /\ tries[j] \in 0..UploadAttempts
    BY DEF TypeInv, TypeOK
<1>2. IsFiniteSet(todo[j])
    BY <1>1, FS_Subset
<1>3. Cardinality(todo[j]) \in Nat
    BY <1>2, FS_CardinalityType
<1>4. Attempts(j) \in Nat
    BY <1>1, BoundsAssumption DEF Attempts
<1>5. ASSUME NEW p \in todo[j]
      PROVE  /\ Cardinality(todo[j] \ {p}) \in Nat
             /\ Cardinality(todo[j] \ {p}) < Cardinality(todo[j])
    <2>1. IsFiniteSet(todo[j] \ {p}) /\ Cardinality(todo[j] \ {p}) = Cardinality(todo[j]) - 1
        BY <1>2, FS_RemoveElement
    <2>2. Cardinality(todo[j] \ {p}) \in Nat
        BY <2>1, FS_CardinalityType
    <2> QED
        BY <1>3, <2>1, <2>2
<1>6. Phase(pc[j]) \in Nat
    BY DEF Phase
<1>7. Position(pc[j]) \in Nat
    BY DEF Position
<1> QED
    BY <1>3, <1>4, <1>5, <1>6, <1>7 DEF Left, Ranks

\* What a step may do to the job that takes it.
LEMMA CloserBy ==
    ASSUME IsFiniteSet(Payloads), TypeInv, TypeInv', NEW j \in Jobs,
           \/ Phase(pc'[j]) < Phase(pc[j])
           \/ /\ Phase(pc'[j]) = Phase(pc[j])
              /\ Cardinality(todo'[j]) < Cardinality(todo[j])
           \/ /\ Phase(pc'[j]) = Phase(pc[j])
              /\ todo'[j] = todo[j]
              /\ tries'[j] = tries[j] + 1
           \/ /\ Phase(pc'[j]) = Phase(pc[j])
              /\ todo'[j] = todo[j] /\ tries'[j] = tries[j]
              /\ Position(pc'[j]) < Position(pc[j])
    PROVE  Less(Left(j)', Left(j))
<1>1. tries[j] \in Nat /\ UploadAttempts \in Nat
    BY BoundsAssumption DEF TypeInv, TypeOK
<1> QED
    BY <1>1 DEF Less, Left, Attempts

\* Every step of a job leaves it less to do.
LEMMA JobCloser ==
    ASSUME IsFiniteSet(Payloads), TypeInv, TypeInv', ItemInv,
           NEW r \in Jobs, JobStep(r) \/ JobFault(r)
    PROVE  Less(Left(r)', Left(r))
<1>t. /\ pc \in [Jobs -> Steps] /\ gate \in [Jobs -> {"none", "verified", "incomplete", "error"}]
      /\ todo \in [Jobs -> SUBSET Payloads] /\ tries \in [Jobs -> 0..UploadAttempts]
      /\ item \in [Jobs -> Names \cup {Nothing}]
    BY DEF TypeInv, TypeOK
<1>1. CASE Begin(r)
    <2>1. Phase(pc'[r]) < Phase(pc[r])
        BY <1>1, <1>t DEF Begin, Goto, Phase
    <2> QED
        BY <2>1, CloserBy
<1>2. CASE CheckListing(r)
    <2>1. Phase(pc'[r]) < Phase(pc[r])
        BY <1>2, <1>t DEF CheckListing, Decide, List, Goto, Phase
    <2> QED
        BY <2>1, CloserBy
<1>3. CASE CheckRegistry(r)
    <2>1. Phase(pc'[r]) < Phase(pc[r])
        BY <1>3, <1>t DEF CheckRegistry, ReadRegistry, Decide, Goto, Phase
    <2> QED
        BY <2>1, CloserBy
<1>4. CASE CheckBytes(r)
    <2>1. Phase(pc'[r]) < Phase(pc[r])
        BY <1>4, <1>t DEF CheckBytes, Decide, Goto, Phase
    <2> QED
        BY <2>1, CloserBy
<1>5. CASE RestoreListing(r)
    <2>1. Phase(pc'[r]) < Phase(pc[r])
        BY <1>5, <1>t DEF RestoreListing, List, Goto, Phase
    <2> QED
        BY <2>1, CloserBy
<1>6. CASE RestoreRegistry(r)
    <2>1. Phase(pc'[r]) < Phase(pc[r])
        BY <1>6, <1>t DEF RestoreRegistry, ReadRegistry, RestoreGivesUp, Goto, Phase
    <2> QED
        BY <2>1, CloserBy
<1>7. CASE RestoreOutputs(r)
    <2>1. Phase(pc'[r]) < Phase(pc[r])
        BY <1>7, <1>t DEF RestoreOutputs, RestoreGivesUp, Goto, Phase
    <2> QED
        BY <2>1, CloserBy
<1>8. CASE Build(r)
    <2>1. Phase(pc'[r]) < Phase(pc[r])
        BY <1>8, <1>t DEF Build, Goto, Phase
    <2> QED
        BY <2>1, CloserBy
<1>9. CASE RequireListing(r)
    <2>1. Phase(pc'[r]) < Phase(pc[r])
        BY <1>9, <1>t DEF RequireListing, List, Goto, Phase
    <2> QED
        BY <2>1, CloserBy
<1>10. CASE RequireRegistry(r)
    <2>1. Phase(pc'[r]) < Phase(pc[r])
        BY <1>10, <1>t DEF RequireRegistry, ReadRegistry, Goto, Phase
    <2> QED
        BY <2>1, CloserBy
<1>11. CASE RequireBytes(r)
    <2>1. Phase(pc'[r]) < Phase(pc[r])
        BY <1>11, <1>t DEF RequireBytes, Goto, Phase
    <2> QED
        BY <2>1, CloserBy
<1>12. CASE PublishListing(r)
    <2>1. Phase(pc'[r]) < Phase(pc[r])
        BY <1>12, <1>t DEF PublishListing, List, Goto, Phase
    <2> QED
        BY <2>1, CloserBy
<1>13. CASE VerifyRegistry(r)
    <2>1. Phase(pc'[r]) < Phase(pc[r])
        BY <1>13, <1>t DEF VerifyRegistry, ReadRegistry, Goto, Phase
    <2> QED
        BY <2>1, CloserBy
<1>14. CASE VerifyCommitted(r)
    <2>1. Phase(pc'[r]) < Phase(pc[r])
        BY <1>14, <1>t DEF VerifyCommitted, Goto, Phase
    <2> QED
        BY <2>1, CloserBy
<1>15. CASE CreateRelease(r)
    <2>1. Phase(pc'[r]) < Phase(pc[r])
        BY <1>15, <1>t DEF CreateRelease, Goto, Phase
    <2> QED
        BY <2>1, CloserBy
<1>16. CASE DeleteIncomplete(r)
    <2>1. \/ Phase(pc'[r]) < Phase(pc[r])
          \/ /\ Phase(pc'[r]) = Phase(pc[r])
             /\ todo'[r] = todo[r] /\ tries'[r] = tries[r]
             /\ Position(pc'[r]) < Position(pc[r])
        BY <1>16, <1>t DEF DeleteIncomplete, Goto, Phase, Position
    <2> QED
        BY <2>1, CloserBy
<1>17. CASE Send(r)
    <2>1. \/ Phase(pc'[r]) < Phase(pc[r])
          \/ /\ Phase(pc'[r]) = Phase(pc[r])
             /\ todo'[r] = todo[r] /\ tries'[r] = tries[r]
             /\ Position(pc'[r]) < Position(pc[r])
        BY <1>17, <1>t DEF Send, Retry, Goto, Phase, Position
    <2> QED
        BY <2>1, CloserBy
<1>18. CASE SendReturns(r)
    <2>1. \/ Phase(pc'[r]) < Phase(pc[r])
          \/ /\ Phase(pc'[r]) = Phase(pc[r])
             /\ todo'[r] = todo[r] /\ tries'[r] = tries[r]
             /\ Position(pc'[r]) < Position(pc[r])
        BY <1>18, <1>t DEF SendReturns, Retry, Goto, Phase, Position
    <2> QED
        BY <2>1, CloserBy
<1>19. CASE ConfirmListing(r)
    <2>1. \/ Phase(pc'[r]) < Phase(pc[r])
          \/ /\ Phase(pc'[r]) = Phase(pc[r])
             /\ todo'[r] = todo[r] /\ tries'[r] = tries[r]
             /\ Position(pc'[r]) < Position(pc[r])
        BY <1>19, <1>t DEF ConfirmListing, Retry, Goto, Phase, Position
    <2> QED
        BY <2>1, CloserBy
<1>20. CASE CheckFails(r)
    <2>1. Phase(pc'[r]) < Phase(pc[r])
        BY <1>20, <1>t DEF CheckFails, Decide, Fault, Goto, Phase
    <2> QED
        BY <2>1, CloserBy
<1>21. CASE SendFails(r)
    <2>1. \/ Phase(pc'[r]) < Phase(pc[r])
          \/ /\ Phase(pc'[r]) = Phase(pc[r])
             /\ todo'[r] = todo[r] /\ tries'[r] = tries[r]
             /\ Position(pc'[r]) < Position(pc[r])
        BY <1>21, <1>t DEF SendFails, Retry, Fault, Goto, Phase, Position
    <2> QED
        BY <2>1, CloserBy
<1>22. CASE Lose(r)
    <2>1. Phase(pc'[r]) < Phase(pc[r])
        BY <1>22, <1>t DEF Lose, Fault, Active, Goto, Phase, Steps
    <2> QED
        BY <2>1, CloserBy
<1>23. CASE UploadListing(r)
    <2>1. /\ Phase(pc'[r]) = Phase(pc[r])
          /\ todo'[r] = todo[r] /\ tries'[r] = tries[r] + 1
        BY <1>23, <1>t DEF UploadListing, Goto, Phase
    <2> QED
        BY <2>1, CloserBy
<1>24. CASE VerifyUploaded(r)
    <2>1. item[r] \in todo[r] \cup {Registry} /\ item[r] # Nothing
        BY <1>24, ContentsAssumption DEF VerifyUploaded, ItemInv, TypeInv, Ready
    <2>2. CASE ItemDone(r) /\ item[r] = Registry
        <3>1. Phase(pc'[r]) < Phase(pc[r])
            BY <1>24, <1>t, <2>2 DEF VerifyUploaded, ItemDone, Goto, Phase
        <3> QED
            BY <3>1, CloserBy
    <2>3. CASE ItemDone(r) /\ item[r] # Registry
        <3>1. Phase(pc'[r]) = Phase(pc[r]) /\ todo'[r] = todo[r] \ {item[r]}
            BY <1>24, <1>t, <2>3 DEF VerifyUploaded, ItemDone, Goto, Phase
        <3>2. Cardinality(todo'[r]) < Cardinality(todo[r])
            BY <2>1, <2>3, <3>1, LeftIsRank
        <3> QED
            BY <3>1, <3>2, CloserBy
    <2>4. CASE UNCHANGED <<todo, tries>> /\ (Retry(r) \/ Goto(r, "failed"))
        <3>1. \/ Phase(pc'[r]) < Phase(pc[r])
              \/ /\ Phase(pc'[r]) = Phase(pc[r])
                 /\ todo'[r] = todo[r] /\ tries'[r] = tries[r]
                 /\ Position(pc'[r]) < Position(pc[r])
            BY <1>24, <1>t, <2>4 DEF VerifyUploaded, Retry, Goto, Phase, Position
        <3> QED
            BY <3>1, CloserBy
    <2> QED
        BY <1>24, <2>2, <2>3, <2>4 DEF VerifyUploaded
<1> QED
    BY <1>1, <1>2, <1>3, <1>4, <1>5, <1>6, <1>7, <1>8, <1>9, <1>10, <1>11, <1>12, <1>13,
       <1>14, <1>15, <1>16, <1>17, <1>18, <1>19, <1>20, <1>21, <1>22, <1>23, <1>24 DEF
       JobStep, JobFault

\* Nobody else's step touches it.
LEMMA OthersStay ==
    ASSUME TypeInv, [Next]_vars, NEW j \in Jobs, ~(JobStep(j) \/ JobFault(j))
    PROVE  Left(j)' = Left(j)
<1>1. ASSUME NEW r \in Jobs, JobStep(r) \/ JobFault(r)
      PROVE  pc'[j] = pc[j] /\ todo'[j] = todo[j] /\ tries'[j] = tries[j]
    <2>1. r # j
        BY <1>1
    <2> QED
        BY <1>1, <2>1 DEF TypeInv, TypeOK, JobStep, JobFault, Goto,
           Active, Begin, Build, CheckBytes, CheckFails, CheckListing, CheckRegistry,
           ConfirmListing, CreateRelease, Decide, DeleteIncomplete, Fault, ItemDone, List,
           Lose, PublishListing, ReadRegistry, RequireBytes, RequireListing, RequireRegistry,
           RestoreGivesUp, RestoreListing, RestoreOutputs, RestoreRegistry, Retry, Send,
           SendFails, SendReturns, UploadListing, VerifyCommitted, VerifyRegistry,
           VerifyUploaded
<1>2. ASSUME NEW n \in Names, Land(n) PROVE UNCHANGED <<pc, todo, tries>>
    BY <1>2 DEF Land, runVars
<1>3. UNCHANGED vars => UNCHANGED <<pc, todo, tries>>
    BY DEF vars, runVars
<1>4. pc'[j] = pc[j] /\ todo'[j] = todo[j] /\ tries'[j] = tries[j]
    BY <1>1, <1>2, <1>3 DEF Next, Finished
<1> QED
    BY <1>4 DEF Left, Attempts

\* The bounded loops of the code, as a step property: with finitely many payloads every
\* step of a job, its failures included, brings it closer to its end in a well-founded
\* order, and no other job, reader or late upload sets it back.  So a job takes finitely
\* many steps, whatever the others do: upload_asset cannot go round for ever, and what
\* EveryJobEnds needs beside this is only that steps are taken.
THEOREM JobsRunDown ==
    ASSUME IsFiniteSet(Payloads)
    PROVE  Spec => /\ [](\A j \in Jobs : Left(j) \in Ranks)
                   /\ [][\A j \in Jobs : IF JobStep(j) \/ JobFault(j)
                                         THEN Less(Left(j)', Left(j))
                                         ELSE Left(j)' = Left(j)]_vars
<1>1. TypeInv => \A j \in Jobs : Left(j) \in Ranks
    BY LeftIsRank
<1>2. TypeInv /\ TypeInv' /\ ItemInv /\ [Next]_vars =>
          [\A j \in Jobs : IF JobStep(j) \/ JobFault(j)
                          THEN Less(Left(j)', Left(j))
                          ELSE Left(j)' = Left(j)]_vars
    BY JobCloser, OthersStay
<1>3. Init => ItemInv
    BY DEF Init, ItemInv
<1> QED
    BY <1>1, <1>2, <1>3, StepItemInv, TypeInvariant, PTL DEF Spec

(***************************************************************************)
(* Nothing wedges a reproducible stage                                     *)
(***************************************************************************)

\* The one record of a reproducible stage is what the assets hold, finished or not.
Intact ==
    \A n \in Names, content \in Records :
        asset[n].state # "absent" =>
            asset[n].body = IF n = Registry THEN content ELSE content[n]

\* Where a run relies on the registry it has listed.
Relying == {"check_registry", "check_bytes", "restore_registry", "restore_bytes",
            "verify_registry", "verify_bytes"}

\* What a run knows of the store between two of its calls is still so at the second.
Current(r) ==
    /\ pc[r] \in Relying =>
           \A n \in Names : listed[r][n] = asset[n] /\ asset[n].state = "uploaded"
    /\ pc[r] = "create" => ~release
    /\ pc[r] = "delete" => asset[item[r]].id = seen[r].id
    /\ pc[r] = "send" => asset[item[r]].state = "absent"
    /\ pc[r] = "sending" => asset[item[r]].id = seen[r].id /\ asset[item[r]].state # "absent"
    /\ pc[r] = "confirm" => asset[item[r]].state = "uploaded"
    /\ pc[r] \in {"reuse", "confirm_bytes"} =>
           seen[r] = asset[item[r]] /\ asset[item[r]].state = "uploaded"

IntactInv == Intact /\ \A r \in Runs : Current(r)

\* A finished registry means that everything is finished.
LEMMA AllUploaded ==
    ASSUME TypeInv, SerialInv, Intact, Records # {}, asset[Registry].state = "uploaded"
    PROVE  \A n \in Names : asset[n].state = "uploaded"
<1>1. asset[Registry].body \in Records
    BY DEF Intact, Names
<1>2. Backed(asset[Registry].body)
    BY <1>1 DEF SerialInv, RegistryBacked, Genuine
<1> QED
    BY <1>2 DEF Backed, Downloads, Names

\* An asset that is as listed passes every comparison with the one record.
LEMMA AllCompare ==
    ASSUME Intact, NEW n \in Names, NEW content \in Records, NEW entry,
           entry = asset[n], asset[n].state = "uploaded"
    PROVE  LET body == IF n = Registry THEN content ELSE content[n]
           IN  MetadataMatches(entry, body) /\ Downloads(n, body)
    BY DEF Intact, MetadataMatches, Downloads

\* While a run of the group is active, nobody else changes the store or the run.
LEMMA OthersApart ==
    ASSUME Serialised, TypeInv, SerialInv, NEW r \in Jobs, JobStep(r) \/ JobFault(r),
           NEW s \in Runs, s # r, Current(s)
    PROVE  Current(s)'
<1> USE JobsAssumption
<1>1. pc'[s] = pc[s]
    BY JobMoves DEF TypeInv, TypeOK, Jobs
<1>2. CASE Active(s)
    <2>1. r \in Readers
        BY <1>2 DEF SerialInv, Alone, Active, JobStep, JobFault, Jobs,
           Begin, Build, CheckBytes, CheckFails, CheckListing, CheckRegistry,
           ConfirmListing, CreateRelease, DeleteIncomplete, Lose, PublishListing,
           RequireBytes, RequireListing, RequireRegistry, RestoreListing, RestoreOutputs,
           RestoreRegistry, Send, SendFails, SendReturns, UploadListing, VerifyCommitted,
           VerifyRegistry, VerifyUploaded, TypeInv, Roles
    <2>2. RequireListing(r) \/ RequireRegistry(r) \/ RequireBytes(r) \/ Lose(r)
        BY <2>1 DEF JobStep, JobFault, TypeInv, Roles,
           Begin, Build, CheckBytes, CheckFails, CheckListing, CheckRegistry,
           ConfirmListing, CreateRelease, DeleteIncomplete, PublishListing,
           RestoreListing, RestoreOutputs,
           RestoreRegistry, Send, SendFails, SendReturns, UploadListing, VerifyCommitted,
           VerifyRegistry, VerifyUploaded
    <2>3. UNCHANGED <<asset, release, item, seen>> /\ listed'[s] = listed[s]
        BY <2>2 DEF RequireListing, RequireRegistry, RequireBytes, Lose, List, storeVars,
                    TypeInv, TypeOK, Jobs
    <2> QED
        BY <1>1, <2>3 DEF Current
<1>3. CASE ~Active(s)
    BY <1>1, <1>3 DEF Current, Active, Relying
<1> QED
    BY <1>2, <1>3

\* One step of a run leaves both facts true of the store and of itself, and it ends in
\* "failed" only where a gh call failed or was killed.
LEMMA StepCurrent ==
    ASSUME Serialised, Records # {}, \A a, b \in Records : a = b,
           TypeInv, SerialInv, IntactInv, NEW r \in Runs, JobStep(r) \/ JobFault(r)
    PROVE  /\ Intact' /\ Current(r)'
           /\ pc'[r] = "failed" => faults' # faults
<1> DEFINE Goal == Intact' /\ Current(r)' /\ (pc'[r] = "failed" => faults' # faults)
<1> SUFFICES Goal
    OBVIOUS
<1> USE NamesAssumption, ContentsAssumption, JobsAssumption
<1>0. /\ asset \in [Names -> Asset] /\ pc \in [Jobs -> Steps] /\ r \in Jobs
      /\ item \in [Jobs -> Names \cup {Nothing}] /\ seen \in [Jobs -> Asset]
      /\ listed \in [Jobs -> [Names -> Asset]] /\ record \in [Jobs -> Records \cup {Nothing}]
      /\ Registry \in Names /\ Payloads \subseteq Names /\ faults \in Nat
    BY BoundsAssumption DEF TypeInv, TypeOK, Jobs, Names
<1>1. UNCHANGED asset => Intact'
    BY DEF IntactInv, Intact
<1>2. pc[r] \notin {"require_registry", "require_bytes"} /\ Ready(r) /\ Current(r) /\ Intact
    BY DEF TypeInv, Roles, Jobs, IntactInv
<1>3. asset[Registry].state = "uploaded" => \A n \in Names : asset[n].state = "uploaded"
    BY <1>2, AllUploaded
<1>4. ASSUME pc[r] \in Relying
      PROVE  \E content \in Records : RegistryRead(r, content)
    <2>1. PICK content \in Records : TRUE
        OBVIOUS
    <2>2. listed[r][Registry] = asset[Registry] /\ asset[Registry].state = "uploaded"
        BY <1>0, <1>2, <1>4 DEF Current
    <2>3. MetadataMatches(listed[r][Registry], content) /\ Downloads(Registry, content)
        BY <1>0, <1>2, <2>2, AllCompare
    <2> QED
        BY <2>3 DEF RegistryRead
<1>5. ASSUME pc[r] \in {"check_bytes", "restore_bytes", "verify_bytes"}
      PROVE  AllVerified(r)
    <2>1. record[r] \in Records
        BY <1>2, <1>5 DEF Ready
    <2>2. ASSUME NEW p \in Payloads PROVE PayloadVerified(r, p)
        <3>1. listed[r][p] = asset[p] /\ asset[p].state = "uploaded" /\ p \in Names
            BY <1>0, <1>2, <1>5 DEF Current, Relying
        <3>2. MetadataMatches(listed[r][p], record[r][p]) /\ Downloads(p, record[r][p])
            BY <1>2, <2>1, <3>1, AllCompare
        <3> QED
            BY <3>2 DEF PayloadVerified
    <2> QED
        BY <2>2 DEF AllVerified
<1>6. ASSUME pc[r] \in {"reuse", "confirm_bytes"}
      PROVE  UploadedVerified(r)
    <2>1. item[r] \in Names /\ outputs[r] \in Records
        BY <1>2, <1>6 DEF Ready
    <2>2. seen[r] = asset[item[r]] /\ asset[item[r]].state = "uploaded"
        BY <1>2, <1>6 DEF Current
    <2>3. /\ MetadataMatches(seen[r], Expected(r, item[r]))
          /\ Downloads(item[r], Expected(r, item[r]))
        BY <1>2, <2>1, <2>2, AllCompare DEF Expected
    <2> QED
        BY <2>3 DEF UploadedVerified
<1> HIDE DEF Goal
<1> DEFINE Still(step) ==
        /\ UNCHANGED <<asset, release>>
        /\ pc' = [pc EXCEPT ![r] = step]
<1>7. ASSUME NEW step, Still(step), step \notin Relying, step \notin Handling \cup {"create"},
             step = "failed" => faults' # faults
      PROVE  Goal
    BY <1>0, <1>1, <1>7 DEF Goal, Current, Relying
<1>8. ASSUME NEW step, Still(step), step \in Relying,
             asset[Registry].state = "uploaded",
             \/ listed'[r] = asset
             \/ pc[r] \in Relying /\ UNCHANGED listed
      PROVE  Goal
    <2>1. \A n \in Names : listed'[r][n] = asset[n] /\ asset[n].state = "uploaded"
        BY <1>2, <1>3, <1>8 DEF Current
    <2>2. pc'[r] = step
        BY <1>0, <1>8
    <2> QED
        BY <1>1, <1>8, <2>1, <2>2 DEF Goal, Current, Relying
<1>9. pc[r] \in Relying => asset[Registry].state = "uploaded"
    BY <1>0, <1>2 DEF Current
<1> HIDE DEF Still
<1>10. ASSUME Begin(r) PROVE Goal
    <2>1. Still("check")
        BY <1>10 DEF Still, Begin, Goto, storeVars
    <2> QED
        BY <2>1, <1>7 DEF Relying
<1>11. ASSUME CheckListing(r) PROVE Goal
    <2>1. CASE release /\ asset[Registry].state = "uploaded"
        <3>1. Still("check_registry") /\ listed'[r] = asset
            BY <1>11, <1>0, <2>1 DEF Still, CheckListing, List, Goto, storeVars
        <3> QED
            BY <2>1, <3>1, <1>8 DEF Relying
    <2>2. CASE ~(release /\ asset[Registry].state = "uploaded")
        <3>1. Still("restore") \/ Still("build")
            BY <1>11, <2>2 DEF Still, CheckListing, Decide, Goto, storeVars
        <3> QED
            BY <3>1, <1>7 DEF Relying
    <2> QED
        BY <2>1, <2>2
<1>12. ASSUME CheckRegistry(r) PROVE Goal
    <2>1. pc[r] = "check_registry"
        BY <1>12 DEF CheckRegistry
    <2>2. Still("check_bytes") /\ UNCHANGED listed
        BY <1>12, <2>1, <1>4 DEF Still, CheckRegistry, ReadRegistry, Goto, storeVars, Relying
    <2> QED
        BY <2>1, <2>2, <1>8, <1>9 DEF Relying
<1>13. ASSUME CheckBytes(r) PROVE Goal
    <2>1. pc[r] = "check_bytes"
        BY <1>13 DEF CheckBytes
    <2>2. Still("complete")
        BY <1>13, <2>1, <1>5 DEF Still, CheckBytes, AllVerified, Decide, Goto, storeVars
    <2> QED
        BY <2>2, <1>7 DEF Relying
<1>14. ASSUME RestoreListing(r) PROVE Goal
    <2>1. CASE release /\ asset[Registry].state = "uploaded"
        <3>1. Still("restore_registry") /\ listed'[r] = asset
            BY <1>14, <1>0, <2>1 DEF Still, RestoreListing, List, Goto, storeVars
        <3> QED
            BY <2>1, <3>1, <1>8 DEF Relying
    <2>2. CASE ~(release /\ asset[Registry].state = "uploaded")
        <3>1. Still("build")
            BY <1>14, <2>2 DEF Still, RestoreListing, Goto, storeVars
        <3> QED
            BY <3>1, <1>7 DEF Relying
    <2> QED
        BY <2>1, <2>2
<1>15. ASSUME RestoreRegistry(r) PROVE Goal
    <2>1. pc[r] = "restore_registry"
        BY <1>15 DEF RestoreRegistry
    <2>2. Still("restore_bytes") /\ UNCHANGED listed
        BY <1>15, <2>1, <1>4 DEF Still, RestoreRegistry, ReadRegistry, Goto, storeVars, Relying
    <2> QED
        BY <2>1, <2>2, <1>8, <1>9 DEF Relying
<1>16. ASSUME RestoreOutputs(r) PROVE Goal
    <2>1. pc[r] = "restore_bytes"
        BY <1>16 DEF RestoreOutputs
    <2>2. Still("build")
        BY <1>16, <2>1, <1>5 DEF Still, RestoreOutputs, Goto, storeVars
    <2> QED
        BY <2>2, <1>7 DEF Relying
<1>17. ASSUME Build(r) PROVE Goal
    <2>1. Still("publish")
        BY <1>17 DEF Still, Build, Goto, storeVars
    <2> QED
        BY <2>1, <1>7 DEF Relying
<1>18. ASSUME PublishListing(r) PROVE Goal
    <2>1. CASE release /\ asset[Registry].state = "uploaded"
        <3>1. Still("verify_registry") /\ listed'[r] = asset
            BY <1>18, <1>0, <2>1 DEF Still, PublishListing, List, Goto, storeVars
        <3> QED
            BY <2>1, <3>1, <1>8 DEF Relying
    <2>2. CASE release /\ asset[Registry].state # "uploaded"
        <3>1. Still("next")
            BY <1>18, <2>2 DEF Still, PublishListing, Goto, storeVars
        <3> QED
            BY <3>1, <1>7 DEF Relying
    <2>3. CASE ~release
        <3>1. Still("create") /\ ~release'
            BY <1>18, <2>3 DEF Still, PublishListing, Goto, storeVars
        <3> QED
            BY <1>0, <1>1, <3>1 DEF Still, Goal, Current, Relying
    <2> QED
        BY <2>1, <2>2, <2>3
<1>19. ASSUME VerifyRegistry(r) PROVE Goal
    <2>1. pc[r] = "verify_registry"
        BY <1>19 DEF VerifyRegistry
    <2>2. Still("verify_bytes") /\ UNCHANGED listed
        BY <1>19, <2>1, <1>4 DEF Still, VerifyRegistry, ReadRegistry, Goto, storeVars, Relying
    <2> QED
        BY <2>1, <2>2, <1>8, <1>9 DEF Relying
<1>20. ASSUME VerifyCommitted(r) PROVE Goal
    <2>1. pc[r] = "verify_bytes"
        BY <1>20 DEF VerifyCommitted
    <2>2. outputs[r] = record[r] /\ AllVerified(r)
        BY <2>1, <1>2, <1>5 DEF Ready
    <2>3. Still("published")
        BY <1>20, <2>2 DEF Still, VerifyCommitted, Goto, storeVars
    <2> QED
        BY <2>3, <1>7 DEF Relying
<1>21. ASSUME CreateRelease(r) PROVE Goal
    <2>1. ~release
        BY <1>21, <1>2 DEF CreateRelease, Current
    <2>2. pc' = [pc EXCEPT ![r] = "next"] /\ UNCHANGED asset
        BY <1>21, <2>1 DEF CreateRelease, Goto
    <2> QED
        BY <1>0, <1>1, <2>2 DEF Goal, Current, Relying
<1>22. ASSUME UploadListing(r) PROVE Goal
    <2>1. PICK n \in Candidates(r) :
              /\ item' = [item EXCEPT ![r] = n]
              /\ seen' = [seen EXCEPT ![r] = asset[n]]
              /\ Goto(r, IF asset[n].state = "uploaded" THEN "reuse"
                         ELSE IF asset[n].state = "starter" THEN "delete" ELSE "send")
        BY <1>22 DEF UploadListing
    <2>2. n \in Names
        BY <1>22, <2>1 DEF UploadListing, Candidates, TypeInv, TypeOK, Names, Jobs
    <2>3. asset[n].state \in {"absent", "starter", "uploaded"} /\ UNCHANGED <<asset, release>>
        BY <1>22, <1>0, <2>2 DEF UploadListing, Asset, storeVars
    <2>4. item'[r] = n /\ seen'[r] = asset[n]
        BY <1>0, <2>1
    <2>5. CASE asset[n].state = "uploaded"
        <3>1. pc'[r] = "reuse"
            BY <1>0, <2>1, <2>5 DEF Goto
        <3> QED
            BY <1>1, <2>3, <2>4, <2>5, <3>1 DEF Goal, Current, Relying
    <2>6. CASE asset[n].state = "starter"
        <3>1. pc'[r] = "delete"
            BY <1>0, <2>1, <2>6 DEF Goto
        <3> QED
            BY <1>1, <2>3, <2>4, <3>1 DEF Goal, Current, Relying
    <2>7. CASE asset[n].state = "absent"
        <3>1. pc'[r] = "send"
            BY <1>0, <2>1, <2>7 DEF Goto
        <3> QED
            BY <1>1, <2>3, <2>4, <2>7, <3>1 DEF Goal, Current, Relying
    <2> QED
        BY <2>3, <2>5, <2>6, <2>7
<1>23. ASSUME DeleteIncomplete(r) PROVE Goal
    <2>1. item[r] \in Names /\ asset[item[r]].id = seen[r].id
        BY <1>23, <1>2 DEF DeleteIncomplete, Ready, Current
    <2>2. /\ asset' = [asset EXCEPT ![item[r]] = Absent]
          /\ pc' = [pc EXCEPT ![r] = "send"] /\ UNCHANGED item
        BY <1>23, <2>1 DEF DeleteIncomplete, Goto
    <2>3. \A n \in Names : asset'[n] = asset[n] \/ asset'[n].state = "absent"
        BY <1>0, <2>2 DEF Absent
    <2>4. Intact'
        BY <1>2, <2>3 DEF Intact
    <2>5. pc'[r] = "send" /\ asset'[item'[r]].state = "absent"
        BY <1>0, <2>1, <2>2 DEF Absent
    <2> QED
        BY <2>4, <2>5 DEF Goal, Current, Relying
<1>24. ASSUME Send(r) PROVE Goal
    <2> DEFINE new == [id |-> lastId + 1, state |-> "starter", body |-> Expected(r, item[r])]
    <2>1. item[r] \in Names /\ outputs[r] \in Records /\ asset[item[r]].state = "absent"
        BY <1>24, <1>2 DEF Send, Ready, Current
    <2>2. /\ asset' = [asset EXCEPT ![item[r]] = new]
          /\ seen' = [seen EXCEPT ![r] = new]
          /\ pc' = [pc EXCEPT ![r] = "sending"] /\ UNCHANGED item
        BY <1>24, <2>1 DEF Send, Goto
    <2>3. /\ new.state = "starter"
          /\ \A content \in Records : new.body = IF item[r] = Registry THEN content
                                                ELSE content[item[r]]
        BY <2>1 DEF Expected
    <2> HIDE DEF new
    <2>4. Intact'
        BY <1>0, <1>2, <2>1, <2>2, <2>3 DEF Intact
    <2>5. pc'[r] = "sending" /\ asset'[item'[r]] = new /\ seen'[r] = new
        BY <1>0, <2>1, <2>2
    <2> QED
        BY <2>3, <2>4, <2>5 DEF Goal, Current, Relying
<1>25. ASSUME SendReturns(r) PROVE Goal
    <2>1. UNCHANGED <<asset, release, item>> /\ pc' = [pc EXCEPT ![r] = "confirm"]
          /\ asset[item[r]].state = "uploaded"
        BY <1>25, <1>2 DEF SendReturns, Current, Goto, storeVars
    <2> QED
        BY <1>0, <1>1, <2>1 DEF Goal, Current, Relying
<1>26. ASSUME ConfirmListing(r) PROVE Goal
    <2>1. /\ UNCHANGED <<asset, release, item>> /\ pc' = [pc EXCEPT ![r] = "confirm_bytes"]
          /\ asset[item[r]].state = "uploaded" /\ seen' = [seen EXCEPT ![r] = asset[item[r]]]
        BY <1>26, <1>2 DEF ConfirmListing, Current, Goto, storeVars
    <2> QED
        BY <1>0, <1>1, <2>1 DEF Goal, Current, Relying
<1>27. ASSUME VerifyUploaded(r) PROVE Goal
    <2>1. ItemDone(r) /\ UNCHANGED <<asset, release>>
        BY <1>27, <1>6 DEF VerifyUploaded, storeVars
    <2>2. Still("published") \/ Still("next")
        BY <2>1 DEF Still, ItemDone, Goto
    <2> QED
        BY <2>2, <1>7 DEF Relying
<1>28. ASSUME CheckFails(r) PROVE Goal
    <2>1. faults' # faults
        BY <1>28, <1>0 DEF CheckFails, Fault
    <2>2. \E step \in {"complete", "failed", "restore", "build"} : Still(step)
        BY <1>28 DEF Still, CheckFails, Decide, Goto, storeVars
    <2> QED
        BY <2>1, <2>2, <1>7 DEF Relying
<1>29. ASSUME SendFails(r) PROVE Goal
    <2>1. faults' # faults
        BY <1>29, <1>0 DEF SendFails, Fault
    <2>2. Still("next") \/ Still("failed")
        BY <1>29 DEF Still, SendFails, Retry, Goto, storeVars
    <2> QED
        BY <2>1, <2>2, <1>7 DEF Relying
<1>30. ASSUME Lose(r) PROVE Goal
    <2>1. Still("lost")
        BY <1>30 DEF Still, Lose, Goto, storeVars
    <2> QED
        BY <2>1, <1>7 DEF Relying
<1>31. ~(RequireListing(r) \/ RequireRegistry(r) \/ RequireBytes(r))
    BY <1>2 DEF RequireListing, RequireRegistry, RequireBytes
<1> QED
    BY <1>10, <1>11, <1>12, <1>13, <1>14, <1>15, <1>16, <1>17, <1>18, <1>19, <1>20, <1>21,
       <1>22, <1>23, <1>24, <1>25, <1>26, <1>27, <1>28, <1>29, <1>30, <1>31 DEF JobStep,
       JobFault

\* The server finishes what was sent, and disturbs no call of a run.
LEMMA LandIntact ==
    ASSUME ~Damage, TypeInv, IntactInv, NEW n \in Names, Land(n)
    PROVE  IntactInv'
<1> USE NamesAssumption
<1>1. /\ asset[n].state = "starter"
      /\ asset' = [asset EXCEPT ![n].state = "uploaded"]
      /\ UNCHANGED <<release, pc, item, seen, listed>>
    BY DEF Land, runVars
<1>2. /\ \A m \in Names \ {n} : asset'[m] = asset[m]
      /\ asset'[n].id = asset[n].id /\ asset'[n].body = asset[n].body
      /\ asset'[n].state = "uploaded"
    BY <1>1 DEF TypeInv, TypeOK, Asset
<1>3. Intact'
    BY <1>1, <1>2 DEF IntactInv, Intact
<1>4. ASSUME NEW s \in Runs PROVE Current(s)'
    <2>1. Current(s) /\ (pc[s] \in Handling => item[s] \in Names)
        BY DEF IntactInv, TypeInv, Ready, Jobs
    <2> QED
        BY <1>1, <1>2, <2>1 DEF Current, Relying
<1> QED
    BY <1>3, <1>4 DEF IntactInv

LEMMA StepIntactInv ==
    ASSUME Serialised, ~Damage, Records # {}, \A a, b \in Records : a = b,
           TypeInv, SerialInv, IntactInv, [Next]_vars
    PROVE  /\ IntactInv'
           /\ \A r \in Runs : pc'[r] = "failed" /\ pc[r] # "failed" => faults' # faults
<1>1. ASSUME NEW r \in Runs, JobStep(r) \/ JobFault(r)
      PROVE  /\ IntactInv'
             /\ \A s \in Runs : pc'[s] = "failed" /\ pc[s] # "failed" => faults' # faults
    <2>1. \A s \in Runs \ {r} : pc'[s] = pc[s] /\ Current(s)'
        BY <1>1, JobMoves, OthersApart DEF IntactInv, TypeInv, TypeOK, Jobs
    <2>2. Intact' /\ Current(r)' /\ (pc'[r] = "failed" => faults' # faults)
        BY <1>1, StepCurrent
    <2> QED
        BY <2>1, <2>2 DEF IntactInv
<1>2. ASSUME NEW c \in Readers, JobStep(c) \/ JobFault(c)
      PROVE  /\ IntactInv'
             /\ \A s \in Runs : pc'[s] = "failed" /\ pc[s] # "failed" => faults' # faults
    <2>1. c \in Jobs /\ c \notin Runs
        BY JobsAssumption DEF Jobs
    <2>2. \A s \in Runs : pc'[s] = pc[s] /\ Current(s)'
        BY <1>2, <2>1, JobMoves, OthersApart DEF IntactInv, TypeInv, TypeOK, Jobs
    <2>3. UNCHANGED asset
        BY <1>2, <2>1, JobMoves DEF DeleteIncomplete, Send, TypeInv, Roles
    <2>4. Intact'
        BY <2>3 DEF IntactInv, Intact
    <2> QED
        BY <2>2, <2>4 DEF IntactInv
<1>3. ASSUME NEW n \in Names, Land(n)
      PROVE  IntactInv' /\ UNCHANGED pc
    BY <1>3, LandIntact DEF Land, runVars
<1>4. CASE UNCHANGED vars
    <2>1. Intact' /\ UNCHANGED pc
        BY <1>4 DEF vars, storeVars, runVars, IntactInv, Intact
    <2>2. \A s \in Runs : Current(s)'
        BY <1>4 DEF vars, storeVars, runVars, IntactInv, Current
    <2> QED
        BY <2>1, <2>2 DEF IntactInv
<1> QED
    BY <1>1, <1>2, <1>3, <1>4 DEF Next, Finished, Jobs

\* A run fails only in a step in which one of its own gh calls fails or is killed.
FailsByFault ==
    [][\A r \in Runs : pc'[r] = "failed" /\ pc[r] # "failed" => faults' # faults]_vars

\* The safety half of Recovery.  Where builds are reproducible, transfers are not damaged
\* and the group admits one run at a time, nothing that an interrupted run, its retries or
\* its late uploads leave in the Release makes stage-complete, restore or publish of a
\* later run fail: upload_asset removes every interrupted asset, and whatever is finished
\* compares equal.  Without JobsRunDown and this, Recovery could not hold; with both, only
\* that steps are taken is left of it.
THEOREM NeverWedged ==
    ASSUME Serialised, ~Damage, NEW build, Bytes = {build}
    PROVE  Spec => FailsByFault
<1>1. Records # {} /\ \A a, b \in Records : a = b
    <2>1. [p \in Payloads |-> build] \in Records
        BY DEF Records
    <2>2. ASSUME NEW a \in Records, NEW b \in Records PROVE a = b
        <3>1. \A p \in Payloads : a[p] = b[p]
            BY DEF Records
        <3> QED
            BY <3>1 DEF Records
    <2> QED
        BY <2>1, <2>2
<1>2. Init => IntactInv
    BY DEF Init, IntactInv, Intact, Current, Relying, Absent, Jobs
<1>3. TypeInv /\ SerialInv /\ IntactInv /\ [Next]_vars => IntactInv'
    BY <1>1, StepIntactInv
<1>4. TypeInv /\ SerialInv /\ IntactInv /\ [Next]_vars =>
          [\A r \in Runs : pc'[r] = "failed" /\ pc[r] # "failed" => faults' # faults]_vars
    BY <1>1, StepIntactInv
<1> QED
    BY <1>2, <1>3, <1>4, SerialInvariant, PTL DEF Spec, FailsByFault
=============================================================================
