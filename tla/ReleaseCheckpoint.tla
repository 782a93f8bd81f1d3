------------------------- MODULE ReleaseCheckpoint -------------------------
(***************************************************************************)
(* The checkpoint protocol of scripts/rbm-release-artifacts.py.            *)
(*                                                                         *)
(* One build stage keeps its outputs ("payloads") as assets of a GitHub    *)
(* Release, and uploads one more asset last: the stage registry, which     *)
(* records the digest of every payload and is the stage's commit record.   *)
(* A workflow run asks whether the stage is complete, restores it or       *)
(* builds it, and publishes what it built.  Runs are jobs on fresh runners;*)
(* a run that is lost is followed by another one.                          *)
(*                                                                         *)
(* The store changes under the runs: an upload whose client was killed may *)
(* still be finished by the server, and two runs share the store whenever  *)
(* the workflow's concurrency group lets them.  Every gh call is a step of *)
(* its own where its answer is kept and used by a later call; the payload  *)
(* downloads that follow one registry are one step.                        *)
(***************************************************************************)
EXTENDS Integers, FiniteSets

CONSTANTS
    Runs,            \* workflow runs that may execute the stage, each once
    Readers,         \* runs of other workflows that only restore the finished stage
    Payloads,        \* asset names of the stage's outputs
    Registry,        \* asset name of the stage's registry
    Bytes,           \* what a build may produce for a payload; one member: reproducible
    Corrupt,         \* bytes that differ from all of Bytes
    Nothing,         \* no content, no item
    UploadAttempts,  \* UPLOAD_ATTEMPTS
    MaxFaults,       \* bound on crashes, timeouts, damaged transfers, failed calls
    Damage,          \* a transfer may store Corrupt
    Serialised,      \* the workflow's concurrency group admits one run at a time
    StrictGate,      \* the workflow stops on exit status 2 of stage-complete
    RestoresFirst,   \* the workflow restores committed stages before it builds
    Digests          \* GitHub supplies an asset digest in the listing

Jobs == Runs \cup Readers
Names == Payloads \cup {Registry}
Records == [Payloads -> Bytes]
Contents == Bytes \cup Records \cup {Corrupt, Nothing}

ASSUME NamesAssumption == Registry \notin Payloads /\ Payloads # {}
ASSUME ContentsAssumption ==
    /\ Corrupt \notin Bytes \cup Records
    /\ Nothing \notin Bytes \cup Records \cup {Corrupt}
    /\ Nothing \notin Names
ASSUME JobsAssumption == Runs \cap Readers = {}
ASSUME BoundsAssumption == UploadAttempts \in Nat \ {0} /\ MaxFaults \in Nat
ASSUME FlagsAssumption ==
    {Damage, Serialised, StrictGate, RestoresFirst, Digests} \subseteq BOOLEAN

VARIABLES
    release,   \* the Release exists
    asset,     \* the Release's assets, by name
    lastId,    \* GitHub's asset ids are issued in order
    faults,    \* how many faults have happened
    commits,   \* history: every content the registry asset has shown as uploaded
    pc,        \* where each job is
    gate,      \* what stage-complete told each run's workflow
    outputs,   \* the job's out/ directory: a record, or Nothing
    listed,    \* the job's last complete listing of the assets
    record,    \* the registry the job last downloaded and validated
    todo,      \* payloads the run has yet to publish
    item,      \* the asset upload_asset is working on
    seen,      \* that asset as the run last saw it
    tries      \* attempts of the current upload_asset call

storeVars == <<release, asset, lastId, commits>>
runVars == <<pc, gate, outputs, listed, record, todo, item, seen, tries>>
vars == <<storeVars, faults, runVars>>

Asset == [id : Nat, state : {"absent", "starter", "uploaded"}, body : Contents]
Absent == [id |-> 0, state |-> "absent", body |-> Nothing]

\* Exit status 0 of stage-complete, publish and restore-required.
Succeeded == {"complete", "published", "restored"}
Over == Succeeded \cup {"failed", "lost"}
Checking == {"check", "check_registry", "check_bytes"}
Publishing == {"publish", "verify_registry", "verify_bytes", "create", "next", "reuse", "delete",
               "send", "sending", "confirm", "confirm_bytes"}
Restoring == {"restore", "restore_registry", "restore_bytes",
              "require_registry", "require_bytes"}
Steps == {"idle", "build"} \cup Restoring \cup Checking \cup Publishing \cup Over

TypeOK ==
    /\ release \in BOOLEAN
    /\ asset \in [Names -> Asset]
    /\ lastId \in Nat
    /\ faults \in 0..MaxFaults
    /\ commits \subseteq Records
    /\ pc \in [Jobs -> Steps]
    /\ gate \in [Jobs -> {"none", "verified", "incomplete", "error"}]
    /\ outputs \in [Jobs -> Records \cup {Nothing}]
    /\ listed \in [Jobs -> [Names -> Asset]]
    /\ record \in [Jobs -> Records \cup {Nothing}]
    /\ todo \in [Jobs -> SUBSET Payloads]
    /\ item \in [Jobs -> Names \cup {Nothing}]
    /\ seen \in [Jobs -> Asset]
    /\ tries \in [Jobs -> 0..UploadAttempts]

Init ==
    /\ release = FALSE
    /\ asset = [n \in Names |-> Absent]
    /\ lastId = 0
    /\ faults = 0
    /\ commits = {}
    /\ pc = [r \in Jobs |-> "idle"]
    /\ gate = [r \in Jobs |-> "none"]
    /\ outputs = [r \in Jobs |-> Nothing]
    /\ listed = [r \in Jobs |-> [n \in Names |-> Absent]]
    /\ record = [r \in Jobs |-> Nothing]
    /\ todo = [r \in Jobs |-> Payloads]
    /\ item = [r \in Jobs |-> Nothing]
    /\ seen = [r \in Jobs |-> Absent]
    /\ tries = [r \in Jobs |-> 0]

Active(r) == pc[r] \notin Over \cup {"idle"}

Goto(r, step) == pc' = [pc EXCEPT ![r] = step]

\* release_assets: the run keeps the whole listing and uses it in later steps.
List(r) == listed' = [listed EXCEPT ![r] = asset]

Fault == faults < MaxFaults /\ faults' = faults + 1

(***************************************************************************)
(* Reading committed bytes                                                 *)
(***************************************************************************)

\* require_asset on the listed metadata: a digest is compared when GitHub gives one.
MetadataMatches(entry, body) ==
    entry.state = "uploaded" /\ (Digests => entry.body = body)

\* A download by name succeeds only for an uploaded asset.
Downloads(name, body) == asset[name].state = "uploaded" /\ asset[name].body = body

\* download_registry and validate_registry: a record the job may act on.
RegistryRead(r, content) ==
    MetadataMatches(listed[r][Registry], content) /\ Downloads(Registry, content)

\* download_verified for one payload of the registry read before.
PayloadVerified(r, p) ==
    MetadataMatches(listed[r][p], record[r][p]) /\ Downloads(p, record[r][p])

AllVerified(r) == \A p \in Payloads : PayloadVerified(r, p)

\* The registry is kept and its payloads are fetched next, or the reader gives up.
ReadRegistry(r, next, GiveUp) ==
    \/ \E content \in Records :
          /\ RegistryRead(r, content)
          /\ record' = [record EXCEPT ![r] = content]
          /\ Goto(r, next)
          /\ UNCHANGED gate
    \/ /\ ~\E content \in Records : RegistryRead(r, content)
       /\ UNCHANGED record
       /\ GiveUp

(***************************************************************************)
(* stage-complete, and the workflow step that reads its exit status        *)
(***************************************************************************)

\* The concurrency group queues a run while another run of the group is active.
Begin(r) ==
    /\ r \in Runs /\ pc[r] = "idle"
    /\ Serialised => \A s \in Runs : ~Active(s)
    /\ Goto(r, "check")
    /\ UNCHANGED <<storeVars, faults, gate, outputs, listed, record, todo, item, seen, tries>>

\* Exit status 1 goes on to the build; status 2 only where the step ignores it.
Decide(r, status) ==
    /\ gate' = [gate EXCEPT ![r] = status]
    /\ Goto(r, IF status = "verified" THEN "complete"
               ELSE IF status = "error" /\ StrictGate THEN "failed"
               ELSE IF RestoresFirst THEN "restore" ELSE "build")

CheckListing(r) ==
    /\ pc[r] = "check"
    /\ IF release /\ asset[Registry].state = "uploaded"
       THEN List(r) /\ Goto(r, "check_registry") /\ UNCHANGED gate
       ELSE Decide(r, "incomplete") /\ UNCHANGED listed
    /\ UNCHANGED <<storeVars, faults, outputs, record, todo, item, seen, tries>>

CheckRegistry(r) ==
    /\ pc[r] = "check_registry"
    /\ ReadRegistry(r, "check_bytes", Decide(r, "error"))
    /\ UNCHANGED <<storeVars, faults, outputs, listed, todo, item, seen, tries>>

\* The first artifact that is not as recorded decides, so each bad one is an answer.
CheckBytes(r) ==
    /\ pc[r] = "check_bytes"
    /\ \/ AllVerified(r) /\ Decide(r, "verified")
       \/ \E p \in Payloads :
            /\ ~PayloadVerified(r, p)
            /\ Decide(r, IF listed[r][p].state = "uploaded" THEN "error" ELSE "incomplete")
    /\ UNCHANGED <<storeVars, faults, outputs, listed, record, todo, item, seen, tries>>

\* A gh call that fails while inspecting or downloading ends in exit status 2.
CheckFails(r) ==
    /\ pc[r] \in Checking
    /\ Fault
    /\ Decide(r, "error")
    /\ UNCHANGED <<storeVars, outputs, listed, record, todo, item, seen, tries>>

(***************************************************************************)
(* restore, snapshot and the build                                         *)
(***************************************************************************)

RestoreListing(r) ==
    /\ pc[r] = "restore"
    /\ IF release /\ asset[Registry].state = "uploaded"
       THEN List(r) /\ Goto(r, "restore_registry")
       ELSE Goto(r, "build") /\ UNCHANGED listed
    /\ UNCHANGED <<storeVars, faults, gate, outputs, record, todo, item, seen, tries>>

\* android.yml goes on without the restored outputs.
RestoreGivesUp(r) == Goto(r, IF StrictGate THEN "failed" ELSE "build")

RestoreRegistry(r) ==
    /\ pc[r] = "restore_registry"
    /\ ReadRegistry(r, "restore_bytes", RestoreGivesUp(r) /\ UNCHANGED gate)
    /\ UNCHANGED <<storeVars, faults, outputs, listed, todo, item, seen, tries>>

\* out/ is written only after every registry and payload has passed.
RestoreOutputs(r) ==
    /\ pc[r] = "restore_bytes"
    /\ IF AllVerified(r)
       THEN outputs' = [outputs EXCEPT ![r] = record[r]] /\ Goto(r, "build")
       ELSE RestoreGivesUp(r) /\ UNCHANGED outputs
    /\ UNCHANGED <<storeVars, faults, gate, listed, record, todo, item, seen, tries>>

\* RBM finds restored outputs by name and builds the others; a compiler build is
\* not known to be reproducible.
Build(r) ==
    /\ pc[r] = "build"
    /\ \/ outputs[r] # Nothing /\ UNCHANGED outputs
       \/ /\ outputs[r] = Nothing
          /\ \E built \in Records : outputs' = [outputs EXCEPT ![r] = built]
    /\ Goto(r, "publish")
    /\ UNCHANGED <<storeVars, faults, gate, listed, record, todo, item, seen, tries>>

\* restore-required in a workflow of another group: absence is fatal.
RequireListing(c) ==
    /\ c \in Readers /\ pc[c] = "idle"
    /\ IF release /\ asset[Registry].state = "uploaded"
       THEN List(c) /\ Goto(c, "require_registry")
       ELSE Goto(c, "failed") /\ UNCHANGED listed
    /\ UNCHANGED <<storeVars, faults, gate, outputs, record, todo, item, seen, tries>>

RequireRegistry(c) ==
    /\ pc[c] = "require_registry"
    /\ ReadRegistry(c, "require_bytes", Goto(c, "failed") /\ UNCHANGED gate)
    /\ UNCHANGED <<storeVars, faults, outputs, listed, todo, item, seen, tries>>

RequireBytes(c) ==
    /\ pc[c] = "require_bytes"
    /\ IF AllVerified(c)
       THEN outputs' = [outputs EXCEPT ![c] = record[c]] /\ Goto(c, "restored")
       ELSE Goto(c, "failed") /\ UNCHANGED outputs
    /\ UNCHANGED <<storeVars, faults, gate, listed, record, todo, item, seen, tries>>

(***************************************************************************)
(* publish                                                                 *)
(***************************************************************************)

\* With no new outputs the restored registry on disk names the artifacts to resume;
\* either way the artifacts to upload are the run's outputs.
PublishListing(r) ==
    /\ pc[r] = "publish"
    /\ List(r)
    /\ Goto(r, IF release /\ asset[Registry].state = "uploaded" THEN "verify_registry"
               ELSE IF release THEN "next" ELSE "create")
    /\ UNCHANGED <<storeVars, faults, gate, outputs, record, todo, item, seen, tries>>

\* verify_committed_stage: the run's files and the published bytes equal the record.
VerifyRegistry(r) ==
    /\ pc[r] = "verify_registry"
    /\ ReadRegistry(r, "verify_bytes", Goto(r, "failed") /\ UNCHANGED gate)
    /\ UNCHANGED <<storeVars, faults, outputs, listed, todo, item, seen, tries>>

VerifyCommitted(r) ==
    /\ pc[r] = "verify_bytes"
    /\ Goto(r, IF outputs[r] = record[r] /\ AllVerified(r) THEN "published" ELSE "failed")
    /\ UNCHANGED <<storeVars, faults, gate, outputs, listed, record, todo, item, seen, tries>>

\* gh release create fails when the Release came into being since the listing.
CreateRelease(r) ==
    /\ pc[r] = "create"
    /\ release' = TRUE
    /\ Goto(r, IF release THEN "failed" ELSE "next")
    /\ UNCHANGED <<asset, lastId, commits, faults, gate, outputs, listed, record, todo, item,
                   seen, tries>>

(***************************************************************************)
(* upload_asset                                                            *)
(***************************************************************************)

\* What the run means to store under a name.
Expected(r, name) == IF name = Registry THEN outputs[r] ELSE outputs[r][name]

\* Deviation: the registry is one of the assets, in any order.
CandidatesInAnyOrder(r) ==
    IF item[r] # Nothing THEN {item[r]} ELSE todo[r] \cup {Registry}

\* The asset to work on: the current one, else a payload, else the registry, last.
Candidates(r) ==
    IF item[r] # Nothing THEN {item[r]}
    ELSE IF todo[r] # {} THEN todo[r] ELSE {Registry}

\* Deviation: an interrupted asset is left in place.
UploadListingKeepsStarter(r) ==
    /\ pc[r] = "next"
    /\ \E n \in Candidates(r) :
         /\ item' = [item EXCEPT ![r] = n]
         /\ seen' = [seen EXCEPT ![r] = asset[n]]
         /\ Goto(r, IF asset[n].state = "uploaded" THEN "reuse" ELSE "send")
    /\ tries' = [tries EXCEPT ![r] = @ + 1]
    /\ UNCHANGED <<storeVars, faults, gate, outputs, listed, record, todo>>

UploadListing(r) ==
    /\ pc[r] = "next"
    /\ \E n \in Candidates(r) :
         /\ item' = [item EXCEPT ![r] = n]
         /\ seen' = [seen EXCEPT ![r] = asset[n]]
         /\ Goto(r, IF asset[n].state = "uploaded" THEN "reuse"
                    ELSE IF asset[n].state = "starter" THEN "delete" ELSE "send")
    /\ tries' = [tries EXCEPT ![r] = @ + 1]
    /\ UNCHANGED <<storeVars, faults, gate, outputs, listed, record, todo>>

Retry(r) == Goto(r, IF tries[r] < UploadAttempts THEN "next" ELSE "failed")

\* Deviation: a DELETE that is not answered is sent again without a new listing.
DeleteUntilAnswered(r) ==
    /\ pc[r] = "delete"
    /\ IF asset[item[r]].state = "starter"
       THEN asset' = [asset EXCEPT ![item[r]] = Absent] /\ Goto(r, "send")
       ELSE UNCHANGED <<asset, pc>>
    /\ UNCHANGED <<release, lastId, commits, faults, gate, outputs, listed, record, todo,
                   item, seen, tries>>

\* The asset is deleted by the id of the listing, whatever has become of it since.
DeleteIncomplete(r) ==
    /\ pc[r] = "delete"
    /\ IF asset[item[r]].id = seen[r].id
       THEN asset' = [asset EXCEPT ![item[r]] = Absent] /\ Goto(r, "send")
       ELSE UNCHANGED asset /\ Goto(r, "failed")
    /\ UNCHANGED <<release, lastId, commits, faults, gate, outputs, listed, record, todo, item,
                   seen, tries>>

\* gh release upload without --clobber: a name that is taken is an error.
Send(r) ==
    /\ pc[r] = "send"
    /\ LET new == [id |-> lastId + 1, state |-> "starter", body |-> Expected(r, item[r])]
       IN  IF asset[item[r]].state = "absent"
           THEN /\ asset' = [asset EXCEPT ![item[r]] = new]
                /\ seen' = [seen EXCEPT ![r] = new]
                /\ lastId' = lastId + 1
                /\ Goto(r, "sending")
           ELSE UNCHANGED <<asset, seen, lastId>> /\ Retry(r)
    /\ UNCHANGED <<release, commits, faults, gate, outputs, listed, record, todo, item, tries>>

\* gh returns once its upload is stored, or fails because its asset was removed.
SendReturns(r) ==
    /\ pc[r] = "sending"
    /\ \/ asset[item[r]].id = seen[r].id /\ asset[item[r]].state = "uploaded"
          /\ Goto(r, "confirm")
       \/ asset[item[r]].id # seen[r].id /\ Retry(r)
    /\ UNCHANGED <<storeVars, faults, gate, outputs, listed, record, todo, item, seen, tries>>

\* A gh call in upload_asset's try block fails, or the upload is killed after
\* UPLOAD_TIMEOUT_SECONDS; the server may go on with it.
SendFails(r) ==
    /\ pc[r] \in {"sending", "confirm", "confirm_bytes"}
    /\ Fault
    /\ Retry(r)
    /\ UNCHANGED <<storeVars, gate, outputs, listed, record, todo, item, seen, tries>>

ConfirmListing(r) ==
    /\ pc[r] = "confirm"
    /\ IF asset[item[r]].state = "uploaded"
       THEN seen' = [seen EXCEPT ![r] = asset[item[r]]] /\ Goto(r, "confirm_bytes")
       ELSE UNCHANGED seen /\ Retry(r)
    /\ UNCHANGED <<storeVars, faults, gate, outputs, listed, record, todo, item, tries>>

\* Deviation: the state "uploaded" is taken for the right bytes.
UploadedAtAll(r) == asset[item[r]].state = "uploaded"

\* Deviation: the listing is trusted and nothing is downloaded again.
UploadedByListing(r) == MetadataMatches(seen[r], Expected(r, item[r]))

\* Deviation: a failed comparison counts as done when the name is taken by a registry.
UploadedPayload(r) ==
    LET body == Expected(r, item[r])
    IN  Downloads(item[r], body) \/ (item[r] = Registry /\ asset[Registry].state = "uploaded")

UploadedVerified(r) ==
    LET body == Expected(r, item[r])
    IN  MetadataMatches(seen[r], body) /\ Downloads(item[r], body)

\* Deviation: publish ends with the last payload.
ItemDoneBeforeRegistry(r) ==
    /\ todo' = [todo EXCEPT ![r] = @ \ {item[r]}]
    /\ item' = [item EXCEPT ![r] = Nothing]
    /\ tries' = [tries EXCEPT ![r] = 0]
    /\ Goto(r, IF todo[r] \subseteq {item[r]} THEN "published" ELSE "next")

\* Deviation: the attempts of one asset count against the next.
ItemDoneKeepsTries(r) ==
    /\ todo' = [todo EXCEPT ![r] = @ \ {item[r]}]
    /\ item' = [item EXCEPT ![r] = Nothing]
    /\ Goto(r, IF item[r] = Registry THEN "published" ELSE "next")
    /\ UNCHANGED tries

\* The call returns: the next payload, or the end of publish after the registry.
ItemDone(r) ==
    /\ todo' = [todo EXCEPT ![r] = @ \ {item[r]}]
    /\ item' = [item EXCEPT ![r] = Nothing]
    /\ tries' = [tries EXCEPT ![r] = 0]
    /\ Goto(r, IF item[r] = Registry THEN "published" ELSE "next")

\* verify_uploaded_asset: wrong bytes are fatal.  A download that finds no asset is
\* fatal when an asset is reused, and one more failed attempt after an upload.
VerifyUploaded(r) ==
    /\ pc[r] \in {"reuse", "confirm_bytes"}
    /\ \/ UploadedVerified(r) /\ ItemDone(r)
       \/ /\ ~UploadedVerified(r)
          /\ IF /\ pc[r] = "confirm_bytes" /\ asset[item[r]].state # "uploaded"
                /\ MetadataMatches(seen[r], Expected(r, item[r]))
             THEN Retry(r) ELSE Goto(r, "failed")
          /\ UNCHANGED <<todo, item, tries>>
    /\ UNCHANGED <<storeVars, faults, gate, outputs, listed, record, seen>>

(***************************************************************************)
(* The runner and the server                                               *)
(***************************************************************************)

\* The runner is lost, the job is cancelled or times out, or another call fails.
Lose(r) ==
    /\ Active(r)
    /\ Fault
    /\ Goto(r, "lost")
    /\ UNCHANGED <<storeVars, gate, outputs, listed, record, todo, item, seen, tries>>

\* The server finishes an upload, possibly after its client is gone.
Land(n) ==
    /\ asset[n].state = "starter"
    /\ \/ asset' = [asset EXCEPT ![n].state = "uploaded"] /\ UNCHANGED faults
       \/ /\ Damage /\ Fault
          /\ asset' = [asset EXCEPT ![n].state = "uploaded", ![n].body = Corrupt]
    /\ commits' = IF n = Registry /\ asset'[n].body \in Records
                  THEN commits \cup {asset'[n].body} ELSE commits
    /\ UNCHANGED <<release, lastId, runVars>>

Finished ==
    /\ \A r \in Jobs : pc[r] \in Over
    /\ UNCHANGED vars

JobStep(r) ==
    \/ Begin(r) \/ CheckListing(r) \/ CheckRegistry(r) \/ CheckBytes(r)
    \/ RestoreListing(r) \/ RestoreRegistry(r) \/ RestoreOutputs(r) \/ Build(r)
    \/ RequireListing(r) \/ RequireRegistry(r) \/ RequireBytes(r)
    \/ PublishListing(r) \/ VerifyRegistry(r) \/ VerifyCommitted(r) \/ CreateRelease(r)
    \/ UploadListing(r) \/ DeleteIncomplete(r) \/ Send(r)
    \/ SendReturns(r) \/ ConfirmListing(r) \/ VerifyUploaded(r)

JobFault(r) == CheckFails(r) \/ SendFails(r) \/ Lose(r)

Next ==
    \/ \E r \in Jobs : JobStep(r) \/ JobFault(r)
    \/ \E n \in Names : Land(n)
    \/ Finished

Spec == Init /\ [][Next]_vars

\* Every call of a live run has a timeout, and somebody starts the next run.  The
\* server finishes an upload while its client waits; what it does with the upload of
\* a lost client is left open.
Awaited(n) == \E r \in Runs : pc[r] = "sending" /\ item[r] = n /\ seen[r].id = asset[n].id

Fairness ==
    /\ \A r \in Runs : WF_vars(JobStep(r))
    /\ \A n \in Names : WF_vars(Awaited(n) /\ Land(n))

FairSpec == Spec /\ Fairness

(***************************************************************************)
(* Properties                                                              *)
(***************************************************************************)

\* A registry's payloads are all in the store, with the recorded bytes.
Backed(content) == \A p \in Payloads : Downloads(p, content[p])

\* The commit record is uploaded last: whenever a readable registry is in the store,
\* every payload it names is there with the bytes it records, whatever crashes,
\* retries and late uploads led here (publish uploads the registry after the payloads,
\* and upload_asset deletes what it takes to be interrupted).
CommitBacked ==
    \A content \in Records : Downloads(Registry, content) => Backed(content)

\* Once stage-complete or publish has reported success to its workflow, the stage is
\* committed and stays so: nobody's retry deletes the registry or a payload again.
SuccessIsDurable ==
    (\E r \in Runs : pc[r] \in Succeeded) =>
        \E content \in Records : Downloads(Registry, content) /\ Backed(content)

\* A stage never has two contents: every registry that was ever visible is one and the
\* same record, although builds are not reproducible and an interrupted publication is
\* resumed by a run that built other bytes.
OneContent == \A a, b \in commits : a = b

\* What publish reports as published and what restore-required puts into another
\* workflow's out/ directory has been a committed record.
AnswersCommitted ==
    \A j \in Jobs : pc[j] \in {"published", "restored"} => outputs[j] \in commits

\* "Callers must not rebuild on exit 2": a run that builds was told "incomplete".
RebuildOnlyIfIncomplete ==
    \A r \in Runs : pc[r] \in {"build", "publish"} => gate[r] = "incomplete"

\* An interrupted publication never wedges a reproducible stage: with more reruns than
\* faults, some run ends by finding the stage complete or publishing it.
Recovery == <>(\E r \in Runs : pc[r] \in Succeeded)

\* Every job ends: upload_asset's loop is bounded, and no call waits for another job.
EveryJobEnds == \A r \in Jobs : (pc[r] # "idle") ~> (pc[r] \in Over)

(***************************************************************************)
(* Refinement: a write-once record per stage                               *)
(***************************************************************************)

\* The content the stage has got, whether a registry can be downloaded, and who has been
\* told that the stage is finished.
Value == IF commits = {} THEN Nothing ELSE CHOOSE content \in commits : TRUE
Shown == \E content \in Records : Downloads(Registry, content)
Answered == {j \in Jobs : pc[j] \in Succeeded}

Promise == INSTANCE CheckpointStore WITH
    None <- Nothing, value <- Value, visible <- Shown, answered <- Answered

\* The Release protocol implements the write-once record of CheckpointStore: retries,
\* reruns and late uploads never show two contents, and nothing is taken back once a
\* run has succeeded.
ImplementsStore == Promise!StoreSpec
=============================================================================
