-------------------------- MODULE ProfileCheckpoint --------------------------
(***************************************************************************)
(* publish and restore of scripts/profile-artifacts.py on the prerelease   *)
(* of one profile identity, with the steps of the pgo-merge job around     *)
(* publish.  The identity binds every byte of the bundle, so each attempt  *)
(* that gets past its merge holds the same bundle, and an asset either has *)
(* the bundle's bytes or other ones.  An attempt is a run of the job; a    *)
(* failed job is run again.  The request of a lost runner may still arrive.*)
(***************************************************************************)
EXTENDS Integers

CONSTANTS
    Attempts,     \* runs of the pgo-merge job, one after the other
    Readers,      \* jobs of windows-pgo.yml that restore the profile
    Payloads,     \* the payload assets
    Registry,     \* the registry asset, the mark of a committed profile
    Nothing,
    MaxFaults     \* bound on failures around publication and restoration

ASSUME CheckpointAssumption ==
    /\ Registry \notin Payloads
    /\ Nothing \notin Payloads \cup {Registry}
    /\ Attempts \cap Readers = {}
    /\ MaxFaults \in Nat

Names == Payloads \cup {Registry}

VARIABLES
    release,      \* the prerelease exists
    asset,        \* its assets
    pc,           \* the step of an attempt or of a reader
    listed,       \* names the running attempt has listed, and uploaded since
    item,         \* what the attempt's upload request is for
    request,      \* that request
    destination,  \* the profile-use directory of a reader
    faults

remoteVars == <<release, asset, item, request>>
checkpointVars == <<remoteVars, pc, listed, destination, faults>>

AttemptOver == {"published", "failed", "lost"}
ReaderOver == {"restored", "failed", "lost"}

CheckpointTypeOK ==
    /\ release \in BOOLEAN
    /\ asset \in [Names -> {"absent", "starter", "right", "damaged"}]
    /\ pc \in [Attempts \cup Readers ->
                 {"idle", "merge", "create", "list", "compare", "reuse", "upload", "sending",
                  "verify", "register"} \cup AttemptOver
                 \cup {"fetch", "place", "replace", "restored"}]
    /\ listed \subseteq Names
    /\ item \in [Attempts -> Names \cup {Nothing}]
    /\ request \in [Attempts -> {"none", "sent", "storing", "stored", "refused"}]
    /\ destination \in [Readers -> {"absent", "empty", "other", "bundle"}]
    /\ faults \in 0..MaxFaults

CheckpointInit ==
    /\ release = FALSE
    /\ asset = [n \in Names |-> "absent"]
    /\ pc = [j \in Attempts \cup Readers |-> "idle"]
    /\ listed = {}
    /\ item = [a \in Attempts |-> Nothing]
    /\ request = [a \in Attempts |-> "none"]
    /\ destination \in [Readers -> {"empty", "other"}]
    /\ faults = 0

Fault == faults < MaxFaults /\ faults' = faults + 1

Goto(j, step) == pc' = [pc EXCEPT ![j] = step]

Active(j) == pc[j] \notin AttemptOver \cup ReaderOver \cup {"idle"}

\* download and check_asset: only an uploaded asset can be downloaded.
Verified(names) == \A n \in names : asset[n] = "right"

Shown == {n \in Names : asset[n] # "absent"}

(***************************************************************************)
(* The pgo-merge job                                                       *)
(***************************************************************************)

\* A failed or lost job is run again by hand.
Begin(a) ==
    /\ pc[a] = "idle"
    /\ \A other \in Attempts : ~Active(other) /\ pc[other] # "published"
    /\ Goto(a, "merge")
    /\ listed' = {}
    /\ UNCHANGED <<remoteVars, destination, faults>>

\* The bundle is made and its registry written last, or the job has failed.
Merge(a, accepted) ==
    /\ pc[a] = "merge"
    /\ Goto(a, IF accepted THEN "create" ELSE "failed")
    /\ UNCHANGED <<remoteVars, listed, destination, faults>>

\* gh release view or create.
CreateRelease(a) ==
    /\ pc[a] = "create"
    /\ release' = TRUE
    /\ Goto(a, "list")
    /\ UNCHANGED <<asset, item, request, listed, destination, faults>>

List(a) ==
    /\ pc[a] = "list"
    /\ listed' = Shown
    /\ Goto(a, IF Registry \in Shown THEN "compare" ELSE "reuse")
    /\ UNCHANGED <<remoteVars, destination, faults>>

\* download_bundle, which lists again, and the comparison of the registries.
Compare(a) ==
    /\ pc[a] = "compare"
    /\ Goto(a, IF Verified(Names) THEN "published" ELSE "failed")
    /\ UNCHANGED <<remoteVars, listed, destination, faults>>

\* Every payload of an interrupted publication is checked before the first upload.
Reuse(a) ==
    /\ pc[a] = "reuse"
    /\ Goto(a, IF Verified(Payloads \cap listed) THEN "upload" ELSE "failed")
    /\ UNCHANGED <<remoteVars, listed, destination, faults>>

\* gh release upload without --clobber, for a payload that was not listed or, last, the
\* registry; listed grows by what was sent.
Send(a, n) ==
    /\ n \notin listed
    /\ \/ pc[a] = "upload" /\ n \in Payloads
       \/ pc[a] = "register" /\ n = Registry
    /\ item' = [item EXCEPT ![a] = n]
    /\ request' = [request EXCEPT ![a] = "sent"]
    /\ Goto(a, "sending")
    /\ UNCHANGED <<release, asset, listed, destination, faults>>

Answered(a) ==
    /\ pc[a] = "sending" /\ request[a] \in {"stored", "refused"}
    /\ listed' = listed \cup {item[a]}
    /\ Goto(a, IF request[a] = "refused" THEN "failed"
               ELSE IF item[a] = Registry THEN "published" ELSE "upload")
    /\ UNCHANGED <<remoteVars, destination, faults>>

UploadsEnd(a) ==
    /\ pc[a] = "upload" /\ Payloads \subseteq listed
    /\ Goto(a, "verify")
    /\ UNCHANGED <<remoteVars, listed, destination, faults>>

\* Deviation: the uploads that were acknowledged are trusted and not downloaded again.
VerifyUploads(a) ==
    /\ pc[a] = "verify"
    /\ Goto(a, "register")
    /\ UNCHANGED <<remoteVars, listed, destination, faults>>

\* Every payload is downloaded back before the registry is uploaded.
Verify(a) ==
    /\ pc[a] = "verify"
    /\ Goto(a, IF Verified(Payloads) THEN "register" ELSE "failed")
    /\ UNCHANGED <<remoteVars, listed, destination, faults>>

\* A failed gh call ends the job; a request that was sent goes on.
AttemptFails(a) ==
    /\ Active(a)
    /\ Fault
    /\ Goto(a, "failed")
    /\ UNCHANGED <<remoteVars, listed, destination>>

\* gh has no timeout of its own here; the job has one.
JobTimeout(a) ==
    /\ pc[a] = "sending" /\ request[a] \in {"sent", "storing"}
    /\ Goto(a, "lost")
    /\ UNCHANGED <<remoteVars, listed, destination, faults>>

(***************************************************************************)
(* The server                                                              *)
(***************************************************************************)

\* A name is taken from the moment its upload has begun.
Arrive(a) ==
    /\ request[a] = "sent"
    /\ IF asset[item[a]] = "absent"
       THEN /\ asset' = [asset EXCEPT ![item[a]] = "starter"]
            /\ request' = [request EXCEPT ![a] = "storing"]
       ELSE request' = [request EXCEPT ![a] = "refused"] /\ UNCHANGED asset
    /\ UNCHANGED <<release, item, pc, listed, destination, faults>>

Store(a) ==
    /\ request[a] = "storing"
    /\ \/ asset' = [asset EXCEPT ![item[a]] = "right"] /\ UNCHANGED faults
       \/ Fault /\ asset' = [asset EXCEPT ![item[a]] = "damaged"]
    /\ request' = [request EXCEPT ![a] = "stored"]
    /\ UNCHANGED <<release, item, pc, listed, destination>>

(***************************************************************************)
(* restore                                                                 *)
(***************************************************************************)

\* The release and the identity come from the merge job or from a dispatch by hand.
RestoreListing(c) ==
    /\ pc[c] = "idle"
    /\ Goto(c, IF release /\ Shown = Names THEN "fetch" ELSE "failed")
    /\ UNCHANGED <<remoteVars, listed, destination, faults>>

\* Deviation: the downloads go to the destination and are validated there.
FetchInPlace(c) ==
    /\ pc[c] = "fetch"
    /\ Goto(c, IF Verified(Names) THEN "place" ELSE "failed")
    /\ destination' = [destination EXCEPT ![c] = IF @ = "other" THEN @
                         ELSE IF Verified(Names) THEN "bundle" ELSE "unchecked"]
    /\ UNCHANGED <<remoteVars, listed, faults>>

\* download_bundle into a temporary directory, with the expected identity.
Fetch(c) ==
    /\ pc[c] = "fetch"
    /\ Goto(c, IF Verified(Names) THEN "place" ELSE "failed")
    /\ UNCHANGED <<remoteVars, listed, destination, faults>>

\* Deviation: the directory is removed whatever it holds.
PlaceOver(c) ==
    /\ pc[c] = "place"
    /\ destination' = [destination EXCEPT ![c] = "absent"]
    /\ Goto(c, "replace")
    /\ UNCHANGED <<remoteVars, listed, faults>>

\* A directory with something in it has to be the same bundle; an empty one is removed.
Place(c) ==
    /\ pc[c] = "place"
    /\ IF destination[c] = "other" THEN Goto(c, "failed") /\ UNCHANGED destination
       ELSE IF destination[c] = "bundle" THEN Goto(c, "restored") /\ UNCHANGED destination
       ELSE /\ destination' = [destination EXCEPT ![c] = "absent"]
            /\ Goto(c, "replace")
    /\ UNCHANGED <<remoteVars, listed, faults>>

Replace(c) ==
    /\ pc[c] = "replace"
    /\ destination' = [destination EXCEPT ![c] = "bundle"]
    /\ Goto(c, "restored")
    /\ UNCHANGED <<remoteVars, listed, faults>>

ReaderFails(c) ==
    /\ Active(c)
    /\ Fault
    /\ Goto(c, "failed")
    /\ UNCHANGED <<remoteVars, listed, destination>>

\* The command is given again for the same directory.
RestoreAgain(c) ==
    /\ pc[c] \in ReaderOver
    /\ Fault
    /\ Goto(c, "idle")
    /\ UNCHANGED <<remoteVars, listed, destination>>

AttemptStep(a) ==
    \/ CreateRelease(a) \/ List(a) \/ Compare(a) \/ Reuse(a) \/ (\E n \in Names : Send(a, n))
    \/ Answered(a) \/ UploadsEnd(a) \/ Verify(a)

ReaderStep(c) == RestoreListing(c) \/ Fetch(c) \/ Place(c) \/ Replace(c)

CheckpointNext ==
    \/ \E a \in Attempts : \/ Begin(a) \/ AttemptStep(a) \/ AttemptFails(a) \/ JobTimeout(a)
                           \/ Arrive(a) \/ Store(a)
    \/ \E c \in Readers : ReaderStep(c) \/ ReaderFails(c) \/ RestoreAgain(c)

\* A runner goes on with its job, and the job has a timeout.  The server owes nothing.
CheckpointFairness ==
    /\ \A a \in Attempts : WF_checkpointVars(AttemptStep(a) \/ JobTimeout(a))
    /\ \A c \in Readers : WF_checkpointVars(Active(c) /\ ReaderStep(c))

(***************************************************************************)
(* What publication promises                                               *)
(***************************************************************************)

Committed == Verified(Names)

\* A registry with the profile's bytes appears only when every payload is there with
\* its bytes (publish uploads it last, after downloading the payloads back), and then
\* nothing of the profile is taken away or replaced, not by a later attempt that acts
\* on an older listing and not by a request of a lost runner that arrives late.
CommitIsFinal ==
    [][ /\ asset'[Registry] = "right" => Committed'
        /\ Committed => Committed' ]_checkpointVars

\* A reader's directory never holds a part of a bundle or one that is not committed, and
\* success is only reported for the bundle; what the directory holds, the bundle or other
\* contents, is left as it is by every later restore, however often one is lost between
\* removing the empty directory and moving the new one there (restore validates in a
\* temporary directory, compares, and only then replaces).
RestoredWhole ==
    /\ [](\A c \in Readers :
            /\ destination[c] = "bundle" => Committed
            /\ pc[c] = "restored" => destination[c] = "bundle")
    /\ [][\A c \in Readers : destination[c] \in {"other", "bundle"} =>
                                  destination'[c] = destination[c]]_destination

(***************************************************************************)
(* Refinement: a write-once record per profile                             *)
(***************************************************************************)

\* What is committed, and who has it: an attempt that ended well and a reader whose
\* directory holds the bundle.  publish does not download the registry back, so it may
\* also end well over a registry that was damaged on its way; nobody can read that one.
Profile == IF Committed THEN "bundle" ELSE "nothing"
Served ==
    {a \in Attempts : pc[a] = "published" /\ asset[Registry] # "damaged"}
        \cup {c \in Readers : destination[c] = "bundle"}

Promise == INSTANCE CheckpointStore WITH
    Records <- {"bundle"}, Runs <- Attempts, None <- "nothing",
    value <- Profile, visible <- asset[Registry] = "right", answered <- Served

\* publish and restore implement the write-once record of CheckpointStore, as the stage
\* checkpoints do by another protocol: the registry appears together with the whole
\* profile, a job has the profile only once it is there, and nothing of it is withdrawn.
ImplementsStore == Promise!StoreSpec
=============================================================================
