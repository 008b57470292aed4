------------------------------ MODULE Uploads ------------------------------
(***************************************************************************)
(* From an upload to the finalized archive (apps/api/src/modules/uploads and *)
(* the publication in modules/archives), for one archive of one creator.    *)
(*                                                                         *)
(* Every upload is a session of the web client: init, data, then complete or *)
(* cancel.  Sessions may overlap: of two tabs, or because the answer to      *)
(* complete was lost and the creator tries again while the request still     *)
(* runs.  An upload stands for what its build makes: the .slr bytes, the      *)
(* content key in custody, the rows of the file list.  The files are named    *)
(* after the archive, so all builds share them.                              *)
(***************************************************************************)
EXTENDS Naturals, FiniteSets

CONSTANTS
    Uploads,        \* upload sessions
    NoBuild,        \* no build
    MaxSessions,    \* bound: sessions under way at once
    MaxFaults       \* bound: refused, failed, cancelled and crashed attempts

ASSUME NoBuildAssumption == NoBuild \notin Uploads
ASSUME BoundsAssumption == MaxSessions \in Nat /\ MaxFaults \in Nat

VARIABLES
    technicalStatus, marketplaceStatus,     \* archives row
    fingerprint,        \* archives row: fingerprint, content key ref, storage key
    publicFiles,        \* archive_public_files: the builds that listed files
    slr, pending,       \* <archive>.slr and <archive>.slr.pending
    custody,            \* custody/<archive>.ack.enc
    step,               \* where each session is
    filesSeen,          \* what a cancel counted
    publishing,         \* a publish request found the archive ready
    faults              \* attempts that did not get through so far

rowVars == <<technicalStatus, marketplaceStatus, fingerprint, publicFiles>>
fileVars == <<slr, pending, custody>>
requestVars == <<filesSeen, publishing>>
uploadVars == <<rowVars, fileVars, step, requestVars, faults>>

Steps == {"none", "pending", "uploaded",                            \* upload rows
          "claimed", "building", "created", "linked", "verified",   \* complete
          "sealed", "emptied", "listed", "written",
          "cancelling", "counted",                                  \* cancel
          "done"}

\* A request to complete has claimed the archive and still runs.
Completing == {"claimed", "building", "created", "linked", "verified",
               "sealed", "emptied", "listed", "written"}

\* The client waits for these requests.
InService == Steps \ {"none", "pending", "uploaded", "done"}

Over(u) == step[u] \in {"none", "done"}

Build == Uploads \cup {NoBuild}

UploadTypeOK ==
    /\ technicalStatus \in {"draft", "uploading", "processing", "ready", "failed"}
    /\ marketplaceStatus \in {"draft", "published", "unpublished", "blocked"}
    /\ fingerprint \in Build
    /\ publicFiles \in SUBSET Uploads
    /\ slr \in Build /\ pending \in Build /\ custody \in Build
    /\ step \in [Uploads -> Steps]
    /\ filesSeen \in [Uploads -> BOOLEAN]
    /\ publishing \in BOOLEAN
    /\ faults \in Nat

UploadInit ==
    /\ technicalStatus = "draft"
    /\ marketplaceStatus = "draft"
    /\ fingerprint = NoBuild
    /\ publicFiles = {}
    /\ slr = NoBuild /\ pending = NoBuild /\ custody = NoBuild
    /\ step = [u \in Uploads |-> "none"]
    /\ filesSeen = [u \in Uploads |-> FALSE]
    /\ publishing = FALSE
    /\ faults = 0

\* Variant: judged by the statuses.
isFinalizedByStatus == technicalStatus = "ready" \/ marketplaceStatus # "draft"

isArchiveFinalized ==
    technicalStatus = "ready" \/ marketplaceStatus # "draft" \/ fingerprint # NoBuild

\* Bound: so many attempts do not get through.
Fault == faults < MaxFaults /\ faults' = faults + 1

Go(u, s) == step' = [step EXCEPT ![u] = s]

\* The session goes from one step to the next.
Move(u, from, to) == step[u] = from /\ Go(u, to)

(***************************************************************************)
(* init, data and the claim of complete                                    *)
(***************************************************************************)

InitUpload(u) ==
    /\ Move(u, "none", "pending")
    /\ Cardinality({v \in Uploads : ~Over(v)}) < MaxSessions
    /\ ~isArchiveFinalized
    /\ technicalStatus' = "uploading"
    /\ UNCHANGED <<marketplaceStatus, fingerprint, publicFiles, fileVars, requestVars, faults>>

SetUploadedFile(u) ==
    /\ Move(u, "pending", IF isArchiveFinalized THEN "done" ELSE "uploaded")
    /\ UNCHANGED <<rowVars, fileVars, requestVars, faults>>

\* complete claims the archive, or is refused.
Claim(u) ==
    /\ IF technicalStatus = "uploading" /\ ~isArchiveFinalized
         THEN Move(u, "uploaded", "claimed") /\ technicalStatus' = "processing"
         ELSE Move(u, "uploaded", "done") /\ UNCHANGED technicalStatus
    /\ UNCHANGED <<marketplaceStatus, fingerprint, publicFiles, fileVars, requestVars, faults>>

\* The ZIP is not acceptable.
InspectRefuses(u) ==
    /\ Move(u, "claimed", "done")
    /\ technicalStatus' = "failed"
    /\ Fault
    /\ UNCHANGED <<marketplaceStatus, fingerprint, publicFiles, fileVars, requestVars>>

InspectAccepts(u) ==
    /\ Move(u, "claimed", "building")
    /\ UNCHANGED <<rowVars, fileVars, requestVars, faults>>

(***************************************************************************)
(* ArchiveBuilderAdapter.build and its child, `solarch create`             *)
(***************************************************************************)

\* The child creates the pending file; it refuses to replace files.
CreatePending(u) ==
    /\ slr = NoBuild /\ pending = NoBuild
    /\ Move(u, "building", "created")
    /\ pending' = u
    /\ UNCHANGED <<rowVars, slr, custody, requestVars, faults>>

\* With its own pending file signed, the child links it to the final name.
LinkOutput(u) ==
    /\ pending = u /\ slr = NoBuild
    /\ Move(u, "created", "linked")
    /\ slr' = u
    /\ pending' = NoBuild
    /\ UNCHANGED <<rowVars, custody, requestVars, faults>>

\* The parent verifies the final file and compares its digest.
VerifyOutput(u) ==
    /\ slr = u
    /\ Move(u, "linked", "verified")
    /\ UNCHANGED <<rowVars, fileVars, requestVars, faults>>

\* The files of another build are in the way.
BuildBlocked(u) ==
    \/ step[u] = "building" /\ ~(slr = NoBuild /\ pending = NoBuild)
    \/ step[u] = "created" /\ ~(slr = NoBuild /\ pending = u)
    \/ step[u] = "linked" /\ slr # u

\* Variant: a failed build leaves the final name alone.
BuildFailsKeepsOutput(u) ==
    /\ step[u] \in {"building", "created", "linked"}
    /\ Go(u, "done")
    /\ pending' = IF step[u] = "linked" THEN pending ELSE NoBuild
    /\ IF BuildBlocked(u) THEN UNCHANGED faults ELSE Fault
    /\ UNCHANGED <<rowVars, slr, custody, requestVars>>

\* A build fails, of itself or because the files of another are in its way: the
\* close handler removes the pending file, when the child failed, and build()
\* removes the final one, whoever made them.
BuildFails(u) ==
    /\ step[u] \in {"building", "created", "linked"}
    /\ Go(u, "done")
    /\ pending' = IF step[u] = "linked" THEN pending ELSE NoBuild
    /\ slr' = NoBuild
    /\ IF BuildBlocked(u) THEN UNCHANGED faults ELSE Fault
    /\ UNCHANGED <<rowVars, custody, requestVars>>

(***************************************************************************)
(* The rest of complete                                                    *)
(***************************************************************************)
Seal(u) ==
    /\ Move(u, "verified", "sealed")
    /\ custody' = u
    /\ UNCHANGED <<rowVars, slr, pending, requestVars, faults>>

\* Variant: the list of the last attempt is kept.
DeleteFilesSkipped(u) ==
    /\ Move(u, "sealed", "emptied")
    /\ UNCHANGED <<rowVars, fileVars, requestVars, faults>>

DeleteFiles(u) ==
    /\ Move(u, "sealed", "emptied")
    /\ publicFiles' = {}
    /\ UNCHANGED <<technicalStatus, marketplaceStatus, fingerprint, fileVars, requestVars,
                   faults>>

CreateFiles(u) ==
    /\ Move(u, "emptied", "listed")
    /\ publicFiles' = publicFiles \cup {u}
    /\ UNCHANGED <<technicalStatus, marketplaceStatus, fingerprint, fileVars, requestVars,
                   faults>>

\* The archive row is written once; the trigger refuses a second build.
WriteRow(u) ==
    /\ IF fingerprint = NoBuild
         THEN /\ Move(u, "listed", "written")
              /\ technicalStatus' = "ready"
              /\ fingerprint' = u
         ELSE /\ Move(u, "listed", "done")
              /\ UNCHANGED <<technicalStatus, fingerprint>>
    /\ UNCHANGED <<marketplaceStatus, publicFiles, fileVars, requestVars, faults>>

\* The upload row becomes completed.
FinishUpload(u) ==
    /\ Move(u, "written", "done")
    /\ UNCHANGED <<rowVars, fileVars, requestVars, faults>>

(***************************************************************************)
(* cancel, of a session whose data did not get through                     *)
(***************************************************************************)

CancelRead(u) ==
    /\ step[u] \in {"pending", "uploaded"}
    /\ Go(u, IF isArchiveFinalized THEN "done" ELSE "cancelling")
    /\ Fault
    /\ UNCHANGED <<rowVars, fileVars, requestVars>>

CancelCount(u) ==
    /\ Move(u, "cancelling", "counted")
    /\ filesSeen' = [filesSeen EXCEPT ![u] = publicFiles # {}]
    /\ UNCHANGED <<rowVars, fileVars, publishing, faults>>

CancelWrite(u) ==
    /\ Move(u, "counted", "done")
    /\ technicalStatus' = IF filesSeen[u] THEN "ready" ELSE "draft"
    /\ filesSeen' = [filesSeen EXCEPT ![u] = FALSE]
    /\ UNCHANGED <<marketplaceStatus, fingerprint, publicFiles, fileVars, publishing, faults>>

(***************************************************************************)
(* Publication (modules/archives)                                          *)
(***************************************************************************)
PublishRead ==
    /\ ~publishing
    /\ technicalStatus = "ready"
    /\ publishing' = TRUE
    /\ UNCHANGED <<rowVars, fileVars, step, filesSeen, faults>>

\* After the creator's token account was looked up or created on the chain.
PublishWrite ==
    /\ publishing
    /\ publishing' = FALSE
    /\ marketplaceStatus' = "published"
    /\ UNCHANGED <<technicalStatus, fingerprint, publicFiles, fileVars, step, filesSeen, faults>>

PublishFails ==
    /\ publishing
    /\ publishing' = FALSE
    /\ UNCHANGED <<rowVars, fileVars, step, filesSeen, faults>>

\* unpublish and block ask for no status.
Unlist(status) ==
    /\ marketplaceStatus' = status
    /\ UNCHANGED <<technicalStatus, fingerprint, publicFiles, fileVars, step, requestVars,
                   faults>>

(***************************************************************************)
(* Faults                                                                  *)
(***************************************************************************)

\* A request fails on the database or the disk and leaves everything as it is.
RequestFails(u) ==
    /\ step[u] \in {"claimed", "verified", "sealed", "emptied", "listed", "written",
                    "cancelling", "counted"}
    /\ Go(u, "done")
    /\ filesSeen' = [filesSeen EXCEPT ![u] = FALSE]
    /\ Fault
    /\ UNCHANGED <<rowVars, fileVars, publishing>>

\* The API restarts: its requests are gone; a child that lost its pipe removes
\* its pending file, unless it was killed as well or already has the signature.
Crash ==
    /\ \E u \in Uploads : step[u] \in InService
    /\ step' = [u \in Uploads |-> IF step[u] \in InService THEN "done" ELSE step[u]]
    /\ \/ pending' \in {pending, NoBuild} /\ UNCHANGED slr
       \/ /\ slr = NoBuild /\ pending # NoBuild /\ step[pending] = "created"
          /\ slr' = pending /\ pending' = NoBuild
    /\ filesSeen' = [u \in Uploads |-> FALSE]
    /\ publishing' = FALSE
    /\ Fault
    /\ UNCHANGED <<rowVars, custody>>

\* Bound: a session that is over and left no trace stands for a new one.
Reuse(u) ==
    /\ u \notin {fingerprint, slr, pending, custody} \cup publicFiles
    /\ Move(u, "done", "none")
    /\ UNCHANGED <<rowVars, fileVars, requestVars, faults>>

\* A request goes on as far as nothing fails.
Serve(u) ==
    \/ InspectAccepts(u)
    \/ CreatePending(u) \/ LinkOutput(u) \/ VerifyOutput(u)
    \/ BuildBlocked(u) /\ BuildFails(u)
    \/ Seal(u) \/ DeleteFiles(u) \/ CreateFiles(u) \/ WriteRow(u) \/ FinishUpload(u)
    \/ CancelCount(u) \/ CancelWrite(u)

\* The client sends its next request.
Client(u) == InitUpload(u) \/ SetUploadedFile(u) \/ Claim(u) \/ Reuse(u)

\* The session does not get through.
Interruption(u) ==
    InspectRefuses(u) \/ BuildFails(u) \/ RequestFails(u) \/ CancelRead(u)

UploadNext ==
    \/ \E u \in Uploads : Client(u) \/ Serve(u) \/ Interruption(u)
    \/ PublishRead \/ PublishWrite \/ PublishFails
    \/ Unlist("unpublished") \/ Unlist("blocked")
    \/ Crash

UploadSpec == UploadInit /\ [][UploadNext]_uploadVars

\* Requests end, and the creator tries again after one that failed.
RetriedSpec ==
    UploadSpec /\ \A u \in Uploads : WF_uploadVars(Serve(u)) /\ WF_uploadVars(Client(u))

(***************************************************************************)
(* Properties                                                              *)
(***************************************************************************)

OneSessionAtATime == \A u, v \in Uploads : Over(u) \/ Over(v) \/ u = v

OneBuildAtATime ==
    \A u, v \in Uploads : step[u] \in Completing /\ step[v] \in Completing => u = v

\* The .slr, the key in custody and the file list of a finalized archive are those
\* of the build in its row.
Whole ==
    \A u \in Uploads :
        fingerprint = u => slr = u /\ custody = u /\ publicFiles = {u}

\* A finalized archive is whole (docs/INTEGRATION.md, section 5.1), whatever failed,
\* crashed, was cancelled late or begun anew before and after, as long as no two
\* builds run at once.
FinalizedIsWhole == []OneBuildAtATime => []Whole

\* The build a row was finalized with is never replaced, whatever requests
\* still run ("Finalized archive bytes and ACK custody are immutable").
FingerprintIsFinal ==
    [][fingerprint # NoBuild => fingerprint' = fingerprint]_uploadVars

\* A finalized archive is not opened for another upload.  A stale cancel may still
\* take its status back; what the archive has become is then told by its row, so
\* that no upload and no build begins in it.
FinalizedIsClosed ==
    fingerprint # NoBuild => technicalStatus \notin {"uploading", "processing"}

CancelKeepsStatus ==
    \A u \in Uploads :
        CancelWrite(u) /\ fingerprint # NoBuild => technicalStatus' = technicalStatus

\* "Cancelling a stale upload must never mutate a finalized archive"
\* (the comment in cancel, uploads.service.ts).
CancelKeepsFinalized ==
    [][CancelKeepsStatus]_uploadVars

\* "Do not mark archive ready/publish until encrypted custody and verified
\* finalized bytes are durable and linked" (docs/INTEGRATION.md).
ReadyIsFinalized ==
    technicalStatus = "ready" => fingerprint # NoBuild

\* What failed, cancelled and crashed attempts left behind (files in the way,
\* file lists, any status) never blocks a draft for good: trying again, one session
\* after the other, ends with an archive that the code takes for finalized.
RetrySucceeds == []OneSessionAtATime => <>isArchiveFinalized

(***************************************************************************)
(* The inductive invariant, of archives in which one build runs at a time   *)
(***************************************************************************)

\* A build runs only in an archive that has none yet.
BuildsAreFirst ==
    \A u \in Uploads :
        step[u] \in Completing \ {"written"} => fingerprint = NoBuild

\* What a request to complete has made so far is there when it goes on.
MadeSoFar ==
    \A u \in Uploads :
        /\ step[u] \in {"linked", "verified", "sealed", "emptied", "listed"} => slr = u
        /\ step[u] \in {"sealed", "emptied", "listed"} => custody = u
        /\ step[u] = "emptied" => publicFiles = {}
        /\ step[u] = "listed" => publicFiles = {u}

UploadIInv == UploadTypeOK /\ BuildsAreFirst /\ MadeSoFar /\ Whole
=============================================================================
