----------------------------- MODULE ArchivePage -----------------------------
(***************************************************************************)
(* The page of one archive in the creator's dashboard (apps/web): the upload *)
(* hook use-archive-upload.ts with its queue, the transport api/uploads.ts,  *)
(* the queries of the archive and of its files, and the publish panel.       *)
(*                                                                         *)
(* Every visit of the page is an instance of the hook.  Leaving the page does *)
(* not stop a queue that runs; only a reload does.  The API is reduced to     *)
(* what the page sees of it; the module Uploads has it in full.  A rendering *)
(* follows a change of state at once.                                       *)
(***************************************************************************)
EXTENDS Naturals, FiniteSetsExt, Queries, Packing

CONSTANTS
    Selection,          \* the selections of files the creator makes, one after another
    MaxVisits,          \* bound: so many visits of the page
    MaxMoves,           \* bound: retries, cancels and publications
    MaxSetbacks         \* bound: lost requests and answers; files, ZIPs and builds
                        \* that are no good

Selections == DOMAIN Selection
Visits == 1 .. MaxVisits
Nothing == 0

ASSUME SelectionAssumption == Selections \subseteq Nat \ {Nothing}

\* The files of a selection that are sent, and the entries of their ZIP.
Accepted == [c \in Selections |-> splitUploadFiles(Selection[c])]
Entries == [c \in Selections |-> packForUpload(Accepted[c])]

ASSUME FilesAssumption == \A c \in Selections : Selection[c] \in Seq(Files)

VARIABLES
    tech, market,       \* archives row: technical and marketplace status
    content,            \* the selection the archive was built of, or Nothing
    listed,             \* are there rows in archive_public_files
    orphans,            \* builds whose request is no longer awaited
    adrift,             \* cancels and publications whose request is not
    open, visit,        \* is the page on the screen; the visit
    item,               \* itemsRef, abortsRef: the selections and their uploads
    refreshing,         \* what the queue of a visit awaits after an upload
    detail, files,      \* the queries of the archive and of its files
    listing,            \* the publish or unpublish request under way
    moves, losses, mishaps

server == <<tech, market, content, listed, orphans, adrift>>
client == <<open, visit, item, refreshing, detail, files, listing>>
bounds == <<moves, losses, mishaps>>
screen == <<open, visit, listing>>
queries == <<detail, files>>
pageVars == <<server, client, bounds>>

Statuses == {"none", "queued", "uploading", "done", "failed", "canceled",
             "listed", "dropped",           \* done and canceled, off the queue
             "gone", "rejected"}            \* with a reload, at once

\* Where an upload is: the files are packed; init, data, complete are called;
\* the upload is undone after an abort or after an error.
Stages == {"idle", "pack", "init", "data", "complete", "undoAborted", "undoFailed"}

\* How far the API is with a cancel; a publication it has found fit.
CancelStages == {"cancelling", "toDraft", "toReady"}
Drifting == CancelStages \cup {"found"}

Replies == {"none", "building", "ok", "refused"} \cup CancelStages

NoItem == [status |-> "none", at |-> "idle", aborted |-> FALSE, answer |-> "none",
           owner |-> 0]

UploadItems ==
    [status : Statuses, at : Stages, aborted : BOOLEAN, answer : Replies, owner : Nat]

Details == [tech : {"draft", "uploading", "processing", "ready", "failed"},
            market : {"draft", "published", "unpublished", "blocked"},
            content : Selections \cup {Nothing}]

ASSUME NoDataAssumption == NoData \notin Details

PageTypeOK ==
    /\ [tech |-> tech, market |-> market, content |-> content] \in Details
    /\ listed \in BOOLEAN
    /\ orphans \in [Selections -> Nat]
    /\ open \in BOOLEAN /\ visit \in Nat
    /\ item \in [Selections -> UploadItems]
    /\ detail \in QueryOf(Details \cup {NoData}, Nat)
    /\ detail.fetching = "served" => detail.answer # NoData
    /\ listing \in [asks : {"nothing", "published", "unpublished"},
                    answer : {"none", "found", "ok", "refused"},
                    reply : Details \cup {NoData}]
    /\ losses \in Nat

NoListing == [asks |-> "nothing", answer |-> "none", reply |-> NoData]

PageInit ==
    /\ tech = "draft" /\ market = "draft"
    /\ content = Nothing /\ listed = FALSE
    /\ orphans = [c \in Selections |-> 0] /\ adrift = [stage \in Drifting |-> 0]
    /\ open = FALSE /\ visit = 0
    /\ item = [c \in Selections |-> NoItem]
    /\ refreshing = [v \in Visits |-> "no"]
    /\ detail = EmptyQuery /\ files = EmptyQuery
    /\ listing = NoListing
    /\ moves = 0 /\ losses = 0 /\ mishaps = 0

MovesOn == moves < MaxMoves /\ moves' = moves + 1
Loss == losses + mishaps < MaxSetbacks /\ losses' = losses + 1
Mishap == losses + mishaps < MaxSetbacks /\ mishaps' = mishaps + 1

Snapshot == [tech |-> tech, market |-> market, content |-> content]
isFinal == tech = "ready" \/ market # "draft" \/ content # Nothing

(***************************************************************************)
(* What the page shows                                                     *)
(***************************************************************************)

\* While it has no data, and after an error, the page shows nothing to act on.
OnScreen == open /\ detail.data # NoData /\ ~detail.error

\* The rows of a visit.
RowsOf(v) == {c \in Selections : item[c].owner = v}

isBusy == \E c \in RowsOf(visit) : item[c].status \in {"queued", "uploading"}

\* The upload zone: not while the archive is built, and not while uploading.
ZoneOpen == OnScreen /\ detail.data.tech # "processing" /\ ~isBusy

FilesOnScreen == open /\ detail.data # NoData

(***************************************************************************)
(* The queue                                                               *)
(***************************************************************************)
Running(v) ==
    refreshing[v] # "no" \/ \E c \in RowsOf(v) : item[c].status = "uploading"

Marked(c, status) == [item EXCEPT ![c].status = status]

GoesTo(c, at) == [item EXCEPT ![c].at = at, ![c].answer = "none"]

\* What stays in the queue once it has run empty: what failed.
Swept(items, v) ==
    [c \in Selections |->
        IF items[c].owner # v THEN items[c]
        ELSE CASE items[c].status = "done" -> [items[c] EXCEPT !.status = "listed"]
               [] items[c].status = "canceled" -> [items[c] EXCEPT !.status = "dropped"]
               [] OTHER -> items[c]]

\* pump takes the first choice that is queued, or ends.
Pumped(items, v) ==
    LET queue == {c \in Selections : items[c].owner = v /\ items[c].status = "queued"}
    IN IF queue = {}
         THEN Swept(items, v)
         ELSE [items EXCEPT ![Min(queue)] =
                  [@ EXCEPT !.status = "uploading", !.at = "pack", !.aborted = FALSE]]

\* A selection is put into the queue of the visit, and the queue started.
Enqueue(c) ==
    LET queued == [item EXCEPT ![c].status = "queued", ![c].owner = visit]
    IN item' = IF Running(visit) THEN queued ELSE Pumped(queued, visit)

\* A selection none of whose files will do makes no row.
Add ==
    /\ ZoneOpen
    /\ \E c \in Selections :
         /\ item[c].status = "none"
         /\ \A d \in Selections : d < c => item[d].status # "none"
         /\ IF Accepted[c] = <<>>
              THEN item' = Marked(c, "rejected")
              ELSE Enqueue(c)
    /\ UNCHANGED <<server, screen, refreshing, queries, bounds>>

Retry(c) ==
    /\ OnScreen /\ c \in RowsOf(visit) /\ item[c].status = "failed"
    /\ Enqueue(c)
    /\ MovesOn
    /\ UNCHANGED <<server, screen, refreshing, queries, losses, mishaps>>

\* Variant: the row of a running upload is marked, the upload goes on.
CancelMarked(c) ==
    /\ OnScreen /\ c \in RowsOf(visit) /\ item[c].status \in {"queued", "uploading"}
    /\ item' = Marked(c, "canceled")
    /\ MovesOn
    /\ UNCHANGED <<server, screen, refreshing, queries, losses, mishaps>>

\* A queued selection is dropped; a running upload is aborted, which breaks off
\* the transfer of its data and nothing else.
Cancel(c) ==
    /\ OnScreen /\ c \in RowsOf(visit) /\ item[c].status \in {"queued", "uploading"}
    /\ item' = CASE item[c].status = "queued" -> Marked(c, "canceled")
                 [] item[c].at = "data" -> GoesTo(c, "undoAborted")
                 [] OTHER -> [item EXCEPT ![c].aborted = TRUE]
    /\ MovesOn
    /\ UNCHANGED <<server, screen, refreshing, queries, losses, mishaps>>

(***************************************************************************)
(* One upload: packForUpload and uploadArchiveContent, as pump awaits them   *)
(***************************************************************************)

Ended(c, status) ==
    [item EXCEPT ![c].status = status, ![c].at = "idle", ![c].aborted = FALSE,
                 ![c].answer = "none"]

\* Variant: the archive is not read again.
EndsUnread(c, status) ==
    /\ item' = Ended(c, status)
    /\ refreshing' = [refreshing EXCEPT ![item[c].owner] = "files"]
    /\ UNCHANGED <<tech, market, content, listed, screen, queries, moves>>

\* An upload is over: its row says so and the archive is read again.
Ends(c, status) ==
    /\ item' = Ended(c, status)
    /\ refreshing' = [refreshing EXCEPT ![item[c].owner] = "detail"]
    /\ detail' = Invalidate(detail, open, {item[c].owner})
    /\ UNCHANGED <<tech, market, content, listed, screen, files, moves>>

IsOver(c, status) == Ends(c, status) /\ UNCHANGED <<orphans, adrift>>

\* It goes on to its next call.
Step(c, at) ==
    /\ item' = GoesTo(c, at)
    /\ UNCHANGED <<server, screen, refreshing, queries, moves>>

\* The builds among cs go on with nobody to await them.
WithOrphan(cs) ==
    [c \in Selections |->
        IF c \in cs /\ item[c].answer = "building" THEN orphans[c] + 1 ELSE orphans[c]]

\* And so do the cancels among cs, and a publication that is adrift.
WithAdrift(cs, found) ==
    [stage \in Drifting |-> adrift[stage] +
        IF stage = "found" THEN (IF found THEN 1 ELSE 0)
        ELSE Cardinality({c \in cs : item[c].answer = stage})]

Answered(c, at, answer) == item[c].at = at /\ item[c].answer = answer

Undoing(c, answer) == item[c].at \in {"undoAborted", "undoFailed"} /\ item[c].answer = answer

Packed(c) ==
    /\ item[c].at = "pack"
    /\ IF item[c].aborted THEN IsOver(c, "canceled") ELSE Step(c, "init")
    /\ UNCHANGED <<losses, mishaps>>

\* A file cannot be read any more.
PackFails(c) ==
    /\ item[c].at = "pack"
    /\ IsOver(c, "failed")
    /\ Mishap /\ UNCHANGED losses

\* Variant: an abort during init ends the upload.
InitAbortEnds(c) ==
    /\ \/ /\ Answered(c, "init", "ok")
          /\ IF item[c].aborted THEN IsOver(c, "canceled") ELSE Step(c, "data")
       \/ Answered(c, "init", "refused") /\ IsOver(c, "failed")
    /\ UNCHANGED <<losses, mishaps>>

\* An abort during init is seen before any data is sent.
InitAnswered(c) ==
    /\ \/ /\ Answered(c, "init", "ok")
          /\ Step(c, IF item[c].aborted THEN "undoAborted" ELSE "data")
       \/ Answered(c, "init", "refused") /\ IsOver(c, "failed")
    /\ UNCHANGED <<losses, mishaps>>

DataAnswered(c) ==
    /\ \/ Answered(c, "data", "ok") /\ Step(c, "complete")
       \/ Answered(c, "data", "refused") /\ Step(c, "undoFailed")
    /\ UNCHANGED <<losses, mishaps>>

\* Variant: the upload is done with its last call, whatever the answer.
CompleteUnchecked(c) ==
    /\ item[c].at = "complete" /\ item[c].answer \in {"ok", "refused"}
    /\ IsOver(c, "done")
    /\ UNCHANGED <<losses, mishaps>>

CompleteAnswered(c) ==
    /\ \/ Answered(c, "complete", "ok") /\ IsOver(c, "done")
       \/ Answered(c, "complete", "refused") /\ IsOver(c, "failed")
    /\ UNCHANGED <<losses, mishaps>>

\* Whatever cancel answers, the upload ends with the error that led to it.
Undone(c) == Ends(c, IF item[c].at = "undoAborted" THEN "canceled" ELSE "failed")

UndoAnswered(c) ==
    /\ Undoing(c, "ok") /\ Undone(c)
    /\ UNCHANGED <<orphans, adrift, losses, mishaps>>

\* A request or its answer is lost; a build and a cancel go on without it.
CallLost(c) ==
    /\ CASE item[c].at = "init" -> IsOver(c, "failed")
         [] item[c].at = "data" -> Step(c, "undoFailed")
         [] item[c].at \in {"undoAborted", "undoFailed"} ->
                Undone(c) /\ adrift' = WithAdrift({c}, FALSE) /\ UNCHANGED orphans
         [] item[c].at = "complete" ->
                Ends(c, "failed") /\ orphans' = WithOrphan({c}) /\ UNCHANGED adrift
         [] OTHER -> FALSE
    /\ Loss /\ UNCHANGED mishaps

\* refresh: the archive, then its files, then the queue goes on.
RefreshGoesOn(v) ==
    /\ \/ /\ refreshing[v] = "detail" /\ v \notin detail.waiters
          /\ refreshing' = [refreshing EXCEPT ![v] = "files"]
          /\ files' = Invalidate(files, FilesOnScreen, {v})
          /\ UNCHANGED item
       \/ /\ refreshing[v] = "files" /\ v \notin files.waiters
          /\ refreshing' = [refreshing EXCEPT ![v] = "no"]
          /\ item' = Pumped(item, v)
          /\ UNCHANGED files
    /\ UNCHANGED <<server, screen, detail, bounds>>

(***************************************************************************)
(* The API, as far as the page goes                                        *)
(***************************************************************************)
Reply(c, answer) == item' = [item EXCEPT ![c].answer = answer]

\* What a call of an upload leaves alone.
Aside == <<market, content, listed, orphans, adrift, screen, refreshing, queries>>

ServeInit(c) ==
    /\ Answered(c, "init", "none")
    /\ IF isFinal
         THEN Reply(c, "refused") /\ UNCHANGED tech
         ELSE Reply(c, "ok") /\ tech' = "uploading"
    /\ UNCHANGED <<Aside, bounds>>

ServeData(c) ==
    /\ Answered(c, "data", "none")
    /\ Reply(c, IF isFinal THEN "refused" ELSE "ok")
    /\ UNCHANGED <<tech, Aside, bounds>>

\* complete claims an archive that is being uploaded.
ServeComplete(c) ==
    /\ Answered(c, "complete", "none")
    /\ IF tech = "uploading" /\ ~isFinal
         THEN Reply(c, "building") /\ tech' = "processing"
         ELSE Reply(c, "refused") /\ UNCHANGED tech
    /\ UNCHANGED <<Aside, bounds>>

\* cancel reads the archive; one that is finalized it leaves alone.
ReadForCancel(c) ==
    /\ Undoing(c, "none")
    /\ Reply(c, IF isFinal THEN "ok" ELSE "cancelling")
    /\ UNCHANGED <<tech, Aside, bounds>>

\* A cancel goes on, for the request that awaits it or for none.
CancelGoesOn(c, stage, next) ==
    /\ \/ Undoing(c, stage) /\ Reply(c, next) /\ UNCHANGED adrift
       \/ /\ adrift[stage] > 0
          /\ adrift' = [s \in Drifting |->
                CASE s = stage -> adrift[s] - 1 [] s = next -> adrift[s] + 1
                  [] OTHER -> adrift[s]]
          /\ UNCHANGED item
    /\ UNCHANGED <<market, content, listed, orphans, screen, refreshing, queries, bounds>>

\* It counts the files that are listed.
CountFiles(c) ==
    /\ CancelGoesOn(c, "cancelling", IF listed THEN "toReady" ELSE "toDraft")
    /\ UNCHANGED tech

\* And writes what follows from them, whatever has become of the archive.
WriteCanceled(c) ==
    \/ CancelGoesOn(c, "toDraft", "ok") /\ tech' = "draft"
    \/ CancelGoesOn(c, "toReady", "ok") /\ tech' = "ready"

\* A build of c is under way.
Building(c) == Answered(c, "complete", "building") \/ orphans[c] > 0

\* The build of c ends, for the request that awaits it or for none.
BuildEnds(c, answer) ==
    /\ \/ Answered(c, "complete", "building") /\ Reply(c, answer) /\ UNCHANGED orphans
       \/ /\ orphans[c] > 0
          /\ orphans' = [orphans EXCEPT ![c] = @ - 1]
          /\ UNCHANGED item
    /\ UNCHANGED <<market, adrift, screen, refreshing, queries, moves, losses>>

\* The ZIP is no good, which the archive says from now on.
RefuseZip(c) ==
    /\ BuildEnds(c, "refused") /\ tech' = "failed"
    /\ Mishap
    /\ UNCHANGED <<content, listed>>

\* A build takes the files off the list, or puts its own on it.
ListFiles(c) ==
    /\ Building(c) /\ listed' = ~listed
    /\ UNCHANGED <<tech, market, content, orphans, adrift, client, bounds>>

\* The files are listed and the archive row is written, once.
BuildSucceeds(c) ==
    IF content = Nothing
      THEN /\ BuildEnds(c, "ok")
           /\ tech' = "ready" /\ content' = c /\ listed' = TRUE
           /\ UNCHANGED mishaps
      ELSE BuildEnds(c, "refused") /\ UNCHANGED <<tech, content, listed, mishaps>>

\* A build that fails leaves the archive as it is, processing.
BuildBreaks(c) ==
    /\ BuildEnds(c, "refused")
    /\ Mishap
    /\ UNCHANGED <<tech, content, listed>>

(***************************************************************************)
(* The queries of the page                                                 *)
(***************************************************************************)
FetchDetail ==
    /\ \/ detail.fetching = "sent" /\ detail' = Served(detail, Snapshot)
       \/ detail.fetching = "served" /\ detail' = Settled(detail)
    /\ UNCHANGED <<server, screen, item, refreshing, files, bounds>>

\* Nobody acts on the list of files: that it was read is all that is kept of it.
FetchFiles ==
    /\ files.fetching = "sent" /\ files' = Settled(Served(files, "read"))
    /\ UNCHANGED <<server, screen, item, refreshing, detail, bounds>>

\* Both tries are lost.
FetchLost ==
    /\ \/ detail.fetching # "idle" /\ detail' = Failed(detail) /\ UNCHANGED files
       \/ files.fetching # "idle" /\ files' = Failed(files) /\ UNCHANGED detail
    /\ Loss
    /\ UNCHANGED <<server, screen, item, refreshing, moves, mishaps>>

\* Variant: not while it is processed.
PollUploading ==
    /\ open /\ detail.data # NoData /\ detail.fetching = "idle"
    /\ detail.data.tech = "uploading"
    /\ detail' = Fetch(detail)
    /\ UNCHANGED <<server, screen, item, refreshing, files, bounds>>

\* The archive is read every three seconds while it is on its way.
Poll ==
    /\ open /\ detail.data # NoData /\ detail.fetching = "idle"
    /\ detail.data.tech \in {"uploading", "processing"}
    /\ detail' = Fetch(detail)
    /\ UNCHANGED <<server, screen, item, refreshing, files, bounds>>

\* The button of the error page.
FetchAgain ==
    /\ open /\ detail.error
    /\ detail' = Refetch(detail)
    /\ MovesOn
    /\ UNCHANGED <<server, screen, item, refreshing, files, losses, mishaps>>

(***************************************************************************)
(* Visits of the page                                                      *)
(***************************************************************************)
Open ==
    /\ ~open /\ visit < MaxVisits
    /\ open' = TRUE /\ visit' = visit + 1
    /\ detail' \in Opened(detail) /\ files' \in Opened(files)
    /\ UNCHANGED <<server, item, refreshing, listing, bounds>>

\* The queue and a publish request under way go on.
Leave ==
    /\ open
    /\ open' = FALSE
    /\ detail' = Abandon(detail) /\ files' = Abandon(files)
    /\ UNCHANGED <<server, visit, item, refreshing, listing, bounds>>

\* Everything in the tab is gone; the API goes on with its builds.
ReloadPage ==
    /\ visit < MaxVisits
    /\ open' = FALSE
    /\ item' = [c \in Selections |->
                   IF item[c].status \in {"none", "rejected"} THEN item[c]
                   ELSE [NoItem EXCEPT !.status = "gone"]]
    /\ orphans' = WithOrphan(Selections)
    /\ adrift' = WithAdrift(Selections, listing.answer = "found")
    /\ refreshing' = [v \in Visits |-> "no"]
    /\ detail' = EmptyQuery /\ files' = EmptyQuery
    /\ listing' = NoListing
    /\ UNCHANGED <<tech, market, content, listed, visit, bounds>>

(***************************************************************************)
(* The publish panel                                                       *)
(***************************************************************************)
PressListing(status) ==
    /\ OnScreen /\ listing = NoListing
    /\ IF status = "published"
         THEN detail.data.market \in {"draft", "unpublished"} /\ detail.data.tech = "ready"
         ELSE detail.data.market = "published"
    /\ listing' = [NoListing EXCEPT !.asks = status]
    /\ MovesOn
    /\ UNCHANGED <<server, open, visit, item, refreshing, queries, losses, mishaps>>

\* publish asks for a ready archive, and then sees to the account of the creator.
FindListing ==
    /\ listing.asks = "published" /\ listing.answer = "none"
    /\ listing' = [listing EXCEPT !.answer = IF tech = "ready" THEN "found" ELSE "refused"]
    /\ UNCHANGED <<server, open, visit, item, refreshing, queries, bounds>>

\* There is no such account, and none can be made.
RefuseListing ==
    /\ listing.answer = "found"
    /\ listing' = [listing EXCEPT !.answer = "refused"]
    /\ Mishap
    /\ UNCHANGED <<server, open, visit, item, refreshing, queries, moves, losses>>

\* The status is written whatever the archive has become; both answer with it.
WriteListing ==
    /\ UNCHANGED <<tech, content, listed, orphans>>
    /\ \/ /\ <<listing.asks, listing.answer>> \in
                {<<"published", "found">>, <<"unpublished", "none">>}
          /\ market' = listing.asks
          /\ listing' = [listing EXCEPT !.answer = "ok", !.reply = Snapshot']
          /\ UNCHANGED adrift
       \/ /\ adrift["found"] > 0
          /\ adrift' = [adrift EXCEPT !["found"] = @ - 1]
          /\ market' = "published"
          /\ UNCHANGED listing
    /\ UNCHANGED <<open, visit, item, refreshing, queries, bounds>>

\* The answer takes the place of the data of the query.
ListingAnswered ==
    /\ listing.answer # "none"
    /\ detail' = IF listing.answer = "ok" THEN SetData(detail, listing.reply) ELSE detail
    /\ listing' = NoListing
    /\ UNCHANGED <<server, open, visit, item, refreshing, files, bounds>>

ListingLost ==
    /\ listing.asks # "nothing"
    /\ listing' = NoListing
    /\ adrift' = WithAdrift({}, listing.answer = "found")
    /\ Loss
    /\ UNCHANGED <<tech, market, content, listed, orphans, open, visit, item, refreshing,
                   queries, moves, mishaps>>

(***************************************************************************)
(* Specification                                                           *)
(***************************************************************************)

\* What an upload awaits comes; the API ends what it has begun.  (The guards in front
\* are those of the actions.)
Progress(c) ==
    \/ /\ item[c].at # "idle"
       /\ \/ Packed(c) \/ InitAnswered(c) \/ DataAnswered(c) \/ CompleteAnswered(c)
          \/ UndoAnswered(c)
          \/ ServeInit(c) \/ ServeData(c) \/ ServeComplete(c) \/ ReadForCancel(c)
    \/ Building(c) /\ BuildSucceeds(c)
    \/ CountFiles(c) \/ WriteCanceled(c)

Setback(c) == PackFails(c) \/ CallLost(c) \/ RefuseZip(c) \/ BuildBreaks(c)

Author ==
    \/ Add \/ \E c \in Selections : Retry(c) \/ Cancel(c)
    \/ PressListing("published") \/ PressListing("unpublished")
    \/ FetchAgain \/ Open \/ Leave \/ ReloadPage

PageNext ==
    \/ Author
    \/ \E c \in Selections : Progress(c) \/ Setback(c) \/ ListFiles(c)
    \/ \E v \in Visits : RefreshGoesOn(v)
    \/ Poll \/ FetchDetail \/ FetchFiles \/ FetchLost
    \/ FindListing \/ RefuseListing \/ WriteListing \/ ListingAnswered \/ ListingLost

PageSpec == PageInit /\ [][PageNext]_pageVars

\* The author need not do anything; the network and the API answer.
PageLiveSpec ==
    /\ PageSpec
    /\ \A c \in Selections : WF_pageVars(Progress(c))
    /\ \A v \in Visits : WF_pageVars(RefreshGoesOn(v))
    /\ WF_pageVars(Poll) /\ WF_pageVars(FetchDetail) /\ WF_pageVars(FetchFiles)

(***************************************************************************)
(* Properties                                                              *)
(***************************************************************************)

\* The rows tell the truth, whatever other uploads, aborts and builds were under
\* way: the archive is the one built of the selection whose upload is done, and
\* never one the author canceled, unless the answer to an earlier try was lost.
RowsAreTrue ==
    \A c \in Selections :
        /\ item[c].status \in {"done", "listed"} => content = c
        /\ item[c].status \in {"canceled", "dropped"} /\ losses = 0 => content # c

\* An upload that was aborted or failed is not left hanging at the API.  (One that is
\* published after all, by a request that found it ready before, cannot be canceled.)
NothingLeftHanging ==
    /\ losses = 0 /\ market = "draft"
    /\ \A c \in Selections : item[c].at = "idle" /\ item[c].status # "gone"
    => tech # "uploading"

\* An archive as its publication answered before it was built: a late cancel has taken
\* it for ready.
PublishedUnbuilt(seen) == seen.market # "draft" /\ seen.content = Nothing

\* A row that was done leaves the queue only for what it made: the page shows the
\* archive as it was built, or still reads it ("after every upload the screen has to
\* read the archive again").
VanishedIsShown ==
    \A c \in RowsOf(visit) :
        item[c].status = "listed" /\ OnScreen =>
            \/ detail.data.content = c \/ detail.fetching # "idle"
            \/ PublishedUnbuilt(detail.data)

\* No file of a selection is lost on the way: the archive holds as many files as
\* were accepted, so none took the place of another.
NoFileIsOverwritten ==
    content # Nothing => Cardinality(Unpacked(Entries[content])) = Len(Accepted[content])

UnderWay(c) == item[c].at # "idle" \/ orphans[c] > 0

\* "While an upload is under way no other is begun", the comment that heads the
\* hook.  The page of a second visit knows nothing of the queue of the first.
OneUploadAtATime ==
    \A c, d \in Selections :
        item[c].at # "idle" =>
            /\ \A stage \in CancelStages : adrift[stage] = 0
            /\ orphans[c] = 0 /\ (UnderWay(d) => c = d)

\* Everything settles: uploads end, queued ones get their turn, and an open page
\* comes to show where the archive is, or an error, as long as uploads follow one
\* another.
PageSettles ==
    []OneUploadAtATime =>
        <>[](/\ \A c \in Selections : item[c].status \notin {"queued", "uploading"}
             /\ open => \/ detail.error
                        \/ detail.data # NoData /\ detail.data.tech = tech)

(***************************************************************************)
(* The inductive invariant of the proofs                                   *)
(***************************************************************************)

\* An upload that is anywhere is under way, and belongs to a visit there was.
Working ==
    \A c \in Selections :
        /\ IF item[c].at = "idle" THEN item[c].answer = "none"
                                  ELSE item[c].status = "uploading"
        /\ item[c].owner <= visit

IsBuilt(row) ==
    row.status \in {"done", "listed"} \/ (row.at = "complete" /\ row.answer = "ok")

\* What was done is what was built; and what was built was done, or is gone with a
\* reload, unless an answer was lost.
BuiltIsDone ==
    /\ \A c \in Selections : IsBuilt(item[c]) => content = c
    /\ losses = 0 => \A c \in Selections :
            /\ content = c => IsBuilt(item[c]) \/ item[c].status = "gone"
            /\ orphans[c] > 0 => item[c].status = "gone"

\* An archive that is built is not being uploaded; what a publication answers is listed.
BuiltForGood ==
    /\ content # Nothing => tech # "uploading"
    /\ listing.answer = "ok" => listing.reply # NoData /\ listing.reply.market # "draft"
    /\ listing.answer = "ok" => listing.reply.content \in {Nothing, content}

\* An upload that has begun at the API and will end there.
Holds(row) ==
    \/ row.at = "init" /\ row.answer = "ok"
    \/ row.at = "data"
    \/ row.at \in {"complete", "undoAborted", "undoFailed"}
       /\ row.answer \in {"none"} \cup CancelStages

BegunIsHeld ==
    losses = 0 /\ market = "draft" /\ tech = "uploading" =>
        \E c \in Selections : item[c].status = "gone" \/ Holds(item[c])

\* A page with rows has the archive; one with a row that is done shows it as it was
\* built, or an error, or reads it and will find it so.
ShownOrRead ==
    \A c \in RowsOf(visit) :
        open => /\ detail.data # NoData
                /\ item[c].status \in {"done", "listed"} =>
                     /\ detail.fetching = "served" => detail.answer.content = c
                     /\ \/ detail.data.content = c \/ PublishedUnbuilt(detail.data)
                        \/ detail.error \/ detail.fetching # "idle"

PageIInv ==
    PageTypeOK /\ Working /\ BuiltIsDone /\ BuiltForGood /\ BegunIsHeld /\ ShownOrRead
=============================================================================
