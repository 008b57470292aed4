------------------------------ MODULE Renderers -------------------------------
(* The protected viewers of the desktop interface (PdfViewer, ImageViewer,     *)
(* DocxViewer, XlsxViewer) and the one renderer the unlocked session keeps     *)
(* for them (RendererRegistry, and the commands of ArchiveService over it).    *)
(*                                                                             *)
(* Every run of a viewer's effect is a record of the sequence viewers: it asks *)
(* to begin an opening, to open the file, then reads what it shows; when the   *)
(* interface has replaced it (active = FALSE), its late answers make it give   *)
(* back what it was given.  Calls and answers cross the bridge of the desktop  *)
(* shell in any order.  The session can be locked and unlocked again between   *)
(* any two of them, and the files of all archives are called alike             *)
(* (file_000000, ...): the request number is all that tells them apart.        *)
EXTENDS Integers, Sequences

CONSTANTS
  Archives,      \* archives the session may be unlocked for
  Files,         \* the file ids, the same ones in every archive
  KindOf,        \* KindOf[a][f]: the renderer the MIME type of file f of a selects
  SheetRows,     \* rows of a sheet (its last used row)
  WindowRows,    \* WINDOW_ROWS: rows the interface asks for at a time
  MaxViewers,    \* bound: runs of a viewer's effect
  MaxSerial,     \* bound: unlocked sessions
  MaxTurns,      \* bound: pages or windows asked of one viewer
  NoArchive, Nothing

Kinds == {"pdf", "image", "docx", "xlsx"}

ASSUME RenderersAssumption ==
  /\ KindOf \in [Archives -> [Files -> Kinds]]
  /\ SheetRows \in Nat /\ WindowRows \in Nat \ {0}
  /\ MaxViewers \in Nat /\ MaxSerial \in Nat /\ MaxTurns \in Nat
  /\ NoArchive \notin Archives /\ Nothing \notin Kinds

VARIABLES
  session,       \* the unlocked session: its archive and serial, or locked
  registry,      \* RendererRegistry of that session
  viewers,       \* the runs of the viewers' effects, oldest first
  releases       \* renderer_cancel_open and renderer_close calls on their way

vars == <<session, registry, viewers, releases>>

(* A request number: the session's serial and the registry's own count. The    *)
(* handle of the renderer it becomes carries the same two numbers.             *)
RequestIdWithoutSerial(serial, n) == <<1, n>>   \* a mutant of RequestId
RequestId(serial, n) == <<serial, n>>
NoId == <<0, 0>>
Ids == {NoId} \cup (1..MaxSerial) \X (Nat \ {0})

Content == Archives \X Files
Offsets == 0..SheetRows

(* The rows read_xlsx_window answers with: as many as were asked for, as far   *)
(* as the sheet goes.                                                          *)
Rows(offset) == {row \in offset..(offset + WindowRows - 1) : row < SheetRows}

(* What is on the screen: the file, and the rows of it (one for the kinds that *)
(* are shown whole).                                                           *)
Whole == {0}
Shown == {Nothing} \cup (Content \X SUBSET Offsets)

NoPending == [id |-> NoId, file |-> Nothing, kind |-> Nothing]
NoCurrent == [id |-> NoId, file |-> Nothing, kind |-> Nothing, data |-> Nothing]
NewRegistry == [next |-> 0, pending |-> NoPending, current |-> NoCurrent]

Phases == {"begin", "begun", "open", "decode", "opened", "load", "loaded",
           "ready", "refused", "failed", "gone"}

Init ==
  /\ session = [archive |-> NoArchive, serial |-> 0, unlocked |-> FALSE]
  /\ registry = NewRegistry
  /\ viewers = <<>>
  /\ releases = {}

-------------------------------------------------------------------------------
(* The registry. *)

PendingIs(r, id, kind) == r.pending.id = id /\ r.pending.kind = kind
CurrentIs(r, id, kind) == r.current.id = id /\ r.current.kind = kind

Begun(r, file, kind) ==
  [next    |-> r.next + 1,
   pending |-> [id   |-> RequestId(session.serial, r.next + 1),
                file |-> file, kind |-> kind],
   current |-> NoCurrent]

(* What the renderer keeps once open: nothing for a PDF, which is read by      *)
(* ranges, and for a DOCX, whose blocks the answer carries; the re-encoded     *)
(* picture of an image and the workbook of a spreadsheet.                      *)
Kept(kind, bytes) == IF kind \in {"image", "xlsx"} THEN bytes ELSE Nothing

Completed(r, bytes) ==
  [r EXCEPT !.pending = NoPending,
            !.current = [id   |-> r.pending.id, file |-> r.pending.file,
                         kind |-> r.pending.kind,
                         data |-> Kept(r.pending.kind, bytes)]]

Cancelled(r, id) == IF r.pending.id = id THEN [r EXCEPT !.pending = NoPending] ELSE r
Closed(r, id) == IF r.current.id = id THEN [r EXCEPT !.current = NoCurrent] ELSE r

-------------------------------------------------------------------------------
(* The interface: one viewer at a time is mounted; selecting another file,     *)
(* retrying or closing the viewer runs the cleanup of the effect it replaces.  *)

Numbers == 1..Len(viewers)

Cleanup(v) ==
  (IF v.knows \in {"request", "handle"} THEN {<<"cancel", v.id>>} ELSE {})
  \cup (IF v.knows = "handle" THEN {<<"close", v.id>>} ELSE {})

CleanupOfActive == UNION {Cleanup(viewers[i]) : i \in {j \in Numbers : viewers[j].active}}

NewViewer(file, kind) ==
  [file |-> file, kind |-> kind, active |-> TRUE, phase |-> "begin", id |-> NoId,
   knows |-> "nothing", from |-> NoArchive, bytes |-> Nothing, shown |-> Nothing,
   offset |-> 0, turn |-> 0, asked |-> {}]

(* A promise chain that has had its last answer; only the id the backend gave  *)
(* it is of any consequence.                                                   *)
Over(v) == [NewViewer(v.file, v.kind) EXCEPT !.active = FALSE, !.phase = "gone", !.id = v.id]

Replaced(v) ==
  IF v.phase \in {"ready", "failed", "gone"} THEN Over(v)
  ELSE [v EXCEPT !.active = FALSE, !.shown = Nothing, !.offset = 0, !.turn = 0]

AllReplaced == [i \in Numbers |-> Replaced(viewers[i])]

Select(a, f) ==
  /\ Len(viewers) < MaxViewers
  /\ viewers' = Append(AllReplaced, NewViewer(f, KindOf[a][f]))
  /\ releases' = releases \cup CleanupOfActive
  /\ UNCHANGED <<session, registry>>

CloseViewer ==
  /\ \E i \in Numbers : viewers[i].active
  /\ viewers' = AllReplaced
  /\ releases' = releases \cup CleanupOfActive
  /\ UNCHANGED <<session, registry>>

(* A viewer goes on, with what was read for it, or without it.                 *)
Reads(v, phase, bytes) == [v EXCEPT !.phase = phase, !.bytes = bytes]
Onward(v, phase) == Reads(v, phase, Nothing)

(* A promise of viewer i is settled: an active viewer goes on to phase; one    *)
(* that was replaced drops the answer after giving back what it names.         *)
Settle(i, phase, fields, given) ==
  /\ viewers' = [viewers EXCEPT ![i] =
       IF @.active THEN Onward(fields, phase) ELSE Over(@)]
  /\ releases' = releases \cup (IF viewers[i].active THEN {} ELSE given)
  /\ UNCHANGED <<session, registry>>

-------------------------------------------------------------------------------
(* Begin: renderer_begin_open runs, and its answer reaches the viewer.         *)

Refuse(i) == viewers' = [viewers EXCEPT ![i].phase = "refused"]

HasFile(v) == session.unlocked /\ KindOf[session.archive][v.file] = v.kind

Numbered(v, id) == [v EXCEPT !.phase = "begun", !.from = session.archive, !.id = id]

BeginRun(i) ==
  /\ viewers[i].phase = "begin"
  /\ IF HasFile(viewers[i])
       THEN /\ registry' = Begun(registry, viewers[i].file, viewers[i].kind)
            /\ viewers' = [viewers EXCEPT ![i] =
                 Numbered(@, RequestId(session.serial, registry.next + 1))]
       ELSE Refuse(i) /\ UNCHANGED registry
  /\ UNCHANGED <<session, releases>>

\* A mutant of BeginAnswer: a replaced viewer forgets its request.
BeginAnswerForgets(i) ==
  /\ viewers[i].phase = "begun"
  /\ Settle(i, "open", [viewers[i] EXCEPT !.knows = "request"], {})

BeginAnswer(i) ==
  /\ viewers[i].phase = "begun"
  /\ Settle(i, "open", [viewers[i] EXCEPT !.knows = "request"],
            {<<"cancel", viewers[i].id>>})

RefusedAnswer(i) ==
  /\ viewers[i].phase = "refused"
  /\ Settle(i, "failed", [viewers[i] EXCEPT !.shown = Nothing], {})

-------------------------------------------------------------------------------
(* Open: pdf_open, image_open, docx_open and xlsx_open read under the lock,    *)
(* check or decode without it, and complete the request under it again.        *)

OpenRead(i) ==
  LET v == viewers[i] IN
  /\ v.phase = "open"
  /\ session.unlocked
  /\ PendingIs(registry, v.id, v.kind)
  /\ viewers' = [viewers EXCEPT ![i] =
                   Reads(@, "decode", <<session.archive, registry.pending.file>>)]
  /\ UNCHANGED <<session, registry, releases>>

OpenComplete(i) ==
  LET v == viewers[i] IN
  /\ v.phase = "decode"
  /\ session.unlocked
  /\ PendingIs(registry, v.id, v.kind)
  /\ registry' = Completed(registry, v.bytes)
  /\ viewers' = [viewers EXCEPT ![i].phase = "opened"]
  /\ UNCHANGED <<session, releases>>

(* The file cannot be read or decoded, or the request is no longer the         *)
(* pending one: the command cancels it before it answers with the error.       *)
OpenFails(i) ==
  /\ viewers[i].phase \in {"open", "decode"}
  /\ registry' = Cancelled(registry, viewers[i].id)
  /\ viewers' = [viewers EXCEPT ![i] = Onward(@, "refused")]
  /\ UNCHANGED <<session, releases>>

(* The four commands take these steps alike; what they accept and keep differs. *)
OpenCommand(i) == OpenRead(i) \/ OpenComplete(i) \/ OpenFails(i)

PdfOpen(i) == viewers[i].kind = "pdf" /\ OpenCommand(i)
ImageOpen(i) == viewers[i].kind = "image" /\ OpenCommand(i)
DocxOpen(i) == viewers[i].kind = "docx" /\ OpenCommand(i)
XlsxOpen(i) == viewers[i].kind = "xlsx" /\ OpenCommand(i)

(* The viewer learns its handle.                                               *)
Opened(i, kind, phase, fields) ==
  /\ viewers[i].phase = "opened"
  /\ viewers[i].kind = kind
  /\ Settle(i, phase, [fields EXCEPT !.knows = "handle"], {<<"close", viewers[i].id>>})

(* A question about a window: the turn it was asked at, its first row, and     *)
(* where its answer stands.                                                    *)
Asks(turn, offset) == <<turn, offset, "asked", Nothing>>

(* A PDF and an image go on to load their bytes, a DOCX is ready with the      *)
(* blocks of the answer, a spreadsheet asks for its first window.              *)
PdfOpened(i) == Opened(i, "pdf", "load", viewers[i])
ImageOpened(i) == Opened(i, "image", "load", viewers[i])
DocxOpened(i) == Opened(i, "docx", "ready", [viewers[i] EXCEPT !.shown = <<viewers[i].bytes, Whole>>])
XlsxOpened(i) == Opened(i, "xlsx", "ready", [viewers[i] EXCEPT !.asked = {Asks(0, 0)}])

-------------------------------------------------------------------------------
(* Read: pdf_read_range reads from the session's reader the file of the open   *)
(* renderer, image_render_data and xlsx_sheet_window answer from what it keeps.*)

ReadRun(i, kind, bytes) ==
  LET v == viewers[i] IN
  /\ v.phase = "load"
  /\ v.kind = kind
  /\ IF session.unlocked /\ CurrentIs(registry, v.id, kind)
       THEN viewers' = [viewers EXCEPT ![i] = Reads(@, "loaded", bytes)]
       ELSE Refuse(i)
  /\ UNCHANGED <<session, registry, releases>>

PdfReadRange(i) == ReadRun(i, "pdf", <<session.archive, registry.current.file>>)
ImageRenderData(i) == ReadRun(i, "image", registry.current.data)

ReadAnswer(i, kind) ==
  /\ viewers[i].phase = "loaded"
  /\ viewers[i].kind = kind
  /\ Settle(i, "ready", [viewers[i] EXCEPT !.shown = <<viewers[i].bytes, Whole>>],
            {<<"close", viewers[i].id>>})

PdfLoaded(i) == ReadAnswer(i, "pdf")
ImageLoaded(i) == ReadAnswer(i, "image")

(* A page of a PDF that was not read yet. *)
NextPage(v) == [v EXCEPT !.phase = "load", !.turn = @ + 1]

TurnPage(i) ==
  LET v == viewers[i] IN
  /\ v.active /\ v.phase = "ready" /\ v.kind = "pdf" /\ v.turn < MaxTurns
  /\ viewers' = [viewers EXCEPT ![i] = NextPage(v)]
  /\ UNCHANGED <<session, registry, releases>>

(* A viewer that shows an error.                                               *)
Failed(v) == [v EXCEPT !.phase = "failed", !.shown = Nothing, !.asked = {}]

(* A page whose canvas would be beyond the limits: the viewer fails and closes  *)
(* the renderer while it stays mounted.                                        *)
PageTooLarge(i) ==
  LET v == viewers[i] IN
  /\ v.active /\ v.phase = "ready" /\ v.kind = "pdf"
  /\ viewers' = [viewers EXCEPT ![i] = Failed(v)]
  /\ releases' = releases \cup {<<"close", v.id>>}
  /\ UNCHANGED <<session, registry>>

(* The next or the previous window of a spreadsheet, while there is one: the   *)
(* answer to an earlier question no longer counts, and the grid is replaced by *)
(* the loading sign.                                                           *)
NextOffset(offset) == offset + WindowRows
HasNextWindow(v) == v.offset + WindowRows < SheetRows
PreviousOffset(offset) == IF offset > WindowRows THEN offset - WindowRows ELSE 0

Turned(v, offset) ==
  [v EXCEPT !.turn = @ + 1, !.offset = offset, !.shown = Nothing,
            !.asked = @ \cup {Asks(v.turn + 1, offset)}]

TurnWindow(i) ==
  LET v == viewers[i] IN
  /\ v.active /\ v.phase = "ready" /\ v.kind = "xlsx"
  /\ v.turn < MaxTurns
  /\ \E offset \in (IF HasNextWindow(v) THEN {NextOffset(v.offset)} ELSE {})
                   \cup (IF v.offset = 0 THEN {} ELSE {PreviousOffset(v.offset)}) :
       viewers' = [viewers EXCEPT ![i] = Turned(v, offset)]
  /\ UNCHANGED <<session, registry, releases>>

(* Whether the answer to a question about a window is still waited for.        *)
AwaitedAlways(v, question) == TRUE   \* a mutant of Awaited
Awaited(v, question) == question[1] = v.turn

(* xlsx_sheet_window runs: the rows of the renderer that is open by then.      *)
Answered(v, question) ==
  IF session.unlocked /\ CurrentIs(registry, v.id, v.kind)
    THEN <<question[1], question[2], "answered", <<registry.current.data, Rows(question[2])>>>>
    ELSE <<question[1], question[2], "refused", Nothing>>

WindowRun(i, question) ==
  LET v == viewers[i] IN
  /\ question \in v.asked /\ question[3] = "asked"
  /\ viewers' = [viewers EXCEPT ![i] =
       [v EXCEPT !.asked = (@ \ {question}) \cup {Answered(v, question)}]]
  /\ UNCHANGED <<session, registry, releases>>

WindowAnswer(i, question) ==
  LET v == viewers[i]
      heard == [v EXCEPT !.asked = @ \ {question}]
  IN
  /\ question \in v.asked /\ question[3] # "asked"
  /\ viewers' = [viewers EXCEPT ![i] =
       IF ~Awaited(v, question) THEN heard
       ELSE IF question[3] = "answered" THEN [heard EXCEPT !.shown = question[4]]
       ELSE Failed(v)]
  /\ UNCHANGED <<session, registry, releases>>

-------------------------------------------------------------------------------
(* renderer_cancel_open and renderer_close run.                                *)

ReleaseRun(call) ==
  /\ call \in releases
  /\ releases' = releases \ {call}
  /\ registry' = IF ~session.unlocked THEN registry
                 ELSE IF call[1] = "cancel" THEN Cancelled(registry, call[2])
                 ELSE Closed(registry, call[2])
  /\ UNCHANGED <<session, viewers>>

(* The session ends: closed, relocked or past its deadline; its registry is    *)
(* dropped with it.                                                            *)
Lock ==
  /\ session.unlocked
  /\ session' = [session EXCEPT !.unlocked = FALSE]
  /\ registry' = NewRegistry
  /\ UNCHANGED <<viewers, releases>>

(* A licence is installed: for the archive that is open already (a renewal),   *)
(* or for any one once the session has been locked.                            *)
Unlock(a) ==
  /\ session.serial < MaxSerial
  /\ session.unlocked => a = session.archive
  /\ session' = [archive |-> a, serial |-> session.serial + 1, unlocked |-> TRUE]
  /\ registry' = NewRegistry
  /\ UNCHANGED <<viewers, releases>>

ViewerStep(i) ==
  \/ BeginRun(i) \/ BeginAnswer(i) \/ RefusedAnswer(i)
  \/ PdfOpen(i) \/ ImageOpen(i) \/ DocxOpen(i) \/ XlsxOpen(i)
  \/ PdfOpened(i) \/ ImageOpened(i) \/ DocxOpened(i) \/ XlsxOpened(i)
  \/ PdfReadRange(i) \/ PdfLoaded(i) \/ ImageRenderData(i) \/ ImageLoaded(i)
  \/ \E question \in viewers[i].asked : WindowRun(i, question) \/ WindowAnswer(i, question)

Next ==
  \/ \E a \in Archives, f \in Files : Select(a, f)
  \/ CloseViewer
  \/ \E i \in Numbers : ViewerStep(i)
  \/ \E i \in Numbers : TurnPage(i) \/ TurnWindow(i) \/ PageTooLarge(i)
  \/ \E call \in releases : ReleaseRun(call)
  \/ Lock
  \/ \E a \in Archives : Unlock(a)

(* Every call is run and answered in the end: the commands never wait for      *)
(* each other, and hold the session's lock for one bounded read at a time.     *)
Fairness ==
  /\ \A i \in 1..MaxViewers : WF_vars(i \in Numbers /\ ViewerStep(i))
  /\ WF_vars(\E call \in releases : ReleaseRun(call))

Spec == Init /\ [][Next]_vars
FairSpec == Spec /\ Fairness

-------------------------------------------------------------------------------
Questions == (0..MaxTurns) \X Offsets \X {"asked", "answered", "refused"} \X Shown

ViewerRecords ==
  [file : Files, kind : Kinds, active : BOOLEAN, phase : Phases, id : Ids,
   knows : {"nothing", "request", "handle"}, from : Archives \cup {NoArchive},
   bytes : {Nothing} \cup Content, shown : Shown, offset : Offsets,
   turn : 0..MaxTurns, asked : SUBSET Questions]

Sessions == [archive : Archives \cup {NoArchive}, serial : 0..MaxSerial, unlocked : BOOLEAN]

Registries ==
  [next    : Nat,
   pending : [id : Ids, file : Files \cup {Nothing}, kind : Kinds \cup {Nothing}],
   current : [id : Ids, file : Files \cup {Nothing}, kind : Kinds \cup {Nothing},
              data : {Nothing} \cup Content]]

TypeOK ==
  /\ session \in Sessions
  /\ registry \in Registries
  /\ viewers \in Seq(ViewerRecords) /\ Len(viewers) <= MaxViewers
  /\ releases \subseteq {"cancel", "close"} \X Ids

(* What a viewer shows is the file it was mounted for, of the archive that was *)
(* unlocked when its request began, and, in a spreadsheet, the rows it stands  *)
(* at, never an empty grid: neither the renderer of another request, of        *)
(* another session that counts its requests from one again, nor the late       *)
(* answer about another window ever reaches the screen (renderer.rs:110-182,   *)
(* read_xlsx_window, the active flags of the viewers' effects).                *)
ViewerShowsWhatItAsked ==
  \A i \in Numbers : viewers[i].shown # Nothing =>
    /\ viewers[i].shown[1] = <<viewers[i].from, viewers[i].file>>
    /\ viewers[i].kind = "xlsx" =>
         /\ viewers[i].shown[2] = Rows(viewers[i].offset)
         /\ SheetRows = 0 \/ viewers[i].shown[2] # {}

Holds(r, id) == id # NoId /\ (r.pending.id = id \/ r.current.id = id)

(* The late cancel or close of a viewer that was replaced takes nothing from   *)
(* the viewer that replaced it: the renderer of a mounted viewer that has not  *)
(* failed goes only by a step of its own, by another viewer's beginning or     *)
(* with the session (renderer.rs:167-193 compares the request and the handle). *)
NoForeignRelease ==
  [][\A i \in Numbers :
       (viewers[i].active /\ viewers[i].phase # "failed"
          /\ Holds(registry, viewers[i].id)
          /\ ~Holds(registry', viewers[i].id))
       => \/ session' # session
          \/ viewers'[i] # viewers[i]
          \/ registry'.next > registry.next]_vars

WasReplaced(n) == n \in Numbers /\ ~viewers[n].active
Released(n) == n \in Numbers => ~Holds(registry, viewers[n].id)

(* The decrypted content a replaced viewer had opened does not stay in the     *)
(* registry: wherever its opening stood when it was replaced, the request is   *)
(* cancelled or the renderer closed in the end (the cleanups and the checks of *)
(* active in the viewers' effects).                                            *)
ReplacedViewerIsReleased ==
  \A n \in 1..MaxViewers :
    [](WasReplaced(n) => <>[]Released(n))

-------------------------------------------------------------------------------
(* The inductive invariant. *)

(* The registry has one request at a time, the last it has counted, pending or *)
(* open; what an open one keeps is its file of the session's archive.          *)
RegistryInv ==
  /\ IF session.unlocked THEN session.archive \in Archives /\ session.serial > 0
                         ELSE registry = NewRegistry
  /\ registry.pending.id \in {NoId, RequestId(session.serial, registry.next)}
  /\ registry.current.id \in {NoId, RequestId(session.serial, registry.next)}
  /\ registry.current.kind \in {"image", "xlsx"} =>
       registry.current.data = <<session.archive, registry.current.file>>

(* No request number is given twice.                                           *)
Given(id) ==
  id # NoId =>
    /\ id[1] <= session.serial
    /\ session.unlocked /\ id[1] = session.serial => id[2] <= registry.next

NumbersInv ==
  /\ \A i \in Numbers : Given(viewers[i].id)
  /\ \A i, j \in Numbers : viewers[i].id = viewers[j].id => i = j \/ viewers[i].id = NoId

(* The request of a viewer that is not over is for its file, in the archive it *)
(* began in.                                                                   *)
OwnRequest(v, request) ==
  v.id # NoId /\ v.id = request.id =>
    v.phase = "gone" \/ (request.file = v.file /\ v.from = session.archive)

RequestsInv ==
  \A i \in Numbers :
    OwnRequest(viewers[i], registry.pending) /\ OwnRequest(viewers[i], registry.current)

(* Calls on their way are those of viewers that were replaced or have failed.  *)
ReleasesInv ==
  \A call \in releases :
    /\ Given(call[2])
    /\ \A i \in Numbers :
         viewers[i].id = call[2] =>
           call[2] = NoId \/ ~viewers[i].active \/ viewers[i].phase = "failed"

Before == {"begin", "begun", "open", "decode", "opened"}

(* Where the opening of a viewer stands and what it has so far.                *)
ViewerInv(v) ==
  /\ v.phase = "begin" => v.id = NoId /\ v.knows = "nothing" /\ v.shown = Nothing
  /\ v.phase \in {"begun", "open", "decode", "opened", "load", "loaded", "ready"} =>
       v.id # NoId /\ v.from \in Archives
  /\ v.phase \in {"decode", "opened", "loaded"} => v.bytes = <<v.from, v.file>>
  /\ v.shown # Nothing => v.shown[1] = <<v.from, v.file>>
  /\ v.asked # {} => v.kind = "xlsx" /\ v.phase = "ready"

(* A spreadsheet: the window it stands at, and what it has asked for.          *)
SheetInv(v) ==
  v.kind = "xlsx" =>
    /\ v.phase \in Before => v.turn = 0 /\ v.offset = 0
    /\ v.offset = 0 \/ v.offset < SheetRows
    /\ \A question \in v.asked :
         /\ question[1] <= v.turn /\ (question[1] = v.turn => question[2] = v.offset)
         /\ question[3] = "answered" => question[4] = <<<<v.from, v.file>>, Rows(question[2])>>
    /\ v.shown # Nothing => v.shown[2] = Rows(v.offset)

ViewersInv == \A i \in Numbers : ViewerInv(viewers[i]) /\ SheetInv(viewers[i])

IInv == TypeOK /\ RegistryInv /\ NumbersInv /\ RequestsInv /\ ReleasesInv /\ ViewersInv
===============================================================================
