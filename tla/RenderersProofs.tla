--------------------------- MODULE RenderersProofs ----------------------------
(* Proofs about Renderers, for any number of viewers, sessions and windows.    *)
EXTENDS Renderers, TLAPS

-------------------------------------------------------------------------------
(* One viewer takes a step, and the registry with it. *)

(* Calls that concern one request number.                                      *)
CallsFor(id) == {<<"cancel", id>>, <<"close", id>>}

(* Viewer i becomes w, which is no less over than viewer i was.                *)
Becomes(i, w) ==
  /\ viewers' = [viewers EXCEPT ![i] = w]
  /\ w \in ViewerRecords /\ ViewerInv(w) /\ SheetInv(w)
  /\ w.id = viewers[i].id
  /\ \/ w.phase = "gone"
     \/ viewers[i].phase # "gone" /\ w.file = viewers[i].file /\ w.from = viewers[i].from
  /\ ~viewers[i].active \/ viewers[i].phase = "failed" => ~w.active \/ w.phase = "failed"

(* The registry has no other requests than before.                             *)
SameRequests ==
  /\ session' = session
  /\ registry' \in Registries /\ RegistryInv'
  /\ registry'.next = registry.next
  /\ \A request \in {registry'.pending, registry'.current} :
       \/ request.id = NoId
       \/ request.id = registry.pending.id /\ request.file = registry.pending.file
       \/ request.id = registry.current.id /\ request.file = registry.current.file

(* Viewer i, which has become w, may have made calls if it is over.            *)
CallsOf(w) ==
  \/ releases' \subseteq releases
  \/ releases' \subseteq releases \cup CallsFor(w.id) /\ (~w.active \/ w.phase = "failed")

(* A record of a viewer is one of a sequence of them.                          *)
LEMMA ViewerType ==
  ASSUME TypeOK, NEW i \in Numbers
  PROVE  viewers[i] \in ViewerRecords
BY DEF TypeOK, Numbers

(* The sequence of the viewers after one has changed.                          *)
LEMMA ViewersAfter ==
  ASSUME TypeOK, NEW i \in Numbers, NEW w \in ViewerRecords,
         viewers' = [viewers EXCEPT ![i] = w]
  PROVE  /\ viewers' \in Seq(ViewerRecords) /\ Len(viewers') = Len(viewers)
         /\ Numbers' = Numbers
         /\ \A j \in Numbers : viewers'[j] = IF j = i THEN w ELSE viewers[j]
BY DEF TypeOK, Numbers

(* What one viewer does keeps the invariant.                                   *)
LEMMA OneViewer ==
  ASSUME IInv, NEW i \in Numbers, NEW w, Becomes(i, w), SameRequests, CallsOf(w)
  PROVE  IInv'
<1>1. /\ viewers' \in Seq(ViewerRecords) /\ Len(viewers') = Len(viewers)
      /\ Numbers' = Numbers
      /\ \A j \in Numbers : viewers'[j] = IF j = i THEN w ELSE viewers[j]
  BY ViewersAfter DEF IInv, Becomes
<1>2. \A j \in Numbers : viewers'[j].id = viewers[j].id
  BY <1>1 DEF Becomes
<1>3. \A id \in Ids : Given(id) => Given(id)'
  BY DEF Given, SameRequests
<1>4. w.id \in Ids /\ Given(w.id)
  BY DEF Becomes, IInv, NumbersInv, ViewerRecords
<1>5. TypeOK'
  <2>1. CallsFor(w.id) \subseteq {"cancel", "close"} \X Ids
    BY <1>4 DEF CallsFor
  <2>2. releases' \subseteq {"cancel", "close"} \X Ids
    BY <2>1 DEF CallsOf, IInv, TypeOK
  <2> QED
    BY <1>1, <2>2 DEF SameRequests, IInv, TypeOK
<1>6. NumbersInv'
  <2>1. ASSUME NEW j \in Numbers PROVE viewers[j].id \in Ids /\ Given(viewers[j].id)
    BY ViewerType DEF IInv, NumbersInv, ViewerRecords
  <2>2. ASSUME NEW j \in Numbers, NEW id, id = viewers[j].id PROVE Given(id)'
    BY <1>3, <2>1, <2>2
  <2>3. ASSUME NEW j \in Numbers' PROVE Given(viewers[j].id)'
    BY <1>1, <1>2, <2>2
  <2> QED
    BY <1>1, <1>2, <2>3 DEF IInv, NumbersInv
<1>7. RequestsInv'
  <2> SUFFICES ASSUME NEW j \in Numbers, NEW request \in {registry'.pending, registry'.current},
                      viewers'[j].id # NoId, viewers'[j].id = request.id,
                      viewers'[j].phase # "gone"
               PROVE  request.file = viewers'[j].file /\ viewers'[j].from = session'.archive
    BY <1>1 DEF RequestsInv, OwnRequest
  <2>1. viewers[j].id = request.id /\ viewers[j].phase # "gone"
        /\ viewers'[j].file = viewers[j].file /\ viewers'[j].from = viewers[j].from
    BY <1>1, <1>2 DEF Becomes
  <2>2. OwnRequest(viewers[j], registry.pending) /\ OwnRequest(viewers[j], registry.current)
    BY DEF IInv, RequestsInv
  <2> QED
    BY <1>2, <2>1, <2>2 DEF OwnRequest, SameRequests
<1>8. ReleasesInv'
  <2> SUFFICES ASSUME NEW call \in releases'
               PROVE  /\ Given(call[2])'
                      /\ \A j \in Numbers : viewers'[j].id = call[2] =>
                           call[2] = NoId \/ ~viewers'[j].active \/ viewers'[j].phase = "failed"
    BY <1>1 DEF ReleasesInv, Given
  <2>1. CASE call \in releases
    <3>1. Given(call[2])
      BY <2>1 DEF IInv, ReleasesInv
    <3>2. call[2] \in Ids
      BY <2>1 DEF IInv, TypeOK
    <3>3. ASSUME NEW j \in Numbers, viewers'[j].id = call[2]
          PROVE  call[2] = NoId \/ ~viewers'[j].active \/ viewers'[j].phase = "failed"
      <4>1. call[2] = NoId \/ ~viewers[j].active \/ viewers[j].phase = "failed"
        BY <1>2, <2>1, <3>3 DEF IInv, ReleasesInv
      <4> QED
        BY <1>1, <4>1 DEF Becomes
    <3> QED
      BY <1>3, <3>1, <3>2, <3>3
  <2>2. CASE call \notin releases
    <3>1. call[2] = w.id /\ (~w.active \/ w.phase = "failed")
      BY <2>2 DEF CallsOf, CallsFor
    <3>2. Given(call[2])'
      BY <1>3, <1>4, <3>1
    <3>3. ASSUME NEW j \in Numbers, viewers'[j].id = call[2], call[2] # NoId
          PROVE  ~viewers'[j].active \/ viewers'[j].phase = "failed"
      <4>1. j = i
        BY <1>2, <3>1, <3>3 DEF Becomes, IInv, NumbersInv
      <4> QED
        BY <1>1, <3>1, <4>1
    <3> QED
      BY <3>2, <3>3
  <2> QED
    BY <2>1, <2>2
<1>9. ViewersInv'
  BY <1>1 DEF Becomes, IInv, ViewersInv
<1> QED
  BY <1>5, <1>6, <1>7, <1>8, <1>9 DEF SameRequests, IInv

-------------------------------------------------------------------------------
(* A promise of a viewer is settled. *)

(* What a viewer is when it is mounted.                                        *)
LEMMA NewViewerType ==
  ASSUME NEW f \in Files, NEW k \in Kinds
  PROVE  NewViewer(f, k) \in ViewerRecords
<1>1. /\ "begin" \in Phases /\ "nothing" \in {"nothing", "request", "handle"}
      /\ NoArchive \in Archives \cup {NoArchive} /\ Nothing \in {Nothing} \cup Content
      /\ Nothing \in Shown /\ 0 \in Offsets /\ 0 \in 0..MaxTurns /\ NoId \in Ids
      /\ {} \in SUBSET Questions
  BY RenderersAssumption DEF Phases, Shown, Offsets, Ids
<1> QED
  BY <1>1, Zenon DEF NewViewer, ViewerRecords

(* What is left of a viewer that is over.                                      *)
LEMMA OverViewer ==
  ASSUME NEW v \in ViewerRecords
  PROVE  /\ Over(v) \in ViewerRecords /\ ViewerInv(Over(v)) /\ SheetInv(Over(v))
         /\ Over(v).id = v.id /\ Over(v).phase = "gone" /\ ~Over(v).active
<1> DEFINE n == NewViewer(v.file, v.kind)
           o == [n EXCEPT !.active = FALSE, !.phase = "gone", !.id = v.id]
<1>1. n \in ViewerRecords
  BY NewViewerType DEF ViewerRecords
<1>2. /\ n.file = v.file /\ n.kind = v.kind
      /\ n.shown = Nothing /\ n.offset = 0 /\ n.turn = 0 /\ n.asked = {}
  BY DEF NewViewer
<1> HIDE DEF n
<1>3. o \in ViewerRecords /\ o.id = v.id /\ o.phase = "gone" /\ ~o.active
  BY <1>1 DEF ViewerRecords, Phases
<1>4. o.shown = Nothing /\ o.offset = 0 /\ o.turn = 0 /\ o.asked = {}
  BY <1>1, <1>2 DEF ViewerRecords
<1>5. ViewerInv(o) /\ SheetInv(o)
  BY <1>3, <1>4 DEF ViewerInv, SheetInv, Before
<1> QED
  BY <1>3, <1>5 DEF Over, n

(* The registry is left as it is.                                              *)
LEMMA RegistryKept ==
  ASSUME IInv, session' = session, registry' = registry
  PROVE  SameRequests
BY DEF SameRequests, IInv, TypeOK, RegistryInv

(* An active viewer goes on to a phase that is neither the end nor a failure   *)
(* before it, and one that was replaced gives back what it was given.          *)
LEMMA Settled ==
  ASSUME IInv, NEW i \in Numbers, NEW phase \in Phases, NEW fields, NEW given,
         Settle(i, phase, fields, given),
         given \subseteq CallsFor(viewers[i].id),
         viewers[i].phase \notin {"gone", "failed"},
         NEW w, w = Onward(fields, phase),
         viewers[i].active =>
           /\ w \in ViewerRecords /\ ViewerInv(w) /\ SheetInv(w)
           /\ w.id = viewers[i].id /\ w.file = viewers[i].file /\ w.from = viewers[i].from
  PROVE  IInv'
<1>1. viewers[i] \in ViewerRecords
  BY ViewerType DEF IInv
<1>2. SameRequests
  BY RegistryKept DEF Settle
<1>3. CASE viewers[i].active
  <2>1. viewers' = [viewers EXCEPT ![i] = w] /\ releases' = releases
    BY <1>3 DEF Settle
  <2>2. Becomes(i, w) /\ CallsOf(w)
    BY <1>3, <2>1 DEF Becomes, CallsOf
  <2> QED
    BY <1>2, <2>2, OneViewer
<1>4. CASE ~viewers[i].active
  <2>1. viewers' = [viewers EXCEPT ![i] = Over(viewers[i])] /\ releases' = releases \cup given
    BY <1>4 DEF Settle
  <2>2. Becomes(i, Over(viewers[i])) /\ CallsOf(Over(viewers[i]))
    BY <1>1, <2>1, OverViewer DEF Becomes, CallsOf
  <2> QED
    BY <1>2, <2>2, OneViewer
<1> QED
  BY <1>3, <1>4

-------------------------------------------------------------------------------
(* Viewers that differ in one field. *)

Same(w, v) ==
  /\ w.file = v.file /\ w.kind = v.kind /\ w.active = v.active /\ w.id = v.id
  /\ w.from = v.from /\ w.turn = v.turn /\ w.offset = v.offset

(* Only what it shows is new.                                                  *)
LEMMA WithShown ==
  ASSUME NEW v \in ViewerRecords, NEW x \in Shown, NEW w, w = [v EXCEPT !.shown = x]
  PROVE  /\ w \in ViewerRecords /\ Same(w, v) /\ w.shown = x
         /\ w.phase = v.phase /\ w.bytes = v.bytes /\ w.knows = v.knows /\ w.asked = v.asked
BY DEF ViewerRecords, Same

(* Only what it knows is new.                                                  *)
LEMMA WithKnows ==
  ASSUME NEW v \in ViewerRecords, NEW x \in {"nothing", "request", "handle"}, NEW w, w = [v EXCEPT !.knows = x]
  PROVE  /\ w \in ViewerRecords /\ Same(w, v) /\ w.knows = x
         /\ w.phase = v.phase /\ w.bytes = v.bytes /\ w.shown = v.shown /\ w.asked = v.asked
BY DEF ViewerRecords, Same

(* Only the windows it has asked for is new.                                   *)
LEMMA WithAsked ==
  ASSUME NEW v \in ViewerRecords, NEW x \in SUBSET Questions, NEW w, w = [v EXCEPT !.asked = x]
  PROVE  /\ w \in ViewerRecords /\ Same(w, v) /\ w.asked = x
         /\ w.phase = v.phase /\ w.bytes = v.bytes /\ w.shown = v.shown /\ w.knows = v.knows
BY DEF ViewerRecords, Same

(* The phase is new, and what was read is gone.                                *)
LEMMA WithPhase ==
  ASSUME NEW v \in ViewerRecords, NEW x \in Phases, NEW w, w = Onward(v, x)
  PROVE  /\ w \in ViewerRecords /\ Same(w, v) /\ w.phase = x /\ w.bytes = Nothing
         /\ w.shown = v.shown /\ w.knows = v.knows /\ w.asked = v.asked
BY DEF ViewerRecords, Same, Onward, Reads

(* What is shown whole.                                                        *)
LEMMA WholeShown ==
  ASSUME NEW v \in ViewerRecords, ViewerInv(v), v.phase \in {"opened", "loaded"}
  PROVE  <<v.bytes, Whole>> \in Shown
<1>1. <<v.from, v.file>> \in Content /\ v.bytes = <<v.from, v.file>>
  BY DEF ViewerRecords, ViewerInv, Content
<1>2. Whole \in SUBSET Offsets
  BY RenderersAssumption DEF Whole, Offsets
<1> QED
  BY <1>1, <1>2 DEF Shown

(* The first window may be asked for.                                          *)
LEMMA FirstQuestion == \E asked \in SUBSET Questions : asked = {Asks(0, 0)}
<1>1. Asks(0, 0) \in Questions
  BY RenderersAssumption DEF Questions, Offsets, Asks, Shown
<1>2. {Asks(0, 0)} \in SUBSET Questions
  BY <1>1
<1> QED
  BY <1>2, Zenon

(* The answer to renderer_begin_open.                                          *)
LEMMA BeginAnswerStep ==
  ASSUME IInv, NEW i \in Numbers, BeginAnswer(i)
  PROVE  IInv'
<1>1. PICK v : v = viewers[i]
  OBVIOUS
<1>2. v \in ViewerRecords /\ ViewerInv(v) /\ SheetInv(v) /\ v.phase = "begun"
  BY <1>1, ViewerType DEF BeginAnswer, IInv, ViewersInv
<1>3. PICK f : f = [v EXCEPT !.knows = "request"]
  OBVIOUS
<1>4. /\ f \in ViewerRecords /\ Same(f, v) /\ f.knows = "request"
      /\ f.phase = v.phase /\ f.bytes = v.bytes /\ f.shown = v.shown /\ f.asked = v.asked
  BY <1>2, <1>3, WithKnows
<1>5. PICK w : w = Onward(f, "open")
  OBVIOUS
<1>6. "open" \in Phases
  BY DEF Phases
<1>7. /\ w \in ViewerRecords /\ Same(w, f) /\ w.phase = "open" /\ w.bytes = Nothing
      /\ w.shown = f.shown /\ w.knows = f.knows /\ w.asked = f.asked
  BY <1>4, <1>5, <1>6, WithPhase
<1>8. ViewerInv(w) /\ SheetInv(w) /\ w.id = v.id /\ w.file = v.file /\ w.from = v.from
  BY <1>2, <1>4, <1>7 DEF Same, ViewerInv, SheetInv, Before
<1>9. PICK given : Settle(i, "open", f, given) /\ given \subseteq CallsFor(v.id)
  BY <1>1, <1>3 DEF BeginAnswer, CallsFor
<1> QED
  BY <1>1, <1>2, <1>5, <1>6, <1>7, <1>8, <1>9, Settled

(* The answer that refuses what was asked.                                     *)
LEMMA RefusedAnswerStep ==
  ASSUME IInv, NEW i \in Numbers, RefusedAnswer(i)
  PROVE  IInv'
<1>1. PICK v : v = viewers[i]
  OBVIOUS
<1>2. v \in ViewerRecords /\ ViewerInv(v) /\ SheetInv(v) /\ v.phase = "refused"
  BY <1>1, ViewerType DEF RefusedAnswer, IInv, ViewersInv
<1>3. Nothing \in Shown
  BY DEF Shown
<1>4. PICK f : f = [v EXCEPT !.shown = Nothing]
  OBVIOUS
<1>5. /\ f \in ViewerRecords /\ Same(f, v) /\ f.shown = Nothing
      /\ f.phase = v.phase /\ f.bytes = v.bytes /\ f.knows = v.knows /\ f.asked = v.asked
  BY <1>2, <1>4, <1>3, WithShown
<1>6. PICK w : w = Onward(f, "failed")
  OBVIOUS
<1>7. "failed" \in Phases
  BY DEF Phases
<1>8. /\ w \in ViewerRecords /\ Same(w, f) /\ w.phase = "failed" /\ w.bytes = Nothing
      /\ w.shown = f.shown /\ w.knows = f.knows /\ w.asked = f.asked
  BY <1>5, <1>6, <1>7, WithPhase
<1>9. ViewerInv(w) /\ SheetInv(w) /\ w.id = v.id /\ w.file = v.file /\ w.from = v.from
  BY <1>2, <1>5, <1>8 DEF Same, ViewerInv, SheetInv, Before
<1>10. PICK given : Settle(i, "failed", f, given) /\ given \subseteq CallsFor(v.id)
  BY <1>1, <1>4 DEF RefusedAnswer, CallsFor
<1> QED
  BY <1>1, <1>2, <1>6, <1>7, <1>8, <1>9, <1>10, Settled

(* The answer to pdf_open.                                                     *)
LEMMA PdfOpenedStep ==
  ASSUME IInv, NEW i \in Numbers, PdfOpened(i)
  PROVE  IInv'
<1>1. PICK v : v = viewers[i]
  OBVIOUS
<1>2. v \in ViewerRecords /\ ViewerInv(v) /\ SheetInv(v) /\ v.phase = "opened" /\ v.kind = "pdf"
  BY <1>1, ViewerType DEF PdfOpened, Opened, IInv, ViewersInv
<1>3. PICK f : f = [v EXCEPT !.knows = "handle"]
  OBVIOUS
<1>4. /\ f \in ViewerRecords /\ Same(f, v) /\ f.knows = "handle"
      /\ f.phase = v.phase /\ f.bytes = v.bytes /\ f.shown = v.shown /\ f.asked = v.asked
  BY <1>2, <1>3, WithKnows
<1>5. PICK w : w = Onward(f, "load")
  OBVIOUS
<1>6. "load" \in Phases
  BY DEF Phases
<1>7. /\ w \in ViewerRecords /\ Same(w, f) /\ w.phase = "load" /\ w.bytes = Nothing
      /\ w.shown = f.shown /\ w.knows = f.knows /\ w.asked = f.asked
  BY <1>4, <1>5, <1>6, WithPhase
<1>8. ViewerInv(w) /\ SheetInv(w) /\ w.id = v.id /\ w.file = v.file /\ w.from = v.from
  BY <1>2, <1>4, <1>7 DEF Same, ViewerInv, SheetInv, Before
<1>9. PICK given : Settle(i, "load", f, given) /\ given \subseteq CallsFor(v.id)
  BY <1>1, <1>3 DEF PdfOpened, Opened, CallsFor
<1> QED
  BY <1>1, <1>2, <1>5, <1>6, <1>7, <1>8, <1>9, Settled

(* The answer to image_open.                                                   *)
LEMMA ImageOpenedStep ==
  ASSUME IInv, NEW i \in Numbers, ImageOpened(i)
  PROVE  IInv'
<1>1. PICK v : v = viewers[i]
  OBVIOUS
<1>2. v \in ViewerRecords /\ ViewerInv(v) /\ SheetInv(v) /\ v.phase = "opened" /\ v.kind = "image"
  BY <1>1, ViewerType DEF ImageOpened, Opened, IInv, ViewersInv
<1>3. PICK f : f = [v EXCEPT !.knows = "handle"]
  OBVIOUS
<1>4. /\ f \in ViewerRecords /\ Same(f, v) /\ f.knows = "handle"
      /\ f.phase = v.phase /\ f.bytes = v.bytes /\ f.shown = v.shown /\ f.asked = v.asked
  BY <1>2, <1>3, WithKnows
<1>5. PICK w : w = Onward(f, "load")
  OBVIOUS
<1>6. "load" \in Phases
  BY DEF Phases
<1>7. /\ w \in ViewerRecords /\ Same(w, f) /\ w.phase = "load" /\ w.bytes = Nothing
      /\ w.shown = f.shown /\ w.knows = f.knows /\ w.asked = f.asked
  BY <1>4, <1>5, <1>6, WithPhase
<1>8. ViewerInv(w) /\ SheetInv(w) /\ w.id = v.id /\ w.file = v.file /\ w.from = v.from
  BY <1>2, <1>4, <1>7 DEF Same, ViewerInv, SheetInv, Before
<1>9. PICK given : Settle(i, "load", f, given) /\ given \subseteq CallsFor(v.id)
  BY <1>1, <1>3 DEF ImageOpened, Opened, CallsFor
<1> QED
  BY <1>1, <1>2, <1>5, <1>6, <1>7, <1>8, <1>9, Settled

(* The answer to docx_open, with the blocks of the document.                   *)
LEMMA DocxOpenedStep ==
  ASSUME IInv, NEW i \in Numbers, DocxOpened(i)
  PROVE  IInv'
<1>1. PICK v : v = viewers[i]
  OBVIOUS
<1>2. v \in ViewerRecords /\ ViewerInv(v) /\ SheetInv(v) /\ v.phase = "opened" /\ v.kind = "docx"
  BY <1>1, ViewerType DEF DocxOpened, Opened, IInv, ViewersInv
<1>3. <<v.bytes, Whole>> \in Shown
  BY <1>2, WholeShown
<1>4. PICK f : f = [v EXCEPT !.shown = <<v.bytes, Whole>>]
  OBVIOUS
<1>5. /\ f \in ViewerRecords /\ Same(f, v) /\ f.shown = <<v.bytes, Whole>>
      /\ f.phase = v.phase /\ f.bytes = v.bytes /\ f.knows = v.knows /\ f.asked = v.asked
  BY <1>2, <1>4, <1>3, WithShown
<1>6. PICK g : g = [f EXCEPT !.knows = "handle"]
  OBVIOUS
<1>7. /\ g \in ViewerRecords /\ Same(g, f) /\ g.knows = "handle"
      /\ g.phase = f.phase /\ g.bytes = f.bytes /\ g.shown = f.shown /\ g.asked = f.asked
  BY <1>5, <1>6, WithKnows
<1>8. PICK w : w = Onward(g, "ready")
  OBVIOUS
<1>9. "ready" \in Phases
  BY DEF Phases
<1>10. /\ w \in ViewerRecords /\ Same(w, g) /\ w.phase = "ready" /\ w.bytes = Nothing
      /\ w.shown = g.shown /\ w.knows = g.knows /\ w.asked = g.asked
  BY <1>7, <1>8, <1>9, WithPhase
<1>11. ViewerInv(w) /\ SheetInv(w) /\ w.id = v.id /\ w.file = v.file /\ w.from = v.from
  BY <1>2, <1>5, <1>7, <1>10 DEF Same, ViewerInv, SheetInv, Before
<1>12. PICK given : Settle(i, "ready", g, given) /\ given \subseteq CallsFor(v.id)
  BY <1>1, <1>4, <1>6 DEF DocxOpened, Opened, CallsFor
<1> QED
  BY <1>1, <1>2, <1>8, <1>9, <1>10, <1>11, <1>12, Settled

(* The answer to xlsx_open: the first window is asked for.                     *)
LEMMA XlsxOpenedStep ==
  ASSUME IInv, NEW i \in Numbers, XlsxOpened(i)
  PROVE  IInv'
<1>1. PICK v : v = viewers[i]
  OBVIOUS
<1>2. v \in ViewerRecords /\ ViewerInv(v) /\ SheetInv(v) /\ v.phase = "opened" /\ v.kind = "xlsx"
  BY <1>1, ViewerType DEF XlsxOpened, Opened, IInv, ViewersInv
<1>3. PICK asked : asked \in SUBSET Questions /\ asked = {Asks(0, 0)}
  BY FirstQuestion
<1>0. asked \in SUBSET Questions
  BY <1>3
<1>4. PICK f : f = [v EXCEPT !.asked = asked]
  OBVIOUS
<1>5. /\ f \in ViewerRecords /\ Same(f, v) /\ f.asked = asked
      /\ f.phase = v.phase /\ f.bytes = v.bytes /\ f.shown = v.shown /\ f.knows = v.knows
  BY <1>2, <1>4, <1>0, WithAsked
<1>6. PICK g : g = [f EXCEPT !.knows = "handle"]
  OBVIOUS
<1>7. /\ g \in ViewerRecords /\ Same(g, f) /\ g.knows = "handle"
      /\ g.phase = f.phase /\ g.bytes = f.bytes /\ g.shown = f.shown /\ g.asked = f.asked
  BY <1>5, <1>6, WithKnows
<1>8. PICK w : w = Onward(g, "ready")
  OBVIOUS
<1>9. "ready" \in Phases
  BY DEF Phases
<1>10. /\ w \in ViewerRecords /\ Same(w, g) /\ w.phase = "ready" /\ w.bytes = Nothing
      /\ w.shown = g.shown /\ w.knows = g.knows /\ w.asked = g.asked
  BY <1>7, <1>8, <1>9, WithPhase
<1>11. ViewerInv(w) /\ SheetInv(w) /\ w.id = v.id /\ w.file = v.file /\ w.from = v.from
  BY <1>2, <1>3, <1>5, <1>7, <1>10 DEF Same, ViewerInv, SheetInv, Before, Asks
<1>12. PICK given : Settle(i, "ready", g, given) /\ given \subseteq CallsFor(v.id)
  BY <1>1, <1>3, <1>4, <1>6 DEF XlsxOpened, Opened, CallsFor
<1> QED
  BY <1>1, <1>2, <1>8, <1>9, <1>10, <1>11, <1>12, Settled

(* The bytes a page of a PDF asked for.                                        *)
LEMMA PdfLoadedStep ==
  ASSUME IInv, NEW i \in Numbers, PdfLoaded(i)
  PROVE  IInv'
<1>1. PICK v : v = viewers[i]
  OBVIOUS
<1>2. v \in ViewerRecords /\ ViewerInv(v) /\ SheetInv(v) /\ v.phase = "loaded" /\ v.kind = "pdf"
  BY <1>1, ViewerType DEF PdfLoaded, ReadAnswer, IInv, ViewersInv
<1>3. <<v.bytes, Whole>> \in Shown
  BY <1>2, WholeShown
<1>4. PICK f : f = [v EXCEPT !.shown = <<v.bytes, Whole>>]
  OBVIOUS
<1>5. /\ f \in ViewerRecords /\ Same(f, v) /\ f.shown = <<v.bytes, Whole>>
      /\ f.phase = v.phase /\ f.bytes = v.bytes /\ f.knows = v.knows /\ f.asked = v.asked
  BY <1>2, <1>4, <1>3, WithShown
<1>6. PICK w : w = Onward(f, "ready")
  OBVIOUS
<1>7. "ready" \in Phases
  BY DEF Phases
<1>8. /\ w \in ViewerRecords /\ Same(w, f) /\ w.phase = "ready" /\ w.bytes = Nothing
      /\ w.shown = f.shown /\ w.knows = f.knows /\ w.asked = f.asked
  BY <1>5, <1>6, <1>7, WithPhase
<1>9. ViewerInv(w) /\ SheetInv(w) /\ w.id = v.id /\ w.file = v.file /\ w.from = v.from
  BY <1>2, <1>5, <1>8 DEF Same, ViewerInv, SheetInv, Before
<1>10. PICK given : Settle(i, "ready", f, given) /\ given \subseteq CallsFor(v.id)
  BY <1>1, <1>4 DEF PdfLoaded, ReadAnswer, CallsFor
<1> QED
  BY <1>1, <1>2, <1>6, <1>7, <1>8, <1>9, <1>10, Settled

(* The picture of an image.                                                    *)
LEMMA ImageLoadedStep ==
  ASSUME IInv, NEW i \in Numbers, ImageLoaded(i)
  PROVE  IInv'
<1>1. PICK v : v = viewers[i]
  OBVIOUS
<1>2. v \in ViewerRecords /\ ViewerInv(v) /\ SheetInv(v) /\ v.phase = "loaded" /\ v.kind = "image"
  BY <1>1, ViewerType DEF ImageLoaded, ReadAnswer, IInv, ViewersInv
<1>3. <<v.bytes, Whole>> \in Shown
  BY <1>2, WholeShown
<1>4. PICK f : f = [v EXCEPT !.shown = <<v.bytes, Whole>>]
  OBVIOUS
<1>5. /\ f \in ViewerRecords /\ Same(f, v) /\ f.shown = <<v.bytes, Whole>>
      /\ f.phase = v.phase /\ f.bytes = v.bytes /\ f.knows = v.knows /\ f.asked = v.asked
  BY <1>2, <1>4, <1>3, WithShown
<1>6. PICK w : w = Onward(f, "ready")
  OBVIOUS
<1>7. "ready" \in Phases
  BY DEF Phases
<1>8. /\ w \in ViewerRecords /\ Same(w, f) /\ w.phase = "ready" /\ w.bytes = Nothing
      /\ w.shown = f.shown /\ w.knows = f.knows /\ w.asked = f.asked
  BY <1>5, <1>6, <1>7, WithPhase
<1>9. ViewerInv(w) /\ SheetInv(w) /\ w.id = v.id /\ w.file = v.file /\ w.from = v.from
  BY <1>2, <1>5, <1>8 DEF Same, ViewerInv, SheetInv, Before
<1>10. PICK given : Settle(i, "ready", f, given) /\ given \subseteq CallsFor(v.id)
  BY <1>1, <1>4 DEF ImageLoaded, ReadAnswer, CallsFor
<1> QED
  BY <1>1, <1>2, <1>6, <1>7, <1>8, <1>9, <1>10, Settled


-------------------------------------------------------------------------------
(* The steps of an opening and of a reading. *)

(* Something was read: the phase and the bytes are new.                        *)
LEMMA WithBytes ==
  ASSUME NEW v \in ViewerRecords, NEW x \in Phases, NEW b \in {Nothing} \cup Content,
         NEW w, w = Reads(v, x, b)
  PROVE  /\ w \in ViewerRecords /\ Same(w, v) /\ w.phase = x /\ w.bytes = b
         /\ w.shown = v.shown /\ w.knows = v.knows /\ w.asked = v.asked
BY DEF ViewerRecords, Same, Reads

(* Only the phase is new.                                                      *)
LEMMA WithPhaseOnly ==
  ASSUME NEW v \in ViewerRecords, NEW x \in Phases, NEW w, w = [v EXCEPT !.phase = x]
  PROVE  /\ w \in ViewerRecords /\ Same(w, v) /\ w.phase = x /\ w.bytes = v.bytes
         /\ w.shown = v.shown /\ w.knows = v.knows /\ w.asked = v.asked
BY DEF ViewerRecords, Same

(* A renderer that is opened has the request that was pending.                 *)
LEMMA CompletedRequests ==
  ASSUME IInv, session' = session, session.unlocked, NEW bytes,
         registry.pending.file \in Files,
         bytes = <<session.archive, registry.pending.file>>,
         registry' = Completed(registry, bytes)
  PROVE  SameRequests
<1>1. registry \in Registries /\ RegistryInv
  BY DEF IInv, TypeOK
<1>2. bytes \in Content
  BY <1>1 DEF RegistryInv, Content
<1>3. /\ registry'.next = registry.next /\ registry'.pending = NoPending
      /\ registry'.current = [id   |-> registry.pending.id, file |-> registry.pending.file,
                              kind |-> registry.pending.kind,
                              data |-> Kept(registry.pending.kind, bytes)]
  BY <1>1 DEF Completed, Registries
<1>4. registry' \in Registries
  BY <1>1, <1>2 DEF Completed, Kept, NoPending, Registries, Ids
<1>5. RegistryInv'
  BY <1>1, <1>3 DEF RegistryInv, Kept, NoPending
<1> QED
  BY <1>3, <1>4, <1>5 DEF SameRequests, NoPending

(* A request that is cancelled or closed leaves the other one.                 *)
LEMMA ReleasedRequests ==
  ASSUME IInv, session' = session, NEW id,
         registry' \in {registry, Cancelled(registry, id), Closed(registry, id)}
  PROVE  SameRequests
<1>1. registry \in Registries /\ RegistryInv
  BY DEF IInv, TypeOK
<1>2. /\ registry'.next = registry.next
      /\ registry'.pending \in {registry.pending, NoPending}
      /\ registry'.current \in {registry.current, NoCurrent}
  BY <1>1 DEF Cancelled, Closed, Registries
<1>3. registry' \in Registries
  BY <1>1 DEF Cancelled, Closed, NoPending, NoCurrent, Registries, Ids
<1>0. ~session.unlocked => registry' = NewRegistry
  BY <1>1 DEF RegistryInv, Cancelled, Closed, NewRegistry, NoPending, NoCurrent
<1>4. RegistryInv'
  BY <1>0, <1>1, <1>2, RenderersAssumption DEF RegistryInv, NoPending, NoCurrent, Kinds
<1> QED
  BY <1>2, <1>3, <1>4 DEF SameRequests, NoPending, NoCurrent

(* An open command reads the file of the pending request.                      *)
LEMMA OpenReadStep ==
  ASSUME IInv, NEW i \in Numbers, OpenRead(i)
  PROVE  IInv'
<1>1. PICK v : v = viewers[i]
  OBVIOUS
<1>2. v \in ViewerRecords /\ ViewerInv(v) /\ SheetInv(v) /\ v.phase = "open"
  BY <1>1, ViewerType DEF OpenRead, IInv, ViewersInv
<1>3. PICK b : b = <<session.archive, registry.pending.file>>
  OBVIOUS
<1>4. b = <<v.from, v.file>> /\ b \in Content
  <2>1. OwnRequest(v, registry.pending) /\ v.id = registry.pending.id
    BY <1>1 DEF OpenRead, PendingIs, IInv, RequestsInv
  <2>2. v.id # NoId /\ v.from \in Archives /\ v.file \in Files
    BY <1>2 DEF ViewerInv, ViewerRecords
  <2> QED
    BY <1>2, <1>3, <2>1, <2>2 DEF OwnRequest, Content
<1>5. PICK w : w = Reads(v, "decode", b)
  OBVIOUS
<1>6. "decode" \in Phases
  BY DEF Phases
<1>7. /\ w \in ViewerRecords /\ Same(w, v) /\ w.phase = "decode" /\ w.bytes = b
      /\ w.shown = v.shown /\ w.knows = v.knows /\ w.asked = v.asked
  BY <1>2, <1>4, <1>5, <1>6, WithBytes
<1>8. ViewerInv(w) /\ SheetInv(w)
  BY <1>2, <1>4, <1>7 DEF Same, ViewerInv, SheetInv, Before
<1>9. viewers' = [viewers EXCEPT ![i] = w] /\ releases' = releases
      /\ session' = session /\ registry' = registry
  BY <1>1, <1>3, <1>5 DEF OpenRead
<1>10. Becomes(i, w) /\ CallsOf(w)
  BY <1>1, <1>2, <1>7, <1>8, <1>9 DEF Becomes, CallsOf, Same
<1> QED
  BY <1>9, <1>10, RegistryKept, OneViewer

(* An open command completes the request it has read the file of.              *)
LEMMA OpenCompleteStep ==
  ASSUME IInv, NEW i \in Numbers, OpenComplete(i)
  PROVE  IInv'
<1>1. PICK v : v = viewers[i]
  OBVIOUS
<1>2. v \in ViewerRecords /\ ViewerInv(v) /\ SheetInv(v) /\ v.phase = "decode"
  BY <1>1, ViewerType DEF OpenComplete, IInv, ViewersInv
<1>3. /\ registry.pending.file \in Files
      /\ v.bytes = <<session.archive, registry.pending.file>>
  <2>1. OwnRequest(v, registry.pending) /\ v.id = registry.pending.id
    BY <1>1 DEF OpenComplete, PendingIs, IInv, RequestsInv
  <2>2. v.id # NoId /\ v.file \in Files /\ v.bytes = <<v.from, v.file>>
    BY <1>2 DEF ViewerInv, ViewerRecords
  <2> QED
    BY <1>2, <2>1, <2>2 DEF OwnRequest
<1>4. SameRequests
  BY <1>1, <1>3, CompletedRequests DEF OpenComplete
<1>5. PICK w : w = [v EXCEPT !.phase = "opened"]
  OBVIOUS
<1>6. "opened" \in Phases
  BY DEF Phases
<1>7. /\ w \in ViewerRecords /\ Same(w, v) /\ w.phase = "opened" /\ w.bytes = v.bytes
      /\ w.shown = v.shown /\ w.knows = v.knows /\ w.asked = v.asked
  BY <1>2, <1>5, <1>6, WithPhaseOnly
<1>8. ViewerInv(w) /\ SheetInv(w)
  BY <1>2, <1>7 DEF Same, ViewerInv, SheetInv, Before
<1>9. viewers' = [viewers EXCEPT ![i] = w] /\ releases' = releases
  BY <1>1, <1>5 DEF OpenComplete
<1>10. Becomes(i, w) /\ CallsOf(w)
  BY <1>1, <1>2, <1>7, <1>8, <1>9 DEF Becomes, CallsOf, Same
<1> QED
  BY <1>4, <1>10, OneViewer

(* An open command fails: its request is cancelled, if it still is the pending *)
(* one.                                                                        *)
LEMMA OpenFailsStep ==
  ASSUME IInv, NEW i \in Numbers, OpenFails(i)
  PROVE  IInv'
<1>1. PICK v : v = viewers[i]
  OBVIOUS
<1>2. v \in ViewerRecords /\ ViewerInv(v) /\ SheetInv(v) /\ v.phase \in {"open", "decode"}
  BY <1>1, ViewerType DEF OpenFails, IInv, ViewersInv
<1>3. SameRequests
  BY ReleasedRequests DEF OpenFails
<1>4. PICK w : w = Onward(v, "refused")
  OBVIOUS
<1>5. "refused" \in Phases
  BY DEF Phases
<1>6. /\ w \in ViewerRecords /\ Same(w, v) /\ w.phase = "refused" /\ w.bytes = Nothing
      /\ w.shown = v.shown /\ w.knows = v.knows /\ w.asked = v.asked
  BY <1>2, <1>4, <1>5, WithPhase
<1>7. ViewerInv(w) /\ SheetInv(w)
  BY <1>2, <1>6 DEF Same, ViewerInv, SheetInv, Before
<1>8. viewers' = [viewers EXCEPT ![i] = w] /\ releases' = releases
  BY <1>1, <1>4 DEF OpenFails
<1>9. Becomes(i, w) /\ CallsOf(w)
  BY <1>1, <1>2, <1>6, <1>7, <1>8 DEF Becomes, CallsOf, Same
<1> QED
  BY <1>3, <1>9, OneViewer


(* A command that is refused.                                                  *)
LEMMA RefusedStep ==
  ASSUME IInv, NEW i \in Numbers, viewers[i].phase \in {"begin", "load"}, Refuse(i),
         session' = session, registry' = registry, releases' = releases
  PROVE  IInv'
<1>1. PICK v : v = viewers[i]
  OBVIOUS
<1>2. v \in ViewerRecords /\ ViewerInv(v) /\ SheetInv(v) /\ v.phase \in {"begin", "load"}
  BY <1>1, ViewerType DEF IInv, ViewersInv
<1>3. PICK w : w = [v EXCEPT !.phase = "refused"]
  OBVIOUS
<1>4. "refused" \in Phases
  BY DEF Phases
<1>5. /\ w \in ViewerRecords /\ Same(w, v) /\ w.phase = "refused" /\ w.bytes = v.bytes
      /\ w.shown = v.shown /\ w.knows = v.knows /\ w.asked = v.asked
  BY <1>2, <1>3, <1>4, WithPhaseOnly
<1>6. ViewerInv(w) /\ SheetInv(w)
  BY <1>2, <1>5 DEF Same, ViewerInv, SheetInv, Before
<1>7. viewers' = [viewers EXCEPT ![i] = w]
  BY <1>1, <1>3 DEF Refuse
<1>8. Becomes(i, w) /\ CallsOf(w)
  BY <1>1, <1>2, <1>5, <1>6, <1>7 DEF Becomes, CallsOf, Same
<1> QED
  BY <1>8, RegistryKept, OneViewer

(* A read that is answered: the bytes are those of the viewer's own file.      *)
LEMMA ReadStep ==
  ASSUME IInv, NEW i \in Numbers, NEW bytes \in Content,
         viewers[i].phase = "load", bytes = <<viewers[i].from, viewers[i].file>>,
         viewers' = [viewers EXCEPT ![i] = Reads(@, "loaded", bytes)],
         session' = session, registry' = registry, releases' = releases
  PROVE  IInv'
<1>1. PICK v : v = viewers[i]
  OBVIOUS
<1>2. v \in ViewerRecords /\ ViewerInv(v) /\ SheetInv(v) /\ v.phase = "load"
  BY <1>1, ViewerType DEF IInv, ViewersInv
<1>3. PICK w : w = Reads(v, "loaded", bytes)
  OBVIOUS
<1>4. "loaded" \in Phases
  BY DEF Phases
<1>5. /\ w \in ViewerRecords /\ Same(w, v) /\ w.phase = "loaded" /\ w.bytes = bytes
      /\ w.shown = v.shown /\ w.knows = v.knows /\ w.asked = v.asked
  BY <1>2, <1>3, <1>4, WithBytes
<1>6. ViewerInv(w) /\ SheetInv(w)
  BY <1>1, <1>2, <1>5 DEF Same, ViewerInv, SheetInv, Before
<1>7. viewers' = [viewers EXCEPT ![i] = w]
  BY <1>1, <1>3
<1>8. Becomes(i, w) /\ CallsOf(w)
  BY <1>1, <1>2, <1>5, <1>6, <1>7 DEF Becomes, CallsOf, Same
<1> QED
  BY <1>8, RegistryKept, OneViewer

(* The renderer of a viewer is open: it is for the viewer's own file.          *)
LEMMA OwnCurrent ==
  ASSUME IInv, NEW i \in Numbers,
         CurrentIs(registry, viewers[i].id, viewers[i].kind),
         viewers[i].phase \in {"load", "ready"}
  PROVE  /\ viewers[i].from = session.archive /\ viewers[i].file = registry.current.file
         /\ <<viewers[i].from, viewers[i].file>> \in Content
         /\ viewers[i].kind \in {"image", "xlsx"} =>
              registry.current.data = <<viewers[i].from, viewers[i].file>>
<1>1. /\ viewers[i].id # NoId /\ viewers[i].from \in Archives /\ viewers[i].file \in Files
  BY ViewerType DEF IInv, ViewersInv, ViewerInv, ViewerRecords
<1>2. viewers[i].from = session.archive /\ viewers[i].file = registry.current.file
  BY <1>1 DEF IInv, RequestsInv, OwnRequest, CurrentIs
<1> QED
  BY <1>1, <1>2 DEF IInv, RegistryInv, CurrentIs, Content

(* A range of a PDF is read.                                                   *)
LEMMA PdfReadRangeStep ==
  ASSUME IInv, NEW i \in Numbers, PdfReadRange(i)
  PROVE  IInv'
<1>1. CASE session.unlocked /\ CurrentIs(registry, viewers[i].id, "pdf")
  <2>1. /\ session.archive = viewers[i].from /\ registry.current.file = viewers[i].file
        /\ <<viewers[i].from, viewers[i].file>> \in Content
    BY <1>1, OwnCurrent DEF PdfReadRange, ReadRun
  <2> QED
    BY <1>1, <2>1, ReadStep DEF PdfReadRange, ReadRun
<1>2. CASE ~(session.unlocked /\ CurrentIs(registry, viewers[i].id, "pdf"))
  BY <1>2, RefusedStep DEF PdfReadRange, ReadRun
<1> QED
  BY <1>1, <1>2

(* The picture of an image is read.                                            *)
LEMMA ImageRenderDataStep ==
  ASSUME IInv, NEW i \in Numbers, ImageRenderData(i)
  PROVE  IInv'
<1>1. CASE session.unlocked /\ CurrentIs(registry, viewers[i].id, "image")
  <2>1. /\ registry.current.data = <<viewers[i].from, viewers[i].file>>
        /\ <<viewers[i].from, viewers[i].file>> \in Content
    BY <1>1, OwnCurrent DEF ImageRenderData, ReadRun
  <2> QED
    BY <1>1, <2>1, ReadStep DEF ImageRenderData, ReadRun
<1>2. CASE ~(session.unlocked /\ CurrentIs(registry, viewers[i].id, "image"))
  BY <1>2, RefusedStep DEF ImageRenderData, ReadRun
<1> QED
  BY <1>1, <1>2

(* The next page of a PDF is asked for.                                        *)
LEMMA TurnPageStep ==
  ASSUME IInv, NEW i \in Numbers, TurnPage(i)
  PROVE  IInv'
<1>1. PICK v : v = viewers[i]
  OBVIOUS
<1>2. /\ v \in ViewerRecords /\ ViewerInv(v) /\ SheetInv(v)
      /\ v.phase = "ready" /\ v.kind = "pdf" /\ v.turn < MaxTurns
  BY <1>1, ViewerType DEF TurnPage, IInv, ViewersInv
<1>3. PICK w : w = NextPage(v)
  OBVIOUS
<1>4. v.turn + 1 \in 0..MaxTurns
  BY <1>2, RenderersAssumption DEF ViewerRecords
<1>5. /\ w \in ViewerRecords /\ w.phase = "load" /\ w.shown = v.shown /\ w.asked = v.asked
      /\ w.file = v.file /\ w.kind = v.kind /\ w.id = v.id /\ w.from = v.from
      /\ w.active = v.active
  BY <1>2, <1>3, <1>4 DEF NextPage, ViewerRecords, Phases
<1>6. ViewerInv(w) /\ SheetInv(w)
  BY <1>2, <1>5 DEF ViewerInv, SheetInv
<1>7. viewers' = [viewers EXCEPT ![i] = w] /\ releases' = releases
      /\ session' = session /\ registry' = registry
  BY <1>1, <1>3 DEF TurnPage
<1>8. Becomes(i, w) /\ CallsOf(w)
  BY <1>1, <1>2, <1>5, <1>6, <1>7 DEF Becomes, CallsOf
<1> QED
  BY <1>7, <1>8, RegistryKept, OneViewer

(* A viewer that has failed.                                                   *)
LEMMA FailedViewer ==
  ASSUME NEW v \in ViewerRecords, NEW w, w = Failed(v)
  PROVE  /\ w \in ViewerRecords /\ ViewerInv(w) /\ (v.kind = "xlsx" /\ SheetInv(v) => SheetInv(w))
         /\ w.phase = "failed"
         /\ w.file = v.file /\ w.kind = v.kind /\ w.id = v.id /\ w.from = v.from
         /\ w.active = v.active
<1>1. /\ w \in ViewerRecords /\ w.phase = "failed" /\ w.shown = Nothing /\ w.asked = {}
      /\ w.file = v.file /\ w.kind = v.kind /\ w.id = v.id /\ w.from = v.from
      /\ w.active = v.active /\ w.turn = v.turn /\ w.offset = v.offset
  <2>1. Nothing \in Shown /\ {} \in SUBSET Questions /\ "failed" \in Phases
    BY DEF Shown, Phases
  <2> QED
    BY <2>1 DEF Failed, ViewerRecords
<1> QED
  BY <1>1 DEF ViewerInv, SheetInv, Before

(* A page of a PDF that is too large.                                          *)
LEMMA PageTooLargeStep ==
  ASSUME IInv, NEW i \in Numbers, PageTooLarge(i)
  PROVE  IInv'
<1>1. PICK v : v = viewers[i]
  OBVIOUS
<1>2. /\ v \in ViewerRecords /\ v.phase = "ready" /\ v.kind = "pdf"
  BY <1>1, ViewerType DEF PageTooLarge, IInv
<1>3. PICK w : w = Failed(v)
  OBVIOUS
<1>4. /\ w \in ViewerRecords /\ ViewerInv(w) /\ w.phase = "failed"
      /\ w.file = v.file /\ w.kind = v.kind /\ w.id = v.id /\ w.from = v.from
      /\ w.active = v.active
  BY <1>2, <1>3, FailedViewer
<1>5. SheetInv(w)
  BY <1>2, <1>4 DEF SheetInv
<1>6. viewers' = [viewers EXCEPT ![i] = w] /\ releases' = releases \cup {<<"close", v.id>>}
      /\ session' = session /\ registry' = registry
  BY <1>1, <1>3 DEF PageTooLarge
<1>7. Becomes(i, w) /\ CallsOf(w)
  BY <1>1, <1>2, <1>4, <1>5, <1>6 DEF Becomes, CallsOf, CallsFor
<1> QED
  BY <1>6, <1>7, RegistryKept, OneViewer

(* Another window of a spreadsheet is asked for.                               *)
LEMMA TurnWindowStep ==
  ASSUME IInv, NEW i \in Numbers, TurnWindow(i)
  PROVE  IInv'
<1>1. PICK v : v = viewers[i]
  OBVIOUS
<1>2. /\ v \in ViewerRecords /\ ViewerInv(v) /\ SheetInv(v)
      /\ v.phase = "ready" /\ v.kind = "xlsx" /\ v.turn < MaxTurns
  BY <1>1, ViewerType DEF TurnWindow, IInv, ViewersInv
<1>3. PICK offset :
        /\ offset \in (IF HasNextWindow(v) THEN {NextOffset(v.offset)} ELSE {})
                        \cup (IF v.offset = 0 THEN {} ELSE {PreviousOffset(v.offset)})
        /\ viewers' = [viewers EXCEPT ![i] = Turned(v, offset)]
  BY <1>1 DEF TurnWindow
<1>4. /\ v.turn \in Nat /\ v.offset \in Nat /\ v.turn + 1 \in 0..MaxTurns
      /\ SheetRows \in Nat /\ WindowRows \in Nat /\ WindowRows > 0
      /\ v.offset = 0 \/ v.offset < SheetRows
  BY <1>2, RenderersAssumption DEF ViewerRecords, Offsets, SheetInv
<1>5. offset \in Offsets /\ (offset = 0 \/ offset < SheetRows)
  BY <1>3, <1>4 DEF HasNextWindow, NextOffset, PreviousOffset, Offsets
<1>6. PICK w : w = Turned(v, offset)
  OBVIOUS
<1>7. PICK q : q = Asks(v.turn + 1, offset)
  OBVIOUS
<1>8. v.asked \cup {q} \in SUBSET Questions
  BY <1>2, <1>4, <1>5, <1>7 DEF Questions, ViewerRecords, Asks, Shown
<1>9. /\ w \in ViewerRecords /\ w.phase = "ready" /\ w.shown = Nothing
      /\ w.asked = v.asked \cup {q} /\ w.turn = v.turn + 1 /\ w.offset = offset
      /\ w.file = v.file /\ w.kind = v.kind /\ w.id = v.id /\ w.from = v.from
      /\ w.active = v.active
  <2>1. Nothing \in Shown
    BY DEF Shown
  <2>2. PICK turn \in 0..MaxTurns : turn = v.turn + 1
    BY <1>4
  <2>3. PICK asked : asked = v.asked \cup {q}
    OBVIOUS
  <2>4. asked \in SUBSET Questions
    BY <1>8, <2>3
  <2>5. w = [v EXCEPT !.turn = turn, !.offset = offset, !.shown = Nothing, !.asked = asked]
    BY <1>2, <1>6, <1>7, <2>2, <2>3, Zenon DEF Turned, ViewerRecords
  <2>6. /\ w \in ViewerRecords /\ w.phase = v.phase /\ w.shown = Nothing
        /\ w.asked = asked /\ w.turn = turn /\ w.offset = offset
        /\ w.file = v.file /\ w.kind = v.kind /\ w.id = v.id /\ w.from = v.from
        /\ w.active = v.active
    BY <1>2, <1>5, <2>1, <2>4, <2>5 DEF ViewerRecords
  <2> QED
    BY <1>2, <2>2, <2>3, <2>6
<1>10. ViewerInv(w)
  BY <1>2, <1>9 DEF ViewerInv
<1>11. SheetInv(w)
  <2>1. ASSUME NEW question \in v.asked PROVE question[1] < w.turn
    <3>1. question[1] \in 0..MaxTurns /\ question[1] <= v.turn
      BY <1>2, <2>1 DEF SheetInv, ViewerRecords, Questions
    <3> QED
      BY <1>4, <1>9, <3>1
  <2>2. q[1] = w.turn /\ q[2] = w.offset /\ q[3] = "asked"
    BY <1>7, <1>9 DEF Asks
  <2>3. w.turn \in Nat
    BY <1>4, <1>9
  <2>4. ASSUME NEW question \in w.asked
        PROVE  /\ question[1] <= w.turn /\ (question[1] = w.turn => question[2] = w.offset)
               /\ question[3] = "answered" =>
                    question[4] = <<<<w.from, w.file>>, Rows(question[2])>>
    <3>1. CASE question = q
      BY <2>2, <2>3, <3>1
    <3>2. CASE question \in v.asked
      <4>1. question[1] \in 0..MaxTurns
        BY <1>2, <3>2 DEF ViewerRecords, Questions
      <4>2. question[3] = "answered" => question[4] = <<<<v.from, v.file>>, Rows(question[2])>>
        BY <1>2, <3>2 DEF SheetInv
      <4> QED
        BY <1>9, <2>1, <2>3, <3>2, <4>1, <4>2
    <3> QED
      BY <1>9, <3>1, <3>2
  <2> QED
    BY <1>5, <1>9, <2>4 DEF SheetInv, Before
<1>12. viewers' = [viewers EXCEPT ![i] = w] /\ releases' = releases
       /\ session' = session /\ registry' = registry
  BY <1>3, <1>6 DEF TurnWindow
<1>13. Becomes(i, w) /\ CallsOf(w)
  BY <1>1, <1>2, <1>9, <1>10, <1>11, <1>12 DEF Becomes, CallsOf
<1> QED
  BY <1>12, <1>13, RegistryKept, OneViewer

(* A question about a window is answered by the viewer's own renderer, or not. *)
LEMMA WindowRunStep ==
  ASSUME IInv, NEW i \in Numbers, NEW question \in viewers[i].asked, WindowRun(i, question)
  PROVE  IInv'
<1>1. PICK v : v = viewers[i]
  OBVIOUS
<1>2. /\ v \in ViewerRecords /\ ViewerInv(v) /\ SheetInv(v) /\ question \in v.asked
      /\ v.phase = "ready" /\ v.kind = "xlsx"
  BY <1>1, ViewerType DEF IInv, ViewersInv, ViewerInv
<1>3. question \in Questions
  BY <1>2 DEF ViewerRecords
<1>4. PICK q : q = Answered(v, question)
  OBVIOUS
<1>5. /\ q \in Questions /\ q[1] = question[1] /\ q[2] = question[2]
      /\ q[3] = "answered" => q[4] = <<<<v.from, v.file>>, Rows(question[2])>>
  <2>1. CASE session.unlocked /\ CurrentIs(registry, v.id, v.kind)
    <3>1. /\ registry.current.data = <<v.from, v.file>> /\ <<v.from, v.file>> \in Content
      BY <1>1, <1>2, <2>1, OwnCurrent
    <3>2. PICK rows : rows = Rows(question[2])
      OBVIOUS
    <3>3. question[2] \in Offsets
      BY <1>3 DEF Questions
    <3>4. rows \in SUBSET Offsets
      BY <3>2, <3>3, RenderersAssumption DEF Rows, Offsets
    <3>5. <<<<v.from, v.file>>, rows>> \in Shown
      BY <3>1, <3>4 DEF Shown
    <3>6. q = <<question[1], question[2], "answered", <<<<v.from, v.file>>, rows>>>>
      BY <1>4, <2>1, <3>1, <3>2 DEF Answered
    <3> QED
      BY <1>3, <3>2, <3>5, <3>6 DEF Questions
  <2>2. CASE ~(session.unlocked /\ CurrentIs(registry, v.id, v.kind))
    <3>1. q = <<question[1], question[2], "refused", Nothing>>
      BY <1>4, <2>2 DEF Answered
    <3> QED
      BY <1>3, <3>1 DEF Questions, Shown
  <2> QED
    BY <2>1, <2>2
<1>6. PICK asked : asked = (v.asked \ {question}) \cup {q}
  OBVIOUS
<1>7. asked \in SUBSET Questions
  BY <1>2, <1>5, <1>6 DEF ViewerRecords
<1>8. PICK w : w = [v EXCEPT !.asked = asked]
  OBVIOUS
<1>9. /\ w \in ViewerRecords /\ Same(w, v) /\ w.asked = asked
      /\ w.phase = v.phase /\ w.bytes = v.bytes /\ w.shown = v.shown /\ w.knows = v.knows
  BY <1>2, <1>7, <1>8, WithAsked
<1>10. ViewerInv(w)
  BY <1>2, <1>9 DEF Same, ViewerInv
<1>11. SheetInv(w)
  BY <1>2, <1>5, <1>6, <1>9 DEF Same, SheetInv, Before
<1>12. /\ releases' = releases /\ session' = session /\ registry' = registry
       /\ viewers' = [viewers EXCEPT ![i] = w]
  BY <1>1, <1>4, <1>6, <1>8 DEF WindowRun
<1>13. Becomes(i, w) /\ CallsOf(w)
  BY <1>1, <1>2, <1>9, <1>10, <1>11, <1>12 DEF Becomes, CallsOf, Same
<1> QED
  BY <1>12, <1>13, RegistryKept, OneViewer

(* The answer about a window of a spreadsheet.                                 *)
LEMMA WindowAnswerStep ==
  ASSUME IInv, NEW i \in Numbers, NEW question \in viewers[i].asked, WindowAnswer(i, question)
  PROVE  IInv'
<1>1. PICK v : v = viewers[i]
  OBVIOUS
<1>2. /\ v \in ViewerRecords /\ ViewerInv(v) /\ SheetInv(v)
      /\ v.phase = "ready" /\ v.kind = "xlsx"
  BY <1>1, ViewerType DEF IInv, ViewersInv, ViewerInv
<1>3. PICK asked : asked = v.asked \ {question}
  OBVIOUS
<1>4. asked \in SUBSET Questions
  BY <1>2, <1>3 DEF ViewerRecords
<1>5. PICK heard : heard = [v EXCEPT !.asked = asked]
  OBVIOUS
<1>6. /\ heard \in ViewerRecords /\ Same(heard, v) /\ heard.asked = asked
      /\ heard.phase = v.phase /\ heard.bytes = v.bytes /\ heard.shown = v.shown
      /\ heard.knows = v.knows
  BY <1>2, <1>4, <1>5, WithAsked
<1>7. ViewerInv(heard) /\ SheetInv(heard)
  BY <1>2, <1>3, <1>6 DEF Same, ViewerInv, SheetInv, Before
<1>8. releases' = releases /\ session' = session /\ registry' = registry
  BY DEF WindowAnswer
<1>9. CASE ~Awaited(v, question)
  <2>1. viewers' = [viewers EXCEPT ![i] = heard]
    BY <1>1, <1>3, <1>5, <1>9 DEF WindowAnswer
  <2>2. Becomes(i, heard) /\ CallsOf(heard)
    BY <1>1, <1>2, <1>6, <1>7, <1>8, <2>1 DEF Becomes, CallsOf, Same
  <2> QED
    BY <1>8, <2>2, RegistryKept, OneViewer
<1>10. CASE Awaited(v, question) /\ question[3] = "answered"
  <2>1. PICK shown : shown = question[4]
    OBVIOUS
  <2>2. question[2] = v.offset /\ shown = <<<<v.from, v.file>>, Rows(question[2])>>
    BY <1>1, <1>2, <1>10, <2>1 DEF Awaited, SheetInv
  <2>4. shown \in Shown
    BY <1>1, <1>2, <2>1 DEF ViewerRecords, Questions
  <2>5. shown[1] = <<v.from, v.file>> /\ shown[2] = Rows(v.offset)
    BY <2>2
  <2>6. PICK w : w = [heard EXCEPT !.shown = shown]
    OBVIOUS
  <2>7. /\ w \in ViewerRecords /\ Same(w, heard) /\ w.shown = shown
        /\ w.phase = heard.phase /\ w.bytes = heard.bytes /\ w.knows = heard.knows
        /\ w.asked = heard.asked
    BY <1>6, <2>4, <2>6, WithShown
  <2>8. ViewerInv(w) /\ SheetInv(w)
    BY <1>2, <1>6, <1>7, <2>5, <2>7 DEF Same, ViewerInv, SheetInv, Before
  <2>9. viewers' = [viewers EXCEPT ![i] = w]
    BY <1>1, <1>3, <1>5, <1>10, <2>1, <2>6 DEF WindowAnswer
  <2>10. Becomes(i, w) /\ CallsOf(w)
    BY <1>1, <1>2, <1>6, <1>8, <2>7, <2>8, <2>9 DEF Becomes, CallsOf, Same
  <2> QED
    BY <1>8, <2>10, RegistryKept, OneViewer
<1>11. CASE Awaited(v, question) /\ question[3] # "answered"
  <2>1. PICK w : w = Failed(v)
    OBVIOUS
  <2>2. /\ w \in ViewerRecords /\ ViewerInv(w) /\ SheetInv(w) /\ w.phase = "failed"
        /\ w.file = v.file /\ w.kind = v.kind /\ w.id = v.id /\ w.from = v.from
        /\ w.active = v.active
    BY <1>2, <2>1, FailedViewer
  <2>3. viewers' = [viewers EXCEPT ![i] = w]
    BY <1>1, <1>11, <2>1 DEF WindowAnswer
  <2>4. Becomes(i, w) /\ CallsOf(w)
    BY <1>1, <1>2, <1>8, <2>2, <2>3 DEF Becomes, CallsOf
  <2> QED
    BY <1>8, <2>4, RegistryKept, OneViewer
<1> QED
  BY <1>9, <1>10, <1>11

-------------------------------------------------------------------------------
(* The steps that change the registry, the session or all viewers. *)

(* What is said of numbers and calls when both stay: the registry's count and  *)
(* the session are the same.                                                   *)
LEMMA GivenKept ==
  ASSUME session' = session, registry'.next = registry.next, NEW id
  PROVE  Given(id)' <=> Given(id)
BY DEF Given

(* A call of a viewer that was replaced is run.                                *)
LEMMA ReleaseRunStep ==
  ASSUME IInv, NEW call \in releases, ReleaseRun(call)
  PROVE  IInv'
<1>1. viewers' = viewers /\ releases' \subseteq releases /\ session' = session
  BY DEF ReleaseRun
<1>2. SameRequests
  BY ReleasedRequests DEF ReleaseRun
<1>3. TypeOK' /\ RegistryInv' /\ ViewersInv'
  BY <1>1, <1>2 DEF IInv, TypeOK, SameRequests, ViewersInv, Numbers
<1>4. NumbersInv' /\ ReleasesInv'
  BY <1>1, <1>2 DEF IInv, SameRequests, NumbersInv, ReleasesInv, Given, Numbers
<1>5. RequestsInv'
  <2> SUFFICES ASSUME NEW i \in Numbers, NEW request \in {registry'.pending, registry'.current},
                      viewers[i].id # NoId, viewers[i].id = request.id,
                      viewers[i].phase # "gone"
               PROVE  request.file = viewers[i].file /\ viewers[i].from = session.archive
    BY <1>1 DEF RequestsInv, OwnRequest, Numbers
  <2>1. OwnRequest(viewers[i], registry.pending) /\ OwnRequest(viewers[i], registry.current)
    BY DEF IInv, RequestsInv
  <2> QED
    BY <1>2, <2>1 DEF SameRequests, OwnRequest
<1> QED
  BY <1>3, <1>4, <1>5 DEF IInv

(* The session ends, or a licence begins another: the registry begins anew.    *)
LEMMA SessionStep ==
  ASSUME IInv, Lock \/ \E a \in Archives : Unlock(a)
  PROVE  IInv'
<1>1. viewers' = viewers /\ releases' = releases /\ registry' = NewRegistry
  BY DEF Lock, Unlock
<1>2. /\ session \in Sessions
      /\ session'.archive \in Archives \cup {NoArchive} /\ session'.serial \in 0..MaxSerial
      /\ session' \in Sessions
      /\ session'.unlocked => session'.archive \in Archives /\ session'.serial = session.serial + 1
      /\ session'.serial \in {session.serial, session.serial + 1}
  <2>1. session \in Sessions
    BY DEF IInv, TypeOK
  <2>2. CASE Lock
    <3>1. /\ session'.archive = session.archive /\ session'.serial = session.serial
          /\ session'.unlocked = FALSE /\ session' \in Sessions
      BY <2>1, <2>2 DEF Lock, Sessions
    <3> QED
      BY <2>1, <3>1 DEF Sessions
  <2>3. ASSUME NEW a \in Archives, Unlock(a)
        PROVE  /\ session'.archive = a /\ session'.serial = session.serial + 1
               /\ session' \in Sessions
    <3>1. PICK serial : serial = session.serial + 1
      OBVIOUS
    <3>2. serial \in 0..MaxSerial
      BY <2>1, <2>3, <3>1, RenderersAssumption DEF Unlock, Sessions
    <3>3. session' = [archive |-> a, serial |-> serial, unlocked |-> TRUE]
      BY <2>3, <3>1, Zenon DEF Unlock
    <3>4. session' \in Sessions
      BY <3>2, <3>3, Zenon DEF Sessions
    <3> QED
      BY <3>1, <3>3, <3>4
  <2> QED
    BY <2>1, <2>2, <2>3 DEF Sessions
<1>3. registry' \in Registries /\ registry'.pending.id = NoId /\ registry'.current.id = NoId
      /\ registry'.current.kind \notin Kinds
  BY <1>1, RenderersAssumption DEF NewRegistry, NoPending, NoCurrent, Registries, Ids, Kinds
<1>4. TypeOK' /\ ViewersInv'
  BY <1>1, <1>2, <1>3 DEF IInv, TypeOK, ViewersInv, Numbers
<1>5. RegistryInv'
  BY <1>1, <1>2, <1>3 DEF RegistryInv, Sessions, Kinds
<1>6. ASSUME NEW id \in Ids, Given(id) PROVE Given(id)'
  <2>1. CASE id = NoId
    BY <2>1 DEF Given
  <2>2. CASE id # NoId
    <3>1. id[1] \in 1..MaxSerial /\ id[1] <= session.serial
      BY <1>6, <2>2 DEF Given, Ids
    <3>2. session.serial \in Nat
      BY <1>2, RenderersAssumption DEF Sessions
    <3>3. id[1] <= session'.serial
      BY <1>2, <3>1, <3>2, RenderersAssumption
    <3>4. session'.unlocked => id[1] # session'.serial
      BY <1>2, <3>1, <3>2, RenderersAssumption
    <3> QED
      BY <3>3, <3>4 DEF Given
  <2> QED
    BY <2>1, <2>2
<1>7. NumbersInv'
  <2>1. ASSUME NEW i \in Numbers PROVE viewers[i].id \in Ids /\ Given(viewers[i].id)
    BY ViewerType DEF IInv, NumbersInv, ViewerRecords
  <2>2. ASSUME NEW i \in Numbers, NEW id, id = viewers[i].id PROVE Given(id)'
    BY <1>6, <2>1, <2>2
  <2>3. ASSUME NEW i \in Numbers' PROVE Given(viewers[i].id)'
    BY <1>1, <2>2 DEF Numbers
  <2> QED
    BY <1>1, <2>3 DEF IInv, NumbersInv, Numbers
<1>8. RequestsInv'
  BY <1>3 DEF RequestsInv, OwnRequest
<1>9. ReleasesInv'
  <2>1. ASSUME NEW call \in releases, NEW id, id = call[2] PROVE Given(id)'
    <3>1. call[2] \in Ids /\ Given(call[2])
      BY DEF IInv, TypeOK, ReleasesInv
    <3> QED
      BY <1>6, <2>1, <3>1
  <2>2. ASSUME NEW call \in releases' PROVE Given(call[2])'
    BY <1>1, <2>1
  <2> QED
    BY <1>1, <2>2 DEF IInv, ReleasesInv, Numbers
<1> QED
  BY <1>4, <1>5, <1>7, <1>8, <1>9 DEF IInv

(* renderer_begin_open: a viewer gets a number no viewer and no call has.      *)
LEMMA BeginRunStep ==
  ASSUME IInv, NEW i \in Numbers, BeginRun(i)
  PROVE  IInv'
<1>1. CASE ~HasFile(viewers[i])
  BY <1>1, RefusedStep DEF BeginRun
<1>2. CASE HasFile(viewers[i])
  <2>1. PICK v : v = viewers[i]
    OBVIOUS
  <2>2. v \in ViewerRecords /\ ViewerInv(v) /\ SheetInv(v) /\ v.phase = "begin"
    BY <2>1, ViewerType DEF BeginRun, IInv, ViewersInv
  <2>3. PICK id : id = RequestId(session.serial, registry.next + 1)
    OBVIOUS
  <2>4. /\ session.unlocked /\ session.archive \in Archives
        /\ session.serial \in 1..MaxSerial /\ registry.next \in Nat
    BY <1>2, RenderersAssumption DEF HasFile, IInv, TypeOK, RegistryInv, Sessions, Registries
  <2>5. id \in Ids /\ id # NoId /\ id[1] = session.serial /\ id[2] = registry.next + 1
    BY <2>3, <2>4, RenderersAssumption DEF RequestId, Ids, NoId
  <2>6. PICK w : w = Numbered(v, id)
    OBVIOUS
  <2>7. /\ w \in ViewerRecords /\ w.phase = "begun" /\ w.from = session.archive /\ w.id = id
        /\ w.file = v.file /\ w.kind = v.kind /\ w.shown = v.shown /\ w.asked = v.asked
        /\ w.turn = v.turn /\ w.offset = v.offset
    BY <2>2, <2>4, <2>5, <2>6 DEF Numbered, ViewerRecords, Phases
  <2>8. ViewerInv(w) /\ SheetInv(w)
    BY <2>2, <2>4, <2>5, <2>7 DEF ViewerInv, SheetInv, Before
  <2>9. viewers' = [viewers EXCEPT ![i] = w] /\ session' = session /\ releases' = releases
    BY <1>2, <2>1, <2>3, <2>6 DEF BeginRun
  <2>10. /\ viewers' \in Seq(ViewerRecords) /\ Len(viewers') = Len(viewers)
         /\ Numbers' = Numbers
         /\ \A j \in Numbers : viewers'[j] = IF j = i THEN w ELSE viewers[j]
    BY <2>7, <2>9, ViewersAfter DEF IInv
  <2>11. registry' = [next    |-> registry.next + 1,
                      pending |-> [id |-> id, file |-> v.file, kind |-> v.kind],
                      current |-> NoCurrent]
    BY <1>2, <2>1, <2>3 DEF BeginRun, Begun
  <2>12. /\ registry'.next = registry.next + 1 /\ registry'.pending.id = id
         /\ registry'.pending.file = v.file /\ registry'.current = NoCurrent
    BY <2>11
  <2>13. registry' \in Registries
    <3>1. PICK next \in Nat : next = registry.next + 1
      BY <2>4
    <3>2. v.file \in Files /\ v.kind \in Kinds
      BY <2>2 DEF ViewerRecords
    <3>3. NoCurrent \in [id : Ids, file : Files \cup {Nothing}, kind : Kinds \cup {Nothing},
                         data : {Nothing} \cup Content]
      BY DEF NoCurrent, Ids
    <3>4. [id |-> id, file |-> v.file, kind |-> v.kind]
            \in [id : Ids, file : Files \cup {Nothing}, kind : Kinds \cup {Nothing}]
      BY <2>5, <3>2
    <3> QED
      BY <2>11, <3>1, <3>3, <3>4, Zenon DEF Registries
  <2>14. RegistryInv'
    BY <2>3, <2>4, <2>9, <2>12, RenderersAssumption DEF RegistryInv, NoCurrent, Kinds
  <2>15. ASSUME NEW old \in Ids, Given(old) PROVE Given(old)' /\ old # id
    <3>1. CASE old = NoId
      BY <2>5, <3>1 DEF Given
    <3>2. CASE old # NoId
      <4>1. old[2] \in Nat
        BY <3>2 DEF Ids
      <4>2. old[1] <= session.serial /\ (old[1] = session.serial => old[2] <= registry.next)
        BY <2>4, <2>15, <3>2 DEF Given
      <4>3. old # id
        BY <2>4, <2>5, <4>1, <4>2
      <4>4. Given(old)'
        BY <2>4, <2>9, <2>12, <4>1, <4>2 DEF Given
      <4> QED
        BY <4>3, <4>4
    <3> QED
      BY <3>1, <3>2
  <2>16. Given(id)'
    BY <2>4, <2>5, <2>9, <2>12 DEF Given
  <2>17. ASSUME NEW j \in Numbers, j # i
         PROVE  viewers'[j] = viewers[j] /\ viewers[j].id # id
    <3>1. viewers[j].id \in Ids /\ Given(viewers[j].id)
      BY ViewerType DEF IInv, NumbersInv, ViewerRecords
    <3> QED
      BY <2>10, <2>15, <2>17, <3>1
  <2>18. TypeOK'
    BY <2>9, <2>10, <2>13 DEF IInv, TypeOK
  <2>19. NumbersInv'
    <3>1. ASSUME NEW j \in Numbers, NEW n, n = viewers'[j].id PROVE Given(n)'
      <4>1. CASE j = i
        BY <2>7, <2>10, <2>16, <3>1, <4>1
      <4>2. CASE j # i
        <5>1. viewers[j].id \in Ids /\ Given(viewers[j].id)
          BY ViewerType DEF IInv, NumbersInv, ViewerRecords
        <5> QED
          BY <2>15, <2>17, <3>1, <4>2, <5>1
      <4> QED
        BY <4>1, <4>2
    <3>2. ASSUME NEW j \in Numbers' PROVE Given(viewers[j].id)'
      BY <2>10, <3>1
    <3>3. ASSUME NEW j \in Numbers, NEW k \in Numbers, viewers'[j].id = viewers'[k].id
          PROVE  j = k \/ viewers'[j].id = NoId
      <4>1. CASE j # i /\ k # i
        BY <2>17, <3>3, <4>1 DEF IInv, NumbersInv
      <4>2. CASE j = i \/ k = i
        BY <2>7, <2>10, <2>17, <3>3, <4>2
      <4> QED
        BY <4>1, <4>2
    <3> QED
      BY <2>10, <3>2, <3>3 DEF NumbersInv
  <2>20. RequestsInv'
    <3>1. ASSUME NEW j \in Numbers, viewers'[j].id = registry'.pending.id
          PROVE  registry'.pending.file = viewers'[j].file /\ viewers'[j].from = session'.archive
      <4>1. j = i
        BY <2>12, <2>17, <3>1
      <4> QED
        BY <2>7, <2>9, <2>10, <2>12, <4>1
    <3>2. registry'.current.id = NoId
      BY <2>12 DEF NoCurrent
    <3> QED
      BY <2>10, <3>1, <3>2 DEF RequestsInv, OwnRequest
  <2>21. ReleasesInv'
    <3>1. ASSUME NEW call \in releases, NEW n, n = call[2] PROVE Given(n)' /\ n # id
      <4>1. n \in Ids /\ Given(n)
        BY <3>1 DEF IInv, TypeOK, ReleasesInv
      <4> QED
        BY <2>15, <4>1
    <3>2. ASSUME NEW call \in releases' PROVE Given(call[2])'
      BY <2>9, <3>1
    <3>3. ASSUME NEW call \in releases, NEW j \in Numbers, viewers'[j].id = call[2]
          PROVE  call[2] = NoId \/ ~viewers'[j].active \/ viewers'[j].phase = "failed"
      <4>1. j # i
        BY <2>7, <2>10, <3>1, <3>3
      <4> QED
        BY <2>17, <3>3, <4>1 DEF IInv, ReleasesInv
    <3> QED
      BY <2>9, <2>10, <3>2, <3>3 DEF ReleasesInv
  <2>22. ViewersInv'
    BY <2>8, <2>10 DEF IInv, ViewersInv
  <2> QED
    BY <2>14, <2>18, <2>19, <2>20, <2>21, <2>22 DEF IInv
<1> QED
  BY <1>1, <1>2

(* The viewer that is replaced keeps its number and is no longer active.       *)
LEMMA ReplacedViewer ==
  ASSUME NEW v \in ViewerRecords, ViewerInv(v), SheetInv(v), NEW w, w = Replaced(v)
  PROVE  /\ w \in ViewerRecords /\ ViewerInv(w) /\ SheetInv(w)
         /\ w.id = v.id /\ ~w.active
         /\ w.phase = "gone" \/ (v.phase # "gone" /\ w.file = v.file /\ w.from = v.from)
<1>1. CASE v.phase \in {"ready", "failed", "gone"}
  BY <1>1, OverViewer DEF Replaced
<1>2. CASE v.phase \notin {"ready", "failed", "gone"}
  <2>1. w = [v EXCEPT !.active = FALSE, !.shown = Nothing, !.offset = 0, !.turn = 0]
    BY <1>2 DEF Replaced
  <2>2. Nothing \in Shown /\ 0 \in Offsets /\ 0 \in 0..MaxTurns
    BY RenderersAssumption DEF Shown, Offsets
  <2>3. /\ w \in ViewerRecords /\ w.phase = v.phase /\ w.bytes = v.bytes /\ w.asked = v.asked
        /\ w.knows = v.knows /\ w.kind = v.kind
        /\ w.file = v.file /\ w.id = v.id /\ w.from = v.from /\ ~w.active
    <3>1. PICK u : u = [v EXCEPT !.active = FALSE]
      OBVIOUS
    <3>2. /\ u \in ViewerRecords /\ u.phase = v.phase /\ u.bytes = v.bytes /\ u.asked = v.asked
          /\ u.knows = v.knows /\ u.kind = v.kind
          /\ u.file = v.file /\ u.id = v.id /\ u.from = v.from /\ ~u.active
      BY <3>1 DEF ViewerRecords
    <3>3. w = [u EXCEPT !.shown = Nothing, !.offset = 0, !.turn = 0]
      BY <2>1, <3>1
    <3>4. /\ w \in ViewerRecords /\ w.phase = u.phase /\ w.bytes = u.bytes /\ w.asked = u.asked
          /\ w.knows = u.knows /\ w.kind = u.kind
          /\ w.file = u.file /\ w.id = u.id /\ w.from = u.from /\ w.active = u.active
      BY <2>2, <3>2, <3>3 DEF ViewerRecords
    <3> QED
      BY <3>2, <3>4
  <2>4. w.shown = Nothing /\ w.offset = 0 /\ w.turn = 0
    BY <2>1 DEF ViewerRecords
  <2>5. v.asked = {}
    BY <1>2 DEF ViewerInv
  <2>6. ViewerInv(w)
    BY <2>3, <2>4, <2>5 DEF ViewerInv
  <2>7. SheetInv(w)
    BY <2>3, <2>4, <2>5 DEF SheetInv
  <2> QED
    BY <1>2, <2>3, <2>6, <2>7
<1> QED
  BY <1>1, <1>2

(* The clean-up makes calls for viewers that are replaced by it.               *)
LEMMA CleanupCalls ==
  ASSUME NEW call \in CleanupOfActive
  PROVE  \E j \in Numbers : viewers[j].active /\ call \in CallsFor(viewers[j].id)
<1>1. PICK j \in {k \in Numbers : viewers[k].active} : call \in Cleanup(viewers[j])
  BY DEF CleanupOfActive
<1> QED
  BY <1>1 DEF Cleanup, CallsFor

(* All viewers are replaced, and another may be mounted.                       *)
LEMMA AllViewers ==
  ASSUME IInv, session' = session, registry' = registry,
         releases' = releases \cup CleanupOfActive,
         viewers' \in Seq(ViewerRecords), Len(viewers') <= MaxViewers,
         Numbers \subseteq Numbers',
         \A j \in Numbers : viewers'[j] = Replaced(viewers[j]),
         \A j \in Numbers' \ Numbers :
           /\ viewers'[j].id = NoId
           /\ ViewerInv(viewers'[j]) /\ SheetInv(viewers'[j])
  PROVE  IInv'
<1>1. ASSUME NEW j \in Numbers
      PROVE  /\ viewers[j] \in ViewerRecords
             /\ viewers'[j] \in ViewerRecords /\ ViewerInv(viewers'[j]) /\ SheetInv(viewers'[j])
             /\ viewers'[j].id = viewers[j].id /\ ~viewers'[j].active
             /\ \/ viewers'[j].phase = "gone"
                \/ /\ viewers[j].phase # "gone"
                   /\ viewers'[j].file = viewers[j].file /\ viewers'[j].from = viewers[j].from
  <2>1. PICK v : v = viewers[j]
    OBVIOUS
  <2>2. PICK w : w = viewers'[j]
    OBVIOUS
  <2>3. v \in ViewerRecords /\ ViewerInv(v) /\ SheetInv(v) /\ w = Replaced(v)
    BY <2>1, <2>2, ViewerType DEF IInv, ViewersInv
  <2> QED
    BY <2>1, <2>2, <2>3, ReplacedViewer
<1>2. ASSUME NEW call \in CleanupOfActive
      PROVE  \E j \in Numbers : call \in CallsFor(viewers[j].id)
  BY CleanupCalls
<1>3. ASSUME NEW id PROVE Given(id)' <=> Given(id)
  BY GivenKept
<1>4. ASSUME NEW j \in Numbers PROVE viewers[j].id \in Ids /\ Given(viewers[j].id)
  BY <1>1 DEF IInv, NumbersInv, ViewerRecords
<1>5. TypeOK'
  <2>1. CleanupOfActive \subseteq {"cancel", "close"} \X Ids
    BY <1>2, <1>4 DEF CallsFor
  <2> QED
    BY <2>1 DEF IInv, TypeOK
<1>6. RegistryInv'
  BY DEF IInv, RegistryInv
<1>7. NumbersInv'
  <2>1. ASSUME NEW j \in Numbers', NEW n, n = viewers'[j].id PROVE Given(n)'
    <3>1. CASE j \in Numbers
      BY <1>1, <1>3, <1>4, <2>1, <3>1
    <3>2. CASE j \notin Numbers
      BY <2>1, <3>2 DEF Given
    <3> QED
      BY <3>1, <3>2
  <2>2. ASSUME NEW j \in Numbers' PROVE Given(viewers[j].id)'
    BY <2>1
  <2>3. ASSUME NEW j \in Numbers', NEW k \in Numbers', viewers'[j].id = viewers'[k].id
        PROVE  j = k \/ viewers'[j].id = NoId
    <3>1. CASE j \in Numbers /\ k \in Numbers
      BY <1>1, <2>3, <3>1 DEF IInv, NumbersInv
    <3>2. CASE j \notin Numbers \/ k \notin Numbers
      BY <2>3, <3>2
    <3> QED
      BY <3>1, <3>2
  <2> QED
    BY <2>2, <2>3 DEF NumbersInv
<1>8. RequestsInv'
  <2> SUFFICES ASSUME NEW j \in Numbers', NEW request \in {registry.pending, registry.current},
                      viewers'[j].id # NoId, viewers'[j].id = request.id,
                      viewers'[j].phase # "gone"
               PROVE  request.file = viewers'[j].file /\ viewers'[j].from = session.archive
    BY DEF RequestsInv, OwnRequest
  <2>1. j \in Numbers
    OBVIOUS
  <2>2. OwnRequest(viewers[j], registry.pending) /\ OwnRequest(viewers[j], registry.current)
    BY <2>1 DEF IInv, RequestsInv
  <2> QED
    BY <1>1, <2>1, <2>2 DEF OwnRequest
<1>9. ReleasesInv'
  <2>1. ASSUME NEW call \in releases', NEW n, n = call[2] PROVE Given(n)'
    <3>1. CASE call \in releases
      BY <1>3, <2>1, <3>1 DEF IInv, ReleasesInv
    <3>2. CASE call \in CleanupOfActive
      BY <1>2, <1>3, <1>4, <2>1, <3>2 DEF CallsFor
    <3> QED
      BY <3>1, <3>2
  <2>2. ASSUME NEW call \in releases' PROVE Given(call[2])'
    BY <2>1
  <2>3. ASSUME NEW call \in releases', NEW j \in Numbers', viewers'[j].id = call[2]
        PROVE  call[2] = NoId \/ ~viewers'[j].active \/ viewers'[j].phase = "failed"
    BY <1>1, <2>3
  <2> QED
    BY <2>2, <2>3 DEF ReleasesInv
<1>10. ViewersInv'
  <2>1. ASSUME NEW j \in Numbers' PROVE ViewerInv(viewers'[j]) /\ SheetInv(viewers'[j])
    BY <1>1
  <2> QED
    BY <2>1 DEF ViewersInv
<1> QED
  BY <1>5, <1>6, <1>7, <1>8, <1>9, <1>10 DEF IInv

(* The sequence of the replaced viewers.                                       *)
LEMMA ReplacedSequence ==
  ASSUME IInv
  PROVE  /\ AllReplaced \in Seq(ViewerRecords) /\ Len(AllReplaced) = Len(viewers)
         /\ \A j \in Numbers : AllReplaced[j] = Replaced(viewers[j])
<1>1. ASSUME NEW j \in Numbers PROVE Replaced(viewers[j]) \in ViewerRecords
  BY ViewerType, ReplacedViewer DEF IInv, ViewersInv
<1>2. Len(viewers) \in Nat
  BY DEF IInv, TypeOK
<1> QED
  BY <1>1, <1>2 DEF AllReplaced, Numbers

(* The viewer is closed.                                                       *)
LEMMA CloseViewerStep ==
  ASSUME IInv, CloseViewer
  PROVE  IInv'
<1>1. viewers' = AllReplaced /\ releases' = releases \cup CleanupOfActive
      /\ session' = session /\ registry' = registry
  BY DEF CloseViewer
<1>2. Numbers' = Numbers
  BY <1>1, ReplacedSequence DEF Numbers
<1> QED
  BY <1>1, <1>2, ReplacedSequence, AllViewers DEF IInv, TypeOK

(* Another file is selected.                                                   *)
LEMMA SelectStep ==
  ASSUME IInv, NEW a \in Archives, NEW f \in Files, Select(a, f)
  PROVE  IInv'
<1>1. PICK s : s = AllReplaced
  OBVIOUS
<1>2. PICK n : n = NewViewer(f, KindOf[a][f])
  OBVIOUS
<1>3. s \in Seq(ViewerRecords) /\ Len(s) = Len(viewers)
      /\ \A j \in Numbers : s[j] = Replaced(viewers[j])
  BY <1>1, ReplacedSequence
<1>4. n \in ViewerRecords
  BY <1>2, NewViewerType, RenderersAssumption
<1>5. n.id = NoId /\ n.phase = "begin" /\ n.knows = "nothing" /\ n.shown = Nothing
      /\ n.offset = 0 /\ n.turn = 0 /\ n.asked = {}
  BY <1>2 DEF NewViewer
<1>6. ViewerInv(n) /\ SheetInv(n)
  BY <1>5 DEF ViewerInv, SheetInv, Before
<1>7. viewers' = Append(s, n) /\ releases' = releases \cup CleanupOfActive
      /\ session' = session /\ registry' = registry /\ Len(viewers) < MaxViewers
  BY <1>1, <1>2 DEF Select
<1>8. Len(viewers) \in Nat
  BY DEF IInv, TypeOK
<1>9. /\ viewers' \in Seq(ViewerRecords) /\ Len(viewers') = Len(viewers) + 1
      /\ \A j \in Numbers : viewers'[j] = s[j]
      /\ viewers'[Len(viewers) + 1] = n
  BY <1>3, <1>4, <1>7, <1>8 DEF Numbers
<1>10. Numbers' = Numbers \cup {Len(viewers) + 1}
  BY <1>8, <1>9 DEF Numbers
<1>11. Len(viewers') <= MaxViewers
  BY <1>7, <1>8, <1>9, RenderersAssumption
<1> QED
  BY <1>3, <1>5, <1>6, <1>7, <1>9, <1>10, <1>11, AllViewers

-------------------------------------------------------------------------------
(* The theorems. *)

(* Nothing is mounted and nothing is unlocked at first.                        *)
LEMMA InitIInv == Init => IInv
<1> SUFFICES ASSUME Init PROVE IInv
  OBVIOUS
<1>1. /\ session.archive = NoArchive /\ session.serial = 0 /\ ~session.unlocked
      /\ session \in Sessions
  <2>1. 0 \in 0..MaxSerial
    BY RenderersAssumption
  <2>2. session = [archive |-> NoArchive, serial |-> 0, unlocked |-> FALSE]
    BY DEF Init
  <2>3. session \in Sessions
    BY <2>1, <2>2, Zenon DEF Sessions
  <2> QED
    BY <2>2, <2>3
<1>2. registry = NewRegistry /\ viewers = <<>> /\ releases = {}
  BY DEF Init
<1>3. registry \in Registries /\ registry.pending.id = NoId /\ registry.current.id = NoId
      /\ registry.current.kind \notin Kinds
  BY <1>2, RenderersAssumption DEF NewRegistry, NoPending, NoCurrent, Registries, Ids, Kinds
<1>4. TypeOK
  BY <1>1, <1>2, <1>3, RenderersAssumption DEF TypeOK
<1>5. RegistryInv
  BY <1>1, <1>2, <1>3 DEF RegistryInv, Kinds
<1>6. NumbersInv /\ RequestsInv /\ ReleasesInv /\ ViewersInv
  BY <1>2 DEF NumbersInv, RequestsInv, ReleasesInv, ViewersInv, Numbers
<1> QED
  BY <1>4, <1>5, <1>6 DEF IInv

(* Whatever a viewer's effect does keeps the invariant.                        *)
LEMMA ViewerIInv ==
  ASSUME IInv, NEW i \in Numbers, ViewerStep(i)
  PROVE  IInv'
<1>1. OpenCommand(i) => IInv'
  BY OpenReadStep, OpenCompleteStep, OpenFailsStep DEF OpenCommand
<1>2. \A question \in viewers[i].asked :
        WindowRun(i, question) \/ WindowAnswer(i, question) => IInv'
  BY WindowRunStep, WindowAnswerStep
<1> QED
  BY <1>1, <1>2, BeginRunStep, BeginAnswerStep, RefusedAnswerStep, PdfOpenedStep,
     ImageOpenedStep, DocxOpenedStep, XlsxOpenedStep, PdfReadRangeStep, PdfLoadedStep,
     ImageRenderDataStep, ImageLoadedStep
     DEF ViewerStep, PdfOpen, ImageOpen, DocxOpen, XlsxOpen

(* The invariant is inductive.                                                 *)
LEMMA NextIInv == IInv /\ [Next]_vars => IInv'
<1> SUFFICES ASSUME IInv, [Next]_vars PROVE IInv'
  OBVIOUS
<1>1. CASE \E a \in Archives, f \in Files : Select(a, f)
  BY <1>1, SelectStep
<1>2. CASE CloseViewer
  BY <1>2, CloseViewerStep
<1>3. CASE \E i \in Numbers : ViewerStep(i)
  BY <1>3, ViewerIInv
<1>4. CASE \E i \in Numbers : TurnPage(i) \/ TurnWindow(i) \/ PageTooLarge(i)
  BY <1>4, TurnPageStep, TurnWindowStep, PageTooLargeStep
<1>5. CASE \E call \in releases : ReleaseRun(call)
  BY <1>5, ReleaseRunStep
<1>6. CASE Lock \/ \E a \in Archives : Unlock(a)
  BY <1>6, SessionStep
<1>7. CASE UNCHANGED vars
  BY <1>7 DEF vars, IInv, TypeOK, RegistryInv, NumbersInv, RequestsInv, ReleasesInv, ViewersInv,
              Numbers, Given, OwnRequest
<1> QED
  BY <1>1, <1>2, <1>3, <1>4, <1>5, <1>6, <1>7 DEF Next

(* The inductive invariant holds in every state.                               *)
LEMMA Invariance == Spec => []IInv
BY InitIInv, NextIInv, PTL DEF Spec

(* The session, the registry, the viewers and the calls on their way have      *)
(* their types in every state.                                                 *)
THEOREM TypeCorrect == Spec => []TypeOK
BY Invariance, PTL DEF IInv

(* What is on the screen is the viewer's own file, of the archive its request  *)
(* began in, and in a spreadsheet the rows it stands at: in any number of      *)
(* viewers and sessions, whatever order the calls and answers come in.         *)
THEOREM ShowsOwnFile == Spec => []ViewerShowsWhatItAsked
<1>1. IInv => ViewerShowsWhatItAsked
  <2> SUFFICES ASSUME IInv, NEW i \in Numbers, viewers[i].shown # Nothing
               PROVE  /\ viewers[i].shown[1] = <<viewers[i].from, viewers[i].file>>
                      /\ viewers[i].kind = "xlsx" =>
                           /\ viewers[i].shown[2] = Rows(viewers[i].offset)
                           /\ SheetRows = 0 \/ viewers[i].shown[2] # {}
    BY DEF ViewerShowsWhatItAsked
  <2>1. PICK v : v = viewers[i]
    OBVIOUS
  <2>2. v \in ViewerRecords /\ ViewerInv(v) /\ SheetInv(v)
    BY <2>1, ViewerType DEF IInv, ViewersInv
  <2>3. v.shown[1] = <<v.from, v.file>>
    BY <2>1, <2>2 DEF ViewerInv
  <2>4. ASSUME v.kind = "xlsx"
        PROVE  v.shown[2] = Rows(v.offset) /\ (SheetRows = 0 \/ Rows(v.offset) # {})
    <3>1. v.shown[2] = Rows(v.offset) /\ (v.offset = 0 \/ v.offset < SheetRows)
      BY <2>1, <2>2, <2>4 DEF SheetInv
    <3>2. v.offset \in Nat /\ SheetRows \in Nat /\ WindowRows \in Nat /\ WindowRows > 0
      BY <2>2, RenderersAssumption DEF ViewerRecords, Offsets
    <3>3. SheetRows = 0 \/ v.offset \in Rows(v.offset)
      BY <3>1, <3>2 DEF Rows
    <3> QED
      BY <3>1, <3>3
  <2> QED
    BY <2>1, <2>3, <2>4
<1> QED
  BY <1>1, Invariance, PTL

(* Who still has a renderer after the registry has opened the pending one.     *)
LEMMA HoldsCompleted ==
  ASSUME IInv, NEW bytes, registry' = Completed(registry, bytes), NEW id, Holds(registry, id),
         registry.pending.id # NoId
  PROVE  Holds(registry', id)
<1>1. registry'.current.id = registry.pending.id
  BY DEF Completed, IInv, TypeOK, Registries
<1>2. registry.pending.id = RequestId(session.serial, registry.next)
      /\ registry.current.id \in {NoId, RequestId(session.serial, registry.next)}
  BY DEF IInv, RegistryInv
<1> QED
  BY <1>1, <1>2 DEF Holds

(* A request that is cancelled or closed is the one that was named.            *)
LEMMA HoldsReleased ==
  ASSUME IInv, NEW other, registry' \in {Cancelled(registry, other), Closed(registry, other)},
         NEW id, Holds(registry, id), id # other
  PROVE  Holds(registry', id)
<1>1. registry \in Registries
  BY DEF IInv, TypeOK
<1>2. CASE registry' = Cancelled(registry, other)
  <2>1. registry'.current = registry.current
        /\ (registry'.pending = registry.pending \/ registry.pending.id = other)
    BY <1>1, <1>2 DEF Cancelled, Registries
  <2> QED
    BY <2>1 DEF Holds
<1>3. CASE registry' = Closed(registry, other)
  <2>1. registry'.pending = registry.pending
        /\ (registry'.current = registry.current \/ registry.current.id = other)
    BY <1>1, <1>3 DEF Closed, Registries
  <2> QED
    BY <2>1 DEF Holds
<1> QED
  BY <1>2, <1>3

(* The renderer of a mounted viewer that has not failed goes by a step of its  *)
(* own, by another's beginning or with the session only: the late cancel or    *)
(* close of a viewer that was replaced never takes it.                         *)
THEOREM ReleasesNoOther == Spec => NoForeignRelease
<1>1. ASSUME IInv, [Next]_vars, NEW i \in Numbers,
             viewers[i].active, viewers[i].phase # "failed",
             Holds(registry, viewers[i].id), ~Holds(registry', viewers[i].id)
      PROVE  \/ session' # session
             \/ viewers'[i] # viewers[i]
             \/ registry'.next > registry.next
  <2>1. registry' # registry
    BY <1>1
  <2>2. CASE \E j \in Numbers : BeginRun(j)
    <3>1. registry'.next = registry.next + 1 /\ registry.next \in Nat
      BY <1>1, <2>1, <2>2 DEF BeginRun, Begun, IInv, TypeOK, Registries
    <3> QED
      BY <3>1
  <2>3. ASSUME NEW j \in Numbers, OpenComplete(j)
        PROVE  FALSE
    <3>1. registry.pending.id # NoId
      BY <1>1, <2>3, ViewerType DEF OpenComplete, PendingIs, IInv, ViewersInv, ViewerInv
    <3> QED
      BY <1>1, <2>3, <3>1, HoldsCompleted DEF OpenComplete
  <2>4. ASSUME NEW j \in Numbers, OpenFails(j)
        PROVE  viewers'[i] # viewers[i]
    <3>1. viewers[j].id = viewers[i].id
      BY <1>1, <2>4, HoldsReleased DEF OpenFails
    <3>2. j = i
      BY <1>1, <3>1 DEF Holds, IInv, NumbersInv
    <3>3. viewers[i].phase \in {"open", "decode"} /\ viewers[i] \in ViewerRecords
          /\ viewers' = [viewers EXCEPT ![i] = Onward(viewers[i], "refused")]
      BY <1>1, <2>4, <3>2, ViewerType DEF OpenFails, IInv
    <3>4. PICK w : w = Onward(viewers[i], "refused")
      OBVIOUS
    <3>5. w.phase = "refused" /\ w \in ViewerRecords
      BY <3>3, <3>4, WithPhase DEF Phases
    <3>6. viewers' = [viewers EXCEPT ![i] = w]
      BY <3>3, <3>4, Zenon
    <3>7. TypeOK /\ i \in Numbers
      BY <1>1 DEF IInv
    <3>8. \A k \in Numbers : viewers'[k] = IF k = i THEN w ELSE viewers[k]
      BY <3>5, <3>6, <3>7, ViewersAfter, Zenon
    <3>9. viewers'[i] = w
      BY <3>7, <3>8, Zenon
    <3> QED
      BY <3>3, <3>5, <3>9
  <2>5. ASSUME NEW call \in releases, ReleaseRun(call)
        PROVE  FALSE
    <3>1. call[2] = viewers[i].id
      BY <1>1, <2>1, <2>5, HoldsReleased DEF ReleaseRun
    <3> QED
      BY <1>1, <2>5, <3>1 DEF Holds, IInv, ReleasesInv
  <2>6. CASE Lock \/ \E a \in Archives : Unlock(a)
    <3>1. session' # session
      BY <1>1, <2>6, RenderersAssumption DEF Lock, Unlock, IInv, TypeOK, Sessions
    <3> QED
      BY <3>1
  <2>7. ASSUME NEW j \in Numbers,
               ViewerStep(j), ~BeginRun(j), ~OpenComplete(j), ~OpenFails(j)
        PROVE  FALSE
    <3>1. CASE BeginAnswer(j) \/ RefusedAnswer(j) \/ OpenRead(j)
      BY <2>1, <3>1 DEF BeginAnswer, RefusedAnswer, OpenRead, Settle
    <3>2. CASE PdfOpened(j) \/ ImageOpened(j) \/ DocxOpened(j) \/ XlsxOpened(j)
      BY <2>1, <3>2 DEF PdfOpened, ImageOpened, DocxOpened, XlsxOpened, Opened, Settle
    <3>3. CASE PdfReadRange(j) \/ ImageRenderData(j) \/ PdfLoaded(j) \/ ImageLoaded(j)
      BY <2>1, <3>3 DEF PdfReadRange, ImageRenderData, ReadRun, PdfLoaded, ImageLoaded,
                        ReadAnswer, Settle
    <3>4. CASE \E question \in viewers[j].asked :
                 WindowRun(j, question) \/ WindowAnswer(j, question)
      BY <2>1, <3>4 DEF WindowRun, WindowAnswer
    <3> QED
      BY <2>7, <3>1, <3>2, <3>3, <3>4
         DEF ViewerStep, PdfOpen, ImageOpen, DocxOpen, XlsxOpen, OpenCommand
  <2>8. CASE \/ \E a \in Archives, f \in Files : Select(a, f)
             \/ CloseViewer
             \/ \E j \in Numbers : TurnPage(j) \/ TurnWindow(j) \/ PageTooLarge(j)
             \/ UNCHANGED vars
    BY <2>1, <2>8 DEF Select, CloseViewer, TurnPage, TurnWindow, PageTooLarge, vars
  <2> QED
    BY <1>1, <2>2, <2>3, <2>4, <2>5, <2>6, <2>7, <2>8 DEF Next
<1>2. IInv /\ [Next]_vars =>
        [\A i \in Numbers :
           (viewers[i].active /\ viewers[i].phase # "failed"
              /\ Holds(registry, viewers[i].id)
              /\ ~Holds(registry', viewers[i].id))
           => \/ session' # session
              \/ viewers'[i] # viewers[i]
              \/ registry'.next > registry.next]_vars
  BY <1>1
<1> QED
  BY <1>2, Invariance, PTL DEF Spec, NoForeignRelease
=============================================================================
