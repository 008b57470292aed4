----------------------------- MODULE Storefront -----------------------------
(***************************************************************************)
(* A visitor's tab in the public part of the web client (apps/web): the      *)
(* catalogue with its search field, sorts and pages, the page of an archive, *)
(* and the API that lists, shows and counts.                                 *)
(*                                                                         *)
(* What the visitor sees is asked for by the address, which changes at once; *)
(* the page follows when the router is done.  Every cached answer grows      *)
(* stale by itself after a minute.  Of the lists that left the screen only   *)
(* the last is remembered, as long as the visitor stays in the catalogue.    *)
(***************************************************************************)
EXTENDS Listing, Queries

CONSTANTS
    Drafts,             \* what may stand in the search field
    trim,               \* the search text in it
    Sorts,              \* the sorts that are used
    Links,              \* the addresses that history and links from elsewhere hold
    InitialRows,        \* the catalogues to begin with
    NoArchive,          \* no archive
    MaxEvents           \* bound: keystrokes, openings of archives, lost requests,
                        \* reconnections and changes of the catalogue, together

NoText == ""

ASSUME TrimAssumption == trim[NoText] = NoText
ASSUME RowsAssumption == InitialRows \subseteq CatalogueRows

VARIABLES
    rows,               \* the archives
    views,              \* how many views of each are counted for this visitor
    recent,             \* those viewed in the last 15 minutes
    location,           \* the address
    rendered,           \* the address of the page on the screen
    draft, known,       \* the search field: its text, the search it reflects
    timers,             \* the texts that wait for a pause
    results, held,      \* the list of the page, and the one before
    card, cardOf,       \* the card last asked for, of which archive
    retried,            \* was its request sent again
    cards,              \* the archives whose card was received
    warm,               \* the archive whose inventory was asked for last
    last,               \* history: did the visitor last type, or go somewhere
    asked,              \* history: how often the visitor asked for each archive
    woken,              \* history: how often the tab did by itself
    events

catalogue == <<rows, views, recent>>
address == <<location, rendered>>
field == <<draft, known, timers>>
lists == <<results, held>>
archive == <<card, cardOf, retried, cards, warm>>
history == <<last, asked, woken>>
visitorVars == <<catalogue, address, field, lists, archive, history, events>>

Catalog(sort, q, page) == [place |-> "catalog", sort |-> sort, q |-> q, page |-> page]
ArchiveAt(a) == [place |-> "archive", archive |-> a]
Home == [place |-> "home"]

Searches == {trim[text] : text \in Drafts}
DEFAULT_SORT == "popular_week"

ASSUME SearchesAssumption == Searches \subseteq DOMAIN Matches

InCatalog == rendered.place = "catalog"

VisitorInit ==
    /\ rows \in InitialRows
    /\ views = [a \in Archives |-> 0] /\ recent = {}
    /\ location = Home /\ rendered = Home
    /\ draft = NoText /\ known = NoText /\ timers = {}
    /\ results = EmptyQuery /\ held = NoData
    /\ card = EmptyQuery /\ cardOf = NoArchive /\ retried = FALSE
    /\ cards = {} /\ warm = NoArchive
    /\ last = "went" /\ asked = [a \in Archives |-> 0] /\ woken = 0
    /\ events = 0

Event == events < MaxEvents /\ events' = events + 1

(***************************************************************************)
(* The API                                                                 *)
(***************************************************************************)

\* Every request for a card counts as a view, unless the same visitor has seen the
\* archive in the last 15 minutes; an archive that is not published is not there.
getArchiveBySlug(a) ==
    IF rows[a].listed
      THEN /\ views' = IF a \in recent THEN views ELSE [views EXCEPT ![a] = @ + 1]
           /\ recent' = recent \cup {a}
      ELSE UNCHANGED <<views, recent>>

ServeCard ==
    /\ card.fetching = "sent"
    /\ getArchiveBySlug(cardOf)
    /\ card' = Served(card, rows[cardOf].listed)
    /\ UNCHANGED <<rows, address, field, lists, cardOf, retried, cards, warm, history, events>>

\* What creators and buyers do.
Change ==
    /\ \E a \in Archives :
         \/ rows' = [rows EXCEPT ![a].listed = ~@]
         \/ rows' = [rows EXCEPT ![a].paid["week"] = @ + 1]
    /\ Event
    /\ UNCHANGED <<views, recent, address, field, lists, archive, history>>

\* A request, its repetition and the router do not take so long.
QuarterOfAnHour ==
    /\ card.fetching = "idle" /\ rendered = location /\ recent # {}
    /\ recent' = {}
    /\ UNCHANGED <<rows, views, address, field, lists, archive, history, events>>

(***************************************************************************)
(* Navigation                                                              *)
(***************************************************************************)

\* A card that was received may still be there, and may be stale.
CachedCards(a) == {EmptyQuery} \cup {SetData(EmptyQuery, TRUE) : c \in cards \cap {a}}

\* Variant: the card is warmed as well.
LoaderOfAll(a, preload) ==
    /\ warm' = a
    /\ card' = Fetch(EmptyQuery) /\ cardOf' = a /\ retried' = FALSE

\* A link that is pointed at warms the inventory, whose reading counts nothing; the
\* card is asked for when the page is opened.
Loader(a, preload) ==
    /\ warm' = a
    /\ IF preload
         THEN UNCHANGED <<card, cardOf, retried>>
         ELSE /\ \E q \in CachedCards(a) : \E opened \in Opened(q) : card' = opened
              /\ cardOf' = a /\ retried' = FALSE

\* A request for a card nobody waits for any more may still be served.
LeftBehind ==
    \/ UNCHANGED <<views, recent>>
    \/ card.fetching = "sent" /\ getArchiveBySlug(cardOf)

\* The address changes at once, wherever the router has got to.
LeadTo(to) ==
    /\ to # location
    /\ location' = to
    /\ IF to.place = "archive"
         THEN /\ Event
              /\ asked' = [asked EXCEPT ![to.archive] = @ + 1]
              /\ Loader(to.archive, FALSE)
              /\ LeftBehind
         ELSE UNCHANGED <<asked, card, cardOf, retried, warm, views, recent, events>>
    /\ UNCHANGED <<rows, rendered, lists, cards, woken>>

\* A list that was remembered is shown, and fetched again if it is stale.
CachedLists(at) ==
    {EmptyQuery} \cup
    {SetData(EmptyQuery, data) :
        data \in {d \in {results.data, held} \ {NoData} : d.query = at}}

\* What the catalogue shows until the answer to its address comes.
Shown ==
    CASE results.data # NoData -> results.data
      [] results.data = NoData /\ ~results.error -> held
      [] OTHER -> NoData

Items ==
    IF InCatalog /\ Shown # NoData
      THEN {Shown.answer.items[i] : i \in DOMAIN Shown.answer.items} ELSE {}

(***************************************************************************)
(* The search field                                                        *)
(***************************************************************************)

\* Variant: no text is no search.
AwaitText(text, q) == timers' = IF trim[text] \in {q, NoText} THEN {} ELSE {text}

\* Variant: nothing ends the wait.
AwaitOn(text, q) == timers' = timers \cup IF trim[text] = q THEN {} ELSE {text}

\* A text waits for a pause; another text, or another search, ends the wait.
Await(text, q) == timers' = IF trim[text] = q THEN {} ELSE {text}

\* The links of the catalogue, and the field, change the address they find.
Prev == IF location.place = "catalog" THEN location ELSE Catalog(DEFAULT_SORT, NoText, 1)

commit(text) ==
    LET to == Catalog(Prev.sort, trim[text], 1)
    IN IF to = location
         THEN UNCHANGED <<catalogue, address, lists, archive, asked, woken, events>>
         ELSE LeadTo(to)

\* Letters, or the button that clears the field.
Type ==
    /\ InCatalog
    /\ \E text \in Drafts \ {draft} : draft' = text
    /\ Await(draft', rendered.q)
    /\ Event
    /\ last' = "typed"
    /\ UNCHANGED <<catalogue, address, known, lists, archive, asked, woken>>

\* Enter does not wait.
Submit ==
    /\ InCatalog /\ commit(draft)
    /\ last' = "typed"
    /\ UNCHANGED field

Pause ==
    /\ \E text \in timers : timers' = timers \ {text} /\ commit(text)
    /\ UNCHANGED <<draft, known, last>>

(***************************************************************************)
(* The pages                                                               *)
(***************************************************************************)

\* The page of the address is on the screen.  In a catalogue that stays there, a
\* search that has changed overwrites the field; a page that is left is forgotten.
Land ==
    /\ rendered # location /\ rendered' = location
    /\ IF location.place = "catalog"
         THEN /\ IF InCatalog /\ location.q = known
                   THEN UNCHANGED field
                   ELSE /\ draft' = location.q /\ known' = location.q
                        /\ Await(draft', known')
              /\ \E q \in CachedLists(location) : \E opened \in Opened(q) : results' = opened
              /\ held' = IF results.data # NoData THEN results.data ELSE held
         ELSE /\ draft' = NoText /\ known' = NoText /\ Await(NoText, NoText)
              /\ results' = EmptyQuery /\ held' = NoData
    /\ IF location.place = "archive"
         THEN /\ card' = IF card.data = NoData THEN Fetch(card) ELSE card
              /\ UNCHANGED <<cardOf, retried, warm, views, recent>>
         ELSE /\ card' = EmptyQuery /\ cardOf' = NoArchive
              /\ retried' = FALSE /\ warm' = NoArchive
              /\ LeftBehind
    /\ UNCHANGED <<rows, location, cards, history, events>>

Follow(to) == LeadTo(to) /\ last' = "went" /\ UNCHANGED field

\* Another order starts at its first page.
PressSort == InCatalog /\ \E s \in Sorts : Follow(Catalog(s, Prev.q, 1))

PressPage ==
    /\ Items # {}
    /\ \E p \in {rendered.page - 1, rendered.page + 1} \cap (1 .. pageCount(Shown.answer.total)) :
         Follow(Catalog(Prev.sort, Prev.q, p))

PressArchive == \E a \in Items : Follow(ArchiveAt(a))

\* A link from elsewhere, or a step in the history of the tab.
GoBack == \E to \in Links : Follow(to)

PointAt ==
    /\ \E a \in Items \ {warm} : Loader(a, TRUE)
    /\ UNCHANGED <<catalogue, address, field, lists, cards, history, events>>

\* Asked, served and received: nothing in the tab depends on what happens between.
ResultsAnswered ==
    /\ results.fetching = "sent"
    /\ \E answer \in listArchives(rows, rendered.sort, rendered.q, rendered.page) :
         results' = Settled(Served(results, [query |-> rendered, answer |-> answer]))
    /\ UNCHANGED <<catalogue, address, field, held, archive, history, events>>

\* Twice.
ResultsLost ==
    /\ results.fetching # "idle"
    /\ results' = Failed(results)
    /\ Event
    /\ UNCHANGED <<catalogue, address, field, held, archive, history>>

RetryList ==
    /\ results.error /\ results' = Fetch(results) /\ results' # results
    /\ UNCHANGED <<catalogue, address, field, held, archive, history, events>>

\* An archive that is not there is no failure.
CardAnswered ==
    /\ card.fetching = "served"
    /\ card' = Settled(card) /\ retried' = FALSE
    /\ cards' = IF card.answer THEN cards \cup {cardOf} ELSE cards \ {cardOf}
    /\ UNCHANGED <<catalogue, address, field, lists, cardOf, warm, history, events>>

\* A request is repeated once.
CardLost ==
    /\ card.fetching # "idle"
    /\ card' = IF retried THEN Failed(card) ELSE Fetch(Abandon(card))
    /\ retried' = ~retried
    /\ IF retried THEN UNCHANGED events ELSE Event
    /\ UNCHANGED <<catalogue, address, field, lists, cardOf, cards, warm, history>>

OnCard == rendered.place = "archive" /\ rendered = location /\ card.fetching = "idle"

RetryCard ==
    /\ OnCard /\ card.error
    /\ card' = Fetch(card)
    /\ asked' = [asked EXCEPT ![cardOf] = @ + 1]
    /\ UNCHANGED <<catalogue, address, field, lists, cardOf, retried, cards, warm, last, woken,
                   events>>

\* A page that has grown stale is fetched again when the network comes back.
Reconnect ==
    /\ \/ OnCard /\ card' = Fetch(card) /\ woken' = woken + 1 /\ UNCHANGED results
       \/ /\ InCatalog /\ results' = Fetch(results) /\ results' # results
          /\ UNCHANGED <<card, woken>>
    /\ Event
    /\ UNCHANGED <<catalogue, address, field, held, cardOf, retried, cards, warm, last, asked>>

\* The file is fetched by the browser, and counted before it is sent.
Download ==
    /\ OnCard /\ card.data = TRUE /\ ~card.error
    /\ rows[cardOf].listed
    /\ rows' = [rows EXCEPT ![cardOf].downloads["week"] = @ + 1]
    /\ Event
    /\ UNCHANGED <<views, recent, address, field, lists, archive, history>>

(***************************************************************************)
(* Specification                                                           *)
(***************************************************************************)
Visitor ==
    \/ Type \/ Submit
    \/ PressSort \/ PressPage \/ PressArchive \/ GoBack \/ PointAt
    \/ RetryList \/ RetryCard \/ Download

Tab == Pause \/ Land \/ ResultsAnswered \/ CardAnswered

Outside == Change \/ QuarterOfAnHour \/ ResultsLost \/ CardLost \/ Reconnect

VisitorNext == Visitor \/ Tab \/ ServeCard \/ Outside

VisitorSpec == VisitorInit /\ [][VisitorNext]_visitorVars

\* Timers fire, the router gets there, the API answers.
LiveSpec ==
    /\ VisitorSpec
    /\ WF_visitorVars(Pause) /\ WF_visitorVars(Land)
    /\ WF_visitorVars(ResultsAnswered)

(***************************************************************************)
(* Properties                                                              *)
(***************************************************************************)

LessPopular(sort, a, b) ==
    LET paid(c) == windowPaid(rows[c], sort)
        downloads(c) == windowDownloads(rows[c], sort)
    IN IF sort = "most_downloaded" THEN downloads(a) < downloads(b)
       ELSE \/ paid(a) < paid(b)
            \/ paid(a) = paid(b) /\ downloads(a) < downloads(b)

\* The pages that are offered hold what the search finds, each archive once, and none
\* behind a less popular one, on its page or on an earlier one.
AreThePages(sort, q) ==
    LET found == Listed(rows, q)
        page == [p \in 1 .. pageCount(Cardinality(found)) |->
                    (CHOOSE answer \in listArchives(rows, sort, q, p) : TRUE).items]
        Places == {x \in (DOMAIN page) \X (1 .. PerPage) : x[2] \in DOMAIN page[x[1]]}
        At(x) == page[x[1]][x[2]]
        Earlier(x, y) == x[1] < y[1] \/ (x[1] = y[1] /\ x[2] < y[2])
    IN /\ {At(x) : x \in Places} = found
       /\ \A x, y \in Places :
            Earlier(x, y) => At(x) # At(y) /\ ~LessPopular(sort, At(x), At(y))

\* The pages of a popularity sort are the whole catalogue, once: every archive the
\* search finds is on exactly one of the pages that are offered, and none stands
\* behind a less popular one.
PagesPartition == \A sort \in PopularitySorts, q \in Searches : AreThePages(sort, q)

\* A view is a visit: however a visitor points at cards, goes back and forth, and
\* answers are lost and requests repeated, an archive is not counted more often than
\* its page was asked for, by the visitor or by a tab that is back on the network.
ViewsAreVisits == \A a \in Archives : views[a] <= asked[a] + woken

\* The only search that can still be made is for the text that stands in the field,
\* and once the catalogue is left there is none that would bring the visitor back.
OnlyWhatIsTyped == timers # {} => InCatalog /\ timers = {draft}

SearchSettled ==
    /\ InCatalog /\ rendered = location
    /\ timers = {} /\ trim[draft] = rendered.q
    /\ results.fetching = "idle"
    /\ results.error \/ results.data.query = rendered

\* Who types and then goes nowhere else gets the results of what stands in the field,
\* at an address that says so.
SearchSettles == last = "typed" ~> SearchSettled \/ last = "went" \/ ~InCatalog

\* The field is overwritten when "the address was changed not by us"
\* (search-field.tsx:27).
TypingSurvives ==
    [][draft' # draft /\ InCatalog /\ InCatalog' => Type \/ last = "went"]_visitorVars

\* "The address is the source of truth, the field only reflects it"
\* (search-field.tsx:15).
FieldReflectsAddress ==
    InCatalog /\ rendered = location /\ timers = {} => trim[draft] = rendered.q

\* An archive whose page is on its way is not taken back by a search.
ClickIsFollowed == [][Pause => location.place # "archive"]_visitorVars

\* A card is asked for "when the page was really opened" (archives.$slug.tsx:40-42).
ViewsAreOpenings == \A a \in Archives : views[a] <= asked[a]

\* "price_asc" is by price.
CheapestFirst ==
    \A answer \in listArchives(rows, "price_asc", NoText, 1) :
        \A i, j \in DOMAIN answer.items :
            i < j => Price[answer.items[i]].cents <= Price[answer.items[j]].cents

\* A page beyond the last says that the catalogue is empty, and offers no way back.
EmptyIsEmpty ==
    InCatalog /\ results.data # NoData /\ results.data.answer.items = <<>> =>
        results.data.answer.total = 0

(***************************************************************************)
(* The inductive invariant of the proofs                                   *)
(***************************************************************************)
VisitTypes ==
    /\ views \in [Archives -> Nat]
    /\ asked \in [Archives -> Nat] /\ woken \in Nat

VisitorTypeOK == rows \in CatalogueRows /\ VisitTypes

CardOfAddress == location.place = "archive" => cardOf = location.archive

\* A view that may still be counted: the card is asked for, or will be when the page
\* is on the screen.
Pending(a) ==
    /\ cardOf = a /\ a \notin recent
    /\ \/ card.fetching # "idle"
       \/ location.place = "archive" /\ rendered # location /\ card.data = NoData

\* What was asked for covers the views that are counted and the one that may be.
Covered ==
    \A a \in Archives :
        IF Pending(a) THEN views[a] < asked[a] + woken ELSE views[a] <= asked[a] + woken

VisitorIInv == VisitorTypeOK /\ CardOfAddress /\ Covered /\ OnlyWhatIsTyped
=============================================================================
