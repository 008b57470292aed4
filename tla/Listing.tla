------------------------------ MODULE Listing ------------------------------
(***************************************************************************)
(* What the public catalogue lists (apps/api, marketplace.service.ts): which *)
(* archives, in which order, and which of them on a page.                    *)
(*                                                                         *)
(* Archives are numbered as they were created.  A row has what the catalogue *)
(* depends on: is the archive published and ready, and the confirmed         *)
(* payments and downloads there were, by their age.                          *)
(***************************************************************************)
EXTENDS Integers, Sequences, FiniteSets, SequencesExt

CONSTANTS
    Archives,
    Matches,        \* the archives a search text is found in
    Price,          \* of an archive: in cents, and its place as a text
    PerPage

ASSUME ArchivesAssumption == Archives \subseteq Nat /\ IsFiniteSet(Archives)
ASSUME MatchesAssumption == \A text \in DOMAIN Matches : Matches[text] \subseteq Archives
ASSUME PerPageAssumption == PerPage \in Nat \ {0}

Ages == {"week", "month", "older"}
Counts == [Ages -> Nat]
CatalogueRows == [Archives -> [listed : BOOLEAN, paid : Counts, downloads : Counts]]

PopularitySorts == {"popular_week", "popular_month", "most_downloaded"}
PriceSorts == {"price_asc", "price_desc"}

\* What happened within the window a sort looks at.
Within(counts, sort) ==
    CASE sort = "popular_week" -> counts["week"]
      [] sort = "popular_month" -> counts["week"] + counts["month"]
      [] OTHER -> counts["week"] + counts["month"] + counts["older"]

windowPaid(row, sort) == Within(row.paid, sort)
windowDownloads(row, sort) == Within(row.downloads, sort)

\* The most downloaded first; or the most bought and then the most downloaded within
\* the window.  The sort is stable and starts from the newest.
MorePopular(rows, sort, a, b) ==
    LET paid == windowPaid(rows[a], sort) - windowPaid(rows[b], sort)
        downloads == windowDownloads(rows[a], sort) - windowDownloads(rows[b], sort)
    IN \/ sort # "most_downloaded" /\ paid > 0
       \/ (sort = "most_downloaded" \/ paid = 0) /\ downloads > 0
       \/ (sort = "most_downloaded" \/ paid = 0) /\ downloads = 0 /\ a > b

\* Prices are texts in the database.
PriceBefore(sort, a, b) ==
    IF sort = "price_asc" THEN Price[a].text <= Price[b].text
                          ELSE Price[a].text >= Price[b].text

Listed(rows, search) == {a \in Matches[search] : rows[a].listed}

Before(rows, sort, a, b) ==
    IF sort \in PopularitySorts THEN MorePopular(rows, sort, a, b)
                                ELSE PriceBefore(sort, a, b)

\* Archives of one price come in any order, another one for each query.
Orders(rows, sort, search) ==
    {order \in SetToSeqs(Listed(rows, search)) :
        \A i, j \in DOMAIN order : i < j => Before(rows, sort, order[i], order[j])}

\* Variant: pages counted from zero.
skipFromZero(page) == page * PerPage

skip(page) == (page - 1) * PerPage

Slice(order, page) ==
    SubSeq(order, skip(page) + 1,
           IF skip(page) + PerPage < Len(order) THEN skip(page) + PerPage ELSE Len(order))

\* The answers a query may get.
listArchives(rows, sort, search, page) ==
    {[items |-> Slice(order, page), total |-> Len(order)] : order \in Orders(rows, sort, search)}

\* One page at least.
pageCount(total) == IF total = 0 THEN 1 ELSE (total + PerPage - 1) \div PerPage
=============================================================================
