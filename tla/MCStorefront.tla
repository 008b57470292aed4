---------------------------- MODULE MCStorefront ----------------------------
(***************************************************************************)
(* Two archives on pages of one, a search that finds the first, and catalogues *)
(* in which they are ordered by what was bought, by downloads and by age.    *)
(***************************************************************************)
EXTENDS Storefront

Count(week, month, older) == [week |-> week, month |-> month, older |-> older]
Row(listed, paid, downloads) == [listed |-> listed, paid |-> paid, downloads |-> downloads]

None0 == Count(0, 0, 0)

TwoCatalogues ==
    { <<Row(TRUE, Count(0, 1, 0), Count(1, 0, 0)), Row(TRUE, None0, Count(0, 1, 1))>> }

Texts == {"", "a", "a "}
Trim == [text \in Texts |-> IF text = "" THEN "" ELSE "a"]
Found == [q \in {"", "a"} |-> IF q = "" THEN {1, 2} ELSE {1}]

\* The catalogue as the header has it, and a page of results that may not exist.
SomeLinks == {Catalog(DEFAULT_SORT, "", 1), Catalog("popular_week", "a", 2)}

\* "5.00" and "12.00".
Prices == <<[cents |-> 500, text |-> 2], [cents |-> 1200, text |-> 1]>>
=============================================================================
