------------------------------- MODULE Queries -------------------------------
(***************************************************************************)
(* One query of TanStack Query v5, the cache the pages of the web client     *)
(* read the API through (external: modelled from how apps/web uses it).      *)
(*                                                                         *)
(* A query is a record: the data last received, whether the last fetch       *)
(* failed, whether the data was declared stale, the fetch under way (not yet *)
(* served, or served with an answer that is on its way) and who awaits it.   *)
(***************************************************************************)
CONSTANT NoData     \* nothing was received yet

\* A query that receives members of D and is awaited by members of W.
QueryOf(D, W) ==
    [data : D, error : BOOLEAN, invalid : BOOLEAN,
     fetching : {"idle", "sent", "served"}, answer : D, waiters : SUBSET W]

EmptyQuery ==
    [data |-> NoData, error |-> FALSE, invalid |-> FALSE,
     fetching |-> "idle", answer |-> NoData, waiters |-> {}]

\* A fetch under way is shared.
Fetch(q) == IF q.fetching = "idle" THEN [q EXCEPT !.fetching = "sent"] ELSE q

\* The fetch is given up; who awaited it goes on.
Abandon(q) == [q EXCEPT !.fetching = "idle", !.answer = NoData, !.waiters = {}]

\* A refetch replaces the fetch under way, unless it is the first one.
Refetch(q) == Fetch(IF q.data = NoData THEN q ELSE Abandon(q))

\* A query on the screen is fetched again at once, and the caller may await it;
\* one that is not is fetched when it comes back to the screen.
Invalidate(q, onScreen, caller) ==
    IF onScreen
      THEN [Refetch(q) EXCEPT !.invalid = TRUE, !.waiters = @ \cup caller]
      ELSE [q EXCEPT !.invalid = TRUE]

Served(q, answer) == [q EXCEPT !.fetching = "served", !.answer = answer]

\* The data is replaced by hand; a fetch under way goes on.
SetData(q, data) == [q EXCEPT !.data = data, !.error = FALSE, !.invalid = FALSE]

Settled(q) == Abandon(SetData(q, q.answer))

\* The data received earlier is kept.
Failed(q) == [Abandon(q) EXCEPT !.error = TRUE, !.invalid = TRUE]

\* A page that is opened fetches what is missing or stale; data grows stale by
\* itself after a minute.
Opened(q) ==
    IF q.data = NoData \/ q.invalid THEN {Fetch(q)} ELSE {q, Fetch(q)}
=============================================================================
