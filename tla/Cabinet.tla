------------------------------- MODULE Cabinet -------------------------------
(***************************************************************************)
(* The creator's session and archives in one tab of the web client           *)
(* (apps/web): login by wallet, the token, the guard of the dashboard, the   *)
(* list of archives, the form that creates one, and the way out.             *)
(*                                                                         *)
(* The other tabs of the browser share localStorage; they are what they do   *)
(* to it.  Catalog has the API's side of a login in full.  A rendering, and   *)
(* a navigation that waits for nothing, follow a change of state at once.    *)
(***************************************************************************)
EXTENDS Naturals, Sequences, Queries, Money

CONSTANTS
    Wallets,            \* accounts are known by their wallets
    Guest,              \* no session
    None,               \* no token, no wallet
    Typed,              \* what the creator may type as a price
    MaxTokens,          \* bound: logins that succeed
    MaxPresses,         \* bound: presses on "create"
    MaxTroubles         \* bound: lost requests and answers, verifications refused,
                        \* expiries, what other tabs do, reloads

ASSUME NullAssumption == None \notin Nat /\ NoData # Guest
ASSUME TypedAssumption ==
    \A typed \in Typed :
        /\ typed.form \in {"required", "format", "number"}
        /\ typed.digits \in Nat /\ typed.decimals \in Nat

VARIABLES
    owner,              \* the tokens the API has issued, with their accounts
    dead,               \* of which these are revoked or expired
    archives,           \* the archives created
    storage, stored,    \* is localStorage there; the token in it
    memoryToken,
    place, goal, back,  \* the page; what a loading tab, a login leads to
    session, sessionBearer,     \* the query of the session, the token it is asked with
    list, listBearer,   \* the query of the archives
    message,            \* the wallet whose message the login page shows
    form,               \* the press the form awaits the answer of, or 0
    attempt,            \* its signature under way
    signOut,            \* the logout under way
    presses,            \* the presses on "create"
    signedOut,          \* history: the tokens this tab has signed out
    troubles

api == <<owner, dead, archives>>
tokens == <<stored, memoryToken>>
page == <<place, goal, back, message, form>>
work == <<attempt, signOut, presses, signedOut>>
vars == <<api, storage, tokens, page, session, sessionBearer, list, listBearer, work,
          troubles>>

Dashboard == {"list", "new", "archive"}
Places == Dashboard \cup {"home", "login", "loading"}
Tokens == 1 .. MaxTokens

NoAttempt == [at |-> "no", wallet |-> None, sentToken |-> FALSE]
NoSignOut == [at |-> "no", bearer |-> None]

good(token) == token \in DOMAIN owner /\ token \notin dead

Init ==
    /\ owner = <<>> /\ dead = {} /\ archives = <<>>
    /\ storage \in BOOLEAN /\ stored = None /\ memoryToken = None
    /\ place = "home" /\ goal = "home" /\ back = "list"
    /\ session = EmptyQuery /\ sessionBearer = None
    /\ list = EmptyQuery /\ listBearer = None
    /\ message = None /\ form = 0
    /\ attempt = NoAttempt /\ signOut = NoSignOut /\ presses = <<>>
    /\ signedOut = {}
    /\ troubles = 0

Trouble == troubles < MaxTroubles /\ troubles' = troubles + 1

(***************************************************************************)
(* The token                                                               *)
(***************************************************************************)
readAuthToken == IF stored # None THEN stored ELSE memoryToken

saveAuthToken(token) ==
    /\ memoryToken' = token
    /\ stored' = IF storage THEN token ELSE None

\* Variant: the copy in memory is forgotten.
clearStoredToken == stored' = None /\ UNCHANGED memoryToken

clearAuthToken == stored' = None /\ memoryToken' = None

\* A 401 to a request with a token clears the token, whichever it is by then.
failure(bearer) == IF bearer # None THEN clearAuthToken ELSE UNCHANGED tokens

(***************************************************************************)
(* Where the creator gets                                                  *)
(***************************************************************************)
LoggedIn == session.data \in Wallets

\* The guards of the dashboard and of the login page.
Landing(p, account) ==
    CASE p \in Dashboard /\ account = Guest -> "login"
      [] p = "login" /\ account # Guest -> back
      [] OTHER -> p

\* The list when the tab gets to page p: fetched if need be, abandoned when left.
ListAt(p, q) ==
    IF p = "list" /\ place # "list" THEN Opened(q)
    ELSE IF p # "list" /\ place = "list" THEN {Abandon(q)} ELSE {q}

\* A fetch is sent with the token of its moment.
Bearer(before, after, bearer) ==
    CASE after.fetching = "idle" -> None
      [] after.fetching = "sent" /\ before.fetching # "sent" -> readAuthToken'
      [] OTHER -> bearer

SetList(q) == list' = q /\ listBearer' = Bearer(list, q, listBearer)

GoTo(p, account, q) ==
    LET landing == Landing(p, account)
        stays == place = "login" /\ landing = "login"
    IN /\ place' = landing /\ goal' = "home"
       /\ back' = IF stays THEN back
                  ELSE IF p \in Dashboard /\ landing = "login" THEN p ELSE "list"
       /\ message' = IF stays THEN message ELSE None
       /\ form' = IF landing = place THEN form ELSE 0
       /\ \E r \in ListAt(landing, q) : SetList(r)

\* A link: the guard asks for the session if it is not known yet.
Navigate(p) ==
    /\ place # "loading" /\ p \in {"home", "login", "list", "new"} \ {place}
    /\ UNCHANGED tokens
    /\ IF session.data = NoData /\ p # "home"
         THEN /\ place' = "loading" /\ goal' = p
              /\ UNCHANGED <<back, message, form, list, listBearer>>
         ELSE GoTo(p, session.data, list)
    /\ UNCHANGED <<api, storage, session, sessionBearer, work, troubles>>

\* Everything in memory is gone; what was sent may still arrive.
Reload ==
    /\ memoryToken' = None /\ UNCHANGED stored
    /\ place' = "loading" /\ goal' = IF place = "loading" THEN goal ELSE place
    /\ back' = "list" /\ message' = None /\ form' = 0
    /\ session' = EmptyQuery /\ sessionBearer' = None
    /\ list' = EmptyQuery /\ listBearer' = None
    /\ attempt' = NoAttempt /\ signOut' = NoSignOut
    /\ presses' = [i \in DOMAIN presses |-> [presses[i] EXCEPT !.awaited = FALSE]]
    /\ dead' \in {dead, dead \cup ({signOut.bearer} \cap DOMAIN owner)}
    /\ Trouble
    /\ UNCHANGED <<owner, archives, storage, signedOut>>

(***************************************************************************)
(* The session                                                             *)
(***************************************************************************)
SessionIs(q) ==
    /\ session' = q /\ sessionBearer' = Bearer(session, q, sessionBearer)
    /\ IF place = "loading" /\ q.data # NoData
         THEN GoTo(goal, q.data, list)
         ELSE UNCHANGED <<page, list, listBearer>>

\* It is asked for when it is missing, and again when it has grown stale; without a
\* token nobody need be asked.
GetSession ==
    /\ session.fetching = "idle"
    /\ UNCHANGED tokens
    /\ SessionIs(IF readAuthToken = None THEN SetData(session, Guest) ELSE Fetch(session))
    /\ UNCHANGED <<api, storage, work, troubles>>

ServeMe ==
    /\ session.fetching = "sent"
    /\ session' = Served(session, IF good(sessionBearer) THEN owner[sessionBearer] ELSE Guest)
    /\ UNCHANGED <<api, storage, tokens, page, sessionBearer, list, listBearer, work,
                   troubles>>

\* A 401 means a guest; nobody is sent away.
MeAnswered ==
    /\ session.fetching = "served"
    /\ IF session.answer = Guest THEN failure(sessionBearer) ELSE UNCHANGED tokens
    /\ SessionIs(Settled(session))
    /\ UNCHANGED <<api, storage, work, troubles>>

\* What is shown of an error changes nothing.
MeLost ==
    /\ session.fetching # "idle"
    /\ session' = Abandon(session) /\ sessionBearer' = None
    /\ Trouble
    /\ UNCHANGED <<api, storage, tokens, page, list, listBearer, work>>

(***************************************************************************)
(* Login                                                                   *)
(***************************************************************************)

\* The wallet is connected and its challenge fetched; its message is shown.
Choose(w) ==
    /\ place = "login" /\ message = None
    /\ message' = w
    /\ UNCHANGED <<api, storage, tokens, place, goal, back, form, session, sessionBearer,
                   list, listBearer, work, troubles>>

Back ==
    /\ message # None /\ attempt.at = "no"
    /\ message' = None
    /\ UNCHANGED <<api, storage, tokens, place, goal, back, form, session, sessionBearer,
                   list, listBearer, work, troubles>>

\* The wallet signs, and the signature is sent with the token there is.  Its answer
\* is waited for even when the page is left.
Sign ==
    /\ message # None /\ attempt.at = "no"
    /\ attempt' = [at |-> "verifying", wallet |-> message, sentToken |-> readAuthToken # None]
    /\ UNCHANGED <<api, storage, tokens, page, session, sessionBearer, list, listBearer,
                   signOut, presses, signedOut, troubles>>

Verified ==
    /\ attempt.at = "verifying" /\ Len(owner) < MaxTokens
    /\ owner' = Append(owner, attempt.wallet)
    /\ saveAuthToken(Len(owner'))
    /\ session' = SetData(session, attempt.wallet) /\ UNCHANGED sessionBearer
    /\ GoTo(back, attempt.wallet, list)
    /\ attempt' = NoAttempt
    /\ UNCHANGED <<dead, archives, storage, signOut, presses, signedOut, troubles>>

\* The challenge is no longer good (401), or the request is lost.
VerifyFails ==
    /\ attempt.at = "verifying"
    /\ (attempt.sentToken /\ clearAuthToken) \/ UNCHANGED tokens
    /\ attempt' = NoAttempt
    /\ Trouble
    /\ UNCHANGED <<api, storage, page, session, sessionBearer, list, listBearer, signOut,
                   presses, signedOut>>

(***************************************************************************)
(* The list of archives                                                    *)
(***************************************************************************)

\* On its page, and when a link to it is pointed at.
ReadList ==
    /\ place = "list" \/ LoggedIn
    /\ UNCHANGED tokens
    /\ SetList(Fetch(list))
    /\ UNCHANGED <<api, storage, page, session, sessionBearer, work, troubles>>

listForCreator(account) == {i \in DOMAIN archives : archives[i].owner = account}

ServeList ==
    /\ list.fetching = "sent"
    /\ list' = Served(list, IF good(listBearer)
                              THEN [by |-> listBearer, has |-> listForCreator(owner[listBearer])]
                              ELSE Guest)
    /\ UNCHANGED <<api, storage, tokens, page, session, sessionBearer, listBearer, work,
                   troubles>>

Rejected(q) == [Failed(q) EXCEPT !.error = FALSE]

\* A 401 is the end of the session: the guards are asked again.
ListAnswered ==
    /\ list.fetching = "served"
    /\ IF list.answer = Guest
         THEN /\ failure(listBearer)
              /\ session' = SetData(session, Guest)
              /\ GoTo(place, Guest, Rejected(list))
         ELSE /\ SetList(Settled(list))
              /\ UNCHANGED <<tokens, session, page>>
    /\ UNCHANGED <<api, storage, sessionBearer, work, troubles>>

ListLost ==
    /\ list.fetching # "idle"
    /\ list' = Rejected(list) /\ listBearer' = None
    /\ Trouble
    /\ UNCHANGED <<api, storage, tokens, page, session, sessionBearer, work>>

(***************************************************************************)
(* A new archive                                                           *)
(***************************************************************************)
At(i, at) ==
    presses' = [presses EXCEPT ![i].at = at,
                               ![i].bearer = IF at = "unauthorized" THEN @ ELSE None]

\* The price shown beside the form is the price that is sent.
Press ==
    /\ place = "new" /\ Len(presses) < MaxPresses
    /\ form # 0 => presses[form].at = "over"
    /\ \E typed \in Typed :
         /\ validatePriceInput(typed) = "fine"
         /\ presses' = Append(presses,
                [at |-> "asked", awaited |-> TRUE, bearer |-> readAuthToken,
                 shown |-> previewEconomics(typed).price,
                 sent |-> normalizePrice(typed)])
    /\ form' = Len(presses')
    /\ UNCHANGED <<api, storage, tokens, place, goal, back, message, session, sessionBearer,
                   list, listBearer, attempt, signOut, signedOut, troubles>>

\* The API refuses without a session, and for what else was filled in: it takes one
\* licence policy only.
ServeCreate(i) ==
    /\ presses[i].at = "asked"
    /\ LET press == presses[i]
       IN \/ ~good(press.bearer) /\ At(i, "unauthorized") /\ UNCHANGED archives
          \/ good(press.bearer) /\ At(i, "refused") /\ UNCHANGED archives
          \/ /\ good(press.bearer) /\ At(i, "served")
             /\ archives' = Append(archives, [owner |-> owner[press.bearer],
                    press |-> i, price |-> frozenPrice(press.sent)])
    /\ UNCHANGED <<owner, dead, storage, tokens, page, session, sessionBearer,
                   list, listBearer, attempt, signOut, signedOut, troubles>>

\* The list is declared stale, and waited for if it is on the screen.
CreateAnswered(i) ==
    /\ presses[i].awaited
    /\ CASE presses[i].at = "served" ->
               /\ UNCHANGED tokens
               /\ SetList(Invalidate(list, place = "list", {i}))
               /\ At(i, "created")
         [] presses[i].at = "refused" ->
               At(i, "over") /\ UNCHANGED <<tokens, list, listBearer>>
         [] presses[i].at = "unauthorized" ->
               failure(presses[i].bearer) /\ At(i, "over") /\ UNCHANGED <<list, listBearer>>
         [] OTHER -> FALSE
    /\ UNCHANGED <<api, storage, page, session, sessionBearer, attempt, signOut, signedOut,
                   troubles>>

\* Wherever the creator is by then, the page of the new archive opens.
Created(i) ==
    /\ presses[i].at = "created" /\ presses[i].awaited /\ i \notin list.waiters
    /\ UNCHANGED tokens
    /\ GoTo("archive", session.data, list)
    /\ At(i, "over")
    /\ UNCHANGED <<api, storage, session, sessionBearer, attempt, signOut, signedOut, troubles>>

\* It is not tried again.
CreateLost(i) ==
    /\ presses[i].awaited /\ presses[i].at \in {"asked", "served"}
    /\ At(i, "over")
    /\ Trouble
    /\ UNCHANGED <<api, storage, tokens, page, session, sessionBearer, list, listBearer,
                   attempt, signOut, signedOut>>

(***************************************************************************)
(* The way out                                                             *)
(***************************************************************************)
PressSignOut ==
    /\ LoggedIn /\ place # "loading" /\ signOut.at = "no"
    /\ signOut' = [at |-> "asked", bearer |-> readAuthToken]
    /\ UNCHANGED <<api, storage, tokens, page, session, sessionBearer, list, listBearer,
                   attempt, presses, signedOut, troubles>>

\* Whatever became of the request, the token is cleared; then the session is over
\* and the queries of the archives are removed.
SignedOut ==
    /\ signOut.at = "asked"
    /\ \/ dead' = dead \cup ({signOut.bearer} \cap DOMAIN owner) /\ UNCHANGED troubles
       \/ UNCHANGED dead /\ Trouble
    /\ clearAuthToken
    /\ session' = SetData(session, Guest)
    /\ GoTo("home", Guest, EmptyQuery)
    /\ signOut' = NoSignOut
    /\ signedOut' = signedOut \cup ({signOut.bearer} \cap DOMAIN owner)
    /\ UNCHANGED <<owner, archives, storage, sessionBearer, attempt, presses>>

(***************************************************************************)
(* The API and the other tabs                                              *)
(***************************************************************************)
Expire ==
    /\ \E k \in DOMAIN owner \ dead : dead' = dead \cup {k}
    /\ Trouble
    /\ UNCHANGED <<owner, archives, storage, tokens, page, session, sessionBearer,
                   list, listBearer, work>>

OtherTabLogsIn ==
    /\ storage /\ Len(owner) < MaxTokens
    /\ \E w \in Wallets : owner' = Append(owner, w)
    /\ stored' = Len(owner')
    /\ Trouble
    /\ UNCHANGED <<dead, archives, storage, memoryToken, page, session,
                   sessionBearer, list, listBearer, work>>

\* Signed out there, or refused.
OtherTabClears ==
    /\ stored # None
    /\ stored' = None
    /\ dead' \in {dead, dead \cup {stored}}
    /\ Trouble
    /\ UNCHANGED <<owner, archives, storage, memoryToken, page, session,
                   sessionBearer, list, listBearer, work>>

(***************************************************************************)
(* Specification                                                           *)
(***************************************************************************)
Creator ==
    \/ \E p \in Places : Navigate(p)
    \/ Reload
    \/ \E w \in Wallets : Choose(w)
    \/ Back \/ Sign
    \/ ReadList \/ Press \/ PressSignOut

Answers ==
    \/ ServeMe \/ MeAnswered \/ MeLost
    \/ Verified \/ VerifyFails
    \/ ServeList \/ ListAnswered \/ ListLost
    \/ SignedOut
    \/ \E i \in DOMAIN presses :
         ServeCreate(i) \/ CreateAnswered(i) \/ Created(i) \/ CreateLost(i)

Elsewhere == Expire \/ OtherTabLogsIn \/ OtherTabClears

Next == Creator \/ GetSession \/ Answers \/ Elsewhere

Spec == Init /\ [][Next]_vars

(***************************************************************************)
(* Properties                                                              *)
(***************************************************************************)

\* Who has signed out is forgotten: no token this tab has signed out is left where it
\* would be sent again, no list it was shown is kept, and none is on its way, however
\* answers, other tabs and further logins came in between.
SignOutForgets ==
    \A k \in signedOut :
        /\ k \notin {memoryToken, stored, listBearer}
        /\ list.data # NoData => list.data.by # k

\* An archive is what its creator pressed the button for, once, whatever was lost; and
\* at the price that was on the screen, which the form, the request and the row write
\* each in its own way, as long as a double holds the cents of that price.
AsPressed ==
    \A i \in DOMAIN archives :
        LET shown == presses[archives[i].press].shown
        IN /\ HoldsCents(shown) => archives[i].price = shown
           /\ \A j \in DOMAIN archives : archives[j].press = archives[i].press => i = j

\* "Exactly the number the author saw has to go out" (the comment on PRICE_DECIMALS,
\* money.ts:20-23).  The form sets no upper limit, and the row is written from a double.
ShownIsStored ==
    \A i \in DOMAIN archives : archives[i].price = presses[archives[i].press].shown

\* "The dashboard is closed to a guest", the comment that heads its guard.  A session
\* that ends while it is asked for again sends nobody away.
GuestsStayOut == place \in Dashboard => session.data # Guest

\* What the queries of the archives are removed for at a sign-out: the list on the
\* screen is of the account the header names.  A session that has expired removes
\* nothing.
OwnArchivesOnly ==
    place = "list" /\ list.data # NoData /\ LoggedIn =>
        owner[list.data.by] = session.data

(***************************************************************************)
(* The inductive invariant of the proofs                                   *)
(***************************************************************************)
Lists == {NoData, Guest} \cup [by : Nat, has : SUBSET Nat]
Amounts == [form : {"number", "exponent"}, digits : Nat, decimals : Nat]
Presses ==
    [at : {"asked", "served", "refused", "unauthorized", "created", "over"},
     awaited : BOOLEAN, bearer : Nat \cup {None}, shown : Amounts, sent : Amounts]
Rows == [owner : Wallets, press : Nat, price : Amounts]

TokenTypes ==
    /\ owner \in Seq(Wallets) /\ signedOut \subseteq DOMAIN owner
    /\ {stored, memoryToken} \subseteq DOMAIN owner \cup {None}
    /\ message \in Wallets \cup {None}
    /\ attempt.at = "verifying" => attempt.wallet \in Wallets

TypeOK == TokenTypes /\ presses \in Seq(Presses) /\ archives \in Seq(Rows)

\* A query of the archives that none of the tokens in S was asked with, whether the
\* list was received or is on its way.
Without(q, S) ==
    /\ q \in QueryOf(Lists, Nat) /\ q.data # Guest
    /\ \A data \in {q.data, q.answer} \ {NoData, Guest} : data.by \notin S

\* What was signed out is neither kept nor sent, and what was read with it is dropped.
Forgotten ==
    /\ {stored, memoryToken, listBearer} \cap signedOut = {}
    /\ Without(list, signedOut)

\* A price that the form lets pass, and whose cents a double holds, is kept by the
\* conversions of the row; a press that still waits for the API has no archive.
PriceKept ==
    \A i \in DOMAIN presses :
        /\ frozenPrice(presses[i].sent) \in Amounts
        /\ HoldsCents(presses[i].shown) => frozenPrice(presses[i].sent) = presses[i].shown
Settles ==
    \A i \in DOMAIN archives :
        /\ archives[i].press \in DOMAIN presses
        /\ presses[archives[i].press].at # "asked"

IInv == TypeOK /\ Forgotten /\ PriceKept /\ Settles /\ AsPressed
=============================================================================
