------------------------------ MODULE WebProofs ------------------------------
(***************************************************************************)
(* Proofs about the web application and the uploads it makes: the uploads    *)
(* service of the API (Uploads), the dashboard (Cabinet), the page of one    *)
(* archive (ArchivePage) and the storefront (Storefront).  What the last     *)
(* three share is the query of Queries.  The four have names of their own    *)
(* for what is theirs, as they are extended together.                        *)
(***************************************************************************)
EXTENDS Uploads, ArchivePage, Cabinet, Storefront,
        SequenceTheorems, FiniteSetTheorems, WellFoundedInduction, TLAPS

USE NullAssumption, TypedAssumption

-----------------------------------------------------------------------------
(***************************************************************************)
(* Numbers                                                                 *)
(***************************************************************************)

\* Some numbers have a least one.
LEMMA LeastNumber ==
  ASSUME NEW S \in SUBSET Nat, S # {}
  PROVE  \E k \in S : \A m \in S : k <= m
<1> DEFINE Less == {pair \in Nat \X Nat : pair[1] < pair[2]}
<1>1. IsWellFoundedOn(Less, Nat)
  BY NatLessThanWellFounded DEF OpToRel
<1>2. PICK k \in S : \A m \in S : ~(<<m, k>> \in Less)
  <2> HIDE DEF Less
  <2> QED
    BY <1>1, WFMin
<1>3. ASSUME NEW m \in S PROVE k <= m
  <2>1. ~(m < k)
    BY <1>2
  <2> QED
    BY <2>1
<1> QED
  BY <1>3

-----------------------------------------------------------------------------
(***************************************************************************)
(* Queries                                                                 *)
(***************************************************************************)

\* What becomes of a query's parts when it is fetched, given up, served or received.
LEMMA QueryParts ==
  ASSUME NEW q \in QueryOf(Lists, Nat)
  PROVE  /\ EmptyQuery \in QueryOf(Lists, Nat)
         /\ EmptyQuery.data = NoData /\ EmptyQuery.answer = NoData
         /\ EmptyQuery.fetching = "idle"
         /\ Fetch(q) \in QueryOf(Lists, Nat)
         /\ Fetch(q).data = q.data /\ Fetch(q).answer = q.answer
         /\ Abandon(q) \in QueryOf(Lists, Nat)
         /\ Abandon(q).data = q.data /\ Abandon(q).answer = NoData
         /\ Abandon(q).fetching = "idle"
         /\ \A d \in Lists : /\ Served(q, d) \in QueryOf(Lists, Nat)
                         /\ Served(q, d).data = q.data /\ Served(q, d).answer = d
                         /\ Served(q, d).fetching = "served"
                         /\ SetData(q, d) \in QueryOf(Lists, Nat)
                         /\ SetData(q, d).data = d /\ SetData(q, d).answer = q.answer
                         /\ SetData(q, d).fetching = q.fetching
<1>1. EmptyQuery \in QueryOf(Lists, Nat) /\ EmptyQuery.data = NoData
      /\ EmptyQuery.answer = NoData /\ EmptyQuery.fetching = "idle"
  BY DEF EmptyQuery, QueryOf, Lists
<1>2. /\ Fetch(q) \in QueryOf(Lists, Nat)
      /\ Fetch(q).data = q.data /\ Fetch(q).answer = q.answer
  BY DEF Fetch, QueryOf
<1>3. /\ Abandon(q) \in QueryOf(Lists, Nat) /\ Abandon(q).data = q.data
      /\ Abandon(q).answer = NoData /\ Abandon(q).fetching = "idle"
  BY DEF Abandon, QueryOf, Lists
<1>4. ASSUME NEW d \in Lists
      PROVE  /\ Served(q, d) \in QueryOf(Lists, Nat)
             /\ Served(q, d).data = q.data /\ Served(q, d).answer = d
             /\ Served(q, d).fetching = "served"
  BY DEF Served, QueryOf
<1>5. ASSUME NEW d \in Lists
      PROVE  /\ SetData(q, d) \in QueryOf(Lists, Nat)
             /\ SetData(q, d).data = d /\ SetData(q, d).answer = q.answer
             /\ SetData(q, d).fetching = q.fetching
  BY DEF SetData, QueryOf
<1> QED
  BY <1>1, <1>2, <1>3, <1>4, <1>5

\* The same for the steps made of these.
LEMMA QuerySteps ==
  ASSUME NEW q \in QueryOf(Lists, Nat)
  PROVE  /\ Settled(q) \in QueryOf(Lists, Nat)
         /\ Settled(q).data = q.answer /\ Settled(q).answer = NoData
         /\ Settled(q).fetching = "idle"
         /\ Failed(q) \in QueryOf(Lists, Nat)
         /\ Failed(q).data = q.data /\ Failed(q).answer = NoData
         /\ Failed(q).fetching = "idle"
         /\ \A on \in BOOLEAN, caller \in SUBSET Nat :
              /\ Invalidate(q, on, caller) \in QueryOf(Lists, Nat)
              /\ Invalidate(q, on, caller).data = q.data
              /\ Invalidate(q, on, caller).answer \in {q.answer, NoData}
         /\ \A r \in Opened(q) :
              /\ r \in QueryOf(Lists, Nat) /\ r.data = q.data /\ r.answer = q.answer
<1>1. q.answer \in Lists
  BY DEF QueryOf
<1>2. /\ Settled(q) \in QueryOf(Lists, Nat) /\ Settled(q).data = q.answer
      /\ Settled(q).answer = NoData /\ Settled(q).fetching = "idle"
  BY <1>1 DEF Settled, Abandon, SetData, QueryOf, Lists
<1>3. /\ Failed(q) \in QueryOf(Lists, Nat) /\ Failed(q).data = q.data
      /\ Failed(q).answer = NoData /\ Failed(q).fetching = "idle"
  BY DEF Failed, Abandon, QueryOf, Lists
<1>4. ASSUME NEW on \in BOOLEAN, NEW caller \in SUBSET Nat
      PROVE  /\ Invalidate(q, on, caller) \in QueryOf(Lists, Nat)
             /\ Invalidate(q, on, caller).data = q.data
             /\ Invalidate(q, on, caller).answer \in {q.answer, NoData}
  <2>1. PICK r \in {q, Abandon(q)} : Refetch(q) = Fetch(r)
    BY DEF Refetch
  <2>2. r \in QueryOf(Lists, Nat) /\ r.data = q.data /\ r.answer \in {q.answer, NoData}
    BY DEF Abandon, QueryOf, Lists
  <2>3. /\ Fetch(r) \in QueryOf(Lists, Nat) /\ Fetch(r).data = q.data
        /\ Fetch(r).answer \in {q.answer, NoData}
    BY <2>2 DEF Fetch, QueryOf
  <2> QED
    BY <2>1, <2>3 DEF Invalidate, QueryOf
<1>5. ASSUME NEW r \in Opened(q)
      PROVE  r \in QueryOf(Lists, Nat) /\ r.data = q.data /\ r.answer = q.answer
  BY DEF Opened, Fetch, QueryOf
<1> QED
  BY <1>2, <1>3, <1>4, <1>5

-----------------------------------------------------------------------------
(***************************************************************************)
(* The tokens of a creator's tab                                           *)
(***************************************************************************)

\* An account that logs in gets a token nobody has had.
LEMMA NewToken ==
  ASSUME TokenTypes, NEW w \in Wallets
  PROVE  /\ DOMAIN owner \subseteq Nat
         /\ Append(owner, w) \in Seq(Wallets)
         /\ DOMAIN owner \subseteq DOMAIN Append(owner, w)
         /\ Len(Append(owner, w)) \in DOMAIN Append(owner, w)
         /\ Len(Append(owner, w)) \notin DOMAIN owner
<1>1. /\ Len(owner) \in Nat /\ DOMAIN owner = 1 .. Len(owner)
      /\ owner \in Seq(Wallets)
  BY LenProperties DEF TokenTypes
<1>2. /\ Append(owner, w) \in Seq(Wallets)
      /\ Len(Append(owner, w)) = Len(owner) + 1
  BY <1>1, AppendProperties
<1>3. DOMAIN Append(owner, w) = 1 .. Len(owner) + 1
  BY <1>2, LenProperties
<1> QED
  BY <1>1, <1>2, <1>3

\* No token that was signed out is no token at all.
LEMMA NoneIsLive ==
  ASSUME TokenTypes
  PROVE  None \notin signedOut /\ signedOut \subseteq Nat
<1>1. owner \in Seq(Wallets) /\ signedOut \subseteq DOMAIN owner
  BY DEF TokenTypes
<1>2. DOMAIN owner = 1 .. Len(owner) /\ Len(owner) \in Nat
  BY <1>1, LenProperties
<1> QED
  BY <1>1, <1>2

\* A query that is put in place of the list is sent with the token of the moment.
LEMMA SetListKeeps ==
  ASSUME NEW S, None \notin S, {stored', memoryToken'} \cap S = {},
         NEW q, Without(q, S), q.fetching # "idle" => listBearer \notin S,
         SetList(q)
  PROVE  Without(list', S) /\ listBearer' \notin S
BY DEF SetList, Bearer, readAuthToken

\* Getting to a page reads the list with the token of the moment, or leaves it.
LEMMA GoToKeeps ==
  ASSUME NEW S, None \notin S, {stored', memoryToken'} \cap S = {},
         listBearer \notin S,
         NEW p, NEW account, NEW q, Without(q, S), GoTo(p, account, q)
  PROVE  Without(list', S) /\ listBearer' \notin S /\ message' \in {message, None}
<1>1. PICK r \in ListAt(Landing(p, account), q) : SetList(r)
  BY DEF GoTo
<1>2. r \in Opened(q) \cup {Abandon(q), q}
  BY <1>1 DEF ListAt
<1>3. q \in QueryOf(Lists, Nat) /\ NoData \in Lists
  BY DEF Without, Lists
<1>4. r \in QueryOf(Lists, Nat) /\ r.data = q.data /\ r.answer \in {q.answer, NoData}
  <2>1. CASE r \in Opened(q)
    BY <2>1, <1>3, QuerySteps
  <2>2. CASE r = Abandon(q)
    BY <2>2, <1>3, QueryParts
  <2> QED
    BY <1>2, <1>3, <2>1, <2>2
<1>5. Without(r, S)
  BY <1>4 DEF Without
<1>6. message' \in {message, None}
  BY DEF GoTo
<1> QED
  BY <1>1, <1>5, <1>6, SetListKeeps

\* What the creator does, and the answers about the session and of a login.
LEMMA SessionForgets ==
  ASSUME TokenTypes, Forgotten,
         \/ \E p \in Places : Navigate(p)
         \/ \E w \in Wallets : Choose(w)
         \/ Reload \/ Back \/ Sign \/ PressSignOut
         \/ GetSession \/ ServeMe \/ MeAnswered \/ MeLost
  PROVE  TokenTypes' /\ Forgotten'
<1> USE NoneIsLive
<1>1. ASSUME NEW p \in Places, Navigate(p) PROVE TokenTypes' /\ Forgotten'
  <2>1. UNCHANGED <<tokens, api, work>>
    BY <1>1 DEF Navigate
  <2>2. CASE UNCHANGED <<message, list, listBearer>>
    BY <2>1, <2>2 DEF TokenTypes, Forgotten, tokens, api, work
  <2>3. CASE GoTo(p, session.data, list)
    <3>1. Without(list', signedOut) /\ listBearer' \notin signedOut
          /\ message' \in {message, None}
      BY <2>1, <2>3, GoToKeeps DEF Forgotten, tokens
    <3> QED
      BY <2>1, <3>1 DEF TokenTypes, Forgotten, tokens, api, work
  <2> QED
    BY <1>1, <2>2, <2>3 DEF Navigate
<1>2. ASSUME NEW w \in Wallets, Choose(w) PROVE TokenTypes' /\ Forgotten'
  BY <1>2 DEF Choose, TokenTypes, Forgotten, tokens, api, work
<1>3. CASE Reload
  <2>1. EmptyQuery \in QueryOf(Lists, Nat) /\ EmptyQuery.data = NoData
        /\ EmptyQuery.answer = NoData
    BY DEF EmptyQuery, QueryOf, Lists
  <2>2. Without(EmptyQuery, signedOut)
    BY <2>1 DEF Without
  <2> QED
    BY <1>3, <2>2 DEF Reload, TokenTypes, Forgotten, NoAttempt
<1>4. CASE Back \/ Sign \/ PressSignOut
  BY <1>4 DEF Back, Sign, PressSignOut, TokenTypes, Forgotten, tokens, api, work, page
<1>5. ASSUME NEW q, SessionIs(q), UNCHANGED <<api, work>>,
             {stored', memoryToken'} \subseteq {stored, memoryToken, None}
      PROVE  TokenTypes' /\ Forgotten'
  <2>1. CASE UNCHANGED <<page, list, listBearer>>
    BY <1>5, <2>1 DEF TokenTypes, Forgotten, api, work, page
  <2>2. CASE GoTo(goal, q.data, list)
    <3>1. Without(list', signedOut) /\ listBearer' \notin signedOut
          /\ message' \in {message, None}
      BY <1>5, <2>2, GoToKeeps DEF Forgotten
    <3> QED
      BY <1>5, <3>1 DEF TokenTypes, Forgotten, api, work
  <2> QED
    BY <1>5, <2>1, <2>2 DEF SessionIs
<1>6. CASE GetSession
  BY <1>5, <1>6 DEF GetSession, tokens
<1>7. CASE MeAnswered
  BY <1>5, <1>7 DEF MeAnswered, failure, clearAuthToken, tokens
<1>8. CASE ServeMe \/ MeLost
  BY <1>8 DEF ServeMe, MeLost, TokenTypes, Forgotten, tokens, api, work, page
<1> QED
  BY <1>1, <1>2, <1>3, <1>4, <1>6, <1>7, <1>8

\* Logins, here and in other tabs, refused and lost ones, and the end of a session.
LEMMA LoginForgets ==
  ASSUME TokenTypes, Forgotten,
         \/ Verified \/ VerifyFails \/ SignedOut
         \/ Expire \/ OtherTabLogsIn \/ OtherTabClears
  PROVE  TokenTypes' /\ Forgotten'
<1> USE NoneIsLive
<1>1. CASE Verified
  <2>1. attempt.wallet \in Wallets
    BY <1>1 DEF Verified, TokenTypes
  <2>2. {stored', memoryToken'} \subseteq (DOMAIN owner' \ DOMAIN owner) \cup {None}
        /\ owner' \in Seq(Wallets) /\ DOMAIN owner \subseteq DOMAIN owner'
    BY <1>1, <2>1, NewToken DEF Verified, saveAuthToken
  <2>3. {stored', memoryToken'} \cap signedOut = {}
    BY <2>2 DEF TokenTypes
  <2>4. Without(list', signedOut) /\ listBearer' \notin signedOut
        /\ message' \in {message, None}
    BY <1>1, <2>3, GoToKeeps DEF Verified, Forgotten
  <2> QED
    BY <1>1, <2>2, <2>3, <2>4 DEF Verified, TokenTypes, Forgotten, NoAttempt
<1>2. CASE VerifyFails
  BY <1>2 DEF VerifyFails, clearAuthToken, TokenTypes, Forgotten, tokens, api, page,
              NoAttempt
<1>3. CASE SignedOut
  <2>1. stored' = None /\ memoryToken' = None /\ UNCHANGED <<owner, attempt>>
        /\ signedOut' \subseteq DOMAIN owner
    BY <1>3 DEF SignedOut, clearAuthToken, TokenTypes
  <2>2. PICK r \in {EmptyQuery, Abandon(EmptyQuery)} : SetList(r)
    <3>1. Landing("home", Guest) = "home"
      BY DEF Landing, Dashboard
    <3>2. \E r \in ListAt("home", EmptyQuery) : SetList(r)
      BY <1>3, <3>1 DEF SignedOut, GoTo
    <3>3. ListAt("home", EmptyQuery) \subseteq {EmptyQuery, Abandon(EmptyQuery)}
      BY DEF ListAt
    <3> QED
      BY <3>2, <3>3
  <2>3. r \in QueryOf(Lists, Nat) /\ r.data = NoData /\ r.answer = NoData
        /\ r.fetching = "idle"
    <3>1. NoData \in Lists
      BY DEF Lists
    <3>2. /\ EmptyQuery \in QueryOf(Lists, Nat) /\ EmptyQuery.data = NoData
          /\ EmptyQuery.answer = NoData /\ EmptyQuery.fetching = "idle"
      BY <3>1 DEF EmptyQuery, QueryOf
    <3>3. /\ Abandon(EmptyQuery) \in QueryOf(Lists, Nat)
          /\ Abandon(EmptyQuery).data = NoData /\ Abandon(EmptyQuery).answer = NoData
          /\ Abandon(EmptyQuery).fetching = "idle"
      BY <3>1, <3>2 DEF Abandon, QueryOf
    <3> QED
      BY <2>2, <3>2, <3>3
  <2>4. Without(list', signedOut') /\ listBearer' = None
    BY <2>2, <2>3 DEF SetList, Bearer, Without
  <2>5. message' \in {message, None}
    BY <1>3 DEF SignedOut, GoTo
  <2>6. None \notin signedOut'
    <3>1. DOMAIN owner \subseteq Nat
      BY LenProperties DEF TokenTypes
    <3> QED
      BY <2>1, <3>1
  <2> QED
    BY <2>1, <2>4, <2>5, <2>6 DEF TokenTypes, Forgotten
<1>4. CASE OtherTabLogsIn
  <2>1. stored' \in DOMAIN owner' \ DOMAIN owner
        /\ owner' \in Seq(Wallets) /\ DOMAIN owner \subseteq DOMAIN owner'
    BY <1>4, NewToken DEF OtherTabLogsIn
  <2> QED
    BY <1>4, <2>1 DEF OtherTabLogsIn, TokenTypes, Forgotten, work, page
<1>5. CASE Expire \/ OtherTabClears
  BY <1>5 DEF Expire, OtherTabClears, TokenTypes, Forgotten, tokens, work, page
<1> QED
  BY <1>1, <1>2, <1>3, <1>4, <1>5

\* A list that is read, received, refused or lost.
LEMMA ListForgets ==
  ASSUME TokenTypes, Forgotten, archives \in Seq(Rows),
         ReadList \/ ServeList \/ ListAnswered \/ ListLost
  PROVE  TokenTypes' /\ Forgotten'
<1> USE NoneIsLive
<1>1. list \in QueryOf(Lists, Nat) /\ NoData \in Lists /\ Guest \in Lists
  BY DEF Forgotten, Without, Lists
<1>2. CASE ReadList
  <2>1. /\ Fetch(list) \in QueryOf(Lists, Nat) /\ Fetch(list).data = list.data
        /\ Fetch(list).answer = list.answer
    BY <1>1, QueryParts
  <2>2. Without(Fetch(list), signedOut)
    BY <2>1 DEF Forgotten, Without
  <2>3. Without(list', signedOut) /\ listBearer' \notin signedOut
    BY <1>2, <2>2, SetListKeeps DEF ReadList, Forgotten, tokens
  <2> QED
    BY <1>2, <2>3 DEF ReadList, TokenTypes, Forgotten, tokens, api, work, page
<1>3. CASE ServeList
  <2>1. PICK answer \in {Guest, [by |-> listBearer,
                                 has |-> listForCreator(owner[listBearer])]} :
          /\ list' = Served(list, answer)
          /\ answer = Guest \/ good(listBearer)
    BY <1>3 DEF ServeList
  <2>2. DOMAIN owner \subseteq Nat /\ DOMAIN archives \subseteq Nat
    BY LenProperties DEF TokenTypes
  <2>3. answer \in Lists
    BY <2>1, <2>2 DEF Lists, good, listForCreator
  <2>4. answer \notin {NoData, Guest} => answer.by \notin signedOut
    BY <2>1 DEF Forgotten
  <2>5. /\ Served(list, answer) \in QueryOf(Lists, Nat)
        /\ Served(list, answer).data = list.data
        /\ Served(list, answer).answer = answer
    BY <1>1, <2>3 DEF Served, QueryOf
  <2>6. Without(list', signedOut)
    BY <2>1, <2>4, <2>5 DEF Forgotten, Without
  <2> QED
    BY <1>3, <2>6 DEF ServeList, TokenTypes, Forgotten, tokens, api, work, page
<1>4. CASE ListAnswered /\ list.answer = Guest
  <2>1. {stored', memoryToken'} \subseteq {stored, memoryToken, None}
    BY <1>4 DEF ListAnswered, failure, clearAuthToken, tokens
  <2>2. Without(Rejected(list), signedOut)
    BY <1>1 DEF Rejected, Failed, Abandon, QueryOf, Forgotten, Without
  <2>3. Without(list', signedOut) /\ listBearer' \notin signedOut
        /\ message' \in {message, None}
    BY <1>4, <2>1, <2>2, GoToKeeps DEF ListAnswered, Forgotten
  <2> QED
    BY <1>4, <2>1, <2>3 DEF ListAnswered, TokenTypes, Forgotten, api, work
<1>5. CASE ListAnswered /\ list.answer # Guest
  <2>1. /\ Settled(list) \in QueryOf(Lists, Nat) /\ Settled(list).data = list.answer
        /\ Settled(list).answer = NoData
    BY <1>1, QuerySteps
  <2>2. Without(Settled(list), signedOut)
    BY <1>5, <2>1 DEF Forgotten, Without
  <2>3. Without(list', signedOut) /\ listBearer' \notin signedOut
    BY <1>5, <2>2, SetListKeeps DEF ListAnswered, Forgotten, tokens
  <2> QED
    BY <1>5, <2>3 DEF ListAnswered, TokenTypes, Forgotten, tokens, api, work, page
<1>6. CASE ListLost
  <2>1. Without(Rejected(list), signedOut)
    BY <1>1 DEF Rejected, Failed, Abandon, QueryOf, Forgotten, Without
  <2> QED
    BY <1>6, <2>1 DEF ListLost, TokenTypes, Forgotten, tokens, api, work, page
<1> QED
  BY <1>2, <1>3, <1>4, <1>5, <1>6

\* What becomes of a press, with the page and the list it leads to.
LEMMA PressForgets ==
  ASSUME TokenTypes, Forgotten, presses \in Seq(Presses),
         \/ Press
         \/ \E i \in DOMAIN presses :
              ServeCreate(i) \/ CreateAnswered(i) \/ Created(i) \/ CreateLost(i)
  PROVE  TokenTypes' /\ Forgotten'
<1> USE NoneIsLive
<1>1. list \in QueryOf(Lists, Nat) /\ DOMAIN presses \subseteq Nat
  BY LenProperties DEF Forgotten, Without
<1>2. CASE Press
  BY <1>2 DEF Press, TokenTypes, Forgotten, tokens, api
<1>3. ASSUME NEW i \in DOMAIN presses, ServeCreate(i) PROVE TokenTypes' /\ Forgotten'
  BY <1>3 DEF ServeCreate, TokenTypes, Forgotten, tokens, page
<1>4. ASSUME NEW i \in Nat, CreateAnswered(i) PROVE TokenTypes' /\ Forgotten'
  <2>1. CASE UNCHANGED <<list, listBearer>>
    BY <1>4, <2>1 DEF CreateAnswered, failure, clearAuthToken, TokenTypes, Forgotten,
                      tokens, api, page
  <2>2. CASE UNCHANGED tokens /\ SetList(Invalidate(list, place = "list", {i}))
    <3>1. {i} \in SUBSET Nat /\ (place = "list") \in BOOLEAN
      OBVIOUS
    <3>2. /\ Invalidate(list, place = "list", {i}) \in QueryOf(Lists, Nat)
          /\ Invalidate(list, place = "list", {i}).data = list.data
          /\ Invalidate(list, place = "list", {i}).answer \in {list.answer, NoData}
      BY <1>1, <3>1, QuerySteps
    <3>3. Without(Invalidate(list, place = "list", {i}), signedOut)
      BY <3>2 DEF Forgotten, Without
    <3>4. Without(list', signedOut) /\ listBearer' \notin signedOut
      BY <2>2, <3>3, SetListKeeps DEF Forgotten, tokens
    <3> QED
      BY <1>4, <2>2, <3>4 DEF CreateAnswered, TokenTypes, Forgotten, tokens, api, page
  <2> QED
    BY <1>4, <2>1, <2>2 DEF CreateAnswered
<1>5. ASSUME NEW i \in DOMAIN presses, Created(i) PROVE TokenTypes' /\ Forgotten'
  <2>1. Without(list', signedOut) /\ listBearer' \notin signedOut
        /\ message' \in {message, None}
    BY <1>5, GoToKeeps DEF Created, Forgotten, tokens
  <2> QED
    BY <1>5, <2>1 DEF Created, TokenTypes, Forgotten, tokens, api
<1>6. ASSUME NEW i \in DOMAIN presses, CreateLost(i) PROVE TokenTypes' /\ Forgotten'
  BY <1>6 DEF CreateLost, TokenTypes, Forgotten, tokens, api, page
<1> QED
  BY <1>1, <1>2, <1>3, <1>4, <1>5, <1>6

-----------------------------------------------------------------------------
(***************************************************************************)
(* The prices and the presses of a creator                                 *)
(***************************************************************************)

\* A price that the form lets pass is worth a whole number of hundredths.
LEMMA WholeHundredths ==
  ASSUME NEW typed \in Typed, validatePriceInput(typed) = "fine"
  PROVE  \E k \in Nat : parseUsdc(typed) = 10000 * k
<1>1. typed.digits \in Nat /\ typed.decimals \in {0, 1, 2}
  BY DEF validatePriceInput, PRICE_DECIMALS
<1>2. CASE typed.decimals = 0
  <2>1. parseUsdc(typed) = 10000 * (typed.digits * 100)
    BY <1>1, <1>2 DEF parseUsdc, Unit, Tens, USDC_DECIMALS
  <2> QED
    BY <1>1, <2>1
<1>3. CASE typed.decimals = 1
  <2>1. parseUsdc(typed) = 10000 * (typed.digits * 10)
    BY <1>1, <1>3 DEF parseUsdc, Unit, Tens, USDC_DECIMALS
  <2> QED
    BY <1>1, <2>1
<1>4. CASE typed.decimals = 2
  <2>1. parseUsdc(typed) = 10000 * typed.digits
    BY <1>1, <1>4 DEF parseUsdc, Unit, Tens, USDC_DECIMALS
  <2> QED
    BY <1>1, <2>1
<1> QED
  BY <1>1, <1>2, <1>3, <1>4

\* Whole hundredths are shown with two decimals.
LEMMA TwoDecimals ==
  ASSUME NEW k \in Nat
  PROVE  formatUsdc(10000 * k) = [form |-> "number", digits |-> k, decimals |-> 2]
<1> DEFINE total == 10000 * k
           Chosen(d) == /\ total % Unit(d) = 0
                        /\ \A e \in 2 .. (d - 1) : total % Unit(e) # 0
<1>1. Unit(2) = 10000
  BY DEF Unit, Tens, USDC_DECIMALS
<1>2. total \in Nat /\ total % Unit(2) = 0 /\ total \div Unit(2) = k
  BY <1>1
<1>3. Chosen(2)
  BY <1>2
<1>4. ASSUME NEW d \in 2 .. USDC_DECIMALS, Chosen(d) PROVE d = 2
  <2> SUFFICES ASSUME d # 2 PROVE FALSE
    OBVIOUS
  <2>1. 2 \in 2 .. (d - 1)
    BY DEF USDC_DECIMALS
  <2> QED
    BY <1>2, <1>4, <2>1
<1>5. fractionDigits(total) = CHOOSE d \in 2 .. USDC_DECIMALS : Chosen(d)
  BY DEF fractionDigits
<1>6. (CHOOSE d \in 2 .. USDC_DECIMALS : Chosen(d)) = 2
  <2>1. 2 \in 2 .. USDC_DECIMALS
    BY DEF USDC_DECIMALS
  <2> HIDE DEF Chosen
  <2> QED
    BY <1>3, <1>4, <2>1
<1> HIDE DEF Chosen, total
<1>7. fractionDigits(total) = 2
  BY <1>5, <1>6
<1> USE DEF total
<1> QED
  BY <1>2, <1>7 DEF formatUsdc, Number

\* A division leaves a rest that is smaller than what is divided by.
LEMMA Quotient ==
  ASSUME NEW n \in Nat, NEW d \in Nat \ {0}
  PROVE  /\ n \div d \in Nat /\ n % d \in Nat
         /\ n = d * (n \div d) + (n % d) /\ n % d < d
OBVIOUS

\* What a number is divided into is told by the rest.
LEMMA QuotientIs ==
  ASSUME NEW n \in Nat, NEW d \in Nat \ {0}, NEW q \in Nat,
         d * q <= n, n < d * q + d
  PROVE  n \div d = q
<1>1. PICK p \in Nat : p = n \div d /\ d * p <= n /\ n < d * p + d
  BY Quotient
<1>2. CASE p >= q + 1
  <2>1. d * p >= d * (q + 1) /\ d * (q + 1) = d * q + d
    BY <1>2
  <2> QED
    BY <1>1, <2>1
<1>3. CASE q >= p + 1
  <2>1. d * q >= d * (p + 1) /\ d * (p + 1) = d * p + d
    BY <1>3
  <2> QED
    BY <1>1, <2>1
<1> QED
  BY <1>1, <1>2, <1>3

\* The nearest whole number is at most a half away.
LEMMA NearestIsNear ==
  ASSUME NEW n \in Nat, NEW d \in Nat \ {0}
  PROVE  /\ Nearest(n, d) \in Nat
         /\ 2 * n <= 2 * (d * Nearest(n, d)) + d
         /\ 2 * (d * Nearest(n, d)) <= 2 * n + d
<1>1. PICK low \in Nat, rest \in Nat :
        /\ low = n \div d /\ rest = n % d
        /\ n = d * low + rest /\ rest < d
  BY Quotient
<1>2. d * (low + 1) = d * low + d /\ d * low \in Nat
  OBVIOUS
<1>3. CASE Nearest(n, d) = low /\ 2 * rest <= d
  BY <1>1, <1>2, <1>3
<1>4. CASE Nearest(n, d) = low + 1 /\ 2 * rest >= d
  BY <1>1, <1>2, <1>4
<1>5. \/ Nearest(n, d) = low /\ 2 * rest <= d
      \/ Nearest(n, d) = low + 1 /\ 2 * rest >= d
  BY <1>1 DEF Nearest
<1> QED
  BY <1>3, <1>4, <1>5

\* The least of some gaps is one of them.
LEMMA LeastGap ==
  ASSUME NEW S \in SUBSET Nat, S # {}
  PROVE  Min(S) \in S /\ \A gap \in S : Min(S) <= gap
<1>1. \E gap \in S : \A other \in S : gap <= other
  BY LeastNumber
<1> QED
  BY <1>1 DEF Min

\* The double next to a price whose cents a double holds is less than half a hundredth
\* away from it.
LEMMA DoubleIsNear ==
  ASSUME NEW k \in Nat, 128 * k < 100 * Precision
  PROVE  \E x \in Nat :
           /\ parseFloat([form |-> "number", digits |-> k, decimals |-> 2]) = x
           /\ 2 * (k * Finest) < 200 * x + Finest
           /\ 200 * x < 2 * (k * Finest) + Finest
<1> DEFINE whole == k * Finest
           wide == {gap \in Spacings : whole < 100 * Precision * gap}
<1>1. Tens(2) = 100
  BY DEF Tens
<1>2. PICK gap \in Spacings : Finest = 128 * gap
  BY DoubleAssumption
<1>3. /\ Precision \in Nat /\ Finest \in Nat \ {0} /\ gap \in Nat \ {0}
      /\ Spacings \subseteq Nat \ {0}
  BY DoubleAssumption
<1>4. gap \in wide
  <2>1. (128 * k) * gap < (100 * Precision) * gap
    BY <1>3
  <2>2. (128 * k) * gap = k * (128 * gap)
    BY <1>3
  <2> QED
    BY <1>2, <2>1, <2>2
<1>5. PICK least \in wide : least = Min(wide) /\ least <= gap
  <2>1. wide \in SUBSET Nat /\ wide # {}
    BY <1>3, <1>4
  <2> HIDE DEF wide
  <2> QED
    BY <1>4, <2>1, LeastGap
<1>6. least \in Nat \ {0} /\ 128 * least <= Finest
  BY <1>2, <1>3, <1>5
<1>7. parseFloat([form |-> "number", digits |-> k, decimals |-> 2])
        = Nearest(whole, 100 * least) * least
  <2>1. wide = {g \in Spacings : k * Finest < Tens(2) * Precision * g}
    BY <1>1
  <2> HIDE DEF wide
  <2> QED
    BY <1>1, <1>5, <2>1 DEF parseFloat
<1>8. PICK steps \in Nat :
        /\ steps = Nearest(whole, 100 * least)
        /\ 2 * whole <= 2 * ((100 * least) * steps) + 100 * least
        /\ 2 * ((100 * least) * steps) <= 2 * whole + 100 * least
  <2>1. whole \in Nat /\ 100 * least \in Nat \ {0}
    BY <1>3, <1>6
  <2> HIDE DEF whole
  <2> QED
    BY <2>1, NearestIsNear
<1>9. PICK x \in Nat : x = steps * least
  BY <1>6
<1>10. 2 * ((100 * least) * steps) = 200 * x
  BY <1>6, <1>9
<1>11. 2 * whole < 200 * x + Finest /\ 200 * x < 2 * whole + Finest
  <2>1. whole \in Nat
    BY <1>3
  <2> HIDE DEF whole
  <2> QED
    BY <1>3, <1>6, <1>8, <1>10, <2>1
<1> QED
  BY <1>7, <1>8, <1>9, <1>11

\* A price whose cents a double holds is written into the row as it was sent.
LEMMA CentsAreHeld ==
  ASSUME NEW k \in Nat, 128 * k < 100 * Precision
  PROVE  frozenPrice([form |-> "number", digits |-> k, decimals |-> 2])
           = [form |-> "number", digits |-> k, decimals |-> 2]
<1>1. /\ Precision \in Nat /\ Finest \in Nat \ {0} /\ FixedLimit \in Nat
      /\ Precision <= 128 * FixedLimit
  BY DoubleAssumption
<1>2. PICK x \in Nat :
        /\ parseFloat([form |-> "number", digits |-> k, decimals |-> 2]) = x
        /\ 2 * (k * Finest) < 200 * x + Finest
        /\ 200 * x < 2 * (k * Finest) + Finest
  BY DoubleIsNear
<1>3. x < FixedLimit * Finest
  <2>1. k + 1 <= 100 * FixedLimit
    BY <1>1
  <2>2. (k + 1) * Finest <= (100 * FixedLimit) * Finest
    BY <1>1, <2>1
  <2>3. (k + 1) * Finest = k * Finest + Finest
    BY <1>1
  <2>4. (100 * FixedLimit) * Finest = 100 * (FixedLimit * Finest)
    BY <1>1
  <2>5. k * Finest \in Nat /\ FixedLimit * Finest \in Nat
    BY <1>1
  <2> QED
    BY <1>1, <1>2, <2>2, <2>3, <2>4, <2>5
<1>4. (200 * x + Finest) \div (2 * Finest) = k
  <2>1. (2 * Finest) * k = 2 * (k * Finest) /\ k * Finest \in Nat
    BY <1>1
  <2>2. /\ (2 * Finest) * k <= 200 * x + Finest
        /\ 200 * x + Finest < (2 * Finest) * k + 2 * Finest
    BY <1>1, <1>2, <2>1
  <2>3. 200 * x + Finest \in Nat /\ 2 * Finest \in Nat \ {0}
    BY <1>1
  <2> QED
    BY <2>2, <2>3, QuotientIs
<1>5. ~(x = Infinity \/ x >= FixedLimit * Finest)
  BY <1>1, <1>3 DEF Infinity
<1> QED
  BY <1>2, <1>4, <1>5 DEF frozenPrice, toFixed, Number

\* Whatever a price was, the row gets digits or an exponent.
LEMMA PriceIsWritten ==
  ASSUME NEW amount \in Amounts, amount.decimals \in 0 .. 6
  PROVE  frozenPrice(amount) \in Amounts
<1>1. Finest \in Nat \ {0} /\ Spacings \subseteq Nat \ {0}
  BY DoubleAssumption
<1>2. amount.digits \in Nat /\ Tens(amount.decimals) \in Nat \ {0}
  BY DEF Amounts, Tens
<1> DEFINE whole == amount.digits * Finest
           wide == {gap \in Spacings : whole < Tens(amount.decimals) * Precision * gap}
<1>3. parseFloat(amount) = Infinity \/ parseFloat(amount) \in Nat
  <2>1. CASE wide = {}
    BY <2>1 DEF parseFloat
  <2>2. CASE wide # {}
    <3>1. wide \in SUBSET Nat /\ whole \in Nat
      <4>1. whole \in Nat
        BY <1>1, <1>2
      <4> HIDE DEF whole
      <4>2. wide \in SUBSET Nat
        BY <1>1
      <4> QED
        BY <4>1, <4>2
    <3>2. PICK least \in wide : least = Min(wide)
      <4> HIDE DEF wide
      <4> QED
        BY <2>2, <3>1, LeastGap
    <3>3. least \in Nat \ {0}
      BY <1>1, <3>2
    <3>4. PICK gap \in Nat \ {0} : gap = Tens(amount.decimals) * least
      BY <1>2, <3>3
    <3>5. PICK steps \in Nat : steps = Nearest(whole, gap)
      <4> HIDE DEF whole
      <4> QED
        BY <3>1, NearestIsNear
    <3>6. parseFloat(amount) = steps * least
      <4>1. parseFloat(amount) = Nearest(whole, Tens(amount.decimals) * Min(wide)) * Min(wide)
        BY <2>2 DEF parseFloat
      <4> HIDE DEF wide, whole
      <4> QED
        BY <3>2, <3>4, <3>5, <4>1
    <3> QED
      BY <3>3, <3>6
  <2> QED
    BY <2>1, <2>2
<1>4. ASSUME NEW x \in Nat PROVE (200 * x + Finest) \div (2 * Finest) \in Nat
  <2>1. 200 * x + Finest \in Nat /\ 2 * Finest \in Nat \ {0}
    BY <1>1
  <2> QED
    BY <2>1, Quotient
<1>5. CASE parseFloat(amount) = Infinity
  BY <1>5 DEF frozenPrice, toFixed, Exponent, Amounts
<1>6. CASE parseFloat(amount) \in Nat
  BY <1>4, <1>6 DEF frozenPrice, toFixed, Exponent, Number, Amounts
<1> QED
  BY <1>3, <1>5, <1>6

\* The price that is sent is the price that is shown, and the conversions of the row
\* keep it where a double holds its cents.
LEMMA PriceSurvives ==
  ASSUME NEW typed \in Typed, validatePriceInput(typed) = "fine"
  PROVE  /\ normalizePrice(typed) \in Amounts
         /\ previewEconomics(typed).price = normalizePrice(typed)
         /\ frozenPrice(normalizePrice(typed)) \in Amounts
         /\ HoldsCents(normalizePrice(typed))
              => frozenPrice(normalizePrice(typed)) = normalizePrice(typed)
<1>1. PICK k \in Nat : parseUsdc(typed) = 10000 * k
  BY WholeHundredths
<1>2. normalizePrice(typed) = [form |-> "number", digits |-> k, decimals |-> 2]
  BY <1>1, TwoDecimals DEF normalizePrice
<1>3. previewEconomics(typed).price = normalizePrice(typed)
  BY DEF previewEconomics, normalizePrice
<1>4. normalizePrice(typed) \in Amounts /\ normalizePrice(typed).decimals \in 0 .. 6
  BY <1>2 DEF Amounts
<1>5. frozenPrice(normalizePrice(typed)) \in Amounts
  BY <1>4, PriceIsWritten
<1>6. ASSUME HoldsCents(normalizePrice(typed))
      PROVE  frozenPrice(normalizePrice(typed)) = normalizePrice(typed)
  <2>1. 128 * k < 100 * Precision
    BY <1>2, <1>6 DEF HoldsCents, Tens
  <2> QED
    BY <1>2, <2>1, CentsAreHeld
<1> QED
  BY <1>3, <1>4, <1>5, <1>6

\* What became of a press changes neither its price nor who has been served.
LEMMA AtKeeps ==
  ASSUME presses \in Seq(Presses), NEW i \in DOMAIN presses,
         NEW at \in {"served", "refused", "unauthorized", "created", "over"}, At(i, at)
  PROVE  /\ presses' \in Seq(Presses) /\ DOMAIN presses' = DOMAIN presses
         /\ presses'[i].at = at
         /\ \A j \in DOMAIN presses :
              /\ presses'[j].shown = presses[j].shown /\ presses'[j].sent = presses[j].sent
              /\ presses[j].at # "asked" => presses'[j].at # "asked"
<1> DEFINE row == [presses[i] EXCEPT !.at = at,
                                     !.bearer = IF at = "unauthorized" THEN @ ELSE None]
<1>1. presses[i] \in Presses
  BY ElementOfSeq, LenProperties
<1>2. /\ row \in Presses /\ row.at = at
      /\ row.shown = presses[i].shown /\ row.sent = presses[i].sent
  BY <1>1 DEF Presses
<1>3. presses' = [presses EXCEPT ![i] = row]
  BY DEF At
<1> HIDE DEF row
<1>4. presses' \in Seq(Presses)
  BY <1>2, <1>3, ExceptSeq, LenProperties
<1> QED
  BY <1>2, <1>3, <1>4, LenProperties

\* An archive stays what its press asked for while presses only get further.
LEMMA ArchivesKept ==
  ASSUME Settles, AsPressed, archives' = archives, DOMAIN presses \subseteq DOMAIN presses',
         \A j \in DOMAIN presses :
           /\ presses'[j].shown = presses[j].shown
           /\ presses[j].at # "asked" => presses'[j].at # "asked"
  PROVE  Settles' /\ AsPressed'
<1>1. Settles'
  BY DEF Settles
<1>2. ASSUME NEW i \in DOMAIN archives
      PROVE  LET shown == presses'[archives[i].press].shown
             IN HoldsCents(shown) => archives[i].price = shown
  BY DEF Settles, AsPressed
<1> QED
  BY <1>1, <1>2 DEF AsPressed

\* An archive that is created is of a press that had none.
LEMMA ArchiveCreated ==
  ASSUME owner \in Seq(Wallets), presses \in Seq(Presses), archives \in Seq(Rows),
         PriceKept, Settles, AsPressed, NEW i \in DOMAIN presses,
         presses[i].at = "asked", good(presses[i].bearer), At(i, "served"),
         archives' = Append(archives, [owner |-> owner[presses[i].bearer],
                                       press |-> i, price |-> frozenPrice(presses[i].sent)])
  PROVE  archives' \in Seq(Rows) /\ Settles' /\ AsPressed'
<1> DEFINE row == [owner |-> owner[presses[i].bearer],
                   press |-> i, price |-> frozenPrice(presses[i].sent)]
           newest == Len(archives) + 1
<1>1. /\ DOMAIN presses' = DOMAIN presses /\ presses'[i].at = "served"
      /\ \A j \in DOMAIN presses :
           /\ presses'[j].shown = presses[j].shown
           /\ presses[j].at # "asked" => presses'[j].at # "asked"
  BY AtKeeps
<1>2. presses[i] \in Presses /\ i \in Nat
  BY ElementOfSeq, LenProperties
<1>3. owner[presses[i].bearer] \in Wallets
  BY ElementOfSeq, LenProperties DEF good
<1>4. row.press = i /\ (HoldsCents(presses[i].shown) => row.price = presses[i].shown)
  BY DEF PriceKept
<1>5. row \in Rows
  BY <1>2, <1>3 DEF Rows, PriceKept, Presses
<1> HIDE DEF row
<1>6. archives' = Append(archives, row)
  BY DEF row
<1>7. /\ archives' \in Seq(Rows)
      /\ Len(archives') = newest /\ archives'[newest] = row
      /\ \A k \in 1 .. Len(archives) : archives'[k] = archives[k]
      /\ Len(archives) \in Nat
  BY <1>5, <1>6, AppendProperties, LenProperties
<1>8. DOMAIN archives' = DOMAIN archives \cup {newest} /\ DOMAIN archives = 1 .. Len(archives)
  BY <1>7, LenProperties
<1>9. \A k \in DOMAIN archives : archives'[k] = archives[k] /\ archives[k].press # i
  BY <1>7, <1>8 DEF Settles
<1>10. Settles'
  <2>1. ASSUME NEW k \in DOMAIN archives
        PROVE  /\ archives'[k].press \in DOMAIN presses'
               /\ presses'[archives'[k].press].at # "asked"
    BY <1>1, <1>9 DEF Settles
  <2>2. /\ archives'[newest].press \in DOMAIN presses'
        /\ presses'[archives'[newest].press].at # "asked"
    BY <1>1, <1>4, <1>7
  <2> QED
    BY <1>8, <2>1, <2>2 DEF Settles
<1>11. ASSUME NEW k \in DOMAIN archives'
       PROVE  LET shown == presses'[archives'[k].press].shown
              IN HoldsCents(shown) => archives'[k].price = shown
  <2>1. CASE k = newest
    BY <1>1, <1>4, <1>7, <2>1
  <2>2. CASE k \in DOMAIN archives
    <3>1. presses'[archives[k].press].shown = presses[archives[k].press].shown
      BY <1>1, <2>2 DEF Settles
    <3> QED
      BY <1>9, <2>2, <3>1 DEF AsPressed
  <2> QED
    BY <1>8, <2>1, <2>2
<1>12. ASSUME NEW k \in DOMAIN archives', NEW l \in DOMAIN archives',
              archives'[l].press = archives'[k].press
       PROVE  k = l
  BY <1>4, <1>7, <1>8, <1>9, <1>12 DEF AsPressed
<1> QED
  BY <1>7, <1>10, <1>11, <1>12 DEF AsPressed

\* Every step leaves the archives what the presses asked for.
LEMMA PressesKept ==
  ASSUME TypeOK, PriceKept, Settles, AsPressed, [Next]_vars
  PROVE  /\ presses' \in Seq(Presses) /\ archives' \in Seq(Rows)
         /\ PriceKept' /\ Settles' /\ AsPressed'
<1> USE DEF TypeOK
<1>1. CASE UNCHANGED <<presses, archives>>
  BY <1>1 DEF PriceKept, Settles, AsPressed
<1>2. ASSUME NEW i \in DOMAIN presses,
             NEW at \in {"served", "refused", "unauthorized", "created", "over"},
             At(i, at), archives' = archives
      PROVE  /\ presses' \in Seq(Presses) /\ archives' \in Seq(Rows)
             /\ PriceKept' /\ Settles' /\ AsPressed'
  <2>1. /\ presses' \in Seq(Presses) /\ DOMAIN presses' = DOMAIN presses
        /\ \A j \in DOMAIN presses :
             /\ presses'[j].shown = presses[j].shown /\ presses'[j].sent = presses[j].sent
             /\ presses[j].at # "asked" => presses'[j].at # "asked"
    BY <1>2, AtKeeps
  <2> QED
    BY <1>2, <2>1, ArchivesKept DEF PriceKept
<1>3. CASE Reload
  <2>1. /\ DOMAIN presses' = DOMAIN presses /\ archives' = archives
        /\ \A j \in DOMAIN presses :
             presses'[j] = [presses[j] EXCEPT !.awaited = FALSE]
    BY <1>3 DEF Reload
  <2>2. \A j \in DOMAIN presses :
          /\ presses[j] \in Presses /\ presses'[j] \in Presses
          /\ presses'[j].shown = presses[j].shown /\ presses'[j].sent = presses[j].sent
          /\ presses'[j].at = presses[j].at
    <3>1. \A j \in DOMAIN presses : presses[j] \in Presses
      BY ElementOfSeq, LenProperties
    <3>2. ASSUME NEW j \in DOMAIN presses, presses[j] \in Presses
          PROVE  LET press == [presses[j] EXCEPT !.awaited = FALSE]
                 IN /\ press \in Presses /\ press.at = presses[j].at
                    /\ press.shown = presses[j].shown /\ press.sent = presses[j].sent
      BY <3>2 DEF Presses
    <3> QED
      BY <2>1, <3>1, <3>2
  <2>3. presses' \in Seq(Presses)
    <3>1. DOMAIN presses = 1 .. Len(presses) /\ Len(presses) \in Nat
      BY LenProperties
    <3>2. presses' = [j \in 1 .. Len(presses) |-> [presses[j] EXCEPT !.awaited = FALSE]]
      BY <1>3, <3>1 DEF Reload
    <3>3. presses' \in [1 .. Len(presses) -> Presses]
      BY <2>1, <2>2, <3>1, <3>2
    <3> QED
      BY <3>1, <3>3
  <2> QED
    BY <2>1, <2>2, <2>3, ArchivesKept DEF PriceKept
<1>4. CASE Press
  <2>1. PICK typed \in Typed :
          /\ validatePriceInput(typed) = "fine"
          /\ presses' = Append(presses,
                 [at |-> "asked", awaited |-> TRUE, bearer |-> readAuthToken,
                  shown |-> previewEconomics(typed).price,
                  sent |-> normalizePrice(typed)])
    BY <1>4 DEF Press
  <2> DEFINE row == [at |-> "asked", awaited |-> TRUE, bearer |-> readAuthToken,
                     shown |-> previewEconomics(typed).price,
                     sent |-> normalizePrice(typed)]
  <2>2. readAuthToken \in Nat \cup {None}
    BY LenProperties DEF readAuthToken, TokenTypes
  <2>3. /\ row \in Presses /\ frozenPrice(row.sent) \in Amounts
        /\ HoldsCents(row.shown) => frozenPrice(row.sent) = row.shown
    BY <2>1, <2>2, PriceSurvives DEF Presses
  <2>4. presses' = Append(presses, row)
    BY <2>1
  <2> HIDE DEF row
  <2>5. /\ presses' \in Seq(Presses)
        /\ Len(presses') = Len(presses) + 1 /\ presses'[Len(presses) + 1] = row
        /\ \A k \in 1 .. Len(presses) : presses'[k] = presses[k]
        /\ Len(presses) \in Nat
    BY <2>3, <2>4, AppendProperties, LenProperties
  <2>6. DOMAIN presses' = DOMAIN presses \cup {Len(presses) + 1}
        /\ DOMAIN presses = 1 .. Len(presses)
    BY <2>5, LenProperties
  <2>7. PriceKept'
    BY <2>3, <2>5, <2>6 DEF PriceKept
  <2>8. archives' = archives
    BY <1>4 DEF Press, api
  <2> QED
    BY <2>5, <2>6, <2>7, <2>8, ArchivesKept
<1>5. ASSUME NEW i \in DOMAIN presses,
             ServeCreate(i) \/ CreateAnswered(i) \/ Created(i) \/ CreateLost(i)
      PROVE  /\ presses' \in Seq(Presses) /\ archives' \in Seq(Rows)
             /\ PriceKept' /\ Settles' /\ AsPressed'
  <2>1. \/ /\ archives' = archives
           /\ \/ At(i, "refused") \/ At(i, "unauthorized") \/ At(i, "created")
              \/ At(i, "over")
        \/ /\ presses[i].at = "asked" /\ good(presses[i].bearer) /\ At(i, "served")
           /\ archives' = Append(archives, [owner |-> owner[presses[i].bearer],
                    press |-> i, price |-> frozenPrice(presses[i].sent)])
    BY <1>5 DEF ServeCreate, CreateAnswered, Created, CreateLost, api
  <2>2. CASE archives' = archives
    BY <1>2, <2>1, <2>2, ArchivesKept
  <2>3. CASE /\ presses[i].at = "asked" /\ good(presses[i].bearer) /\ At(i, "served")
             /\ archives' = Append(archives, [owner |-> owner[presses[i].bearer],
                    press |-> i, price |-> frozenPrice(presses[i].sent)])
    <3>1. presses' \in Seq(Presses) /\ PriceKept'
      BY <2>3, AtKeeps DEF PriceKept
    <3> QED
      BY <2>3, <3>1, ArchiveCreated DEF TokenTypes
  <2> QED
    BY <2>1, <2>2, <2>3
<1>6. ASSUME NEW p \in Places, Navigate(p) PROVE UNCHANGED <<presses, archives>>
  BY <1>6 DEF Navigate, work, api
<1>7. ASSUME NEW w \in Wallets, Choose(w) PROVE UNCHANGED <<presses, archives>>
  BY <1>7 DEF Choose, work, api
<1>8. CASE \/ Back \/ Sign \/ PressSignOut \/ GetSession \/ ServeMe \/ MeAnswered \/ MeLost
           \/ Verified \/ VerifyFails \/ SignedOut
  BY <1>1, <1>8 DEF Back, Sign, PressSignOut, GetSession, ServeMe, MeAnswered, MeLost,
                    Verified, VerifyFails, SignedOut, work, api
<1>9. CASE \/ ReadList \/ ServeList \/ ListAnswered \/ ListLost
           \/ Expire \/ OtherTabLogsIn \/ OtherTabClears \/ UNCHANGED vars
  BY <1>1, <1>9 DEF ReadList, ServeList, ListAnswered, ListLost, Expire, OtherTabLogsIn,
                    OtherTabClears, vars, work, api
<1> QED
  BY <1>1, <1>3, <1>4, <1>5, <1>6, <1>7, <1>8, <1>9
     DEF Next, Creator, Answers, Elsewhere

-----------------------------------------------------------------------------
(***************************************************************************)
(* The creator's tab                                                       *)
(***************************************************************************)

\* A tab that is opened is in order.
LEMMA CabinetInit == Init => IInv
<1> SUFFICES ASSUME Init PROVE IInv
  OBVIOUS
<1>1. EmptyQuery \in QueryOf(Lists, Nat) /\ EmptyQuery.data = NoData
      /\ EmptyQuery.answer = NoData
  BY DEF EmptyQuery, QueryOf, Lists
<1>2. TypeOK
  BY EmptySeq, LenProperties DEF Init, TypeOK, TokenTypes, NoAttempt
<1>3. Forgotten
  BY <1>1 DEF Init, Forgotten, Without
<1> QED
  BY <1>2, <1>3 DEF Init, IInv, PriceKept, Settles, AsPressed

\* And every step keeps it in order.
LEMMA CabinetNext == IInv /\ [Next]_vars => IInv'
<1> SUFFICES ASSUME IInv, [Next]_vars PROVE IInv'
  OBVIOUS
<1>1. /\ presses' \in Seq(Presses) /\ archives' \in Seq(Rows)
      /\ PriceKept' /\ Settles' /\ AsPressed'
  BY PressesKept DEF IInv
<1>2. TokenTypes /\ Forgotten /\ archives \in Seq(Rows) /\ presses \in Seq(Presses)
  BY DEF IInv, TypeOK
<1>3. TokenTypes' /\ Forgotten'
  <2>1. CASE UNCHANGED vars
    BY <1>2, <2>1 DEF vars, api, tokens, page, work, TokenTypes, Forgotten
  <2>2. CASE Next
    BY <1>2, <2>2, SessionForgets, LoginForgets, ListForgets, PressForgets
       DEF Next, Creator, Answers, Elsewhere
  <2> QED
    BY <2>1, <2>2
<1> QED
  BY <1>1, <1>3 DEF IInv, TypeOK

\* The invariant of the tab (apps/web: the token, the session, the list and the form).
THEOREM CabinetInvariant == Spec => []IInv
BY CabinetInit, CabinetNext, PTL DEF Spec

\* Every variable that the properties speak of has its type.
THEOREM CabinetTypes == Spec => []TypeOK
<1>1. IInv => TypeOK
  BY DEF IInv
<1> QED
  BY <1>1, CabinetInvariant, PTL

\* Who has signed out is forgotten (auth-token.ts, use-auth.ts): no token this tab
\* has signed out is kept or sent again, and no list read with it is left.
THEOREM SigningOutForgets == Spec => []SignOutForgets
<1>1. IInv => SignOutForgets
  <2> SUFFICES ASSUME IInv, NEW k \in signedOut
               PROVE  /\ k \notin {memoryToken, stored, listBearer}
                      /\ list.data # NoData => list.data.by # k
    BY DEF SignOutForgets
  <2>1. k \notin {memoryToken, stored, listBearer}
    BY DEF IInv, Forgotten
  <2>2. list.data # NoData => list.data.by # k
    BY DEF IInv, Forgotten, Without
  <2> QED
    BY <2>1, <2>2
<1> QED
  BY <1>1, CabinetInvariant, PTL

\* An archive is what its creator pressed the button for, once, at the price that was
\* on the screen (money.ts, create-archive-form.ts, archives.service.ts).
THEOREM ArchivesAsPressed == Spec => []AsPressed
<1>1. IInv => AsPressed
  BY DEF IInv
<1> QED
  BY <1>1, CabinetInvariant, PTL

-----------------------------------------------------------------------------
(***************************************************************************)
(* Orders                                                                  *)
(***************************************************************************)

\* A strict total order on a set.
Total(R, S) ==
  /\ \A x \in S : <<x, x>> \notin R
  /\ \A x, y \in S : x # y => <<x, y>> \in R \/ <<y, x>> \in R
  /\ \A x, y, z \in S : <<x, y>> \in R /\ <<y, z>> \in R => <<x, z>> \in R
Below(R, S, x) == {y \in S : <<y, x>> \in R}
rank(R, S, x) == Cardinality(Below(R, S, x))

\* What comes later in a total order has more before it.
LEMMA LaterRank ==
  ASSUME NEW S, IsFiniteSet(S), NEW R, Total(R, S),
         NEW x \in S, NEW y \in S, <<x, y>> \in R
  PROVE  rank(R, S, x) < rank(R, S, y)
<1>1. IsFiniteSet(Below(R, S, y)) /\ rank(R, S, x) \in Nat /\ rank(R, S, y) \in Nat
  <2>1. \A z : IsFiniteSet(Below(R, S, z))
    BY FS_Subset DEF Below
  <2> QED
    BY <2>1, FS_CardinalityType DEF rank
<1>2. /\ Below(R, S, x) \subseteq Below(R, S, y)
      /\ x \in Below(R, S, y) /\ x \notin Below(R, S, x)
  BY DEF Below, Total
<1>3. Below(R, S, x) \subseteq Below(R, S, y) /\ Below(R, S, x) # Below(R, S, y)
  BY <1>2
<1> QED
  BY <1>1, <1>3, FS_Subset DEF rank

\* A finite set in a total order is a sequence in that order.
LEMMA InOrder ==
  ASSUME NEW S, IsFiniteSet(S), NEW R, Total(R, S)
  PROVE  \E f \in Bijection(1 .. Cardinality(S), S) :
            \A i, j \in 1 .. Cardinality(S) : i < j => <<f[i], f[j]>> \in R
<1> DEFINE n == Cardinality(S)
           g == [x \in S |-> rank(R, S, x) + 1]
<1>1. n \in Nat
  BY FS_CardinalityType
<1>2. ASSUME NEW x \in S PROVE rank(R, S, x) \in 0 .. n - 1
  <2>1. Below(R, S, x) \subseteq S /\ Below(R, S, x) # S
    BY DEF Below, Total
  <2>2. IsFiniteSet(Below(R, S, x)) /\ rank(R, S, x) \in Nat
    BY <2>1, FS_Subset, FS_CardinalityType DEF rank
  <2>3. rank(R, S, x) <= n /\ rank(R, S, x) # n
    BY <2>1, FS_Subset DEF rank
  <2> QED
    BY <1>1, <2>2, <2>3
<1>3. \A x, y \in S : <<x, y>> \in R => g[x] < g[y]
  BY <1>2, LaterRank
<1>4. g \in Injection(S, 1 .. n)
  <2>1. \A x \in S : g[x] \in 1 .. n
    BY <1>1, <1>2
  <2>2. \A x, y \in S : g[x] = g[y] => x = y
    <3> HIDE DEF g
    <3> SUFFICES ASSUME NEW x \in S, NEW y \in S, g[x] = g[y], x # y
                 PROVE  FALSE
      OBVIOUS
    <3>1. g[x] \in Nat /\ g[y] \in Nat
      BY <2>1, <1>1
    <3>2. <<x, y>> \in R \/ <<y, x>> \in R
      BY DEF Total
    <3> QED
      BY <1>3, <3>1, <3>2
  <2> QED
    BY <2>1, <2>2 DEF Injection, IsInjective
<1>5. IsFiniteSet(1 .. n) /\ Cardinality(1 .. n) = n
  <2>1. /\ IsFiniteSet(1 .. n)
        /\ Cardinality(1 .. n) = IF 1 > n THEN 0 ELSE n - 1 + 1
    <3>1. 1 \in Int /\ n \in Int
      BY <1>1
    <3> QED
      BY <3>1, FS_Interval
  <2> QED
    BY <1>1, <2>1
<1>6. g \in Surjection(S, 1 .. n)
  <2> HIDE DEF g
  <2> QED
    BY <1>4, <1>5, FS_Injection
<1> DEFINE f == [i \in 1 .. n |-> CHOOSE x \in S : g[x] = i]
<1>7. ASSUME NEW i \in 1 .. n PROVE f[i] \in S /\ g[f[i]] = i
  <2>1. \E x \in S : g[x] = i
    <3> HIDE DEF g
    <3> QED
      BY <1>6 DEF Surjection
  <2> HIDE DEF g
  <2> QED
    BY <2>1
<1>8. ASSUME NEW x \in S PROVE g[x] \in 1 .. n /\ f[g[x]] = x
  <2>1. g[x] \in 1 .. n
    <3> HIDE DEF g
    <3> QED
      BY <1>4 DEF Injection
  <2>2. f[g[x]] \in S /\ g[f[g[x]]] = g[x]
    <3> HIDE DEF f, g
    <3> QED
      BY <2>1, <1>7
  <2> HIDE DEF f, g
  <2> QED
    BY <1>4, <2>1, <2>2 DEF Injection, IsInjective
<1>9. \A i, j \in 1 .. n : i < j => <<f[i], f[j]>> \in R
  <2> SUFFICES ASSUME NEW i \in 1 .. n, NEW j \in 1 .. n, i < j
               PROVE  <<f[i], f[j]>> \in R
    OBVIOUS
  <2> HIDE DEF f, g, n
  <2>1. f[i] \in S /\ f[j] \in S /\ g[f[i]] = i /\ g[f[j]] = j
    BY <1>7
  <2>2. f[i] # f[j] /\ ~(g[f[j]] < g[f[i]])
    BY <1>1, <2>1
  <2> QED
    BY <1>3, <2>1, <2>2 DEF Total
<1>10. f \in [1 .. n -> S]
  BY <1>7
<1> HIDE DEF f, g, n
<1>11. f \in Bijection(1 .. n, S)
  <2>1. f \in Surjection(1 .. n, S)
    BY <1>8, <1>10 DEF Surjection
  <2>2. f \in Injection(1 .. n, S)
    BY <1>7, <1>10 DEF Injection, IsInjective
  <2> QED
    BY <2>1, <2>2 DEF Bijection
<1> QED
  BY <1>9, <1>11 DEF n

\* There is only one such sequence.
LEMMA OneOrder ==
  ASSUME NEW S, IsFiniteSet(S), NEW R, Total(R, S),
         NEW f \in Bijection(1 .. Cardinality(S), S),
         \A i, j \in 1 .. Cardinality(S) : i < j => <<f[i], f[j]>> \in R,
         NEW g \in Bijection(1 .. Cardinality(S), S),
         \A i, j \in 1 .. Cardinality(S) : i < j => <<g[i], g[j]>> \in R
  PROVE  f = g
<1> DEFINE n == Cardinality(S)
<1>1. n \in Nat
  BY FS_CardinalityType
<1> HIDE DEF n
<1>2. ASSUME NEW h \in Bijection(1 .. n, S), NEW i \in 1 .. n,
             \A j, k \in 1 .. n : j < k => <<h[j], h[k]>> \in R
      PROVE  rank(R, S, h[i]) = i - 1
  <2> DEFINE first == [j \in 1 .. (i - 1) |-> h[j]]
             before == Below(R, S, h[i])
  <2>1. /\ h \in [1 .. n -> S] /\ \A s \in S : \E j \in 1 .. n : h[j] = s
        /\ \A j, k \in 1 .. n : h[j] = h[k] => j = k
    BY DEF Bijection, Injection, Surjection, IsInjective
  <2>2. i \in Nat /\ \A j \in 1 .. (i - 1) : j \in 1 .. n /\ j < i
    BY <1>1
  <2>3. ASSUME NEW j \in 1 .. n, ~(j < i)
        PROVE  h[j] \notin before
    <3>1. j = i \/ i < j
      BY <2>3, <1>1
    <3>2. h[j] \in S /\ h[i] \in S
      BY <2>1
    <3> QED
      BY <1>2, <3>1, <3>2 DEF Below, Total
  <2>4. \A s \in before : \E j \in 1 .. (i - 1) : h[j] = s
    <3> SUFFICES ASSUME NEW s \in before PROVE \E j \in 1 .. (i - 1) : h[j] = s
      OBVIOUS
    <3>1. PICK j \in 1 .. n : h[j] = s
      BY <2>1 DEF Below
    <3>2. j < i
      BY <2>3, <3>1
    <3>3. j \in 1 .. (i - 1)
      BY <1>1, <2>2, <3>2
    <3> QED
      BY <3>1, <3>3
  <2>5. \A j \in 1 .. (i - 1) : h[j] \in before
    BY <1>2, <2>1, <2>2 DEF Below
  <2>6. first \in Bijection(1 .. (i - 1), before)
    <3> HIDE DEF before
    <3>1. first \in [1 .. (i - 1) -> before]
      BY <2>5
    <3> QED
      BY <2>1, <2>2, <2>4, <3>1 DEF Bijection, Injection, Surjection, IsInjective
  <2>7. IsFiniteSet(1 .. (i - 1)) /\ Cardinality(1 .. (i - 1)) = i - 1
    <3>1. /\ IsFiniteSet(1 .. (i - 1))
          /\ Cardinality(1 .. (i - 1)) = IF 1 > i - 1 THEN 0 ELSE (i - 1) - 1 + 1
      <4>1. 1 \in Int /\ i - 1 \in Int
        BY <2>2
      <4> QED
        BY <4>1, FS_Interval
    <3> QED
      BY <2>2, <3>1
  <2> HIDE DEF first, before
  <2>8. Cardinality(before) = i - 1
    BY <2>6, <2>7, FS_Bijection DEF ExistsBijection
  <2> QED
    BY <2>8 DEF rank, before
<1>3. ASSUME NEW i \in 1 .. n PROVE f[i] = g[i]
  <2>1. f[i] \in S /\ g[i] \in S
    BY DEF Bijection, Injection, n
  <2>2. rank(R, S, f[i]) = i - 1 /\ rank(R, S, g[i]) = i - 1
    BY <1>2 DEF n
  <2>3. ASSUME <<f[i], g[i]>> \in R \/ <<g[i], f[i]>> \in R PROVE FALSE
    <3>1. i - 1 < i - 1
      BY <2>1, <2>2, <2>3, LaterRank
    <3>2. i - 1 \in Nat
      BY <1>1
    <3> QED
      BY <3>1, <3>2
  <2> QED
    BY <2>1, <2>3 DEF Total
<1>4. f \in [1 .. n -> S] /\ g \in [1 .. n -> S]
  BY DEF Bijection, Injection, n
<1>5. f = [i \in 1 .. n |-> f[i]] /\ g = [i \in 1 .. n |-> g[i]]
  BY <1>4
<1>6. [i \in 1 .. n |-> f[i]] = [i \in 1 .. n |-> g[i]]
  BY <1>3
<1> QED
  BY <1>5, <1>6

-----------------------------------------------------------------------------
(***************************************************************************)
(* The pages of the catalogue                                              *)
(***************************************************************************)

\* What was bought or downloaded within a window are numbers.
LEMMA WindowTypes ==
  ASSUME NEW table \in CatalogueRows, NEW a \in Archives, NEW sort
  PROVE  windowPaid(table[a], sort) \in Nat /\ windowDownloads(table[a], sort) \in Nat
<1>1. /\ table[a].paid \in Counts /\ table[a].downloads \in Counts
  BY DEF CatalogueRows
<1>2. ASSUME NEW counts \in Counts PROVE Within(counts, sort) \in Nat
  BY DEF Within, Counts, Ages
<1> QED
  BY <1>1, <1>2 DEF windowPaid, windowDownloads

\* A popularity sort orders any archives.
LEMMA PopularIsTotal ==
  ASSUME NEW table \in CatalogueRows, NEW sort, NEW found \in SUBSET Archives
  PROVE  Total({x \in found \X found : MorePopular(table, sort, x[1], x[2])}, found)
<1>1. ASSUME NEW a \in Archives, NEW b \in Archives
      PROVE  MorePopular(table, sort, a, b) <=>
               LET paid(c) == windowPaid(table[c], sort)
                   downloads(c) == windowDownloads(table[c], sort)
               IN \/ sort # "most_downloaded" /\ paid(b) < paid(a)
                  \/ /\ sort = "most_downloaded" \/ paid(a) = paid(b)
                     /\ \/ downloads(b) < downloads(a)
                        \/ downloads(a) = downloads(b) /\ b < a
  <2>1. /\ windowPaid(table[a], sort) \in Nat /\ windowPaid(table[b], sort) \in Nat
        /\ windowDownloads(table[a], sort) \in Nat /\ windowDownloads(table[b], sort) \in Nat
        /\ a \in Nat /\ b \in Nat
    BY WindowTypes, ArchivesAssumption
  <2> QED
    BY <2>1 DEF MorePopular
<1> DEFINE paid == [a \in Archives |-> windowPaid(table[a], sort)]
           downloads == [a \in Archives |-> windowDownloads(table[a], sort)]
           More(a, b) == \/ sort # "most_downloaded" /\ paid[b] < paid[a]
                         \/ /\ sort = "most_downloaded" \/ paid[a] = paid[b]
                            /\ \/ downloads[b] < downloads[a]
                               \/ downloads[a] = downloads[b] /\ b < a
<1>2. \A a, b \in Archives : MorePopular(table, sort, a, b) <=> More(a, b)
  BY <1>1
<1>3. \A a \in Archives : paid[a] \in Nat /\ downloads[a] \in Nat /\ a \in Nat
  BY WindowTypes, ArchivesAssumption
<1> HIDE DEF paid, downloads
<1>4. /\ \A a \in found : ~More(a, a)
      /\ \A a, b \in found : a # b => More(a, b) \/ More(b, a)
      /\ \A a, b, c \in found : More(a, b) /\ More(b, c) => More(a, c)
  BY <1>3
<1> HIDE DEF More
<1> QED
  BY <1>2, <1>4 DEF Total

\* A popularity sort lists what the search finds, each once, in one order.
LEMMA OneListing ==
  ASSUME NEW table \in CatalogueRows, NEW sort \in PopularitySorts,
         NEW text \in DOMAIN Matches
  PROVE  LET found == Listed(table, text)
             n == Cardinality(found)
         IN /\ n \in Nat
            /\ \E order \in Bijection(1 .. n, found) :
                 /\ Orders(table, sort, text) = {order}
                 /\ \A i, j \in 1 .. n :
                      i < j => MorePopular(table, sort, order[i], order[j])
<1> DEFINE found == Listed(table, text)
           n == Cardinality(found)
           R == {x \in found \X found : MorePopular(table, sort, x[1], x[2])}
<1>1. found \in SUBSET Archives /\ IsFiniteSet(found) /\ n \in Nat
  <2>1. found \subseteq Archives
    BY MatchesAssumption DEF Listed
  <2> QED
    BY <2>1, ArchivesAssumption, FS_Subset, FS_CardinalityType
<1>2. Total(R, found)
  <2> HIDE DEF found
  <2> QED
    BY <1>1, PopularIsTotal
<1>3. SetToSeqs(found) = Bijection(1 .. n, found)
  <2> HIDE DEF found
  <2>1. ASSUME NEW f \in [1 .. n -> found], IsInjective(f)
        PROVE  f \in Surjection(1 .. n, found)
    <3>1. f \in Injection(1 .. n, found)
      BY <2>1 DEF Injection
    <3>2. IsFiniteSet(1 .. n) /\ Cardinality(1 .. n) = n
      <4>1. /\ IsFiniteSet(1 .. n)
            /\ Cardinality(1 .. n) = IF 1 > n THEN 0 ELSE n - 1 + 1
        <5>1. 1 \in Int /\ n \in Int
          BY <1>1
        <5> QED
          BY <5>1, FS_Interval
      <4> QED
        BY <1>1, <4>1
    <3> QED
      BY <1>1, <3>1, <3>2, FS_Injection
  <2>2. SetToSeqs(found) = {f \in [1 .. n -> found] : IsInjective(f)}
    BY DEF SetToSeqs, IsInjective
  <2> HIDE DEF n
  <2> QED
    BY <2>1, <2>2 DEF Bijection, Injection, Surjection
<1>4. PICK order \in Bijection(1 .. n, found) :
         \A i, j \in 1 .. n : i < j => <<order[i], order[j]>> \in R
  <2> HIDE DEF R, found
  <2> QED
    BY <1>1, <1>2, InOrder
<1>5. ASSUME NEW f \in Bijection(1 .. n, found)
      PROVE  /\ DOMAIN f = 1 .. n /\ \A i \in 1 .. n : f[i] \in found
             /\ \A i, j \in 1 .. n :
                  Before(table, sort, f[i], f[j]) <=> <<f[i], f[j]>> \in R
  <2> HIDE DEF found, n
  <2>1. DOMAIN f = 1 .. n /\ \A i \in 1 .. n : f[i] \in found
    BY DEF Bijection, Injection
  <2> QED
    BY <2>1 DEF Before
<1> HIDE DEF R, found, n
<1>6. Orders(table, sort, text) =
        {f \in Bijection(1 .. n, found) :
            \A i, j \in DOMAIN f : i < j => Before(table, sort, f[i], f[j])}
  BY <1>3 DEF Orders, found
<1>7. Orders(table, sort, text) = {order}
  <2>1. order \in Orders(table, sort, text)
    BY <1>4, <1>5, <1>6
  <2>2. ASSUME NEW f \in Orders(table, sort, text) PROVE f = order
    <3>1. f \in Bijection(1 .. n, found)
          /\ \A i, j \in 1 .. n : i < j => <<f[i], f[j]>> \in R
      BY <1>5, <1>6
    <3> QED
      BY <1>1, <1>2, <1>4, <3>1, OneOrder DEF n
  <2> QED
    BY <2>1, <2>2
<1>8. \A i, j \in 1 .. n : i < j => MorePopular(table, sort, order[i], order[j])
  BY <1>4, <1>5 DEF R
<1> QED
  BY <1>1, <1>4, <1>7, <1>8 DEF found, n

\* The place in the whole list of one on a page.
Place(p, s) == (p - 1) * PerPage + s
Paged(shown, order, n, p) ==
  \A s : /\ s \in DOMAIN shown <=> s \in 1 .. PerPage /\ Place(p, s) <= n
         /\ s \in DOMAIN shown => shown[s] = order[Place(p, s)]

\* What a page holds: the places of the list that are its own.
LEMMA PageOf ==
  ASSUME NEW n \in Nat, NEW order \in [1 .. n -> Archives], NEW p \in Nat \ {0},
         Place(p, 0) <= n
  PROVE  Paged(Slice(order, p), order, n, p)
<1> DEFINE S == Archives
<1> DEFINE from == (p - 1) * PerPage
           to == IF from + PerPage < n THEN from + PerPage ELSE n
<1>1. PerPage \in Nat \ {0} /\ p - 1 \in Nat
  BY PerPageAssumption
<1>2. from \in Nat /\ from <= n /\ \A s : Place(p, s) = from + s
  BY <1>1 DEF Place
<1>3. Len(order) = n
  <2>1. order = [i \in 1 .. n |-> order[i]]
    OBVIOUS
  <2>2. Len([i \in 1 .. n |-> order[i]]) = n
    OBVIOUS
  <2> QED
    BY <2>1, <2>2
<1>4. Slice(order, p) = SubSeq(order, from + 1, to)
  BY <1>3 DEF Slice, skip
<1> HIDE DEF from
<1>5. to \in Nat /\ from <= to /\ to <= n
  BY <1>1, <1>2
<1>6. \A i \in from + 1 .. to : order[i] \in S
  BY <1>2, <1>5
<1> DEFINE shown == SubSeq(order, from + 1, to)
<1>7. /\ shown \in Seq(S) /\ Len(shown) = to - from
      /\ \A s \in 1 .. (to - from) : shown[s] = order[from + s]
  <2> HIDE DEF to
  <2>1. /\ shown \in Seq(S)
        /\ Len(shown) = IF from + 1 <= to THEN to - (from + 1) + 1 ELSE 0
        /\ \A s \in 1 .. (to - (from + 1) + 1) : shown[s] = order[(from + 1) + s - 1]
    <3>1. from + 1 \in Int /\ to \in Int
      BY <1>2, <1>5
    <3> HIDE DEF shown
    <3> QED
      BY <1>6, <3>1, SubSeqProperties DEF shown
  <2> HIDE DEF shown
  <2>2. to - (from + 1) + 1 = to - from /\ \A s \in Nat : (from + 1) + s - 1 = from + s
    BY <1>2, <1>5
  <2>3. \A s \in 1 .. (to - from) : s \in Nat
    BY <1>2, <1>5
  <2> QED
    BY <1>2, <1>5, <2>1, <2>2, <2>3
<1>8. DOMAIN shown = 1 .. (to - from)
  <2> HIDE DEF shown
  <2> QED
    BY <1>7
<1>9. \A s : s \in 1 .. (to - from) <=> s \in 1 .. PerPage /\ from + s <= n
  BY <1>1, <1>2
<1> HIDE DEF shown, to
<1>10. \A s : /\ s \in DOMAIN shown <=> s \in 1 .. PerPage /\ Place(p, s) <= n
              /\ s \in DOMAIN shown => shown[s] = order[Place(p, s)]
  BY <1>2, <1>7, <1>8, <1>9
<1> QED
  BY <1>4, <1>10 DEF shown, Paged

\* Every place of the sequence is on one of the pages.
LEMMA OnSomePage ==
  ASSUME NEW n \in Nat, NEW k \in 1 .. n
  PROVE  \E p \in 1 .. pageCount(n), s \in 1 .. PerPage : Place(p, s) = k
<1> DEFINE q == (k - 1) \div PerPage
           r == (k - 1) % PerPage
           count == (n + PerPage - 1) \div PerPage
<1>1. PerPage \in Nat \ {0} /\ k - 1 \in Nat /\ n # 0 /\ n + PerPage - 1 \in Nat
  BY PerPageAssumption
<1>2. /\ k - 1 = PerPage * q + r /\ r \in 0 .. (PerPage - 1) /\ q \in Nat
  BY <1>1
<1>3. /\ n + PerPage - 1 = PerPage * count + ((n + PerPage - 1) % PerPage)
      /\ (n + PerPage - 1) % PerPage \in 0 .. (PerPage - 1) /\ count \in Nat
  BY <1>1
<1>4. pageCount(n) = count
  BY <1>1 DEF pageCount
<1> HIDE DEF q, r, count
<1>5. q + 1 <= count
  <2> SUFFICES ASSUME count <= q PROVE FALSE
    BY <1>2, <1>3
  <2>1. PerPage * count <= PerPage * q
    BY <1>1, <1>2, <1>3
  <2> QED
    BY <1>1, <1>2, <1>3, <2>1
<1>6. q * PerPage + (r + 1) = k
  <2>1. q * PerPage = PerPage * q
    BY <1>1, <1>2
  <2> QED
    BY <1>1, <1>2, <2>1
<1>7. q + 1 \in 1 .. pageCount(n) /\ r + 1 \in 1 .. PerPage
  BY <1>1, <1>2, <1>3, <1>4, <1>5
<1>8. PICK p \in 1 .. pageCount(n) : p = q + 1
  BY <1>7
<1>9. PICK s \in 1 .. PerPage : s = r + 1
  BY <1>7
<1>10. Place(p, s) = k
  <2>1. p - 1 = q
    BY <1>2, <1>8
  <2> QED
    BY <1>6, <1>9, <2>1 DEF Place
<1> QED
  BY <1>10

\* A shown begins where there is something left, and a later page later.
LEMMA PageBegins ==
  ASSUME NEW n \in Nat, NEW p \in 1 .. pageCount(n)
  PROVE  Place(p, 0) <= n
<1> DEFINE count == (n + PerPage - 1) \div PerPage
<1>1. PerPage \in Nat \ {0} /\ n + PerPage - 1 \in Nat
  BY PerPageAssumption
<1>2. CASE n = 0
  BY <1>1, <1>2 DEF pageCount, Place
<1>3. CASE n # 0
  <2>1. /\ n + PerPage - 1 = PerPage * count + ((n + PerPage - 1) % PerPage)
        /\ (n + PerPage - 1) % PerPage \in 0 .. (PerPage - 1) /\ count \in Nat
    BY <1>1
  <2>2. p \in 1 .. count
    BY <1>3 DEF pageCount
  <2> HIDE DEF count
  <2>3. p - 1 \in Nat /\ p - 1 <= count - 1
    BY <2>1, <2>2
  <2>4. (p - 1) * PerPage <= (count - 1) * PerPage
    BY <1>1, <2>1, <2>2, <2>3
  <2>5. (count - 1) * PerPage = PerPage * count - PerPage
    BY <1>1, <2>1
  <2>6. (p - 1) * PerPage \in Nat
    BY <1>1, <2>3
  <2> QED
    BY <1>1, <2>1, <2>4, <2>5, <2>6 DEF Place
<1> QED
  BY <1>2, <1>3

-----------------------------------------------------------------------------
(***************************************************************************)
(* The visitor's tab                                                       *)
(***************************************************************************)

\* One more is asked for.
LEMMA OneMore ==
  ASSUME VisitTypes, NEW b, asked' = [asked EXCEPT ![b] = @ + 1]
  PROVE  /\ asked' \in [Archives -> Nat]
         /\ \A a \in Archives : asked'[a] = IF a = b THEN asked[a] + 1 ELSE asked[a]
<1>1. \A a \in Archives : asked'[a] = IF a = b THEN asked[a] + 1 ELSE asked[a]
  BY DEF VisitTypes
<1>2. asked' = [a \in Archives |-> asked'[a]]
  BY DEF VisitTypes
<1>3. \A a \in Archives : asked'[a] \in Nat
  BY <1>1 DEF VisitTypes
<1> QED
  BY <1>1, <1>2, <1>3

\* A request for a card counts one view at most, and none within the 15 minutes.
LEMMA CountsOnce ==
  ASSUME VisitTypes, NEW a, getArchiveBySlug(a)
  PROVE  /\ views' \in [Archives -> Nat] /\ recent \subseteq recent'
         /\ \A b \in Archives :
              \/ views'[b] = views[b]
              \/ b = a /\ b \notin recent /\ b \in recent' /\ views'[b] = views[b] + 1
BY DEF VisitTypes, getArchiveBySlug

\* A request that is left behind had been asked for.
LEMMA LeftBehindCovered ==
  ASSUME VisitTypes, Covered, LeftBehind
  PROVE  /\ views' \in [Archives -> Nat]
         /\ \A a \in Archives : views'[a] <= asked[a] + woken
<1>1. CASE UNCHANGED <<views, recent>>
  BY <1>1 DEF VisitTypes, Covered
<1>2. CASE card.fetching = "sent" /\ getArchiveBySlug(cardOf)
  <2>1. /\ views' \in [Archives -> Nat]
        /\ \A b \in Archives :
             \/ views'[b] = views[b]
             \/ b = cardOf /\ b \notin recent /\ views'[b] = views[b] + 1
    BY <1>2, CountsOnce
  <2>2. \A b \in Archives : b = cardOf /\ b \notin recent => views[b] < asked[b] + woken
    BY <1>2 DEF Covered, Pending
  <2> QED
    BY <2>1, <2>2 DEF VisitTypes, Covered
<1> QED
  BY <1>1, <1>2 DEF LeftBehind

\* An address that changes to an archive's asks for its card once.
LEMMA NavigateCovered ==
  ASSUME VisitTypes, CardOfAddress, Covered, NEW to, LeadTo(to)
  PROVE  VisitTypes' /\ CardOfAddress' /\ Covered'
<1>1. CASE to.place = "archive"
  <2>1. /\ views' \in [Archives -> Nat]
        /\ \A a \in Archives : views'[a] <= asked[a] + woken
    BY <1>1, LeftBehindCovered DEF LeadTo
  <2>2. /\ location' = to /\ cardOf' = to.archive /\ woken' = woken
        /\ asked' = [asked EXCEPT ![to.archive] = @ + 1]
    BY <1>1 DEF LeadTo, Loader
  <2>3. asked' \in [Archives -> Nat]
    BY <2>2, OneMore
  <2>4. \A a \in Archives : asked'[a] = IF a = cardOf' THEN asked[a] + 1 ELSE asked[a]
    BY <2>2, OneMore
  <2>5. Covered'
    BY <2>1, <2>2, <2>4 DEF VisitTypes, Covered, Pending
  <2> QED
    BY <1>1, <2>1, <2>2, <2>3, <2>5 DEF VisitTypes, CardOfAddress
<1>2. CASE to.place # "archive"
  <2>1. /\ location' = to
        /\ UNCHANGED <<asked, card, cardOf, views, recent, rendered, woken>>
    BY <1>2 DEF LeadTo
  <2>2. \A a \in Archives : Pending(a)' => Pending(a)
    BY <1>2, <2>1 DEF Pending
  <2>3. Covered'
    BY <2>1, <2>2 DEF VisitTypes, Covered
  <2> QED
    BY <1>2, <2>1, <2>3 DEF VisitTypes, CardOfAddress
<1> QED
  BY <1>1, <1>2

\* The views that are counted, or may still be, stay covered by what was asked for.
LEMMA VisitsNext ==
  ASSUME VisitTypes, CardOfAddress, Covered, [VisitorNext]_(visitorVars)
  PROVE  VisitTypes' /\ CardOfAddress' /\ Covered'
<1>1. ASSUME UNCHANGED <<location, cardOf, views, asked, woken, recent>>,
             \A a \in Archives : Pending(a)' => Pending(a)
      PROVE  VisitTypes' /\ CardOfAddress' /\ Covered'
  BY <1>1 DEF VisitTypes, CardOfAddress, Covered
<1>2. CASE UNCHANGED <<location, rendered, card, cardOf, views, asked, woken, recent>>
  BY <1>1, <1>2 DEF Pending
<1>3. CASE ServeCard
  <2>1. /\ views' \in [Archives -> Nat] /\ recent \subseteq recent'
        /\ \A b \in Archives :
             \/ views'[b] = views[b]
             \/ b = cardOf /\ b \notin recent /\ b \in recent' /\ views'[b] = views[b] + 1
    BY <1>3, CountsOnce DEF ServeCard
  <2>2. UNCHANGED <<location, rendered, cardOf, asked, woken>> /\ card.fetching = "sent"
    BY <1>3 DEF ServeCard, address, history
  <2>3. ASSUME NEW b \in Archives
        PROVE  IF Pending(b)' THEN views'[b] < asked'[b] + woken'
                                   ELSE views'[b] <= asked'[b] + woken'
    <3>1. CASE views'[b] = views[b]
      <4>1. Pending(b)' => Pending(b)
        BY <2>1, <2>2 DEF Pending
      <4> QED
        BY <2>2, <3>1, <4>1 DEF VisitTypes, Covered
    <3>2. CASE b = cardOf /\ b \notin recent /\ b \in recent' /\ views'[b] = views[b] + 1
      <4>1. Pending(b) /\ ~Pending(b)'
        BY <2>2, <3>2 DEF Pending
      <4> QED
        BY <2>2, <3>2, <4>1 DEF VisitTypes, Covered
    <3> QED
      BY <2>1, <3>1, <3>2
  <2> QED
    BY <2>1, <2>2, <2>3 DEF VisitTypes, CardOfAddress, Covered
<1>4. CASE QuarterOfAnHour
  <2>1. /\ UNCHANGED <<location, rendered, card, cardOf, views, asked, woken>>
        /\ card.fetching = "idle" /\ rendered = location
    BY <1>4 DEF QuarterOfAnHour, address, archive, history
  <2> QED
    BY <2>1 DEF Pending, VisitTypes, CardOfAddress, Covered
<1>5. CASE Land /\ location.place = "archive"
  <2>1. UNCHANGED <<location, cardOf, views, asked, woken, recent>>
    BY <1>5 DEF Land, history
  <2>2. ASSUME NEW a \in Archives, Pending(a)' PROVE Pending(a)
    <3>1. /\ rendered # location /\ rendered' = location
          /\ card' = IF card.data = NoData THEN Fetch(card) ELSE card
      BY <1>5 DEF Land, Fetch, Fetch
    <3> QED
      BY <1>5, <2>1, <2>2, <3>1 DEF Pending
  <2> QED
    BY <1>1, <2>1, <2>2
<1>6. CASE Land /\ location.place # "archive"
  <2>1. /\ views' \in [Archives -> Nat]
        /\ \A a \in Archives : views'[a] <= asked[a] + woken
    BY <1>6, LeftBehindCovered DEF Land
  <2>2. /\ UNCHANGED <<location, asked, woken>>
        /\ card'.fetching = "idle"
    BY <1>6 DEF Land, history, EmptyQuery
  <2> QED
    BY <1>6, <2>1, <2>2 DEF Pending, VisitTypes, CardOfAddress, Covered
<1>7. CASE CardAnswered \/ CardLost
  <2>1. /\ UNCHANGED <<location, cardOf, rendered, views, asked, woken, recent>>
        /\ card.fetching # "idle"
    BY <1>7 DEF CardAnswered, CardLost, catalogue, address, history
  <2>2. \A a \in Archives : Pending(a)' => Pending(a)
    BY <2>1 DEF Pending
  <2> QED
    BY <1>1, <2>1, <2>2
<1>8. CASE RetryCard
  <2>1. /\ UNCHANGED <<location, cardOf, views, woken, recent>>
        /\ asked' = [asked EXCEPT ![cardOf] = @ + 1]
    BY <1>8 DEF RetryCard, catalogue, address
  <2>2. /\ asked' \in [Archives -> Nat]
        /\ \A a \in Archives : asked'[a] = IF a = cardOf THEN asked[a] + 1 ELSE asked[a]
    BY <2>1, OneMore
  <2>3. ASSUME NEW a \in Archives
        PROVE  IF Pending(a)' THEN views'[a] < asked'[a] + woken'
                                   ELSE views'[a] <= asked'[a] + woken'
    BY <2>1, <2>2 DEF VisitTypes, Covered, Pending
  <2> QED
    BY <2>1, <2>2, <2>3 DEF VisitTypes, CardOfAddress, Covered
<1>9. CASE Reconnect /\ card' = card
  BY <1>2, <1>9 DEF Reconnect, catalogue, address, VisitTypes,
                    CardOfAddress, Covered, Pending
<1>10. CASE Reconnect /\ card' # card
  <2>1. UNCHANGED <<location, cardOf, views, asked, recent>> /\ woken' = woken + 1
    BY <1>10 DEF Reconnect, catalogue, address
  <2> QED
    BY <2>1 DEF VisitTypes, CardOfAddress, Covered
<1>11. CASE Submit \/ Pause
  <2>1. PICK text : commit(text)
    BY <1>11 DEF Submit, Pause
  <2>2. \/ UNCHANGED <<location, rendered, card, cardOf, views, asked, woken, recent>>
        \/ \E to : LeadTo(to)
    BY <2>1 DEF commit, catalogue, address, archive
  <2> QED
    BY <1>2, <2>2, NavigateCovered
<1>12. CASE PressSort \/ PressPage \/ PressArchive \/ GoBack
  <2>1. \E to : LeadTo(to)
    BY <1>12 DEF PressSort, PressPage, PressArchive, GoBack, Follow
  <2> QED
    BY <2>1, NavigateCovered
<1>13. CASE Type \/ PointAt \/ RetryList \/ Download
            \/ ResultsAnswered \/ Change \/ ResultsLost \/ UNCHANGED visitorVars
  BY <1>2, <1>13 DEF Type, PointAt, Loader, RetryList, Download,
                     ResultsAnswered, Change, ResultsLost, visitorVars, catalogue,
                     address, archive, history
<1> QED
  BY <1>3, <1>4, <1>5, <1>6, <1>7, <1>8, <1>9, <1>10, <1>11, <1>12, <1>13
     DEF VisitorNext, Visitor, Tab, Outside

\* A text that waits for a pause is the one in the field.
LEMMA TypedNext ==
  ASSUME OnlyWhatIsTyped, [VisitorNext]_(visitorVars)
  PROVE  OnlyWhatIsTyped'
<1> USE DEF OnlyWhatIsTyped, InCatalog
<1>1. CASE UNCHANGED <<timers, draft, rendered>>
  BY <1>1
<1>2. CASE Type
  BY <1>2 DEF Type, Await, address
<1>3. CASE Pause
  <2>1. PICK text \in timers : timers' = timers \ {text} /\ commit(text)
    BY <1>3 DEF Pause
  <2>2. rendered' = rendered /\ draft' = draft
    BY <1>3, <2>1 DEF Pause, commit, LeadTo, address
  <2> QED
    BY <2>1, <2>2
<1>4. CASE Land
  BY <1>4, TrimAssumption DEF Land, Await, field
<1>5. CASE Submit
  BY <1>1, <1>5 DEF Submit, commit, LeadTo, field, address
<1>6. CASE PressSort \/ PressPage \/ PressArchive \/ GoBack
  <2>1. \E to : Follow(to)
    BY <1>6 DEF PressSort, PressPage, PressArchive, GoBack
  <2> QED
    BY <1>1, <2>1 DEF Follow, LeadTo, field
<1>7. CASE PointAt \/ RetryList \/ RetryCard \/ Download
           \/ ServeCard \/ ResultsAnswered \/ CardAnswered
  BY <1>1, <1>7 DEF PointAt, RetryList, RetryCard, Download,
                    ServeCard, ResultsAnswered, CardAnswered, field,
                    address
<1>8. CASE Outside \/ UNCHANGED visitorVars
  BY <1>1, <1>8 DEF Outside, Change, QuarterOfAnHour, ResultsLost,
                    CardLost, Reconnect, visitorVars, field, address
<1> QED
  BY <1>2, <1>3, <1>4, <1>5, <1>6, <1>7, <1>8 DEF VisitorNext, Visitor, Tab

\* One more is bought, or downloaded.
LEMMA OneMoreCounted ==
  ASSUME NEW counts \in Counts
  PROVE  [counts EXCEPT !["week"] = @ + 1] \in Counts
BY DEF Counts, Ages

\* The rows of the catalogue stay rows, whatever is bought, published and downloaded.
LEMMA RowsKept ==
  ASSUME rows \in CatalogueRows, [VisitorNext]_(visitorVars)
  PROVE  rows' \in CatalogueRows
<1>1. CASE UNCHANGED rows
  BY <1>1
<1>2. CASE Change
  <2>1. PICK a \in Archives : \/ rows' = [rows EXCEPT ![a].listed = ~@]
                             \/ rows' = [rows EXCEPT ![a].paid["week"] = @ + 1]
    BY <1>2 DEF Change
  <2>2. rows[a].paid \in Counts
    BY DEF CatalogueRows
  <2>3. CASE rows' = [rows EXCEPT ![a].listed = ~@]
    BY <2>3 DEF CatalogueRows
  <2>4. CASE rows' = [rows EXCEPT ![a].paid["week"] = @ + 1]
    <3>1. [rows[a].paid EXCEPT !["week"] = @ + 1] \in Counts
      BY <2>2, OneMoreCounted
    <3> QED
      BY <2>4, <3>1 DEF CatalogueRows
  <2> QED
    BY <2>1, <2>3, <2>4
<1>3. CASE Download
  <2>1. rows' = [rows EXCEPT ![cardOf].downloads["week"] = @ + 1]
    BY <1>3 DEF Download
  <2>2. CASE cardOf \in Archives
    <3>1. rows[cardOf].downloads \in Counts
      BY <2>2 DEF CatalogueRows
    <3>2. [rows[cardOf].downloads EXCEPT !["week"] = @ + 1] \in Counts
      BY <3>1, OneMoreCounted
    <3> QED
      BY <2>1, <2>2, <3>2 DEF CatalogueRows
  <2>3. CASE cardOf \notin Archives
    BY <2>1, <2>3 DEF CatalogueRows
  <2> QED
    BY <2>2, <2>3
<1>4. CASE Submit \/ Pause
  <2>1. PICK text : commit(text)
    BY <1>4 DEF Submit, Pause
  <2> QED
    BY <1>1, <2>1 DEF commit, LeadTo, catalogue
<1>5. CASE PressSort \/ PressPage \/ PressArchive \/ GoBack
  BY <1>1, <1>5 DEF PressSort, PressPage, PressArchive, GoBack, Follow, LeadTo
<1>6. CASE Type \/ PointAt \/ RetryList \/ RetryCard \/ Land \/ ServeCard
           \/ ResultsAnswered \/ CardAnswered
  BY <1>1, <1>6 DEF Type, PointAt, RetryList, RetryCard, Land, ServeCard,
                    ResultsAnswered, CardAnswered, catalogue
<1>7. CASE QuarterOfAnHour \/ ResultsLost \/ CardLost \/ Reconnect \/ UNCHANGED visitorVars
  BY <1>1, <1>7 DEF QuarterOfAnHour, ResultsLost, CardLost, Reconnect, visitorVars, catalogue
<1> QED
  BY <1>2, <1>3, <1>4, <1>5, <1>6, <1>7 DEF VisitorNext, Visitor, Tab, Outside

\* The invariant of the visitor's tab.
THEOREM StorefrontInvariant ==
  VisitorSpec => []VisitorIInv
<1>1. VisitorInit => VisitorIInv
  BY RowsAssumption
     DEF VisitorInit, VisitorIInv, VisitorTypeOK, VisitTypes, CardOfAddress, Covered,
         Pending, OnlyWhatIsTyped, Home, EmptyQuery
<1>2. VisitorIInv /\ [VisitorNext]_(visitorVars) => VisitorIInv'
  BY VisitsNext, TypedNext, RowsKept DEF VisitorIInv, VisitorTypeOK
<1> QED
  BY <1>1, <1>2, PTL DEF VisitorSpec

\* A view is a visit (marketplace.service.ts, archives.$slug.tsx): whatever is pointed
\* at, lost and repeated, no archive is counted more often than it was asked for.
THEOREM EveryViewIsAVisit ==
  VisitorSpec => []ViewsAreVisits
<1>1. VisitorIInv => ViewsAreVisits
  BY DEF VisitorIInv, Covered, VisitorTypeOK, VisitTypes, ViewsAreVisits
<1> QED
  BY <1>1, StorefrontInvariant, PTL

\* The only search that can still be made is for what stands in the field
\* (search-field.tsx).
THEOREM SearchIsForTheText ==
  VisitorSpec => []OnlyWhatIsTyped
<1>1. VisitorIInv => OnlyWhatIsTyped
  BY DEF VisitorIInv
<1> QED
  BY <1>1, StorefrontInvariant, PTL

\* The pages of a popularity sort, for any rows of the catalogue.
LEMMA PagesOfSort ==
  ASSUME NEW sort \in PopularitySorts, NEW q \in Searches, rows \in CatalogueRows
  PROVE  AreThePages(sort, q)
<1> DEFINE found == Listed(rows, q)
           n == Cardinality(found)
           shown == [p \in 1 .. pageCount(n) |->
                      (CHOOSE answer \in listArchives(rows, sort, q, p) : TRUE).items]
           Spots == {x \in (DOMAIN shown) \X (1 .. PerPage) : x[2] \in DOMAIN shown[x[1]]}
           Stands(x) == shown[x[1]][x[2]]
           Earlier(x, y) == x[1] < y[1] \/ (x[1] = y[1] /\ x[2] < y[2])
<1>1. q \in DOMAIN Matches
  BY SearchesAssumption
<1>2. n \in Nat
  BY <1>1, OneListing
<1>3. PICK order \in Bijection(1 .. n, found) :
         /\ Orders(rows, sort, q) = {order}
         /\ \A i, j \in 1 .. n : i < j => MorePopular(rows, sort, order[i], order[j])
  BY <1>1, OneListing
<1>4. found \subseteq Archives
  BY <1>1, MatchesAssumption DEF Listed
<1> HIDE DEF found, n
<1>5. /\ order \in [1 .. n -> found] /\ \A a \in found : \E k \in 1 .. n : order[k] = a
      /\ \A i, j \in 1 .. n : order[i] = order[j] => i = j
  BY <1>3 DEF Bijection, Injection, Surjection, IsInjective
<1>6. PerPage \in Nat \ {0}
  BY PerPageAssumption
<1>7. ASSUME NEW p \in 1 .. pageCount(n)
      PROVE  shown[p] = Slice(order, p)
  <2> DEFINE one == CHOOSE answer \in listArchives(rows, sort, q, p) : TRUE
  <2>1. listArchives(rows, sort, q, p) = {[items |-> Slice(order, p), total |-> Len(order)]}
    BY <1>3 DEF listArchives
  <2>2. one = [items |-> Slice(order, p), total |-> Len(order)]
    BY <2>1
  <2>3. shown[p] = one.items
    OBVIOUS
  <2> HIDE DEF shown, one
  <2> QED
    BY <2>2, <2>3
<1>8. DOMAIN shown = 1 .. pageCount(n)
  OBVIOUS
<1>9. \A p \in 1 .. pageCount(n) : p \in Nat \ {0} /\ (p - 1) * PerPage \in Nat
  <2> SUFFICES ASSUME NEW p \in 1 .. pageCount(n)
               PROVE  p \in Nat \ {0} /\ (p - 1) * PerPage \in Nat
    OBVIOUS
  <2>1. pageCount(n) \in Int
    BY <1>2, <1>6 DEF pageCount
  <2>2. p \in Nat \ {0} /\ p - 1 \in Nat
    BY <2>1
  <2> QED
    BY <1>6, <2>2
<1>10. ASSUME NEW p \in 1 .. pageCount(n)
       PROVE  Paged(shown[p], order, n, p)
  <2> HIDE DEF shown
  <2>1. Place(p, 0) <= n
    BY <1>2, PageBegins
  <2>2. p \in Nat \ {0}
    BY <1>9
  <2>3. order \in [1 .. n -> Archives]
    BY <1>4, <1>5
  <2>4. Paged(Slice(order, p), order, n, p)
    BY <1>2, <2>1, <2>2, <2>3, PageOf
  <2> QED
    BY <1>7, <2>4
<1> HIDE DEF shown
<1>11. ASSUME NEW x \in Spots
       PROVE  /\ x[1] \in 1 .. pageCount(n) /\ x[2] \in 1 .. PerPage
              /\ Place(x[1], x[2]) \in 1 .. n /\ Stands(x) = order[Place(x[1], x[2])]
  <2>1. x[1] \in 1 .. pageCount(n) /\ x[2] \in 1 .. PerPage /\ x[2] \in DOMAIN shown[x[1]]
    BY <1>8
  <2>2. Place(x[1], x[2]) <= n /\ Stands(x) = order[Place(x[1], x[2])]
    BY <1>10, <2>1 DEF Paged
  <2>3. (x[1] - 1) * PerPage \in Nat /\ x[2] \in Nat \ {0}
    BY <1>6, <1>9, <2>1
  <2>4. Place(x[1], x[2]) \in Nat \ {0}
    BY <2>3 DEF Place
  <2> QED
    BY <1>2, <2>1, <2>2, <2>4
<1>12. {Stands(x) : x \in Spots} = found
  <2>1. ASSUME NEW x \in Spots PROVE Stands(x) \in found
    BY <1>5, <1>11
  <2>2. ASSUME NEW a \in found PROVE \E x \in Spots : Stands(x) = a
    <3>1. PICK k \in 1 .. n : order[k] = a
      BY <1>5
    <3>2. PICK p \in 1 .. pageCount(n), s \in 1 .. PerPage : Place(p, s) = k
      BY <1>2, OnSomePage
    <3>3. k <= n
      BY <1>2
    <3>4. s \in DOMAIN shown[p] /\ shown[p][s] = a
      BY <1>10, <3>1, <3>2, <3>3 DEF Paged
    <3>5. <<p, s>> \in Spots /\ Stands(<<p, s>>) = a
      BY <1>8, <3>4
    <3> QED
      BY <3>5
  <2> HIDE DEF Spots, Stands
  <2> QED
    BY <2>1, <2>2
<1>13. ASSUME NEW x \in Spots, NEW y \in Spots, Earlier(x, y)
       PROVE  Place(x[1], x[2]) < Place(y[1], y[2])
  <2>1. /\ x[1] \in Nat \ {0} /\ y[1] \in Nat \ {0} /\ x[2] \in Nat /\ y[2] \in Nat
        /\ 1 <= y[2] /\ x[2] <= PerPage
    BY <1>6, <1>9, <1>11
  <2>2. CASE x[1] = y[1] /\ x[2] < y[2]
    <3>1. (x[1] - 1) * PerPage \in Nat
      BY <1>9, <1>11
    <3> QED
      BY <2>1, <2>2, <3>1 DEF Place
  <2>3. CASE x[1] < y[1]
    <3> DEFINE a == x[1] - 1
               b == y[1] - 1
    <3>1. a \in Nat /\ b \in Nat /\ a < b
      BY <2>1, <2>3
    <3> HIDE DEF a, b
    <3>2. (a + 1) * PerPage <= b * PerPage /\ (a + 1) * PerPage = a * PerPage + PerPage
      BY <1>6, <3>1
    <3>3. a * PerPage \in Nat /\ b * PerPage \in Nat
      BY <1>6, <3>1
    <3>4. a * PerPage + x[2] < b * PerPage + y[2]
      BY <1>6, <2>1, <3>2, <3>3
    <3> QED
      BY <3>4 DEF a, b, Place
  <2> QED
    BY <1>13, <2>2, <2>3
<1>14. ASSUME NEW x \in Spots, NEW y \in Spots, Earlier(x, y)
       PROVE  Stands(x) # Stands(y) /\ ~LessPopular(sort, Stands(x), Stands(y))
  <2>1. /\ Place(x[1], x[2]) \in 1 .. n /\ Stands(x) = order[Place(x[1], x[2])]
        /\ Place(y[1], y[2]) \in 1 .. n /\ Stands(y) = order[Place(y[1], y[2])] /\ Place(x[1], x[2]) < Place(y[1], y[2])
    BY <1>11, <1>13, <1>14
  <2> HIDE DEF Stands
  <2>2. Stands(x) # Stands(y)
    <3>1. Place(x[1], x[2]) \in Nat /\ Place(y[1], y[2]) \in Nat
      BY <1>2, <2>1
    <3> QED
      BY <1>5, <2>1, <3>1
  <2>3. MorePopular(rows, sort, Stands(x), Stands(y))
    BY <1>3, <2>1
  <2>4. Stands(x) \in Archives /\ Stands(y) \in Archives
    BY <1>4, <1>5, <2>1
  <2>5. /\ windowPaid(rows[Stands(x)], sort) \in Nat /\ windowPaid(rows[Stands(y)], sort) \in Nat
        /\ windowDownloads(rows[Stands(x)], sort) \in Nat
        /\ windowDownloads(rows[Stands(y)], sort) \in Nat
    BY <2>4, WindowTypes
  <2> QED
    BY <2>2, <2>3, <2>5 DEF LessPopular, MorePopular
<1> QED
  BY <1>12, <1>14 DEF AreThePages, found, n, shown

\* The pages of a popularity sort hold what the search finds, each archive once and
\* none behind a less popular one (marketplace.service.ts).
THEOREM PagesAreTheCatalogue ==
  VisitorSpec => []PagesPartition
<1>1. VisitorIInv => PagesPartition
  <2> SUFFICES ASSUME rows \in CatalogueRows PROVE PagesPartition
    BY DEF VisitorIInv, VisitorTypeOK
  <2> QED
    BY PagesOfSort DEF PagesPartition
<1> QED
  BY <1>1, StorefrontInvariant, PTL


-----------------------------------------------------------------------------
(***************************************************************************)
(* The uploads of the API: types                                           *)
(***************************************************************************)

\* The variables have their types in the state an archive begins with.
LEMMA UploadInitType == UploadInit => UploadTypeOK
<1> SUFFICES ASSUME UploadInit PROVE UploadTypeOK
  OBVIOUS
<1>1. filesSeen \in [Uploads -> BOOLEAN] /\ publishing \in BOOLEAN
  BY Zenon DEF UploadInit
<1>2. step \in [Uploads -> Steps] /\ faults \in Nat
  BY DEF UploadInit, Steps
<1> QED
  BY <1>1, <1>2 DEF UploadInit, UploadTypeOK, Build

\* What the requests of a session leave the variables with.
LEMMA UploadServeType ==
  ASSUME UploadTypeOK, NEW u \in Uploads, Serve(u)
  PROVE  UploadTypeOK'
<1>1. CASE InspectAccepts(u)
  BY <1>1 DEF InspectAccepts, UploadTypeOK, Move, Go, Steps, Build,
              rowVars, fileVars, requestVars
<1>2. CASE CreatePending(u)
  BY <1>2 DEF CreatePending, UploadTypeOK, Move, Go, Steps, Build, rowVars,
              requestVars
<1>3. CASE LinkOutput(u)
  BY <1>3 DEF LinkOutput, UploadTypeOK, Move, Go, Steps, Build, rowVars,
              requestVars
<1>4. CASE VerifyOutput(u)
  BY <1>4 DEF VerifyOutput, UploadTypeOK, Move, Go, Steps, Build, rowVars,
              fileVars, requestVars
<1>5. CASE BuildFails(u)
  BY <1>5, BoundsAssumption
     DEF BuildFails, Fault, UploadTypeOK, Go, Steps, Build, rowVars, requestVars
<1>6. CASE Seal(u)
  BY <1>6 DEF Seal, UploadTypeOK, Move, Go, Steps, Build, rowVars,
              requestVars
<1>7. CASE DeleteFiles(u)
  BY <1>7 DEF DeleteFiles, UploadTypeOK, Move, Go, Steps, Build, fileVars,
              requestVars
<1>8. CASE CreateFiles(u)
  BY <1>8 DEF CreateFiles, UploadTypeOK, Move, Go, Steps, Build, fileVars,
              requestVars
<1>9. CASE WriteRow(u)
  BY <1>9 DEF WriteRow, UploadTypeOK, Move, Go, Steps, Build, fileVars,
              requestVars
<1>10. CASE FinishUpload(u)
  BY <1>10 DEF FinishUpload, UploadTypeOK, Move, Go, Steps, Build, rowVars,
               fileVars, requestVars
<1>11. CASE CancelCount(u)
  BY <1>11 DEF CancelCount, UploadTypeOK, Move, Go, Steps, Build, rowVars,
               fileVars
<1>12. CASE CancelWrite(u)
  BY <1>12 DEF CancelWrite, UploadTypeOK, Move, Go, Steps, Build, fileVars
<1> QED
  BY <1>1, <1>2, <1>3, <1>4, <1>5, <1>6, <1>7, <1>8, <1>9, <1>10, <1>11, <1>12 DEF Serve

\* What the client and the interruptions leave the variables with.
LEMMA UploadClientType ==
  ASSUME UploadTypeOK, NEW u \in Uploads, Client(u) \/ Interruption(u)
  PROVE  UploadTypeOK'
<1>1. CASE InitUpload(u)
  BY <1>1 DEF InitUpload, UploadTypeOK, Move, Go, Steps, Build, fileVars,
              requestVars
<1>2. CASE SetUploadedFile(u)
  BY <1>2 DEF SetUploadedFile, UploadTypeOK, Move, Go, Steps, Build,
              rowVars, fileVars, requestVars
<1>3. CASE Claim(u)
  BY <1>3 DEF Claim, UploadTypeOK, Move, Go, Steps, Build, fileVars,
              requestVars
<1>4. CASE Reuse(u)
  BY <1>4 DEF Reuse, UploadTypeOK, Move, Go, Steps, Build, rowVars,
              fileVars, requestVars
<1>5. CASE InspectRefuses(u)
  BY <1>5 DEF InspectRefuses, Fault, UploadTypeOK, Move, Go, Steps, Build,
              fileVars, requestVars
<1>6. CASE BuildFails(u)
  BY <1>6 DEF BuildFails, Fault, UploadTypeOK, Go, Steps, Build, rowVars,
              requestVars
<1>7. CASE RequestFails(u)
  BY <1>7 DEF RequestFails, Fault, UploadTypeOK, Go, Steps, Build, rowVars,
              fileVars
<1>8. CASE CancelRead(u)
  BY <1>8 DEF CancelRead, Fault, UploadTypeOK, Go, Steps, Build, rowVars,
              fileVars, requestVars
<1> QED
  BY <1>1, <1>2, <1>3, <1>4, <1>5, <1>6, <1>7, <1>8 DEF Client, Interruption

\* What a publication, a restart and a stuttering step leave the variables with.
LEMMA UploadOtherType ==
  ASSUME UploadTypeOK,
         \/ PublishRead \/ PublishWrite \/ PublishFails
         \/ Unlist("unpublished") \/ Unlist("blocked")
         \/ Crash \/ UNCHANGED uploadVars
  PROVE  UploadTypeOK'
<1>1. CASE PublishRead \/ PublishFails
  BY <1>1 DEF PublishRead, PublishFails, UploadTypeOK, Steps, Build, rowVars,
              fileVars
<1>2. CASE PublishWrite \/ Unlist("unpublished") \/ Unlist("blocked")
  BY <1>2 DEF PublishWrite, Unlist, UploadTypeOK, Steps, Build, fileVars,
              requestVars
<1>3. CASE Crash
  <2>1. filesSeen' \in [Uploads -> BOOLEAN] /\ publishing' \in BOOLEAN
    BY <1>3, Zenon DEF Crash
  <2>2. step' \in [Uploads -> Steps]
    BY <1>3 DEF Crash, UploadTypeOK, Steps
  <2>3. slr' \in Build /\ pending' \in Build /\ faults' \in Nat
    BY <1>3 DEF Crash, Fault, UploadTypeOK, Build
  <2> QED
    BY <1>3, <2>1, <2>2, <2>3 DEF Crash, UploadTypeOK, rowVars
<1>4. CASE UNCHANGED uploadVars
  BY <1>4 DEF uploadVars, rowVars, fileVars, requestVars, UploadTypeOK, Steps,
              Build
<1> QED
  BY <1>1, <1>2, <1>3, <1>4

\* Types are kept by every step.
LEMMA UploadTypeStep ==
  UploadTypeOK /\ [UploadNext]_(uploadVars) => UploadTypeOK'
BY UploadServeType, UploadClientType, UploadOtherType DEF UploadNext

\* The rows, the files and the sessions have their types in every state.
THEOREM UploadTypes ==
  UploadSpec => []UploadTypeOK
BY UploadInitType, UploadTypeStep, PTL DEF UploadSpec

-----------------------------------------------------------------------------
(***************************************************************************)
(* The fingerprint is written once                                         *)
(***************************************************************************)

\* Only WriteRow writes a fingerprint, and only where there is none.
LEMMA FingerprintStep ==
  ASSUME [UploadNext]_(uploadVars), fingerprint # NoBuild
  PROVE  fingerprint' = fingerprint
<1>1. ASSUME NEW u \in Uploads, Client(u) \/ Interruption(u)
      PROVE  fingerprint' = fingerprint
  BY <1>1 DEF Client, Interruption, InitUpload, SetUploadedFile, Claim,
              Reuse, InspectRefuses,
              BuildFails, RequestFails, CancelRead, rowVars
<1>2. ASSUME NEW u \in Uploads, Serve(u)
      PROVE  fingerprint' = fingerprint
  <2>1. CASE WriteRow(u)
    BY <2>1 DEF WriteRow
  <2>2. CASE ~WriteRow(u)
    BY <1>2, <2>2 DEF Serve, InspectAccepts, CreatePending, LinkOutput,
                      VerifyOutput, BuildFails,
                      Seal, DeleteFiles, CreateFiles, FinishUpload,
                      CancelCount, CancelWrite,
                      rowVars
  <2> QED
    BY <2>1, <2>2
<1>3. CASE \/ PublishRead \/ PublishWrite \/ PublishFails
           \/ Unlist("unpublished") \/ Unlist("blocked")
           \/ Crash \/ UNCHANGED uploadVars
  BY <1>3 DEF PublishRead, PublishWrite, PublishFails, Unlist, Crash,
              uploadVars, rowVars
<1> QED
  BY <1>1, <1>2, <1>3 DEF UploadNext

\* The build a row was finalized with is never replaced, although two requests
\* to complete may run at once (the trigger on a finalized archive).
THEOREM FingerprintWrittenOnce == UploadSpec => FingerprintIsFinal
<1>1. [UploadNext]_(uploadVars) => [fingerprint # NoBuild => fingerprint' = fingerprint]_(uploadVars)
  BY FingerprintStep
<1> QED
  BY <1>1, PTL DEF UploadSpec, FingerprintIsFinal

-----------------------------------------------------------------------------
(***************************************************************************)
(* One build at a time: the finalized archive is whole                     *)
(***************************************************************************)
UploadCore == BuildsAreFirst /\ MadeSoFar /\ Whole

\* A new archive has no session and no build.
LEMMA UploadInitCore ==
  UploadInit => UploadCore
BY NoBuildAssumption
   DEF UploadInit, UploadCore, BuildsAreFirst, MadeSoFar, Whole, Completing

\* What runs beside a build touches none of its files: those that are there are its
\* own.
LEMMA OnlyBuild ==
  ASSUME OneBuildAtATime, NEW u \in Uploads, step[u] \in Completing
  PROVE  \A v \in Uploads \ {u} : step[v] \notin Completing
BY DEF OneBuildAtATime

\* What a step of a request keeps: of those that complete, it is the only one.
LEMMA UploadServeCore ==
  ASSUME UploadTypeOK, UploadCore, OneBuildAtATime, NEW u \in Uploads, Serve(u)
  PROVE  UploadCore'
<1>1. CASE InspectAccepts(u)
  BY <1>1, OnlyBuild, NoBuildAssumption
     DEF InspectAccepts, Move, Go, rowVars, fileVars, UploadCore, BuildsAreFirst,
         MadeSoFar, Whole, UploadTypeOK, Completing
<1>2. CASE CreatePending(u)
  BY <1>2, OnlyBuild, NoBuildAssumption
     DEF CreatePending, Move, Go, rowVars, UploadCore, BuildsAreFirst,
         MadeSoFar, Whole, UploadTypeOK, Completing
<1>3. CASE LinkOutput(u)
  BY <1>3, OnlyBuild, NoBuildAssumption
     DEF LinkOutput, Move, Go, rowVars, UploadCore, BuildsAreFirst,
         MadeSoFar, Whole, UploadTypeOK, Completing
<1>4. CASE VerifyOutput(u)
  BY <1>4, OnlyBuild, NoBuildAssumption
     DEF VerifyOutput, Move, Go, rowVars, fileVars, UploadCore, BuildsAreFirst,
         MadeSoFar, Whole, UploadTypeOK, Completing
<1>5. CASE BuildFails(u)
  BY <1>5, OnlyBuild, NoBuildAssumption
     DEF BuildFails, Go, rowVars, UploadCore, BuildsAreFirst,
         MadeSoFar, Whole, UploadTypeOK, Completing
<1>6. CASE Seal(u)
  BY <1>6, OnlyBuild, NoBuildAssumption
     DEF Seal, Move, Go, rowVars, UploadCore, BuildsAreFirst,
         MadeSoFar, Whole, UploadTypeOK, Completing
<1>7. CASE DeleteFiles(u)
  BY <1>7, OnlyBuild, NoBuildAssumption
     DEF DeleteFiles, Move, Go, fileVars, UploadCore, BuildsAreFirst,
         MadeSoFar, Whole, UploadTypeOK, Completing
<1>8. CASE CreateFiles(u)
  BY <1>8, OnlyBuild, NoBuildAssumption
     DEF CreateFiles, Move, Go, fileVars, UploadCore, BuildsAreFirst,
         MadeSoFar, Whole, UploadTypeOK, Completing
<1>9. CASE WriteRow(u)
  BY <1>9, OnlyBuild, NoBuildAssumption
     DEF WriteRow, Move, Go, fileVars, UploadCore, BuildsAreFirst,
         MadeSoFar, Whole, UploadTypeOK, Completing
<1>10. CASE FinishUpload(u)
  BY <1>10, OnlyBuild, NoBuildAssumption
     DEF FinishUpload, Move, Go, rowVars, fileVars, UploadCore, BuildsAreFirst,
         MadeSoFar, Whole, UploadTypeOK, Completing
<1>11. CASE CancelCount(u)
  BY <1>11, NoBuildAssumption
     DEF CancelCount, Move, Go, rowVars, fileVars, UploadCore, BuildsAreFirst,
         MadeSoFar, Whole, UploadTypeOK, Completing
<1>12. CASE CancelWrite(u)
  BY <1>12, NoBuildAssumption
     DEF CancelWrite, Move, Go, fileVars, UploadCore, BuildsAreFirst,
         MadeSoFar, Whole, UploadTypeOK, Completing
<1> QED
  BY <1>1, <1>2, <1>3, <1>4, <1>5, <1>6, <1>7, <1>8, <1>9, <1>10, <1>11, <1>12 DEF Serve

\* A build is claimed only where none was finalized, and a session that does not get
\* through takes nothing from a finalized archive.
LEMMA UploadClientCore ==
  ASSUME UploadTypeOK, UploadCore, OneBuildAtATime, NEW u \in Uploads,
         Client(u) \/ Interruption(u)
  PROVE  UploadCore'
<1>1. CASE InitUpload(u)
  BY <1>1, NoBuildAssumption
     DEF InitUpload, Move, Go, fileVars, UploadCore, BuildsAreFirst,
         MadeSoFar, Whole, UploadTypeOK, Completing
<1>2. CASE SetUploadedFile(u)
  BY <1>2, NoBuildAssumption
     DEF SetUploadedFile, Move, Go, rowVars, fileVars, UploadCore, BuildsAreFirst,
         MadeSoFar, Whole, UploadTypeOK, Completing
<1>3. CASE Claim(u)
  BY <1>3, NoBuildAssumption
     DEF Claim, Move, Go, isArchiveFinalized, fileVars, UploadCore, BuildsAreFirst,
         MadeSoFar, Whole, UploadTypeOK, Completing
<1>4. CASE Reuse(u)
  BY <1>4, NoBuildAssumption
     DEF Reuse, Move, Go, rowVars, fileVars, UploadCore, BuildsAreFirst,
         MadeSoFar, Whole, UploadTypeOK, Completing
<1>5. CASE InspectRefuses(u)
  BY <1>5, OnlyBuild, NoBuildAssumption
     DEF InspectRefuses, Move, Go, fileVars, UploadCore, BuildsAreFirst,
         MadeSoFar, Whole, UploadTypeOK, Completing
<1>6. CASE BuildFails(u)
  BY <1>6, OnlyBuild, NoBuildAssumption
     DEF BuildFails, Go, rowVars, UploadCore, BuildsAreFirst,
         MadeSoFar, Whole, UploadTypeOK, Completing
<1>7. CASE RequestFails(u)
  BY <1>7, NoBuildAssumption
     DEF RequestFails, Go, rowVars, fileVars, UploadCore, BuildsAreFirst,
         MadeSoFar, Whole, UploadTypeOK, Completing
<1>8. CASE CancelRead(u)
  BY <1>8, NoBuildAssumption
     DEF CancelRead, Go, rowVars, fileVars, UploadCore, BuildsAreFirst,
         MadeSoFar, Whole, UploadTypeOK, Completing
<1> QED
  BY <1>1, <1>2, <1>3, <1>4, <1>5, <1>6, <1>7, <1>8 DEF Client, Interruption

\* A restart ends the requests under way.  The child of a build may still link the
\* file, and then the archive has no build yet.
LEMMA UploadCrashCore ==
  ASSUME UploadTypeOK, UploadCore, Crash
  PROVE  UploadCore'
<1>1. BuildsAreFirst' /\ MadeSoFar'
  BY DEF Crash, UploadCore, BuildsAreFirst, MadeSoFar, UploadTypeOK,
         InService, Steps, Completing, rowVars
<1>2. Whole'
  <2>1. CASE slr' = slr
    BY <2>1 DEF Crash, UploadCore, Whole, rowVars
  <2>2. CASE slr = NoBuild /\ pending # NoBuild
    <3>1. \A v \in Uploads : fingerprint # v
      BY <2>2, NoBuildAssumption DEF UploadCore, Whole
    <3> QED
      BY <3>1 DEF Crash, Whole, rowVars
  <2> QED
    BY <2>1, <2>2 DEF Crash
<1> QED
  BY <1>1, <1>2 DEF UploadCore

\* Publication changes neither the sessions nor the build.
LEMMA UploadOtherCore ==
  ASSUME UploadCore,
         \/ PublishRead \/ PublishWrite \/ PublishFails
         \/ Unlist("unpublished") \/ Unlist("blocked") \/ UNCHANGED uploadVars
  PROVE  UploadCore'
BY DEF PublishRead, PublishWrite, PublishFails, Unlist, uploadVars, rowVars,
       fileVars, UploadCore, BuildsAreFirst, MadeSoFar, Whole

\* However sessions overlap, whatever attempts failed, were cancelled late or were
\* cut off by a restart, the .slr, the key in custody and the file list of a
\* finalized archive are those of the build in its row, unless two builds ran at
\* once.
THEOREM WholeWhenFinalized == UploadSpec => FinalizedIsWhole
<1>1. UploadInit => UploadIInv
  BY UploadInitType, UploadInitCore DEF UploadIInv, UploadCore
<1>2. UploadIInv /\ OneBuildAtATime /\ [UploadNext]_(uploadVars) => UploadIInv'
  BY UploadTypeStep, UploadServeCore, UploadClientCore, UploadCrashCore, UploadOtherCore
     DEF UploadNext, UploadIInv, UploadCore
<1>3. UploadIInv => Whole
  BY DEF UploadIInv
<1> QED
  BY <1>1, <1>2, <1>3, PTL DEF UploadSpec, FinalizedIsWhole

-----------------------------------------------------------------------------
(***************************************************************************)
(* A finalized archive is not opened again                                 *)
(***************************************************************************)

\* No step opens a finalized archive: who would is turned away by its row, and what
\* overtakes a finalization writes no status that does.
LEMMA ClosedStep ==
  ASSUME UploadTypeOK, FinalizedIsClosed, [UploadNext]_(uploadVars)
  PROVE  FinalizedIsClosed'
<1>1. ASSUME NEW u \in Uploads, Client(u) \/ Interruption(u) \/ Serve(u)
      PROVE  FinalizedIsClosed'
  <2>1. CASE InitUpload(u) \/ Claim(u)
    BY <2>1 DEF InitUpload, Claim, isArchiveFinalized, FinalizedIsClosed
  <2>2. CASE InspectRefuses(u) \/ WriteRow(u) \/ CancelWrite(u)
    BY <2>2 DEF InspectRefuses, WriteRow, CancelWrite, FinalizedIsClosed
  <2>3. CASE /\ ~InitUpload(u) /\ ~Claim(u) /\ ~InspectRefuses(u)
             /\ ~WriteRow(u) /\ ~CancelWrite(u)
    BY <1>1, <2>3
       DEF Client, Interruption, Serve, SetUploadedFile, Reuse, BuildFails, RequestFails,
           CancelRead, InspectAccepts, CreatePending, LinkOutput, VerifyOutput, Seal,
           DeleteFiles, CreateFiles, FinishUpload, CancelCount, rowVars, FinalizedIsClosed
  <2> QED
    BY <2>1, <2>2, <2>3
<1>2. CASE \/ PublishRead \/ PublishWrite \/ PublishFails
           \/ Unlist("unpublished") \/ Unlist("blocked")
           \/ Crash \/ UNCHANGED uploadVars
  BY <1>2 DEF PublishRead, PublishWrite, PublishFails, Unlist, Crash,
              uploadVars, rowVars, FinalizedIsClosed
<1> QED
  BY <1>1, <1>2 DEF UploadNext

\* However sessions, builds and cancels overlap, a finalized archive is never one that
\* is uploaded to or built.
THEOREM ClosedWhenFinalized == UploadSpec => []FinalizedIsClosed
<1>1. UploadInit => FinalizedIsClosed
  BY DEF UploadInit, FinalizedIsClosed
<1>2. UploadTypeOK /\ FinalizedIsClosed /\ [UploadNext]_(uploadVars) => FinalizedIsClosed'
  BY ClosedStep
<1> QED
  BY <1>1, <1>2, UploadTypes, PTL DEF UploadSpec

-----------------------------------------------------------------------------
(***************************************************************************)
(* The page of an archive: types                                           *)
(***************************************************************************)
Seen == Details \cup {NoData}

\* The query of the archive when it is fetched, given up, or declared stale.
LEMMA DetailFetched ==
  ASSUME NEW q \in QueryOf(Seen, Nat)
  PROVE  /\ Fetch(q) \in QueryOf(Seen, Nat)
         /\ Fetch(q).data = q.data /\ Fetch(q).answer = q.answer
         /\ Fetch(q).error = q.error /\ Fetch(q).fetching # "idle"
         /\ Fetch(q).fetching = "served" => q.fetching = "served"
         /\ Abandon(q) \in QueryOf(Seen, Nat)
         /\ Abandon(q).data = q.data /\ Abandon(q).answer = NoData
         /\ Abandon(q).error = q.error /\ Abandon(q).fetching = "idle"
<1>1. /\ Fetch(q) \in QueryOf(Seen, Nat)
      /\ Fetch(q).data = q.data /\ Fetch(q).answer = q.answer
      /\ Fetch(q).error = q.error /\ Fetch(q).fetching # "idle"
      /\ Fetch(q).fetching = "served" => q.fetching = "served"
  BY DEF Fetch, QueryOf
<1>2. /\ Abandon(q) \in QueryOf(Seen, Nat)
      /\ Abandon(q).data = q.data /\ Abandon(q).answer = NoData
      /\ Abandon(q).error = q.error /\ Abandon(q).fetching = "idle"
  BY DEF Abandon, QueryOf, Seen
<1> QED
  BY <1>1, <1>2

\* The archive is read again: by itself, or because an upload has ended.
LEMMA DetailRefetched ==
  ASSUME NEW q \in QueryOf(Seen, Nat), NEW on \in BOOLEAN, NEW v \in Nat
  PROVE  /\ Refetch(q) \in QueryOf(Seen, Nat)
         /\ Refetch(q).data = q.data /\ Refetch(q).answer \in {q.answer, NoData}
         /\ Refetch(q).fetching = "served" =>
              q.fetching = "served" /\ Refetch(q).answer = q.answer
         /\ q.data # NoData => Refetch(q).fetching = "sent"
         /\ Invalidate(q, on, {v}) \in QueryOf(Seen, Nat)
         /\ Invalidate(q, on, {v}).data = q.data
         /\ Invalidate(q, on, {v}).answer \in {q.answer, NoData}
         /\ Invalidate(q, on, {v}).fetching = "served" =>
              q.fetching = "served" /\ Invalidate(q, on, {v}).answer = q.answer
         /\ on /\ q.data # NoData => Invalidate(q, on, {v}).fetching = "sent"
<1> DEFINE r == IF q.data = NoData THEN q ELSE Abandon(q)
<1>1. /\ r \in QueryOf(Seen, Nat) /\ r.data = q.data /\ r.answer \in {q.answer, NoData}
      /\ q.data # NoData => r.fetching = "idle"
      /\ q.data = NoData => r = q
  BY DetailFetched
<1>2. Refetch(q) = Fetch(r)
  BY DEF Refetch
<1> HIDE DEF r
<1>3. /\ Refetch(q) \in QueryOf(Seen, Nat)
      /\ Refetch(q).data = q.data /\ Refetch(q).answer \in {q.answer, NoData}
  BY <1>1, <1>2, DetailFetched
<1>4. /\ q.data # NoData => Refetch(q).fetching = "sent"
      /\ Refetch(q).fetching = "served" =>
           q.fetching = "served" /\ Refetch(q).answer = q.answer
  BY <1>1, <1>2 DEF Fetch, QueryOf
<1>5. CASE on
  <2>1. /\ Invalidate(q, on, {v}) \in QueryOf(Seen, Nat)
        /\ Invalidate(q, on, {v}).data = Refetch(q).data
        /\ Invalidate(q, on, {v}).answer = Refetch(q).answer
        /\ Invalidate(q, on, {v}).fetching = Refetch(q).fetching
    BY <1>3, <1>5 DEF Invalidate, QueryOf
  <2> QED
    BY <1>3, <1>4, <2>1
<1>6. CASE ~on
  BY <1>3, <1>4, <1>6 DEF Invalidate, QueryOf
<1> QED
  BY <1>5, <1>6

\* The first of some selections is one of them.
LEMMA FirstOfQueue ==
  ASSUME NEW queue \in SUBSET Selections, queue # {}
  PROVE  Min(queue) \in queue
<1>1. queue \in SUBSET Nat
  BY SelectionAssumption DEF Nothing
<1>2. PICK c \in queue : \A d \in queue : c <= d
  BY <1>1, LeastNumber
<1> QED
  BY <1>2 DEF Min

\* A choice that is taken from the queue, or leaves it.
Moved(row, next) ==
  /\ next \in UploadItems
  /\ next.owner = row.owner /\ next.answer = row.answer
  /\ \/ next.status = row.status /\ next.at = row.at
     \/ row.status = "queued" /\ next.status = "uploading" /\ next.at = "pack"
     \/ row.status = "done" /\ next.status = "listed" /\ next.at = row.at
     \/ row.status = "canceled" /\ next.status = "dropped" /\ next.at = row.at

\* A queue that goes on takes one that is queued, or drops what is done.
LEMMA QueueGoesOn ==
  ASSUME NEW items \in [Selections -> UploadItems],
         NEW v
  PROVE  /\ Pumped(items, v) \in [Selections -> UploadItems]
         /\ \A c \in Selections : Moved(items[c], Pumped(items, v)[c])
<1> DEFINE queue == {c \in Selections :
                       items[c].owner = v /\ items[c].status = "queued"}
<1>1. CASE queue = {}
  <2>1. Pumped(items, v) = Swept(items, v)
    BY <1>1 DEF Pumped
  <2>2. ASSUME NEW c \in Selections
        PROVE  Moved(items[c], Swept(items, v)[c])
    <3>1. items[c] \in UploadItems
      OBVIOUS
    <3>2. Swept(items, v)[c] \in {items[c], [items[c] EXCEPT !.status = "listed"],
                                        [items[c] EXCEPT !.status = "dropped"]}
          /\ Swept(items, v)[c] =
               IF items[c].owner # v THEN items[c]
               ELSE CASE items[c].status = "done" -> [items[c] EXCEPT !.status = "listed"]
                      [] items[c].status = "canceled" -> [items[c] EXCEPT !.status = "dropped"]
                      [] OTHER -> items[c]
      BY DEF Swept
    <3> QED
      BY <3>1, <3>2 DEF Moved, UploadItems, Statuses
  <2>3. DOMAIN Swept(items, v) = Selections
        /\ Swept(items, v) = [c \in Selections |-> Swept(items, v)[c]]
    BY DEF Swept
  <2> QED
    BY <2>1, <2>2, <2>3 DEF Moved
<1>2. CASE queue # {}
  <2> DEFINE first == Min(queue)
             row == [items[first] EXCEPT !.status = "uploading", !.at = "pack",
                                         !.aborted = FALSE]
  <2>1. first \in queue
    BY <1>2, FirstOfQueue
  <2>2. Pumped(items, v) = [items EXCEPT ![first] = row]
    BY <1>2 DEF Pumped
  <2>3. items[first] \in UploadItems /\ items[first].status = "queued"
        /\ first \in Selections
    BY <2>1
  <2>4. Moved(items[first], row)
    BY <2>3 DEF Moved, UploadItems, Statuses, Stages
  <2>5. \A c \in Selections : items[c] \in UploadItems /\ Moved(items[c], items[c])
    BY DEF Moved
  <2> HIDE DEF first, row
  <2> QED
    BY <2>2, <2>3, <2>4, <2>5 DEF Moved
<1> QED
  BY <1>1, <1>2

\* What may become of a row without an answer of the API that says so.
Kept(row, next) ==
  /\ next \in UploadItems
  /\ IF next.at = "idle" THEN next.answer = "none" ELSE next.status = "uploading"
  /\ IsBuilt(next) = IsBuilt(row)
  /\ next.status = "gone" <=> row.status = "gone"
  /\ Holds(row) => Holds(next)
  /\ next.status \in {"done", "listed"} => row.status \in {"done", "listed"}
  /\ \/ next.owner = row.owner
     \/ next.owner = visit /\ OnScreen /\ next.status \notin {"done", "listed"}

\* A queue that goes on keeps its rows.
LEMMA PumpedIsKept ==
  ASSUME NEW row \in UploadItems,
         IF row.at = "idle" THEN row.answer = "none" ELSE row.status = "uploading",
         NEW next, Moved(row, next)
  PROVE  Kept(row, next)
<1>1. CASE next.status = row.status /\ next.at = row.at
  BY <1>1 DEF Moved, Kept, IsBuilt, Holds, UploadItems
<1>2. CASE row.status = "queued" /\ next.status = "uploading" /\ next.at = "pack"
  BY <1>2 DEF Moved, Kept, IsBuilt, Holds, UploadItems
<1>3. CASE \/ row.status = "done" /\ next.status = "listed" /\ next.at = row.at
           \/ row.status = "canceled" /\ next.status = "dropped" /\ next.at = row.at
  BY <1>3 DEF Moved, Kept, IsBuilt, Holds, UploadItems
<1> QED
  BY <1>1, <1>2, <1>3 DEF Moved

AllKept == item' \in [Selections -> UploadItems]
           /\ \A c \in Selections : Kept(item[c], item'[c])

\* A selection that is put into the queue, and the queue it starts.
LEMMA EnqueueKeeps ==
  ASSUME PageTypeOK, Working, OnScreen,
         NEW c \in Selections, item[c].status \in {"none", "failed"}, Enqueue(c)
  PROVE  AllKept
<1> DEFINE row == [item[c] EXCEPT !.status = "queued", !.owner = visit]
           queued == [item EXCEPT ![c] = row]
<1>1. /\ item \in [Selections -> UploadItems] /\ visit \in Nat
      /\ \A d \in Selections :
           /\ item[d] \in UploadItems
           /\ IF item[d].at = "idle" THEN item[d].answer = "none"
                                     ELSE item[d].status = "uploading"
  BY DEF PageTypeOK, Working
<1>2. item' = queued \/ item' = Pumped(queued, visit)
  BY DEF Enqueue
<1>3. row \in UploadItems /\ row.owner = visit /\ row.status = "queued"
      /\ row.at = "idle" /\ row.answer = item[c].answer
  <2>1. item[c].at = "idle" /\ item[c] \in UploadItems
    BY <1>1
  <2> QED
    BY <1>1, <2>1 DEF UploadItems, Statuses
<1> HIDE DEF row
<1>4. queued \in [Selections -> UploadItems]
  BY <1>1, <1>3
<1>5. /\ item' \in [Selections -> UploadItems]
      /\ \A d \in Selections : Moved(queued[d], item'[d])
  <2>1. CASE item' = queued
    BY <1>4, <2>1 DEF Moved
  <2>2. CASE item' = Pumped(queued, visit)
    <3> HIDE DEF queued
    <3> QED
      BY <1>4, <2>2, QueueGoesOn
  <2> QED
    BY <1>2, <2>1, <2>2
<1>6. ASSUME NEW d \in Selections, d # c PROVE Kept(item[d], item'[d])
  BY <1>1, <1>5, <1>6, PumpedIsKept
<1>7. Kept(item[c], item'[c])
  <2>1. Moved(row, item'[c])
    BY <1>1, <1>5
  <2>2. item[c].at = "idle"
    BY <1>1
  <2> QED
    BY <1>1, <1>3, <2>1, <2>2 DEF Moved, Kept, IsBuilt, Holds, UploadItems
<1> QED
  BY <1>5, <1>6, <1>7 DEF AllKept

\* One row changes, the others stay.
LEMMA OneRowKept ==
  ASSUME PageTypeOK, Working, NEW c \in Selections, NEW row,
         Kept(item[c], row), item' = [item EXCEPT ![c] = row]
  PROVE  AllKept
<1>1. item \in [Selections -> UploadItems]
  BY DEF PageTypeOK
<1>2. \A d \in Selections : Kept(item[d], item[d])
  BY <1>1 DEF Kept, Working
<1>3. row \in UploadItems
  BY DEF Kept
<1> QED
  BY <1>1, <1>2, <1>3 DEF AllKept

\* An upload that goes on to its next call at the API keeps what it has begun there.
LEMMA StepKeeps ==
  ASSUME PageTypeOK, Working, NEW c \in Selections,
         NEW at \in Stages \ {"idle", "pack", "init"}, item[c].at # "idle",
         ~IsBuilt(item[c]), item' = GoesTo(c, at)
  PROVE  AllKept
<1> DEFINE row == [item[c] EXCEPT !.at = at, !.answer = "none"]
<1>1. item' = [item EXCEPT ![c] = row]
  BY DEF GoesTo
<1>2. item[c] \in UploadItems /\ item[c].status = "uploading"
  BY DEF PageTypeOK, Working
<1>3. row \in UploadItems /\ row.at = at /\ row.answer = "none"
      /\ row.status = "uploading" /\ row.owner = item[c].owner
  BY <1>2 DEF UploadItems, Stages, Replies
<1> HIDE DEF row
<1>4. ~IsBuilt(row) /\ Holds(row)
  BY <1>3 DEF IsBuilt, Holds, Stages
<1>5. Kept(item[c], row)
  <2>1. IsBuilt(row) = IsBuilt(item[c])
    BY <1>4 DEF IsBuilt
  <2> QED
    BY <1>2, <1>3, <1>4, <2>1 DEF Kept
<1> QED
  BY <1>1, <1>5, OneRowKept

\* What the creator does to the queue, and the queue by itself.
LEMMA QueueKeeps ==
  ASSUME PageTypeOK, Working,
         \/ Add
         \/ \E c \in Selections : Retry(c) \/ Cancel(c)
         \/ \E v \in Visits : RefreshGoesOn(v)
  PROVE  AllKept
<1>1. /\ item \in [Selections -> UploadItems]
      /\ \A c \in Selections :
           /\ item[c] \in UploadItems
           /\ IF item[c].at = "idle" THEN item[c].answer = "none"
                                     ELSE item[c].status = "uploading"
  BY DEF PageTypeOK, Working
<1>2. CASE Add
  <2>1. PICK c \in Selections :
          /\ OnScreen /\ item[c].status = "none"
          /\ item' = Marked(c, "rejected") \/ Enqueue(c)
    BY <1>2 DEF Add, ZoneOpen
  <2>2. CASE Enqueue(c)
    BY <2>1, <2>2, EnqueueKeeps
  <2>3. CASE item' = Marked(c, "rejected")
    <3> DEFINE row == [item[c] EXCEPT !.status = "rejected"]
    <3>1. item' = [item EXCEPT ![c] = row]
      BY <2>3 DEF Marked
    <3>2. Kept(item[c], row)
      BY <1>1, <2>1 DEF Kept, IsBuilt, Holds, UploadItems, Statuses
    <3> HIDE DEF row
    <3> QED
      BY <3>1, <3>2, OneRowKept
  <2> QED
    BY <2>1, <2>2, <2>3
<1>3. ASSUME NEW c \in Selections, Retry(c) PROVE AllKept
  BY <1>3, EnqueueKeeps DEF Retry
<1>4. ASSUME NEW c \in Selections, Cancel(c) PROVE AllKept
  <2>1. \/ item' = Marked(c, "canceled") /\ item[c].status = "queued"
        \/ item' = GoesTo(c, "undoAborted") /\ item[c].at = "data"
        \/ item' = [item EXCEPT ![c].aborted = TRUE]
    BY <1>4 DEF Cancel
  <2>2. CASE item' = Marked(c, "canceled") /\ item[c].status = "queued"
    <3> DEFINE row == [item[c] EXCEPT !.status = "canceled"]
    <3>1. item' = [item EXCEPT ![c] = row]
      BY <2>2 DEF Marked
    <3>2. item[c].at = "idle"
      BY <1>1, <2>2
    <3>3. Kept(item[c], row)
      BY <1>1, <2>2, <3>2 DEF Kept, IsBuilt, Holds, UploadItems, Statuses
    <3> HIDE DEF row
    <3> QED
      BY <3>1, <3>3, OneRowKept
  <2>3. CASE item' = GoesTo(c, "undoAborted") /\ item[c].at = "data"
    <3>1. ~IsBuilt(item[c])
      BY <1>1, <2>3 DEF IsBuilt
    <3> QED
      BY <2>3, <3>1, StepKeeps DEF Stages
  <2>4. CASE item' = [item EXCEPT ![c].aborted = TRUE]
    <3> DEFINE row == [item[c] EXCEPT !.aborted = TRUE]
    <3>1. item' = [item EXCEPT ![c] = row]
      BY <2>4
    <3>2. Kept(item[c], row)
      BY <1>1 DEF Kept, IsBuilt, Holds, UploadItems
    <3> HIDE DEF row
    <3> QED
      BY <3>1, <3>2, OneRowKept
  <2> QED
    BY <2>1, <2>2, <2>3, <2>4
<1>5. ASSUME NEW v \in Visits, RefreshGoesOn(v) PROVE AllKept
  <2>1. CASE item' = item
    BY <1>1, <2>1 DEF AllKept, Kept
  <2>2. CASE item' = Pumped(item, v)
    BY <1>1, <2>2, QueueGoesOn, PumpedIsKept DEF AllKept
  <2> QED
    BY <1>5, <2>1, <2>2 DEF RefreshGoesOn
<1> QED
  BY <1>2, <1>3, <1>4, <1>5

-----------------------------------------------------------------------------
(***************************************************************************)
(* The page of an archive: the invariant                                   *)
(***************************************************************************)

\* A step counts at most one of the losses a run is allowed.
Counted == losses' \in {losses, losses + 1}

\* Rows that are kept keep the page in order.
LEMMA RowsInOrder ==
  ASSUME PageIInv, AllKept, UNCHANGED <<server, screen, detail>>, Counted
  PROVE  PageIInv'
<1> USE DEF server, screen, Counted
<1>1. PageTypeOK'
  BY DEF PageIInv, PageTypeOK, AllKept
<1>2. Working'
  BY DEF PageIInv, PageTypeOK, Working, AllKept, Kept
<1>3. losses' = 0 => losses = 0
  BY DEF PageIInv, PageTypeOK
<1>4. BuiltIsDone'
  BY <1>3 DEF PageIInv, BuiltIsDone, AllKept, Kept
<1>5. BuiltForGood'
  BY DEF PageIInv, BuiltForGood
<1>6. BegunIsHeld'
  BY <1>3 DEF PageIInv, BegunIsHeld, AllKept, Kept
<1>7. ShownOrRead'
  <2> SUFFICES ASSUME NEW c \in Selections, item'[c].owner = visit, open
               PROVE  /\ detail.data # NoData
                      /\ item'[c].status \in {"done", "listed"} =>
                           /\ detail.fetching = "served" => detail.answer.content = c
                           /\ \/ detail.data.content = c \/ PublishedUnbuilt(detail.data)
                              \/ detail.error \/ detail.fetching # "idle"
    BY DEF ShownOrRead, RowsOf, PublishedUnbuilt
  <2>1. Kept(item[c], item'[c])
    BY DEF AllKept
  <2>2. CASE item[c].owner = visit
    BY <2>1, <2>2 DEF Kept, PageIInv, ShownOrRead, RowsOf
  <2>3. CASE item[c].owner # visit
    BY <2>1, <2>3 DEF Kept, OnScreen
  <2> QED
    BY <2>2, <2>3
<1> QED
  BY <1>1, <1>2, <1>4, <1>5, <1>6, <1>7 DEF PageIInv

\* An upload that ends holds nothing at the API and is done if it was built, unless
\* an answer was lost; and the archive is read again.
LEMMA EndInOrder ==
  ASSUME PageIInv, NEW c \in Selections, NEW status \in {"done", "failed",
  "canceled"},
         Ends(c, status), item[c].at # "idle", Counted,
         orphans' \in [Selections -> Nat],
         status = "done" => content = c,
         \/ losses' # 0
         \/ /\ orphans' = orphans /\ ~Holds(item[c])
            /\ IsBuilt(item[c]) => status = "done"
  PROVE  PageIInv'
<1>1. /\ item \in [Selections -> UploadItems] /\ item[c] \in UploadItems
      /\ item[c].status = "uploading" /\ open \in BOOLEAN /\ losses \in Nat
      /\ detail \in QueryOf(Seen, Nat)
  BY DEF PageIInv, PageTypeOK, Working, Seen
<1> DEFINE row == [item[c] EXCEPT !.status = status, !.at = "idle", !.aborted = FALSE,
                                  !.answer = "none"]
<1>2. item' = [item EXCEPT ![c] = row]
  BY DEF Ends, Ended
<1>3. /\ row \in UploadItems /\ row.status = status /\ row.at = "idle"
      /\ row.answer = "none" /\ row.owner = item[c].owner
  BY <1>1 DEF UploadItems, Statuses, Stages, Replies
<1> HIDE DEF row
<1>4. /\ item' \in [Selections -> UploadItems] /\ item'[c] = row
      /\ \A d \in Selections : d # c => item'[d] = item[d]
  BY <1>1, <1>2, <1>3
<1>5. /\ UNCHANGED <<tech, market, content, listed, open, visit, listing>>
      /\ detail' = Invalidate(detail, open, {item[c].owner})
  BY DEF Ends, screen
<1>6. item[c].owner \in Nat
  BY <1>1 DEF UploadItems
<1>7. /\ detail' \in QueryOf(Seen, Nat)
      /\ detail'.data = detail.data /\ detail'.answer \in {detail.answer, NoData}
      /\ detail'.fetching = "served" =>
           detail.fetching = "served" /\ detail'.answer = detail.answer
      /\ open /\ detail.data # NoData => detail'.fetching = "sent"
  BY <1>1, <1>5, <1>6, DetailRefetched
<1>8. PageTypeOK'
  BY <1>4, <1>5, <1>7 DEF PageIInv, PageTypeOK, Counted, Seen
<1>9. Working'
  BY <1>3, <1>4, <1>5 DEF PageIInv, Working
<1>10. losses' = 0 => losses = 0
  BY <1>1 DEF Counted
<1>11. IsBuilt(row) <=> status = "done"
  BY <1>3 DEF IsBuilt
<1>12. BuiltIsDone'
  <2>1. \A d \in Selections : IsBuilt(item'[d]) => content' = d
    BY <1>4, <1>5, <1>11 DEF PageIInv, BuiltIsDone
  <2>2. ASSUME losses' = 0, NEW d \in Selections
        PROVE  /\ content' = d => IsBuilt(item'[d]) \/ item'[d].status = "gone"
               /\ orphans'[d] > 0 => item'[d].status = "gone"
    BY <1>1, <1>4, <1>5, <1>10, <1>11, <2>2 DEF PageIInv, BuiltIsDone
  <2> QED
    BY <2>1, <2>2 DEF BuiltIsDone
<1>13. BuiltForGood'
  BY <1>5, <1>7 DEF PageIInv, BuiltForGood
<1>14. BegunIsHeld'
  BY <1>1, <1>4, <1>5, <1>10 DEF PageIInv, BegunIsHeld
<1>15. ShownOrRead'
  <2> SUFFICES ASSUME NEW d \in Selections, item'[d].owner = visit, open
               PROVE  detail'.data # NoData /\ detail'.fetching = "sent"
    BY <1>5 DEF ShownOrRead, RowsOf
  <2>1. item[d].owner = visit
    BY <1>3, <1>4
  <2> QED
    BY <1>7, <2>1 DEF PageIInv, ShownOrRead, RowsOf
<1> QED
  BY <1>8, <1>9, <1>12, <1>13, <1>14, <1>15 DEF PageIInv

\* What the upload awaited comes, or is lost.
LEMMA UploadInOrder ==
  ASSUME PageIInv, NEW c \in Selections,
         \/ Packed(c) \/ PackFails(c) \/ InitAnswered(c) \/ DataAnswered(c)
         \/ CompleteAnswered(c) \/ UndoAnswered(c) \/ CallLost(c)
  PROVE  PageIInv'
<1>1. /\ PageTypeOK /\ Working /\ item[c] \in UploadItems
      /\ orphans \in [Selections -> Nat] /\ losses \in Nat
      /\ item[c].at # "idle" => item[c].status = "uploading"
  BY DEF PageIInv, PageTypeOK, Working
<1>2. ASSUME NEW at \in Stages \ {"idle", "pack", "init"}, Step(c, at),
             item[c].at # "idle", ~IsBuilt(item[c]), Counted
      PROVE  PageIInv'
  <2>1. AllKept
    BY <1>1, <1>2, StepKeeps DEF Step
  <2> QED
    BY <1>2, <2>1, RowsInOrder
       DEF Step, server, screen, server, screen, queries
<1>3. ASSUME NEW status \in {"failed", "canceled"}, Ends(c, status), orphans' = orphans,
             item[c].at # "idle", ~Holds(item[c]) \/ losses' # 0,
             ~IsBuilt(item[c]) \/ losses' # 0, Counted
      PROVE  PageIInv'
  BY <1>1, <1>3, EndInOrder
<1> USE DEF IsOver
<1>4. CASE Packed(c)
  <2>1. item[c].at = "pack" /\ Counted /\ ~Holds(item[c]) /\ ~IsBuilt(item[c])
    BY <1>1, <1>4 DEF Packed, Counted, Holds, IsBuilt
  <2>2. CASE IsOver(c, "canceled")
    BY <1>3, <2>1, <2>2
  <2>3. CASE Step(c, "init")
    <3> DEFINE row == [item[c] EXCEPT !.at = "init", !.answer = "none"]
    <3>1. item' = [item EXCEPT ![c] = row]
      BY <2>3 DEF Step, GoesTo
    <3>2. Kept(item[c], row)
      BY <1>1, <2>1 DEF Kept, IsBuilt, Holds, UploadItems, Stages,
                        Replies
    <3> HIDE DEF row
    <3>3. AllKept
      BY <1>1, <3>1, <3>2, OneRowKept
    <3> QED
      BY <2>1, <2>3, <3>3, RowsInOrder
         DEF Step, server, screen, server, screen, queries
  <2> QED
    BY <1>4, <2>2, <2>3 DEF Packed
<1>5. CASE PackFails(c)
  <2>1. item[c].at = "pack" /\ Counted /\ ~Holds(item[c]) /\ ~IsBuilt(item[c])
        /\ IsOver(c, "failed")
    BY <1>1, <1>5 DEF PackFails, Counted, Holds, IsBuilt
  <2> QED
    BY <1>3, <2>1
<1>6. CASE InitAnswered(c)
  <2>1. item[c].at = "init" /\ Counted /\ ~IsBuilt(item[c])
    BY <1>1, <1>6 DEF InitAnswered, Answered, Counted, IsBuilt
  <2>2. CASE item[c].answer = "refused" /\ IsOver(c, "failed")
    <3>1. ~Holds(item[c])
      BY <2>1, <2>2 DEF Holds
    <3> QED
      BY <1>3, <2>1, <2>2, <3>1
  <2>3. CASE Step(c, "undoAborted") \/ Step(c, "data")
    BY <1>2, <2>1, <2>3 DEF Stages
  <2> QED
    BY <1>6, <2>2, <2>3 DEF InitAnswered, Answered
<1>7. CASE DataAnswered(c)
  <2>1. item[c].at = "data" /\ Counted /\ ~IsBuilt(item[c])
        /\ (Step(c, "complete") \/ Step(c, "undoFailed"))
    BY <1>1, <1>7 DEF DataAnswered, Answered, Counted, IsBuilt
  <2> QED
    BY <1>2, <2>1 DEF Stages
<1>8. CASE CompleteAnswered(c)
  <2>1. item[c].at = "complete" /\ Counted
        /\ \/ item[c].answer = "ok" /\ IsOver(c, "done")
           \/ item[c].answer = "refused" /\ IsOver(c, "failed")
    BY <1>8 DEF CompleteAnswered, Answered, Counted
  <2>2. ~Holds(item[c])
    BY <2>1 DEF Holds, CancelStages
  <2>3. CASE item[c].answer = "ok" /\ IsOver(c, "done")
    <3>1. content = c
      BY <2>1, <2>3 DEF PageIInv, BuiltIsDone, IsBuilt
    <3>2. Ends(c, "done") /\ orphans' = orphans
      BY <2>3 DEF IsOver
    <3> QED
      BY <1>1, <2>1, <2>2, <2>3, <3>1, <3>2, EndInOrder
  <2>4. CASE item[c].answer = "refused" /\ IsOver(c, "failed")
    <3>1. ~IsBuilt(item[c])
      BY <1>1, <2>1, <2>4 DEF IsBuilt
    <3> QED
      BY <1>3, <2>1, <2>2, <2>4, <3>1
  <2> QED
    BY <2>1, <2>3, <2>4
<1>9. CASE UndoAnswered(c)
  <2>1. item[c].at \in {"undoAborted", "undoFailed"} /\ item[c].answer = "ok" /\ Counted
        /\ (Ends(c, "canceled") \/ Ends(c, "failed")) /\ orphans' = orphans
    BY <1>9 DEF UndoAnswered, Undoing, Undone, Counted
  <2>2. ~Holds(item[c]) /\ ~IsBuilt(item[c])
    BY <1>1, <2>1 DEF Holds, IsBuilt, CancelStages
  <2> QED
    BY <1>3, <2>1, <2>2
<1>10. CASE CallLost(c)
  <2>1. losses' = losses + 1 /\ losses' # 0 /\ Counted
    BY <1>1, <1>10 DEF CallLost, Loss, Counted
  <2>2. CASE item[c].at = "init"
    BY <1>3, <1>10, <2>1, <2>2 DEF CallLost
  <2>3. CASE item[c].at = "data"
    <3>1. Step(c, "undoFailed") /\ ~IsBuilt(item[c])
      BY <1>1, <1>10, <2>3 DEF CallLost, IsBuilt
    <3> QED
      BY <1>2, <2>1, <2>3, <3>1 DEF Stages
  <2>4. CASE item[c].at \in {"undoAborted", "undoFailed"}
    <3>1. (Ends(c, "canceled") \/ Ends(c, "failed")) /\ orphans' = orphans
      BY <1>10, <2>4 DEF CallLost, Undone
    <3> QED
      BY <1>3, <2>1, <2>4, <3>1
  <2>5. CASE item[c].at = "complete"
    <3>1. Ends(c, "failed") /\ orphans' = WithOrphan({c})
      BY <1>10, <2>5 DEF CallLost
    <3>2. orphans' \in [Selections -> Nat]
      BY <1>1, <3>1 DEF WithOrphan
    <3> QED
      BY <2>1, <2>5, <3>1, <3>2, EndInOrder
  <2>6. item[c].at \in {"init", "data", "undoAborted", "undoFailed", "complete"}
    BY <1>10 DEF CallLost
  <2> QED
    BY <2>2, <2>3, <2>4, <2>5, <2>6
<1> QED
  BY <1>4, <1>5, <1>6, <1>7, <1>8, <1>9, <1>10

\* An answer of the API, other than that the archive was built, on its way to the page.
LEMMA ReplyInOrder ==
  ASSUME PageIInv, NEW c \in Selections, NEW answer \in Replies,
         Reply(c, answer), item[c].at # "idle",
         item[c].at = "complete" => answer # "ok" /\ item[c].answer # "ok",
         UNCHANGED <<content, orphans, screen, detail, losses>>
  PROVE  /\ item' \in [Selections -> UploadItems]
         /\ item'[c].at = item[c].at /\ item'[c].answer = answer
         /\ \A d \in Selections :
              /\ item'[d].status = item[d].status
              /\ d # c => item'[d] = item[d]
              /\ IsBuilt(item'[d]) <=> IsBuilt(item[d])
         /\ Working' /\ BuiltIsDone' /\ ShownOrRead'
<1>1. /\ item \in [Selections -> UploadItems] /\ item[c] \in UploadItems
      /\ item[c].status = "uploading"
  BY DEF PageIInv, PageTypeOK, Working
<1> DEFINE row == [item[c] EXCEPT !.answer = answer]
<1>2. item' = [item EXCEPT ![c] = row]
  BY DEF Reply
<1>3. /\ row \in UploadItems /\ row.status = item[c].status /\ row.at = item[c].at
      /\ row.answer = answer /\ row.owner = item[c].owner
  BY <1>1 DEF UploadItems
<1> HIDE DEF row
<1>4. /\ item' \in [Selections -> UploadItems] /\ item'[c] = row
      /\ \A d \in Selections : d # c => item'[d] = item[d]
  BY <1>1, <1>2, <1>3
<1>5. \A d \in Selections :
        /\ item'[d].status = item[d].status /\ item'[d].owner = item[d].owner
        /\ IsBuilt(item'[d]) <=> IsBuilt(item[d])
  BY <1>1, <1>3, <1>4 DEF IsBuilt
<1>6. Working'
  BY <1>1, <1>3, <1>4 DEF PageIInv, Working, screen
<1>7. BuiltIsDone'
  BY <1>5 DEF PageIInv, BuiltIsDone
<1>8. ShownOrRead'
  BY <1>5 DEF PageIInv, ShownOrRead, RowsOf, screen
<1> QED
  BY <1>3, <1>4, <1>5, <1>6, <1>7, <1>8

\* The calls of an upload are served.
LEMMA ServeInOrder ==
  ASSUME PageIInv, NEW c \in Selections,
         ServeInit(c) \/ ServeData(c) \/ ServeComplete(c) \/ ReadForCancel(c)
  PROVE  PageIInv'
<1>1. /\ PageTypeOK /\ BuiltForGood /\ BegunIsHeld
      /\ {"ok", "refused", "building", "cancelling"} \subseteq Replies
  BY DEF PageIInv, Replies, CancelStages
<1>2. PICK answer \in {"ok", "refused", "building", "cancelling"} :
        /\ Reply(c, answer) /\ item[c].at # "idle" /\ item[c].answer = "none"
        /\ item[c].at = "complete" => answer # "ok"
        /\ UNCHANGED <<content, market, listed, orphans, screen, detail, losses>>
        /\ \/ item[c].at \in {"init", "data"} /\ tech' = tech
           \/ item[c].at = "init" /\ answer = "ok" /\ tech' = "uploading" /\ ~isFinal
           \/ tech' = "processing"
           \/ /\ item[c].at \in {"undoAborted", "undoFailed"} /\ answer = "cancelling"
              /\ tech' = tech
           \/ tech' = tech /\ (tech # "uploading" \/ isFinal)
  BY <1>1 DEF ServeInit, ServeData, ServeComplete, ReadForCancel, Answered, Undoing, Aside,
              screen, queries, bounds
<1>3. answer \in Replies
  BY <1>1
<1>4. /\ item' \in [Selections -> UploadItems]
      /\ item'[c].at = item[c].at /\ item'[c].answer = answer
      /\ \A d \in Selections :
           /\ item'[d].status = item[d].status
           /\ d # c => item'[d] = item[d]
      /\ Working' /\ BuiltIsDone' /\ ShownOrRead'
  BY <1>2, <1>3, ReplyInOrder
<1>5. \/ tech' = tech \/ tech' = "processing"
      \/ tech' = "uploading" /\ content = Nothing
  BY <1>2 DEF isFinal
<1>6. PageTypeOK'
  <2>1. [tech |-> tech', market |-> market', content |-> content'] \in Details
    BY <1>1, <1>2, <1>5 DEF PageTypeOK, Details
  <2> QED
    BY <1>1, <1>2, <1>4, <2>1 DEF PageTypeOK, screen
<1>7. BuiltForGood'
  BY <1>1, <1>2, <1>5 DEF BuiltForGood, screen
<1>8. BegunIsHeld'
  <2> SUFFICES ASSUME losses' = 0, market' = "draft", tech' = "uploading"
               PROVE  \E d \in Selections :
                        item'[d].status = "gone" \/ Holds(item'[d])
    BY DEF BegunIsHeld
  <2>1. CASE \/ item[c].at = "init" /\ answer = "ok"
             \/ item[c].at \in {"undoAborted", "undoFailed"} /\ answer = "cancelling"
    BY <1>4, <2>1 DEF Holds, CancelStages
  <2>2. CASE /\ tech' = tech /\ item[c].at \in {"init", "data"}
             /\ ~(item[c].at = "init" /\ answer = "ok")
    <3>1. PICK d \in Selections : item[d].status = "gone" \/ Holds(item[d])
      BY <1>1, <1>2, <2>2 DEF BegunIsHeld
    <3>2. CASE d # c
      BY <1>4, <3>1, <3>2
    <3>3. CASE d = c
      BY <1>2, <1>4, <2>2, <3>1, <3>3 DEF Holds
    <3> QED
      BY <3>2, <3>3
  <2>3. ~(tech' = tech /\ (tech # "uploading" \/ isFinal))
    BY <1>1, <1>2 DEF BuiltForGood, isFinal
  <2> QED
    BY <1>2, <2>1, <2>2, <2>3
<1> QED
  BY <1>4, <1>6, <1>7, <1>8 DEF PageIInv

\* A cancel goes on, awaited or not, whatever the archive has become meanwhile.
LEMMA CancelInOrder ==
  ASSUME PageIInv, NEW c \in Selections, CountFiles(c) \/ WriteCanceled(c)
  PROVE  PageIInv'
<1>1. /\ PageTypeOK /\ Working /\ BuiltIsDone /\ BuiltForGood /\ BegunIsHeld /\ ShownOrRead
      /\ CancelStages \cup {"ok"} \subseteq Replies
  BY DEF PageIInv, Replies
<1>2. PICK next \in CancelStages \cup {"ok"} :
        /\ UNCHANGED <<content, market, listed, orphans, screen, detail, losses>>
        /\ \/ Reply(c, next) /\ item[c].at \in {"undoAborted", "undoFailed"}
           \/ item' = item
        /\ \/ tech' = tech /\ next # "ok"
           \/ tech' \in {"draft", "ready"}
  BY DEF CountFiles, WriteCanceled, CancelGoesOn, CancelStages, Undoing, screen, queries,
         bounds
<1>3. /\ item' \in [Selections -> UploadItems] /\ Working' /\ BuiltIsDone' /\ ShownOrRead'
      /\ \A d \in Selections :
           /\ item'[d].status = item[d].status
           /\ next # "ok" /\ Holds(item[d]) => Holds(item'[d])
  <2>1. CASE item' = item
    BY <1>1, <1>2, <2>1
       DEF PageTypeOK, Working, BuiltIsDone, ShownOrRead, RowsOf, PublishedUnbuilt, screen
  <2>2. CASE Reply(c, next) /\ item[c].at \in {"undoAborted", "undoFailed"}
    <3>1. next \in Replies
      BY <1>1
    <3>2. /\ item' \in [Selections -> UploadItems]
          /\ item'[c].at = item[c].at /\ item'[c].answer = next
          /\ \A d \in Selections :
               /\ item'[d].status = item[d].status
               /\ d # c => item'[d] = item[d]
          /\ Working' /\ BuiltIsDone' /\ ShownOrRead'
      BY <1>2, <2>2, <3>1, ReplyInOrder
    <3>3. next # "ok" => Holds(item'[c])
      BY <2>2, <3>2 DEF Holds
    <3> QED
      BY <3>2, <3>3
  <2> QED
    BY <1>2, <2>1, <2>2
<1>4. PageTypeOK'
  <2>1. [tech |-> tech', market |-> market', content |-> content'] \in Details
    BY <1>1, <1>2 DEF PageTypeOK, Details
  <2> QED
    BY <1>1, <1>2, <1>3, <2>1 DEF PageTypeOK, screen
<1>5. BuiltForGood'
  BY <1>1, <1>2 DEF BuiltForGood, screen
<1>6. BegunIsHeld'
  BY <1>1, <1>2, <1>3 DEF BegunIsHeld
<1> QED
  BY <1>3, <1>4, <1>5, <1>6 DEF PageIInv

\* A build ends, awaited or not.
LEMMA BuildInOrder ==
  ASSUME PageIInv, NEW c \in Selections,
         BuildSucceeds(c) \/ BuildBreaks(c) \/ RefuseZip(c)
  PROVE  PageIInv'
<1>1. /\ PageTypeOK /\ BuiltForGood /\ BegunIsHeld /\ Working
      /\ BuiltIsDone /\ ShownOrRead
      /\ item \in [Selections -> UploadItems] /\ orphans \in [Selections -> Nat]
      /\ "ok" \in Replies /\ "refused" \in Replies
  BY DEF PageIInv, PageTypeOK, Replies
<1>2. UNCHANGED <<market, screen, detail, losses>>
  BY DEF BuildSucceeds, BuildBreaks, RefuseZip, BuildEnds, screen, queries
<1>3. CASE /\ BuildEnds(c, "refused") /\ UNCHANGED <<content, listed>>
           /\ tech' \in {tech, "failed"}
  <2>1. CASE Answered(c, "complete", "building") /\ Reply(c, "refused")
             /\ orphans' = orphans
    <3>1. /\ item' \in [Selections -> UploadItems]
          /\ item'[c].at = item[c].at /\ item'[c].answer = "refused"
          /\ \A d \in Selections :
               /\ item'[d].status = item[d].status
               /\ d # c => item'[d] = item[d]
          /\ Working' /\ BuiltIsDone' /\ ShownOrRead'
      BY <1>1, <1>2, <1>3, <2>1, ReplyInOrder DEF Answered
    <3>2. \A d \in Selections : Holds(item[d]) => Holds(item'[d])
      BY <2>1, <3>1 DEF Holds, CancelStages, Answered
    <3>3. PageTypeOK'
      BY <1>1, <1>2, <1>3, <2>1, <3>1 DEF PageTypeOK, Details, screen
    <3>4. BuiltForGood'
      BY <1>1, <1>2, <1>3 DEF BuiltForGood, screen
    <3>5. BegunIsHeld'
      BY <1>1, <1>2, <1>3, <3>1, <3>2 DEF BegunIsHeld
    <3> QED
      BY <3>1, <3>3, <3>4, <3>5 DEF PageIInv
  <2>2. CASE orphans[c] > 0 /\ orphans' = [orphans EXCEPT ![c] = @ - 1] /\ item' = item
    <3>1. orphans' \in [Selections -> Nat]
          /\ \A d \in Selections : orphans'[d] > 0 => orphans[d] > 0
      BY <1>1, <2>2
    <3>2. PageTypeOK' /\ BuiltForGood' /\ BegunIsHeld' /\ Working'
          /\ ShownOrRead'
      BY <1>1, <1>2, <1>3, <2>2, <3>1
         DEF PageTypeOK, Details, BuiltForGood, BegunIsHeld, Working,
             ShownOrRead, RowsOf, PublishedUnbuilt, screen
    <3>3. BuiltIsDone'
      BY <1>1, <1>2, <1>3, <2>2, <3>1 DEF BuiltIsDone
    <3> QED
      BY <3>2, <3>3 DEF PageIInv
  <2> QED
    BY <1>3, <2>1, <2>2 DEF BuildEnds
<1>4. CASE /\ BuildEnds(c, "ok") /\ content = Nothing
           /\ tech' = "ready" /\ content' = c /\ listed' = TRUE
  <2>1. c # Nothing /\ \A d \in Selections : ~IsBuilt(item[d])
    BY <1>1, <1>4, SelectionAssumption DEF BuiltIsDone
  <2>2. /\ item' \in [Selections -> UploadItems] /\ orphans' \in [Selections -> Nat]
        /\ \A d \in Selections :
             /\ item'[d].status = item[d].status /\ item'[d].owner = item[d].owner
             /\ IF item'[d].at = "idle" THEN item'[d].answer = "none"
                                        ELSE item'[d].status = "uploading"
             /\ IsBuilt(item'[d]) => d = c
             /\ orphans'[d] > 0 => orphans[d] > 0
        /\ IsBuilt(item'[c]) \/ orphans[c] > 0
    <3>1. CASE Answered(c, "complete", "building") /\ Reply(c, "ok")
               /\ orphans' = orphans
      <4> DEFINE row == [item[c] EXCEPT !.answer = "ok"]
      <4>1. item' = [item EXCEPT ![c] = row]
        BY <3>1 DEF Reply
      <4>2. /\ row \in UploadItems /\ row.at = "complete" /\ row.answer = "ok"
            /\ row.status = item[c].status /\ row.owner = item[c].owner
        BY <1>1, <3>1 DEF UploadItems, Answered
      <4> HIDE DEF row
      <4>3. item' \in [Selections -> UploadItems] /\ item'[c] = row
            /\ \A d \in Selections : d # c => item'[d] = item[d]
        BY <1>1, <4>1, <4>2
      <4>4. IsBuilt(row)
        BY <4>2 DEF IsBuilt
      <4>5. item[c].status = "uploading"
        BY <1>1, <3>1 DEF Working, Answered
      <4> QED
        BY <1>1, <2>1, <3>1, <4>2, <4>3, <4>4, <4>5 DEF Working
    <3>2. CASE orphans[c] > 0 /\ orphans' = [orphans EXCEPT ![c] = @ - 1] /\ item' = item
      <4>1. orphans' \in [Selections -> Nat]
            /\ \A d \in Selections : orphans'[d] > 0 => orphans[d] > 0
        BY <1>1, <3>2
      <4> QED
        BY <1>1, <2>1, <3>2, <4>1 DEF Working
    <3> QED
      BY <1>4, <3>1, <3>2 DEF BuildEnds
  <2>3. PageTypeOK'
    <3>1. [tech |-> tech', market |-> market', content |-> content'] \in Details
      BY <1>1, <1>2, <1>4 DEF PageTypeOK, Details
    <3> QED
      BY <1>1, <1>2, <1>4, <2>2, <3>1 DEF PageTypeOK, screen
  <2>4. Working'
    BY <1>1, <1>2, <2>2 DEF Working, screen
  <2>5. BuiltIsDone'
    BY <1>1, <1>2, <1>4, <2>1, <2>2 DEF BuiltIsDone
  <2>6. BuiltForGood' /\ BegunIsHeld'
    BY <1>1, <1>2, <1>4 DEF BuiltForGood, BegunIsHeld, screen
  <2>7. ShownOrRead'
    BY <1>1, <1>2, <2>1, <2>2 DEF ShownOrRead, RowsOf, IsBuilt, screen
  <2> QED
    BY <2>3, <2>4, <2>5, <2>6, <2>7 DEF PageIInv
<1> QED
  BY <1>3, <1>4 DEF BuildSucceeds, BuildBreaks, RefuseZip

\* The creator's part of the queue, and the queue by itself.
LEMMA QueueInOrder ==
  ASSUME PageIInv,
         \/ Add
         \/ \E c \in Selections : Retry(c) \/ Cancel(c)
         \/ \E v \in Visits : RefreshGoesOn(v)
  PROVE  PageIInv'
<1>1. AllKept
  BY QueueKeeps DEF PageIInv
<1>2. UNCHANGED <<server, screen, detail, losses>>
  BY DEF Add, Retry, Cancel, RefreshGoesOn, server, screen,
         queries, bounds, server, screen
<1> QED
  BY <1>1, <1>2, RowsInOrder DEF Counted

\* A query of the archive that holds nothing but what the API has said.
LEMMA ReadInOrder ==
  ASSUME PageIInv, UNCHANGED <<server, listing, item>>, Counted,
         open' \in BOOLEAN, visit' \in {visit, visit + 1},
         detail' \in QueryOf(Seen, Nat),
         detail'.fetching = "served" => detail'.answer # NoData,
         ShownOrRead'
  PROVE  PageIInv'
<1> USE DEF server, Counted
<1>1. PageTypeOK'
  BY DEF PageIInv, PageTypeOK, Seen
<1>2. Working'
  <2>1. /\ visit \in Nat
        /\ \A c \in Selections : item[c].owner \in Nat
    BY DEF PageIInv, PageTypeOK, UploadItems
  <2> QED
    BY <2>1 DEF PageIInv, Working
<1>3. losses' = 0 => losses = 0
  BY DEF PageIInv, PageTypeOK
<1>4. BuiltIsDone' /\ BegunIsHeld'
  BY <1>3 DEF PageIInv, BuiltIsDone, BegunIsHeld
<1>5. BuiltForGood'
  BY DEF PageIInv, BuiltForGood
<1> QED
  BY <1>1, <1>2, <1>4, <1>5 DEF PageIInv

\* An answer that is received, and a fetch that is lost.
LEMMA DetailSettled ==
  ASSUME NEW q \in QueryOf(Seen, Nat), NEW d \in Seen
  PROVE  /\ Served(q, d) \in QueryOf(Seen, Nat)
         /\ Served(q, d).data = q.data /\ Served(q, d).answer = d
         /\ Served(q, d).fetching = "served"
         /\ SetData(q, d) \in QueryOf(Seen, Nat)
         /\ SetData(q, d).data = d /\ SetData(q, d).answer = q.answer
         /\ SetData(q, d).fetching = q.fetching
         /\ Settled(q) \in QueryOf(Seen, Nat)
         /\ Settled(q).data = q.answer /\ Settled(q).answer = NoData
         /\ Settled(q).fetching = "idle"
         /\ Failed(q) \in QueryOf(Seen, Nat)
         /\ Failed(q).data = q.data /\ Failed(q).answer = NoData
         /\ Failed(q).fetching = "idle" /\ Failed(q).error
<1>1. q.answer \in Seen
  BY DEF QueryOf
<1>2. ASSUME NEW e \in Seen
      PROVE  /\ SetData(q, e) \in QueryOf(Seen, Nat)
             /\ SetData(q, e).data = e /\ SetData(q, e).answer = q.answer
             /\ SetData(q, e).fetching = q.fetching
  BY DEF SetData, QueryOf
<1>3. /\ Served(q, d) \in QueryOf(Seen, Nat)
      /\ Served(q, d).data = q.data /\ Served(q, d).answer = d
      /\ Served(q, d).fetching = "served"
  BY DEF Served, QueryOf
<1>4. /\ Settled(q) \in QueryOf(Seen, Nat)
      /\ Settled(q).data = q.answer /\ Settled(q).answer = NoData
      /\ Settled(q).fetching = "idle"
  BY <1>1, <1>2, DetailFetched DEF Settled
<1>5. /\ Failed(q) \in QueryOf(Seen, Nat)
      /\ Failed(q).data = q.data /\ Failed(q).answer = NoData
      /\ Failed(q).fetching = "idle" /\ Failed(q).error
  <2> DEFINE r == Abandon(q)
  <2>1. /\ r \in QueryOf(Seen, Nat) /\ r.data = q.data /\ r.answer = NoData
        /\ r.fetching = "idle"
    BY DetailFetched
  <2>2. Failed(q) = [r EXCEPT !.error = TRUE, !.invalid = TRUE]
    BY DEF Failed
  <2> HIDE DEF r
  <2> QED
    BY <2>1, <2>2 DEF QueryOf
<1> QED
  BY <1>2, <1>3, <1>4, <1>5

\* The queries are fetched, answered or lost.
LEMMA ReadsInOrder ==
  ASSUME PageIInv,
         \/ FetchDetail \/ FetchFiles \/ FetchLost \/ Poll
         \/ FetchAgain
  PROVE  PageIInv'
<1>1. /\ detail \in QueryOf(Seen, Nat) /\ Snapshot \in Seen \ {NoData}
      /\ Snapshot.content = content /\ detail.data \in Seen /\ detail.answer \in Seen
      /\ detail.fetching = "served" => detail.answer # NoData
      /\ losses \in Nat /\ open \in BOOLEAN
  BY NoDataAssumption DEF PageIInv, PageTypeOK, Snapshot, Seen, QueryOf
<1>2. UNCHANGED <<server, screen, item>> /\ Counted
  BY <1>1 DEF FetchDetail, FetchFiles, FetchLost, Poll, FetchAgain,
              server, screen, bounds, Loss, Counted
<1>3. \/ detail' = detail
      \/ detail' = Served(detail, Snapshot)
      \/ detail.fetching = "served" /\ detail' = Settled(detail)
      \/ detail' = Failed(detail)
      \/ detail' = Fetch(detail)
      \/ detail' = Refetch(detail) /\ detail.error
  BY DEF FetchDetail, FetchFiles, FetchLost, Poll, FetchAgain
<1>4. ASSUME NEW c \in Selections, item[c].owner = visit, open
      PROVE  /\ detail.data # NoData
             /\ item[c].status \in {"done", "listed"} =>
                  /\ detail.fetching = "served" => detail.answer.content = c
                  /\ \/ detail.data.content = c \/ PublishedUnbuilt(detail.data)
                     \/ detail.error \/ detail.fetching # "idle"
                  /\ content = c
  <2>1. item[c].status \in {"done", "listed"} => content = c
    BY DEF PageIInv, BuiltIsDone, IsBuilt
  <2> QED
    BY <1>4, <2>1 DEF PageIInv, ShownOrRead, RowsOf
<1>5. /\ detail' \in QueryOf(Seen, Nat)
      /\ detail'.fetching = "served" => detail'.answer # NoData
      /\ detail.data # NoData => detail'.data # NoData
      /\ detail'.fetching = "served" =>
           detail'.answer \in {detail.answer, Snapshot}
           /\ (detail'.answer = Snapshot \/ detail.fetching = "served")
      /\ \/ detail'.fetching # "idle" \/ detail'.error
         \/ detail.fetching = "served" /\ detail'.data = detail.answer
         \/ detail' = detail
         \/ detail.data = NoData
  <2>1. CASE detail' = detail
    BY <1>1, <2>1
  <2>2. CASE detail' = Served(detail, Snapshot)
    BY <1>1, <2>2, DetailSettled
  <2>3. CASE detail.fetching = "served" /\ detail' = Settled(detail)
    BY <1>1, <2>3, DetailSettled
  <2>4. CASE detail' = Failed(detail)
    BY <1>1, <2>4, DetailSettled
  <2>5. CASE detail' = Fetch(detail)
    BY <1>1, <2>5, DetailFetched
  <2>6. CASE detail' = Refetch(detail)
    BY <1>1, <2>6, DetailRefetched
  <2> QED
    BY <1>3, <2>1, <2>2, <2>3, <2>4, <2>5, <2>6
<1>6. ShownOrRead'
  <2> SUFFICES ASSUME NEW c \in Selections, item[c].owner = visit, open
               PROVE  /\ detail'.data # NoData
                      /\ item[c].status \in {"done", "listed"} =>
                           /\ detail'.fetching = "served" => detail'.answer.content = c
                           /\ \/ detail'.data.content = c \/ PublishedUnbuilt(detail'.data)
                              \/ detail'.error \/ detail'.fetching # "idle"
    BY <1>2 DEF ShownOrRead, RowsOf, PublishedUnbuilt, screen
  <2> QED
    BY <1>1, <1>4, <1>5
<1> QED
  BY <1>1, <1>2, <1>5, <1>6, ReadInOrder DEF screen

\* The page is opened, or left with the queue going on.
LEMMA VisitInOrder ==
  ASSUME PageIInv, Open \/ Leave
  PROVE  PageIInv'
<1>1. /\ detail \in QueryOf(Seen, Nat) /\ visit \in Nat
      /\ \A c \in Selections : item[c].owner \in Nat /\ item[c].owner <= visit
      /\ detail.fetching = "served" => detail.answer # NoData
  BY DEF PageIInv, PageTypeOK, UploadItems, Working, Seen
<1>2. UNCHANGED <<server, listing, item>> /\ Counted
  BY DEF Open, Leave, server, bounds, server, Counted
<1>3. CASE Open
  <2>1. visit' = visit + 1 /\ open' \in BOOLEAN
    BY <1>3 DEF Open
  <2>2. detail' = detail \/ detail' = Fetch(detail)
    BY <1>3 DEF Open, Opened
  <2>3. /\ detail' \in QueryOf(Seen, Nat) /\ detail'.data = detail.data
        /\ detail'.answer = detail.answer
        /\ detail'.fetching = "served" => detail.fetching = "served"
    BY <1>1, <2>2, DetailFetched
  <2>4. ShownOrRead'
    BY <1>1, <1>2, <2>1 DEF ShownOrRead, RowsOf
  <2> QED
    BY <1>1, <1>2, <2>1, <2>3, <2>4, ReadInOrder
<1>4. CASE Leave
  <2>1. visit' = visit /\ open' = FALSE /\ detail' = Abandon(detail)
    BY <1>4 DEF Leave
  <2>2. ShownOrRead'
    BY <2>1 DEF ShownOrRead
  <2> QED
    BY <1>1, <1>2, <2>1, <2>2, DetailFetched, ReadInOrder
<1> QED
  BY <1>3, <1>4

\* A reload forgets the rows, not what the API was begun with.
LEMMA ReloadInOrder ==
  ASSUME PageIInv, ReloadPage
  PROVE  PageIInv'
<1>1. /\ item \in [Selections -> UploadItems] /\ orphans \in [Selections -> Nat]
      /\ Working
  BY DEF PageIInv, PageTypeOK
<1>2. /\ UNCHANGED <<tech, market, content, listed, visit, losses>> /\ open' = FALSE
      /\ item' = [c \in Selections |->
                    IF item[c].status \in {"none", "rejected"} THEN item[c]
                    ELSE [NoItem EXCEPT !.status = "gone"]]
      /\ orphans' = WithOrphan(Selections)
      /\ detail' = EmptyQuery /\ listing' = NoListing
  BY DEF ReloadPage, bounds
<1>3. ASSUME NEW c \in Selections
      PROVE  \/ item[c].status \in {"none", "rejected"} /\ item'[c] = item[c]
                /\ orphans'[c] = orphans[c]
             \/ item[c].status \notin {"none", "rejected"}
                /\ item'[c] = [NoItem EXCEPT !.status = "gone"]
                /\ orphans'[c] \in {orphans[c], orphans[c] + 1}
  BY <1>1, <1>2 DEF WithOrphan, Working
<1>4. LET row == [NoItem EXCEPT !.status = "gone"]
      IN  /\ row \in UploadItems /\ row.status = "gone" /\ row.at = "idle"
          /\ row.answer = "none" /\ row.owner = 0
  BY DEF NoItem, UploadItems, Statuses, Stages, Replies
<1>5. PageTypeOK'
  <2>1. item' \in [Selections -> UploadItems]
    BY <1>1, <1>2, <1>4
  <2>2. orphans' \in [Selections -> Nat]
    BY <1>1, <1>2 DEF WithOrphan
  <2>3. /\ detail' \in QueryOf(Seen, Nat)
        /\ detail'.fetching # "served"
    BY <1>2 DEF EmptyQuery, QueryOf, Seen
  <2> QED
    BY <1>2, <2>1, <2>2, <2>3 DEF PageIInv, PageTypeOK, NoListing, Seen
<1>6. Working'
  BY <1>1, <1>2, <1>3, <1>4 DEF Working, PageIInv, PageTypeOK
<1>7. BuiltIsDone'
  BY <1>1, <1>2, <1>3, <1>4
     DEF PageIInv, BuiltIsDone, IsBuilt
<1>8. BuiltForGood'
  BY <1>2 DEF PageIInv, BuiltForGood, NoListing
<1>9. BegunIsHeld'
  BY <1>1, <1>2, <1>3, <1>4 DEF PageIInv, BegunIsHeld, Working, Holds
<1>10. ShownOrRead'
  BY <1>2 DEF ShownOrRead
<1> QED
  BY <1>5, <1>6, <1>7, <1>8, <1>9, <1>10 DEF PageIInv

\* The publish panel asks for a change of the archive and shows the answer.
LEMMA ListingInOrder ==
  ASSUME PageIInv,
         \/ PressListing("published") \/ PressListing("unpublished")
         \/ FindListing \/ RefuseListing \/ WriteListing \/ ListingAnswered \/ ListingLost
  PROVE  PageIInv'
<1> DEFINE Listings == [asks : {"nothing", "published", "unpublished"},
                        answer : {"none", "found", "ok", "refused"}, reply : Seen]
<1>1. /\ detail \in QueryOf(Seen, Nat)
      /\ [tech |-> tech, market |-> market, content |-> content] \in Details
      /\ detail.fetching = "served" => detail.answer # NoData
      /\ listing \in Listings /\ listed \in BOOLEAN
      /\ losses \in Nat /\ open \in BOOLEAN /\ visit \in Nat
      /\ item \in [Selections -> UploadItems] /\ orphans \in [Selections -> Nat]
      /\ Working /\ BuiltIsDone /\ BegunIsHeld /\ BuiltForGood /\ ShownOrRead
  BY DEF PageIInv, PageTypeOK, Seen
<1>2. /\ UNCHANGED <<tech, content, listed, orphans, open, visit, item>>
      /\ Counted
  BY <1>1 DEF PressListing, FindListing, RefuseListing, WriteListing, ListingAnswered,
              ListingLost, server, bounds, Loss, Counted
\* Whatever is made of the request, the rest stays in order.
<1>3. ASSUME market' \in {market, "published", "unpublished"}, listing' \in Listings,
             listing'.answer = "ok" =>
               /\ listing'.reply # NoData /\ listing'.reply.market # "draft"
               /\ listing'.reply.content \in {Nothing, content},
             \/ detail' = detail
             \/ listing.answer = "ok" /\ detail' = SetData(detail, listing.reply)
      PROVE  PageIInv'
  <2>1. /\ detail' \in QueryOf(Seen, Nat) /\ detail'.answer = detail.answer
        /\ detail'.fetching = detail.fetching
        /\ \/ detail' = detail
           \/ /\ detail'.data # NoData /\ detail'.data.market # "draft"
              /\ detail'.data.content \in {Nothing, content}
    <3>1. CASE detail' = detail
      BY <1>1, <3>1
    <3>2. CASE listing.answer = "ok" /\ detail' = SetData(detail, listing.reply)
      BY <1>1, <3>2, DetailSettled DEF BuiltForGood
    <3> QED
      BY <1>3, <3>1, <3>2
  <2>2. PageTypeOK'
    <3>1. [tech |-> tech', market |-> market', content |-> content'] \in Details
      BY <1>1, <1>2, <1>3 DEF Details
    <3>2. losses' \in Nat
      BY <1>1, <1>2 DEF Counted
    <3> QED
      BY <1>1, <1>2, <1>3, <2>1, <3>1, <3>2 DEF PageTypeOK, Seen
  <2>3. losses' = 0 => losses = 0
    BY <1>1, <1>2 DEF Counted
  <2>4. Working' /\ BuiltIsDone' /\ BegunIsHeld'
    BY <1>1, <1>2, <1>3, <2>3 DEF Working, BuiltIsDone, BegunIsHeld
  <2>5. BuiltForGood'
    BY <1>1, <1>2, <1>3 DEF BuiltForGood
  <2>6. ShownOrRead'
    <3> SUFFICES ASSUME NEW c \in Selections, item[c].owner = visit, open
                 PROVE  /\ detail'.data # NoData
                        /\ item[c].status \in {"done", "listed"} =>
                             /\ detail'.fetching = "served" => detail'.answer.content = c
                             /\ \/ detail'.data.content = c
                                \/ PublishedUnbuilt(detail'.data)
                                \/ detail'.error \/ detail'.fetching # "idle"
      BY <1>2 DEF ShownOrRead, RowsOf, PublishedUnbuilt
    <3>1. item[c].status \in {"done", "listed"} => content = c
      BY <1>1 DEF BuiltIsDone, IsBuilt
    <3>2. CASE detail' = detail
      BY <1>1, <3>2 DEF ShownOrRead, RowsOf
    <3>3. CASE /\ detail'.data # NoData /\ detail'.data.market # "draft"
               /\ detail'.data.content \in {Nothing, content}
      BY <1>1, <2>1, <3>1, <3>3 DEF ShownOrRead, RowsOf, PublishedUnbuilt
    <3> QED
      BY <2>1, <3>2, <3>3
  <2> QED
    BY <2>2, <2>4, <2>5, <2>6 DEF PageIInv
<1>4. ASSUME NEW status \in {"published", "unpublished"}, PressListing(status)
      PROVE  PageIInv'
  <2>1. /\ UNCHANGED <<market, detail>>
        /\ listing' = [asks |-> status, answer |-> "none", reply |-> NoData]
    BY <1>4 DEF PressListing, server, queries, NoListing
  <2>2. listing' \in Listings /\ listing'.answer # "ok"
    BY <2>1 DEF Seen
  <2> QED
    BY <1>3, <2>1, <2>2
<1>5. CASE FindListing \/ RefuseListing
  <2>1. PICK answer \in {"found", "refused"} :
          UNCHANGED <<market, detail>> /\ listing' = [listing EXCEPT !.answer = answer]
    BY <1>5 DEF FindListing, RefuseListing, server, queries
  <2>2. listing' \in Listings /\ listing'.answer # "ok"
    BY <1>1, <2>1
  <2> QED
    BY <1>3, <2>1, <2>2
<1>6. CASE WriteListing
  <2>1. UNCHANGED detail
    BY <1>6 DEF WriteListing, queries
  <2>2. CASE market' = "published" /\ UNCHANGED listing
    BY <1>1, <1>3, <2>1, <2>2 DEF BuiltForGood
  <2>3. CASE /\ listing.asks \in {"published", "unpublished"} /\ market' = listing.asks
             /\ listing' = [listing EXCEPT !.answer = "ok", !.reply = Snapshot']
    <3> DEFINE now == [tech |-> tech, market |-> market', content |-> content]
    <3>1. now \in Details /\ now.market # "draft" /\ now.content = content
      BY <1>1, <2>3 DEF Details
    <3>2. now # NoData
      BY <3>1, NoDataAssumption
    <3>3. listing' = [listing EXCEPT !.answer = "ok", !.reply = now]
      BY <1>2, <2>3 DEF Snapshot
    <3> HIDE DEF now
    <3>4. listing' \in Listings /\ listing'.reply = now
      BY <1>1, <3>1, <3>3 DEF Seen
    <3> QED
      BY <1>3, <2>1, <2>3, <3>1, <3>2, <3>4
  <2> QED
    BY <1>6, <2>2, <2>3 DEF WriteListing
<1>7. CASE ListingAnswered \/ ListingLost
  <2>1. /\ UNCHANGED market
        /\ listing' = [asks |-> "nothing", answer |-> "none", reply |-> NoData]
        /\ \/ detail' = detail
           \/ listing.answer = "ok" /\ detail' = SetData(detail, listing.reply)
    BY <1>7 DEF ListingAnswered, ListingLost, server, queries, NoListing
  <2>2. listing' \in Listings /\ listing'.answer # "ok"
    BY <2>1 DEF Seen
  <2> QED
    BY <1>3, <2>1, <2>2
<1> QED
  BY <1>4, <1>5, <1>6, <1>7

\* The page of an archive starts in order.
LEMMA PageStarts ==
  PageInit => PageIInv
<1> SUFFICES ASSUME PageInit
             PROVE  PageIInv
  OBVIOUS
<1>1. /\ NoItem \in UploadItems /\ NoItem.at = "idle" /\ NoItem.status = "none"
      /\ NoItem.answer = "none" /\ NoItem.owner = 0
  BY DEF NoItem, UploadItems, Statuses, Stages, Replies
<1>2. /\ EmptyQuery \in QueryOf(Seen, Nat) /\ EmptyQuery.fetching = "idle"
      /\ EmptyQuery.data = NoData /\ EmptyQuery.answer = NoData
  BY DEF EmptyQuery, QueryOf, Seen
<1>3. PageTypeOK
  BY <1>1, <1>2 DEF PageInit, PageTypeOK, Details, NoListing, Seen
<1>4. Working /\ BuiltIsDone
  BY <1>1, SelectionAssumption DEF PageInit, Working, BuiltIsDone, IsBuilt
<1>5. BuiltForGood /\ BegunIsHeld /\ ShownOrRead
  BY <1>2 DEF PageInit, BuiltForGood, BegunIsHeld, ShownOrRead,
              NoListing
<1> QED
  BY <1>3, <1>4, <1>5 DEF PageIInv

\* Every step of the page, its uploads and the API keeps it in order.
LEMMA PageGoesOn ==
  ASSUME PageIInv, [PageNext]_(pageVars)
  PROVE  PageIInv'
<1>1. CASE Author
  BY <1>1, QueueInOrder, ListingInOrder, ReadsInOrder, VisitInOrder, ReloadInOrder
     DEF Author
<1>2. ASSUME NEW c \in Selections, Progress(c)
      PROVE  PageIInv'
  BY <1>2, UploadInOrder, ServeInOrder, CancelInOrder, BuildInOrder DEF Progress
<1>3. ASSUME NEW c \in Selections, Setback(c)
      PROVE  PageIInv'
  BY <1>3, UploadInOrder, BuildInOrder DEF Setback
<1>4. ASSUME NEW v \in Visits, RefreshGoesOn(v)
      PROVE  PageIInv'
  BY <1>4, QueueInOrder
<1>5. CASE \/ Poll \/ FetchDetail \/ FetchFiles \/ FetchLost
           \/ FindListing \/ RefuseListing \/ WriteListing \/ ListingAnswered
           \/ ListingLost
  BY <1>5, ReadsInOrder, ListingInOrder
<1>6. CASE UNCHANGED pageVars \/ \E c \in Selections : ListFiles(c)
  <2>1. /\ UNCHANGED <<tech, market, content, orphans, open, visit, item, detail, listing,
                       losses>>
        /\ listed' \in BOOLEAN
    BY <1>6 DEF ListFiles, pageVars, server, client, bounds, PageIInv, PageTypeOK
  <2> QED
    BY <2>1 DEF PageIInv, PageTypeOK, Working, BuiltIsDone, BuiltForGood, BegunIsHeld,
                ShownOrRead, RowsOf, PublishedUnbuilt
<1> QED
  BY <1>1, <1>2, <1>3, <1>4, <1>5, <1>6 DEF PageNext

\* The invariant of the page of an archive, for any selections of files.
THEOREM PageInvariant ==
  PageSpec => []PageIInv
<1>1. PageInit => PageIInv
  BY PageStarts
<1>2. PageIInv /\ [PageNext]_(pageVars) => PageIInv'
  BY PageGoesOn
<1> QED
  BY <1>1, <1>2, PTL DEF PageSpec

\* No row of the dashboard claims an archive it did not make, nor was one the creator
\* canceled built, whatever aborts, retries, builds and losses were under way.
THEOREM RowsTellTheTruth ==
  PageSpec => []RowsAreTrue
<1>1. PageIInv => RowsAreTrue
  <2> SUFFICES ASSUME PageIInv, NEW c \in Selections
               PROVE  /\ item[c].status \in {"done", "listed"} => content = c
                      /\ item[c].status \in {"canceled", "dropped"} /\ losses = 0
                           => content # c
    BY DEF RowsAreTrue
  <2>1. item[c].status \in {"canceled", "dropped"} => ~IsBuilt(item[c])
    BY DEF PageIInv, Working, IsBuilt
  <2>2. item[c].status \in {"done", "listed"} => IsBuilt(item[c])
    BY DEF IsBuilt
  <2> QED
    BY <2>1, <2>2 DEF PageIInv, BuiltIsDone
<1> QED
  BY <1>1, PageInvariant, PTL

\* An upload that was aborted or failed is taken back at the API.
THEOREM BegunIsEnded ==
  PageSpec => []NothingLeftHanging
<1>1. PageIInv => NothingLeftHanging
  BY DEF PageIInv, BegunIsHeld, NothingLeftHanging, Holds
<1> QED
  BY <1>1, PageInvariant, PTL

\* A row leaves the queue for an archive the page shows as it was built or is reading.
THEOREM WhatVanishedIsShown ==
  PageSpec => []VanishedIsShown
<1>1. PageIInv => VanishedIsShown
  BY DEF PageIInv, ShownOrRead, VanishedIsShown, OnScreen, RowsOf
<1> QED
  BY <1>1, PageInvariant, PTL

-----------------------------------------------------------------------------
(***************************************************************************)
(* The ZIP of a selection                                                  *)
(***************************************************************************)

\* The files that are kept of a selection are files of it.
LEMMA OnlyFiles ==
  ASSUME NEW selection \in Seq(Files), NEW fit
  PROVE  Only(selection, fit) \in Seq(Files)
<1> DEFINE Take(g, i) == IF i = 0 THEN <<>>
                         ELSE IF selection[i] \in fit THEN Append(g[i - 1], selection[i])
                         ELSE g[i - 1]
           IsOnly(g, k) == g = [i \in 0 .. k |-> Take(g, i)]
           n == Len(selection)
           missing == {k \in 0 .. n : \A g : ~IsOnly(g, k)}
<1>1. n \in Nat
  OBVIOUS
<1> HIDE DEF n
<1>2. missing = {}
  <2> SUFFICES ASSUME missing # {} PROVE FALSE
    OBVIOUS
  <2>1. PICK k \in missing : \A m \in missing : k <= m
    <3>1. missing \in SUBSET Nat
      BY <1>1
    <3> HIDE DEF missing
    <3> QED
      BY <3>1, LeastNumber
  <2>2. k \in 0 .. n /\ k \in Nat
    BY <1>1, <2>1
  <2>3. CASE k = 0
    <3> DEFINE g == [i \in 0 .. 0 |-> <<>>]
    <3>1. IsOnly(g, 0)
      OBVIOUS
    <3> QED
      BY <2>1, <2>3, <3>1
  <2>4. CASE k # 0
    <3>1. k - 1 \in 0 .. n /\ ~(k - 1 \in missing)
      <4> HIDE DEF missing
      <4> QED
        BY <2>1, <2>2, <2>4, <1>1
    <3>2. PICK g : IsOnly(g, k - 1)
      BY <3>1
    <3> DEFINE h == [i \in 0 .. k |-> IF i < k THEN g[i] ELSE Take(g, k)]
    <3>3. ASSUME NEW i \in 0 .. k PROVE h[i] = Take(h, i)
      <4>1. CASE i < k
        <5>1. i \in 0 .. (k - 1) /\ (i # 0 => i - 1 \in 0 .. k /\ i - 1 < k)
          BY <4>1, <2>2
        <5>2. h[i] = g[i]
          BY <4>1
        <5>3. g[i] = Take(g, i)
          <6> HIDE DEF Take
          <6> QED
            BY <3>2, <5>1
        <5> QED
          BY <5>1, <5>2, <5>3, <2>2
      <4>2. CASE i = k
        BY <4>2, <2>2, <2>4
      <4> QED
        BY <4>1, <4>2, <2>2
    <3>4. IsOnly(h, k)
      <4> HIDE DEF Take
      <4> QED
        BY <3>3
    <3> QED
      BY <2>1, <3>4
  <2> QED
    BY <2>3, <2>4
<1> DEFINE only == CHOOSE g : IsOnly(g, n)
<1>3. IsOnly(only, n)
  <2>1. n \in 0 .. n
    BY <1>1
  <2>2. \E g : IsOnly(g, n)
    BY <1>2, <2>1
  <2> HIDE DEF IsOnly
  <2> QED
    BY <2>2
<1>4. Only(selection, fit) = only[n]
  BY DEF Only, n
<1> HIDE DEF only
<1> DEFINE Bad == {k \in 0 .. n : only[k] \notin Seq(Files)}
<1>5. Bad = {}
  <2> SUFFICES ASSUME Bad # {} PROVE FALSE
    OBVIOUS
  <2>1. PICK k \in Bad : \A m \in Bad : k <= m
    <3>1. Bad \in SUBSET Nat
      BY <1>1
    <3> HIDE DEF Bad
    <3> QED
      BY <3>1, LeastNumber
  <2>2. k \in 0 .. n /\ k \in Nat /\ k <= n /\ only[k] \notin Seq(Files)
    BY <1>1, <2>1
  <2>5. only[k] = Take(only, k)
    <3> HIDE DEF Take
    <3> QED
      BY <1>3, <2>2
  <2>3. CASE k = 0
    BY <2>2, <2>3, <2>5
  <2>4. CASE k # 0
    <3>1. only[k - 1] \in Seq(Files)
      <4>1. k - 1 \in 0 .. n /\ k - 1 < k
        BY <2>2, <2>4, <1>1
      <4> QED
        BY <2>1, <2>2, <4>1
    <3>2. selection[k] \in Files
      BY <2>2, <2>4, <1>1 DEF n
    <3>3. Append(only[k - 1], selection[k]) \in Seq(Files)
      BY <3>1, <3>2
    <3> QED
      BY <2>2, <2>4, <2>5, <3>1, <3>3
  <2> QED
    BY <2>3, <2>4
<1>6. n \in 0 .. n
  BY <1>1
<1> QED
  BY <1>4, <1>5, <1>6

\* What is left of a selection are files of it.
LEMMA SplitFiles ==
  ASSUME NEW selection \in Seq(Files)
  PROVE  splitUploadFiles(selection) \in Seq(Files)
<1> DEFINE chosen == {selection[i] : i \in DOMAIN selection}
           fit == {file \in chosen : checkUploadFile(file) = "fine"}
           fine == Only(selection, fit)
           rest == chosen \ {file \in chosen : isZip(file)}
<1>1. fine \in Seq(Files)
  BY OnlyFiles
<1>2. Only(fine, rest) \in Seq(Files)
  <2> HIDE DEF fine, rest
  <2> QED
    BY <1>1, OnlyFiles
<1>3. splitUploadFiles(selection) \in {fine, Only(fine, rest)}
  BY DEF splitUploadFiles
<1> QED
  BY <1>1, <1>2, <1>3

-----------------------------------------------------------------------------
\* Names with different numbers are different names, whatever their case.
LEMMA SuffixesDiffer ==
  ASSUME NEW name \in Names, NEW a \in Nat \ {0}, NEW b \in Nat \ {0},
         lower(withSuffix(name, a)) = lower(withSuffix(name, b))
  PROVE  a = b
<1>1. ASSUME NEW n \in Nat \ {0}
      PROVE  lower(withSuffix(name, n)).numbers =
               IF n = 1 THEN name.numbers ELSE Append(name.numbers, n)
  BY DEF lower, withSuffix, Names
<1>2. name.numbers \in Seq(Nat)
  BY DEF Names
<1>3. CASE a = 1 \/ b = 1
  <2>1. \A n \in Nat : Append(name.numbers, n) # name.numbers
    <3>1. ASSUME NEW n \in Nat
          PROVE  Len(Append(name.numbers, n)) # Len(name.numbers)
      <4>1. Len(name.numbers) \in Nat
        BY <1>2
      <4>2. Len(Append(name.numbers, n)) = Len(name.numbers) + 1
        BY <1>2
      <4> QED
        BY <4>1, <4>2
    <3> QED
      BY <3>1
  <2> QED
    BY <1>1, <1>3, <2>1
<1>4. CASE a # 1 /\ b # 1
  <2>1. Append(name.numbers, a) = Append(name.numbers, b)
    BY <1>1, <1>4
  <2> QED
    BY <1>2, <2>1
<1> QED
  BY <1>3, <1>4

\* The names taken before the i-th file, in lower case; a number is the first that is free.
Taken(g, i) == {lower(g[j]) : j \in 1 .. (i - 1)}
IsFree(name, taken, n) == lower(withSuffix(name, n)) \notin taken
IsFirst(name, taken, n) ==
  IsFree(name, taken, n) /\ \A m \in 1 .. (n - 1) : ~IsFree(name, taken, m)

\* Of i numbers one is free when fewer names are taken.
LEMMA SomeIsFree ==
  ASSUME NEW name \in Names, NEW i \in Nat \ {0}, NEW g
  PROVE  \E n \in 1 .. i : IsFirst(name, Taken(g, i), n)
<1> DEFINE taken == Taken(g, i)
           free == {n \in 1 .. i : IsFree(name, taken, n)}
<1>1. IsFiniteSet(taken) /\ Cardinality(taken) <= i - 1
  <2> DEFINE f == [j \in 1 .. (i - 1) |-> lower(g[j])]
  <2>1. f \in Surjection(1 .. (i - 1), taken)
    BY DEF Surjection, Taken
  <2>2. IsFiniteSet(1 .. (i - 1)) /\ Cardinality(1 .. (i - 1)) = i - 1
    BY FS_Interval
  <2> HIDE DEF f, taken
  <2> QED
    BY <2>1, <2>2, FS_Surjection
<1> HIDE DEF taken
<1>2. free # {}
  <2> SUFFICES ASSUME free = {} PROVE FALSE
    OBVIOUS
  <2> DEFINE f == [n \in 1 .. i |-> lower(withSuffix(name, n))]
  <2>1. f \in [1 .. i -> taken]
    BY DEF IsFree
  <2>2. IsFiniteSet(1 .. i) /\ Cardinality(1 .. i) = i
    <3>1. /\ IsFiniteSet(1 .. i)
          /\ Cardinality(1 .. i) = IF 1 > i THEN 0 ELSE i - 1 + 1
      <4>1. 1 \in Int /\ i \in Int
        OBVIOUS
      <4> QED
        BY <4>1, FS_Interval
    <3> QED
      BY <3>1
  <2>3. Cardinality(taken) \in Nat
    BY <1>1, FS_CardinalityType
  <2>4. \E x, y \in 1 .. i : x # y /\ f[x] = f[y]
    <3>1. Cardinality(taken) < Cardinality(1 .. i)
      BY <1>1, <2>2, <2>3
    <3> HIDE DEF f
    <3> QED
      BY <1>1, <2>1, <2>2, <3>1, FS_PigeonHole
  <2> QED
    BY <2>4, SuffixesDiffer
<1>3. PICK n \in free : \A m \in free : n <= m
  <2>1. free \in SUBSET Nat
    OBVIOUS
  <2> HIDE DEF free
  <2> QED
    BY <1>2, <2>1, LeastNumber
<1> QED
  BY <1>3 DEF IsFirst, taken

\* Each file takes a name that none before it has.
LEMMA UniqueIsDistinct ==
  ASSUME NEW selection \in Seq(Files)
  PROVE  LET unique == uniqueNames(selection)
         IN /\ DOMAIN unique = 1 .. Len(selection)
            /\ \A i, j \in 1 .. Len(selection) :
                 lower(unique[i]) = lower(unique[j]) => i = j
<1> DEFINE n == Len(selection)
           Name(g, i) ==
             withSuffix(selection[i].name,
                        CHOOSE k \in 1 .. i : IsFirst(selection[i].name, Taken(g, i), k))
           IsUnique(g, k) == g = [i \in 1 .. k |-> Name(g, i)]
           missing == {k \in 0 .. n : \A g : ~IsUnique(g, k)}
<1>1. n \in Nat
  OBVIOUS
<1>2. ASSUME NEW g, NEW h, NEW i \in Nat, \A j \in 1 .. (i - 1) : g[j] = h[j]
      PROVE  Name(g, i) = Name(h, i)
  <2>1. Taken(g, i) = Taken(h, i)
    BY <1>2 DEF Taken
  <2> QED
    BY <2>1
<1>3. uniqueNames(selection) = CHOOSE g : IsUnique(g, n)
  BY DEF uniqueNames, IsFirst, IsFree, Taken
<1> HIDE DEF Name, n
<1>4. missing = {}
  <2> SUFFICES ASSUME missing # {} PROVE FALSE
    OBVIOUS
  <2>1. PICK k \in missing : \A m \in missing : k <= m
    <3>1. missing \in SUBSET Nat
      BY <1>1
    <3> HIDE DEF missing
    <3> QED
      BY <3>1, LeastNumber
  <2>2. k \in 0 .. n /\ k \in Nat
    BY <1>1, <2>1
  <2>3. CASE k = 0
    <3>1. IsUnique([i \in 1 .. 0 |-> 0], 0)
      OBVIOUS
    <3> QED
      BY <2>1, <2>3, <3>1
  <2>4. CASE k # 0
    <3>1. k - 1 \in 0 .. n /\ ~(k - 1 \in missing)
      <4> HIDE DEF missing
      <4> QED
        BY <2>1, <2>2, <2>4, <1>1
    <3>2. PICK g : IsUnique(g, k - 1)
      BY <3>1
    <3> DEFINE h == [i \in 1 .. k |-> IF i < k THEN g[i] ELSE Name(g, k)]
    <3>3. ASSUME NEW i \in 1 .. k PROVE h[i] = Name(h, i)
      <4>1. i \in Nat /\ \A j \in 1 .. (i - 1) : g[j] = h[j]
        BY <2>2
      <4>2. Name(g, i) = Name(h, i)
        <5> HIDE DEF h
        <5> QED
          BY <4>1, <1>2
      <4>3. h[i] = Name(g, i)
        <5>1. i < k => i \in 1 .. (k - 1)
          BY <2>2
        <5>2. ~(i < k) => i = k
          BY <2>2
        <5> QED
          BY <3>2, <5>1, <5>2
      <4> QED
        BY <4>2, <4>3
    <3>4. IsUnique(h, k)
      BY <3>3
    <3> QED
      BY <2>1, <3>4
  <2> QED
    BY <2>3, <2>4
<1> DEFINE unique == CHOOSE g : IsUnique(g, n)
<1>5. IsUnique(unique, n)
  <2>1. n \in 0 .. n
    BY <1>1
  <2>2. \E g : IsUnique(g, n)
    BY <1>4, <2>1
  <2> HIDE DEF IsUnique
  <2> QED
    BY <2>2
<1> HIDE DEF unique
<1>6. ASSUME NEW i \in 1 .. n
      PROVE  \A j \in 1 .. (i - 1) : lower(unique[i]) # lower(unique[j])
  <2> DEFINE name == selection[i].name
             first == CHOOSE k \in 1 .. i : IsFirst(name, Taken(unique, i), k)
  <2>1. i \in Nat \ {0} /\ name \in Names
    <3>1. selection[i] \in Files
      BY DEF n
    <3> QED
      BY <1>1, <3>1 DEF Files
  <2>2. unique[i] = withSuffix(name, first)
    BY <1>5 DEF Name
  <2> HIDE DEF name
  <2>3. IsFirst(name, Taken(unique, i), first)
    BY <2>1, SomeIsFree
  <2> HIDE DEF first
  <2> QED
    BY <2>2, <2>3 DEF IsFirst, IsFree, Taken
<1>7. \A i, j \in 1 .. n : lower(unique[i]) = lower(unique[j]) => i = j
  <2> SUFFICES ASSUME NEW i \in 1 .. n, NEW j \in 1 .. n,
                      lower(unique[i]) = lower(unique[j]), i # j
               PROVE  FALSE
    OBVIOUS
  <2>1. i \in 1 .. (j - 1) \/ j \in 1 .. (i - 1)
    BY <1>1
  <2> QED
    BY <2>1, <1>6
<1>8. DOMAIN unique = 1 .. n
  BY <1>5
<1> QED
  BY <1>3, <1>7, <1>8 DEF unique, n

\* The ZIP has an entry for each file, whatever the case of their names.
LEMMA NoneIsLost ==
  ASSUME NEW selection \in Seq(Files)
  PROVE  Cardinality(Unpacked(packForUpload(selection))) = Len(selection)
<1> DEFINE entries == packForUpload(selection)
           n == Len(selection)
<1>1. n \in Nat
  OBVIOUS
<1>2. /\ DOMAIN entries = 1 .. n
      /\ \A i, j \in 1 .. n : lower(entries[i]) = lower(entries[j]) => i = j
  <2>1. CASE Len(selection) = 1 /\ isZip(selection[1])
    BY <2>1 DEF packForUpload
  <2>2. CASE ~(Len(selection) = 1 /\ isZip(selection[1]))
    <3>1. entries = uniqueNames(selection)
      BY <2>2 DEF packForUpload
    <3> QED
      BY <3>1, UniqueIsDistinct
  <2> QED
    BY <2>1, <2>2
<1> HIDE DEF entries
<1> DEFINE f == [i \in 1 .. n |-> lower(entries[i])]
<1>3. f \in Bijection(1 .. n, Unpacked(entries))
  <2>1. Unpacked(entries) = {lower(entries[i]) : i \in 1 .. n}
    BY <1>2 DEF Unpacked
  <2> HIDE DEF n
  <2> QED
    BY <1>2, <2>1 DEF Bijection, Injection, Surjection, IsInjective
<1> HIDE DEF n
<1>4. IsFiniteSet(1 .. n) /\ Cardinality(1 .. n) = n
  <2>1. /\ IsFiniteSet(1 .. n)
        /\ Cardinality(1 .. n) = IF 1 > n THEN 0 ELSE n - 1 + 1
    <3>1. 1 \in Int /\ n \in Int
      BY <1>1
    <3> QED
      BY <3>1, FS_Interval
  <2> QED
    BY <1>1, <2>1
<1>5. Cardinality(Unpacked(entries)) = Cardinality(1 .. n)
  <2> HIDE DEF f
  <2>1. ExistsBijection(1 .. n, Unpacked(entries))
    BY <1>3 DEF ExistsBijection
  <2> QED
    BY <1>4, <2>1, FS_Bijection
<1> QED
  BY <1>4, <1>5 DEF entries, n

\* The archive holds every file that was accepted (zip-builder.ts): of names that
\* differ in their case alone, or not at all, none takes the place of another.
THEOREM NoFileIsLost ==
  PageSpec => []NoFileIsOverwritten
<1>1. PageIInv => NoFileIsOverwritten
  <2> SUFFICES ASSUME PageIInv, content # Nothing
               PROVE  Cardinality(Unpacked(Entries[content])) = Len(Accepted[content])
    BY DEF NoFileIsOverwritten
  <2>1. content \in Selections
    <3>1. [tech |-> tech, market |-> market, content |-> content] \in Details
      BY DEF PageIInv, PageTypeOK
    <3> QED
      BY <3>1 DEF Details
  <2>2. Accepted[content] \in Seq(Files)
    BY <2>1, FilesAssumption, SplitFiles DEF Accepted
  <2>3. Entries[content] = packForUpload(Accepted[content])
    BY <2>1 DEF Entries
  <2> HIDE DEF Accepted
  <2> QED
    BY <2>2, <2>3, NoneIsLost
<1> QED
  BY <1>1, PageInvariant, PTL
=============================================================================
