--------------------------- MODULE CatalogProofs ---------------------------
(***************************************************************************)
(* Proofs about Catalog, for any wallets, sessions and finite set of       *)
(* requests served at a time, and any bounds.                              *)
(***************************************************************************)
EXTENDS Catalog, FiniteSetTheorems, SequenceTheorems, TLAPS

USE OwnerAssumption, NoSessionAssumption, WindowAssumption, SlotsAssumption, BoundsAssumption

(***************************************************************************)
(* Type correctness                                                        *)
(***************************************************************************)

\* What a request of each kind carries.
LEMMA RequestFields ==
    ASSUME TypeOK, NEW r \in Slots
    PROVE  /\ req[r].op = "login" => /\ req[r].wallet \in Wallets /\ req[r].found \in 0..users
           /\ req[r].op = "read" \/ InHand(r) => req[r].previous \in 0..covers
           /\ InHand(r) => req[r].key \in 1..covers
           /\ req[r].op = "view" => req[r].session \in Visitors
<1>1. req[r] \in Request
  BY DEF TypeOK
<1>2. QED
  BY <1>1 DEF Request, Idle, InHand

\* A request stays one when users and covers are added.
LEMMA RequestsGrow ==
    ASSUME users \in Nat, users' \in Nat, users <= users',
           covers \in Nat, covers' \in Nat, covers <= covers'
    PROVE  Request \subseteq Request'
    BY DEF Request, Idle

\* The slot of a request that goes on, and the others.
LEMMA SlotGoes ==
    ASSUME req \in [Slots -> Request], Request \subseteq Request',
           NEW r \in Slots, NEW state, state \in Request', Goes(r, state)
    PROVE  /\ (req \in [Slots -> Request])'
           /\ req'[r] = state /\ \A q \in Slots : q # r => req'[q] = req[q]
    BY DEF Goes

\* A finished request is a request.
LEMMA IdleRequest == Idle \in Request /\ Idle \in Request'
    BY DEF Request

\* An event recorded now leaves the earlier ones.
LEMMA EventAppends ==
    ASSUME TypeOK, NEW type \in {"archive_view", "archive_download"}, NEW s \in Visitors,
           Event(type, s)
    PROVE  /\ events' \in Seq([type : {"archive_view", "archive_download"}, session : Visitors,
                               at : 0..now])
           /\ Len(events') = Len(events) + 1 /\ Len(events) \in Nat
           /\ events'[Len(events) + 1] = [type |-> type, session |-> s, at |-> now]
           /\ \A i \in 1..Len(events) : events'[i] = events[i]
<1> DEFINE E == [type : {"archive_view", "archive_download"}, session : Visitors, at : 0..now]
<1>1. events \in Seq(E) /\ now \in Nat
  BY DEF TypeOK
<1>2. [type |-> type, session |-> s, at |-> now] \in E
  BY <1>1
<1> HIDE DEF E
<1>3. QED
  BY <1>1, <1>2 DEF Event, E

\* Initially every variable is in its type.
LEMMA TypeInit == Init => TypeOK
<1> SUFFICES ASSUME Init PROVE TypeOK
  OBVIOUS
<1>1. req \in [Slots -> Request]
  BY DEF Init, Request
<1>2. events \in Seq([type : {"archive_view", "archive_download"}, session : Visitors, at : 0..now])
  BY DEF Init
<1>3. QED
  BY <1>1, <1>2 DEF Init, TypeOK, Token, Creator, MarketplaceStatus

\* The types of the parts of the state.
BoundsType == now \in 0..MaxTime /\ requests \in 0..MaxRequests /\ faults \in 0..MaxFaults
CountsType == made \in Nat /\ granted \in Nat /\ users \in Nat /\ covers \in Nat
ChallengesType ==
    challenges \subseteq [id : 1..made, wallet : Wallets, expiresAt : 0..(now + ChallengeTtl)]
UsersType == walletUser \in [Wallets -> 0..users]
TokensType == tokens \subseteq Token /\ revoked \subseteq tokens
StatusType == technical \in {"draft", "ready"} /\ market \in MarketplaceStatus
CoverType == cover \in 0..covers /\ files \subseteq 1..covers /\ doubtful \subseteq 1..covers
EventsType ==
    events \in Seq([type : {"archive_view", "archive_download"}, session : Visitors, at : 0..now])
ReqType == req \in [Slots -> Request]

\* Together they are the type invariant.
LEMMA TypeParts ==
    /\ TypeOK <=> /\ BoundsType /\ CountsType /\ ChallengesType /\ UsersType /\ TokensType
                  /\ StatusType /\ CoverType /\ EventsType /\ ReqType
    /\ TypeOK' <=> /\ BoundsType' /\ CountsType' /\ ChallengesType' /\ UsersType' /\ TokensType'
                   /\ StatusType' /\ CoverType' /\ EventsType' /\ ReqType'
    BY DEF TypeOK, BoundsType, CountsType, ChallengesType, UsersType, TokensType, StatusType,
           CoverType, EventsType, ReqType

\* Time that passes and counters that grow leave what is untouched in its type.
LEMMA TypeFrom ==
    ASSUME TypeOK, BoundsType', CountsType', now <= now', made <= made', users <= users',
           covers <= covers',
           challenges' = challenges \/ ChallengesType',
           walletUser' = walletUser \/ UsersType',
           (tokens' = tokens /\ revoked' = revoked) \/ TokensType',
           (technical' = technical /\ market' = market) \/ StatusType',
           (cover' = cover /\ files' = files /\ doubtful' = doubtful) \/ CoverType',
           events' = events \/ EventsType',
           req' = req \/ ReqType'
    PROVE  TypeOK'
<1>0. /\ BoundsType /\ CountsType /\ ChallengesType /\ UsersType /\ TokensType
      /\ StatusType /\ CoverType /\ EventsType /\ ReqType
  BY TypeParts
<1>1. Request \subseteq Request'
  BY <1>0, RequestsGrow DEF CountsType
<1>2. req' = req => ReqType'
  BY <1>0, <1>1 DEF ReqType
<1>3. tokens' = tokens /\ revoked' = revoked => TokensType'
  BY <1>0 DEF TokensType, Token, BoundsType, CountsType
<1>4. challenges' = challenges => ChallengesType'
  BY <1>0 DEF ChallengesType, BoundsType, CountsType
<1>5. events' = events => EventsType'
  <2> DEFINE E == [type : {"archive_view", "archive_download"}, session : Visitors, at : 0..now]
             F == [type : {"archive_view", "archive_download"}, session : Visitors, at : 0..now']
  <2>1. events \in Seq(E) /\ E \subseteq F
    BY <1>0 DEF EventsType, BoundsType
  <2> HIDE DEF E, F
  <2>2. events \in Seq(F)
    BY <2>1, SeqMonotonic
  <2>3. QED
    BY <2>2 DEF EventsType, F
<1>6. walletUser' = walletUser => UsersType'
  BY <1>0 DEF UsersType, CountsType
<1>7. cover' = cover /\ files' = files /\ doubtful' = doubtful => CoverType'
  BY <1>0 DEF CoverType, CountsType
<1>8. technical' = technical /\ market' = market => StatusType'
  BY <1>0 DEF StatusType
<1>9. QED
  BY <1>1, <1>2, <1>3, <1>4, <1>5, <1>6, <1>7, <1>8, TypeParts

\* A request that arrives, and a fault, are counted within their bounds.
LEMMA BoundsNext ==
    ASSUME BoundsType
    PROVE  /\ UNCHANGED boundVars \/ Arrives \/ Fault => BoundsType' /\ now' = now
           /\ Tick => BoundsType' /\ now <= now'
    BY DEF BoundsType, boundVars, Arrives, Fault, Tick

\* Every step keeps every variable in its type.
LEMMA TypeNext == ASSUME TypeOK, [Next]_vars PROVE TypeOK'
<1> USE DEF authVars, statusVars, coverVars
<1>0. /\ BoundsType /\ CountsType /\ ChallengesType /\ UsersType /\ TokensType
      /\ StatusType /\ CoverType /\ EventsType /\ ReqType
  BY TypeParts
<1>1. now \in Nat /\ made \in Nat /\ users \in Nat /\ covers \in Nat /\ granted \in Nat
  BY <1>0 DEF BoundsType, CountsType
\* Nobody is added, no challenge and no cover made.
<1>2. ASSUME UNCHANGED boundVars \/ Arrives \/ Fault, users' = users, made' = made,
             covers' = covers, granted' \in Nat
      PROVE  /\ BoundsType' /\ CountsType' /\ now <= now' /\ now' = now
             /\ made <= made' /\ users <= users' /\ covers <= covers' /\ Request \subseteq Request'
  <2>1. BoundsType' /\ now' = now
    BY <1>0, <1>2, BoundsNext
  <2>2. CountsType'
    BY <1>1, <1>2 DEF CountsType
  <2>3. QED
    BY <1>1, <1>2, <2>1, <2>2, RequestsGrow
<1>3. ASSUME NEW r \in Slots, Ends(r), users' = users, covers' = covers PROVE ReqType'
  BY <1>0, <1>1, <1>3, RequestsGrow, SlotGoes, IdleRequest DEF Ends, ReqType
<1>4. ASSUME NEW r \in Slots, NEW state, state \in Request', Starts(r, state) \/ Goes(r, state),
             users' = users, covers' = covers
      PROVE  ReqType'
  BY <1>0, <1>1, <1>4, RequestsGrow, SlotGoes DEF Starts, Goes, ReqType
<1>5. CASE UNCHANGED vars
  BY <1>1, <1>2, <1>5, TypeFrom DEF vars
<1>6. CASE Tick
  BY <1>0, <1>1, <1>6, BoundsNext, TypeFrom DEF Tick, CountsType
<1>7. ASSUME NEW w \in Wallets, CreateChallenge(w) PROVE TypeOK'
  <2>1. BoundsType' /\ now' = now
    BY <1>0, <1>7, BoundsNext DEF CreateChallenge
  <2>2. made' = made + 1 /\ CountsType'
    BY <1>1, <1>7 DEF CreateChallenge, CountsType
  <2>3. ChallengesType'
    BY <1>0, <1>1, <1>7, <2>1 DEF CreateChallenge, ChallengesType
  <2>4. QED
    BY <1>1, <1>7, <2>1, <2>2, <2>3, TypeFrom DEF CreateChallenge
<1>8. ASSUME NEW r \in Slots, NEW c \in challenges, VerifyChallenge(r, c) PROVE TypeOK'
  <2>1. /\ Arrives /\ UNCHANGED <<users, made, granted, covers>>
        /\ req' = req \/ Starts(r, [op |-> "login", wallet |-> c.wallet,
                                    found |-> walletUser[c.wallet]])
    BY <1>8 DEF VerifyChallenge, Starts
  <2>2. [op |-> "login", wallet |-> c.wallet, found |-> walletUser[c.wallet]] \in Request'
    BY <1>0, <2>1 DEF Request, ChallengesType, UsersType
  <2>3. req' = req \/ ReqType'
    BY <1>4, <2>1, <2>2
  <2>4. ChallengesType'
    BY <1>0, <1>1, <1>2, <1>8, <2>1 DEF VerifyChallenge, ChallengesType
  <2>5. QED
    BY <1>1, <1>2, <1>8, <2>1, <2>3, <2>4, TypeFrom DEF VerifyChallenge
<1>9. ASSUME NEW r \in Slots, KnownWallet(r) PROVE TypeOK'
  <2>1. /\ UNCHANGED boundVars /\ UNCHANGED <<users, made, covers>> /\ granted' = granted + 1
        /\ Ends(r) /\ revoked' = revoked
        /\ tokens' = tokens \cup {[user |-> req[r].found, wallet |-> req[r].wallet, iat |-> now]}
    BY <1>9 DEF KnownWallet, Login
  <2>2. req[r].wallet \in Wallets /\ req[r].found \in 1..users
    BY <1>1, <1>9, RequestFields DEF KnownWallet
  <2>3. TokensType' /\ ReqType'
    BY <1>0, <1>1, <1>2, <1>3, <2>1, <2>2 DEF TokensType, Token
  <2>4. QED
    BY <1>1, <1>2, <1>9, <2>1, <2>3, TypeFrom DEF KnownWallet
<1>10. ASSUME NEW r \in Slots, NewWallet(r) PROVE TypeOK'
  <2>1. UNCHANGED boundVars /\ UNCHANGED <<made, covers>> /\ Ends(r) /\ revoked' = revoked
    BY <1>10 DEF NewWallet, Login
  <2>2. req[r].wallet \in Wallets /\ BoundsType' /\ now' = now
    BY <1>0, <1>10, <2>1, RequestFields, BoundsNext DEF NewWallet
  <2>3. CASE UNCHANGED <<users, walletUser, tokens, granted>>
    BY <1>1, <1>2, <1>3, <1>10, <2>1, <2>3, TypeFrom DEF NewWallet
  <2>4. CASE /\ users' = users + 1 /\ granted' = granted + 1
             /\ walletUser' = [walletUser EXCEPT ![req[r].wallet] = users + 1]
             /\ tokens' = tokens \cup {[user |-> users + 1, wallet |-> req[r].wallet, iat |-> now]}
    <3>1. CountsType' /\ Request \subseteq Request'
      BY <1>1, <2>1, <2>4, RequestsGrow DEF CountsType
    <3>2. ReqType'
      BY <1>0, <2>1, <3>1, SlotGoes, IdleRequest DEF Ends, ReqType
    <3>3. UsersType'
      BY <1>0, <1>1, <2>2, <2>4 DEF UsersType
    <3>4. TokensType'
      BY <1>0, <1>1, <2>1, <2>2, <2>4 DEF TokensType, Token
    <3>5. QED
      BY <1>1, <1>10, <2>1, <2>2, <2>4, <3>1, <3>2, <3>3, <3>4, TypeFrom DEF NewWallet
  <2>5. QED
    BY <1>10, <2>3, <2>4 DEF NewWallet, Login
<1>11. ASSUME NEW t \in tokens, Logout(t) PROVE TypeOK'
  <2>1. TokensType'
    BY <1>0, <1>2, <1>1, <1>11 DEF Logout, TokensType, Token
  <2>2. QED
    BY <1>1, <1>2, <1>11, <2>1, TypeFrom DEF Logout
<1>12. CASE ContentReady \/ Unpublish \/ BlockArchive
  <2>1. StatusType'
    BY <1>0, <1>12 DEF ContentReady, Unpublish, BlockArchive, StatusType, MarketplaceStatus
  <2>2. /\ UNCHANGED <<authVars, coverVars, events, req>>
        /\ UNCHANGED boundVars \/ Arrives \/ Fault
    BY <1>12 DEF ContentReady, Unpublish, BlockArchive
  <2>3. QED
    BY <1>1, <1>2, <2>1, <2>2, TypeFrom
<1>13. ASSUME NEW r \in Slots, Publish(r) PROVE TypeOK'
  <2>1. [op |-> "publish", seen |-> market] \in Request'
    BY <1>0 DEF Request, StatusType
  <2>2. QED
    BY <1>1, <1>2, <1>4, <1>13, <2>1, TypeFrom DEF Publish, Starts
<1>14. ASSUME NEW r \in Slots, PublishWrite(r) PROVE TypeOK'
  <2>1. StatusType'
    BY <1>0, <1>14 DEF PublishWrite, StatusType, MarketplaceStatus
  <2>2. QED
    BY <1>1, <1>2, <1>3, <1>14, <2>1, TypeFrom DEF PublishWrite
<1>15. ASSUME NEW r \in Slots, ReplaceCover(r) PROVE TypeOK'
  <2>1. [op |-> "read", previous |-> cover] \in Request'
    BY <1>0, <1>15 DEF Request, CoverType, ReplaceCover
  <2>2. QED
    BY <1>1, <1>2, <1>4, <1>15, <2>1, TypeFrom DEF ReplaceCover, Starts
<1>16. ASSUME NEW r \in Slots, StoreCover(r) PROVE TypeOK'
  <2>1. UNCHANGED boundVars /\ UNCHANGED authVars /\ covers' = covers + 1
    BY <1>16 DEF StoreCover
  <2>2. BoundsType' /\ now' = now /\ CountsType' /\ Request \subseteq Request'
    BY <1>0, <1>1, <2>1, BoundsNext, RequestsGrow DEF CountsType
  <2>3. [op |-> "stored", previous |-> req[r].previous, key |-> covers + 1] \in Request'
    BY <1>1, <1>16, <2>1, RequestFields DEF Request, StoreCover
  <2>4. ReqType'
    BY <1>0, <1>16, <2>2, <2>3, SlotGoes DEF StoreCover, ReqType
  <2>5. CoverType'
    <3>1. files' = files \cup {covers + 1} /\ cover' = cover /\ doubtful' = doubtful
      BY <1>16 DEF StoreCover
    <3>2. covers + 1 \in 1..covers' /\ 1..covers \subseteq 1..covers' /\ 0..covers \subseteq 0..covers'
      BY <1>1, <2>1
    <3>3. QED
      BY <1>0, <3>1, <3>2 DEF CoverType
  <2>6. QED
    BY <1>1, <1>16, <2>1, <2>2, <2>4, <2>5, TypeFrom DEF StoreCover
<1>17. ASSUME NEW r \in Slots, SwitchCover(r) \/ SwitchCoverFails(r) PROVE TypeOK'
  <2>1. /\ UNCHANGED boundVars \/ Arrives \/ Fault
        /\ UNCHANGED <<authVars, statusVars, covers, files, events>>
        /\ req[r].op = "stored"
        /\ cover' \in {cover, req[r].key} /\ doubtful' \subseteq doubtful \cup {req[r].key}
        /\ Goes(r, [req[r] EXCEPT !.op = "switched"]) \/ Goes(r, [req[r] EXCEPT !.op = "undo"])
    <3>1. CASE SwitchCover(r)
      <4>1. cover' \in {cover, req[r].key} /\ doubtful' = doubtful
        BY <3>1 DEF SwitchCover
      <4>2. QED
        BY <3>1, <4>1 DEF SwitchCover
    <3>2. CASE SwitchCoverFails(r)
      <4>1. cover' \in {cover, req[r].key} /\ doubtful' \subseteq doubtful \cup {req[r].key}
        BY <3>2 DEF SwitchCoverFails
      <4>2. QED
        BY <3>2, <4>1 DEF SwitchCoverFails
    <3>3. QED
      BY <1>17, <3>1, <3>2
  <2>2. PICK q : q = req[r]
    OBVIOUS
  <2>3. q \in [op : {"stored", "switched", "undo"}, previous : 0..covers, key : 1..covers]
    BY <1>0, <2>1, <2>2 DEF ReqType, Request, Idle
  <2>4. [q EXCEPT !.op = "switched"] \in Request' /\ [q EXCEPT !.op = "undo"] \in Request'
    BY <2>1, <2>3 DEF Request
  <2>5. ReqType'
    BY <1>4, <2>1, <2>2, <2>4
  <2>6. CoverType'
    BY <1>0, <1>1, <2>1, <2>2, <2>3 DEF CoverType
  <2>7. QED
    BY <1>1, <1>2, <2>1, <2>5, <2>6, TypeFrom
<1>18. ASSUME NEW r \in Slots, RemoveCover(r) PROVE TypeOK'
  <2>1. CoverType'
    BY <1>0, <1>18 DEF RemoveCover, CoverType
  <2>2. QED
    BY <1>1, <1>2, <1>3, <1>18, <2>1, TypeFrom DEF RemoveCover
<1>19. ASSUME NEW r \in Slots, NEW s \in Visitors, ViewArchive(r, s) PROVE TypeOK'
  <2>1. [op |-> "view", session |-> s] \in Request'
    BY DEF Request
  <2>2. /\ Arrives /\ UNCHANGED <<authVars, statusVars, coverVars, events>>
        /\ req' = req \/ Starts(r, [op |-> "view", session |-> s])
    BY <1>19 DEF ViewArchive, Starts
  <2>3. QED
    BY <1>1, <1>2, <1>4, <2>1, <2>2, TypeFrom
<1>20. ASSUME NEW r \in Slots, RecordView(r) PROVE TypeOK'
  <2>1. req[r].session \in Visitors /\ Event("archive_view", req[r].session)
    BY <1>20, RequestFields DEF RecordView
  <2>2. EventsType'
    BY <1>2, <1>1, <1>20, <2>1, EventAppends DEF RecordView, EventsType
  <2>3. QED
    BY <1>1, <1>2, <1>3, <1>20, <2>2, TypeFrom DEF RecordView
<1>21. ASSUME NEW s \in Visitors, Download(s) PROVE TypeOK'
  <2>1. EventsType'
    BY <1>1, <1>2, <1>21, EventAppends DEF Download, EventsType
  <2>2. QED
    BY <1>1, <1>2, <1>21, <2>1, TypeFrom DEF Download
<1>22. ASSUME NEW r \in Slots, RequestFails(r) PROVE TypeOK'
  BY <1>1, <1>2, <1>3, <1>22, TypeFrom DEF RequestFails
<1>23. CASE Restart
  <2>1. ReqType' /\ ChallengesType' /\ TokensType'
    BY <1>0, <1>1, <1>2, <1>23, IdleRequest
       DEF Restart, ReqType, ChallengesType, TokensType, Token
  <2>2. QED
    BY <1>1, <1>2, <1>23, <2>1, TypeFrom DEF Restart
<1>24. QED
  BY <1>5, <1>6, <1>7, <1>8, <1>9, <1>10, <1>11, <1>12, <1>13, <1>14, <1>15, <1>16,
     <1>17, <1>18, <1>19, <1>20, <1>21, <1>22, <1>23 DEF Next, Serve

(***************************************************************************)
(* Logins                                                                  *)
(***************************************************************************)

\* The slots after a request goes on.
LEMMA SlotsGo ==
    ASSUME TypeOK, NEW r \in Slots, NEW state, Goes(r, state)
    PROVE  req'[r] = state /\ \A q \in Slots : q # r => req'[q] = req[q]
    BY DEF Goes, TypeOK

Verifying == {r \in Slots : req[r].op = "login"}

\* A step that leaves the logins alone, or lets one fail.
AuthAlone ==
    /\ UNCHANGED <<challenges, made, granted, users, walletUser, tokens>>
    /\ \A r \in Slots : req'[r].op = "login" => req'[r] = req[r]

\* The steps of a login are few.
LEMMA AuthOrAlone ==
    ASSUME TypeOK, [Next]_vars
    PROVE  \/ AuthAlone
           \/ \E w \in Wallets : CreateChallenge(w)
           \/ \E r \in Slots, c \in challenges : VerifyChallenge(r, c)
           \/ \E r \in Slots : KnownWallet(r) \/ NewWallet(r)
           \/ Restart
<1> USE DEF authVars
<1>1. CASE \/ UNCHANGED vars \/ Tick \/ ContentReady \/ Unpublish \/ BlockArchive
           \/ \E t \in tokens : Logout(t)
           \/ \E s \in Visitors : Download(s)
  <2>1. UNCHANGED <<challenges, made, granted, users, walletUser, tokens, req>>
    BY <1>1 DEF vars, Tick, ContentReady, Unpublish, BlockArchive, Logout, Download
  <2>2. QED
    BY <2>1 DEF AuthAlone
<1>2. ASSUME NEW r \in Slots, NEW state, Goes(r, state), state.op # "login",
             UNCHANGED <<challenges, made, granted, users, walletUser, tokens>>
      PROVE  AuthAlone
  BY <1>2, SlotsGo DEF AuthAlone
<1>3. ASSUME NEW r \in Slots,
             Publish(r) \/ PublishWrite(r) \/ ReplaceCover(r) \/ StoreCover(r) \/ RemoveCover(r)
             \/ RecordView(r) \/ RequestFails(r)
      PROVE  AuthAlone
  <2>1. UNCHANGED <<challenges, made, granted, users, walletUser, tokens>>
    BY <1>3 DEF Publish, PublishWrite, ReplaceCover, StoreCover, RemoveCover, RecordView,
                RequestFails
  <2>2. \/ Goes(r, [op |-> "publish", seen |-> market]) \/ Goes(r, Idle)
        \/ Goes(r, [op |-> "read", previous |-> cover])
        \/ Goes(r, [op |-> "stored", previous |-> req[r].previous, key |-> covers + 1])
    BY <1>3 DEF Publish, PublishWrite, ReplaceCover, StoreCover, RemoveCover, RecordView,
                RequestFails, Starts, Ends, Goes
  <2>3. QED
    BY <1>2, <2>1, <2>2 DEF Idle
<1>4. ASSUME NEW r \in Slots, SwitchCover(r) \/ SwitchCoverFails(r) PROVE AuthAlone
  <2>1. UNCHANGED <<challenges, made, granted, users, walletUser, tokens>>
        /\ req[r].op = "stored"
    BY <1>4 DEF SwitchCover, SwitchCoverFails
  <2>2. Goes(r, [req[r] EXCEPT !.op = "switched"]) \/ Goes(r, [req[r] EXCEPT !.op = "undo"])
    BY <1>4 DEF SwitchCover, SwitchCoverFails
  <2>3. PICK q : q = req[r]
    OBVIOUS
  <2>4. q \in [op : {"stored", "switched", "undo"}, previous : 0..covers, key : 1..covers]
    BY <2>1, <2>3 DEF TypeOK, Request, Idle
  <2>5. [q EXCEPT !.op = "switched"].op # "login" /\ [q EXCEPT !.op = "undo"].op # "login"
    BY <2>4
  <2>6. QED
    BY <1>2, <2>1, <2>2, <2>3, <2>5
<1>5. ASSUME NEW r \in Slots, NEW s \in Visitors, ViewArchive(r, s) PROVE AuthAlone
  <2>1. UNCHANGED <<challenges, made, granted, users, walletUser, tokens>>
        /\ (req' = req \/ Goes(r, [op |-> "view", session |-> s]))
    BY <1>5 DEF ViewArchive, Starts, Goes
  <2>2. req' = req => AuthAlone
    BY <2>1 DEF AuthAlone
  <2>3. QED
    BY <1>2, <2>1, <2>2
<1>6. QED
  BY <1>1, <1>3, <1>4, <1>5 DEF Next, Serve

\* The requests that verify a challenge, when one begins or ends.
LEMMA VerifyingMoves ==
    ASSUME TypeOK, NEW r \in Slots, NEW state, Goes(r, state)
    PROVE  /\ IsFiniteSet(Verifying) /\ Cardinality(Verifying) \in Nat
           /\ IsFiniteSet(Verifying') /\ Cardinality(Verifying') \in Nat
           /\ req[r].op = "login" /\ state.op # "login" =>
                  Cardinality(Verifying') = Cardinality(Verifying) - 1
           /\ req[r].op # "login" /\ state.op = "login" =>
                  Cardinality(Verifying') = Cardinality(Verifying) + 1
<1>1. IsFiniteSet(Verifying) /\ IsFiniteSet(Verifying')
  BY FS_Subset DEF Verifying
<1>2. req'[r] = state /\ \A q \in Slots : q # r => req'[q] = req[q]
  BY SlotsGo
<1>3. req[r].op = "login" /\ state.op # "login" => Verifying' = Verifying \ {r} /\ r \in Verifying
  BY <1>2 DEF Verifying
<1>4. req[r].op # "login" /\ state.op = "login" => Verifying' = Verifying \cup {r} /\ r \notin Verifying
  BY <1>2 DEF Verifying
<1>5. QED
  BY <1>1, <1>3, <1>4, FS_CardinalityType, FS_AddElement, FS_RemoveElement

\* The parts of LoginsAreAccounted, and that the first needs FoundInv.
TokensInv == \A t \in tokens : walletUser[t.wallet] = t.user
UsersInv == \A u \in 1..users : \E w \in Wallets : \A x \in Wallets : walletUser[x] = u <=> x = w
CountInv == granted + Cardinality(Verifying) + Cardinality(challenges) <= made

\* LoginsAreAccounted is the conjunction of its parts.
LEMMA LoginParts ==
    /\ LoginsAreAccounted <=> TokensInv /\ UsersInv /\ CountInv
    /\ LoginsAreAccounted' <=> TokensInv' /\ UsersInv' /\ CountInv'
    BY DEF LoginsAreAccounted, TokensInv, UsersInv, CountInv, Verifying

\* Every login stays accounted for, also after the step.
LEMMA AuthNext ==
    ASSUME IInv, [Next]_vars
    PROVE  FoundInv' /\ ChallengesInv' /\ LoginsAreAccounted'
<1>0. /\ TypeOK /\ FoundInv /\ IsFiniteSet(challenges) /\ TokensInv /\ UsersInv /\ CountInv
  BY LoginParts DEF IInv, ChallengesInv
<1>1. /\ made \in Nat /\ granted \in Nat /\ users \in Nat /\ Cardinality(challenges) \in Nat
      /\ IsFiniteSet(Verifying) /\ Cardinality(Verifying) \in Nat
      /\ walletUser \in [Wallets -> 0..users]
  BY <1>0, FS_CardinalityType, FS_Subset DEF TypeOK, Verifying
<1>2. CASE AuthAlone
  <2>1. FoundInv' /\ ChallengesInv' /\ TokensInv' /\ UsersInv'
    BY <1>0, <1>2 DEF AuthAlone, FoundInv, ChallengesInv, TokensInv, UsersInv
  <2>2. Verifying' \subseteq Verifying
    BY <1>2 DEF AuthAlone, Verifying
  <2>3. Cardinality(Verifying') <= Cardinality(Verifying) /\ Cardinality(Verifying') \in Nat
    BY <1>1, <2>2, FS_Subset, FS_CardinalityType
  <2>4. CountInv'
    BY <1>0, <1>1, <1>2, <2>3 DEF AuthAlone, CountInv
  <2>5. QED
    BY <2>1, <2>4, LoginParts
<1>3. ASSUME NEW w \in Wallets, CreateChallenge(w)
      PROVE  FoundInv' /\ ChallengesInv' /\ LoginsAreAccounted'
  <2>1. UNCHANGED <<req, granted, users, walletUser, tokens>> /\ made' = made + 1
    BY <1>3 DEF CreateChallenge
  <2>2. PICK c : challenges' = challenges \cup {c}
    BY <1>3 DEF CreateChallenge
  <2>3. /\ IsFiniteSet(challenges') /\ Cardinality(challenges') \in Nat
        /\ Cardinality(challenges') <= Cardinality(challenges) + 1
    <3>1. /\ IsFiniteSet(challenges \cup {c})
          /\ Cardinality(challenges \cup {c}) =
                 IF c \in challenges THEN Cardinality(challenges) ELSE Cardinality(challenges) + 1
      BY <1>0, FS_AddElement
    <3>2. QED
      BY <1>1, <2>2, <3>1
  <2>4. Verifying' = Verifying
    BY <2>1 DEF Verifying
  <2>5. CountInv'
    BY <1>0, <1>1, <2>1, <2>3, <2>4 DEF CountInv
  <2>6. FoundInv' /\ ChallengesInv' /\ TokensInv' /\ UsersInv'
    BY <1>0, <2>1, <2>3 DEF FoundInv, ChallengesInv, TokensInv, UsersInv
  <2>7. QED
    BY <2>5, <2>6, LoginParts
<1>4. ASSUME NEW r \in Slots, NEW c \in challenges, VerifyChallenge(r, c)
      PROVE  FoundInv' /\ ChallengesInv' /\ LoginsAreAccounted'
  <2>1. UNCHANGED <<made, granted, users, walletUser, tokens>> /\ challenges' = challenges \ {c}
    BY <1>4 DEF VerifyChallenge
  <2>2. /\ IsFiniteSet(challenges') /\ Cardinality(challenges') = Cardinality(challenges) - 1
        /\ Cardinality(challenges') \in Nat
    BY <1>0, <2>1, FS_RemoveElement, FS_CardinalityType
  <2>3. TokensInv' /\ UsersInv' /\ ChallengesInv'
    BY <1>0, <2>1, <2>2 DEF TokensInv, UsersInv, ChallengesInv
  <2>4. CASE UNCHANGED req
    <3>1. Verifying' = Verifying /\ FoundInv'
      BY <1>0, <2>1, <2>4 DEF Verifying, FoundInv
    <3>2. CountInv'
      BY <1>0, <1>1, <2>1, <2>2, <3>1 DEF CountInv
    <3>3. QED
      BY <2>3, <3>1, <3>2, LoginParts
  <2>5. CASE Starts(r, [op |-> "login", wallet |-> c.wallet, found |-> walletUser[c.wallet]])
    <3>1. req[r].op = "idle" /\ Goes(r, [op |-> "login", wallet |-> c.wallet,
                                        found |-> walletUser[c.wallet]])
      BY <2>5 DEF Starts, Goes, Idle
    <3>2. Cardinality(Verifying') = Cardinality(Verifying) + 1
      BY <1>0, <3>1, VerifyingMoves
    <3>3. FoundInv'
      BY <1>0, <2>1, <3>1, SlotsGo DEF FoundInv
    <3>4. CountInv'
      BY <1>0, <1>1, <2>1, <2>2, <3>2 DEF CountInv
    <3>5. QED
      BY <2>3, <3>3, <3>4, LoginParts
  <2>6. QED
    BY <1>4, <2>4, <2>5 DEF VerifyChallenge
<1>5. ASSUME NEW r \in Slots, KnownWallet(r)
      PROVE  FoundInv' /\ ChallengesInv' /\ LoginsAreAccounted'
  <2>1. /\ UNCHANGED <<made, users, walletUser, challenges>> /\ granted' = granted + 1
        /\ Goes(r, Idle) /\ req[r].op = "login" /\ req[r].found # 0
        /\ tokens' = tokens \cup {[user |-> req[r].found, wallet |-> req[r].wallet, iat |-> now]}
    BY <1>5 DEF KnownWallet, Login, Ends
  <2>2. Cardinality(Verifying') = Cardinality(Verifying) - 1
    BY <1>0, <2>1, VerifyingMoves DEF Idle
  <2>3. FoundInv'
    BY <1>0, <2>1, SlotsGo DEF FoundInv, Idle
  <2>4. TokensInv'
    BY <1>0, <2>1 DEF FoundInv, TokensInv
  <2>5. CountInv' /\ UsersInv' /\ ChallengesInv'
    BY <1>0, <1>1, <2>1, <2>2 DEF CountInv, UsersInv, ChallengesInv
  <2>6. QED
    BY <2>3, <2>4, <2>5, LoginParts
<1>6. ASSUME NEW r \in Slots, NewWallet(r)
      PROVE  FoundInv' /\ ChallengesInv' /\ LoginsAreAccounted'
  <2>1. UNCHANGED <<made, challenges>> /\ Goes(r, Idle) /\ req[r].op = "login"
    BY <1>6 DEF NewWallet, Login, Ends
  <2>2. Cardinality(Verifying') = Cardinality(Verifying) - 1
    BY <1>0, <2>1, VerifyingMoves DEF Idle
  <2>3. CASE UNCHANGED <<users, walletUser, tokens, granted>>
    <3>1. FoundInv'
      BY <1>0, <2>1, <2>3, SlotsGo DEF FoundInv, Idle
    <3>2. TokensInv' /\ CountInv' /\ UsersInv' /\ ChallengesInv'
      BY <1>0, <1>1, <2>1, <2>2, <2>3 DEF TokensInv, CountInv, UsersInv, ChallengesInv
    <3>3. QED
      BY <3>1, <3>2, LoginParts
  <2>4. CASE /\ walletUser[req[r].wallet] = 0 /\ users' = users + 1 /\ granted' = granted + 1
             /\ walletUser' = [walletUser EXCEPT ![req[r].wallet] = users + 1]
             /\ tokens' = tokens \cup {[user |-> users + 1, wallet |-> req[r].wallet, iat |-> now]}
    <3>1. req[r].wallet \in Wallets
      BY <1>0, <2>1, RequestFields
    <3>2. /\ walletUser'[req[r].wallet] = users + 1
          /\ \A x \in Wallets : x # req[r].wallet => walletUser'[x] = walletUser[x]
      BY <1>1, <2>4, <3>1
    <3>3. FoundInv'
      <4>1. ASSUME NEW q \in Slots, req'[q].op = "login", req'[q].found # 0
            PROVE  walletUser'[req'[q].wallet] = req'[q].found
        <5>1. req'[q] = req[q]
          BY <1>0, <2>1, <4>1, SlotsGo DEF Idle
        <5>2. req[q].wallet \in Wallets /\ walletUser[req[q].wallet] = req[q].found
          BY <1>0, <4>1, <5>1, RequestFields DEF FoundInv
        <5>3. QED
          BY <2>4, <3>2, <4>1, <5>1, <5>2
      <4>2. QED
        BY <4>1 DEF FoundInv
    <3>4. TokensInv'
      <4>1. ASSUME NEW t \in tokens PROVE walletUser'[t.wallet] = t.user
        <5>1. t.wallet \in Wallets /\ t.user # 0 /\ walletUser[t.wallet] = t.user
          BY <1>0, <1>1 DEF TypeOK, Token, TokensInv
        <5>2. QED
          BY <2>4, <3>2, <5>1
      <4>2. QED
        BY <2>4, <3>2, <4>1 DEF TokensInv
    <3>5. UsersInv'
      <4>1. ASSUME NEW u \in 1..users
            PROVE  \E w \in Wallets : \A x \in Wallets : walletUser'[x] = u <=> x = w
        <5>1. PICK w \in Wallets : \A x \in Wallets : walletUser[x] = u <=> x = w
          BY <1>0 DEF UsersInv
        <5>2. w # req[r].wallet
          BY <2>4, <3>1, <5>1
        <5>3. \A x \in Wallets : walletUser'[x] = u <=> x = w
          BY <1>1, <3>1, <3>2, <5>1, <5>2
        <5>4. QED
          BY <5>3
      <4>2. \A x \in Wallets : walletUser'[x] = users + 1 <=> x = req[r].wallet
        BY <1>1, <3>1, <3>2
      <4>3. QED
        BY <1>1, <2>4, <3>1, <4>1, <4>2 DEF UsersInv
    <3>6. CountInv' /\ ChallengesInv'
      BY <1>0, <1>1, <2>1, <2>2, <2>4 DEF CountInv, ChallengesInv
    <3>7. QED
      BY <3>3, <3>4, <3>5, <3>6, LoginParts
  <2>5. QED
    BY <1>6, <2>3, <2>4 DEF NewWallet, Login
<1>7. CASE Restart
  <2>1. /\ UNCHANGED <<made, granted, users, walletUser, tokens>> /\ challenges' = {}
        /\ req' = [r \in Slots |-> Idle]
    BY <1>7 DEF Restart
  <2>2. Verifying' = {} /\ FoundInv'
    BY <2>1 DEF Verifying, FoundInv, Idle
  <2>3. TokensInv' /\ UsersInv' /\ ChallengesInv' /\ CountInv'
    BY <1>0, <1>1, <2>1, <2>2, FS_EmptySet DEF TokensInv, UsersInv, ChallengesInv, CountInv
  <2>4. QED
    BY <2>2, <2>3, LoginParts
<1>8. QED
  BY <1>0, <1>2, <1>3, <1>4, <1>5, <1>6, <1>7, AuthOrAlone

(***************************************************************************)
(* The cover                                                               *)
(***************************************************************************)

ServedInv == cover # 0 /\ cover \notin doubtful => cover \in files

\* A step that leaves the cover and its replacements alone, or lets a
\* replacement fail that has only read.
CoverAlone ==
    /\ UNCHANGED <<cover, files, doubtful>> /\ faults' \in {faults, faults + 1}
    /\ \A r \in Slots : req'[r].op = "read" \/ InHand(r)' \/ InHand(r) => req'[r] = req[r]

\* How a replacement of the cover goes on.
CoverStep(r) ==
    \/ /\ Goes(r, [op |-> "read", previous |-> cover]) /\ req[r] = Idle
       /\ UNCHANGED <<cover, files, doubtful, faults>>
    \/ /\ Goes(r, [op |-> "stored", previous |-> req[r].previous, key |-> covers + 1])
       /\ req[r].op = "read" /\ files' = files \cup {covers + 1}
       /\ UNCHANGED <<cover, doubtful, faults>>
    \/ /\ Goes(r, [op |-> "switched", previous |-> req[r].previous, key |-> req[r].key])
       /\ req[r].op = "stored" /\ cover = req[r].previous /\ cover' = req[r].key
       /\ UNCHANGED <<files, doubtful, faults>>
    \/ /\ Goes(r, [op |-> "undo", previous |-> req[r].previous, key |-> req[r].key])
       /\ req[r].op = "stored" /\ faults' \in {faults, faults + 1}
       /\ UNCHANGED <<cover, files, doubtful>>
    \/ /\ Goes(r, [op |-> "undo", previous |-> req[r].previous, key |-> req[r].key])
       /\ req[r].op = "stored" /\ cover = req[r].previous /\ cover' = req[r].key
       /\ doubtful' = doubtful \cup {req[r].key}
       /\ faults' = faults + 1 /\ UNCHANGED files
    \/ /\ Goes(r, Idle) /\ req[r].op \in {"switched", "undo"}
       /\ \/ files' = files \ Removes(r) /\ UNCHANGED faults
          \/ faults' = faults + 1 /\ UNCHANGED files
       /\ UNCHANGED <<cover, doubtful>>

\* The steps of a replacement are few.
LEMMA CoverOrAlone ==
    ASSUME TypeOK, [Next]_vars
    PROVE  CoverAlone \/ (\E r \in Slots : CoverStep(r)) \/ Restart
<1> USE DEF coverVars, boundVars
<1>1. CASE UNCHANGED vars \/ Tick \/ ContentReady
  <2>1. UNCHANGED <<cover, files, doubtful, faults, req>>
    BY <1>1 DEF vars, Tick, ContentReady
  <2>2. QED
    BY <2>1 DEF CoverAlone, InHand
<1>2. CASE \/ Unpublish \/ BlockArchive \/ \E t \in tokens : Logout(t)
           \/ \E s \in Visitors : Download(s)
           \/ \E w \in Wallets : CreateChallenge(w)
  <2>1. UNCHANGED <<cover, files, doubtful, faults, req>>
    BY <1>2 DEF Unpublish, BlockArchive, Logout, Download, CreateChallenge, Arrives
  <2>2. QED
    BY <2>1 DEF CoverAlone, InHand
<1>3. ASSUME NEW r \in Slots, NEW state, Goes(r, state), ~InHand(r),
             state.op \notin {"read", "stored", "switched", "undo"},
             UNCHANGED <<cover, files, doubtful, faults>>
      PROVE  CoverAlone
  BY <1>3, SlotsGo DEF CoverAlone, InHand
<1>4. ASSUME NEW r \in Slots, NEW c \in challenges, VerifyChallenge(r, c) PROVE CoverAlone
  <2>1. UNCHANGED <<cover, files, doubtful, faults>>
    BY <1>4 DEF VerifyChallenge, Starts, Arrives
  <2>2. \/ UNCHANGED req
        \/ /\ req[r] = Idle
           /\ Goes(r, [op |-> "login", wallet |-> c.wallet, found |-> walletUser[c.wallet]])
    BY <1>4 DEF VerifyChallenge, Starts, Goes
  <2>3. UNCHANGED req => CoverAlone
    BY <2>1 DEF CoverAlone, InHand
  <2>4. QED
    BY <1>3, <2>1, <2>2, <2>3 DEF InHand, Idle
<1>5. ASSUME NEW r \in Slots, NEW s \in Visitors, ViewArchive(r, s) PROVE CoverAlone
  <2>1. UNCHANGED <<cover, files, doubtful, faults>>
    BY <1>5 DEF ViewArchive, Starts, Arrives
  <2>2. UNCHANGED req \/ (req[r] = Idle /\ Goes(r, [op |-> "view", session |-> s]))
    BY <1>5 DEF ViewArchive, Starts, Goes
  <2>3. UNCHANGED req => CoverAlone
    BY <2>1 DEF CoverAlone, InHand
  <2>4. QED
    BY <1>3, <2>1, <2>2, <2>3 DEF InHand, Idle
<1>6. ASSUME NEW r \in Slots,
             KnownWallet(r) \/ NewWallet(r) \/ Publish(r) \/ PublishWrite(r) \/ RecordView(r)
             \/ RequestFails(r)
      PROVE  CoverAlone
  <2>1. UNCHANGED <<cover, files, doubtful, faults>>
    BY <1>6 DEF KnownWallet, NewWallet, Publish, PublishWrite, RecordView, RequestFails,
                Starts, Arrives
  <2>2. Goes(r, Idle) \/ Goes(r, [op |-> "publish", seen |-> market])
    BY <1>6 DEF KnownWallet, NewWallet, Publish, PublishWrite, RecordView, RequestFails,
                Login, Ends, Starts, Goes
  <2>3. req[r].op \in {"idle", "login", "publish", "read", "view"}
    BY <1>6 DEF KnownWallet, NewWallet, Publish, PublishWrite, RecordView, RequestFails,
                Starts, Idle
  <2>4. QED
    BY <1>3, <2>1, <2>2, <2>3 DEF InHand, Idle
<1>7. ASSUME NEW r \in Slots, ReplaceCover(r) \/ StoreCover(r) PROVE CoverStep(r)
  BY <1>7 DEF ReplaceCover, StoreCover, Starts, Arrives, Goes, CoverStep
<1>8. ASSUME NEW r \in Slots, SwitchCover(r) \/ SwitchCoverFails(r) PROVE CoverStep(r)
  <2>1. PICK q : q = req[r]
    OBVIOUS
  <2>2. q \in [op : {"stored", "switched", "undo"}, previous : 0..covers, key : 1..covers]
    BY <1>8, <2>1 DEF SwitchCover, SwitchCoverFails, TypeOK, Request, Idle
  <2>3. /\ [q EXCEPT !.op = "switched"] =
               [op |-> "switched", previous |-> q.previous, key |-> q.key]
        /\ [q EXCEPT !.op = "undo"] = [op |-> "undo", previous |-> q.previous, key |-> q.key]
    BY <2>2
  <2>4. CASE SwitchCover(r)
    BY <2>1, <2>3, <2>4 DEF SwitchCover, CoverStep
  <2>5. CASE SwitchCoverFails(r)
    BY <2>1, <2>3, <2>5 DEF SwitchCoverFails, Fault, CoverStep
  <2>6. QED
    BY <1>8, <2>4, <2>5
<1>9. ASSUME NEW r \in Slots, RemoveCover(r) PROVE CoverStep(r)
  BY <1>9 DEF RemoveCover, Removed, Removes, InHand, Ends, Fault, CoverStep
<1>10. QED
  BY <1>1, <1>2, <1>4, <1>5, <1>6, <1>7, <1>8, <1>9 DEF Next, Serve

\* Keys stay with their requests, and the cover is served, also after the step.
LEMMA KeysNext ==
    ASSUME TypeOK, KeysInv, ServedInv, [Next]_vars
    PROVE  KeysInv' /\ ServedInv'
<1>0. /\ cover \in 0..covers /\ files \subseteq 1..covers /\ covers \in Nat
      /\ req \in [Slots -> Request]
      /\ \A q \in Slots : /\ req[q].op = "read" \/ InHand(q) => req[q].previous \in 0..covers
                          /\ InHand(q) => req[q].key \in 1..covers
  BY RequestFields DEF TypeOK
<1>1. CASE CoverAlone
  BY <1>0, <1>1 DEF CoverAlone, KeysInv, ServedInv, InHand
<1>2. CASE Restart
  <2>1. req' = [r \in Slots |-> Idle] /\ UNCHANGED <<cover, files, doubtful>>
    BY <1>2 DEF Restart, coverVars
  <2>2. QED
    BY <2>1 DEF KeysInv, ServedInv, InHand, Idle
<1>3. ASSUME NEW r \in Slots, CoverStep(r) PROVE KeysInv' /\ ServedInv'
  <2>1. CASE /\ Goes(r, [op |-> "read", previous |-> cover]) /\ req[r] = Idle
             /\ UNCHANGED <<cover, files, doubtful, faults>>
    <3>1. req'[r] = [op |-> "read", previous |-> cover] /\ \A q \in Slots : q # r => req'[q] = req[q]
      BY <2>1, SlotsGo
    <3>2. ~InHand(r) /\ req'[r].op = "read" /\ req'[r].previous = cover
      BY <2>1, <3>1 DEF InHand, Idle
    <3>3. QED
      BY <2>1, <3>1, <3>2 DEF KeysInv, ServedInv, InHand
  <2>2. CASE /\ Goes(r, [op |-> "stored", previous |-> req[r].previous, key |-> covers + 1])
             /\ req[r].op = "read" /\ files' = files \cup {covers + 1}
             /\ UNCHANGED <<cover, doubtful, faults>>
    <3>1. /\ req'[r].op = "stored" /\ req'[r].previous = req[r].previous /\ req'[r].key = covers + 1
          /\ \A q \in Slots : q # r => req'[q] = req[q]
      BY <2>2, SlotsGo
    <3>2. /\ covers + 1 # cover /\ covers + 1 \in files' /\ files \subseteq files' /\ cover' = cover
          /\ \A q \in Slots : /\ req[q].op = "read" \/ InHand(q) => req[q].previous # covers + 1
                              /\ InHand(q) => req[q].key # covers + 1
      BY <1>0, <2>2
    <3>3. ServedInv'
      BY <2>2 DEF ServedInv
    <3>4. QED
      BY <2>2, <3>1, <3>2, <3>3 DEF KeysInv, InHand
  <2>3. CASE /\ Goes(r, [op |-> "switched", previous |-> req[r].previous, key |-> req[r].key])
             /\ req[r].op = "stored" /\ cover = req[r].previous /\ cover' = req[r].key
             /\ UNCHANGED <<files, doubtful, faults>>
    <3>1. /\ req'[r].op = "switched" /\ req'[r].previous = req[r].previous
          /\ req'[r].key = req[r].key /\ \A q \in Slots : q # r => req'[q] = req[q]
      BY <2>3, SlotsGo
    <3>2. QED
      BY <2>3, <3>1 DEF KeysInv, ServedInv, InHand
  <2>4. CASE /\ Goes(r, [op |-> "undo", previous |-> req[r].previous, key |-> req[r].key])
             /\ req[r].op = "stored" /\ UNCHANGED <<cover, files, doubtful>>
    <3>1. /\ req'[r].op = "undo" /\ req'[r].previous = req[r].previous
          /\ req'[r].key = req[r].key /\ \A q \in Slots : q # r => req'[q] = req[q]
      BY <2>4, SlotsGo
    <3>2. QED
      BY <2>4, <3>1 DEF KeysInv, ServedInv, InHand
  <2>5. CASE /\ Goes(r, [op |-> "undo", previous |-> req[r].previous, key |-> req[r].key])
             /\ req[r].op = "stored" /\ cover' = req[r].key
             /\ doubtful' = doubtful \cup {req[r].key} /\ UNCHANGED files
             /\ cover = req[r].previous
    <3>1. /\ req'[r].op = "undo" /\ req'[r].previous = req[r].previous
          /\ req'[r].key = req[r].key /\ \A q \in Slots : q # r => req'[q] = req[q]
      BY <2>5, SlotsGo
    <3>2. QED
      BY <2>5, <3>1 DEF KeysInv, ServedInv, InHand
  <2>6. CASE /\ Goes(r, Idle) /\ req[r].op \in {"switched", "undo"}
             /\ files' = files \ Removes(r) \/ UNCHANGED files
             /\ UNCHANGED <<cover, doubtful>>
    <3>1. /\ ~InHand(r)' /\ req'[r].op # "read"
          /\ \A q \in Slots : q # r => req'[q] = req[q]
      BY <2>6, SlotsGo DEF InHand, Idle
    <3>2. \A q \in Slots : q # r /\ req[q].op = "stored" => req[q].key \notin Removes(r)
      BY <2>6 DEF KeysInv, InHand, Removes
    <3>3. cover \notin doubtful => cover \notin Removes(r)
      BY <2>6 DEF KeysInv, InHand, Removes
    <3>4. QED
      BY <2>6, <3>1, <3>2, <3>3 DEF KeysInv, ServedInv, InHand
  <2>7. QED
    BY <1>3, <2>1, <2>2, <2>3, <2>4, <2>5, <2>6 DEF CoverStep
<1>4. QED
  BY <1>1, <1>2, <1>3, CoverOrAlone

\* Each fault adds at most one orphan for each slot.
LEMMA OrphansBounded ==
    ASSUME TypeOK, TypeOK', OrphansInv
    PROVE  /\ Orphans' \subseteq Orphans /\ faults' \in {faults, faults + 1} => OrphansInv'
           /\ \A T : (/\ IsFiniteSet(T) /\ Cardinality(T) <= Cardinality(Slots)
                      /\ Orphans' \subseteq Orphans \cup T /\ faults' = faults + 1)
                     => OrphansInv'
<1> DEFINE C == Cardinality(Slots)
<1>1. C \in Nat /\ faults \in Nat /\ covers \in Nat
  BY FS_CardinalityType DEF TypeOK
<1>2. IsFiniteSet(Orphans) /\ Cardinality(Orphans) \in Nat
  <2>1. IsFiniteSet(1..covers)
    BY <1>1, FS_Interval
  <2>2. Orphans \subseteq 1..covers
    BY DEF Orphans, TypeOK
  <2>3. QED
    BY <2>1, <2>2, FS_Subset, FS_CardinalityType
<1>3. Cardinality(Orphans) <= faults * C /\ faults * C \in Nat
  BY <1>1 DEF OrphansInv
<1>4. (faults + 1) * C = faults * C + C
  BY <1>1
<1>5. ASSUME Orphans' \subseteq Orphans, faults' \in {faults, faults + 1} PROVE OrphansInv'
  <2>1. Cardinality(Orphans') <= Cardinality(Orphans) /\ Cardinality(Orphans') \in Nat
    BY <1>2, <1>5, FS_Subset, FS_CardinalityType
  <2>2. faults * C <= faults' * C
    BY <1>1, <1>3, <1>4, <1>5
  <2>3. Cardinality(Orphans') <= faults' * C
    <3>1. faults' * C \in Nat
      BY <1>1, <1>5
    <3>2. QED
      BY <1>2, <1>3, <2>1, <2>2, <3>1
  <2>4. QED
    BY <2>3 DEF OrphansInv
<1>6. ASSUME NEW T, IsFiniteSet(T), Cardinality(T) <= C, Orphans' \subseteq Orphans \cup T,
             faults' = faults + 1
      PROVE  OrphansInv'
  <2>1. /\ IsFiniteSet(Orphans \cup T)
        /\ Cardinality(Orphans \cup T) = Cardinality(Orphans) + Cardinality(T)
                                             - Cardinality(Orphans \cap T)
    BY <1>2, <1>6, FS_Union
  <2>2. Cardinality(Orphans \cap T) \in Nat /\ Cardinality(T) \in Nat
    <3>1. IsFiniteSet(Orphans \cap T)
      BY <1>2, FS_Subset
    <3>2. QED
      BY <1>6, <3>1, FS_CardinalityType
  <2>3. Cardinality(Orphans') <= Cardinality(Orphans \cup T) /\ Cardinality(Orphans') \in Nat
    BY <1>6, <2>1, FS_Subset, FS_CardinalityType
  <2>4. Cardinality(Orphans') <= Cardinality(Orphans) + C
    BY <1>1, <1>2, <1>6, <2>1, <2>2, <2>3
  <2>5. Cardinality(Orphans') <= faults * C + C
    BY <1>1, <1>2, <1>3, <2>3, <2>4
  <2>6. QED
    BY <1>4, <1>6, <2>5 DEF OrphansInv
<1>7. QED
  BY <1>5, <1>6

\* The files nobody will remove are those that failures left, also after the step.
LEMMA OrphansNext ==
    ASSUME TypeOK, TypeOK', KeysInv, OrphansInv, [Next]_vars
    PROVE  OrphansInv'
<1>1. CASE CoverAlone
  <2>1. \A q \in Slots : Removes(q)' = Removes(q)
    BY <1>1 DEF CoverAlone, Removes, InHand
  <2>2. Orphans' \subseteq Orphans
    BY <1>1, <2>1 DEF CoverAlone, Orphans
  <2>3. QED
    BY <1>1, <2>2, OrphansBounded DEF CoverAlone
<1>2. CASE Restart
  <2> DEFINE g == [r \in Slots |-> IF req[r].op = "switched" THEN req[r].previous
                                   ELSE IF InHand(r) THEN req[r].key ELSE 0]
             T == {g[r] : r \in Slots}
  <2>1. g \in Surjection(Slots, T)
    BY DEF Surjection
  <2>2. IsFiniteSet(T) /\ Cardinality(T) <= Cardinality(Slots)
    BY <2>1, FS_Surjection
  <2>3. \A r \in Slots : Removes(r) \subseteq {g[r]}
    BY DEF Removes
  <2>4. cover' = cover /\ files' = files /\ faults' = faults + 1
    BY <1>2 DEF Restart, Fault, coverVars
  <2>5. Orphans' \subseteq Orphans \cup T
    BY <2>3, <2>4 DEF Orphans
  <2> HIDE DEF T
  <2>6. QED
    BY <2>2, <2>4, <2>5, OrphansBounded
<1>3. ASSUME NEW r \in Slots, CoverStep(r) PROVE OrphansInv'
  <2>1. ASSUME NEW state, Goes(r, state)
        PROVE  /\ req'[r] = state /\ \A q \in Slots : q # r => Removes(q)' = Removes(q)
    BY <2>1, SlotsGo DEF Removes, InHand
  <2>2. ASSUME NEW k, Orphans' \subseteq Orphans \cup {k}, faults' = faults + 1
        PROVE  OrphansInv'
    <3>1. IsFiniteSet({k}) /\ Cardinality({k}) = 1
      BY FS_Singleton
    <3>2. Cardinality(Slots) \in Nat /\ Cardinality(Slots) # 0
      BY FS_EmptySet, FS_CardinalityType
    <3>3. Cardinality({k}) <= Cardinality(Slots)
      BY <3>1, <3>2
    <3>4. QED
      BY <2>2, <3>1, <3>3, OrphansBounded
  <2>3. CASE /\ Goes(r, [op |-> "read", previous |-> cover]) /\ req[r] = Idle
             /\ UNCHANGED <<cover, files, doubtful, faults>>
    <3>1. Removes(r) = {}
      BY <2>3 DEF Removes, InHand, Idle
    <3>2. Orphans' \subseteq Orphans
      BY <2>1, <2>3, <3>1 DEF Orphans
    <3>3. QED
      BY <2>3, <3>2, OrphansBounded
  <2>4. CASE /\ Goes(r, [op |-> "stored", previous |-> req[r].previous, key |-> covers + 1])
             /\ req[r].op = "read" /\ files' = files \cup {covers + 1}
             /\ UNCHANGED <<cover, doubtful, faults>>
    <3>1. Removes(r) = {}
      BY <2>4 DEF Removes, InHand
    <3>2. Removes(r)' = {covers + 1}
      BY <2>1, <2>4 DEF Removes, InHand
    <3>3. Orphans' \subseteq Orphans
      BY <2>1, <2>4, <3>1, <3>2 DEF Orphans
    <3>4. QED
      BY <2>4, <3>3, OrphansBounded
  <2>5. CASE /\ Goes(r, [op |-> "switched", previous |-> req[r].previous, key |-> req[r].key])
             /\ req[r].op = "stored" /\ cover = req[r].previous /\ cover' = req[r].key
             /\ UNCHANGED <<files, doubtful, faults>>
    <3>1. Removes(r) = {req[r].key}
      BY <2>5 DEF Removes, InHand
    <3>2. Removes(r)' = {req[r].previous}
      BY <2>1, <2>5 DEF Removes, InHand
    <3>3. Orphans' \subseteq Orphans
      BY <2>1, <2>5, <3>1, <3>2 DEF Orphans
    <3>4. QED
      BY <2>5, <3>3, OrphansBounded
  <2>6. CASE /\ Goes(r, [op |-> "undo", previous |-> req[r].previous, key |-> req[r].key])
             /\ req[r].op = "stored" /\ UNCHANGED files
             /\ \/ UNCHANGED cover /\ faults' \in {faults, faults + 1}
                \/ cover = req[r].previous /\ faults' = faults + 1
    <3>1. Removes(r) = {req[r].key}
      BY <2>6 DEF Removes, InHand
    <3>2. Removes(r)' = {req[r].key}
      BY <2>1, <2>6 DEF Removes, InHand
    <3>3. CASE UNCHANGED cover /\ faults' \in {faults, faults + 1}
      <4>1. Orphans' \subseteq Orphans
        BY <2>1, <2>6, <3>1, <3>2, <3>3 DEF Orphans
      <4>2. QED
        BY <3>3, <4>1, OrphansBounded
    <3>4. CASE cover = req[r].previous /\ faults' = faults + 1
      <4>1. Orphans' \subseteq Orphans \cup {cover}
        BY <2>1, <2>6, <3>1, <3>2, <3>4 DEF Orphans
      <4>2. QED
        BY <2>2, <3>4, <4>1
    <3>5. QED
      BY <2>6, <3>3, <3>4
  <2>7. CASE /\ Goes(r, Idle) /\ req[r].op \in {"switched", "undo"} /\ UNCHANGED cover
             /\ \/ files' = files \ Removes(r) /\ UNCHANGED faults
                \/ faults' = faults + 1 /\ UNCHANGED files
    <3>1. PICK k : Removes(r) = {k}
      BY <2>7 DEF Removes, InHand
    <3>2. CASE files' = files \ Removes(r) /\ UNCHANGED faults
      <4>1. Orphans' \subseteq Orphans
        BY <2>1, <2>7, <3>1, <3>2 DEF Orphans
      <4>2. QED
        BY <3>2, <4>1, OrphansBounded
    <3>3. CASE faults' = faults + 1 /\ UNCHANGED files
      <4>1. Orphans' \subseteq Orphans \cup {k}
        BY <2>1, <2>7, <3>1, <3>3 DEF Orphans
      <4>2. QED
        BY <2>2, <3>3, <4>1
    <3>4. QED
      BY <2>7, <3>2, <3>3
  <2>8. QED
    BY <1>3, <2>3, <2>4, <2>5, <2>6, <2>7 DEF CoverStep
<1>4. QED
  BY <1>1, <1>2, <1>3, CoverOrAlone

(***************************************************************************)
(* Views                                                                   *)
(***************************************************************************)

\* The views of a session within the window that ends now, or at an event.
RecentViews(s) == Views(s, Len(events), now - ViewWindow)
ViewsUntil(s, last) == Views(s, last, events[last].at - ViewWindow)

\* The two invariants in these terms.
LEMMA ViewsParts ==
    /\ ViewsInv <=> \A s \in Sessions : Cardinality(RecentViews(s)) + Cardinality(Viewing(s))
                                            <= Cardinality(Slots)
    /\ ViewsInv' <=> \A s \in Sessions : Cardinality(RecentViews(s)') + Cardinality(Viewing(s)')
                                            <= Cardinality(Slots)
    /\ ViewsAreDeduplicated <=>
          \A s \in Sessions, last \in DOMAIN events :
              Cardinality(ViewsUntil(s, last)) <= Cardinality(Slots)
    /\ ViewsAreDeduplicated' <=>
          \A s \in Sessions, last \in DOMAIN events' :
              Cardinality(ViewsUntil(s, last)') <= Cardinality(Slots)
    BY DEF ViewsInv, ViewsAreDeduplicated, RecentViews, ViewsUntil, Views, Viewing

\* What is counted is finite.
LEMMA ViewsFinite ==
    ASSUME TypeOK, TypeOK', NEW s
    PROVE  /\ IsFiniteSet(RecentViews(s)) /\ IsFiniteSet(RecentViews(s)')
           /\ IsFiniteSet(Viewing(s)) /\ IsFiniteSet(Viewing(s)')
           /\ Cardinality(Viewing(s)) <= Cardinality(Slots)
           /\ Cardinality(Viewing(s)') <= Cardinality(Slots)
<1>1. Len(events) \in Nat /\ Len(events') \in Nat
  BY DEF TypeOK
<1>2. IsFiniteSet(1..Len(events)) /\ IsFiniteSet(1..Len(events'))
  BY <1>1, FS_Interval
<1>3. RecentViews(s) \subseteq 1..Len(events) /\ RecentViews(s)' \subseteq 1..Len(events')
  BY DEF RecentViews, Views
<1>4. Viewing(s) \subseteq Slots /\ Viewing(s)' \subseteq Slots
  BY DEF Viewing
<1>5. QED
  BY <1>2, <1>3, <1>4, FS_Subset

\* A step that records nothing and begins no view.
ViewsAlone ==
    /\ events' = events /\ now' \in {now, now + 1}
    /\ \A r \in Slots : req'[r].op = "view" => req'[r] = req[r]

\* A page load that found no recent view.
LoadStep(r, s) ==
    /\ Goes(r, [op |-> "view", session |-> s]) /\ (s = NoSession \/ ~RecentlyViewed(s))
    /\ UNCHANGED <<now, events>>

\* The view of a page load is recorded, or a download.
RecordStep(r) ==
    /\ req[r].op = "view" /\ Event("archive_view", req[r].session) /\ Goes(r, Idle)
    /\ UNCHANGED now
DownloadStep(s) == Event("archive_download", s) /\ UNCHANGED <<now, req>>

\* The steps that count are few.
LEMMA ViewsOrAlone ==
    ASSUME TypeOK, [Next]_vars
    PROVE  \/ ViewsAlone \/ \E s \in Visitors : DownloadStep(s)
           \/ \E r \in Slots : RecordStep(r) \/ \E s \in Visitors : LoadStep(r, s)
<1> USE DEF boundVars
<1>1. CASE UNCHANGED vars \/ Tick \/ ContentReady
  <2>1. UNCHANGED <<events, req>> /\ now' \in {now, now + 1}
    BY <1>1 DEF vars, Tick, ContentReady
  <2>2. QED
    BY <2>1 DEF ViewsAlone
<1>2. CASE \/ Unpublish \/ BlockArchive \/ \E t \in tokens : Logout(t)
           \/ \E w \in Wallets : CreateChallenge(w)
  <2>1. UNCHANGED <<events, now, req>>
    BY <1>2 DEF Unpublish, BlockArchive, Logout, CreateChallenge, Arrives
  <2>2. QED
    BY <2>1 DEF ViewsAlone
<1>3. ASSUME NEW r \in Slots, NEW state, Goes(r, state), state.op # "view",
             UNCHANGED <<now, events>>
      PROVE  ViewsAlone
  BY <1>3, SlotsGo DEF ViewsAlone
<1>4. ASSUME NEW r \in Slots, NEW c \in challenges, VerifyChallenge(r, c) PROVE ViewsAlone
  <2>1. UNCHANGED <<now, events>>
    BY <1>4 DEF VerifyChallenge, Starts, Arrives
  <2>2. \/ UNCHANGED req
        \/ Goes(r, [op |-> "login", wallet |-> c.wallet, found |-> walletUser[c.wallet]])
    BY <1>4 DEF VerifyChallenge, Starts, Goes
  <2>3. UNCHANGED req => ViewsAlone
    BY <2>1 DEF ViewsAlone
  <2>4. QED
    BY <1>3, <2>1, <2>2, <2>3
<1>5. ASSUME NEW r \in Slots, NEW s \in Visitors, ViewArchive(r, s)
      PROVE  ViewsAlone \/ LoadStep(r, s)
  BY <1>5 DEF ViewArchive, Starts, Arrives, Goes, ViewsAlone, LoadStep
<1>6. ASSUME NEW r \in Slots,
             \/ KnownWallet(r) \/ NewWallet(r) \/ Publish(r) \/ PublishWrite(r)
             \/ RequestFails(r) \/ RemoveCover(r)
      PROVE  ViewsAlone
  <2>1. UNCHANGED <<now, events>>
    BY <1>6 DEF KnownWallet, NewWallet, Publish, PublishWrite, RequestFails, RemoveCover,
                Starts, Arrives, Fault
  <2>2. Goes(r, Idle) \/ Goes(r, [op |-> "publish", seen |-> market])
    BY <1>6 DEF KnownWallet, NewWallet, Publish, PublishWrite, RequestFails, RemoveCover,
                Login, Ends, Starts, Goes
  <2>3. QED
    BY <1>3, <2>1, <2>2 DEF Idle
<1>7. ASSUME NEW r \in Slots, ReplaceCover(r) \/ StoreCover(r) PROVE ViewsAlone
  <2>1. UNCHANGED <<now, events>>
    BY <1>7 DEF ReplaceCover, StoreCover, Starts, Arrives
  <2>2. \/ Goes(r, [op |-> "read", previous |-> cover])
        \/ Goes(r, [op |-> "stored", previous |-> req[r].previous, key |-> covers + 1])
    BY <1>7 DEF ReplaceCover, StoreCover, Starts, Goes
  <2>3. QED
    BY <1>3, <2>1, <2>2
<1>8. ASSUME NEW r \in Slots, SwitchCover(r) \/ SwitchCoverFails(r) PROVE ViewsAlone
  <2>1. PICK q : q = req[r]
    OBVIOUS
  <2>2. q \in [op : {"stored", "switched", "undo"}, previous : 0..covers, key : 1..covers]
    BY <1>8, <2>1 DEF SwitchCover, SwitchCoverFails, TypeOK, Request, Idle
  <2>3. [q EXCEPT !.op = "switched"].op # "view" /\ [q EXCEPT !.op = "undo"].op # "view"
    BY <2>2
  <2>4. UNCHANGED <<now, events>>
    BY <1>8 DEF SwitchCover, SwitchCoverFails, Fault
  <2>5. Goes(r, [q EXCEPT !.op = "switched"]) \/ Goes(r, [q EXCEPT !.op = "undo"])
    BY <1>8, <2>1 DEF SwitchCover, SwitchCoverFails
  <2>6. QED
    BY <1>3, <2>3, <2>4, <2>5
<1>9. CASE Restart
  <2>1. UNCHANGED <<now, events>> /\ req' = [r \in Slots |-> Idle]
    BY <1>9 DEF Restart, Fault
  <2>2. QED
    BY <2>1 DEF ViewsAlone, Idle
<1>10. ASSUME NEW r \in Slots, RecordView(r) PROVE RecordStep(r)
  BY <1>10 DEF RecordView, RecordStep, Ends
<1>11. ASSUME NEW s \in Visitors, Download(s) PROVE DownloadStep(s)
  BY <1>11 DEF Download, DownloadStep, Arrives
<1>12. QED
  BY <1>1, <1>2, <1>4, <1>5, <1>6, <1>7, <1>8, <1>9, <1>10, <1>11 DEF Next, Serve

\* Fewer views in the window and fewer loads pending keep the bound of a session.
LEMMA ViewsShrink ==
    ASSUME TypeOK, TypeOK', NEW s,
           Cardinality(RecentViews(s)) + Cardinality(Viewing(s)) <= Cardinality(Slots),
           RecentViews(s)' \subseteq RecentViews(s), Viewing(s)' \subseteq Viewing(s)
    PROVE  Cardinality(RecentViews(s)') + Cardinality(Viewing(s)') <= Cardinality(Slots)
<1>1. /\ IsFiniteSet(RecentViews(s)) /\ IsFiniteSet(RecentViews(s)')
      /\ IsFiniteSet(Viewing(s)) /\ IsFiniteSet(Viewing(s)')
  BY ViewsFinite
<1>2. /\ Cardinality(RecentViews(s)') <= Cardinality(RecentViews(s))
      /\ Cardinality(Viewing(s)') <= Cardinality(Viewing(s))
  BY <1>1, FS_Subset
<1>3. /\ Cardinality(RecentViews(s)) \in Nat /\ Cardinality(RecentViews(s)') \in Nat
      /\ Cardinality(Viewing(s)) \in Nat /\ Cardinality(Viewing(s)') \in Nat
      /\ Cardinality(Slots) \in Nat
  BY <1>1, FS_CardinalityType
<1>4. QED
  BY <1>2, <1>3

\* An event recorded now is the only one that the steps before did not count.
LEMMA ViewsAppend ==
    ASSUME TypeOK, NEW type \in {"archive_view", "archive_download"}, NEW s \in Visitors,
           Event(type, s), now' = now, NEW x
    PROVE  /\ RecentViews(x)' \subseteq RecentViews(x) \cup {Len(events) + 1}
           /\ type # "archive_view" \/ s # x => RecentViews(x)' \subseteq RecentViews(x)
           /\ \A last \in DOMAIN events : ViewsUntil(x, last)' = ViewsUntil(x, last)
           /\ \A last : last = Len(events) + 1 => ViewsUntil(x, last)' = RecentViews(x)'
           /\ DOMAIN events' = DOMAIN events \cup {Len(events) + 1}
<1>1. /\ Len(events') = Len(events) + 1 /\ Len(events) \in Nat
      /\ events'[Len(events) + 1] = [type |-> type, session |-> s, at |-> now]
      /\ \A i \in 1..Len(events) : events'[i] = events[i]
      /\ DOMAIN events = 1..Len(events) /\ DOMAIN events' = 1..Len(events')
  BY EventAppends DEF TypeOK
<1>2. 1..Len(events') = 1..Len(events) \cup {Len(events) + 1}
  BY <1>1
<1>3. RecentViews(x)' \subseteq RecentViews(x) \cup {Len(events) + 1}
  BY <1>1, <1>2 DEF RecentViews, Views
<1>4. ASSUME type # "archive_view" \/ s # x PROVE RecentViews(x)' \subseteq RecentViews(x)
  BY <1>1, <1>2, <1>4 DEF RecentViews, Views
<1>5. ASSUME NEW last \in DOMAIN events PROVE ViewsUntil(x, last)' = ViewsUntil(x, last)
  <2>1. events'[last] = events[last] /\ \A i \in 1..last : events'[i] = events[i]
    BY <1>1, <1>5
  <2>2. QED
    BY <2>1 DEF ViewsUntil, Views
<1>6. ASSUME NEW last, last = Len(events) + 1 PROVE ViewsUntil(x, last)' = RecentViews(x)'
  <2>1. events'[last].at = now' /\ last = Len(events')
    BY <1>1, <1>6
  <2>2. QED
    BY <2>1 DEF ViewsUntil, RecentViews, Views
<1>7. QED
  BY <1>1, <1>2, <1>3, <1>4, <1>5, <1>6

\* No more views of a session are counted within a window than loads can
\* overlap, also after the step.
LEMMA ViewsNext ==
    ASSUME TypeOK, TypeOK', ViewsInv, ViewsAreDeduplicated, [Next]_vars
    PROVE  ViewsInv' /\ ViewsAreDeduplicated'
<1>0. \A s \in Sessions :
          Cardinality(RecentViews(s)) + Cardinality(Viewing(s)) <= Cardinality(Slots)
  BY ViewsParts
<1>1. Cardinality(Slots) \in Nat
  BY FS_CardinalityType
\* While nothing is recorded, only the pending loads matter.
<1>2. ASSUME events' = events, ViewsInv' PROVE ViewsAreDeduplicated'
  BY <1>2 DEF ViewsAreDeduplicated
<1>3. CASE ViewsAlone
  <2>1. ASSUME NEW s \in Sessions
        PROVE  RecentViews(s)' \subseteq RecentViews(s) /\ Viewing(s)' \subseteq Viewing(s)
    <3>1. events' = events /\ now' >= now /\ now \in Nat /\ now' \in Nat
      BY <1>3 DEF ViewsAlone, TypeOK
    <3>2. \A i \in 1..Len(events) : events[i].at \in Nat
      <4> DEFINE E == [type : {"archive_view", "archive_download"}, session : Visitors,
                       at : 0..now]
      <4>1. events \in Seq(E)
        BY DEF TypeOK
      <4>2. \A e \in E : e.at \in Nat
        BY <3>1
      <4> HIDE DEF E
      <4>3. QED
        BY <4>1, <4>2
    <3>3. RecentViews(s)' \subseteq RecentViews(s)
      BY <3>1, <3>2 DEF RecentViews, Views
    <3>4. QED
      BY <1>3, <3>3 DEF ViewsAlone, Viewing
  <2>2. ViewsInv'
    BY <1>0, <2>1, ViewsShrink, ViewsParts
  <2>3. QED
    BY <1>2, <1>3, <2>2 DEF ViewsAlone
<1>4. ASSUME NEW r \in Slots, NEW x \in Visitors, LoadStep(r, x)
      PROVE  ViewsInv' /\ ViewsAreDeduplicated'
  <2>1. /\ req'[r] = [op |-> "view", session |-> x]
        /\ \A q \in Slots : q # r => req'[q] = req[q]
        /\ events' = events /\ now' = now
    BY <1>4, SlotsGo DEF LoadStep
  <2>2. ASSUME NEW s \in Sessions
        PROVE  Cardinality(RecentViews(s)') + Cardinality(Viewing(s)') <= Cardinality(Slots)
    <3>1. RecentViews(s)' = RecentViews(s)
      BY <2>1 DEF RecentViews, Views
    <3>2. CASE s # x
      <4>1. Viewing(s)' \subseteq Viewing(s)
        BY <2>1, <3>2 DEF Viewing
      <4>2. QED
        BY <1>0, <3>1, <4>1, ViewsShrink
    <3>3. CASE s = x
      <4>1. ~RecentlyViewed(s)
        BY <1>4, <3>3 DEF LoadStep
      <4>2. RecentViews(s) = {}
        <5>1. DOMAIN events = 1..Len(events)
          BY TypeParts DEF EventsType
        <5>2. QED
          BY <4>1, <5>1 DEF RecentlyViewed, RecentViews, Views
      <4>3. Cardinality(RecentViews(s)') = 0
        BY <3>1, <4>2, FS_EmptySet
      <4>4. Cardinality(Viewing(s)') <= Cardinality(Slots) /\ Cardinality(Viewing(s)') \in Nat
        BY ViewsFinite, FS_CardinalityType
      <4>5. QED
        BY <1>1, <4>3, <4>4
    <3>4. QED
      BY <3>2, <3>3
  <2>3. ViewsInv'
    BY <2>2, ViewsParts
  <2>4. QED
    BY <1>2, <2>1, <2>3
\* What is recorded now was within the bound while it was pending.
<1>5. ASSUME NEW type \in {"archive_view", "archive_download"}, NEW s \in Visitors,
             Event(type, s), now' = now, ViewsInv'
      PROVE  ViewsAreDeduplicated'
  <2>1. ASSUME NEW x \in Sessions, NEW last \in DOMAIN events'
        PROVE  Cardinality(ViewsUntil(x, last)') <= Cardinality(Slots)
    <3>1. CASE last \in DOMAIN events
      <4>1. Cardinality(ViewsUntil(x, last)) <= Cardinality(Slots)
        BY <2>1, <3>1, ViewsParts
      <4>2. ViewsUntil(x, last)' = ViewsUntil(x, last)
        BY <1>5, <3>1, ViewsAppend
      <4>3. QED
        BY <4>1, <4>2
    <3>2. CASE last = Len(events) + 1
      <4>1. ViewsUntil(x, last)' = RecentViews(x)'
        BY <1>5, <3>2, ViewsAppend
      <4>2. Cardinality(RecentViews(x)') + Cardinality(Viewing(x)') <= Cardinality(Slots)
        BY <1>5, <2>1, ViewsParts
      <4>3. Cardinality(RecentViews(x)') \in Nat /\ Cardinality(Viewing(x)') \in Nat
        BY ViewsFinite, FS_CardinalityType
      <4>4. QED
        BY <1>1, <4>1, <4>2, <4>3
    <3>3. QED
      BY <1>5, <2>1, <3>1, <3>2, ViewsAppend
  <2>2. QED
    BY <2>1, ViewsParts
<1>6. ASSUME NEW x \in Visitors, DownloadStep(x) PROVE ViewsInv' /\ ViewsAreDeduplicated'
  <2>1. Event("archive_download", x) /\ now' = now /\ req' = req
    BY <1>6 DEF DownloadStep
  <2>2. ASSUME NEW s \in Sessions
        PROVE  RecentViews(s)' \subseteq RecentViews(s) /\ Viewing(s)' \subseteq Viewing(s)
    BY <2>1, ViewsAppend DEF Viewing
  <2>3. ViewsInv'
    BY <1>0, <2>2, ViewsShrink, ViewsParts
  <2>4. QED
    BY <1>5, <2>1, <2>3
<1>7. ASSUME NEW r \in Slots, RecordStep(r) PROVE ViewsInv' /\ ViewsAreDeduplicated'
  <2> DEFINE x == req[r].session
  <2>1. /\ Event("archive_view", x) /\ now' = now /\ x \in Visitors /\ req[r].op = "view"
        /\ req'[r] = Idle /\ \A q \in Slots : q # r => req'[q] = req[q]
    BY <1>7, SlotsGo, RequestFields DEF RecordStep
  <2> HIDE DEF x
  <2>2. ASSUME NEW s \in Sessions
        PROVE  Cardinality(RecentViews(s)') + Cardinality(Viewing(s)') <= Cardinality(Slots)
    <3>1. CASE s # x
      <4>1. RecentViews(s)' \subseteq RecentViews(s)
        BY <2>1, <3>1, ViewsAppend
      <4>2. Viewing(s)' \subseteq Viewing(s)
        BY <2>1 DEF Viewing, Idle
      <4>3. QED
        BY <1>0, <4>1, <4>2, ViewsShrink
    <3>2. CASE s = x
      <4> DEFINE n == Len(events) + 1
      <4>1. r \in Viewing(s) /\ Viewing(s)' = Viewing(s) \ {r}
        BY <2>1, <3>2 DEF Viewing, Idle, x
      <4>2. RecentViews(s)' \subseteq RecentViews(s) \cup {n}
        BY <2>1, ViewsAppend
      <4> HIDE DEF n
      <4>3. /\ IsFiniteSet(RecentViews(s)) /\ IsFiniteSet(RecentViews(s)')
            /\ IsFiniteSet(Viewing(s))
        BY ViewsFinite
      <4>4. Cardinality(Viewing(s)') = Cardinality(Viewing(s)) - 1
        BY <4>1, <4>3, FS_RemoveElement
      <4>5. /\ IsFiniteSet(RecentViews(s) \cup {n})
            /\ Cardinality(RecentViews(s) \cup {n})
                   \in {Cardinality(RecentViews(s)), Cardinality(RecentViews(s)) + 1}
        BY <4>3, FS_AddElement
      <4>6. Cardinality(RecentViews(s)') <= Cardinality(RecentViews(s) \cup {n})
        BY <4>2, <4>5, FS_Subset
      <4>7. /\ Cardinality(RecentViews(s)) \in Nat /\ Cardinality(RecentViews(s)') \in Nat
            /\ Cardinality(Viewing(s)) \in Nat
        BY <4>3, FS_CardinalityType
      <4>8. QED
        BY <1>0, <1>1, <4>4, <4>5, <4>6, <4>7
    <3>3. QED
      BY <3>1, <3>2
  <2>3. ViewsInv'
    BY <2>2, ViewsParts
  <2>4. QED
    BY <1>5, <2>1, <2>3
<1>8. QED
  BY <1>3, <1>4, <1>6, <1>7, ViewsOrAlone

(***************************************************************************)
(* Invariance                                                              *)
(***************************************************************************)

\* The inductive invariant by the parts that the lemmas preserve.
LEMMA IInvParts ==
    /\ IInv <=> /\ TypeOK /\ FoundInv /\ ChallengesInv /\ LoginsAreAccounted
                /\ KeysInv /\ OrphansInv /\ ServedInv /\ ViewsInv /\ ViewsAreDeduplicated
    /\ IInv' <=> /\ TypeOK' /\ FoundInv' /\ ChallengesInv' /\ LoginsAreAccounted'
                 /\ KeysInv' /\ OrphansInv' /\ ServedInv' /\ ViewsInv' /\ ViewsAreDeduplicated'
    BY DEF IInv, ServedInv, Served

\* It holds initially.
LEMMA InvInit == Init => IInv
<1> SUFFICES ASSUME Init PROVE IInv
  OBVIOUS
<1>1. TypeOK
  BY TypeInit
<1>2. /\ req = [r \in Slots |-> Idle] /\ events = <<>> /\ files = {} /\ challenges = {}
      /\ cover = 0 /\ granted = 0 /\ made = 0 /\ faults = 0 /\ users = Creator
      /\ walletUser = [w \in Wallets |-> IF w = Owner THEN Creator ELSE 0]
      /\ tokens = {[user |-> Creator, wallet |-> Owner, iat |-> 0]}
  BY DEF Init
<1>3. FoundInv /\ KeysInv /\ ServedInv
  BY <1>2 DEF FoundInv, KeysInv, ServedInv, InHand, Idle
<1>4. ChallengesInv /\ Cardinality(challenges) = 0
  BY <1>2, FS_EmptySet DEF ChallengesInv
<1>5. LoginsAreAccounted
  <2>1. Verifying = {}
    BY <1>2 DEF Verifying, Idle
  <2>2. TokensInv /\ UsersInv
    BY <1>2 DEF TokensInv, UsersInv, Creator
  <2>3. CountInv
    BY <1>2, <1>4, <2>1, FS_EmptySet DEF CountInv
  <2>4. QED
    BY <2>2, <2>3, LoginParts
<1>6. OrphansInv
  <2>1. Orphans = {}
    BY <1>2 DEF Orphans
  <2>2. QED
    BY <1>2, <2>1, FS_EmptySet, FS_CardinalityType DEF OrphansInv
<1>7. ViewsInv /\ ViewsAreDeduplicated
  <2>1. DOMAIN events = {} /\ Len(events) = 0
    BY <1>2
  <2>2. \A s \in Sessions : RecentViews(s) = {} /\ Viewing(s) = {}
    BY <1>2, <2>1 DEF RecentViews, Views, Viewing, Idle
  <2>3. ViewsInv
    <3>1. Cardinality({}) = 0 /\ Cardinality(Slots) \in Nat
      BY FS_EmptySet, FS_CardinalityType
    <3>2. ASSUME NEW s \in Sessions
          PROVE  Cardinality(RecentViews(s)) + Cardinality(Viewing(s)) <= Cardinality(Slots)
      BY <2>2, <3>1
    <3>3. QED
      BY <3>2, ViewsParts
  <2>4. QED
    BY <2>1, <2>3 DEF ViewsAreDeduplicated
<1>8. QED
  BY <1>1, <1>3, <1>4, <1>5, <1>6, <1>7, IInvParts

\* Every step preserves it.
LEMMA InvNext == IInv /\ [Next]_vars => IInv'
<1> SUFFICES ASSUME IInv, [Next]_vars PROVE IInv'
  OBVIOUS
<1>1. /\ TypeOK /\ FoundInv /\ ChallengesInv /\ LoginsAreAccounted
      /\ KeysInv /\ OrphansInv /\ ServedInv /\ ViewsInv /\ ViewsAreDeduplicated
  BY IInvParts
<1>2. TypeOK'
  BY <1>1, TypeNext
<1>3. FoundInv' /\ ChallengesInv' /\ LoginsAreAccounted'
  BY <1>1, <1>2, AuthNext
<1>4. KeysInv' /\ ServedInv'
  BY <1>1, KeysNext
<1>5. OrphansInv'
  BY <1>1, <1>2, OrphansNext
<1>6. ViewsInv' /\ ViewsAreDeduplicated'
  BY <1>1, <1>2, ViewsNext
<1>7. QED
  BY <1>2, <1>3, <1>4, <1>5, <1>6, IInvParts

\* So it holds in every state.
LEMMA Invariance == Spec => []IInv
<1>1. QED
  BY InvInit, InvNext, PTL DEF Spec

\* Every variable stays in its type.
THEOREM TypeCorrect == Spec => []TypeOK
<1>1. IInv => TypeOK
  BY IInvParts
<1>2. QED
  BY <1>1, Invariance, PTL

\* However many logins race: one user for a wallet, one wallet for a user,
\* tokens for that user only, one challenge for each login.
THEOREM AllLoginsAccounted == Spec => []LoginsAreAccounted
<1>1. IInv => LoginsAreAccounted
  BY IInvParts
<1>2. QED
  BY <1>1, Invariance, PTL

\* However many replacements race: a confirmed cover is served, and each fault
\* leaves at most one file for each request it met.
THEOREM CoverServed == Spec => []CoverIsWhole
<1> DEFINE Left == {k \in files : k # cover /\ \A r \in Slots : ~Holds(r, k)}
<1>1. ASSUME IInv PROVE CoverIsWhole
  <2>1. TypeOK /\ OrphansInv /\ ServedInv
    BY <1>1, IInvParts
  <2>2. \A r \in Slots, k \in files : k \in Removes(r) => Holds(r, k)
    BY DEF Removes, Holds, InHand
  <2>3. Left \subseteq Orphans
    BY <2>2 DEF Orphans
  <2>4. IsFiniteSet(Orphans)
    <3>1. Orphans \subseteq 1..covers /\ covers \in Nat
      BY <2>1 DEF Orphans, TypeOK
    <3>2. IsFiniteSet(1..covers)
      BY <3>1, FS_Interval
    <3>3. QED
      BY <3>1, <3>2, FS_Subset
  <2>5. Cardinality(Left) <= Cardinality(Orphans) /\ IsFiniteSet(Left)
    BY <2>3, <2>4, FS_Subset
  <2>6. Cardinality(Left) <= faults * Cardinality(Slots)
    <3>1. /\ Cardinality(Left) \in Nat /\ Cardinality(Orphans) \in Nat
          /\ Cardinality(Slots) \in Nat /\ faults \in Nat
      BY <2>1, <2>4, <2>5, FS_CardinalityType DEF TypeOK
    <3>2. faults * Cardinality(Slots) \in Nat
      BY <3>1
    <3> HIDE DEF Left
    <3>3. QED
      BY <2>1, <2>5, <3>1, <3>2 DEF OrphansInv
  <2>7. QED
    BY <2>1, <2>6 DEF CoverIsWhole, ServedInv, Served
<1>2. QED
  BY <1>1, Invariance, PTL

\* However many page loads overlap, and however time passes between them: no
\* more views of a session are counted within a window than loads can overlap.
THEOREM ViewsDeduplicated == Spec => []ViewsAreDeduplicated
<1>1. IInv => ViewsAreDeduplicated
  BY IInvParts
<1>2. QED
  BY <1>1, Invariance, PTL
=============================================================================
