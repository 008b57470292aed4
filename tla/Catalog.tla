------------------------------ MODULE Catalog ------------------------------
(***************************************************************************)
(* Wallet login, and one archive in the marketplace                        *)
(* (apps/api/src/modules/auth, archives, marketplace): concurrent requests *)
(* of its creator, of another creator and of visitors, over the tables,    *)
(* the cover directory and what the API process only remembers.            *)
(*                                                                         *)
(* A request that awaits between two things that matter occupies a slot;   *)
(* the others are one step.                                                *)
(***************************************************************************)
EXTENDS Integers, Sequences, FiniteSets

CONSTANTS
    Wallets, Owner,     \* creators; the archive is Owner's
    Sessions, NoSession,    \* x-session-id of a visitor, who may send none
    Slots,              \* requests being served at a time
    ChallengeTtl,       \* 10 minutes
    ViewWindow,         \* 15 minutes
    MaxTime, MaxRequests, MaxFaults     \* bounds

ASSUME OwnerAssumption == Owner \in Wallets
ASSUME NoSessionAssumption == NoSession \notin Sessions
ASSUME WindowAssumption == ChallengeTtl \in Nat /\ ViewWindow \in Nat
ASSUME SlotsAssumption == IsFiniteSet(Slots)
ASSUME BoundsAssumption == MaxTime \in Nat /\ MaxRequests \in Nat /\ MaxFaults \in Nat

VARIABLES
    now, requests, faults,
    challenges, revoked,    \* AuthService's maps, lost by a restart
    made, granted,          \* challenges made, logins granted
    users, walletUser,      \* rows of users, and the user of a wallet (0: no row)
    tokens,                 \* access tokens: two of one second are the same
    technical, market,      \* the statuses of the archive and its listing
    cover,                  \* cover_storage_key (0: none)
    covers, files,          \* keys drawn so far, files in the cover directory
    doubtful,               \* keys whose switch was committed but not confirmed
    events,                 \* marketplace_events
    req                     \* the requests in their slots

boundVars == <<now, requests, faults>>
authVars == <<challenges, revoked, made, granted, users, walletUser, tokens>>
statusVars == <<technical, market>>
coverVars == <<cover, covers, files, doubtful>>
vars == <<boundVars, authVars, statusVars, coverVars, events, req>>

Creator == 1        \* archives.creator_user_id
MarketplaceStatus == {"draft", "published", "unpublished", "blocked"}
Visitors == Sessions \cup {NoSession}

Token == [user : 1..users, wallet : Wallets, iat : 0..now]

Idle == [op |-> "idle"]
Request ==
    {Idle}
    \cup [op : {"login"}, wallet : Wallets, found : 0..users]
    \cup [op : {"publish"}, seen : MarketplaceStatus]
    \cup [op : {"read"}, previous : 0..covers]
    \cup [op : {"stored", "switched", "undo"}, previous : 0..covers, key : 1..covers]
    \cup [op : {"view"}, session : Visitors]

TypeOK ==
    /\ now \in 0..MaxTime /\ requests \in 0..MaxRequests /\ faults \in 0..MaxFaults
    /\ made \in Nat /\ granted \in Nat /\ users \in Nat /\ covers \in Nat
    /\ challenges \subseteq [id : 1..made, wallet : Wallets, expiresAt : 0..(now + ChallengeTtl)]
    /\ walletUser \in [Wallets -> 0..users]
    /\ tokens \subseteq Token /\ revoked \subseteq tokens
    /\ technical \in {"draft", "ready"} /\ market \in MarketplaceStatus
    /\ cover \in 0..covers /\ files \subseteq 1..covers /\ doubtful \subseteq 1..covers
    /\ events \in Seq([type : {"archive_view", "archive_download"}, session : Visitors,
                      at : 0..now])
    /\ req \in [Slots -> Request]

\* The owner has created the archive and is logged in.
Init ==
    /\ now = 0 /\ requests = 0 /\ faults = 0
    /\ challenges = {} /\ revoked = {} /\ made = 0 /\ granted = 0
    /\ users = Creator
    /\ walletUser = [w \in Wallets |-> IF w = Owner THEN Creator ELSE 0]
    /\ tokens = {[user |-> Creator, wallet |-> Owner, iat |-> 0]}
    /\ technical = "draft" /\ market = "draft"
    /\ cover = 0 /\ covers = 0 /\ files = {} /\ doubtful = {}
    /\ events = <<>>
    /\ req = [r \in Slots |-> Idle]

Arrives == requests < MaxRequests /\ requests' = requests + 1 /\ UNCHANGED <<now, faults>>
Starts(r, state) == req[r] = Idle /\ Arrives /\ req' = [req EXCEPT ![r] = state]
Goes(r, state) == req' = [req EXCEPT ![r] = state]
Ends(r) == Goes(r, Idle)
Fault == faults < MaxFaults /\ faults' = faults + 1 /\ UNCHANGED <<now, requests>>

Tick ==
    /\ now < MaxTime
    /\ now' = now + 1
    /\ UNCHANGED <<requests, faults, authVars, statusVars, coverVars, events, req>>

(***************************************************************************)
(* Wallet login                                                            *)
(***************************************************************************)
CreateChallenge(w) ==
    /\ Arrives
    /\ made' = made + 1
    /\ challenges' = challenges \cup
            {[id |-> made + 1, wallet |-> w, expiresAt |-> now + ChallengeTtl]}
    /\ UNCHANGED <<revoked, granted, users, walletUser, tokens, statusVars, coverVars, events, req>>

\* The wallet has signed the challenge, which is then used up; the wallet's row
\* is looked up.  A wrong wallet or signature changes nothing.
VerifyChallenge(r, c) ==
    /\ challenges' = challenges \ {c}
    /\ \/ /\ now > c.expiresAt
          /\ Arrives
          /\ UNCHANGED req
       \/ /\ now <= c.expiresAt
          /\ Starts(r, [op |-> "login", wallet |-> c.wallet, found |-> walletUser[c.wallet]])
    /\ UNCHANGED <<revoked, made, granted, users, walletUser, tokens, statusVars, coverVars, events>>

Login(r, user) ==
    /\ tokens' = tokens \cup {[user |-> user, wallet |-> req[r].wallet, iat |-> now]}
    /\ granted' = granted + 1
    /\ Ends(r)

KnownWallet(r) ==
    /\ req[r].op = "login" /\ req[r].found # 0
    /\ Login(r, req[r].found)
    /\ UNCHANGED <<boundVars, challenges, revoked, made, users, walletUser, statusVars,
                   coverVars, events>>

\* Variant: wallets.address is not unique.
NewWalletNoIndex(r) ==
    /\ req[r].op = "login" /\ req[r].found = 0
    /\ users' = users + 1
    /\ walletUser' = [walletUser EXCEPT ![req[r].wallet] = users + 1]
    /\ Login(r, users + 1)
    /\ UNCHANGED <<boundVars, challenges, revoked, made, statusVars, coverVars, events>>

\* User and wallet are created together, unless the unique index finds the
\* wallet of a login that was faster: an internal error.
NewWallet(r) ==
    /\ req[r].op = "login" /\ req[r].found = 0
    /\ \/ /\ walletUser[req[r].wallet] # 0
          /\ Ends(r)
          /\ UNCHANGED <<users, walletUser, tokens, granted>>
       \/ /\ walletUser[req[r].wallet] = 0
          /\ users' = users + 1
          /\ walletUser' = [walletUser EXCEPT ![req[r].wallet] = users + 1]
          /\ Login(r, users + 1)
    /\ UNCHANGED <<boundVars, challenges, revoked, made, statusVars, coverVars, events>>

\* WalletAuthGuard.
Authorized(t) == t \in tokens \ revoked
AsOwner == \E t \in tokens : Authorized(t) /\ t.user = Creator

Logout(t) ==
    /\ Authorized(t)
    /\ Arrives
    /\ revoked' = revoked \cup {t}
    /\ UNCHANGED <<challenges, made, granted, users, walletUser, tokens, statusVars, coverVars,
                   events, req>>

(***************************************************************************)
(* Publication                                                             *)
(***************************************************************************)

\* An upload is completed: its archive has not been listed.
ContentReady ==
    /\ technical = "draft" /\ market = "draft"
    /\ technical' = "ready"
    /\ UNCHANGED <<boundVars, authVars, market, coverVars, events, req>>

\* publish reads the archive, then looks for the creator's token account on the
\* chain and creates it when it is missing.  Of the status it read it keeps none.
Publish(r) ==
    /\ AsOwner
    /\ technical = "ready"
    /\ Starts(r, [op |-> "publish", seen |-> market])
    /\ UNCHANGED <<authVars, statusVars, coverVars, events>>

PublishWrite(r) ==
    /\ req[r].op = "publish"
    /\ market' = "published"
    /\ Ends(r)
    /\ UNCHANGED <<boundVars, authVars, technical, coverVars, events>>

Unpublish ==
    /\ AsOwner
    /\ Arrives
    /\ market' = "unpublished"
    /\ UNCHANGED <<authVars, technical, coverVars, events, req>>

BlockArchive ==
    /\ \E t \in tokens : Authorized(t)
    /\ Arrives
    /\ market' = "blocked"
    /\ UNCHANGED <<authVars, technical, coverVars, events, req>>

(***************************************************************************)
(* The cover                                                               *)
(***************************************************************************)
ReplaceCover(r) ==
    /\ AsOwner
    /\ Starts(r, [op |-> "read", previous |-> cover])
    /\ UNCHANGED <<authVars, statusVars, coverVars, events>>

\* The image is sanitized and in its file, under a new key.
StoreCover(r) ==
    /\ req[r].op = "read"
    /\ covers' = covers + 1
    /\ files' = files \cup {covers + 1}
    /\ Goes(r, [op |-> "stored", previous |-> req[r].previous, key |-> covers + 1])
    /\ UNCHANGED <<boundVars, authVars, statusVars, cover, doubtful, events>>

\* Variant: the row is updated whatever it holds.
SwitchCoverAlways(r) ==
    /\ req[r].op = "stored"
    /\ cover' = req[r].key
    /\ Goes(r, [req[r] EXCEPT !.op = "switched"])
    /\ UNCHANGED <<boundVars, authVars, statusVars, covers, files, doubtful, events>>

\* The row is switched if it still holds the key that was read.
SwitchCover(r) ==
    /\ req[r].op = "stored"
    /\ \/ /\ cover = req[r].previous
          /\ cover' = req[r].key
          /\ Goes(r, [req[r] EXCEPT !.op = "switched"])
       \/ /\ cover # req[r].previous
          /\ Goes(r, [req[r] EXCEPT !.op = "undo"])
          /\ UNCHANGED cover
    /\ UNCHANGED <<boundVars, authVars, statusVars, covers, files, doubtful, events>>

\* The database fails before the switch, or after it.
SwitchCoverFails(r) ==
    /\ req[r].op = "stored"
    /\ Fault
    /\ Goes(r, [req[r] EXCEPT !.op = "undo"])
    /\ \/ UNCHANGED <<cover, doubtful>>
       \/ /\ cover = req[r].previous
          /\ cover' = req[r].key
          /\ doubtful' = doubtful \cup {req[r].key}
    /\ UNCHANGED <<authVars, statusVars, covers, files, events>>

\* The winner removes the cover it replaced, the loser its own.
Removed(r) == IF req[r].op = "switched" THEN {req[r].previous} ELSE {req[r].key}

RemoveCover(r) ==
    /\ req[r].op \in {"switched", "undo"}
    /\ \/ files' = files \ Removed(r) /\ UNCHANGED boundVars
       \/ Fault /\ UNCHANGED files      \* unlink fails, which nobody is told
    /\ Ends(r)
    /\ UNCHANGED <<authVars, statusVars, cover, covers, doubtful, events>>

\* readPublic finds the key in the listing, and its file.
Served(key) == cover = key /\ key \in files

(***************************************************************************)
(* Visitors                                                                *)
(***************************************************************************)
Event(type, s) == events' = Append(events, [type |-> type, session |-> s, at |-> now])

\* Variant: the window is one unit short.
RecentlyViewedShort(s) ==
    \E i \in DOMAIN events :
        events[i].type = "archive_view" /\ events[i].session = s /\ events[i].at > now - ViewWindow + 1

RecentlyViewed(s) ==
    \E i \in DOMAIN events :
        events[i].type = "archive_view" /\ events[i].session = s /\ events[i].at >= now - ViewWindow

\* getArchiveBySlug, up to the look for a recent view of the same session.
ViewArchive(r, s) ==
    /\ market = "published"
    /\ \/ /\ s # NoSession /\ RecentlyViewed(s)
          /\ Arrives
          /\ UNCHANGED req
       \/ /\ s = NoSession \/ ~RecentlyViewed(s)
          /\ Starts(r, [op |-> "view", session |-> s])
    /\ UNCHANGED <<authVars, statusVars, coverVars, events>>

RecordView(r) ==
    /\ req[r].op = "view"
    /\ Event("archive_view", req[r].session)
    /\ Ends(r)
    /\ UNCHANGED <<boundVars, authVars, statusVars, coverVars>>

Download(s) ==
    /\ market = "published" /\ technical = "ready"
    /\ Arrives
    /\ Event("archive_download", s)
    /\ UNCHANGED <<authVars, statusVars, coverVars, req>>

(***************************************************************************)
(* Failures                                                                *)
(***************************************************************************)

\* The chain does not answer, an image is refused, a query fails.
RequestFails(r) ==
    /\ req[r].op \in {"login", "publish", "read", "view"}
    /\ Ends(r)
    /\ UNCHANGED <<boundVars, authVars, statusVars, coverVars, events>>

Restart ==
    /\ Fault
    /\ req' = [r \in Slots |-> Idle]
    /\ challenges' = {} /\ revoked' = {}
    /\ UNCHANGED <<made, granted, users, walletUser, tokens, statusVars, coverVars, events>>

Serve(r) ==
    \/ KnownWallet(r) \/ NewWallet(r)
    \/ Publish(r) \/ PublishWrite(r)
    \/ ReplaceCover(r) \/ StoreCover(r) \/ SwitchCover(r) \/ SwitchCoverFails(r) \/ RemoveCover(r)
    \/ RecordView(r)
    \/ RequestFails(r)

Next ==
    \/ Tick \/ ContentReady \/ Unpublish \/ BlockArchive \/ Restart
    \/ \E w \in Wallets : CreateChallenge(w)
    \/ \E t \in tokens : Logout(t)
    \/ \E s \in Visitors : Download(s)
    \/ \E r \in Slots :
        \/ Serve(r)
        \/ \E c \in challenges : VerifyChallenge(r, c)
        \/ \E s \in Visitors : ViewArchive(r, s)

Spec == Init /\ [][Next]_vars

(***************************************************************************)
(* Properties                                                              *)
(***************************************************************************)

\* However logins of one wallet race, fail and meet a restart, a wallet has one
\* user and a user one wallet, every token ever issued is for that user, and
\* every login had a challenge of its own.
LoginsAreAccounted ==
    /\ \A t \in tokens : walletUser[t.wallet] = t.user
    /\ \A u \in 1..users : \E w \in Wallets : \A x \in Wallets : walletUser[x] = u <=> x = w
    /\ LET verified == {r \in Slots : req[r].op = "login"}
       IN  granted + Cardinality(verified) + Cardinality(challenges) <= made

Holds(r, key) ==
    /\ req[r].op \in {"stored", "switched", "undo"}
    /\ key \in {req[r].key, req[r].previous}

\* Whatever replacements race or fail, the cover the listing names is served,
\* unless the database committed its switch without saying so; and a file that
\* is neither that cover nor in the hands of a request was left by a failure,
\* one for each request that met it.
CoverIsWhole ==
    /\ cover # 0 /\ cover \notin doubtful => Served(cover)
    /\ LET left == {k \in files : k # cover /\ \A r \in Slots : ~Holds(r, k)}
       IN  Cardinality(left) <= faults * Cardinality(Slots)

\* Page loads that overlap may each find no recent view, but no more views of a
\* session are ever counted within a window than loads can overlap.
ViewsAreDeduplicated ==
    \A s \in Sessions, last \in DOMAIN events :
        Cardinality({i \in 1..last : /\ events[i].type = "archive_view"
                                     /\ events[i].session = s
                                     /\ events[i].at >= events[last].at - ViewWindow})
            <= Cardinality(Slots)

\* docs/API.md: "An administrative cancellation/block stops new issuance
\* immediately."  A blocked archive is on sale again only by a publish that
\* found it blocked.
BlockStopsSale ==
    [][market = "blocked" /\ market' = "published" =>
        \E r \in Slots : req[r].op = "publish" /\ req[r].seen = "blocked"]_vars

(***************************************************************************)
(* The inductive invariant                                                 *)
(***************************************************************************)

\* A login works with the user its wallet has, or had none when it looked.
FoundInv ==
    \A r \in Slots :
        req[r].op = "login" /\ req[r].found # 0 => walletUser[req[r].wallet] = req[r].found

\* Each challenge is counted once: unused, being verified, or granted.
ChallengesInv == IsFiniteSet(challenges)

InHand(r) == req[r].op \in {"stored", "switched", "undo"}

\* A key is drawn once and becomes the cover at most once, by its request: no
\* other request has it for its own or found it as the cover before that.
KeysInv ==
    /\ \A r, q \in Slots : InHand(r) /\ InHand(q) /\ req[r].key = req[q].key => r = q
    /\ \A r \in Slots : req[r].op = "stored" => req[r].key \in files /\ req[r].key # cover
    /\ \A r, q \in Slots :
          req[r].op = "stored" /\ (req[q].op = "read" \/ InHand(q)) => req[q].previous # req[r].key
    /\ \A r \in Slots : req[r].op = "switched" => req[r].previous # cover
    /\ \A r \in Slots : req[r].op = "undo" /\ req[r].key = cover => cover \in doubtful

\* What a request will remove before it ends, unless it switches the cover.
Removes(r) ==
    IF req[r].op = "switched" THEN {req[r].previous}
    ELSE IF InHand(r) THEN {req[r].key} ELSE {}

\* Files that nobody will remove although no listing names them; a request may
\* still hold one as the cover it has found.
Orphans == {k \in files : k # cover /\ \A r \in Slots : k \notin Removes(r)}
OrphansInv == Cardinality(Orphans) <= faults * Cardinality(Slots)

Views(s, last, from) ==
    {i \in 1..last :
        events[i].type = "archive_view" /\ events[i].session = s /\ events[i].at >= from}
Viewing(s) == {r \in Slots : req[r].op = "view" /\ req[r].session = s}

\* A view that was recorded within the window turns away the loads that begin
\* after it, so the recorded and the pending ones were once in slots together.
ViewsInv ==
    \A s \in Sessions :
        Cardinality(Views(s, Len(events), now - ViewWindow)) + Cardinality(Viewing(s))
            <= Cardinality(Slots)

IInv ==
    /\ TypeOK
    /\ FoundInv /\ ChallengesInv /\ LoginsAreAccounted
    /\ KeysInv /\ OrphansInv /\ (cover # 0 /\ cover \notin doubtful => Served(cover))
    /\ ViewsInv /\ ViewsAreDeduplicated
=============================================================================
