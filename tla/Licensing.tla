----------------------------- MODULE Licensing -----------------------------
(***************************************************************************)
(* Device licences of one paid entitlement (apps/api/src/modules/licensing): *)
(* the activation and licence rows of its only Device A, the nonces that were *)
(* used up, and the concurrent activateDevice and refreshLicense requests.  *)
(*                                                                         *)
(* An activation locks the entitlement row, a refresh locks the licence row. *)
(* Both read under their lock, then unseal the content key from custody (an *)
(* await), and make everything visible in one commit; an UPDATE of the      *)
(* licence row waits for its lock.                                         *)
(***************************************************************************)
EXTENDS Integers, FiniteSets

CONSTANTS
    Requests,       \* concurrent HTTP requests
    Nonces,         \* request nonces a client may send
    Tokens,         \* device refresh tokens the API may generate
    Recovery,       \* activation-recovery window (10 minutes)
    MaxTime,        \* bound: the clock stops here
    NoToken, NoRequest, NoNonce

ASSUME RecoveryAssumption == Recovery \in Nat
ASSUME MaxTimeAssumption == MaxTime \in Nat
ASSUME NullAssumption ==
    /\ NoToken \notin Tokens
    /\ NoRequest \notin Requests
    /\ NoNonce \notin Nonces

VARIABLES
    now,                \* the API's clock
    eligible,           \* archive ready and (un)published, entitlement active
    activations,        \* number of device_activations rows, each with its licence
    devicesActivated,   \* entitlements.devices_activated
    activatedAt,        \* device_activations.activated_at
    license,            \* device_licenses: issuedAt and the current refresh token
    usedNonces,         \* request_nonce_records
    entitlementLock, licenseLock,
    request,            \* the requests in progress
    granted             \* the answers that carried a licence grant

envVars == <<now, eligible>>
recordVars == <<activations, devicesActivated, activatedAt, license, usedNonces>>
lockVars == <<entitlementLock, licenseLock>>
vars == <<envVars, recordVars, lockVars, request, granted>>

Kind == {"activate", "refresh"}

Request == [pc       : {"idle", "sent", "found", "custody"},
            kind     : Kind,
            nonce    : Nonces \cup {NoNonce},
            token    : Tokens \cup {NoToken},   \* the token a refresh presents
            issuedAt : Nat,
            create   : BOOLEAN]                 \* no activation row was found

Grant == [kind : Kind, nonce : Nonces, token : Tokens, issuedAt : Nat]

Idle == [pc |-> "idle", kind |-> "activate", nonce |-> NoNonce, token |-> NoToken,
         issuedAt |-> 0, create |-> FALSE]

TypeOK ==
    /\ now \in Nat
    /\ eligible \in BOOLEAN
    /\ activations \in Nat
    /\ devicesActivated \in Nat
    /\ activatedAt \in Nat
    /\ license \in [issuedAt : Nat, token : Tokens \cup {NoToken}]
    /\ usedNonces \in SUBSET (Kind \X Nonces)
    /\ entitlementLock \in Requests \cup {NoRequest}
    /\ licenseLock \in Requests \cup {NoRequest}
    /\ request \in [Requests -> Request]
    /\ granted \in SUBSET Grant

Init ==
    /\ now = 0
    /\ eligible = TRUE
    /\ activations = 0
    /\ devicesActivated = 0
    /\ activatedAt = 0
    /\ license = [issuedAt |-> 0, token |-> NoToken]
    /\ usedNonces = {}
    /\ entitlementLock = NoRequest
    /\ licenseLock = NoRequest
    /\ request = [r \in Requests |-> Idle]
    /\ granted = {}

UsedTokens == {g.token : g \in granted}

(***************************************************************************)
(* Environment                                                             *)
(***************************************************************************)
Tick ==
    /\ now < MaxTime
    /\ now' = now + 1
    /\ UNCHANGED <<eligible, recordVars, lockVars, request, granted>>

\* The creator publishes or unpublishes, the moderator blocks, the creator
\* publishes again.
EligibilityChanges ==
    /\ eligible' = ~eligible
    /\ UNCHANGED <<now, recordVars, lockVars, request, granted>>

\* Bound: a token is left for every activation in progress.
TokenLeft ==
    LET activating == {q \in Requests : request[q].pc # "idle" /\ request[q].kind = "activate"}
    IN  Cardinality(UsedTokens) + Cardinality(activating) < Cardinality(Tokens)

\* A request arrives.  The intent secret of an activation and the device key
\* never change, so a request that fails to present them changes nothing.
Send(r, kind, n, t) ==
    /\ request[r].pc = "idle"
    /\ t = NoToken <=> kind = "activate"
    /\ kind = "activate" => TokenLeft
    /\ request' = [request EXCEPT ![r] =
            [Idle EXCEPT !.pc = "sent", !.kind = kind, !.nonce = n, !.token = t]]
    /\ UNCHANGED <<envVars, recordVars, lockVars, granted>>

(***************************************************************************)
(* Steps of a request                                                      *)
(***************************************************************************)
GrantTo(r, token) ==
    /\ request' = [request EXCEPT ![r] = Idle]
    /\ granted' = granted \cup
            {[kind |-> request[r].kind, nonce |-> request[r].nonce,
              token |-> token, issuedAt |-> request[r].issuedAt]}

Refuse(r) ==
    /\ request' = [request EXCEPT ![r] = Idle]
    /\ UNCHANGED granted

\* assertEntitlementAuthority, then the nonce record of this credential.
Allowed(r) ==
    /\ eligible
    /\ <<request[r].kind, request[r].nonce>> \notin usedNonces

\* Variant: the entitlement row is read without FOR UPDATE.
ActivateLockNoWait(r) ==
    /\ request[r].pc = "sent" /\ request[r].kind = "activate"
    /\ Allowed(r)
    /\ activations > 0 => now - activatedAt <= Recovery
    /\ entitlementLock' = r
    /\ request' = [request EXCEPT ![r].pc = "custody", ![r].issuedAt = now,
                                  ![r].create = activations = 0]
    /\ UNCHANGED <<envVars, recordVars, licenseLock, granted>>

\* Variant: the window slides, it is measured from the last grant.
ActivateLockSliding(r) ==
    /\ request[r].pc = "sent" /\ request[r].kind = "activate"
    /\ entitlementLock = NoRequest
    /\ Allowed(r)
    /\ activations > 0 => now - license.issuedAt <= Recovery
    /\ entitlementLock' = r
    /\ request' = [request EXCEPT ![r].pc = "custody", ![r].issuedAt = now,
                                  ![r].create = activations = 0]
    /\ UNCHANGED <<envVars, recordVars, licenseLock, granted>>

\* activateDevice up to the custody: with the entitlement row locked, the nonce
\* is new and the activation, when there is one already, is recent.
ActivateLock(r) ==
    /\ request[r].pc = "sent" /\ request[r].kind = "activate"
    /\ entitlementLock = NoRequest
    /\ \/ /\ \/ ~Allowed(r)
             \/ activations > 0 /\ now - activatedAt > Recovery
          /\ Refuse(r)
          /\ UNCHANGED entitlementLock
       \/ /\ Allowed(r)
          /\ activations > 0 => now - activatedAt <= Recovery
          /\ entitlementLock' = r
          /\ request' = [request EXCEPT ![r].pc = "custody", ![r].issuedAt = now,
                                        ![r].create = activations = 0]
          /\ UNCHANGED granted
    /\ UNCHANGED <<envVars, recordVars, licenseLock>>

\* The rest of activateDevice: the nonce is used up, the sole activation and
\* licence are created or the licence is renewed, and the refresh token is
\* replaced.  activated_at is the time of the INSERT.
ActivateCommit(r) ==
    /\ request[r].pc = "custody" /\ request[r].kind = "activate"
    /\ licenseLock = NoRequest
    /\ usedNonces' = usedNonces \cup {<<"activate", request[r].nonce>>}
    /\ IF request[r].create
         THEN /\ activations' = activations + 1
              /\ devicesActivated' = devicesActivated + 1
              /\ activatedAt' \in request[r].issuedAt..now
         ELSE UNCHANGED <<activations, devicesActivated, activatedAt>>
    /\ \E t \in Tokens \ UsedTokens :
        /\ license' = [issuedAt |-> request[r].issuedAt, token |-> t]
        /\ GrantTo(r, t)
    /\ entitlementLock' = NoRequest
    /\ UNCHANGED <<envVars, licenseLock>>

\* refreshLicense finds the licence by the token's HMAC, before its transaction.
RefreshFind(r) ==
    /\ request[r].pc = "sent" /\ request[r].kind = "refresh"
    /\ IF license.token = request[r].token
         THEN request' = [request EXCEPT ![r].pc = "found"] /\ UNCHANGED granted
         ELSE Refuse(r)
    /\ UNCHANGED <<envVars, recordVars, lockVars>>

\* Variant: the token is not compared again under the lock.
RefreshLockNoRecheck(r) ==
    /\ request[r].pc = "found"
    /\ licenseLock = NoRequest
    /\ Allowed(r)
    /\ licenseLock' = r
    /\ request' = [request EXCEPT ![r].pc = "custody", ![r].issuedAt = now]
    /\ UNCHANGED <<envVars, recordVars, entitlementLock, granted>>

\* With the licence row locked, the token is still the current one.
RefreshLock(r) ==
    /\ request[r].pc = "found"
    /\ licenseLock = NoRequest
    /\ \/ /\ license.token # request[r].token \/ ~Allowed(r)
          /\ Refuse(r)
          /\ UNCHANGED licenseLock
       \/ /\ license.token = request[r].token
          /\ Allowed(r)
          /\ licenseLock' = r
          /\ request' = [request EXCEPT ![r].pc = "custody", ![r].issuedAt = now]
          /\ UNCHANGED granted
    /\ UNCHANGED <<envVars, recordVars, entitlementLock>>

\* Variant: last_seen_at is written to the entitlement row, which it then waits for.
RefreshCommitBothRows(r) ==
    /\ request[r].pc = "custody" /\ request[r].kind = "refresh"
    /\ entitlementLock = NoRequest
    /\ usedNonces' = usedNonces \cup {<<"refresh", request[r].nonce>>}
    /\ license' = [license EXCEPT !.issuedAt = request[r].issuedAt]
    /\ GrantTo(r, request[r].token)
    /\ licenseLock' = NoRequest
    /\ UNCHANGED <<envVars, activations, devicesActivated, activatedAt, entitlementLock>>

\* Variant: the nonce is compared but not recorded.
RefreshCommitForgetsNonce(r) ==
    /\ request[r].pc = "custody" /\ request[r].kind = "refresh"
    /\ license' = [license EXCEPT !.issuedAt = request[r].issuedAt]
    /\ GrantTo(r, request[r].token)
    /\ licenseLock' = NoRequest
    /\ UNCHANGED <<envVars, activations, devicesActivated, activatedAt, usedNonces,
                   entitlementLock>>

\* The licence starts a new offline window and keeps its token.
RefreshCommit(r) ==
    /\ request[r].pc = "custody" /\ request[r].kind = "refresh"
    /\ usedNonces' = usedNonces \cup {<<"refresh", request[r].nonce>>}
    /\ license' = [license EXCEPT !.issuedAt = request[r].issuedAt]
    /\ GrantTo(r, request[r].token)
    /\ licenseLock' = NoRequest
    /\ UNCHANGED <<envVars, activations, devicesActivated, activatedAt, entitlementLock>>

\* Custody or database failure, the 30 s transaction timeout, a crash: rollback,
\* and no answer the client could act on.
Abort(r) ==
    /\ request[r].pc # "idle"
    /\ request' = [request EXCEPT ![r] = Idle]
    /\ entitlementLock' = IF entitlementLock = r THEN NoRequest ELSE entitlementLock
    /\ licenseLock' = IF licenseLock = r THEN NoRequest ELSE licenseLock
    /\ UNCHANGED <<envVars, recordVars, granted>>

Progress(r) ==
    \/ ActivateLock(r) \/ ActivateCommit(r)
    \/ RefreshFind(r) \/ RefreshLock(r) \/ RefreshCommit(r)

Next ==
    \/ Tick
    \/ EligibilityChanges
    \/ \E r \in Requests :
        \/ \E n \in Nonces, t \in UsedTokens : Send(r, "refresh", n, t)
        \/ \E n \in Nonces : Send(r, "activate", n, NoToken)
        \/ Progress(r)
        \/ Abort(r)

Spec == Init /\ [][Next]_vars

\* A request that waits for a row lock gets it when the lock is free again and
\* again; the custody answers.
FairSpec == Spec /\ \A r \in Requests : SF_vars(Progress(r))

(***************************************************************************)
(* Properties                                                              *)
(***************************************************************************)

\* Whatever activations run at the same time, the entitlement gets one Device A,
\* with its one licence, and counts it once.
OneDevice ==
    /\ activations <= 1
    /\ devicesActivated = activations
    /\ license.token # NoToken <=> activations = 1

\* A nonce is granted at most once per credential, also when it is sent again
\* while, or long after, its first request runs ("Every activation/refresh
\* request nonce is single-use", docs/API.md).
NonceSingleUse ==
    \A a, b \in granted : a.kind = b.kind /\ a.nonce = b.nonce => a = b

\* The intent secret grants nothing after the recovery window of the first
\* activation; retries do not extend the window.
RecoveryIsBounded ==
    \A a \in granted : a.kind = "activate" => a.issuedAt <= activatedAt + Recovery

GrantsCurrentToken ==
    \A a \in granted' \ granted :
        a.kind = "refresh" => a.token = license.token /\ UNCHANGED license.token

\* A retried activation "atomically invalidates the previous refresh token"
\* (docs/API.md): a refresh that presented it is never granted from then on,
\* even when it found the licence before.
RotatedTokenIsDead ==
    [][GrantsCurrentToken]_vars

\* The two row locks are taken in an order that cannot deadlock: every request
\* that arrives ends, without the transaction timeout having to step in.
RequestsEnd ==
    \A r \in Requests : request[r].pc # "idle" ~> request[r].pc = "idle"

(***************************************************************************)
(* The inductive invariant                                                 *)
(***************************************************************************)
Busy(r, kind) == request[r].pc = "custody" /\ request[r].kind = kind

\* A row lock is held by the one request whose transaction is under way.
LockInv ==
    \A r \in Requests :
        /\ Busy(r, "activate") <=> entitlementLock = r
        /\ Busy(r, "refresh") <=> licenseLock = r

\* What a request read under its lock still holds when it commits.
ReadInv ==
    \A r \in Requests :
        /\ request[r].pc # "idle" => request[r].nonce \in Nonces
        /\ request[r].pc = "found" => request[r].kind = "refresh"
        /\ request[r].pc # "idle" /\ request[r].kind = "refresh" => request[r].token \in Tokens
        /\ request[r].pc = "custody" => <<request[r].kind, request[r].nonce>> \notin usedNonces
        /\ Busy(r, "refresh") => request[r].token = license.token
        /\ Busy(r, "activate") =>
              /\ request[r].create <=> activations = 0
              /\ ~request[r].create => request[r].issuedAt <= activatedAt + Recovery

\* Grants leave their nonce behind, and follow the first activation.
GrantInv ==
    \A g \in granted :
        /\ <<g.kind, g.nonce>> \in usedNonces
        /\ activations = 1

IInv ==
    /\ TypeOK
    /\ OneDevice
    /\ LockInv
    /\ ReadInv
    /\ GrantInv
    /\ NonceSingleUse
    /\ RecoveryIsBounded

\* docs/API.md: "A deliberate retry uses a fresh nonce and is serialized under
\* the same intent/license row lock", so the licence row holds the latest
\* window that was granted.
LicenseRowIsLatest ==
    \A a \in granted : a.issuedAt <= license.issuedAt
=============================================================================
