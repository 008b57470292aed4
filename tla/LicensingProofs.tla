-------------------------- MODULE LicensingProofs --------------------------
(***************************************************************************)
(* Proofs about Licensing, for any number of concurrent requests, nonces   *)
(* and tokens, any recovery window and any clock.                          *)
(***************************************************************************)
EXTENDS Licensing, TLAPS

USE NullAssumption, RecoveryAssumption, MaxTimeAssumption

(***************************************************************************)
(* Type correctness                                                        *)
(***************************************************************************)

\* Initially every variable is in its type.
LEMMA TypeInit == Init => TypeOK
    BY DEF Init, TypeOK, Request, Idle, Kind

\* Every token that was granted is one the API may generate.
LEMMA UsedTokensAreTokens == TypeOK => UsedTokens \subseteq Tokens
    BY DEF TypeOK, UsedTokens, Grant

\* A refusal and a grant end the request and keep its types.
LEMMA TypeRefuse ==
    ASSUME TypeOK, NEW r \in Requests, Refuse(r)
    PROVE  request' \in [Requests -> Request] /\ granted' \in SUBSET Grant
<1>1. Idle \in Request
    BY DEF Idle, Request, Kind
<1>2. QED
    BY <1>1 DEF TypeOK, Refuse

\* So does a grant of a token the API may generate.
LEMMA TypeGrant ==
    ASSUME TypeOK, NEW r \in Requests, request[r].nonce \in Nonces,
           NEW t \in Tokens, GrantTo(r, t)
    PROVE  request' \in [Requests -> Request] /\ granted' \in SUBSET Grant
<1>1. Idle \in Request
    BY DEF Idle, Request, Kind
<1>2. [kind |-> request[r].kind, nonce |-> request[r].nonce,
       token |-> t, issuedAt |-> request[r].issuedAt] \in Grant
    BY DEF TypeOK, Request, Grant
<1>3. QED
    BY <1>1, <1>2 DEF TypeOK, GrantTo

\* Every step keeps every variable in its type.
LEMMA TypeNext == ASSUME TypeOK, ReadInv, [Next]_vars PROVE TypeOK'
<1> USE DEF TypeOK, envVars, recordVars, lockVars
<1>1. CASE Tick
    BY <1>1 DEF Tick
<1>2. CASE EligibilityChanges
    BY <1>2 DEF EligibilityChanges
<1>3. ASSUME NEW r \in Requests, NEW kind \in Kind, NEW n \in Nonces,
             NEW t \in Tokens \cup {NoToken}, Send(r, kind, n, t)
      PROVE  TypeOK'
  <2>1. [Idle EXCEPT !.pc = "sent", !.kind = kind, !.nonce = n, !.token = t] \in Request
    BY DEF Idle, Request
  <2>2. request' \in [Requests -> Request]
    BY <1>3, <2>1 DEF Send
  <2>3. QED
    BY <1>3, <2>2 DEF Send
<1>4. ASSUME NEW r \in Requests, ActivateLock(r) PROVE TypeOK'
  <2>1. CASE Refuse(r) /\ UNCHANGED <<envVars, recordVars, lockVars>>
    BY <2>1, TypeRefuse
  <2>2. CASE /\ request' = [request EXCEPT ![r].pc = "custody", ![r].issuedAt = now,
                                           ![r].create = activations = 0]
             /\ entitlementLock' = r
             /\ UNCHANGED <<envVars, recordVars, licenseLock, granted>>
    <3>1. [request[r] EXCEPT !.pc = "custody", !.issuedAt = now,
                             !.create = activations = 0] \in Request
      <4>1. (activations = 0) \in BOOLEAN
        BY Zenon
      <4>2. request[r] \in Request /\ now \in Nat
        BY DEF TypeOK
      <4> DEFINE first == activations = 0
      <4>3. first \in BOOLEAN
        BY <4>1
      <4> HIDE DEF first
      <4>4. [request[r] EXCEPT !.pc = "custody", !.issuedAt = now, !.create = first] \in Request
        BY <4>2, <4>3 DEF Request
      <4>5. QED
        BY <4>4 DEF first
    <3>2. request' = [request EXCEPT ![r] = [request[r] EXCEPT !.pc = "custody",
                        !.issuedAt = now, !.create = activations = 0]]
      BY <2>2
    <3>3. request' \in [Requests -> Request]
      BY <3>1, <3>2
    <3>4. QED
      BY <2>2, <3>3
  <2>3. QED
    BY <1>4, <2>1, <2>2 DEF ActivateLock
<1>5. ASSUME NEW r \in Requests, ActivateCommit(r) PROVE TypeOK'
  <2>1. PICK t \in Tokens : license' = [issuedAt |-> request[r].issuedAt, token |-> t]
                            /\ GrantTo(r, t)
    BY <1>5 DEF ActivateCommit
  <2>2. request[r].nonce \in Nonces /\ request[r].issuedAt \in Nat
    BY <1>5 DEF ActivateCommit, ReadInv, Request
  <2>3. request' \in [Requests -> Request] /\ granted' \in SUBSET Grant
    BY <2>1, <2>2, TypeGrant
  <2>4. license' \in [issuedAt : Nat, token : Tokens \cup {NoToken}]
    BY <2>1, <2>2
  <2>5. usedNonces' \in SUBSET (Kind \X Nonces)
    BY <1>5, <2>2 DEF ActivateCommit, Kind
  <2>6. activations' \in Nat /\ devicesActivated' \in Nat /\ activatedAt' \in Nat
    BY <1>5, <2>2 DEF ActivateCommit
  <2>7. QED
    BY <1>5, <2>3, <2>4, <2>5, <2>6 DEF ActivateCommit
<1>6. ASSUME NEW r \in Requests, RefreshFind(r) PROVE TypeOK'
  <2>1. CASE Refuse(r)
    BY <1>6, <2>1, TypeRefuse DEF RefreshFind
  <2>2. CASE request' = [request EXCEPT ![r].pc = "found"] /\ UNCHANGED granted
    <3>1. request' \in [Requests -> Request]
      BY <2>2 DEF Request
    <3>2. QED
      BY <1>6, <2>2, <3>1 DEF RefreshFind
  <2>3. QED
    BY <1>6, <2>1, <2>2, Zenon DEF RefreshFind
<1>7. ASSUME NEW r \in Requests, RefreshLock(r) PROVE TypeOK'
  <2>1. CASE Refuse(r) /\ UNCHANGED <<envVars, recordVars, lockVars>>
    BY <2>1, TypeRefuse
  <2>2. CASE /\ request' = [request EXCEPT ![r].pc = "custody", ![r].issuedAt = now]
             /\ licenseLock' = r
             /\ UNCHANGED <<envVars, recordVars, entitlementLock, granted>>
    <3>1. [request[r] EXCEPT !.pc = "custody", !.issuedAt = now] \in Request
      <4>1. request[r] \in Request /\ now \in Nat
        BY DEF TypeOK
      <4>2. QED
        BY <4>1 DEF Request
    <3>2. request' = [request EXCEPT ![r] =
                        [request[r] EXCEPT !.pc = "custody", !.issuedAt = now]]
      BY <2>2
    <3>3. request' \in [Requests -> Request]
      BY <3>1, <3>2
    <3>4. QED
      BY <2>2, <3>3
  <2>3. QED
    BY <1>7, <2>1, <2>2 DEF RefreshLock
<1>8. ASSUME NEW r \in Requests, RefreshCommit(r) PROVE TypeOK'
  <2>1. /\ request[r].nonce \in Nonces /\ request[r].token \in Tokens
        /\ request[r].issuedAt \in Nat
    BY <1>8 DEF RefreshCommit, ReadInv, Request
  <2>2. request' \in [Requests -> Request] /\ granted' \in SUBSET Grant
    BY <1>8, <2>1, TypeGrant DEF RefreshCommit
  <2>3. license' \in [issuedAt : Nat, token : Tokens \cup {NoToken}]
    BY <1>8, <2>1 DEF RefreshCommit
  <2>4. usedNonces' \in SUBSET (Kind \X Nonces)
    BY <1>8, <2>1 DEF RefreshCommit, Kind
  <2>5. QED
    BY <1>8, <2>2, <2>3, <2>4 DEF RefreshCommit
<1>9. ASSUME NEW r \in Requests, Abort(r) PROVE TypeOK'
  <2>1. request' \in [Requests -> Request]
    BY <1>9 DEF Abort, Request, Idle, Kind
  <2>2. QED
    BY <1>9, <2>1 DEF Abort
<1>10. CASE UNCHANGED vars
    BY <1>10 DEF vars
<1>11. QED
    BY <1>1, <1>2, <1>3, <1>4, <1>5, <1>6, <1>7, <1>8, <1>9, <1>10, UsedTokensAreTokens
       DEF Next, Progress, Kind

(***************************************************************************)
(* Safety                                                                  *)
(***************************************************************************)

\* Nothing is granted, locked or in progress before the first request.
LEMMA InvInit == Init => IInv
<1> SUFFICES ASSUME Init PROVE IInv
    OBVIOUS
<1>1. TypeOK
    BY TypeInit
<1>2. LockInv /\ ReadInv
    BY DEF Init, LockInv, ReadInv, Busy, Idle
<1>3. OneDevice /\ GrantInv /\ NonceSingleUse /\ RecoveryIsBounded
    BY DEF Init, OneDevice, GrantInv, NonceSingleUse, RecoveryIsBounded
<1>4. QED
    BY <1>1, <1>2, <1>3 DEF IInv

\* A row lock is held by the one request whose transaction is under way, also
\* after the step.
LEMMA LockNext == ASSUME TypeOK, LockInv, ReadInv, [Next]_vars PROVE LockInv'
<1> USE DEF TypeOK, LockInv, Busy, lockVars
<1>1. CASE Tick \/ EligibilityChanges \/ UNCHANGED vars
    BY <1>1 DEF Tick, EligibilityChanges, vars
<1>2. ASSUME NEW r \in Requests, NEW kind \in Kind, NEW n \in Nonces,
             NEW t \in Tokens \cup {NoToken}, Send(r, kind, n, t)
      PROVE  LockInv'
    BY <1>2 DEF Send, Idle
<1>3. ASSUME NEW r \in Requests, ActivateLock(r) PROVE LockInv'
  <2>1. CASE Refuse(r) /\ UNCHANGED <<entitlementLock, licenseLock>>
    BY <1>3, <2>1 DEF ActivateLock, Refuse, Idle
  <2>2. CASE /\ request' = [request EXCEPT ![r].pc = "custody", ![r].issuedAt = now,
                                           ![r].create = activations = 0]
             /\ entitlementLock' = r
             /\ UNCHANGED licenseLock
    <3>1. \A q \in Requests :
            /\ request'[q].pc = IF q = r THEN "custody" ELSE request[q].pc
            /\ request'[q].kind = request[q].kind
      BY <2>2 DEF Request
    <3>2. QED
      BY <1>3, <2>2, <3>1 DEF ActivateLock
  <2>3. QED
    BY <1>3, <2>1, <2>2 DEF ActivateLock
<1>4. ASSUME NEW r \in Requests, ActivateCommit(r) PROVE LockInv'
    BY <1>4 DEF ActivateCommit, GrantTo, Idle
<1>5. ASSUME NEW r \in Requests, RefreshFind(r) PROVE LockInv'
  <2>1. CASE Refuse(r)
    BY <1>5, <2>1 DEF RefreshFind, Refuse, Idle
  <2>2. CASE request' = [request EXCEPT ![r].pc = "found"]
    BY <1>5, <2>2 DEF RefreshFind
  <2>3. QED
    BY <1>5, <2>1, <2>2, Zenon DEF RefreshFind
<1>6. ASSUME NEW r \in Requests, RefreshLock(r) PROVE LockInv'
  <2>1. CASE Refuse(r) /\ UNCHANGED <<entitlementLock, licenseLock>>
    BY <1>6, <2>1 DEF RefreshLock, Refuse, Idle
  <2>2. CASE /\ request' = [request EXCEPT ![r].pc = "custody", ![r].issuedAt = now]
             /\ licenseLock' = r
             /\ UNCHANGED entitlementLock
    <3>1. \A q \in Requests :
            /\ request'[q].pc = IF q = r THEN "custody" ELSE request[q].pc
            /\ request'[q].kind = request[q].kind
      BY <2>2 DEF Request
    <3>2. request[r].pc = "found" /\ request[r].kind = "refresh" /\ licenseLock = NoRequest
      BY <1>6 DEF RefreshLock, ReadInv
    <3>3. QED
      BY <2>2, <3>1, <3>2
  <2>3. QED
    BY <1>6, <2>1, <2>2 DEF RefreshLock
<1>7. ASSUME NEW r \in Requests, RefreshCommit(r) PROVE LockInv'
    BY <1>7 DEF RefreshCommit, GrantTo, Idle
<1>8. ASSUME NEW r \in Requests, Abort(r) PROVE LockInv'
    BY <1>8 DEF Abort, Idle
<1>9. QED
    BY <1>1, <1>2, <1>3, <1>4, <1>5, <1>6, <1>7, <1>8, UsedTokensAreTokens
       DEF Next, Progress, Kind

\* Some request commits.
Commits == \E r \in Requests : ActivateCommit(r) \/ RefreshCommit(r)

\* Only a commit changes the records.
LEMMA OnlyCommitsWrite ==
    ASSUME [Next]_vars, ~Commits PROVE UNCHANGED <<recordVars, granted>>
    BY DEF Next, Commits, Progress, Tick, EligibilityChanges, Send, ActivateLock, RefreshFind,
       RefreshLock, Abort, Refuse, recordVars, vars

\* What a request read under its lock still holds after the step: a commit of
\* another request of its kind waits for the same lock, and a rotation of the
\* token waits for the licence lock.
LEMMA ReadNext == ASSUME IInv, [Next]_vars PROVE ReadInv'
<1> USE DEF IInv, TypeOK, ReadInv, Busy, recordVars
<1>1. CASE Tick \/ EligibilityChanges \/ UNCHANGED vars
    BY <1>1 DEF Tick, EligibilityChanges, vars
<1>2. ASSUME NEW r \in Requests, NEW kind \in Kind, NEW n \in Nonces,
             NEW t \in Tokens \cup {NoToken}, Send(r, kind, n, t)
      PROVE  ReadInv'
    BY <1>2 DEF Send, Idle, Kind
<1>3. ASSUME NEW r \in Requests, ActivateLock(r) PROVE ReadInv'
  <2>1. CASE Refuse(r)
    BY <1>3, <2>1 DEF ActivateLock, Refuse, Idle
  <2>2. CASE /\ Allowed(r)
             /\ activations > 0 => now - activatedAt <= Recovery
             /\ request' = [request EXCEPT ![r].pc = "custody", ![r].issuedAt = now,
                                           ![r].create = activations = 0]
    <3>1. \A q \in Requests \ {r} : request'[q] = request[q]
      BY <2>2
    <3>2. /\ request'[r].kind = request[r].kind /\ request'[r].nonce = request[r].nonce
          /\ request'[r].token = request[r].token /\ request'[r].issuedAt = now
      BY <2>2 DEF Request
    <3>3. request'[r].create <=> activations = 0
      <4>1. request'[r] = [[[request[r] EXCEPT !.pc = "custody"] EXCEPT !.issuedAt = now]
                             EXCEPT !.create = (activations = 0)]
        BY <2>2
      <4>2. request'[r].create = (activations = 0)
        BY <4>1 DEF Request
      <4>3. QED
        BY <4>2, Zenon
    <3>4. UNCHANGED <<recordVars, granted>> /\ request[r].pc = "sent"
          /\ request[r].kind = "activate"
      BY <1>3 DEF ActivateLock, Refuse
    <3>5. \A q \in Requests \ {r} :
            /\ request'[q].pc # "idle" => request'[q].nonce \in Nonces
            /\ request'[q].pc = "found" => request'[q].kind = "refresh"
      BY <3>1
    <3>6. ~request'[r].create => now <= activatedAt + Recovery
      BY <2>2, <3>3
    <3>7. QED
      BY <2>2, <3>1, <3>2, <3>3, <3>4, <3>6 DEF Allowed
  <2>3. QED
    BY <1>3, <2>1, <2>2 DEF ActivateLock
<1>4. ASSUME NEW r \in Requests, ActivateCommit(r) PROVE ReadInv'
  <2>1. \A q \in Requests : q # r /\ request[q].pc = "custody" => FALSE
    BY <1>4 DEF ActivateCommit, LockInv, Request, Kind
  <2>2. request' = [request EXCEPT ![r] = Idle]
    BY <1>4 DEF ActivateCommit, GrantTo
  <2>3. QED
    BY <2>1, <2>2 DEF Idle
<1>5. ASSUME NEW r \in Requests, RefreshFind(r) PROVE ReadInv'
  <2>1. CASE Refuse(r)
    BY <1>5, <2>1 DEF RefreshFind, Refuse, Idle
  <2>2. CASE request' = [request EXCEPT ![r].pc = "found"]
    BY <1>5, <2>2 DEF RefreshFind
  <2>3. QED
    BY <1>5, <2>1, <2>2, Zenon DEF RefreshFind
<1>6. ASSUME NEW r \in Requests, RefreshLock(r) PROVE ReadInv'
  <2>1. CASE Refuse(r)
    BY <1>6, <2>1 DEF RefreshLock, Refuse, Idle
  <2>2. CASE /\ license.token = request[r].token
             /\ Allowed(r)
             /\ request' = [request EXCEPT ![r].pc = "custody", ![r].issuedAt = now]
    BY <1>6, <2>2 DEF RefreshLock, Allowed
  <2>3. QED
    BY <1>6, <2>1, <2>2 DEF RefreshLock
<1>7. ASSUME NEW r \in Requests, RefreshCommit(r) PROVE ReadInv'
  <2>1. \A q \in Requests : q # r => ~Busy(q, "refresh")
    BY <1>7 DEF RefreshCommit, LockInv
  <2>2. request' = [request EXCEPT ![r] = Idle] /\ license'.token = license.token
    BY <1>7 DEF RefreshCommit, GrantTo
  <2>3. QED
    BY <1>7, <2>1, <2>2 DEF RefreshCommit, Idle, Request, Kind
<1>8. ASSUME NEW r \in Requests, Abort(r) PROVE ReadInv'
    BY <1>8 DEF Abort, Idle
<1>9. QED
    BY <1>1, <1>2, <1>3, <1>4, <1>5, <1>6, <1>7, <1>8, UsedTokensAreTokens
       DEF Next, Progress, Kind
\* A commit grants one licence: to a request that holds its lock, whose nonce is
\* new, for the device's only activation.
LEMMA CommitNext ==
    ASSUME IInv, Commits
    PROVE  OneDevice' /\ GrantInv' /\ NonceSingleUse' /\ RecoveryIsBounded'
<1> USE DEF IInv, TypeOK, Grant
<1>1. ASSUME NEW r \in Requests, ActivateCommit(r)
      PROVE  OneDevice' /\ GrantInv' /\ NonceSingleUse' /\ RecoveryIsBounded'
  <2> DEFINE n == request[r].nonce
  <2>1. PICK t \in Tokens :
          /\ license' = [issuedAt |-> request[r].issuedAt, token |-> t]
          /\ granted' = granted \cup {[kind |-> "activate", nonce |-> n, token |-> t,
                                      issuedAt |-> request[r].issuedAt]}
    BY <1>1 DEF ActivateCommit, GrantTo
  <2>2. /\ Busy(r, "activate") /\ <<"activate", n>> \notin usedNonces
        /\ request[r].create <=> activations = 0
        /\ usedNonces' = usedNonces \cup {<<"activate", n>>}
    BY <1>1 DEF ActivateCommit, ReadInv, Busy
  <2>3. activations' = 1 /\ devicesActivated' = 1
    BY <1>1, <2>2 DEF ActivateCommit, OneDevice
  <2>4. OneDevice'
    BY <2>1, <2>3 DEF OneDevice
  <2>5. GrantInv'
    <3>1. \A g \in granted : <<g.kind, g.nonce>> \in usedNonces'
      BY <2>2 DEF GrantInv
    <3>2. \A g \in granted' \ granted : g.kind = "activate" /\ g.nonce = n
      BY <2>1
    <3>3. QED
      BY <2>2, <2>3, <3>1, <3>2 DEF GrantInv
  <2>6. NonceSingleUse'
    BY <2>1, <2>2 DEF NonceSingleUse, GrantInv
  <2>7. RecoveryIsBounded'
    <3>1. CASE request[r].create
      <4>1. granted = {}
        BY <2>2, <3>1 DEF GrantInv
      <4>2. request[r].issuedAt \in Nat /\ activatedAt' \in request[r].issuedAt..now
        BY <1>1, <3>1 DEF ActivateCommit, Request
      <4>3. QED
        BY <2>1, <4>1, <4>2 DEF RecoveryIsBounded
    <3>2. CASE ~request[r].create
      <4>1. activatedAt' = activatedAt
        BY <1>1, <3>2 DEF ActivateCommit
      <4>2. request[r].issuedAt <= activatedAt + Recovery
        BY <2>2, <3>2 DEF ReadInv
      <4>3. QED
        BY <2>1, <4>1, <4>2 DEF RecoveryIsBounded
    <3>3. QED
      BY <3>1, <3>2
  <2>8. QED
    BY <2>4, <2>5, <2>6, <2>7
<1>2. ASSUME NEW r \in Requests, RefreshCommit(r)
      PROVE  OneDevice' /\ GrantInv' /\ NonceSingleUse' /\ RecoveryIsBounded'
  <2> DEFINE n == request[r].nonce
  <2>1. granted' = granted \cup {[kind |-> "refresh", nonce |-> n,
                      token |-> request[r].token, issuedAt |-> request[r].issuedAt]}
    BY <1>2 DEF RefreshCommit, GrantTo
  <2>2. /\ Busy(r, "refresh") /\ <<"refresh", n>> \notin usedNonces
        /\ request[r].token = license.token /\ request[r].token \in Tokens
        /\ usedNonces' = usedNonces \cup {<<"refresh", n>>}
    BY <1>2 DEF RefreshCommit, ReadInv, Busy
  <2>3. /\ UNCHANGED <<activations, devicesActivated, activatedAt>>
        /\ license'.token = license.token
        /\ activations = 1
    BY <1>2, <2>2 DEF RefreshCommit, OneDevice
  <2>4. OneDevice'
    BY <2>3 DEF OneDevice
  <2>5. GrantInv'
    <3>1. \A g \in granted : <<g.kind, g.nonce>> \in usedNonces'
      BY <2>2 DEF GrantInv
    <3>2. \A g \in granted' \ granted : g.kind = "refresh" /\ g.nonce = n
      BY <2>1
    <3>3. QED
      BY <2>2, <2>3, <3>1, <3>2 DEF GrantInv
  <2>6. NonceSingleUse'
    BY <2>1, <2>2 DEF NonceSingleUse, GrantInv
  <2>7. RecoveryIsBounded'
    BY <2>1, <2>3 DEF RecoveryIsBounded
  <2>8. QED
    BY <2>4, <2>5, <2>6, <2>7
<1>3. QED
    BY <1>1, <1>2 DEF Commits

\* The inductive invariant holds in every reachable state.
THEOREM Invariance == Spec => []IInv
<1>1. ASSUME IInv, [Next]_vars PROVE IInv'
  <2>1. TypeOK' /\ LockInv' /\ ReadInv'
    BY <1>1, TypeNext, LockNext, ReadNext DEF IInv
  <2>2. CASE Commits
    BY <1>1, <2>1, <2>2, CommitNext DEF IInv
  <2>3. CASE ~Commits
    <3>1. UNCHANGED <<recordVars, granted>>
      BY <1>1, <2>3, OnlyCommitsWrite
    <3>2. OneDevice' /\ GrantInv' /\ NonceSingleUse' /\ RecoveryIsBounded'
      BY <1>1, <3>1 DEF IInv, recordVars, OneDevice, GrantInv, NonceSingleUse,
         RecoveryIsBounded
    <3>3. QED
      BY <2>1, <3>2 DEF IInv
  <2>4. QED
    BY <2>2, <2>3
<1>2. QED
    BY <1>1, InvInit, PTL DEF Spec

\* Every variable stays in its type.
THEOREM TypeCorrect == Spec => []TypeOK
<1>1. IInv => TypeOK
    BY DEF IInv
<1>2. QED
    BY <1>1, Invariance, PTL

\* However activations and refreshes race, an entitlement has one activation with
\* one licence.
THEOREM SingleDevice == Spec => []OneDevice
<1>1. IInv => OneDevice
    BY DEF IInv
<1>2. QED
    BY <1>1, Invariance, PTL

\* A nonce that is sent again, while its first request runs or long after, is
\* never granted a second time under its credential.
THEOREM SingleUseNonces == Spec => []NonceSingleUse
<1>1. IInv => NonceSingleUse
    BY DEF IInv
<1>2. QED
    BY <1>1, Invariance, PTL

\* Retries of an activation never extend the recovery window of the first.
THEOREM BoundedRecovery == Spec => []RecoveryIsBounded
<1>1. IInv => RecoveryIsBounded
    BY DEF IInv
<1>2. QED
    BY <1>1, Invariance, PTL

\* A refresh is granted only for the token that is current when it commits, and
\* never replaces it.
THEOREM DeadTokens == Spec => RotatedTokenIsDead
<1>1. ASSUME IInv, [Next]_vars PROVE GrantsCurrentToken
  <2>1. CASE ~Commits
    BY <1>1, <2>1, OnlyCommitsWrite DEF GrantsCurrentToken
  <2>2. ASSUME NEW r \in Requests, ActivateCommit(r) PROVE GrantsCurrentToken
    BY <2>2 DEF ActivateCommit, GrantTo, GrantsCurrentToken
  <2>3. ASSUME NEW r \in Requests, RefreshCommit(r) PROVE GrantsCurrentToken
    <3>1. request[r].token = license.token
      BY <1>1, <2>3 DEF RefreshCommit, IInv, ReadInv, Busy
    <3>2. granted' \ granted \subseteq
            {[kind |-> "refresh", nonce |-> request[r].nonce,
              token |-> request[r].token, issuedAt |-> request[r].issuedAt]}
      BY <2>3 DEF RefreshCommit, GrantTo
    <3>3. license'.token = license.token
      BY <1>1, <2>3 DEF RefreshCommit, IInv, TypeOK
    <3>4. QED
      BY <3>1, <3>2, <3>3 DEF GrantsCurrentToken
  <2>4. QED
    BY <2>1, <2>2, <2>3 DEF Commits
<1>2. IInv /\ [Next]_vars => [GrantsCurrentToken]_vars
    BY <1>1
<1>3. QED
    BY <1>2, Invariance, PTL DEF Spec, RotatedTokenIsDead
=============================================================================
