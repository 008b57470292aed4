------------------------------- MODULE Viewer -------------------------------
(***************************************************************************)
(* The payment and licence service of the desktop Viewer                   *)
(* (apps/viewer/src-tauri/src: payment_service.rs, lib.rs, the two         *)
(* repositories, rollback.rs, backend/client.rs).  Commands of the user    *)
(* interface and of a second instance run on threads of their own.  Three  *)
(* locks order them: `operation` around a backend command, `open_gate`     *)
(* around the opening of an archive, and a short one around each access to *)
(* the session and to the runtime cache.                                   *)
(***************************************************************************)
EXTENDS FiniteSets, Naturals

CONSTANTS
    Archives,     \* archives on this computer
    Intents,      \* payment intents the backend can create
    NoArchive, NoIntent,
    MaxFaults     \* bound: crashes, failed writes and lost activations

ASSUME NullsAssumption == NoArchive \notin Archives /\ NoIntent \notin Intents
ASSUME FaultsAssumption == MaxFaults \in Nat

VARIABLES
    session,    \* SessionState: Empty, Locked or Unwrapped
    metadata,   \* runtime.metadata: the archive it was validated for
    active,     \* runtime.active: the intent the screen works with
    stored,     \* intent record file of each archive
    secrets,    \* intents whose client secret is in the credential store
    token,      \* refresh token of each archive in the credential store
    licences,   \* archives with a licence file
    intent,     \* the backend: archive and phase of each intent
    late,       \* activations the client gave up on that can still commit
    op,         \* the command that holds the operation lock
    opening,    \* open_archive_flow under the open gate
    finishing,  \* commands between the operation lock and their snapshot
    misdirected,\* archives whose intent a foreign command cleaned up or made the
                \* runtime forget, or whose secret the system lost
    faults,     \* number of faults so far
    spoiled     \* archives whose token a failed write, an unseen answer or the
                \* backend's withdrawal of the licence has spoiled

vars == <<session, metadata, active, stored, secrets, token, licences, intent,
          late, op, opening, finishing, faults, misdirected, spoiled>>
runtime == <<metadata, active>>
durable == <<stored, secrets, token, licences>>
backend == <<intent, late>>
marks == <<faults, misdirected, spoiled>>

\* Created, Pending and AwaitingFinality differ only in what the screen says.
Statuses == {"open", "confirmed"}
NoActive == [intent |-> NoIntent, status |-> "open"]
ActiveIntent == [intent : Intents, status : Statuses] \cup {NoActive}
Phases == {"unused", "created", "quoted", "paid", "activated", "ended"}
Tokens == {"none", "current", "stale"}

Empty == [archive |-> NoArchive, open |-> FALSE]
Locked(a) == [archive |-> a, open |-> FALSE]
Unwrapped(a) == [archive |-> a, open |-> TRUE]

NoOp == [cmd |-> "none", step |-> "none", archive |-> NoArchive,
         active |-> NoActive, fresh |-> FALSE]
NoOpening == [archive |-> NoArchive, step |-> "none"]

Commands == {"none", "check", "prepare", "verify", "activate", "refresh"}
Steps == {"none", "answer", "save", "token", "licence", "install", "cleanup"}
Operation == [cmd : Commands, step : Steps, archive : Archives \cup {NoArchive},
              active : ActiveIntent, fresh : BOOLEAN]
OpeningSteps == {"none", "verify", "restore", "check", "refresh", "command", "view"}
Opening == [archive : Archives \cup {NoArchive}, step : OpeningSteps]
BackendIntent == [archive : Archives \cup {NoArchive}, phase : Phases]

TypeOK ==
    /\ session \in [archive : Archives \cup {NoArchive}, open : BOOLEAN]
    /\ session.open => session.archive \in Archives
    /\ metadata \in Archives \cup {NoArchive}
    /\ active \in ActiveIntent
    /\ stored \in [Archives -> ActiveIntent]
    /\ secrets \subseteq Intents
    /\ token \in [Archives -> Tokens]
    /\ licences \subseteq Archives
    /\ intent \in [Intents -> BackendIntent]
    /\ late \subseteq Intents
    /\ op \in Operation
    /\ op.cmd = "none" => op = NoOp
    /\ opening \in Opening
    /\ finishing \subseteq Archives \cup {NoArchive}
    /\ faults \in 0 .. MaxFaults
    /\ misdirected \subseteq Archives
    /\ spoiled \subseteq Archives

Init ==
    /\ session = Empty /\ metadata = NoArchive /\ active = NoActive
    /\ stored = [a \in Archives |-> NoActive]
    /\ secrets = {} /\ licences = {} /\ late = {}
    /\ token = [a \in Archives |-> "none"]
    /\ intent = [i \in Intents |-> [archive |-> NoArchive, phase |-> "unused"]]
    /\ op = NoOp /\ opening = NoOpening /\ finishing = {}
    /\ faults = 0 /\ misdirected = {} /\ spoiled = {}

Fault == faults < MaxFaults /\ faults' = faults + 1
NoFault == UNCHANGED faults
Phase(i) == intent[i].phase
ArchiveOf(i) == intent[i].archive

\* The stored client secret is there (a corrupt one counts as missing).
Resumable(r) == r.intent \in secrets

(***************************************************************************)
(* Answers of the backend.  A transport error, a wrong content type, a     *)
(* body that does not parse or does not fit what was asked are answers of  *)
(* their own; codes with a like effect share a name.                       *)
(***************************************************************************)

Retryable == {"unavailable", "rate_limited"}

\* Errors on which verify_payment discards the intent; of these the backend answers a
\* verification that shows the right secret with the first two alone.
IntentEnded == {"payment_failed", "payment_intent_expired", "invalid_intent_credential",
                "archive_blocked", "archive_not_available"}

LicenceEndedOrUnavailable ==
    {"invalid_refresh_credential", "archive_blocked", "entitlement_revoked", "unavailable"}

\* Errors on which refresh deletes the token.
LicenceEnded == {"invalid_refresh_credential", "archive_blocked", "entitlement_revoked"}

\* What can go wrong whatever the backend thinks of the request.
Mishaps == Retryable \cup {"invalid_response"}
VerifyErrors(i) ==
    Mishaps \cup IF Phase(i) = "ended" THEN {"payment_failed", "payment_intent_expired"} ELSE {}
RefreshErrors(a) ==
    Mishaps \cup IF token[a] = "current" THEN {"archive_blocked", "entitlement_revoked"}
                  ELSE {"invalid_refresh_credential"}

\* A command goes on with what it has learnt; the flow of an opening goes on.
Pass(step, r, fresh) == op' = [op EXCEPT !.step = step, !.active = r, !.fresh = fresh]
Advance(step) == Pass(step, op.active, op.fresh)
AdvanceOpening(step) == opening' = [opening EXCEPT !.step = step]

\* The backend moves an intent on.
Becomes(i, phase) == intent' = [intent EXCEPT ![i].phase = phase]

(***************************************************************************)
(* Ends of a command.  A command that open_archive_flow runs under its     *)
(* gate leaves the flow at its snapshot (or ends it with the error).       *)
(***************************************************************************)

\* The command under the operation lock is one of the flow.
ByOpen == opening.step = "command"

\* The lock is released without an unlocked archive.
EndCommand ==
    /\ op' = NoOp
    /\ opening' = IF ByOpen THEN NoOpening ELSE opening
    /\ UNCHANGED finishing

\* The lock is released after install_unwrapped: the flow goes on with the
\* archive it opened, a command of the interface asks current_identity first.
EndUnlocked ==
    /\ op' = NoOp
    /\ IF ByOpen THEN AdvanceOpening("view") /\ UNCHANGED finishing
                 ELSE UNCHANGED opening /\ finishing' = finishing \cup {NoArchive}

Holding(cmd, step) == op.cmd = cmd /\ op.step = step
Take(cmd, step, a, r) ==
    op' = [cmd |-> cmd, step |-> step, archive |-> a, active |-> r,
           fresh |-> FALSE]

\* The repositories and the credential store: a write that fails leaves what
\* was there (the record and the licence are replaced atomically).
LoadRecord(a) == stored[a]
SaveRecord(a, r) == stored' = [stored EXCEPT ![a] = r]
ClearRecord(a) == stored' = [stored EXCEPT ![a] = NoActive]
WriteSecret(i) == secrets' = secrets \cup {i}
DeleteSecret(i) == secrets' = secrets \ {i}
SaveLicence(a) == licences' = licences \cup {a}

ResetForArchiveSwitch == metadata' = NoArchive /\ active' = NoActive

\* Deletes a credential and then the record, or stops at the first that
\* fails; the caller has already emptied runtime.active.
RemoveIntent(r, a) ==
    \/ DeleteSecret(r.intent) /\ ClearRecord(a) /\ NoFault
    \/ DeleteSecret(r.intent) /\ UNCHANGED stored /\ Fault
    \/ UNCHANGED <<secrets, stored>> /\ Fault

-----------------------------------------------------------------------------
(* Opening and closing an archive                                          *)

\* open_archive_flow: takes the gate and resets the runtime, without the
\* operation lock.  ArchiveService::open empties the session first.
OpenStart(a) ==
    /\ opening = NoOpening
    /\ opening' = [archive |-> a, step |-> "verify"]
    /\ ResetForArchiveSwitch
    /\ session' = Empty
    /\ UNCHANGED <<durable, backend, op, finishing, marks>>

\* The file is verified and becomes the locked archive, or is refused.
OpenVerify ==
    /\ opening.step = "verify"
    /\ \/ /\ session' = Locked(opening.archive)
          /\ AdvanceOpening("restore")
       \/ opening' = NoOpening /\ UNCHANGED session
    /\ UNCHANGED <<runtime, durable, backend, op, finishing, marks>>

\* restore_local_license: no licence, a valid one that is installed while the
\* archive is still the session's, one to be refreshed, or an error.
OpenRestore ==
    LET a == opening.archive IN
    /\ opening.step = "restore"
    /\ \/ /\ session = Locked(a) /\ a \notin licences
          /\ AdvanceOpening("check")
          /\ UNCHANGED session
       \/ /\ session.archive = a /\ a \in licences
          /\ session' = Unwrapped(a)
          /\ AdvanceOpening("view")
       \/ /\ session = Locked(a) /\ a \in licences
          /\ AdvanceOpening("refresh")
          /\ UNCHANGED session
       \/ opening' = NoOpening /\ UNCHANGED session
    /\ UNCHANGED <<runtime, durable, backend, op, finishing, marks>>

\* close_archive: resets the runtime and empties the session, beside the gate
\* and the operation lock.  A command that runs between the two ends in a state
\* it could also end in before or after both.
Close ==
    /\ ResetForArchiveSwitch
    /\ session' = Empty
    /\ UNCHANGED <<durable, backend, op, opening, finishing, marks>>

\* The deadline of the licence passes (enforce_deadline, expire_session).
Expire ==
    /\ session.open
    /\ session' = Locked(session.archive)
    /\ UNCHANGED <<runtime, durable, backend, op, opening, finishing, marks>>

-----------------------------------------------------------------------------
(* check_metadata and prepare_payment                                      *)

\* The archive is read under the lock, then the backend is asked.
CheckStart ==
    /\ op = NoOp
    /\ session.archive # NoArchive /\ ~session.open
    /\ \/ /\ opening.step = "check"
          /\ AdvanceOpening("command")
          /\ Take("check", "answer", session.archive, NoActive)
       \/ UNCHANGED opening /\ Take("check", "answer", session.archive, NoActive)
    /\ UNCHANGED <<session, runtime, durable, backend, finishing, marks>>

TakenUpOrKept(r) == IF Resumable(r) THEN r ELSE active

\* The stored intent is taken up if its secret is there, else discarded.
TakenUp(r) == IF Resumable(r) THEN r ELSE NoActive

CheckAnswer ==
    LET a == op.archive
        r == LoadRecord(a) IN
    /\ Holding("check", "answer")
    /\ \/ /\ metadata' = a
          /\ active' = TakenUp(r)
          /\ IF Resumable(r) THEN UNCHANGED stored ELSE ClearRecord(a)
       \/ UNCHANGED <<runtime, stored>>
    /\ EndCommand
    /\ UNCHANGED <<session, secrets, token, licences, backend, marks>>

\* current_payment, verify_payment or activate finds the secret gone.
DiscardOrphan ==
    /\ op = NoOp
    /\ active # NoActive /\ ~Resumable(active)
    /\ active' = NoActive
    /\ RemoveIntent(active, ArchiveOf(active.intent))
    /\ UNCHANGED <<session, metadata, token, licences, backend, op, opening,
                   finishing, misdirected, spoiled>>

NeedsIntentAlways == TRUE

\* An intent already at hand is shown again; otherwise the metadata must be
\* that of the archive before the backend is asked for a new intent.
NeedsIntent == ~Resumable(active)

PrepareStart ==
    /\ op = NoOp
    /\ session.archive # NoArchive /\ ~session.open
    /\ metadata = session.archive
    /\ NeedsIntent
    /\ IF active = NoActive THEN UNCHANGED <<active, stored>>
       ELSE /\ active' = NoActive
            /\ ClearRecord(ArchiveOf(active.intent))
    /\ Take("prepare", "answer", session.archive, NoActive)
    /\ UNCHANGED <<session, metadata, secrets, token, licences, backend, opening,
                   finishing, marks>>

\* The backend creates an intent and the client secret is stored.  If the
\* answer is lost or the secret cannot be stored, nobody knows the intent.
PrepareAnswer ==
    /\ Holding("prepare", "answer")
    /\ \/ \E i \in Intents :
             /\ Phase(i) = "unused"
             /\ intent' = [intent EXCEPT ![i] = [archive |-> op.archive, phase |-> "created"]]
             /\ WriteSecret(i)
             /\ Pass("save", [intent |-> i, status |-> "open"], FALSE)
             /\ UNCHANGED <<opening, finishing>>
       \/ UNCHANGED <<intent, secrets>> /\ EndCommand
    /\ UNCHANGED <<session, runtime, stored, token, licences, late, marks>>

\* The record is stored, the runtime set, and the payment link shown; if the
\* record cannot be stored the secret is removed again.
PrepareSave ==
    LET i == op.active.intent IN
    /\ Holding("prepare", "save")
    /\ \/ /\ SaveRecord(op.archive, op.active)
          /\ active' = op.active
          /\ Becomes(i, "quoted")
          /\ UNCHANGED secrets /\ NoFault
       \/ DeleteSecret(i) /\ UNCHANGED <<stored, active, intent>> /\ Fault
    /\ EndCommand
    /\ UNCHANGED <<session, metadata, token, licences, late, misdirected, spoiled>>

-----------------------------------------------------------------------------
(* verify_payment                                                          *)

\* try_lock: a busy service answers "unavailable" and changes nothing.
VerifyStart ==
    /\ op = NoOp
    /\ active # NoActive /\ Resumable(active)
    /\ Take("verify", "answer", ArchiveOf(active.intent), active)
    /\ UNCHANGED <<session, runtime, durable, backend, opening, finishing, marks>>

\* The status is stored and the intent put (back) into the runtime; a terminal
\* answer discards it.
VerifyAnswer ==
    LET i == op.active.intent
        Verified(s) == [intent |-> i, status |-> s] IN
    /\ Holding("verify", "answer")
    /\ \/ \E s \in Statuses :
             /\ s = "confirmed" <=> Phase(i) \in {"paid", "activated"}
             /\ Phase(i) # "ended"
             /\ SaveRecord(op.archive, Verified(s))
             /\ active' = Verified(s)
             /\ UNCHANGED secrets /\ NoFault
       \/ \E code \in VerifyErrors(i) :
             IF code \in IntentEnded
             THEN active' = NoActive /\ RemoveIntent(op.active, op.archive)
             ELSE UNCHANGED <<active, stored, secrets>> /\ NoFault
       \/ UNCHANGED <<active, stored, secrets>> /\ Fault
    /\ EndCommand
    /\ UNCHANGED <<session, metadata, token, licences, backend, misdirected, spoiled>>

-----------------------------------------------------------------------------
(* activate                                                                *)

ActivateStart ==
    /\ op = NoOp
    /\ active # NoActive /\ active.status = "confirmed"
    /\ session.archive # NoArchive /\ ~session.open
    /\ Resumable(active)
    /\ Take("activate", "answer", session.archive, active)
    /\ UNCHANGED <<session, runtime, durable, backend, opening, finishing, marks>>

\* The backend activates: a token stored earlier is no longer the current one.
Rotated(a) == [token EXCEPT ![a] = IF @ = "current" THEN "stale" ELSE @]
Activated(i) == Becomes(i, "activated")

\* An activation supersedes a token the client has already received; the
\* archive is marked until the client has stored the answer.
Overtaken(i) ==
    LET a == ArchiveOf(i) IN
    IF i \notin secrets \/ token[a] = "current" \/ (op.fresh /\ op.archive = a)
    THEN spoiled \cup {a} ELSE spoiled

GrantAcceptedUnread(i) == i \in Intents

\* The grant is for the archive whose identity was read, or refused as invalid.
GrantAccepted(i) == ArchiveOf(i) = op.archive

\* The grant, a lost answer, a request that is still on its way, or a refusal.
ActivateAnswer ==
    LET i == op.active.intent IN
    /\ Holding("activate", "answer")
    /\ \/ /\ Activated(i)
          /\ token' = Rotated(ArchiveOf(i))
          /\ IF GrantAccepted(i)
             THEN Pass("token", op.active, TRUE) /\ UNCHANGED <<opening, finishing>>
             ELSE EndCommand
          /\ spoiled' = Overtaken(i)
          /\ UNCHANGED late /\ NoFault
       \/ /\ Activated(i)
          /\ token' = Rotated(ArchiveOf(i))
          /\ spoiled' = Overtaken(i)
          /\ EndCommand
          /\ UNCHANGED late /\ Fault
       \/ /\ late' = late \cup {i}
          /\ EndCommand
          /\ UNCHANGED <<intent, token, spoiled>> /\ Fault
       \/ EndCommand /\ UNCHANGED <<intent, token, late, spoiled>> /\ NoFault
    /\ UNCHANGED <<session, runtime, stored, secrets, licences, misdirected>>

\* The new token replaces the old one; if it cannot be written and read back,
\* no token is left.
StoreToken ==
    LET a == op.archive IN
    /\ Holding("activate", "token")
    /\ \/ /\ token' = [token EXCEPT ![a] = IF op.fresh THEN "current" ELSE "stale"]
          /\ Advance("licence")
          /\ spoiled' = IF op.fresh THEN spoiled \ {a} ELSE spoiled
          /\ UNCHANGED <<opening, finishing>> /\ NoFault
       \/ /\ token' = [token EXCEPT ![a] = "none"]
          /\ spoiled' = spoiled \cup {a}
          /\ EndCommand /\ Fault
    /\ UNCHANGED <<session, runtime, stored, secrets, licences, backend, misdirected>>

\* The licence file is replaced, then the clock mark.
StoreLicence ==
    LET a == op.archive IN
    /\ op.cmd \in {"activate", "refresh"} /\ op.step = "licence"
    /\ \/ /\ SaveLicence(a)
          /\ Advance("install")
          /\ UNCHANGED <<opening, finishing>> /\ NoFault
       \/ SaveLicence(a) /\ EndCommand /\ Fault
       \/ UNCHANGED licences /\ EndCommand /\ Fault
    /\ UNCHANGED <<session, runtime, stored, secrets, token, backend, misdirected, spoiled>>

\* install_unwrapped: only into a session of the same archive.
Install ==
    /\ op.step = "install"
    /\ \/ /\ session.archive = op.archive
          /\ session' = Unwrapped(op.archive)
          /\ IF op.cmd = "activate"
             THEN Advance("cleanup") /\ UNCHANGED <<opening, finishing>>
             ELSE EndUnlocked
       \/ EndCommand /\ UNCHANGED session
    /\ UNCHANGED <<runtime, durable, backend, marks>>

\* cleanup_completed_intent for the intent that was activated.
ActivateCleanup ==
    /\ Holding("activate", "cleanup")
    /\ active' = NoActive
    /\ RemoveIntent(op.active, op.archive)
    /\ EndUnlocked
    /\ UNCHANGED <<session, metadata, token, licences, backend, misdirected, spoiled>>

-----------------------------------------------------------------------------
(* refresh                                                                 *)

RefreshStart ==
    /\ op = NoOp
    /\ session.archive # NoArchive /\ ~session.open
    /\ session.archive \in licences /\ token[session.archive] # "none"
    /\ \/ /\ opening.step = "refresh"
          /\ AdvanceOpening("command")
          /\ Take("refresh", "answer", session.archive, NoActive)
       \/ UNCHANGED opening /\ Take("refresh", "answer", session.archive, NoActive)
    /\ UNCHANGED <<session, runtime, durable, backend, finishing, marks>>

\* A grant, which is checked against the request, or an error: one that is not
\* retryable relocks the session, one that ends the licence deletes the token.
RefreshAnswer ==
    LET a == op.archive IN
    /\ Holding("refresh", "answer")
    /\ \/ /\ token[a] = "current"
          /\ Advance("licence")
          /\ UNCHANGED <<session, token, spoiled, opening, finishing>> /\ NoFault
       \/ \E code \in RefreshErrors(a) :
             /\ session' = [archive |-> session.archive, open |-> session.open /\ code \in Retryable]
             /\ \/ /\ code \in LicenceEnded
                   /\ token' = [token EXCEPT ![a] = "none"]
                   /\ NoFault
                \/ code \notin LicenceEnded /\ UNCHANGED token /\ NoFault
                \/ code \in LicenceEnded /\ UNCHANGED token /\ Fault
             /\ spoiled' = IF code \in {"archive_blocked", "entitlement_revoked"}
                           THEN spoiled \cup {a} ELSE spoiled
             /\ EndCommand
    /\ UNCHANGED <<runtime, stored, secrets, licences, backend, misdirected>>

\* A command of the flow that finds the session changed, the licence gone or
\* the token missing ends the flow.
OpenCommandRefused ==
    /\ opening.step \in {"check", "refresh"}
    /\ \/ session = Empty \/ session.open
       \/ /\ opening.step = "refresh" /\ session # Empty
          /\ session.archive \notin licences \/ token[session.archive] = "none"
    /\ op = NoOp
    /\ opening' = NoOpening
    /\ UNCHANGED <<session, runtime, durable, backend, op, finishing, marks>>

-----------------------------------------------------------------------------
(* unlocked_snapshot of activate_payment, refresh_license and the flow     *)

\* activate_payment and refresh_license ask for the current identity, not for
\* the archive they unlocked.
CurrentIdentity ==
    /\ NoArchive \in finishing
    /\ finishing' = (finishing \ {NoArchive}) \cup ({session.archive} \ {NoArchive})
    /\ UNCHANGED <<session, runtime, durable, backend, op, opening, marks>>

\* The archive of the intent at hand, when that is not the one cleaned up: the
\* runtime forgets its intent although it stays on disk.
Forgotten(a) == {ArchiveOf(i) : i \in {active.intent} \cap Intents} \ {a}

\* cleanup_completed_intent_after_unlock: a stored confirmed intent of the
\* archive in the snapshot is taken for completed.
CleanupAfterUnlock(a) ==
    /\ op = NoOp
    /\ \/ /\ a \in finishing
          /\ finishing' = finishing \ {a}
          /\ UNCHANGED opening
       \/ /\ opening = [archive |-> a, step |-> "view"]
          /\ opening' = NoOpening
          /\ UNCHANGED finishing
    /\ IF LoadRecord(a).status = "confirmed"
       THEN /\ active' = NoActive
            /\ RemoveIntent(LoadRecord(a), a)
            /\ misdirected' = misdirected \cup ({a} \ licences) \cup Forgotten(a)
       ELSE UNCHANGED <<active, stored, secrets, misdirected>> /\ NoFault
    /\ UNCHANGED <<session, metadata, token, licences, backend, op, spoiled>>

-----------------------------------------------------------------------------
(* The backend, the buyer and the process                                  *)

\* The buyer pays by the link that was shown.
Pay(i) ==
    /\ Phase(i) = "quoted"
    /\ Becomes(i, "paid")
    /\ UNCHANGED <<session, runtime, durable, late, op, opening, finishing, marks>>

\* An intent that was not paid expires or fails.
EndIntent(i) ==
    /\ Phase(i) = "quoted"
    /\ Becomes(i, "ended")
    /\ UNCHANGED <<session, runtime, durable, late, op, opening, finishing, marks>>

\* An activation request reaches the backend after the client gave up on it:
\* the token an earlier or a later answer carried is superseded.
CommitLate(i) ==
    LET a == ArchiveOf(i) IN
    /\ i \in late
    /\ late' = late \ {i}
    /\ Activated(i)
    /\ token' = Rotated(a)
    /\ IF op.archive = a THEN Pass(op.step, op.active, FALSE) ELSE UNCHANGED op
    /\ spoiled' = Overtaken(i)
    /\ UNCHANGED <<session, runtime, stored, secrets, licences, opening,
                   finishing, faults, misdirected>>

LoseLate(i) ==
    /\ i \in late
    /\ late' = late \ {i}
    /\ UNCHANGED <<session, runtime, durable, intent, op, opening, finishing, marks>>

\* The credential store loses a secret, or keeps it corrupt.
LoseSecret(i) ==
    /\ i \in secrets
    /\ DeleteSecret(i)
    /\ misdirected' = misdirected \cup {ArchiveOf(i)}
    /\ Fault
    /\ UNCHANGED <<session, runtime, stored, token, licences, backend, op, opening,
                   finishing, spoiled>>

\* The process ends at any point and starts again; a request on the wire goes on.
Crash ==
    /\ session' = Empty
    /\ ResetForArchiveSwitch
    /\ late' = IF Holding("activate", "answer") THEN late \cup {op.active.intent} ELSE late
    /\ op' = NoOp /\ opening' = NoOpening /\ finishing' = {}
    /\ Fault
    /\ UNCHANGED <<durable, intent, misdirected, spoiled>>

Command ==
    \/ CheckStart \/ CheckAnswer \/ DiscardOrphan
    \/ PrepareStart \/ PrepareAnswer \/ PrepareSave
    \/ VerifyStart \/ VerifyAnswer
    \/ ActivateStart \/ ActivateAnswer \/ StoreToken \/ StoreLicence \/ Install
    \/ ActivateCleanup
    \/ RefreshStart \/ RefreshAnswer
    \/ CurrentIdentity
    \/ \E a \in Archives : CleanupAfterUnlock(a)

OpenAndClose ==
    \/ \E a \in Archives : OpenStart(a)
    \/ OpenVerify \/ OpenRestore \/ OpenCommandRefused
    \/ Close \/ Expire

Environment ==
    \/ \E i \in Intents : Pay(i) \/ EndIntent(i) \/ CommitLate(i) \/ LoseLate(i) \/ LoseSecret(i)
    \/ Crash

Next == Command \/ OpenAndClose \/ Environment

Spec == Init /\ [][Next]_vars

-----------------------------------------------------------------------------
(* Properties                                                              *)

\* The runtime cache never mixes two archives, although an archive switch
\* empties it without the lock that the commands filling it hold: an intent
\* put back late by verify_payment (payment_service.rs:285) finds no metadata.
RuntimeIsOneArchive ==
    metadata # NoArchive /\ active # NoActive => ArchiveOf(active.intent) = metadata

\* A paid intent can be resumed until it is activated, through crashes, lost
\* answers, archive switches and failed writes: its secret and its record are
\* on disk (docs/API.md:475, 479-482).  Excepted are an archive with a licence
\* already, a secret the system lost, and the clean-up of a foreign command, which
\* is the finding SecretKeptUntilActivated.
PaidIsResumable ==
    \A i \in Intents :
        Phase(i) = "paid" /\ ArchiveOf(i) \notin misdirected \cup licences =>
            i \in secrets /\ stored[ArchiveOf(i)].intent = i

\* docs/API.md:475: the secret is kept "only until successful initial
\* activation, then deletes it".
SecretKeptUntilActivated ==
    \A i \in Intents :
        Phase(i) = "paid" /\ ArchiveOf(i) \notin licences => i \in secrets

\* An archive is open only if it was paid for and activated, and its licence is
\* on disk, whichever intent the command that opened it worked with.
UnlockedWasPaid ==
    session.open =>
        /\ session.archive \in licences
        /\ \E i \in Intents : ArchiveOf(i) = session.archive /\ Phase(i) = "activated"

\* Whoever holds a licence can renew it: the stored token is the current one.
\* Lost answers and crashes between token, licence and clean-up do not break it;
\* the archives of `spoiled` are excepted.
LicenceIsRenewable ==
    \A a \in licences \ spoiled : token[a] = "current"

\* A second "prepare" shows the first intent again (the test at
\* payment_service.rs:1064, lines 1095-1096): with the secret of one quoted
\* intent of an archive in the store, no other one of it is quoted.
PreparedOnce ==
    \A i, j \in secrets :
        Phase(i) = "quoted" /\ Phase(j) = "quoted" /\ ArchiveOf(i) = ArchiveOf(j) => i = j

-----------------------------------------------------------------------------
(* The inductive invariant                                                 *)

\* An intent the screen has shown, and whether the buyer has paid it.
Open(i) == Phase(i) \in {"quoted", "paid"}
Paid(i) == Phase(i) \in {"paid", "activated"}

\* A record names an intent of its archive that was shown, and says that it is
\* confirmed only once it is.
Known(r, a) ==
    /\ r.intent \in Intents
    /\ ArchiveOf(r.intent) = a
    /\ Phase(r.intent) \notin {"unused", "created"}
    /\ r.status = "confirmed" => Paid(r.intent)

BackendInv ==
    /\ \A i \in Intents : Phase(i) # "unused" => ArchiveOf(i) \in Archives
    /\ \A i \in late : Paid(i)
    /\ \A i \in secrets : Phase(i) # "unused"

RecordsInv == \A a \in Archives : stored[a] = NoActive \/ Known(stored[a], a)

\* The runtime holds what is on disk, for the archive of its metadata.
RuntimeInv ==
    active # NoActive =>
        /\ active.intent \in Intents /\ ArchiveOf(active.intent) \in Archives
        /\ stored[ArchiveOf(active.intent)] = active
        /\ metadata \in {ArchiveOf(active.intent), NoArchive}

\* Nobody clears or forgets the secret and the record of an intent the buyer
\* can still pay or has paid, outside of licensed and misdirected archives.
KeptInv ==
    \A i \in Intents : Open(i) /\ ArchiveOf(i) \notin misdirected \cup licences =>
        /\ i \in secrets
        /\ stored[ArchiveOf(i)].intent = i
        /\ metadata = ArchiveOf(i) => active.intent = i

\* What the steps of a command pass on under the operation lock.
CommandInv ==
    /\ op # NoOp => op.archive \in Archives
    /\ op.cmd \in {"check", "verify"} => op.step = "answer"
    /\ op.cmd = "prepare" => op.step \in {"answer", "save"}
    /\ op.cmd = "refresh" => op.step \in {"answer", "licence", "install"}
    /\ op.cmd = "activate" => op.step \in {"answer", "token", "licence", "install", "cleanup"}

\* While an intent is prepared, its archive has no other one, and the runtime none.
PrepareInv ==
    op.cmd = "prepare" =>
        /\ active = NoActive
        /\ metadata \in {op.archive, NoArchive}
        /\ \A i \in Intents :
              Open(i) /\ ArchiveOf(i) = op.archive => op.archive \in misdirected \cup licences
        /\ op.step = "save" =>
              LET i == op.active.intent IN
              /\ i \in Intents /\ op.active.status = "open"
              /\ ArchiveOf(i) = op.archive /\ Phase(i) = "created"
              /\ i \in secrets \/ op.archive \in misdirected

\* The record a command works with stays on disk and its archive the runtime's.
WorkInv ==
    op.cmd \in {"verify", "activate"} =>
        LET i == op.active.intent IN
        /\ i \in Intents /\ ArchiveOf(i) \in Archives
        /\ stored[ArchiveOf(i)] = op.active
        /\ metadata \in {ArchiveOf(i), NoArchive}
        /\ op.cmd = "verify" => op.archive = ArchiveOf(i)
        /\ op.cmd = "activate" =>
              /\ Paid(i)
              /\ op.step # "answer" => op.archive = ArchiveOf(i) /\ Phase(i) = "activated"
              /\ op.step = "token" => op.fresh \/ op.archive \in spoiled
              /\ op.step \in {"licence", "install", "cleanup"} =>
                     token[op.archive] = "current" \/ op.archive \in spoiled

\* A licence on disk was paid for, and only a licence opens an archive.
LicencesInv ==
    /\ \A a \in licences : \E i \in Intents : ArchiveOf(i) = a /\ Phase(i) = "activated"
    /\ op.cmd = "refresh" => op.archive \in licences
    /\ op.step \in {"install", "cleanup"} => op.archive \in licences
    /\ session.open => session.archive \in licences

IInv ==
    /\ TypeOK
    /\ BackendInv /\ RecordsInv /\ RuntimeInv /\ KeptInv
    /\ CommandInv /\ PrepareInv /\ WorkInv /\ LicencesInv
    /\ LicenceIsRenewable
=============================================================================
