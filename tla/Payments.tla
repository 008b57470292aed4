------------------------------ MODULE Payments ------------------------------
(***************************************************************************)
(* One payment intent of the API (apps/api/src/modules/payments): its row,  *)
(* the transaction issuances made for it, the payment and entitlement it    *)
(* turns into, the Solana transactions the issuances stand for, and the     *)
(* concurrent HTTP requests that read and write all of these.               *)
(*                                                                         *)
(* Every handler filters its queries by the intent it authenticated, so the *)
(* rows of one intent are the whole of its state.  A handler is a sequence  *)
(* of steps cut where the code awaits the database or the RPC node; what    *)
(* runs inside one Prisma $transaction becomes visible in the last of its   *)
(* steps.  The intent row lock (SELECT ... FOR UPDATE) is lockedBy: a       *)
(* transaction that takes it, and any UPDATE of the intent row, waits until *)
(* it is free.                                                             *)
(***************************************************************************)
EXTENDS Integers, FiniteSets

CONSTANTS
    Issuances,      \* ids for payment_transaction_issuances rows
    Accounts,       \* wallets that may ask for a transaction
    Builders,       \* concurrent buildTransaction requests
    Verifiers,      \* concurrent verifyPayment requests
    Window,         \* blocks for which a blockhash stays valid
    MaxHeight,      \* bound: the chain stops growing here
    NoIssuance, NoAccount, NoBuilder

ASSUME WindowAssumption == Window \in Nat
ASSUME MaxHeightAssumption == MaxHeight \in Nat
ASSUME NullAssumption ==
    /\ NoIssuance \notin Issuances
    /\ NoAccount \notin Accounts
    /\ NoBuilder \notin Builders

VARIABLES
    status,         \* payment_intents.status ("none": no row yet)
    confirmedBuyerWallet,
    ttlPassed,      \* now >= expiresAt
    onSale,         \* the archive is published, ready and policy-conforming
    issuance,       \* the issuance rows
    payments,       \* payment + entitlement + payment_confirmed event
    height,         \* height of the newest block
    finalHeight,    \* height of the newest finalized block
    chain,          \* where each issued transaction landed, and whether it failed
    lockedBy,       \* the buildTransaction that holds the intent row lock
    build,          \* the buildTransaction requests
    verify,         \* the verifyPayment requests
    told            \* the last answer each verifyPayment gave

intentVars == <<status, confirmedBuyerWallet, payments>>
envVars == <<ttlPassed, onSale>>
chainVars == <<height, finalHeight, chain>>
buildVars == <<lockedBy, build>>
verifyVars == <<verify, told>>
vars == <<intentVars, envVars, issuance, chainVars, buildVars, verifyVars>>

(***************************************************************************)
(* Types                                                                   *)
(***************************************************************************)
IntentStatus == {"none", "created", "pending", "awaiting_finality",
                 "confirmed", "expired", "failed"}
IssuanceStatus == {"unissued", "active", "consumed", "failed", "expired"}

Issuance == [status    : IssuanceStatus,
             account   : Accounts \cup {NoAccount},
             lastValid : Nat]

Payment == [issuance : Issuances, buyer : Accounts]

\* at = 0: the transaction is in no block of the current fork.
Landing == [at : Nat, err : BOOLEAN]

BuildStep == {"idle", "locked", "status", "height", "issue"}
Build == [pc      : BuildStep,
          account : Accounts \cup {NoAccount},
          prev    : Issuances \cup {NoIssuance},
          verdict : {"none", "failed", "expired"}]

VerifyStep == {"idle", "find", "known", "status", "height", "commit",
               "txFailed", "markExpired", "markAwaiting", "markFailed"}
Verify == [pc  : VerifyStep,
           iss : Issuances \cup {NoIssuance}]

\* Answers are told apart as the purchase granted, the 503 of a failed
\* assertConfirmedPaymentBindings, other errors, and the rest.
Answer == {"open", "confirmed", "inconsistent", "error"}

IdleBuild == [pc |-> "idle", account |-> NoAccount, prev |-> NoIssuance,
              verdict |-> "none"]
IdleVerify == [pc |-> "idle", iss |-> NoIssuance]
Unissued == [status |-> "unissued", account |-> NoAccount, lastValid |-> 0]

TypeOK ==
    /\ status \in IntentStatus
    /\ confirmedBuyerWallet \in Accounts \cup {NoAccount}
    /\ ttlPassed \in BOOLEAN
    /\ onSale \in BOOLEAN
    /\ issuance \in [Issuances -> Issuance]
    /\ payments \in SUBSET Payment
    /\ height \in Nat
    /\ finalHeight \in Nat
    /\ chain \in [Issuances -> Landing]
    /\ lockedBy \in Builders \cup {NoBuilder}
    /\ build \in [Builders -> Build]
    /\ verify \in [Verifiers -> Verify]
    /\ told \in [Verifiers -> Answer]

Init ==
    /\ status = "none"
    /\ confirmedBuyerWallet = NoAccount
    /\ ttlPassed = FALSE
    /\ onSale = TRUE
    /\ issuance = [i \in Issuances |-> Unissued]
    /\ payments = {}
    /\ height = 1
    /\ finalHeight = 0
    /\ chain = [i \in Issuances |-> [at |-> 0, err |-> FALSE]]
    /\ lockedBy = NoBuilder
    /\ build = [b \in Builders |-> IdleBuild]
    /\ verify = [r \in Verifiers |-> IdleVerify]
    /\ told = [r \in Verifiers |-> "open"]

(***************************************************************************)
(* The chain as an RPC node reports it                                     *)
(***************************************************************************)
Issued(i) == issuance[i].status # "unissued"
Active(i) == issuance[i].status = "active"

\* getSignatureStatuses returned null.
Unseen(i) == chain[i].at = 0
Final(i) == chain[i].at # 0 /\ chain[i].at <= finalHeight
FinalOk(i) == Final(i) /\ ~chain[i].err

FinalErr(i) == Final(i) /\ chain[i].err

\* Variant: the last valid height itself counts as past.
WindowClosedEarly(i) == finalHeight >= issuance[i].lastValid

\* getBlockHeight('finalized') is past the issuance's lastValidBlockHeight.
WindowClosed(i) == finalHeight > issuance[i].lastValid

(***************************************************************************)
(* The environment: wall clock, the creator's and the moderator's changes   *)
(* of the archive's sale state, the chain and the buyer's wallet.           *)
(***************************************************************************)
TtlPasses ==
    /\ status # "none"
    /\ ~ttlPassed
    /\ ttlPassed' = TRUE
    /\ UNCHANGED <<intentVars, onSale, issuance, chainVars, buildVars, verifyVars>>

SaleChanges ==
    /\ onSale' = ~onSale
    /\ UNCHANGED <<intentVars, ttlPassed, issuance, chainVars, buildVars, verifyVars>>

ProduceBlock ==
    /\ height < MaxHeight
    /\ height' = height + 1
    /\ UNCHANGED <<intentVars, envVars, issuance, finalHeight, chain, buildVars, verifyVars>>

FinalizeBlock ==
    /\ finalHeight < height
    /\ finalHeight' = finalHeight + 1
    /\ UNCHANGED <<intentVars, envVars, issuance, height, chain, buildVars, verifyVars>>

\* The buyer signed and sent the issued transaction; a block that may still
\* use its blockhash includes it, and its execution succeeds or fails.
Land(i, err) ==
    /\ Issued(i)
    /\ Unseen(i)
    /\ height <= issuance[i].lastValid
    /\ finalHeight < height
    /\ chain' = [chain EXCEPT ![i] = [at |-> height, err |-> err]]
    /\ UNCHANGED <<intentVars, envVars, issuance, height, finalHeight, buildVars, verifyVars>>

\* The fork that held the transaction loses before it is finalized.
Reorg(i) ==
    /\ chain[i].at > finalHeight
    /\ chain' = [chain EXCEPT ![i] = [at |-> 0, err |-> FALSE]]
    /\ UNCHANGED <<intentVars, envVars, issuance, height, finalHeight, buildVars, verifyVars>>

(***************************************************************************)
(* createPaymentIntent                                                     *)
(***************************************************************************)
CreatePaymentIntent ==
    /\ status = "none"
    /\ onSale
    /\ status' = "created"
    /\ UNCHANGED <<confirmedBuyerWallet, payments, envVars, issuance, chainVars,
                   buildVars, verifyVars>>

(***************************************************************************)
(* buildTransaction: one $transaction that holds the intent row lock while  *)
(* it asks the RPC node about the issuance that is still active.            *)
(***************************************************************************)
\* Variant: the intent row is read without FOR UPDATE.
BuildLockNoWait(b, a) ==
    /\ build[b].pc = "idle"
    /\ status # "none"
    /\ lockedBy' = b
    /\ build' = [build EXCEPT ![b] = [IdleBuild EXCEPT !.pc = "locked", !.account = a]]
    /\ UNCHANGED <<intentVars, envVars, issuance, chainVars, verifyVars>>

BuildLock(b, a) ==
    /\ build[b].pc = "idle"
    /\ status # "none"
    /\ lockedBy = NoBuilder
    /\ lockedBy' = b
    /\ build' = [build EXCEPT ![b] = [IdleBuild EXCEPT !.pc = "locked", !.account = a]]
    /\ UNCHANGED <<intentVars, envVars, issuance, chainVars, verifyVars>>

\* The transaction ends, by commit or rollback, and the lock is released.
EndBuild(b) ==
    /\ lockedBy' = NoBuilder
    /\ build' = [build EXCEPT ![b] = IdleBuild]

\* 410, 409 or 404.  After the TTL the handler also retires the issuance and
\* the intent, but inside the $transaction that the 410 it then throws rolls
\* back: nothing of it is kept.
BuildRefuse(b) ==
    /\ build[b].pc = "locked"
    /\ ttlPassed \/ status = "confirmed" \/ ~onSale
    /\ EndBuild(b)
    /\ UNCHANGED <<intentVars, envVars, issuance, chainVars, verifyVars>>

BuildFindActive(b) ==
    /\ build[b].pc = "locked"
    /\ ~ttlPassed
    /\ status # "confirmed"
    /\ onSale
    /\ \/ /\ \A i \in Issuances : ~Active(i)
          /\ build' = [build EXCEPT ![b].pc = "issue"]
       \/ \E i \in Issuances :
            /\ Active(i)
            /\ build' = [build EXCEPT ![b].pc = "status", ![b].prev = i]
    /\ UNCHANGED <<intentVars, envVars, issuance, chainVars, lockedBy, verifyVars>>

\* issuanceChainState, first read: the signature's status.
BuildChainStatus(b) ==
    LET p == build[b].prev IN
    /\ build[b].pc = "status"
    /\ \/ /\ Unseen(p)
          /\ build' = [build EXCEPT ![b].pc = "height"]
          /\ UNCHANGED lockedBy
       \/ /\ FinalErr(p)
          /\ build' = [build EXCEPT ![b].pc = "issue", ![b].verdict = "failed"]
          /\ UNCHANGED lockedBy
       \/ /\ ~Unseen(p) /\ ~FinalErr(p)     \* same account: resent; other: 409
          /\ EndBuild(b)
    /\ UNCHANGED <<intentVars, envVars, issuance, chainVars, verifyVars>>

\* issuanceChainState, second read: the finalized block height.
BuildChainHeight(b) ==
    /\ build[b].pc = "height"
    /\ \/ /\ WindowClosed(build[b].prev)
          /\ build' = [build EXCEPT ![b].pc = "issue", ![b].verdict = "expired"]
          /\ UNCHANGED lockedBy
       \/ /\ ~WindowClosed(build[b].prev)
          /\ EndBuild(b)
    /\ UNCHANGED <<intentVars, envVars, issuance, chainVars, verifyVars>>

\* The issuances once p, if there is one, has got its final status.
Closed(p, verdict) ==
    [j \in Issuances |-> IF j = p THEN [issuance[j] EXCEPT !.status = verdict]
                                  ELSE issuance[j]]

\* The previous issuance, if any, is retired, a new one is created on a
\* confirmed blockhash and the transaction commits.  Bound: the window of the
\* new issuance closes below MaxHeight.
BuildIssue(b) ==
    LET p == build[b].prev IN
    /\ build[b].pc = "issue"
    /\ \E i \in Issuances, confirmedHeight \in finalHeight..height :
        /\ ~Issued(i)
        /\ confirmedHeight + Window < MaxHeight
        /\ issuance' = [Closed(p, build[b].verdict) EXCEPT
                ![i] = [status |-> "active", account |-> build[b].account,
                        lastValid |-> confirmedHeight + Window]]
    /\ status' = IF status = "created" THEN "pending" ELSE status
    /\ EndBuild(b)
    /\ UNCHANGED <<confirmedBuyerWallet, payments, envVars, chainVars, verifyVars>>

\* An RPC error (503), the 30 s transaction timeout or a crash: rollback.
BuildAbort(b) ==
    /\ build[b].pc # "idle"
    /\ EndBuild(b)
    /\ UNCHANGED <<intentVars, envVars, issuance, chainVars, verifyVars>>

(***************************************************************************)
(* verifyPayment: no lock until the commit.                                *)
(***************************************************************************)
EndVerify(r, answer) ==
    /\ verify' = [verify EXCEPT ![r] = IdleVerify]
    /\ told' = [told EXCEPT ![r] = IF answer \in Answer THEN answer ELSE "open"]

GotoVerify(r, pc) ==
    /\ verify' = [verify EXCEPT ![r].pc = pc]
    /\ UNCHANGED told

\* The authenticated intent is read, once; a terminal status is answered.  A
\* request may name an issued transaction or leave sig = NoIssuance.
VerifyStart(r, sig) ==
    /\ verify[r].pc = "idle"
    /\ status # "none"
    /\ sig # NoIssuance => Issued(sig)
    /\ IF status \in {"failed", "expired", "confirmed"}
         THEN EndVerify(r, status)
         ELSE /\ verify' = [verify EXCEPT ![r] = [pc |-> "find", iss |-> sig]]
              /\ told' = [told EXCEPT ![r] = "open"]
    /\ UNCHANGED <<intentVars, envVars, issuance, chainVars, buildVars>>

\* Variant: an intent without an active issuance is never closed.
VerifyFindIssuanceNoClose(r) ==
    /\ verify[r].pc = "find"
    /\ \/ \E i \in Issuances :
            /\ Active(i)
            /\ verify' = [verify EXCEPT ![r] = [pc |-> "known", iss |-> i]]
            /\ UNCHANGED told
       \/ /\ \A i \in Issuances : ~Active(i)
          /\ EndVerify(r, "pending")
    /\ UNCHANGED <<intentVars, envVars, issuance, chainVars, buildVars>>

\* The issuance of the given signature, whatever its status, or the active one.
VerifyFindIssuance(r) ==
    /\ verify[r].pc = "find"
    /\ \/ /\ verify[r].iss # NoIssuance
          /\ GotoVerify(r, "known")
       \/ /\ verify[r].iss = NoIssuance
          /\ \E i \in Issuances :
               /\ Active(i)
               /\ verify' = [verify EXCEPT ![r] = [pc |-> "known", iss |-> i]]
               /\ UNCHANGED told
       \/ /\ verify[r].iss = NoIssuance
          /\ \A i \in Issuances : ~Active(i)
          /\ IF ttlPassed THEN GotoVerify(r, "markExpired") ELSE EndVerify(r, "pending")
    /\ UNCHANGED <<intentVars, envVars, issuance, chainVars, buildVars>>

\* A payment that this signature already made is compared with the intent row
\* that VerifyStart read.  That row was not confirmed, so it has no buyer yet
\* and assertConfirmedPaymentBindings always throws.
VerifyKnownPayment(r) ==
    /\ verify[r].pc = "known"
    /\ IF \E p \in payments : p.issuance = verify[r].iss
         THEN EndVerify(r, "inconsistent")
         ELSE GotoVerify(r, "status")
    /\ UNCHANGED <<intentVars, envVars, issuance, chainVars, buildVars>>

\* Variant: a landed transaction is accepted before it is finalized.
VerifyChainStatusEarly(r) ==
    LET i == verify[r].iss IN
    /\ verify[r].pc = "status"
    /\ \/ Unseen(i) /\ GotoVerify(r, "height")
       \/ ~Unseen(i) /\ chain[i].err /\ EndVerify(r, "pending")
       \/ ~Unseen(i) /\ ~chain[i].err /\ GotoVerify(r, "commit")
    /\ UNCHANGED <<intentVars, envVars, issuance, chainVars, buildVars>>

\* getSignatureStatuses.
VerifyChainStatus(r) ==
    LET i == verify[r].iss IN
    /\ verify[r].pc = "status"
    /\ \/ Unseen(i) /\ GotoVerify(r, "height")
       \/ ~Unseen(i) /\ ~Final(i) /\ chain[i].err /\ EndVerify(r, "pending")
       \/ ~Unseen(i) /\ ~Final(i) /\ ~chain[i].err /\ GotoVerify(r, "markAwaiting")
       \/ FinalErr(i) /\ GotoVerify(r, "txFailed")
       \/ FinalOk(i) /\ GotoVerify(r, "commit")
    /\ UNCHANGED <<intentVars, envVars, issuance, chainVars, buildVars>>

\* updateMany(where: id, status 'active'): the only guarded write.
Retire(i, to) ==
    issuance' = [issuance EXCEPT ![i].status = IF Active(i) THEN to ELSE @]

\* Nothing on chain: getBlockHeight('finalized') against the window.
VerifyChainHeight(r) ==
    LET i == verify[r].iss IN
    /\ verify[r].pc = "height"
    /\ \/ /\ WindowClosed(i)
          /\ Retire(i, "expired")
          /\ IF ttlPassed THEN GotoVerify(r, "markExpired") ELSE EndVerify(r, "pending")
       \/ /\ ~WindowClosed(i)
          /\ EndVerify(r, "pending")
          /\ UNCHANGED issuance
    /\ UNCHANGED <<intentVars, envVars, chainVars, buildVars>>

\* The transaction was finalized with an error.
VerifyTransactionFailed(r) ==
    /\ verify[r].pc = "txFailed"
    /\ Retire(verify[r].iss, "failed")
    /\ IF ttlPassed THEN GotoVerify(r, "markFailed") ELSE EndVerify(r, "pending")
    /\ UNCHANGED <<intentVars, envVars, chainVars, buildVars>>

\* Variant: without the CHECK constraint on the confirmed buyer.
MarkIntentUnchecked(r, to) ==
    /\ lockedBy = NoBuilder
    /\ status' = to
    /\ EndVerify(r, to)
    /\ UNCHANGED <<confirmedBuyerWallet, payments, envVars, issuance, chainVars, buildVars>>

\* paymentIntent.update by id alone: it waits for the row lock and asks nothing
\* of the status it overwrites.  payment_intents_confirmed_buyer_check rejects
\* it, as an error, when the row is confirmed.
MarkIntent(r, to) ==
    /\ lockedBy = NoBuilder
    /\ IF confirmedBuyerWallet = NoAccount
         THEN status' = to /\ EndVerify(r, to)
         ELSE UNCHANGED status /\ EndVerify(r, "error")
    /\ UNCHANGED <<confirmedBuyerWallet, payments, envVars, issuance, chainVars, buildVars>>

VerifyMarkExpired(r) == verify[r].pc = "markExpired" /\ MarkIntent(r, "expired")
VerifyMarkAwaiting(r) == verify[r].pc = "markAwaiting" /\ MarkIntent(r, "awaiting_finality")
VerifyMarkFailed(r) == verify[r].pc = "markFailed" /\ MarkIntent(r, "failed")

\* The finalized transaction passed the checklist: one $transaction under the
\* row lock makes the intent confirmed with its payment, entitlement and event.
\* The intent status is looked at only to answer a repeated confirmation.
VerifyCommit(r) ==
    LET i == verify[r].iss IN
    /\ verify[r].pc = "commit"
    /\ lockedBy = NoBuilder
    /\ \/ /\ status = "confirmed"
          /\ EndVerify(r, "confirmed")
          /\ UNCHANGED <<intentVars, issuance>>
       \/ /\ status # "confirmed"
          /\ ~Active(i)
          /\ EndVerify(r, "refused")
          /\ UNCHANGED <<intentVars, issuance>>
       \/ /\ status # "confirmed"
          /\ Active(i)
          /\ issuance' = [issuance EXCEPT ![i].status = "consumed"]
          /\ status' = "confirmed"
          /\ confirmedBuyerWallet' = issuance[i].account
          /\ payments' = payments \cup {[issuance |-> i, buyer |-> issuance[i].account]}
          /\ EndVerify(r, "confirmed")
    /\ UNCHANGED <<envVars, chainVars, buildVars>>

\* An RPC or database error (503) or a crash of the API process.
VerifyAbort(r) ==
    /\ verify[r].pc # "idle"
    /\ EndVerify(r, "error")
    /\ UNCHANGED <<intentVars, envVars, issuance, chainVars, buildVars>>

(***************************************************************************)
(* Specification                                                           *)
(***************************************************************************)
Environment ==
    \/ TtlPasses
    \/ SaleChanges
    \/ ProduceBlock
    \/ FinalizeBlock
    \/ \E i \in Issuances : Reorg(i) \/ \E err \in BOOLEAN : Land(i, err)

BuildTransaction(b) ==
    \/ \E a \in Accounts : BuildLock(b, a)
    \/ BuildRefuse(b)
    \/ BuildFindActive(b)
    \/ BuildChainStatus(b)
    \/ BuildChainHeight(b)
    \/ BuildIssue(b)
    \/ BuildAbort(b)

VerifyPayment(r) ==
    \/ \E sig \in Issuances \cup {NoIssuance} : VerifyStart(r, sig)
    \/ VerifyFindIssuance(r)
    \/ VerifyKnownPayment(r)
    \/ VerifyChainStatus(r)
    \/ VerifyChainHeight(r)
    \/ VerifyTransactionFailed(r)
    \/ VerifyMarkExpired(r)
    \/ VerifyMarkAwaiting(r)
    \/ VerifyMarkFailed(r)
    \/ VerifyCommit(r)
    \/ VerifyAbort(r)

Next ==
    \/ Environment
    \/ CreatePaymentIntent
    \/ \E b \in Builders : BuildTransaction(b)
    \/ \E r \in Verifiers : VerifyPayment(r)

Spec == Init /\ [][Next]_vars

(***************************************************************************)
(* Fairness.  Blocks are produced and finalized; a buildTransaction ends, at *)
(* the latest by its 30 s timeout; outages of the RPC node and the database *)
(* end; the Viewer polls again and again without a signature, and a request *)
(* that is waiting for the row lock gets it when the lock is free again and *)
(* again.                                                                  *)
(***************************************************************************)
VerifyProgress(r) ==
    \/ VerifyFindIssuance(r) \/ VerifyKnownPayment(r)
    \/ VerifyChainStatus(r) \/ VerifyChainHeight(r) \/ VerifyTransactionFailed(r)
    \/ VerifyMarkExpired(r) \/ VerifyMarkAwaiting(r) \/ VerifyMarkFailed(r)
    \/ VerifyCommit(r)

Fairness ==
    /\ WF_vars(ProduceBlock)
    /\ WF_vars(FinalizeBlock)
    /\ \A b \in Builders : WF_vars(BuildAbort(b))
    /\ \A r \in Verifiers :
        /\ SF_vars(VerifyStart(r, NoIssuance))
        /\ SF_vars(VerifyProgress(r))
        /\ <>[][~VerifyAbort(r)]_vars

FairSpec == Spec /\ Fairness

(***************************************************************************)
(* Properties                                                              *)
(***************************************************************************)

\* At most one issuance of the intent is active: two concurrent
\* buildTransaction requests never both issue, and a replaced issuance is
\* retired in the same commit (the partial unique index never fires).
OneActiveIssuance ==
    \A i, j \in Issuances : Active(i) /\ Active(j) => i = j

\* The issued transaction can still be charged to the buyer: it is not yet
\* irrevocable and it either sits in a block or may still enter one.
Payable(i) ==
    /\ Issued(i)
    /\ ~Final(i)
    /\ ~Unseen(i) \/ height <= issuance[i].lastValid

\* "without creating concurrently payable variants" (docs/API.md): whatever the
\* wallet, the chain and the requests do, no two issued transactions of one
\* intent can be pending at the same time.
NoConcurrentlyPayable ==
    \A i, j \in Issuances : Payable(i) /\ Payable(j) => i = j

\* An issuance is closed as failed only when its transaction is finalized with
\* an error, so that a reorganisation can never turn it into a payment.
FailedNeverPaid ==
    \A i \in Issuances : issuance[i].status = "failed" => FinalErr(i)

\* Payment and entitlement exist only for a consumed issuance whose own
\* transaction succeeded, is irrevocable and landed inside its window; the
\* buyer recorded is the account the issuance was built for.
PaymentIsFinal ==
    \A p \in payments :
        /\ issuance[p.issuance].status = "consumed"
        /\ FinalOk(p.issuance)
        /\ chain[p.issuance].at <= issuance[p.issuance].lastValid
        /\ p.buyer = issuance[p.issuance].account

\* The intent is confirmed exactly when it has its one payment, for one
\* consumed issuance, and the confirmed wallet is that payment's buyer; the
\* writes of slower requests cannot take the intent away from its payment.
ConfirmedIffPaid ==
    IF status = "confirmed"
      THEN \E p \in payments :
             /\ payments = {p}
             /\ confirmedBuyerWallet = p.buyer
             /\ \A i \in Issuances : issuance[i].status = "consumed" <=> i = p.issuance
      ELSE /\ payments = {}
           /\ confirmedBuyerWallet = NoAccount
           /\ \A i \in Issuances : issuance[i].status # "consumed"

\* A client that was told "confirmed" has an entitlement to activate, for ever.
ToldConfirmedIsPaid ==
    \A r \in Verifiers : told[r] = "confirmed" => status = "confirmed" /\ payments # {}

\* Once confirmed, the intent, its buyer, its payment and the consumed issuance
\* never change again, however many verifyPayment requests are still running.
ConfirmedIsFinal ==
    [][status = "confirmed" =>
        /\ status' = "confirmed"
        /\ confirmedBuyerWallet' = confirmedBuyerWallet
        /\ payments' = payments
        /\ \A i \in Issuances :
             issuance[i].status = "consumed" => issuance'[i] = issuance[i]]_vars

Terminal == status \in {"confirmed", "expired", "failed"}

\* After its deadline an intent that is polled does not stay open: it becomes
\* confirmed, expired or failed, through reorganisations, failed executions,
\* aborted requests and row-lock waits.
IntentCloses ==
    ttlPassed ~> Terminal

(***************************************************************************)
(* What the buyer sees of it                                               *)
(***************************************************************************)
Charge(i) ==
    CASE ~Issued(i) -> "none"
      [] Payable(i) -> "open"
      [] FinalOk(i) -> "charged"
      [] OTHER -> "void"

Promise == INSTANCE Purchase WITH
    Offers <- Issuances,
    offer <- [i \in Issuances |-> Charge(i)],
    granted <- {p.issuance : p \in payments}

\* The intent, its issuances, the row lock and the chain implement a purchase:
\* no transaction is built while another can still be charged or once the
\* purchase is granted, and when it is granted nothing is left to be charged.
KeepsPromise == Promise!Spec

(***************************************************************************)
(* The inductive invariant that the safety properties rest on              *)
(***************************************************************************)

\* Nothing lands outside a block or after its window; only issued transactions.
ChainInv ==
    /\ finalHeight <= height
    /\ \A i \in Issuances :
        chain[i].at # 0 =>
            Issued(i) /\ chain[i].at <= height /\ chain[i].at <= issuance[i].lastValid

\* Only the holder of the row lock is past its first step.
LockInv == \A b \in Builders : build[b].pc # "idle" <=> lockedBy = b

\* Under the lock the intent stays unconfirmed and the issuance that was found
\* is the only one that may still be active; a verdict on it is irrevocable.
BuildInv ==
    \A b \in Builders :
        LET p == build[b].prev IN
        /\ build[b].pc # "idle" => build[b].account \in Accounts
        /\ p # NoIssuance => Issued(p)
        /\ build[b].pc \in {"status", "height"} => p # NoIssuance
        /\ build[b].pc \in {"idle", "locked"} => p = NoIssuance
        /\ build[b].pc \in {"status", "height", "issue"} =>
             status # "confirmed" /\ \A i \in Issuances : Active(i) => i = p
        /\ build[b].pc = "issue" /\ p # NoIssuance =>
             \/ build[b].verdict = "failed" /\ FinalErr(p)
             \/ build[b].verdict = "expired" /\ WindowClosed(p)

\* A closed issuance is closed for a reason the chain cannot take back.
IssuanceInv ==
    \A i \in Issuances :
        /\ Issued(i) => issuance[i].account \in Accounts
        /\ issuance[i].status = "failed" => FinalErr(i)
        /\ issuance[i].status = "expired" => WindowClosed(i)
        /\ issuance[i].status = "consumed" => FinalOk(i)

\* What a verifyPayment request remembers of the chain is irrevocable.
VerifyInv ==
    \A r \in Verifiers :
        LET i == verify[r].iss IN
        /\ i # NoIssuance => Issued(i)
        /\ verify[r].pc \in {"known", "status", "height", "txFailed", "commit"} =>
             i # NoIssuance
        /\ verify[r].pc = "txFailed" => FinalErr(i)
        /\ verify[r].pc = "commit" => FinalOk(i)

IInv ==
    /\ TypeOK
    /\ ChainInv
    /\ LockInv
    /\ BuildInv
    /\ IssuanceInv
    /\ VerifyInv
    /\ OneActiveIssuance
    /\ ConfirmedIffPaid
    /\ PaymentIsFinal
    /\ ToldConfirmedIsPaid

(***************************************************************************)
(* What the documentation says and the code does not keep                  *)
(***************************************************************************)

\* docs/API.md: "`confirmed`, `expired` and `failed` are terminal."
TerminalIsFinal ==
    [][Terminal => UNCHANGED status]_vars

\* docs/API.md: "It marks `expired` only after all issuance windows are
\* conclusively closed with no eligible transaction"; docs/PAYMENTS.md says the
\* same of failed.
ClosedOnlyWhenSettled ==
    status \in {"expired", "failed"} =>
        \A i \in Issuances : Active(i) => ~Payable(i) /\ ~FinalOk(i)

\* docs/API.md: "Polling or resubmitting the same signature returns the same
\* pending/awaiting/confirmed result."
ResubmitIsIdempotent ==
    \A r \in Verifiers : told[r] # "inconsistent"

\* docs/API.md: "Backend may build a fresh transaction only after the previous
\* issuance is conclusively no longer payable: either its blockhash window
\* ended with no eligible landing, or authoritative chain execution reached
\* terminal failure without transfers."
ReplacedNeverPaid ==
    \A i \in Issuances : issuance[i].status \in {"failed", "expired"} => ~FinalOk(i)
=============================================================================
