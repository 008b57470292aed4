--------------------------- MODULE PaymentsProofs ---------------------------
(***************************************************************************)
(* Proofs about Payments, for any number of issuances, accounts and         *)
(* concurrent requests, and that they implement Purchase.                   *)
(***************************************************************************)
EXTENDS Payments, TLAPS

(***************************************************************************)
(* Type correctness                                                        *)
(***************************************************************************)

\* Initially every variable is in its type.
LEMMA TypeInit == Init => TypeOK
<1> SUFFICES ASSUME Init PROVE TypeOK
    OBVIOUS
<1>1. issuance \in [Issuances -> Issuance]
    BY DEF Init, Issuance, IssuanceStatus, Unissued
<1>2. [at |-> 0, err |-> FALSE] \in Landing
    BY DEF Landing
<1>3. build \in [Builders -> Build] /\ verify \in [Verifiers -> Verify]
    BY DEF Init, Build, BuildStep, IdleBuild, Verify, VerifyStep, IdleVerify
<1>4. QED
    BY <1>1, <1>2, <1>3 DEF Init, TypeOK, IntentStatus, Answer

\* A step of the environment keeps every variable in its type.
LEMMA TypeEnvironment == ASSUME TypeOK, Environment PROVE TypeOK'
<1> USE DEF TypeOK, intentVars, envVars, chainVars, buildVars, verifyVars
<1>1. CASE TtlPasses
  <2>1. ttlPassed' \in BOOLEAN
    BY <1>1, Zenon DEF TtlPasses
  <2>2. QED
    BY <1>1, <2>1 DEF TtlPasses
<1>2. CASE SaleChanges
  <2>1. onSale' \in BOOLEAN
    BY <1>2, Zenon DEF SaleChanges
  <2>2. QED
    BY <1>2, <2>1 DEF SaleChanges
<1>3. ASSUME NEW i \in Issuances, Reorg(i) \/ \E err \in BOOLEAN : Land(i, err)
      PROVE  TypeOK'
  <2>1. PICK l \in Landing : chain' = [chain EXCEPT ![i] = l]
    <3>1. \A err \in BOOLEAN : [at |-> height, err |-> err] \in Landing
      BY DEF Landing
    <3>2. [at |-> 0, err |-> FALSE] \in Landing
      BY DEF Landing
    <3>3. QED
      BY <1>3, <3>1, <3>2 DEF Reorg, Land
  <2>2. chain' \in [Issuances -> Landing]
    BY <2>1
  <2>3. QED
    BY <1>3, <2>2 DEF Reorg, Land
<1>4. CASE ProduceBlock \/ FinalizeBlock
    BY <1>4 DEF ProduceBlock, FinalizeBlock
<1>5. QED
    BY <1>1, <1>2, <1>3, <1>4 DEF Environment

\* A step of buildTransaction keeps every variable in its type, given that the
\* issuance it retires has a verdict.
LEMMA TypeBuild ==
    ASSUME TypeOK, BuildInv, NEW b \in Builders, BuildTransaction(b) PROVE TypeOK'
<1> USE NullAssumption DEF TypeOK, intentVars, envVars, chainVars, buildVars, verifyVars
<1>1. lockedBy' \in Builders \cup {NoBuilder} /\ build' \in [Builders -> Build]
  <2> USE DEF Build, BuildStep, IdleBuild, EndBuild
  <2>1. ASSUME NEW a \in Accounts, BuildLock(b, a)
        PROVE  lockedBy' \in Builders \cup {NoBuilder} /\ build' \in [Builders -> Build]
    BY <2>1 DEF BuildLock
  <2>2. CASE BuildRefuse(b)
    BY <2>2 DEF BuildRefuse
  <2>3. CASE BuildFindActive(b)
    BY <2>3 DEF BuildFindActive
  <2>4. CASE BuildChainStatus(b)
    BY <2>4 DEF BuildChainStatus
  <2>5. CASE BuildChainHeight(b)
    BY <2>5 DEF BuildChainHeight
  <2>6. CASE BuildIssue(b)
    BY <2>6 DEF BuildIssue
  <2>7. CASE BuildAbort(b)
    BY <2>7 DEF BuildAbort
  <2>8. QED
    BY <2>1, <2>2, <2>3, <2>4, <2>5, <2>6, <2>7 DEF BuildTransaction
<1>2. CASE BuildIssue(b)
  <2>1. issuance' \in [Issuances -> Issuance]
    <3>1. PICK i \in Issuances, h \in finalHeight..height :
            issuance' = [Closed(build[b].prev, build[b].verdict) EXCEPT
                ![i] = [status |-> "active", account |-> build[b].account,
                        lastValid |-> h + Window]]
      BY <1>2 DEF BuildIssue
    <3>2. h + Window \in Nat
      BY WindowAssumption
    <3>3. build[b].account \in Accounts \cup {NoAccount}
      BY DEF Build
    <3>4. [status |-> "active", account |-> build[b].account, lastValid |-> h + Window] \in Issuance
      BY <3>2, <3>3 DEF Issuance, IssuanceStatus
    <3>5. ASSUME build[b].prev \in Issuances
          PROVE  [issuance[build[b].prev] EXCEPT !.status = build[b].verdict] \in Issuance
      <4>1. build[b].verdict \in {"failed", "expired"}
        BY <1>2, <3>5 DEF BuildIssue, BuildInv
      <4>2. issuance[build[b].prev] \in Issuance
        BY <3>5
      <4>3. QED
        BY <4>1, <4>2 DEF Issuance, IssuanceStatus
    <3>6. QED
      BY <3>1, <3>4, <3>5 DEF Closed
  <2>2. status' \in IntentStatus
    BY <1>2 DEF BuildIssue, IntentStatus
  <2>3. QED
    BY <1>1, <1>2, <2>1, <2>2 DEF BuildIssue
<1>3. CASE UNCHANGED <<intentVars, envVars, issuance, chainVars, verifyVars>>
    BY <1>1, <1>3
<1>4. QED
    BY <1>2, <1>3 DEF BuildTransaction, BuildLock, BuildRefuse, BuildFindActive,
       BuildChainStatus, BuildChainHeight, BuildAbort

\* Whatever a request answers, it ends idle with one of the answers.
LEMMA TypeEndVerify ==
    ASSUME TypeOK, NEW r \in Verifiers, NEW answer, EndVerify(r, answer)
    PROVE  verify' \in [Verifiers -> Verify] /\ told' \in [Verifiers -> Answer]
<1>1. IdleVerify \in Verify
  BY DEF IdleVerify, Verify, VerifyStep
<1>2. (IF answer \in Answer THEN answer ELSE "open") \in Answer
  BY DEF Answer
<1>3. QED
  BY <1>1, <1>2 DEF EndVerify, TypeOK

\* A step of verifyPayment keeps every variable in its type, given that the
\* issuance it works on exists.
LEMMA TypeVerify ==
    ASSUME TypeOK, VerifyInv, IssuanceInv, NEW r \in Verifiers, VerifyPayment(r) PROVE TypeOK'
<1> USE NullAssumption DEF TypeOK, intentVars, envVars, chainVars, buildVars, verifyVars
<1>1. verify' \in [Verifiers -> Verify] /\ told' \in [Verifiers -> Answer]
  <2>1. CASE \E answer : EndVerify(r, answer)
    BY <2>1, TypeEndVerify
  <2>2. CASE /\ told' \in [Verifiers -> Answer]
             /\ \/ \E pc \in VerifyStep : verify' = [verify EXCEPT ![r].pc = pc]
                \/ \E pc \in VerifyStep, i \in Issuances \cup {NoIssuance} :
                     verify' = [verify EXCEPT ![r] = [pc |-> pc, iss |-> i]]
    BY <2>2 DEF Verify
  <2> USE DEF GotoVerify, VerifyStep, Answer
  <2>3. ASSUME NEW sig \in Issuances \cup {NoIssuance}, VerifyStart(r, sig)
        PROVE  verify' \in [Verifiers -> Verify] /\ told' \in [Verifiers -> Answer]
    BY <2>1, <2>2, <2>3 DEF VerifyStart
  <2>4. CASE VerifyFindIssuance(r)
    BY <2>1, <2>2, <2>4 DEF VerifyFindIssuance
  <2>5. CASE VerifyKnownPayment(r) \/ VerifyChainStatus(r)
    BY <2>1, <2>2, <2>5 DEF VerifyKnownPayment, VerifyChainStatus
  <2>6. CASE VerifyChainHeight(r) \/ VerifyTransactionFailed(r)
    BY <2>1, <2>2, <2>6 DEF VerifyChainHeight, VerifyTransactionFailed
  <2>7. CASE VerifyMarkExpired(r) \/ VerifyMarkAwaiting(r) \/ VerifyMarkFailed(r)
    BY <2>1, <2>7 DEF VerifyMarkExpired, VerifyMarkAwaiting, VerifyMarkFailed, MarkIntent
  <2>8. CASE VerifyCommit(r) \/ VerifyAbort(r)
    BY <2>1, <2>8 DEF VerifyCommit, VerifyAbort
  <2>9. QED
    BY <2>3, <2>4, <2>5, <2>6, <2>7, <2>8 DEF VerifyPayment
<1>2. issuance' \in [Issuances -> Issuance]
  <2>1. CASE UNCHANGED issuance
    BY <2>1
  <2>2. ASSUME NEW i \in Issuances, NEW to \in IssuanceStatus,
               issuance' = [issuance EXCEPT ![i].status = to]
        PROVE  issuance' \in [Issuances -> Issuance]
    <3>1. [issuance[i] EXCEPT !.status = to] \in Issuance
      BY DEF Issuance
    <3>2. issuance' = [issuance EXCEPT ![i] = [issuance[i] EXCEPT !.status = to]]
      BY <2>2
    <3>3. QED
      BY <3>1, <3>2
  <2>3. CASE VerifyChainHeight(r) \/ VerifyTransactionFailed(r) \/ VerifyCommit(r)
    <3> DEFINE i == verify[r].iss
    <3>1. i \in Issuances
      <4>1. verify[r].pc \in {"height", "txFailed", "commit"}
        BY <2>3 DEF VerifyChainHeight, VerifyTransactionFailed, VerifyCommit
      <4>2. i \in Issuances \cup {NoIssuance}
        BY DEF Verify
      <4>3. QED
        BY <4>1, <4>2 DEF VerifyInv
    <3> HIDE DEF i
    <3>2. ASSUME NEW to \in {"expired", "failed"}, Retire(i, to)
          PROVE  issuance' \in [Issuances -> Issuance]
      <4> DEFINE s == IF Active(i) THEN to ELSE issuance[i].status
      <4>1. issuance' = [issuance EXCEPT ![i].status = s]
        BY <3>2 DEF Retire
      <4>2. s \in IssuanceStatus
        BY <3>1 DEF Issuance, IssuanceStatus
      <4> HIDE DEF s
      <4>3. QED
        BY <2>2, <3>1, <4>1, <4>2
    <3>3. ASSUME issuance' = [issuance EXCEPT ![i].status = "consumed"]
          PROVE  issuance' \in [Issuances -> Issuance]
      BY <2>2, <3>1, <3>3 DEF IssuanceStatus
    <3>4. \/ UNCHANGED issuance
          \/ Retire(i, "expired") \/ Retire(i, "failed")
          \/ issuance' = [issuance EXCEPT ![i].status = "consumed"]
      BY <2>3, Zenon DEF VerifyChainHeight, VerifyTransactionFailed, VerifyCommit, i
    <3>5. QED
      BY <2>1, <3>2, <3>3, <3>4
  <2>4. QED
    BY <2>1, <2>3 DEF VerifyPayment, VerifyStart, VerifyFindIssuance, VerifyKnownPayment,
       VerifyChainStatus, VerifyMarkExpired, VerifyMarkAwaiting, VerifyMarkFailed,
       MarkIntent, VerifyAbort
<1>3. /\ status' \in IntentStatus
      /\ confirmedBuyerWallet' \in Accounts \cup {NoAccount}
      /\ payments' \in SUBSET Payment
  <2>1. CASE VerifyCommit(r)
    <3>1. CASE UNCHANGED intentVars
      BY <3>1
    <3>2. CASE /\ Active(verify[r].iss)
               /\ status' = "confirmed"
               /\ confirmedBuyerWallet' = issuance[verify[r].iss].account
               /\ payments' = payments \cup {[issuance |-> verify[r].iss,
                                              buyer |-> issuance[verify[r].iss].account]}
               /\ verify[r].iss \in Issuances
               /\ issuance[verify[r].iss].account \in Accounts
      BY <3>2 DEF IntentStatus, Payment
    <3>3. QED
      BY <2>1, <3>1, <3>2 DEF VerifyCommit, Verify, VerifyInv, IssuanceInv, Issued, Active
  <2>2. CASE VerifyMarkExpired(r) \/ VerifyMarkAwaiting(r) \/ VerifyMarkFailed(r)
    BY <2>2 DEF VerifyMarkExpired, VerifyMarkAwaiting, VerifyMarkFailed, MarkIntent, IntentStatus
  <2>3. CASE UNCHANGED intentVars
    BY <2>3
  <2>4. QED
    BY <2>1, <2>2, <2>3 DEF VerifyPayment, VerifyStart, VerifyFindIssuance,
       VerifyKnownPayment, VerifyChainStatus, VerifyChainHeight, VerifyTransactionFailed,
       VerifyAbort
<1>4. UNCHANGED <<envVars, chainVars, buildVars>>
    BY DEF VerifyPayment, VerifyStart, VerifyFindIssuance, VerifyKnownPayment,
       VerifyChainStatus, VerifyChainHeight, VerifyTransactionFailed, VerifyMarkExpired,
       VerifyMarkAwaiting, VerifyMarkFailed, MarkIntent, VerifyCommit, VerifyAbort
<1>5. QED
    BY <1>1, <1>2, <1>3, <1>4

(***************************************************************************)
(* What no step takes back                                                 *)
(***************************************************************************)

\* An issuance keeps its identity once issued, the finalized height never
\* falls, and the place and result of a finalized transaction are fixed.
Irrevocable(i) ==
    /\ Issued(i) => /\ Issued(i)'
                    /\ issuance'[i].account = issuance[i].account
                    /\ issuance'[i].lastValid = issuance[i].lastValid
    /\ finalHeight' >= finalHeight
    /\ Final(i) => chain'[i] = chain[i]

\* A step of the environment takes nothing back.
LEMMA IrrevocableEnvironment ==
    ASSUME TypeOK, Environment, NEW i \in Issuances PROVE Irrevocable(i)
<1> USE DEF Irrevocable, Issued, TypeOK
<1>1. CASE TtlPasses \/ SaleChanges
    BY <1>1 DEF TtlPasses, SaleChanges, chainVars
<1>2. CASE ProduceBlock \/ FinalizeBlock
    BY <1>2 DEF ProduceBlock, FinalizeBlock
<1>3. ASSUME NEW j \in Issuances, Reorg(j) PROVE Irrevocable(i)
  <2>1. Final(i) => i # j
    BY <1>3 DEF Reorg, Final, Landing
  <2>2. QED
    BY <1>3, <2>1 DEF Reorg
<1>4. ASSUME NEW j \in Issuances, NEW err \in BOOLEAN, Land(j, err) PROVE Irrevocable(i)
  <2>1. Final(i) => i # j
    BY <1>4 DEF Land, Unseen, Final
  <2>2. QED
    BY <1>4, <2>1 DEF Land
<1>5. QED
    BY <1>1, <1>2, <1>3, <1>4 DEF Environment

\* A step of buildTransaction takes nothing back.
LEMMA IrrevocableBuild ==
    ASSUME TypeOK, NEW b \in Builders, BuildTransaction(b), NEW i \in Issuances
    PROVE  Irrevocable(i)
<1> USE DEF Irrevocable, TypeOK, chainVars
<1>1. finalHeight' = finalHeight /\ chain' = chain
    BY DEF BuildTransaction, BuildLock, BuildRefuse, BuildFindActive, BuildChainStatus,
       BuildChainHeight, BuildIssue, BuildAbort
<1>2. CASE UNCHANGED issuance
    BY <1>1, <1>2 DEF Issued
<1>3. CASE BuildIssue(b)
  <2>1. build[b].verdict \in {"none", "failed", "expired"}
    BY DEF Build
  <2>2. Issued(i) => /\ Issued(i)'
                     /\ issuance'[i].account = issuance[i].account
                     /\ issuance'[i].lastValid = issuance[i].lastValid
    BY <1>3, <2>1 DEF BuildIssue, Closed, Issued, Issuance
  <2>3. QED
    BY <1>1, <2>2
<1>4. QED
    BY <1>2, <1>3 DEF BuildTransaction, BuildLock, BuildRefuse, BuildFindActive,
       BuildChainStatus, BuildChainHeight, BuildAbort

\* A step of verifyPayment takes nothing back.
LEMMA IrrevocableVerify ==
    ASSUME TypeOK, NEW r \in Verifiers, VerifyPayment(r), NEW i \in Issuances
    PROVE  Irrevocable(i)
<1> USE DEF Irrevocable, TypeOK, chainVars
<1>1. finalHeight' = finalHeight /\ chain' = chain
    BY DEF VerifyPayment, VerifyStart, VerifyFindIssuance, VerifyKnownPayment,
       VerifyChainStatus, VerifyChainHeight, VerifyTransactionFailed, VerifyMarkExpired,
       VerifyMarkAwaiting, VerifyMarkFailed, MarkIntent, VerifyCommit, VerifyAbort
<1>2. CASE UNCHANGED issuance
    BY <1>1, <1>2 DEF Issued
<1>3. CASE VerifyChainHeight(r) \/ VerifyTransactionFailed(r) \/ VerifyCommit(r)
  <2>1. UNCHANGED issuance \/ \E to \in {"expired", "failed", "consumed"} :
            issuance' = [issuance EXCEPT ![verify[r].iss].status = to]
    BY <1>3 DEF VerifyChainHeight, VerifyTransactionFailed, VerifyCommit, Retire, Issuance
  <2>2. QED
    BY <1>1, <1>2, <2>1 DEF Issued, Issuance
<1>4. QED
    BY <1>2, <1>3 DEF VerifyPayment, VerifyStart, VerifyFindIssuance, VerifyKnownPayment,
       VerifyChainStatus, VerifyMarkExpired, VerifyMarkAwaiting, VerifyMarkFailed,
       MarkIntent, VerifyAbort

\* A result that is final, and a window that is closed, stay so.
LEMMA Persistent ==
    ASSUME TypeOK, TypeOK', NEW i \in Issuances, Irrevocable(i)
    PROVE  /\ FinalOk(i) => FinalOk(i)'
           /\ FinalErr(i) => FinalErr(i)'
           /\ Issued(i) /\ WindowClosed(i) => WindowClosed(i)'
  BY DEF TypeOK, Irrevocable, FinalOk, FinalErr, Final, WindowClosed, Landing, Issuance

(***************************************************************************)
(* The inductive invariant                                                 *)
(***************************************************************************)

\* The invariant holds before the intent exists.
LEMMA IInvInit == Init => IInv
<1> SUFFICES ASSUME Init PROVE IInv
    OBVIOUS
<1>1. TypeOK
    BY TypeInit
<1>2. \A i \in Issuances : issuance[i] = Unissued /\ chain[i].at = 0
    BY DEF Init
<1>3. ChainInv /\ IssuanceInv /\ OneActiveIssuance
    BY <1>2 DEF Init, ChainInv, IssuanceInv, OneActiveIssuance, Active, Issued, Unissued
<1>4. LockInv /\ BuildInv
    BY NullAssumption DEF Init, LockInv, BuildInv, IdleBuild
<1>5. VerifyInv /\ ToldConfirmedIsPaid
    BY DEF Init, VerifyInv, IdleVerify, ToldConfirmedIsPaid
<1>6. ConfirmedIffPaid /\ PaymentIsFinal
    BY <1>2 DEF Init, ConfirmedIffPaid, PaymentIsFinal, Unissued
<1>7. QED
    BY <1>1, <1>3, <1>4, <1>5, <1>6 DEF IInv

\* A step of the environment keeps the invariant: a transaction lands only
\* inside its window and only an unfinalized one is ever taken back.
LEMMA IInvEnvironment == ASSUME IInv, Environment PROVE IInv'
<1>1. TypeOK /\ TypeOK'
    BY TypeEnvironment DEF IInv
<1>2. \A i \in Issuances :
        /\ FinalOk(i) => FinalOk(i)'
        /\ FinalErr(i) => FinalErr(i)'
        /\ Issued(i) /\ WindowClosed(i) => WindowClosed(i)'
    BY <1>1, IrrevocableEnvironment, Persistent
<1>3. UNCHANGED <<intentVars, issuance, buildVars, verifyVars>>
    BY DEF Environment, TtlPasses, SaleChanges, ProduceBlock, FinalizeBlock, Land, Reorg
<1> USE DEF IInv, intentVars, buildVars, verifyVars
<1>4. ChainInv'
  <2> USE <1>1 DEF ChainInv, TypeOK
  <2>1. CASE UNCHANGED chainVars
    BY <1>3, <2>1 DEF chainVars, Issued
  <2>2. CASE ProduceBlock \/ FinalizeBlock
    BY <1>3, <2>2 DEF ProduceBlock, FinalizeBlock, Issued, Landing
  <2>3. ASSUME NEW i \in Issuances, Reorg(i) \/ \E err \in BOOLEAN : Land(i, err)
        PROVE  ChainInv'
    BY <1>3, <2>3 DEF Reorg, Land, Issued, Landing
  <2>4. QED
    BY <2>1, <2>2, <2>3 DEF Environment, TtlPasses, SaleChanges
<1>5. LockInv' /\ OneActiveIssuance' /\ ToldConfirmedIsPaid'
    BY <1>3 DEF LockInv, OneActiveIssuance, Active, ToldConfirmedIsPaid
<1>6. IssuanceInv'
    BY <1>2, <1>3 DEF IssuanceInv, Issued
<1>7. BuildInv'
    BY <1>1, <1>2, <1>3 DEF BuildInv, Issued, Active, TypeOK, Build
<1>8. VerifyInv'
    BY <1>1, <1>2, <1>3 DEF VerifyInv, Issued, TypeOK, Verify
<1>9. ConfirmedIffPaid'
    BY <1>3 DEF ConfirmedIffPaid
<1>10. PaymentIsFinal'
  <2>1. \A p \in payments : chain'[p.issuance] = chain[p.issuance]
    BY <1>1, IrrevocableEnvironment
       DEF PaymentIsFinal, Irrevocable, FinalOk, TypeOK, Payment
  <2>2. QED
    BY <1>1, <1>2, <1>3, <2>1 DEF PaymentIsFinal, TypeOK, Payment
<1>11. QED
    BY <1>1, <1>4, <1>5, <1>6, <1>7, <1>8, <1>9, <1>10

\* Creating the intent keeps the invariant.
LEMMA IInvCreate == ASSUME IInv, CreatePaymentIntent PROVE IInv'
  BY DEF IInv, CreatePaymentIntent, TypeOK, IntentStatus, ChainInv, LockInv, BuildInv,
     IssuanceInv, VerifyInv, OneActiveIssuance, ConfirmedIffPaid, PaymentIsFinal,
     ToldConfirmedIsPaid, Issued, Active, Final, FinalOk, FinalErr, WindowClosed,
     envVars, chainVars, buildVars, verifyVars

\* A buildTransaction that ends gives up its lock and remembers nothing.
LEMMA BuildEnds ==
    ASSUME TypeOK, LockInv, BuildInv, NEW b \in Builders, build[b].pc # "idle", EndBuild(b),
           UNCHANGED <<status, issuance, chain, finalHeight>>
    PROVE  LockInv' /\ BuildInv'
<1>1. \A c \in Builders \ {b} : build'[c] = build[c]
    BY DEF EndBuild, TypeOK
<1>2. build'[b].pc = "idle" /\ build'[b].prev = NoIssuance
    BY DEF EndBuild, TypeOK, IdleBuild
<1>3. \A c \in Builders \ {b} : build[c].pc = "idle"
    BY DEF LockInv
<1>4. LockInv'
    BY <1>1, <1>2, <1>3, NullAssumption DEF LockInv, EndBuild
<1>5. BuildInv'
    BY <1>1, <1>2, <1>3 DEF BuildInv, Issued
<1>6. QED
    BY <1>4, <1>5

\* One that goes on keeps its lock and account; it has an irrevocable verdict
\* when it is about to issue.
LEMMA BuildGoes ==
    ASSUME TypeOK, LockInv, BuildInv, NEW b \in Builders,
           build[b].pc \in {"status", "height"}, build'[b].pc \in {"height", "issue"},
           build'[b].prev = build[b].prev, build'[b].account = build[b].account,
           \A c \in Builders \ {b} : build'[c] = build[c],
           build'[b].pc = "issue" =>
               \/ build'[b].verdict = "failed" /\ FinalErr(build[b].prev)
               \/ build'[b].verdict = "expired" /\ WindowClosed(build[b].prev),
           UNCHANGED <<status, issuance, chain, finalHeight, lockedBy>>
    PROVE  LockInv' /\ BuildInv'
<1>1. LockInv'
    BY DEF LockInv
<1>2. /\ build[b].account \in Accounts /\ Issued(build[b].prev)
      /\ build[b].prev # NoIssuance /\ status # "confirmed"
      /\ \A i \in Issuances : Active(i) => i = build[b].prev
    BY DEF BuildInv
<1>3. ASSUME NEW c \in Builders, NEW p, p = build'[c].prev
      PROVE
        /\ build'[c].pc # "idle" => build'[c].account \in Accounts
        /\ p # NoIssuance => Issued(p)
        /\ build'[c].pc \in {"status", "height"} => p # NoIssuance
        /\ build'[c].pc \in {"idle", "locked"} => p = NoIssuance
        /\ build'[c].pc \in {"status", "height", "issue"} =>
             status # "confirmed" /\ \A i \in Issuances : Active(i) => i = p
        /\ build'[c].pc = "issue" /\ p # NoIssuance =>
             \/ build'[c].verdict = "failed" /\ FinalErr(p)
             \/ build'[c].verdict = "expired" /\ WindowClosed(p)
  <2>1. CASE c = b
    BY <1>2, <1>3, <2>1
  <2>2. CASE c # b
    BY <1>3, <2>2 DEF BuildInv
  <2>3. QED
    BY <2>1, <2>2
<1>5. BuildInv'
    BY <1>3 DEF BuildInv, Issued, Active, Final, FinalErr, WindowClosed
<1>6. QED
    BY <1>1, <1>5

\* A step of buildTransaction that only moves the request or gives up the lock
\* keeps the invariant: what it found under the lock stays true.
LEMMA IInvBuildMove ==
    ASSUME IInv, NEW b \in Builders, BuildTransaction(b),
           UNCHANGED <<intentVars, envVars, issuance, chainVars, verifyVars>>
    PROVE  IInv'
<1> USE DEF IInv, intentVars, chainVars, verifyVars
<1>1. TypeOK /\ TypeOK'
    BY TypeBuild
<1>2. /\ ChainInv' /\ IssuanceInv' /\ VerifyInv' /\ OneActiveIssuance'
      /\ ConfirmedIffPaid' /\ PaymentIsFinal' /\ ToldConfirmedIsPaid'
    BY DEF ChainInv, IssuanceInv, VerifyInv, OneActiveIssuance, ConfirmedIffPaid,
       PaymentIsFinal, ToldConfirmedIsPaid, Issued, Active, Final, FinalOk, FinalErr,
       WindowClosed
<1>3. LockInv' /\ BuildInv'
  <2> USE <1>1, NullAssumption
  <2>1. ASSUME NEW a \in Accounts, BuildLock(b, a) PROVE LockInv' /\ BuildInv'
    BY <2>1 DEF BuildLock, LockInv, BuildInv, TypeOK, Build, IdleBuild, Issued, Active, Final,
          FinalErr, WindowClosed
  <2>2. CASE BuildRefuse(b) \/ BuildAbort(b)
    BY <2>2, BuildEnds DEF BuildRefuse, BuildAbort
  <2>3. CASE BuildFindActive(b)
    <3> USE DEF LockInv, BuildInv, TypeOK, Build, Issued, Active, Final, FinalErr, WindowClosed
    <3>1. PICK q \in Issuances \cup {NoIssuance}, pc \in {"issue", "status"} :
            /\ build' = [build EXCEPT ![b].pc = pc, ![b].prev = q]
            /\ q # NoIssuance => Active(q) /\ pc = "status"
            /\ q = NoIssuance => pc = "issue" /\ \A i \in Issuances : ~Active(i)
      <4>1. CASE \A i \in Issuances : ~Active(i)
        <5>1. build' = [build EXCEPT ![b].pc = "issue", ![b].prev = NoIssuance]
          BY <2>3, <4>1 DEF BuildFindActive
        <5>2. QED
          BY <4>1, <5>1
      <4>2. CASE \E i \in Issuances : Active(i)
        <5>1. PICK i \in Issuances :
                /\ Active(i)
                /\ build' = [build EXCEPT ![b].pc = "status", ![b].prev = i]
          BY <2>3, <4>2, Zenon DEF BuildFindActive
        <5>2. QED
          BY <5>1
      <4>3. QED
        BY <4>1, <4>2
    <3>2. /\ build'[b].pc = pc /\ build'[b].prev = q
          /\ build'[b].account = build[b].account
          /\ \A c \in Builders \ {b} : build'[c] = build[c]
      BY <3>1
    <3>3. lockedBy' = lockedBy /\ status # "confirmed" /\ build[b].pc = "locked"
      BY <2>3 DEF BuildFindActive
    <3>4. LockInv'
      BY <3>2, <3>3
    <3>5. \A i \in Issuances : Active(i) => i = q
      BY <3>1 DEF OneActiveIssuance
    <3>6. build[b].account \in Accounts /\ (q # NoIssuance => Issued(q))
      BY <3>1, <3>3 DEF BuildInv
    <3>7. UNCHANGED <<status, issuance, chain, finalHeight>>
      BY <2>3 DEF BuildFindActive, intentVars
    <3>8. ASSUME NEW c \in Builders, NEW p, p = build'[c].prev
          PROVE
            /\ build'[c].pc # "idle" => build'[c].account \in Accounts
            /\ p # NoIssuance => Issued(p)
            /\ build'[c].pc \in {"status", "height"} => p # NoIssuance
            /\ build'[c].pc \in {"idle", "locked"} => p = NoIssuance
            /\ build'[c].pc \in {"status", "height", "issue"} =>
                 status # "confirmed" /\ \A i \in Issuances : Active(i) => i = p
            /\ build'[c].pc = "issue" /\ p # NoIssuance =>
                 \/ build'[c].verdict = "failed" /\ FinalErr(p)
                 \/ build'[c].verdict = "expired" /\ WindowClosed(p)
      <4>1. CASE c = b
        BY <3>1, <3>2, <3>3, <3>5, <3>6, <3>8, <4>1
      <4>2. CASE c # b
        BY <3>2, <3>8, <4>2 DEF BuildInv
      <4>3. QED
        BY <4>1, <4>2
    <3>9. BuildInv'
      BY <3>7, <3>8 DEF BuildInv
    <3>10. QED
      BY <3>4, <3>9
  <2>4. CASE BuildChainStatus(b)
    <3>1. CASE EndBuild(b)
      BY <2>4, <3>1, BuildEnds DEF BuildChainStatus
    <3>2. CASE build' = [build EXCEPT ![b].pc = "height"] /\ UNCHANGED lockedBy
      <4>1. /\ build'[b].pc = "height" /\ build[b].pc = "status"
            /\ build'[b].prev = build[b].prev /\ build'[b].account = build[b].account
            /\ \A c \in Builders \ {b} : build'[c] = build[c]
        BY <2>4, <3>2 DEF BuildChainStatus, TypeOK, Build
      <4>2. QED
        BY <3>2, <4>1, BuildGoes
    <3>3. CASE /\ build' = [build EXCEPT ![b].pc = "issue", ![b].verdict = "failed"]
               /\ FinalErr(build[b].prev) /\ UNCHANGED lockedBy
      <4>1. /\ build'[b].pc = "issue" /\ build[b].pc = "status" /\ build'[b].verdict = "failed"
            /\ build'[b].prev = build[b].prev /\ build'[b].account = build[b].account
            /\ \A c \in Builders \ {b} : build'[c] = build[c]
        BY <2>4, <3>3 DEF BuildChainStatus, TypeOK, Build
      <4>2. QED
        BY <3>3, <4>1, BuildGoes
    <3>4. QED
      BY <2>4, <3>1, <3>2, <3>3, Zenon DEF BuildChainStatus
  <2>5. CASE BuildChainHeight(b)
    <3>1. CASE EndBuild(b)
      BY <2>5, <3>1, BuildEnds DEF BuildChainHeight
    <3>2. CASE /\ build' = [build EXCEPT ![b].pc = "issue", ![b].verdict = "expired"]
               /\ WindowClosed(build[b].prev) /\ UNCHANGED lockedBy
      <4>1. /\ build'[b].pc = "issue" /\ build[b].pc = "height" /\ build'[b].verdict = "expired"
            /\ build'[b].prev = build[b].prev /\ build'[b].account = build[b].account
            /\ \A c \in Builders \ {b} : build'[c] = build[c]
        BY <2>5, <3>2 DEF BuildChainHeight, TypeOK, Build
      <4>2. QED
        BY <3>2, <4>1, BuildGoes
    <3>3. QED
      BY <2>5, <3>1, <3>2, Zenon DEF BuildChainHeight
  <2>6. CASE BuildIssue(b)
    <3>1. PICK i \in Issuances, h \in finalHeight..height :
            /\ ~Issued(i)
            /\ issuance' = [Closed(build[b].prev, build[b].verdict) EXCEPT
                  ![i] = [status |-> "active", account |-> build[b].account,
                          lastValid |-> h + Window]]
      BY <2>6 DEF BuildIssue
    <3>2. issuance'[i].status = "active"
      BY <3>1 DEF Closed
    <3>3. issuance[i].status # "active"
      BY <3>1 DEF Issued
    <3>4. QED
      BY <3>2, <3>3
  <2>7. QED
    BY <2>1, <2>2, <2>3, <2>4, <2>5, <2>6 DEF BuildTransaction
<1>4. QED
    BY <1>1, <1>2, <1>3

\* Issuing keeps the invariant: the issuance it replaces was the only active
\* one, cannot be the consumed one, and is closed on an irrevocable verdict.
LEMMA IInvBuildIssue == ASSUME IInv, NEW b \in Builders, BuildIssue(b) PROVE IInv'
<1> USE DEF IInv
<1> DEFINE p == build[b].prev
<1>1. TypeOK /\ TypeOK'
    BY TypeBuild DEF BuildTransaction
<1>2. UNCHANGED <<confirmedBuyerWallet, payments, chainVars, verifyVars>>
    BY DEF BuildIssue
<1>3. PICK i \in Issuances :
        /\ ~Issued(i)
        /\ issuance'[i].status = "active"
        /\ issuance'[i].account = build[b].account
        /\ \A j \in Issuances \ {i} :
             /\ j # p => issuance'[j] = issuance[j]
             /\ j = p => issuance'[j] = [issuance[j] EXCEPT !.status = build[b].verdict]
  <2>1. PICK i \in Issuances, h \in finalHeight..height :
          /\ ~Issued(i)
          /\ issuance' = [Closed(p, build[b].verdict) EXCEPT
                ![i] = [status |-> "active", account |-> build[b].account,
                        lastValid |-> h + Window]]
    BY DEF BuildIssue
  <2>2. issuance'[i].status = "active" /\ issuance'[i].account = build[b].account
    BY <2>1 DEF Closed
  <2>3. \A j \in Issuances \ {i} :
             /\ j # p => issuance'[j] = issuance[j]
             /\ j = p => issuance'[j] = [issuance[j] EXCEPT !.status = build[b].verdict]
    BY <2>1 DEF Closed
  <2>4. QED
    BY <2>1, <2>2, <2>3
<1>4. /\ build[b].account \in Accounts
      /\ lockedBy = b
      /\ status # "confirmed"
      /\ \A j \in Issuances : Active(j) => j = p
      /\ p # NoIssuance => /\ Issued(p)
                           /\ \/ build[b].verdict = "failed" /\ FinalErr(p)
                              \/ build[b].verdict = "expired" /\ WindowClosed(p)
    BY DEF BuildIssue, BuildInv, LockInv
<1>5. p \in Issuances \cup {NoIssuance}
    BY <1>1 DEF TypeOK, Build
<1>6. \A j \in Issuances : Issued(j) => Issued(j)' /\ issuance'[j].account = issuance[j].account
                                                   /\ issuance'[j].lastValid = issuance[j].lastValid
    BY <1>1, IrrevocableBuild DEF BuildTransaction, Irrevocable
<1> HIDE DEF p
<1>7. LockInv'
    BY <1>1, <1>4, NullAssumption DEF BuildIssue, EndBuild, LockInv, IdleBuild, TypeOK
<1>8. BuildInv'
  <2>1. \A c \in Builders : build'[c].pc = "idle" /\ build'[c].prev = NoIssuance
    BY <1>1, <1>4 DEF BuildIssue, EndBuild, LockInv, BuildInv, IdleBuild, TypeOK
  <2>2. QED
    BY <2>1 DEF BuildInv
<1>9. ChainInv'
    BY <1>1, <1>2, <1>6 DEF ChainInv, chainVars, Issued, TypeOK
<1>10. OneActiveIssuance'
    BY <1>1, <1>3, <1>4, <1>5, NullAssumption DEF OneActiveIssuance, Active, TypeOK, Issuance
<1>11. IssuanceInv'
    BY <1>1, <1>2, <1>3, <1>4, <1>5, <1>6, NullAssumption
       DEF IssuanceInv, Issued, Final, FinalOk, FinalErr, WindowClosed, TypeOK, Issuance, chainVars
<1>12. VerifyInv'
    BY <1>1, <1>2, <1>6
       DEF VerifyInv, Issued, Final, FinalOk, FinalErr, TypeOK, Verify, chainVars, verifyVars
<1>13. status' # "confirmed"
    BY <1>4 DEF BuildIssue
<1>14. \A j \in Issuances : issuance[j].status # "consumed"
    BY <1>4 DEF ConfirmedIffPaid
<1>15. ConfirmedIffPaid' /\ PaymentIsFinal' /\ ToldConfirmedIsPaid'
  <2>1. payments = {} /\ confirmedBuyerWallet = NoAccount
    BY <1>4 DEF ConfirmedIffPaid
  <2>2. ASSUME NEW j \in Issuances PROVE issuance'[j].status # "consumed"
    <3>1. CASE j = i
      BY <1>3, <3>1
    <3>2. CASE j # i /\ j = p
      <4>1. build[b].verdict # "consumed"
        BY <1>1 DEF TypeOK, Build
      <4>2. issuance'[j].status = build[b].verdict
        BY <1>1, <1>3, <3>2 DEF TypeOK, Issuance
      <4>3. QED
        BY <4>1, <4>2
    <3>3. CASE j # i /\ j # p
      BY <1>3, <1>14, <3>3
    <3>4. QED
      BY <3>1, <3>2, <3>3
  <2>3. \A r \in Verifiers : told[r] # "confirmed"
    BY <1>4 DEF ToldConfirmedIsPaid
  <2>4. QED
    BY <1>2, <1>13, <2>1, <2>2, <2>3
       DEF ConfirmedIffPaid, PaymentIsFinal, ToldConfirmedIsPaid, verifyVars
<1>16. QED
    BY <1>1, <1>7, <1>8, <1>9, <1>10, <1>11, <1>12, <1>15

\* A request that ends remembers nothing, and may say confirmed when it is.
LEMMA VerifyEnds ==
    ASSUME TypeOK, VerifyInv, ToldConfirmedIsPaid, NEW r \in Verifiers, NEW answer,
           EndVerify(r, answer), answer = "confirmed" => status = "confirmed" /\ payments # {},
           UNCHANGED <<status, payments, issuance, chain, finalHeight>>
    PROVE  VerifyInv' /\ ToldConfirmedIsPaid'
<1>1. \A s \in Verifiers \ {r} : verify'[s] = verify[s] /\ told'[s] = told[s]
    BY DEF EndVerify, TypeOK
<1>2. verify'[r].iss = NoIssuance /\ verify'[r].pc = "idle"
    BY DEF EndVerify, TypeOK, IdleVerify
<1>3. told'[r] = "confirmed" => status' = "confirmed" /\ payments' # {}
  <2>1. told'[r] = IF answer \in Answer THEN answer ELSE "open"
    BY DEF EndVerify, TypeOK
  <2>2. QED
    BY <2>1
<1>4. VerifyInv'
    BY <1>1, <1>2 DEF VerifyInv, Issued, Final, FinalOk, FinalErr
<1>5. ToldConfirmedIsPaid'
    BY <1>1, <1>3 DEF ToldConfirmedIsPaid
<1>6. QED
    BY <1>4, <1>5

\* A request that goes on with something irrevocable to remember.
LEMMA VerifyGoes ==
    ASSUME TypeOK, VerifyInv, ToldConfirmedIsPaid, NEW r \in Verifiers, NEW q,
           verify' = [verify EXCEPT ![r] = q],
           told' = told \/ told' = [told EXCEPT ![r] = "open"],
           q.iss # NoIssuance => Issued(q.iss),
           q.pc \in {"known", "status", "height", "txFailed", "commit"} => q.iss # NoIssuance,
           q.pc = "txFailed" => FinalErr(q.iss),
           q.pc = "commit" => FinalOk(q.iss),
           UNCHANGED <<status, payments, issuance, chain, finalHeight>>
    PROVE  VerifyInv' /\ ToldConfirmedIsPaid'
<1>1. \A s \in Verifiers \ {r} : verify'[s] = verify[s]
    BY DEF TypeOK
<1>2. verify'[r] = q
    BY DEF TypeOK
<1>3. \A s \in Verifiers : told'[s] = "confirmed" => told[s] = "confirmed"
    BY DEF TypeOK
<1>4. VerifyInv'
    BY <1>1, <1>2 DEF VerifyInv, Issued, Final, FinalOk, FinalErr
<1>5. ToldConfirmedIsPaid'
    BY <1>3 DEF ToldConfirmedIsPaid
<1>6. QED
    BY <1>4, <1>5

\* A step of verifyPayment that only reads keeps the invariant: what it
\* remembers of a final transaction cannot become stale.
LEMMA IInvVerifyRead ==
    ASSUME IInv, NEW r \in Verifiers, VerifyPayment(r),
           UNCHANGED <<intentVars, envVars, issuance, chainVars, buildVars>>
    PROVE  IInv'
<1> USE DEF IInv, intentVars, chainVars, buildVars
<1>1. TypeOK /\ TypeOK'
    BY TypeVerify
<1>2. /\ ChainInv' /\ IssuanceInv' /\ LockInv' /\ BuildInv' /\ OneActiveIssuance'
      /\ ConfirmedIffPaid' /\ PaymentIsFinal'
    BY DEF ChainInv, IssuanceInv, LockInv, BuildInv, OneActiveIssuance, ConfirmedIffPaid,
       PaymentIsFinal, Issued, Active, Final, FinalOk, FinalErr, WindowClosed
<1>3. status = "confirmed" <=> payments # {}
    BY DEF ConfirmedIffPaid
<1>4. VerifyInv' /\ ToldConfirmedIsPaid'
  <2> DEFINE i == verify[r].iss
  <2>a. ASSUME NEW answer, EndVerify(r, answer), answer # "confirmed" \/ status = "confirmed"
        PROVE  VerifyInv' /\ ToldConfirmedIsPaid'
    BY <1>1, <1>3, <2>a, VerifyEnds
  <2>b. ASSUME NEW pc, GotoVerify(r, pc), verify[r].pc # "idle",
               pc \in {"known", "status", "height", "txFailed", "commit"} => i # NoIssuance,
               pc = "txFailed" => FinalErr(i),
               pc = "commit" => FinalOk(i)
        PROVE  VerifyInv' /\ ToldConfirmedIsPaid'
    <3> DEFINE q == [verify[r] EXCEPT !.pc = pc]
    <3>1. verify' = [verify EXCEPT ![r] = q]
      BY <1>1, <2>b DEF GotoVerify
    <3>2. q.pc = pc /\ q.iss = i
      BY <1>1 DEF TypeOK, Verify
    <3>3. i # NoIssuance => Issued(i)
      BY DEF VerifyInv
    <3> HIDE DEF q, i
    <3>4. QED
      BY <1>1, <2>b, <3>1, <3>2, <3>3, VerifyGoes DEF GotoVerify
  <2>c. i # NoIssuance => i \in Issuances
    BY <1>1, NullAssumption DEF TypeOK, Verify
  <2>d. verify[r].pc \in {"known", "status", "height", "txFailed", "commit"} => i # NoIssuance
    BY DEF VerifyInv
  <2> HIDE DEF i
  <2>1. ASSUME NEW sig \in Issuances \cup {NoIssuance}, VerifyStart(r, sig)
        PROVE  VerifyInv' /\ ToldConfirmedIsPaid'
    <3>1. CASE status \in {"failed", "expired", "confirmed"}
      BY <2>1, <2>a, <3>1 DEF VerifyStart
    <3>2. CASE status \notin {"failed", "expired", "confirmed"}
      <4> DEFINE q == [pc |-> "find", iss |-> sig]
      <4>1. verify' = [verify EXCEPT ![r] = q] /\ told' = [told EXCEPT ![r] = "open"]
        BY <2>1, <3>2 DEF VerifyStart
      <4>2. q.pc = "find" /\ q.iss = sig
        OBVIOUS
      <4>3. sig # NoIssuance => Issued(sig)
        BY <2>1 DEF VerifyStart
      <4> HIDE DEF q
      <4>4. QED
        BY <1>1, <4>1, <4>2, <4>3, VerifyGoes
    <3>3. QED
      BY <3>1, <3>2
  <2>2. CASE VerifyFindIssuance(r)
    <3>1. CASE GotoVerify(r, "known") /\ i # NoIssuance
      BY <2>2, <2>b, <3>1 DEF VerifyFindIssuance
    <3>2. CASE \E k \in Issuances : /\ Active(k)
                                    /\ verify' = [verify EXCEPT ![r] = [pc |-> "known", iss |-> k]]
                                    /\ UNCHANGED told
      <4>1. PICK k \in Issuances : /\ Active(k)
                                   /\ verify' = [verify EXCEPT ![r] = [pc |-> "known", iss |-> k]]
                                   /\ UNCHANGED told
        BY <3>2
      <4> DEFINE q == [pc |-> "known", iss |-> k]
      <4>2. q.pc = "known" /\ q.iss = k /\ verify' = [verify EXCEPT ![r] = q]
        BY <4>1
      <4>3. Issued(k) /\ k # NoIssuance
        BY <4>1, NullAssumption DEF Issued, Active
      <4> HIDE DEF q
      <4>4. QED
        BY <1>1, <4>1, <4>2, <4>3, VerifyGoes
    <3>3. CASE GotoVerify(r, "markExpired")
      BY <2>2, <2>b, <3>3 DEF VerifyFindIssuance
    <3>4. CASE EndVerify(r, "pending")
      BY <2>a, <3>4
    <3>5. QED
      BY <2>2, <3>1, <3>2, <3>3, <3>4, Zenon DEF VerifyFindIssuance, i
  <2>3. CASE VerifyKnownPayment(r)
    <3>1. CASE EndVerify(r, "inconsistent")
      BY <2>a, <3>1
    <3>2. CASE GotoVerify(r, "status")
      BY <2>3, <2>b, <2>d, <3>2 DEF VerifyKnownPayment
    <3>3. QED
      BY <2>3, <3>1, <3>2, Zenon DEF VerifyKnownPayment
  <2>4. CASE VerifyChainStatus(r)
    <3>1. CASE GotoVerify(r, "height") \/ GotoVerify(r, "markAwaiting")
      BY <2>4, <2>b, <2>d, <3>1 DEF VerifyChainStatus
    <3>2. CASE EndVerify(r, "pending")
      BY <2>a, <3>2
    <3>3. CASE GotoVerify(r, "txFailed") /\ FinalErr(i)
      BY <2>4, <2>b, <2>d, <3>3 DEF VerifyChainStatus
    <3>4. CASE GotoVerify(r, "commit") /\ FinalOk(i)
      BY <2>4, <2>b, <2>d, <3>4 DEF VerifyChainStatus
    <3>5. QED
      BY <2>4, <3>1, <3>2, <3>3, <3>4, Zenon DEF VerifyChainStatus, i
  <2>5. CASE VerifyChainHeight(r)
    <3>1. GotoVerify(r, "markExpired") \/ EndVerify(r, "pending")
      BY <2>5, Zenon DEF VerifyChainHeight
    <3>2. CASE GotoVerify(r, "markExpired")
      BY <2>5, <2>b, <3>2 DEF VerifyChainHeight
    <3>3. CASE EndVerify(r, "pending")
      BY <2>a, <3>3
    <3>4. QED
      BY <3>1, <3>2, <3>3
  <2>6. CASE VerifyTransactionFailed(r)
    <3>1. GotoVerify(r, "markFailed") \/ EndVerify(r, "pending")
      BY <2>6, Zenon DEF VerifyTransactionFailed
    <3>2. CASE GotoVerify(r, "markFailed")
      BY <2>6, <2>b, <3>2 DEF VerifyTransactionFailed
    <3>3. CASE EndVerify(r, "pending")
      BY <2>a, <3>3
    <3>4. QED
      BY <3>1, <3>2, <3>3
  <2>7. CASE VerifyMarkExpired(r) \/ VerifyMarkAwaiting(r) \/ VerifyMarkFailed(r)
    <3>1. PICK to \in {"expired", "awaiting_finality", "failed"} : MarkIntent(r, to)
      BY <2>7 DEF VerifyMarkExpired, VerifyMarkAwaiting, VerifyMarkFailed
    <3>2. EndVerify(r, to) \/ EndVerify(r, "error")
      BY <3>1, Zenon DEF MarkIntent
    <3>3. QED
      BY <2>a, <3>2
  <2>8. CASE VerifyCommit(r)
    <3>1. \/ EndVerify(r, "confirmed") /\ status = "confirmed"
          \/ EndVerify(r, "refused")
      BY <1>1, <2>8 DEF VerifyCommit
    <3>2. QED
      BY <2>a, <3>1
  <2>9. CASE VerifyAbort(r)
    BY <2>9, <2>a DEF VerifyAbort
  <2>10. QED
    BY <2>1, <2>2, <2>3, <2>4, <2>5, <2>6, <2>7, <2>8, <2>9 DEF VerifyPayment
<1>5. QED
    BY <1>1, <1>2, <1>4

\* Retiring an active issuance keeps the invariant: its window is closed or its
\* transaction failed for good.
LEMMA IInvVerifyRetire ==
    ASSUME IInv, NEW r \in Verifiers, VerifyChainHeight(r) \/ VerifyTransactionFailed(r),
           issuance' # issuance
    PROVE  IInv'
<1> USE DEF IInv
<1> DEFINE k == verify[r].iss
<1>1. TypeOK /\ TypeOK'
    BY TypeVerify DEF VerifyPayment
<1>2. UNCHANGED <<intentVars, envVars, chainVars, buildVars>>
    BY DEF VerifyChainHeight, VerifyTransactionFailed
<1>3. PICK to \in {"expired", "failed"} :
        /\ k \in Issuances /\ Active(k)
        /\ issuance' = [issuance EXCEPT ![k].status = to]
        /\ to = "expired" => WindowClosed(k)
        /\ to = "failed" => FinalErr(k)
  <2>1. k \in Issuances
    BY <1>1 DEF VerifyInv, TypeOK, Verify, VerifyChainHeight, VerifyTransactionFailed
  <2>2. issuance' = [issuance EXCEPT ![k].status = @] => issuance' = issuance
    BY <1>1 DEF TypeOK, Issuance
  <2>3. QED
    BY <1>1, <2>1, <2>2 DEF VerifyChainHeight, VerifyTransactionFailed, Retire, VerifyInv
<1>4. \A i \in Issuances : i # k => issuance'[i] = issuance[i]
    BY <1>1, <1>3 DEF TypeOK
<1>5. /\ issuance'[k].status = to /\ issuance'[k].account = issuance[k].account
      /\ issuance'[k].lastValid = issuance[k].lastValid
    BY <1>1, <1>3 DEF TypeOK, Issuance
<1> HIDE DEF k
<1>6. ChainInv' /\ IssuanceInv'
    BY <1>1, <1>2, <1>3, <1>4, <1>5 DEF ChainInv, IssuanceInv, Issued, Active, Final, FinalOk,
       FinalErr, WindowClosed, chainVars, TypeOK
<1>7. LockInv' /\ OneActiveIssuance'
    BY <1>2, <1>3, <1>4, <1>5 DEF LockInv, OneActiveIssuance, Active, buildVars
<1>8. BuildInv'
    BY <1>1, <1>2, <1>3, <1>4, <1>5 DEF BuildInv, Issued, Active, Final, FinalErr,
       WindowClosed, chainVars, buildVars, intentVars, TypeOK, Build
<1>9. ConfirmedIffPaid' /\ PaymentIsFinal'
    BY <1>1, <1>2, <1>3, <1>4, <1>5 DEF ConfirmedIffPaid, PaymentIsFinal, Active, Final,
       FinalOk, intentVars, chainVars, TypeOK, Payment
<1>10. VerifyInv'
  <2>1. \A c \in Verifiers : /\ verify'[c].iss \in {verify[c].iss, NoIssuance}
                             /\ verify'[c] = verify[c] \/ verify'[c].pc \notin
                                  {"known", "status", "height", "txFailed", "commit"}
    BY <1>1 DEF VerifyChainHeight, VerifyTransactionFailed, EndVerify, GotoVerify, IdleVerify,
       TypeOK, Verify
  <2>2. QED
    BY <1>1, <1>2, <1>3, <1>4, <1>5, <2>1 DEF VerifyInv, Issued, Final, FinalOk, FinalErr,
       chainVars, TypeOK, Verify
<1>11. ToldConfirmedIsPaid'
    BY <1>1, <1>2 DEF ToldConfirmedIsPaid, VerifyChainHeight, VerifyTransactionFailed,
       EndVerify, GotoVerify, intentVars, TypeOK
<1>12. QED
    BY <1>1, <1>6, <1>7, <1>8, <1>9, <1>10, <1>11

\* The writes of slow requests keep the invariant: the CHECK constraint lets
\* them change only an intent that has no buyer, and the row lock keeps them
\* out of a running buildTransaction.
LEMMA IInvVerifyMark ==
    ASSUME IInv, NEW r \in Verifiers,
           VerifyMarkExpired(r) \/ VerifyMarkAwaiting(r) \/ VerifyMarkFailed(r)
    PROVE  IInv'
<1> USE DEF IInv
<1>1. TypeOK /\ TypeOK'
    BY TypeVerify DEF VerifyPayment
<1>2. UNCHANGED <<confirmedBuyerWallet, payments, envVars, issuance, chainVars, buildVars>>
    BY DEF VerifyMarkExpired, VerifyMarkAwaiting, VerifyMarkFailed, MarkIntent
<1>3. /\ lockedBy = NoBuilder
      /\ status = "confirmed" <=> status' = "confirmed"
    BY <1>1, NullAssumption DEF VerifyMarkExpired, VerifyMarkAwaiting, VerifyMarkFailed,
       MarkIntent, ConfirmedIffPaid, PaymentIsFinal, IssuanceInv, TypeOK, Payment, Issued
<1>4. ChainInv' /\ IssuanceInv' /\ LockInv' /\ OneActiveIssuance' /\ PaymentIsFinal'
    BY <1>2 DEF ChainInv, IssuanceInv, LockInv, OneActiveIssuance, PaymentIsFinal, Issued,
       Active, Final, FinalOk, FinalErr, WindowClosed, chainVars, buildVars
<1>5. BuildInv'
    BY <1>2, <1>3 DEF BuildInv, Issued, Active, Final, FinalErr, WindowClosed, chainVars,
       buildVars
<1>6. ConfirmedIffPaid'
    BY <1>2, <1>3 DEF ConfirmedIffPaid
<1>7. VerifyInv' /\ ToldConfirmedIsPaid'
    BY <1>1, <1>2, <1>3, NullAssumption DEF VerifyInv, ToldConfirmedIsPaid,
       VerifyMarkExpired, VerifyMarkAwaiting, VerifyMarkFailed, MarkIntent, EndVerify,
       IdleVerify, Issued, Final, FinalOk, FinalErr, chainVars, TypeOK, Verify
<1>8. QED
    BY <1>1, <1>4, <1>5, <1>6, <1>7

\* The commit keeps the invariant: it consumes an issuance that is still active
\* and whose transaction is final, once.
LEMMA IInvVerifyCommit ==
    ASSUME IInv, NEW r \in Verifiers, VerifyCommit(r), status # "confirmed",
           Active(verify[r].iss)
    PROVE  IInv'
<1> USE DEF IInv
<1> DEFINE k == verify[r].iss
<1>1. TypeOK /\ TypeOK'
    BY TypeVerify DEF VerifyPayment
<1>2. UNCHANGED <<envVars, chainVars, buildVars>> /\ lockedBy = NoBuilder
    BY DEF VerifyCommit
<1>3. k \in Issuances /\ FinalOk(k) /\ Issued(k) /\ issuance[k].account \in Accounts
    BY <1>1 DEF VerifyCommit, VerifyInv, IssuanceInv, TypeOK, Verify
<1>4. /\ issuance' = [issuance EXCEPT ![k].status = "consumed"]
      /\ status' = "confirmed"
      /\ confirmedBuyerWallet' = issuance[k].account
      /\ payments' = payments \cup {[issuance |-> k, buyer |-> issuance[k].account]}
    BY DEF VerifyCommit
<1>5. payments = {} /\ \A i \in Issuances : issuance[i].status # "consumed"
    BY DEF ConfirmedIffPaid
<1>6. \A i \in Issuances : i # k => issuance'[i] = issuance[i]
    BY <1>1, <1>4 DEF TypeOK
<1>7. /\ issuance'[k].status = "consumed" /\ issuance'[k].account = issuance[k].account
      /\ issuance'[k].lastValid = issuance[k].lastValid
    BY <1>1, <1>3, <1>4 DEF TypeOK, Issuance
<1>8. ConfirmedIffPaid'
    BY <1>3, <1>4, <1>5, <1>6, <1>7 DEF ConfirmedIffPaid
<1>9. PaymentIsFinal'
    BY <1>1, <1>2, <1>3, <1>4, <1>5, <1>7 DEF PaymentIsFinal, ChainInv, Final, FinalOk,
       chainVars, TypeOK
<1>10. ToldConfirmedIsPaid'
    BY <1>4 DEF ToldConfirmedIsPaid
<1>11. VerifyInv'
  <2>1. \A c \in Verifiers : verify'[c] \in {verify[c], IdleVerify}
    BY <1>1, <1>3 DEF VerifyCommit, EndVerify, TypeOK, Active
  <2>2. QED
    BY <1>1, <1>2, <1>3, <1>6, <1>7, <2>1, NullAssumption DEF VerifyInv, IdleVerify, Issued,
       Final, FinalOk, FinalErr, chainVars, TypeOK, Verify
<1> HIDE DEF k
<1>12. ChainInv' /\ IssuanceInv'
    BY <1>1, <1>2, <1>3, <1>6, <1>7 DEF ChainInv, IssuanceInv, Issued, Active, Final, FinalOk,
       FinalErr, WindowClosed, chainVars, TypeOK
<1>13. LockInv' /\ OneActiveIssuance'
    BY <1>2, <1>6, <1>7 DEF LockInv, OneActiveIssuance, Active, buildVars
<1>14. \A b \in Builders : build[b].pc = "idle"
    BY <1>2, NullAssumption DEF LockInv
<1>15. BuildInv'
    BY <1>2, <1>14 DEF BuildInv, buildVars
<1>16. QED
    BY <1>1, <1>8, <1>9, <1>10, <1>11, <1>12, <1>13, <1>15

\* Every step keeps the invariant.
LEMMA IInvStep == IInv /\ [Next]_vars => IInv'
<1> SUFFICES ASSUME IInv, [Next]_vars PROVE IInv'
    OBVIOUS
<1>1. CASE UNCHANGED vars
    BY <1>1 DEF IInv, TypeOK, ChainInv, LockInv, BuildInv, IssuanceInv, VerifyInv,
       OneActiveIssuance, ConfirmedIffPaid, PaymentIsFinal, ToldConfirmedIsPaid, Issued,
       Active, Final, FinalOk, FinalErr, WindowClosed, vars, intentVars, envVars,
       chainVars, buildVars, verifyVars
<1>2. CASE Environment \/ CreatePaymentIntent
    BY <1>2, IInvEnvironment, IInvCreate
<1>3. ASSUME NEW b \in Builders, BuildTransaction(b) PROVE IInv'
  <2>1. CASE BuildIssue(b)
    BY <2>1, IInvBuildIssue
  <2>2. CASE UNCHANGED <<intentVars, envVars, issuance, chainVars, verifyVars>>
    BY <1>3, <2>2, IInvBuildMove
  <2>3. QED
    BY <1>3, <2>1, <2>2 DEF BuildTransaction, BuildLock, BuildRefuse, BuildFindActive,
       BuildChainStatus, BuildChainHeight, BuildAbort
<1>4. ASSUME NEW r \in Verifiers, VerifyPayment(r) PROVE IInv'
  <2>1. CASE UNCHANGED <<intentVars, envVars, issuance, chainVars, buildVars>>
    BY <1>4, <2>1, IInvVerifyRead
  <2>2. CASE VerifyChainHeight(r) \/ VerifyTransactionFailed(r)
    BY <1>4, <2>1, <2>2, IInvVerifyRetire DEF VerifyChainHeight, VerifyTransactionFailed
  <2>3. CASE VerifyMarkExpired(r) \/ VerifyMarkAwaiting(r) \/ VerifyMarkFailed(r)
    BY <2>3, IInvVerifyMark
  <2>4. CASE VerifyCommit(r)
    BY <2>1, <2>4, IInvVerifyCommit DEF VerifyCommit
  <2>5. QED
    BY <1>4, <2>1, <2>2, <2>3, <2>4 DEF VerifyPayment, VerifyStart, VerifyFindIssuance,
       VerifyKnownPayment, VerifyChainStatus, VerifyAbort
<1>5. QED
    BY <1>1, <1>2, <1>3, <1>4 DEF Next

\* The inductive invariant holds in every reachable state.
THEOREM Invariance == Spec => []IInv
<1>1. Init => IInv
    BY IInvInit
<1>2. IInv /\ [Next]_vars => IInv'
    BY IInvStep
<1>3. QED
    BY <1>1, <1>2, PTL DEF Spec

(***************************************************************************)
(* What follows from it                                                    *)
(***************************************************************************)

\* Every variable stays in its type.
THEOREM TypeCorrect == Spec => []TypeOK
<1>1. IInv => TypeOK
    BY DEF IInv
<1>2. QED
    BY <1>1, Invariance, PTL

\* What can still be charged is active, so the row lock speaks for the chain.
LEMMA PayableIsActive ==
    ASSUME IInv, NEW i \in Issuances, Payable(i) PROVE Active(i)
<1> USE DEF IInv, TypeOK, Issuance, Landing, Payable
<1>1. issuance[i].status # "consumed" /\ issuance[i].status # "failed"
    BY DEF IssuanceInv, FinalOk, FinalErr
<1>2. issuance[i].status # "expired"
    BY DEF IssuanceInv, WindowClosed, Final, Unseen, ChainInv
<1>3. QED
    BY <1>1, <1>2 DEF Issued, Active, IssuanceStatus

\* The buyer is never served two transactions that could both be charged: an
\* issuance that is not active any more is final or out of its window.
THEOREM NeverConcurrentlyPayable == Spec => []NoConcurrentlyPayable
<1>1. IInv => NoConcurrentlyPayable
    BY PayableIsActive DEF IInv, NoConcurrentlyPayable, OneActiveIssuance
<1>2. QED
    BY <1>1, Invariance, PTL

\* At most one issuance is active, and one that was closed as failed can never pay.
THEOREM IssuancesCloseForGood == Spec => [](OneActiveIssuance /\ FailedNeverPaid)
<1>1. IInv => OneActiveIssuance /\ FailedNeverPaid
    BY DEF IInv, IssuanceInv, FailedNeverPaid
<1>2. QED
    BY <1>1, Invariance, PTL

\* A payment is recorded only for the final transaction of the consumed issuance.
THEOREM PaidIsFinal == Spec => []PaymentIsFinal
<1>1. IInv => PaymentIsFinal
    BY DEF IInv
<1>2. QED
    BY <1>1, Invariance, PTL

\* The intent is confirmed exactly when it has its one payment and its buyer, and
\* no client is told otherwise.
THEOREM ConfirmedMeansPaid == Spec => [](ConfirmedIffPaid /\ ToldConfirmedIsPaid)
<1>1. IInv => ConfirmedIffPaid /\ ToldConfirmedIsPaid
    BY DEF IInv
<1>2. QED
    BY <1>1, Invariance, PTL

\* A confirmed intent, its buyer, its payment and its issuance never change.
THEOREM ConfirmedStays == Spec => ConfirmedIsFinal
<1> DEFINE Kept == status = "confirmed" =>
              /\ status' = "confirmed"
              /\ confirmedBuyerWallet' = confirmedBuyerWallet
              /\ payments' = payments
              /\ \A i \in Issuances :
                   issuance[i].status = "consumed" => issuance'[i] = issuance[i]
<1>1. ASSUME IInv, [Next]_vars PROVE Kept
  <2> SUFFICES ASSUME status = "confirmed" PROVE Kept
    OBVIOUS
  <2> USE <1>1 DEF IInv
  <2>1. CASE UNCHANGED <<intentVars, issuance>>
    BY <2>1 DEF intentVars
  <2>2. CASE Environment \/ CreatePaymentIntent
    BY <2>1, <2>2 DEF Environment, TtlPasses, SaleChanges, ProduceBlock, FinalizeBlock,
       Land, Reorg, CreatePaymentIntent
  <2>3. ASSUME NEW b \in Builders, BuildTransaction(b) PROVE Kept
    BY <2>1, <2>3 DEF BuildInv, BuildTransaction, BuildLock, BuildRefuse, BuildFindActive,
       BuildChainStatus, BuildChainHeight, BuildIssue, BuildAbort
  <2>4. ASSUME NEW r \in Verifiers, VerifyPayment(r) PROVE Kept
    <3>1. CASE VerifyChainHeight(r) \/ VerifyTransactionFailed(r)
      BY <2>1, <3>1 DEF VerifyChainHeight, VerifyTransactionFailed, Retire, intentVars,
         Active, TypeOK, Issuance
    <3>2. CASE VerifyMarkExpired(r) \/ VerifyMarkAwaiting(r) \/ VerifyMarkFailed(r)
      <4>1. confirmedBuyerWallet # NoAccount
        BY NullAssumption DEF ConfirmedIffPaid, TypeOK, PaymentIsFinal, IssuanceInv,
           Payment, Issued
      <4>2. QED
        BY <2>1, <3>2, <4>1 DEF VerifyMarkExpired, VerifyMarkAwaiting, VerifyMarkFailed,
           MarkIntent, intentVars
    <3>3. CASE VerifyCommit(r)
      BY <2>1, <3>3 DEF VerifyCommit
    <3>4. QED
      BY <2>1, <2>4, <3>1, <3>2, <3>3 DEF VerifyPayment, VerifyStart, VerifyFindIssuance,
         VerifyKnownPayment, VerifyChainStatus, VerifyAbort
  <2>5. CASE UNCHANGED vars
    BY <2>1, <2>5 DEF vars
  <2>6. QED
    BY <1>1, <2>2, <2>3, <2>4, <2>5 DEF Next
<1>2. QED
    BY <1>1, Invariance, PTL DEF Spec, ConfirmedIsFinal
(***************************************************************************)
(* The payments of the API implement Purchase: every step of Payments is,  *)
(* for the buyer, a step of Purchase or none at all.                       *)
(***************************************************************************)

\* The four outcomes exclude each other.
LEMMA Outcomes ==
    ASSUME IInv, NEW i \in Issuances
    PROVE  /\ Charge(i) = "none" <=> ~Issued(i)
           /\ Charge(i) = "open" <=> Payable(i)
           /\ Charge(i) = "charged" <=> FinalOk(i)
           /\ Charge(i) \in {"none", "open", "charged", "void"}
<1>1. Payable(i) => Issued(i) /\ ~FinalOk(i)
    BY DEF Payable, FinalOk
<1>2. FinalOk(i) => Issued(i)
    BY DEF IInv, ChainInv, FinalOk, Final
<1>3. CASE ~Issued(i)
    BY <1>1, <1>2, <1>3 DEF Charge
<1>4. CASE Payable(i)
    BY <1>1, <1>4 DEF Charge
<1>5. CASE FinalOk(i)
    BY <1>1, <1>2, <1>5 DEF Charge
<1>6. CASE Issued(i) /\ ~Payable(i) /\ ~FinalOk(i)
    BY <1>6 DEF Charge
<1>7. QED
    BY <1>3, <1>4, <1>5, <1>6

\* The same in the next state.
LEMMA OutcomesNext ==
    ASSUME IInv', NEW i \in Issuances
    PROVE  /\ Charge(i)' = "none" <=> ~Issued(i)'
           /\ Charge(i)' = "open" <=> Payable(i)'
           /\ Charge(i)' = "charged" <=> FinalOk(i)'
           /\ Charge(i)' \in {"none", "open", "charged", "void"}
<1>1. Payable(i)' => Issued(i)' /\ ~FinalOk(i)'
    BY DEF Payable, FinalOk
<1>2. FinalOk(i)' => Issued(i)'
    BY DEF IInv, ChainInv, FinalOk, Final
<1>3. CASE ~Issued(i)'
    BY <1>1, <1>2, <1>3 DEF Charge
<1>4. CASE Payable(i)'
    BY <1>1, <1>4 DEF Charge
<1>5. CASE FinalOk(i)'
    BY <1>1, <1>2, <1>5 DEF Charge
<1>6. CASE Issued(i)' /\ ~Payable(i)' /\ ~FinalOk(i)'
    BY <1>6 DEF Charge
<1>7. QED
    BY <1>3, <1>4, <1>5, <1>6

\* An outcome depends on the chain and on the window, not on the bookkeeping.
LEMMA SameCharge ==
    ASSUME NEW i \in Issuances, Issued(i)' <=> Issued(i),
           issuance'[i].lastValid = issuance[i].lastValid,
           UNCHANGED <<height, finalHeight, chain>>
    PROVE  Charge(i)' = Charge(i)
<1>1. (Payable(i)' <=> Payable(i)) /\ (FinalOk(i)' <=> FinalOk(i))
    BY DEF Payable, FinalOk, Final, Unseen
<1>2. QED
    BY <1>1 DEF Charge

\* The mapped state, and what the steps of Purchase are in its terms.
offers == [i \in Issuances |-> Charge(i)]
grants == {p.issuance : p \in payments}

LEMMA Stutters ==
    ASSUME \A i \in Issuances : Charge(i)' = Charge(i), UNCHANGED payments
    PROVE  UNCHANGED <<offers, grants>>
BY DEF offers, grants

\* Only the open offer can change, and there is one at most.
LEMMA Settles ==
    ASSUME IInv, UNCHANGED payments,
           \A i \in Issuances :
               \/ Charge(i)' = Charge(i)
               \/ Charge(i) = "open" /\ Charge(i)' \in {"charged", "void"}
    PROVE  Promise!Next \/ UNCHANGED <<offers, grants>>
<1>1. CASE \A i \in Issuances : Charge(i)' = Charge(i)
    BY <1>1, Stutters
<1>2. ASSUME NEW i \in Issuances, Charge(i)' # Charge(i)
      PROVE  Promise!Settle(i)
  <2>1. Charge(i) = "open" /\ Charge(i)' \in {"charged", "void"}
    BY <1>2
  <2>2. ASSUME NEW j \in Issuances, j # i PROVE Charge(j)' = Charge(j)
    <3>1. Charge(j) # "open"
      BY <2>1, <2>2, Outcomes, PayableIsActive DEF IInv, OneActiveIssuance
    <3>2. QED
      BY <3>1
  <2>3. offers' = [offers EXCEPT ![i] = Charge(i)']
    BY <2>2 DEF offers
  <2>4. QED
    BY <2>1, <2>3 DEF Promise!Settle, offers, grants
<1>3. QED
    BY <1>1, <1>2 DEF Promise!Next

\* The chain can only settle what is open: what is final stays final, and a
\* window that has closed stays closed.
LEMMA ChainSettles ==
    ASSUME IInv, IInv', Environment
    PROVE  Promise!Next \/ UNCHANGED <<offers, grants>>
<1>1. UNCHANGED <<payments, issuance>>
    BY DEF Environment, TtlPasses, SaleChanges, ProduceBlock, FinalizeBlock, Land, Reorg,
       intentVars
<1>2. ASSUME NEW i \in Issuances
      PROVE  \/ Charge(i)' = Charge(i)
             \/ Charge(i) = "open" /\ Charge(i)' \in {"charged", "void"}
  <2>1. \/ (Payable(i)' <=> Payable(i)) /\ (FinalOk(i)' <=> FinalOk(i))
        \/ Payable(i) /\ ~Payable(i)'
    <3> USE <1>1 DEF IInv, TypeOK, Landing, Issuance, Payable, Final, FinalOk, Unseen, Issued
    <3>1. CASE TtlPasses \/ SaleChanges
      BY <3>1 DEF TtlPasses, SaleChanges, chainVars
    <3>2. CASE ProduceBlock
      BY <3>2 DEF ProduceBlock
    <3>3. CASE FinalizeBlock
      BY <3>3 DEF FinalizeBlock, ChainInv
    <3>4. ASSUME NEW j \in Issuances, NEW err \in BOOLEAN, Land(j, err)
          PROVE  (Payable(i)' <=> Payable(i)) /\ (FinalOk(i)' <=> FinalOk(i))
      BY <3>4 DEF Land, ChainInv
    <3>5. ASSUME NEW j \in Issuances, Reorg(j)
          PROVE  \/ (Payable(i)' <=> Payable(i)) /\ (FinalOk(i)' <=> FinalOk(i))
                 \/ Payable(i) /\ ~Payable(i)'
      BY <3>5 DEF Reorg, ChainInv
    <3>6. QED
      BY <3>1, <3>2, <3>3, <3>4, <3>5 DEF Environment
  <2>2. Issued(i)' <=> Issued(i)
    BY <1>1 DEF Issued
  <2>3. CASE (Payable(i)' <=> Payable(i)) /\ (FinalOk(i)' <=> FinalOk(i))
    BY <2>2, <2>3 DEF Charge
  <2>4. CASE Payable(i) /\ ~Payable(i)'
    <3>1. Charge(i) = "open" /\ Charge(i)' # "open"
      BY <2>4, Outcomes, OutcomesNext
    <3>2. Charge(i)' # "none"
      BY <2>2, <2>4, OutcomesNext DEF Payable
    <3>3. QED
      BY <3>1, <3>2, OutcomesNext
  <2>5. QED
    BY <2>1, <2>3, <2>4
<1>3. QED
    BY <1>1, <1>2, Settles

\* When a transaction is built, nothing that was built before can be charged,
\* and the purchase is not granted.
LEMMA BuildProposes ==
    ASSUME IInv, IInv', NEW b \in Builders, BuildIssue(b)
    PROVE  Promise!Next
<1>1. PICK i \in Issuances, h \in finalHeight..height :
        /\ ~Issued(i)
        /\ issuance' = [Closed(build[b].prev, build[b].verdict) EXCEPT
                ![i] = [status |-> "active", account |-> build[b].account,
                        lastValid |-> h + Window]]
    BY DEF BuildIssue
<1>2. /\ build[b].pc = "issue"
      /\ UNCHANGED <<payments, height, finalHeight, chain>>
    BY DEF BuildIssue, chainVars
<1>3. status # "confirmed" /\ payments = {}
    BY <1>2 DEF IInv, BuildInv, ConfirmedIffPaid
<1>4. ASSUME NEW j \in Issuances PROVE ~Payable(j)
  <2>1. SUFFICES ASSUME Active(j) PROVE ~Payable(j)
    BY PayableIsActive
  <2>2. /\ j = build[b].prev /\ build[b].prev # NoIssuance
        /\ FinalErr(j) \/ WindowClosed(j)
    BY <1>2, <2>1, NullAssumption DEF IInv, BuildInv
  <2>3. QED
    BY <2>2 DEF Payable, FinalErr, WindowClosed, Final, Unseen, IInv, ChainInv, TypeOK,
       Landing, Issuance
<1>5. ASSUME NEW j \in Issuances, j # i PROVE Charge(j)' = Charge(j)
  <2>1. issuance'[j] = Closed(build[b].prev, build[b].verdict)[j]
    BY <1>1, <1>5 DEF Closed
  <2>2. issuance'[j].lastValid = issuance[j].lastValid
    BY <2>1 DEF Closed, IInv, TypeOK, Issuance
  <2>3. Issued(j)' <=> Issued(j)
    <3>1. CASE j = build[b].prev
      <4>1. Issued(j) /\ build[b].verdict # "unissued"
        BY <1>2, <3>1, NullAssumption DEF IInv, BuildInv, TypeOK, Build
      <4>2. issuance'[j].status = build[b].verdict
        BY <2>1, <3>1 DEF Closed, IInv, TypeOK, Issuance
      <4>3. QED
        BY <4>1, <4>2 DEF Issued
    <3>2. CASE j # build[b].prev
      BY <2>1, <3>2 DEF Closed, Issued
    <3>3. QED
      BY <3>1, <3>2
  <2>4. QED
    BY <1>2, <2>2, <2>3, SameCharge
<1>6. Charge(i) = "none" /\ Charge(i)' \in {"open", "void"}
  <2>1. issuance'[i].status = "active"
    BY <1>1 DEF Closed
  <2>2. Issued(i)' /\ ~FinalOk(i)'
    BY <1>1, <1>2, <2>1 DEF Issued, FinalOk, Final, IInv, ChainInv
  <2>3. QED
    BY <1>1, <2>2, Outcomes, OutcomesNext
<1>7. offers' = [offers EXCEPT ![i] = Charge(i)']
    BY <1>5 DEF offers
<1>8. Promise!Propose(i)
  <2>1. \A j \in Issuances : offers[j] # "open"
    BY <1>4, Outcomes DEF offers
  <2>2. grants = {} /\ grants' = grants
    BY <1>2, <1>3 DEF grants
  <2>3. offers[i] = "none"
    BY <1>6 DEF offers
  <2>4. QED
    BY <1>6, <1>7, <2>1, <2>2, <2>3
    DEF Promise!Propose, Promise!NothingOpen, offers, grants
<1>9. QED
    BY <1>8 DEF Promise!Next

\* The rows that verifyPayment retires were issued before: no outcome changes.
LEMMA VerifyKeeps ==
    ASSUME IInv, NEW r \in Verifiers, VerifyPayment(r), ~VerifyCommit(r)
    PROVE  UNCHANGED <<offers, grants>>
<1>1. UNCHANGED <<payments, height, finalHeight, chain>>
    BY DEF VerifyPayment, VerifyStart, VerifyFindIssuance, VerifyKnownPayment,
       VerifyChainStatus, VerifyChainHeight, VerifyTransactionFailed, VerifyMarkExpired,
       VerifyMarkAwaiting, VerifyMarkFailed, MarkIntent, VerifyAbort, intentVars, chainVars
<1>2. \/ UNCHANGED issuance
      \/ Retire(verify[r].iss, "expired")
      \/ Retire(verify[r].iss, "failed")
    BY DEF VerifyPayment, VerifyStart, VerifyFindIssuance, VerifyKnownPayment,
       VerifyChainStatus, VerifyChainHeight, VerifyTransactionFailed, VerifyMarkExpired,
       VerifyMarkAwaiting, VerifyMarkFailed, MarkIntent, VerifyAbort
<1>3. ASSUME NEW i \in Issuances PROVE Charge(i)' = Charge(i)
  <2>1. /\ issuance'[i].lastValid = issuance[i].lastValid
        /\ Issued(i)' <=> Issued(i)
    BY <1>2 DEF Retire, Issued, Active, IInv, TypeOK, Issuance
  <2>2. QED
    BY <1>1, <2>1, SameCharge
<1>4. QED
    BY <1>1, <1>3, Stutters

\* When the purchase is granted its transaction is final, and it was the only
\* one that was still active.
LEMMA CommitGrants ==
    ASSUME IInv, NEW r \in Verifiers, VerifyCommit(r)
    PROVE  Promise!Next \/ UNCHANGED <<offers, grants>>
<1>1. PICK i \in Issuances : i = verify[r].iss /\ FinalOk(i)
    BY DEF VerifyCommit, IInv, VerifyInv, TypeOK, Verify
<1>2. UNCHANGED <<height, finalHeight, chain>>
    BY DEF VerifyCommit, chainVars
<1>3. CASE UNCHANGED <<intentVars, issuance>>
  <2>1. \A j \in Issuances : Charge(j)' = Charge(j)
    BY <1>2, <1>3, SameCharge DEF Issued
  <2>2. QED
    BY <1>3, <2>1, Stutters DEF intentVars
<1>4. CASE /\ status # "confirmed"
           /\ Active(i)
           /\ issuance' = [issuance EXCEPT ![i].status = "consumed"]
           /\ payments' = payments \cup {[issuance |-> i, buyer |-> issuance[i].account]}
  <2>1. ASSUME NEW j \in Issuances PROVE Charge(j)' = Charge(j)
    <3>1. /\ issuance'[j].lastValid = issuance[j].lastValid
          /\ Issued(j)' <=> Issued(j)
      BY <1>2, <1>4 DEF Issued, Active, IInv, TypeOK, Issuance
    <3>2. QED
      BY <1>2, <3>1, SameCharge
  <2>2. payments = {} /\ payments' = {[issuance |-> i, buyer |-> issuance[i].account]}
    BY <1>4 DEF IInv, ConfirmedIffPaid
  <2>3. grants = {} /\ grants' = {i}
    BY <2>2 DEF grants
  <2>4. ASSUME NEW j \in Issuances PROVE Charge(j) # "open"
    <3>1. SUFFICES ASSUME Payable(j) PROVE FALSE
      BY Outcomes
    <3>2. j = i
      BY <1>1, <1>4, <3>1, PayableIsActive DEF IInv, OneActiveIssuance
    <3>3. QED
      BY <1>1, <3>1, <3>2 DEF Payable, FinalOk
  <2>5. Charge(i) = "charged"
    BY <1>1, Outcomes
  <2>6. Promise!Grant(i)
    BY <2>1, <2>3, <2>4, <2>5
    DEF Promise!Grant, Promise!NothingOpen, offers, grants
  <2>7. QED
    BY <2>6 DEF Promise!Next
<1>5. QED
    BY <1>1, <1>3, <1>4, Zenon DEF VerifyCommit

LEMMA PromiseStep ==
    ASSUME IInv, IInv', [Next]_vars
    PROVE  Promise!Next \/ UNCHANGED <<offers, grants>>
<1>1. CASE UNCHANGED <<payments, issuance, height, finalHeight, chain>>
    BY <1>1, SameCharge, Stutters DEF Issued
<1>2. CASE Environment
    BY <1>2, ChainSettles
<1>3. CASE CreatePaymentIntent
    BY <1>1, <1>3 DEF CreatePaymentIntent, chainVars
<1>4. ASSUME NEW b \in Builders, BuildTransaction(b)
      PROVE  Promise!Next \/ UNCHANGED <<offers, grants>>
  <2>1. CASE BuildIssue(b)
    BY <2>1, BuildProposes
  <2>2. CASE ~BuildIssue(b)
    BY <1>1, <1>4, <2>2 DEF BuildTransaction, BuildLock, BuildRefuse, BuildFindActive,
       BuildChainStatus, BuildChainHeight, BuildAbort, intentVars, chainVars
  <2>3. QED
    BY <2>1, <2>2
<1>5. ASSUME NEW r \in Verifiers, VerifyPayment(r)
      PROVE  Promise!Next \/ UNCHANGED <<offers, grants>>
    BY <1>5, VerifyKeeps, CommitGrants
<1>6. CASE UNCHANGED vars
    BY <1>1, <1>6 DEF vars, intentVars, chainVars
<1>7. QED
    BY <1>2, <1>3, <1>4, <1>5, <1>6 DEF Next

LEMMA PromiseInit ==
    ASSUME Init PROVE Promise!Init
<1>1. ASSUME NEW i \in Issuances PROVE Charge(i) = "none"
  <2>1. ~Issued(i)
    BY DEF Init, Issued, Unissued
  <2>2. ~Payable(i) /\ ~FinalOk(i)
    BY <2>1 DEF Init, Payable, FinalOk, Final
  <2>3. QED
    BY <2>1, <2>2, Zenon DEF Charge
<1>2. payments = {}
    BY DEF Init
<1>3. QED
    BY <1>1, <1>2 DEF Promise!Init

\* KeepsPromise for every number of issuances, wallets and requests: never two
\* transactions that can be charged, one grant, and nothing charged after it.
THEOREM PaymentsKeepPromise == Spec => KeepsPromise
<1>1. Init => Promise!Init
    BY PromiseInit
<1>2. IInv /\ IInv' /\ [Next]_vars => [Promise!Next]_<<offers, grants>>
    BY PromiseStep
<1>3. QED
    BY <1>1, <1>2, Invariance, PTL DEF Spec, KeepsPromise, Promise!Spec, offers, grants
=============================================================================
