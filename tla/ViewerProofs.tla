---------------------------- MODULE ViewerProofs ----------------------------
(***************************************************************************)
(* Proofs about Viewer, for any number of archives, payment intents and    *)
(* faults.                                                                 *)
(***************************************************************************)
EXTENDS Viewer, TLAPS

USE NullsAssumption, FaultsAssumption DEF Phase, ArchiveOf

(***************************************************************************)
(* Type correctness                                                        *)
(***************************************************************************)

\* Initially every variable is in its type.
LEMMA TypeInit == Init => TypeOK
    BY DEF Init, TypeOK, Empty, NoActive, ActiveIntent, Statuses, Tokens, Phases,
           NoOp, NoOpening, Operation, Opening, BackendIntent, Commands, Steps, OpeningSteps

\* What a command that goes on with something learnt leaves of the operation.
LEMMA OpPass ==
    ASSUME op \in Operation, NEW s \in Steps, NEW r \in ActiveIntent, NEW f \in BOOLEAN,
           Pass(s, r, f)
    PROVE  /\ op' \in Operation
           /\ op'.cmd = op.cmd /\ op'.step = s /\ op'.archive = op.archive
           /\ op'.active = r /\ op'.fresh = f
    BY DEF Operation, Pass

\* What a command that goes on leaves of the operation.
LEMMA OpAdvance ==
    ASSUME op \in Operation, NEW s \in Steps, Advance(s)
    PROVE  /\ op' \in Operation
           /\ op'.cmd = op.cmd /\ op'.step = s /\ op'.archive = op.archive
           /\ op'.active = op.active /\ op'.fresh = op.fresh
<1>1. op.active \in ActiveIntent /\ op.fresh \in BOOLEAN
  BY DEF Operation
<1>2. QED
  BY <1>1, OpPass DEF Advance

\* The operation of a command that takes the lock.
LEMMA OpTake ==
    ASSUME NEW cmd \in Commands, NEW s \in Steps, NEW a \in Archives,
           NEW r \in ActiveIntent, Take(cmd, s, a, r)
    PROVE  /\ op' \in Operation
           /\ op'.cmd = cmd /\ op'.step = s /\ op'.archive = a
           /\ op'.active = r /\ op'.fresh = FALSE
    BY DEF Take, Operation

\* The flow of an opening goes on with its archive.
LEMMA OpeningAdvance ==
    ASSUME opening \in Opening, NEW s \in OpeningSteps, AdvanceOpening(s)
    PROVE  opening' \in Opening /\ opening'.archive = opening.archive /\ opening'.step = s
    BY DEF Opening, AdvanceOpening

\* A change of the phase of one intent leaves its archive and the others.
LEMMA BackendBecomes ==
    ASSUME intent \in [Intents -> BackendIntent], NEW i \in Intents, NEW p \in Phases,
           Becomes(i, p)
    PROVE  /\ intent' \in [Intents -> BackendIntent]
           /\ \A j \in Intents :
                 /\ intent'[j].archive = intent[j].archive
                 /\ intent'[j].phase = IF j = i THEN p ELSE intent[j].phase
<1>1. [intent[i] EXCEPT !.phase = p] \in BackendIntent
  BY DEF BackendIntent
<1>2. /\ [intent[i] EXCEPT !.phase = p].archive = intent[i].archive
      /\ [intent[i] EXCEPT !.phase = p].phase = p
  BY DEF BackendIntent
<1>3. PICK r : r = [intent[i] EXCEPT !.phase = p]
  OBVIOUS
<1>4. intent' = [intent EXCEPT ![i] = r]
  BY <1>3 DEF Becomes
<1>5. QED
  BY <1>1, <1>2, <1>3, <1>4

\* A command ends with the lock free and the flow of the opening typed.
LEMMA TypeEnd ==
    ASSUME TypeOK, EndCommand \/ EndUnlocked
    PROVE  /\ op' = NoOp /\ NoOp \in Operation
           /\ opening' \in Opening
           /\ finishing' \subseteq Archives \cup {NoArchive}
<1>1. op' = NoOp /\ NoOp \in Operation
  BY DEF EndCommand, EndUnlocked, NoOp, Operation, Commands, Steps, NoActive, ActiveIntent
<1>2. NoOpening \in Opening /\ opening \in Opening
  BY DEF NoOpening, Opening, OpeningSteps, TypeOK
<1>3. opening' \in Opening
  BY <1>2, OpeningAdvance DEF EndCommand, EndUnlocked, OpeningSteps
<1>4. finishing' \subseteq Archives \cup {NoArchive}
  BY DEF EndCommand, EndUnlocked, TypeOK
<1>5. QED
  BY <1>1, <1>3, <1>4

\* Every step keeps every variable in its type.
LEMMA TypeNext == ASSUME IInv, [Next]_vars PROVE TypeOK'
<1> USE DEF runtime, durable, backend, marks, Fault, NoFault,
            ResetForArchiveSwitch, NoActive, ActiveIntent
<1>0. TypeOK /\ NoOp \in Operation /\ NoOpening \in Opening
  BY DEF IInv, NoOp, Operation, Commands, Steps, NoOpening, Opening, OpeningSteps
<1>1. ASSUME NEW a \in Archives, OpenStart(a) PROVE TypeOK'
  BY <1>0, <1>1 DEF OpenStart, Empty, TypeOK, Opening, OpeningSteps
<1>2. CASE OpenVerify
  <2>1. opening' \in Opening
    BY <1>0, <1>2, OpeningAdvance DEF OpenVerify, OpeningSteps, TypeOK
  <2>2. opening.archive \in Archives \cup {NoArchive}
    BY <1>0 DEF TypeOK, Opening
  <2>3. CASE session' = Locked(opening.archive)
    BY <1>0, <1>2, <2>1, <2>2, <2>3 DEF OpenVerify, Locked, TypeOK
  <2>4. CASE UNCHANGED session
    BY <1>0, <1>2, <2>1, <2>4 DEF OpenVerify, TypeOK
  <2>5. QED
    BY <1>2, <2>3, <2>4 DEF OpenVerify
<1>3. CASE OpenRestore
  <2>1. opening' \in Opening
    BY <1>0, <1>3, OpeningAdvance DEF OpenRestore, OpeningSteps, TypeOK
  <2>2. opening.archive \in Archives \cup {NoArchive}
    BY <1>0 DEF TypeOK, Opening
  <2>3. CASE session' = Unwrapped(opening.archive) /\ opening.archive \in licences
    BY <1>0, <1>3, <2>1, <2>2, <2>3 DEF OpenRestore, Unwrapped, TypeOK
  <2>4. CASE UNCHANGED session
    BY <1>0, <1>3, <2>1, <2>4 DEF OpenRestore, TypeOK
  <2>5. QED
    BY <1>3, <2>3, <2>4 DEF OpenRestore
<1>4. CASE Close
  BY <1>0, <1>4 DEF Close, Empty, TypeOK
<1>5. CASE Expire
  BY <1>0, <1>5 DEF Expire, Locked, TypeOK
<1>6. CASE OpenCommandRefused
  BY <1>0, <1>6 DEF OpenCommandRefused, TypeOK
<1>7. ASSUME NEW cmd \in {"check", "refresh"}, Take(cmd, "answer", session.archive, NoActive),
             session.archive # NoArchive, UNCHANGED opening \/ AdvanceOpening("command"),
             UNCHANGED <<session, runtime, durable, backend, finishing, marks>>
      PROVE  TypeOK'
  <2>1. session.archive \in Archives
    BY <1>0, <1>7 DEF TypeOK
  <2>2. opening' \in Opening
    BY <1>0, <1>7, OpeningAdvance DEF OpeningSteps, TypeOK
  <2>3. op' \in Operation /\ op'.cmd # "none"
    BY <1>7, <2>1, OpTake DEF Commands, Steps
  <2>4. QED
    BY <1>0, <1>7, <2>2, <2>3 DEF TypeOK
<1>8. CASE CheckAnswer
  <2>1. op.archive \in Archives
    BY <1>8 DEF IInv, CommandInv, CheckAnswer, Holding, NoOp
  <2>2. QED
    BY <1>0, <1>8, <2>1, TypeEnd DEF CheckAnswer, TakenUp, LoadRecord, ClearRecord, TypeOK
<1>9. CASE DiscardOrphan
  BY <1>0, <1>9 DEF DiscardOrphan, RemoveIntent, DeleteSecret, ClearRecord, TypeOK
<1>10. CASE PrepareStart
  <2>1. session.archive \in Archives
    BY <1>0, <1>10 DEF PrepareStart, TypeOK
  <2>2. op' \in Operation /\ op'.cmd # "none"
    <3>1. Take("prepare", "answer", session.archive, NoActive) /\ NoActive \in ActiveIntent
      BY <1>10 DEF PrepareStart
    <3>2. QED
      BY <2>1, <3>1, OpTake DEF Commands, Steps
  <2>3. QED
    BY <1>0, <1>10, <2>2 DEF PrepareStart, ClearRecord, TypeOK
<1>13. CASE VerifyStart
  <2>1. active \in ActiveIntent /\ ArchiveOf(active.intent) \in Archives
    BY <1>0, <1>13 DEF VerifyStart, TypeOK, IInv, RuntimeInv
  <2>2. op' \in Operation /\ op'.cmd # "none"
    BY <1>13, <2>1, OpTake DEF VerifyStart, Commands, Steps
  <2>3. QED
    BY <1>0, <1>13, <2>2 DEF VerifyStart, TypeOK
<1>15. CASE ActivateStart
  <2>1. active \in ActiveIntent /\ session.archive \in Archives
    BY <1>0, <1>15 DEF ActivateStart, TypeOK
  <2>2. op' \in Operation /\ op'.cmd # "none"
    BY <1>15, <2>1, OpTake DEF ActivateStart, Commands, Steps
  <2>3. QED
    BY <1>0, <1>15, <2>2 DEF ActivateStart, TypeOK
<1>11. CASE PrepareAnswer
  <2>1. op.archive \in Archives /\ op # NoOp
    BY <1>11 DEF IInv, CommandInv, PrepareAnswer, Holding, NoOp
  <2>2. CASE UNCHANGED <<intent, secrets>> /\ EndCommand
    BY <1>0, <1>11, <2>2, TypeEnd DEF PrepareAnswer, TypeOK
  <2>3. ASSUME NEW i \in Intents,
               intent' = [intent EXCEPT ![i] = [archive |-> op.archive, phase |-> "created"]],
               WriteSecret(i), Pass("save", [intent |-> i, status |-> "open"], FALSE),
               UNCHANGED <<opening, finishing>>
        PROVE  TypeOK'
    <3>1. [intent |-> i, status |-> "open"] \in ActiveIntent
      BY DEF Statuses
    <3>2. op' \in Operation /\ op'.cmd # "none"
      BY <1>0, <1>11, <2>3, <3>1, OpPass DEF Steps, TypeOK, PrepareAnswer, Holding
    <3>3. [archive |-> op.archive, phase |-> "created"] \in BackendIntent
      BY <2>1 DEF BackendIntent, Phases
    <3>4. intent' \in [Intents -> BackendIntent]
      BY <1>0, <2>3, <3>3 DEF TypeOK
    <3>5. QED
      BY <1>0, <1>11, <2>3, <3>2, <3>4 DEF PrepareAnswer, WriteSecret, TypeOK
  <2>4. QED
    BY <1>11, <2>2, <2>3 DEF PrepareAnswer
<1>12. CASE PrepareSave
  <2>1. op.archive \in Archives /\ op.active.intent \in Intents /\ op.active \in ActiveIntent
    BY <1>0, <1>12 DEF IInv, CommandInv, PrepareInv, PrepareSave, Holding, NoOp, TypeOK, Operation
  <2>2. intent' \in [Intents -> BackendIntent]
    BY <1>0, <1>12, <2>1, BackendBecomes DEF PrepareSave, Phases, TypeOK
  <2>3. QED
    BY <1>0, <1>12, <2>1, <2>2, TypeEnd DEF PrepareSave, SaveRecord, DeleteSecret, TypeOK
<1>14. CASE VerifyAnswer
  <2>1. op.archive \in Archives /\ op.active.intent \in Intents
    BY <1>14 DEF IInv, CommandInv, WorkInv, VerifyAnswer, Holding, NoOp
  <2>2. \A s \in Statuses : [intent |-> op.active.intent, status |-> s] \in ActiveIntent
    BY <2>1
  <2>3. ASSUME NEW s \in Statuses, SaveRecord(op.archive, [intent |-> op.active.intent, status |-> s]),
               active' = [intent |-> op.active.intent, status |-> s],
               UNCHANGED secrets, NoFault
        PROVE  TypeOK'
    BY <1>0, <1>14, <2>1, <2>2, <2>3, TypeEnd DEF VerifyAnswer, SaveRecord, TypeOK
  <2>4. CASE active' = NoActive /\ RemoveIntent(op.active, op.archive)
    BY <1>0, <1>14, <2>1, <2>4, TypeEnd
       DEF VerifyAnswer, RemoveIntent, DeleteSecret, ClearRecord, TypeOK
  <2>5. CASE UNCHANGED <<active, stored, secrets>> /\ (NoFault \/ Fault)
    BY <1>0, <1>14, <2>5, TypeEnd DEF VerifyAnswer, TypeOK
  <2>6. QED
    BY <1>14, <2>3, <2>4, <2>5 DEF VerifyAnswer
<1>16. CASE ActivateAnswer
  <2> DEFINE i == op.active.intent
  <2>1. op.archive \in Archives /\ i \in Intents /\ ArchiveOf(i) \in Archives
    BY <1>16 DEF IInv, CommandInv, WorkInv, ActivateAnswer, Holding, NoOp
  <2>2. op.active \in ActiveIntent
    BY <1>0 DEF TypeOK, Operation
  <2>3. Activated(i) => intent' \in [Intents -> BackendIntent]
    BY <1>0, <2>1, BackendBecomes DEF Activated, Phases, TypeOK
  <2>4. Rotated(ArchiveOf(i)) \in [Archives -> Tokens] /\ Overtaken(i) \subseteq Archives
    BY <1>0, <2>1 DEF Rotated, Overtaken, Tokens, TypeOK
  <2>5. Pass("token", op.active, TRUE) => op' \in Operation /\ op'.cmd # "none"
    BY <1>0, <1>16, <2>2, OpPass DEF Steps, TypeOK, ActivateAnswer, Holding
  <2> HIDE DEF i
  <2>6. UNCHANGED <<session, runtime, stored, secrets, licences, misdirected>>
    BY <1>16 DEF ActivateAnswer
  <2>12. faults' \in 0 .. MaxFaults
    <3>1. NoFault \/ Fault
      BY <1>16 DEF ActivateAnswer
    <3>2. QED
      BY <1>0, <3>1 DEF TypeOK
  <2>7. intent' \in [Intents -> BackendIntent] /\ token' \in [Archives -> Tokens]
        /\ spoiled' \subseteq Archives
    BY <1>0, <1>16, <2>3, <2>4 DEF ActivateAnswer, TypeOK, i
  <2>8. late' \subseteq Intents
    BY <1>0, <1>16, <2>1 DEF ActivateAnswer, TypeOK, i
  <2>9. CASE EndCommand
    BY <1>0, <2>6, <2>7, <2>8, <2>9, <2>12, TypeEnd DEF TypeOK
  <2>10. CASE Pass("token", op.active, TRUE) /\ UNCHANGED <<opening, finishing>>
    BY <1>0, <2>5, <2>6, <2>7, <2>8, <2>10, <2>12 DEF TypeOK
  <2>11. QED
    BY <1>16, <2>9, <2>10 DEF ActivateAnswer
<1>17. CASE StoreToken
  <2>1. op.archive \in Archives
    BY <1>17 DEF IInv, CommandInv, StoreToken, Holding, NoOp
  <2>2. /\ token' \in [Archives -> Tokens] /\ spoiled' \subseteq Archives
        /\ faults' \in 0 .. MaxFaults
    BY <1>0, <1>17, <2>1 DEF StoreToken, Tokens, TypeOK
  <2>3. Advance("licence") => op' \in Operation /\ op'.cmd # "none"
    BY <1>0, <1>17, OpAdvance DEF Steps, TypeOK, StoreToken, Holding
  <2>4. CASE EndCommand
    BY <1>0, <1>17, <2>2, <2>4, TypeEnd DEF StoreToken, TypeOK
  <2>5. CASE Advance("licence") /\ UNCHANGED <<opening, finishing>>
    BY <1>0, <1>17, <2>2, <2>3, <2>5 DEF StoreToken, TypeOK
  <2>6. QED
    BY <1>17, <2>4, <2>5 DEF StoreToken
<1>18. CASE StoreLicence
  <2>1. op.archive \in Archives
    BY <1>18 DEF IInv, CommandInv, StoreLicence, NoOp
  <2>2. licences' \subseteq Archives /\ faults' \in 0 .. MaxFaults
    BY <1>0, <1>18, <2>1 DEF StoreLicence, SaveLicence, TypeOK
  <2>3. Advance("install") => op' \in Operation /\ op'.cmd # "none"
    BY <1>0, <1>18, OpAdvance DEF Steps, TypeOK, StoreLicence
  <2>4. CASE EndCommand
    BY <1>0, <1>18, <2>2, <2>4, TypeEnd DEF StoreLicence, TypeOK
  <2>5. CASE Advance("install") /\ UNCHANGED <<opening, finishing>>
    BY <1>0, <1>18, <2>2, <2>3, <2>5 DEF StoreLicence, TypeOK
  <2>6. QED
    BY <1>18, <2>4, <2>5 DEF StoreLicence
<1>19. CASE Install
  <2>1. op.archive \in Archives /\ op.cmd # "none"
    BY <1>0, <1>19 DEF IInv, CommandInv, Install, NoOp, TypeOK
  <2>2. session' \in [archive : Archives \cup {NoArchive}, open : BOOLEAN]
        /\ (session'.open => session'.archive \in Archives)
    <3>1. CASE session' = Unwrapped(op.archive)
      BY <2>1, <3>1 DEF Unwrapped
    <3>2. CASE UNCHANGED session
      BY <1>0, <3>2 DEF TypeOK
    <3>3. QED
      BY <1>19, <3>1, <3>2 DEF Install
  <2>3. Advance("cleanup") => op' \in Operation /\ op'.cmd # "none"
    BY <1>0, <2>1, OpAdvance DEF Steps, TypeOK
  <2>4. UNCHANGED <<runtime, durable, backend, marks>>
    BY <1>19 DEF Install
  <2>5. CASE EndCommand \/ EndUnlocked
    BY <1>0, <2>2, <2>4, <2>5, TypeEnd DEF TypeOK
  <2>6. CASE Advance("cleanup") /\ UNCHANGED <<opening, finishing>>
    BY <1>0, <2>2, <2>3, <2>4, <2>6 DEF TypeOK
  <2>7. QED
    BY <1>19, <2>5, <2>6 DEF Install
<1>20. CASE ActivateCleanup
  <2>1. op.archive \in Archives
    BY <1>20 DEF IInv, CommandInv, ActivateCleanup, Holding, NoOp
  <2>2. QED
    BY <1>0, <1>20, <2>1, TypeEnd
       DEF ActivateCleanup, RemoveIntent, DeleteSecret, ClearRecord, TypeOK
<1>21. CASE CheckStart \/ RefreshStart
  BY <1>7, <1>21 DEF CheckStart, RefreshStart
<1>22. CASE RefreshAnswer
  <2>1. /\ token' \in [Archives -> Tokens] /\ faults' \in 0 .. MaxFaults
    BY <1>0, <1>22 DEF RefreshAnswer, Tokens, TypeOK
  <2>2. spoiled' \subseteq Archives
    <3>1. op.archive \in Archives
      BY <1>22 DEF IInv, CommandInv, RefreshAnswer, Holding, NoOp
    <3>2. QED
      BY <1>0, <1>22, <3>1 DEF RefreshAnswer, TypeOK
  <2>3. Advance("licence") => op' \in Operation /\ op'.cmd # "none"
    BY <1>0, <1>22, OpAdvance DEF Steps, TypeOK, RefreshAnswer, Holding
  <2>4. ASSUME NEW code, session' = [archive |-> session.archive,
                                     open |-> session.open /\ code \in Retryable]
        PROVE  /\ session' \in [archive : Archives \cup {NoArchive}, open : BOOLEAN]
               /\ session'.open => session'.archive \in Archives
    BY <1>0, <2>4, Zenon DEF TypeOK
  <2>5. UNCHANGED <<runtime, stored, secrets, licences, backend, misdirected>>
    BY <1>22 DEF RefreshAnswer
  <2>6. CASE EndCommand
    BY <1>0, <1>22, <2>1, <2>2, <2>4, <2>5, <2>6, TypeEnd DEF RefreshAnswer, TypeOK
  <2>7. CASE Advance("licence") /\ UNCHANGED <<session, opening, finishing>>
    BY <1>0, <2>1, <2>2, <2>3, <2>5, <2>7 DEF TypeOK
  <2>8. QED
    BY <1>22, <2>6, <2>7 DEF RefreshAnswer
<1>23. CASE CurrentIdentity
  BY <1>0, <1>23 DEF CurrentIdentity, TypeOK
<1>24. ASSUME NEW a \in Archives, CleanupAfterUnlock(a) PROVE TypeOK'
  <2>1. misdirected' \subseteq Archives
    BY <1>0, <1>24 DEF CleanupAfterUnlock, Forgotten, TypeOK, IInv, RuntimeInv
  <2>2. /\ stored' \in [Archives -> ActiveIntent] /\ secrets' \subseteq Intents
        /\ active' \in ActiveIntent /\ faults' \in 0 .. MaxFaults
    BY <1>0, <1>24 DEF CleanupAfterUnlock, RemoveIntent, DeleteSecret, ClearRecord, TypeOK
  <2>3. QED
    BY <1>0, <1>24, <2>1, <2>2 DEF CleanupAfterUnlock, TypeOK
<1>25. ASSUME NEW i \in Intents, Pay(i) \/ EndIntent(i) PROVE TypeOK'
  <2>1. intent' \in [Intents -> BackendIntent]
    BY <1>0, <1>25, BackendBecomes DEF Pay, EndIntent, Phases, TypeOK
  <2>2. QED
    BY <1>0, <1>25, <2>1 DEF Pay, EndIntent, TypeOK
<1>27. ASSUME NEW i \in Intents, CommitLate(i) PROVE TypeOK'
  <2>1. ArchiveOf(i) \in Archives
    BY <1>27 DEF IInv, BackendInv, CommitLate, Paid
  <2>2. intent' \in [Intents -> BackendIntent]
    BY <1>0, <1>27, BackendBecomes DEF CommitLate, Activated, Phases, TypeOK
  <2>3. token' \in [Archives -> Tokens] /\ spoiled' \subseteq Archives
    BY <1>0, <1>27, <2>1 DEF CommitLate, Rotated, Overtaken, Tokens, TypeOK
  <2>4. op' \in Operation /\ (op'.cmd = "none" => op' = NoOp)
    <3>1. CASE UNCHANGED op
      BY <1>0, <3>1 DEF TypeOK
    <3>2. CASE op.archive = ArchiveOf(i) /\ Pass(op.step, op.active, FALSE)
      <4>1. op.step \in Steps /\ op.active \in ActiveIntent /\ op.cmd # "none"
        BY <1>0, <2>1, <3>2 DEF TypeOK, Operation, NoOp
      <4>2. QED
        BY <1>0, <3>2, <4>1, OpPass DEF TypeOK
    <3>3. QED
      BY <1>27, <3>1, <3>2 DEF CommitLate
  <2>5. QED
    BY <1>0, <1>27, <2>2, <2>3, <2>4 DEF CommitLate, TypeOK
<1>28. ASSUME NEW i \in Intents, LoseLate(i) PROVE TypeOK'
  BY <1>0, <1>28 DEF LoseLate, TypeOK
<1>29. ASSUME NEW i \in Intents, LoseSecret(i) PROVE TypeOK'
  BY <1>0, <1>29 DEF LoseSecret, DeleteSecret, TypeOK, IInv, BackendInv
<1>30. CASE Crash
  <2>1. Holding("activate", "answer") => op.active.intent \in Intents
    BY DEF IInv, WorkInv, Holding
  <2>2. QED
    BY <1>0, <1>30, <2>1 DEF Crash, Empty, TypeOK
<1>31. CASE UNCHANGED vars
  BY <1>0, <1>31 DEF vars, TypeOK
<1>32. QED
  BY <1>1, <1>2, <1>3, <1>4, <1>5, <1>6, <1>8, <1>9, <1>10, <1>11, <1>12, <1>13, <1>14,
     <1>15, <1>16, <1>17, <1>18, <1>19, <1>20, <1>21, <1>22, <1>23, <1>24, <1>25,
     <1>27, <1>28, <1>29, <1>30, <1>31
     DEF Next, Command, OpenAndClose, Environment

(***************************************************************************)
(* What the actions only ever extend                                       *)
(***************************************************************************)

\* No licence file is deleted, and no mark of a misdirected archive.
LEMMA OnlyGrows == ASSUME [Next]_vars PROVE licences \subseteq licences' /\ misdirected \subseteq misdirected'
<1> USE DEF durable, marks
<1>1. CASE StoreLicence
  BY <1>1 DEF StoreLicence, SaveLicence
<1>2. ASSUME NEW a \in Archives, CleanupAfterUnlock(a)
      PROVE  licences \subseteq licences' /\ misdirected \subseteq misdirected'
  BY <1>2 DEF CleanupAfterUnlock
<1>3. ASSUME NEW i \in Intents, LoseSecret(i)
      PROVE  licences \subseteq licences' /\ misdirected \subseteq misdirected'
  BY <1>3 DEF LoseSecret
<1>4. CASE \/ OpenVerify \/ OpenRestore \/ OpenCommandRefused \/ Close \/ Expire
           \/ \E a \in Archives : OpenStart(a)
  BY <1>4 DEF OpenVerify, OpenRestore, OpenCommandRefused, Close, Expire, OpenStart
<1>5. CASE \/ CheckStart \/ CheckAnswer \/ DiscardOrphan \/ PrepareStart \/ PrepareAnswer
           \/ PrepareSave \/ VerifyStart \/ VerifyAnswer
  BY <1>5 DEF CheckStart, CheckAnswer, DiscardOrphan, PrepareStart, PrepareAnswer, PrepareSave,
              VerifyStart, VerifyAnswer
<1>6. CASE \/ ActivateStart \/ ActivateAnswer \/ StoreToken \/ Install \/ ActivateCleanup
           \/ RefreshStart \/ RefreshAnswer \/ CurrentIdentity
  BY <1>6 DEF ActivateStart, ActivateAnswer, StoreToken, Install, ActivateCleanup,
              RefreshStart, RefreshAnswer, CurrentIdentity
<1>7. CASE \/ \E i \in Intents : Pay(i) \/ EndIntent(i) \/ CommitLate(i) \/ LoseLate(i)
           \/ Crash \/ UNCHANGED vars
  BY <1>7 DEF Pay, EndIntent, CommitLate, LoseLate, Crash, vars
<1>8. QED
  BY <1>1, <1>2, <1>3, <1>4, <1>5, <1>6, <1>7 DEF Next, Command, OpenAndClose, Environment

\* How one step may move an intent: it is created for the archive of the
\* command, shown, paid or ended, or activated once it was paid.
Moved(i) ==
    \/ PrepareAnswer /\ Phase(i) = "unused" /\ intent'[i].archive \in Archives
                     /\ intent'[i].phase = "created"
    \/ /\ intent'[i].archive = intent[i].archive
       /\ \/ intent'[i].phase = intent[i].phase
          \/ /\ PrepareSave /\ i = op.active.intent /\ active' = op.active
             /\ stored' = [stored EXCEPT ![op.archive] = op.active]
             /\ UNCHANGED secrets
             /\ Phase(i) = "created" /\ intent'[i].phase = "quoted"
          \/ Phase(i) = "quoted" /\ intent'[i].phase \in {"paid", "ended"}
          \/ Paid(i) /\ intent'[i].phase = "activated"

\* Every step moves every intent so.
LEMMA IntentsMove == ASSUME IInv, [Next]_vars PROVE \A i \in Intents : Moved(i)
<1> SUFFICES ASSUME NEW i \in Intents PROVE Moved(i)
  OBVIOUS
<1> USE DEF backend
<1>0. intent \in [Intents -> BackendIntent]
  BY DEF IInv, TypeOK
<1>1. CASE PrepareAnswer
  <2>1. op.archive \in Archives
    BY <1>1 DEF IInv, CommandInv, PrepareAnswer, Holding, NoOp
  <2>2. ASSUME NEW j \in Intents, Phase(j) = "unused",
               intent' = [intent EXCEPT ![j] = [archive |-> op.archive, phase |-> "created"]]
        PROVE  Moved(i)
    <3>1. /\ intent'[j].archive \in Archives /\ intent'[j].phase = "created"
          /\ i # j => intent'[i] = intent[i]
      BY <1>0, <2>1, <2>2
    <3>2. QED
      BY <1>1, <2>2, <3>1 DEF Moved
  <2>3. CASE UNCHANGED intent
    BY <2>3 DEF Moved
  <2>4. QED
    BY <1>1, <2>2, <2>3 DEF PrepareAnswer
<1>2. CASE PrepareSave
  <2>1. op.active.intent \in Intents /\ Phase(op.active.intent) = "created"
    BY <1>2 DEF IInv, PrepareInv, PrepareSave, Holding
  <2>2. CASE UNCHANGED intent
    BY <2>2 DEF Moved
  <2>3. CASE /\ SaveRecord(op.archive, op.active) /\ active' = op.active
             /\ Becomes(op.active.intent, "quoted") /\ UNCHANGED secrets
    <3>1. /\ intent'[i].archive = intent[i].archive
          /\ intent'[i].phase = IF i = op.active.intent THEN "quoted" ELSE intent[i].phase
      BY <1>0, <2>1, <2>3, BackendBecomes DEF Phases
    <3>2. QED
      BY <1>2, <2>1, <2>3, <3>1 DEF Moved, SaveRecord
  <2>4. QED
    BY <1>2, <2>2, <2>3 DEF PrepareSave
<1>3. ASSUME NEW j \in Intents, Activated(j), Paid(j) PROVE Moved(i)
  <2>1. /\ intent'[i].archive = intent[i].archive
        /\ intent'[i].phase = IF i = j THEN "activated" ELSE intent[i].phase
    BY <1>0, <1>3, BackendBecomes DEF Activated, Phases
  <2>2. QED
    BY <1>3, <2>1 DEF Moved
<1>4. CASE ActivateAnswer
  <2>1. op.active.intent \in Intents /\ Paid(op.active.intent)
    BY <1>4 DEF IInv, WorkInv, ActivateAnswer, Holding
  <2>2. UNCHANGED intent \/ Activated(op.active.intent)
    BY <1>4 DEF ActivateAnswer
  <2>3. QED
    BY <1>3, <2>1, <2>2 DEF Moved
<1>5. ASSUME NEW j \in Intents, CommitLate(j) PROVE Moved(i)
  BY <1>3, <1>5 DEF CommitLate, IInv, BackendInv
<1>6. ASSUME NEW j \in Intents, Pay(j) PROVE Moved(i)
  <2>1. /\ intent'[i].archive = intent[i].archive
        /\ intent'[i].phase = IF i = j THEN "paid" ELSE intent[i].phase
    BY <1>0, <1>6, BackendBecomes DEF Pay, Phases
  <2>2. QED
    BY <1>6, <2>1 DEF Pay, Moved
<1>7. ASSUME NEW j \in Intents, EndIntent(j) PROVE Moved(i)
  <2>1. /\ intent'[i].archive = intent[i].archive
        /\ intent'[i].phase = IF i = j THEN "ended" ELSE intent[i].phase
    BY <1>0, <1>7, BackendBecomes DEF EndIntent, Phases
  <2>2. QED
    BY <1>7, <2>1 DEF EndIntent, Moved
<1>8. CASE UNCHANGED intent
  BY <1>8 DEF Moved
<1>9. CASE \/ OpenVerify \/ OpenRestore \/ OpenCommandRefused \/ Close \/ Expire
           \/ \E a \in Archives : OpenStart(a) \/ CleanupAfterUnlock(a)
  BY <1>8, <1>9 DEF OpenVerify, OpenRestore, OpenCommandRefused, Close, Expire, OpenStart,
                    CleanupAfterUnlock
<1>10. CASE \/ CheckStart \/ CheckAnswer \/ DiscardOrphan \/ PrepareStart \/ VerifyStart
            \/ VerifyAnswer \/ ActivateStart \/ StoreToken \/ StoreLicence
  BY <1>8, <1>10 DEF CheckStart, CheckAnswer, DiscardOrphan, PrepareStart, VerifyStart,
                     VerifyAnswer, ActivateStart, StoreToken, StoreLicence
<1>11. CASE \/ Install \/ ActivateCleanup \/ RefreshStart \/ RefreshAnswer \/ CurrentIdentity
            \/ Crash \/ \E j \in Intents : LoseLate(j) \/ LoseSecret(j)
            \/ UNCHANGED vars
  BY <1>8, <1>11 DEF Install, ActivateCleanup, RefreshStart, RefreshAnswer, CurrentIdentity,
                     Crash, LoseLate, LoseSecret, vars
<1>12. QED
  BY <1>1, <1>2, <1>4, <1>5, <1>6, <1>7, <1>9, <1>10, <1>11
     DEF Next, Command, OpenAndClose, Environment

\* So an intent that was shown stays with its archive, and a record that is
\* right about it stays right.
LEMMA KnownStays ==
    ASSUME IInv, [Next]_vars, NEW r, NEW a \in Archives, Known(r, a)
    PROVE  Known(r, a)'
<1>1. r.intent \in Intents /\ Moved(r.intent)
  BY IntentsMove DEF Known
<1>2. QED
  BY <1>1 DEF Known, Moved, Paid

\* An intent was open before, or is shown by this step.
LEMMA OpenBefore ==
    ASSUME IInv, [Next]_vars, NEW i \in Intents, Open(i)'
    PROVE  /\ intent'[i].archive = intent[i].archive
           /\ \/ Open(i)
              \/ /\ PrepareSave /\ i = op.active.intent /\ Phase(i) = "created"
                 /\ stored' = [stored EXCEPT ![op.archive] = op.active] /\ active' = op.active
                 /\ UNCHANGED secrets
<1>1. Moved(i)
  BY IntentsMove
<1>2. QED
  BY <1>1 DEF Open, Moved

(***************************************************************************)
(* The parts of the inductive invariant, one after the other               *)
(***************************************************************************)

\* Late activations are of paid intents, and stored secrets of created ones.
LEMMA BackendNext == ASSUME IInv, [Next]_vars PROVE BackendInv'
<1> USE DEF backend, durable
<1>0. BackendInv /\ TypeOK /\ \A i \in Intents : Moved(i)
  BY IntentsMove DEF IInv
<1>1. \A i \in Intents : Phase(i)' # "unused" => ArchiveOf(i)' \in Archives
  BY <1>0 DEF BackendInv, Moved, Paid
<1>2. \A i \in late' : Paid(i)'
  <2>1. late' \subseteq late \/ \E j \in Intents : Paid(j) /\ late' = late \cup {j}
    <3>1. CASE ActivateAnswer
      <4>1. op.active.intent \in Intents /\ Paid(op.active.intent)
        BY <3>1 DEF ActivateAnswer, Holding, IInv, WorkInv
      <4>2. UNCHANGED late \/ late' = late \cup {op.active.intent}
        BY <3>1 DEF ActivateAnswer
      <4>3. QED
        BY <4>1, <4>2
    <3>2. CASE Crash
      <4>1. Holding("activate", "answer") =>
              op.active.intent \in Intents /\ Paid(op.active.intent)
        BY DEF Holding, IInv, WorkInv
      <4>2. QED
        BY <3>2, <4>1 DEF Crash
    <3>3. ASSUME NEW j \in Intents, CommitLate(j) \/ LoseLate(j) PROVE late' \subseteq late
      BY <3>3 DEF CommitLate, LoseLate
    <3>4. CASE \/ OpenVerify \/ OpenRestore \/ OpenCommandRefused \/ Close \/ Expire
               \/ \E a \in Archives : OpenStart(a) \/ CleanupAfterUnlock(a)
      BY <3>4 DEF OpenVerify, OpenRestore, OpenCommandRefused, Close, Expire, OpenStart,
                  CleanupAfterUnlock
    <3>5. CASE \/ CheckStart \/ CheckAnswer \/ DiscardOrphan \/ PrepareStart \/ PrepareAnswer
               \/ PrepareSave \/ VerifyStart \/ VerifyAnswer \/ ActivateStart
      BY <3>5 DEF CheckStart, CheckAnswer, DiscardOrphan, PrepareStart, PrepareAnswer,
                  PrepareSave, VerifyStart, VerifyAnswer, ActivateStart
    <3>6. CASE \/ StoreToken \/ StoreLicence \/ Install \/ ActivateCleanup \/ RefreshStart
               \/ RefreshAnswer \/ CurrentIdentity \/ UNCHANGED vars
               \/ \E j \in Intents : Pay(j) \/ EndIntent(j) \/ LoseSecret(j)
      BY <3>6 DEF StoreToken, StoreLicence, Install, ActivateCleanup, RefreshStart,
                  RefreshAnswer, CurrentIdentity, Pay, EndIntent, LoseSecret, vars
    <3>7. QED
      BY <3>1, <3>2, <3>3, <3>4, <3>5, <3>6 DEF Next, Command, OpenAndClose, Environment
  <2>2. late \subseteq Intents
    BY <1>0 DEF TypeOK
  <2>3. \A i \in Intents : Paid(i) => Paid(i)'
    BY <1>0 DEF Moved, Paid
  <2>4. QED
    BY <1>0, <2>1, <2>2, <2>3 DEF BackendInv
<1>3. \A i \in secrets' : Phase(i)' # "unused"
  <2>1. \A i \in Intents : Phase(i) # "unused" => Phase(i)' # "unused"
    BY <1>0 DEF Moved
  <2>2. secrets' \subseteq secrets => \A i \in secrets' : Phase(i)' # "unused"
    BY <1>0, <2>1 DEF BackendInv, TypeOK
  <2>3. CASE PrepareAnswer
    <3>1. ASSUME NEW j \in Intents, WriteSecret(j),
                 intent' = [intent EXCEPT ![j] = [archive |-> op.archive, phase |-> "created"]]
          PROVE  \A i \in secrets' : Phase(i)' # "unused"
      <4>1. intent'[j].phase = "created"
        BY <1>0, <3>1 DEF TypeOK
      <4>2. secrets' = secrets \cup {j}
        BY <3>1 DEF WriteSecret
      <4>3. QED
        BY <1>0, <2>1, <4>1, <4>2 DEF BackendInv, TypeOK
    <3>2. QED
      BY <2>2, <2>3, <3>1 DEF PrepareAnswer
  <2>4. CASE \/ PrepareSave \/ VerifyAnswer \/ DiscardOrphan \/ ActivateCleanup
             \/ \E a \in Archives : CleanupAfterUnlock(a)
             \/ \E j \in Intents : LoseSecret(j)
    BY <2>2, <2>4 DEF PrepareSave, VerifyAnswer, DiscardOrphan, ActivateCleanup,
                      CleanupAfterUnlock, LoseSecret, RemoveIntent, DeleteSecret
  <2>5. CASE \/ OpenVerify \/ OpenRestore \/ OpenCommandRefused \/ Close \/ Expire
             \/ \E a \in Archives : OpenStart(a)
    BY <2>2, <2>5 DEF OpenVerify, OpenRestore, OpenCommandRefused, Close, Expire, OpenStart
  <2>6. CASE \/ CheckStart \/ CheckAnswer \/ PrepareStart \/ VerifyStart \/ ActivateStart
             \/ ActivateAnswer \/ StoreToken \/ StoreLicence
    BY <2>2, <2>6 DEF CheckStart, CheckAnswer, PrepareStart, VerifyStart, ActivateStart,
                      ActivateAnswer, StoreToken, StoreLicence
  <2>7. CASE \/ Install \/ RefreshStart \/ RefreshAnswer \/ CurrentIdentity \/ Crash
             \/ \E j \in Intents : Pay(j) \/ EndIntent(j) \/ CommitLate(j) \/ LoseLate(j)
             \/ UNCHANGED vars
    BY <2>2, <2>7 DEF Install, RefreshStart, RefreshAnswer, CurrentIdentity, Crash, Pay,
                      EndIntent, CommitLate, LoseLate, vars
  <2>8. QED
    BY <2>3, <2>4, <2>5, <2>6, <2>7 DEF Next, Command, OpenAndClose, Environment
<1>4. QED
  BY <1>1, <1>2, <1>3 DEF BackendInv

\* A record names an intent that was shown, and is confirmed only if it is.
LEMMA RecordsNext == ASSUME IInv, [Next]_vars PROVE RecordsInv'
<1> USE DEF durable
<1>0. RecordsInv /\ TypeOK
  BY DEF IInv
<1>1. CASE UNCHANGED stored
  <2>1. SUFFICES ASSUME NEW a \in Archives PROVE stored[a] = NoActive \/ Known(stored[a], a)'
    BY <1>1 DEF RecordsInv, Known, Paid
  <2>2. PICK q : q = stored[a]
    OBVIOUS
  <2>3. q = NoActive \/ Known(q, a)'
    BY <1>0, <2>2, KnownStays DEF RecordsInv
  <2>4. QED
    BY <1>1, <2>2, <2>3 DEF Known, Paid
<1>2. ASSUME NEW b \in Archives, NEW r \in ActiveIntent, r = NoActive \/ Known(r, b)',
             stored' = [stored EXCEPT ![b] = r]
      PROVE  RecordsInv'
  <2>1. SUFFICES ASSUME NEW a \in Archives
                 PROVE  stored'[a] = NoActive \/ Known(stored[a], a)'
    BY DEF RecordsInv
  <2>2. CASE a = b
    BY <1>0, <1>2, <2>2 DEF TypeOK, Known, Paid
  <2>3. CASE a # b
    <3>1. stored'[a] = stored[a]
      BY <1>0, <1>2, <2>3 DEF TypeOK
    <3>2. stored[a] = NoActive \/ Known(stored[a], a)
      BY <1>0 DEF RecordsInv
    <3>3. PICK q : q = stored[a]
      OBVIOUS
    <3>4. q = NoActive \/ Known(q, a)'
      BY <3>2, <3>3, KnownStays
    <3>5. QED
      BY <3>1, <3>3, <3>4 DEF Known, Paid
  <2>4. QED
    BY <2>2, <2>3
<1>3. ASSUME NEW b \in Archives, ClearRecord(b) PROVE RecordsInv'
  BY <1>2, <1>3 DEF ClearRecord, NoActive, ActiveIntent
<1>4. ASSUME NEW b \in Archives, NEW r, RemoveIntent(r, b) PROVE RecordsInv'
  BY <1>1, <1>3, <1>4 DEF RemoveIntent
<1>5. op.cmd # "none" => op.archive \in Archives
  BY DEF IInv, CommandInv, NoOp
<1>6. CASE CheckAnswer
  BY <1>1, <1>3, <1>5, <1>6 DEF CheckAnswer, Holding
<1>7. CASE DiscardOrphan
  BY <1>4, <1>7 DEF DiscardOrphan, IInv, RuntimeInv
<1>8. CASE PrepareStart
  BY <1>1, <1>3, <1>8 DEF PrepareStart, IInv, RuntimeInv
<1>9. CASE PrepareSave
  <2>1. /\ op.active.intent \in Intents /\ op.active.status = "open"
        /\ ArchiveOf(op.active.intent) = op.archive /\ op.archive \in Archives
        /\ op.active \in ActiveIntent /\ intent \in [Intents -> BackendIntent]
    BY <1>0, <1>5, <1>9 DEF PrepareSave, Holding, IInv, PrepareInv, TypeOK, Operation
  <2>2. CASE SaveRecord(op.archive, op.active) /\ Becomes(op.active.intent, "quoted")
    <3>1. PICK r : r = op.active
      OBVIOUS
    <3>2. intent'[r.intent].archive = op.archive /\ intent'[r.intent].phase = "quoted"
      BY <2>1, <2>2, <3>1, BackendBecomes DEF Phases
    <3>3. PICK b : b = op.archive
      OBVIOUS
    <3>4. Known(r, b)'
      BY <2>1, <3>1, <3>2, <3>3 DEF Known
    <3>5. QED
      BY <1>2, <2>1, <2>2, <3>1, <3>3, <3>4 DEF SaveRecord
  <2>3. QED
    BY <1>1, <1>9, <2>2 DEF PrepareSave
<1>10. CASE VerifyAnswer
  <2>1. /\ op.archive \in Archives /\ op.active = stored[op.archive]
        /\ op.active.intent \in Intents
    BY <1>5, <1>10 DEF VerifyAnswer, Holding, IInv, WorkInv
  <2>2. Known(op.active, op.archive)
    BY <1>0, <2>1 DEF RecordsInv, NoActive
  <2>3. ASSUME NEW s \in Statuses,
               s = "confirmed" <=> Phase(op.active.intent) \in {"paid", "activated"},
               SaveRecord(op.archive, [intent |-> op.active.intent, status |-> s])
        PROVE  RecordsInv'
    <3>1. PICK r : r = [intent |-> op.active.intent, status |-> s]
      OBVIOUS
    <3>2. PICK b : b = op.archive
      OBVIOUS
    <3>3. Known(r, b)
      BY <2>2, <2>3, <3>1, <3>2 DEF Known, Paid
    <3>4. r \in ActiveIntent
      BY <2>1, <3>1 DEF ActiveIntent
    <3>5. Known(r, b)'
      BY <2>1, <3>2, <3>3, KnownStays
    <3>6. QED
      BY <1>2, <2>1, <2>3, <3>1, <3>2, <3>4, <3>5 DEF SaveRecord
  <2>4. QED
    BY <1>1, <1>4, <1>10, <2>1, <2>3 DEF VerifyAnswer
<1>11. CASE ActivateCleanup
  BY <1>4, <1>5, <1>11 DEF ActivateCleanup, Holding
<1>12. ASSUME NEW a \in Archives, CleanupAfterUnlock(a) PROVE RecordsInv'
  BY <1>1, <1>4, <1>12 DEF CleanupAfterUnlock
<1>13. CASE \/ OpenVerify \/ OpenRestore \/ OpenCommandRefused \/ Close \/ Expire
            \/ \E a \in Archives : OpenStart(a)
  BY <1>1, <1>13 DEF OpenVerify, OpenRestore, OpenCommandRefused, Close, Expire, OpenStart
<1>14. CASE \/ CheckStart \/ PrepareAnswer \/ VerifyStart \/ ActivateStart \/ ActivateAnswer
            \/ StoreToken \/ StoreLicence \/ Install \/ RefreshStart \/ RefreshAnswer
  BY <1>1, <1>14 DEF CheckStart, PrepareAnswer, VerifyStart, ActivateStart, ActivateAnswer,
                     StoreToken, StoreLicence, Install, RefreshStart, RefreshAnswer
<1>15. CASE \/ CurrentIdentity \/ Crash \/ UNCHANGED vars
            \/ \E j \in Intents : \/ Pay(j) \/ EndIntent(j) \/ CommitLate(j) \/ LoseLate(j)
                                  \/ LoseSecret(j)
  BY <1>1, <1>15 DEF CurrentIdentity, Crash, Pay, EndIntent, CommitLate, LoseLate, LoseSecret,
                     vars
<1>16. QED
  BY <1>6, <1>7, <1>8, <1>9, <1>10, <1>11, <1>12, <1>13, <1>14, <1>15
     DEF Next, Command, OpenAndClose, Environment

\* The runtime holds the record on disk, for the archive of its metadata.
LEMMA RuntimeNext == ASSUME IInv, [Next]_vars PROVE RuntimeInv'
<1> USE DEF durable, runtime, ResetForArchiveSwitch
<1>0. RuntimeInv /\ TypeOK /\ RecordsInv /\ \A i \in Intents : Moved(i)
  BY IntentsMove DEF IInv
<1>1. CASE active' = NoActive
  BY <1>1 DEF RuntimeInv
<1>2. ASSUME NEW a \in Archives, NEW r, active' = r, r # NoActive, Known(r, a),
             stored' = [stored EXCEPT ![a] = r], metadata' \in {a, NoArchive}, r \in ActiveIntent
      PROVE  RuntimeInv'
  <2>1. r.intent \in Intents /\ intent'[r.intent].archive = a
    BY <1>0, <1>2 DEF Known, Moved
  <2>2. stored'[a] = r
    BY <1>0, <1>2 DEF TypeOK
  <2>3. QED
    BY <1>2, <2>1, <2>2 DEF RuntimeInv
<1>3. CASE UNCHANGED <<active, stored, metadata>>
  <2>1. CASE active # NoActive
    <3>1. PICK a : a = ArchiveOf(active.intent)
      OBVIOUS
    <3>2. a \in Archives /\ stored[a] = active /\ metadata \in {a, NoArchive}
      BY <1>0, <2>1, <3>1 DEF RuntimeInv
    <3>3. Known(active, a)
      BY <1>0, <2>1, <3>2 DEF RecordsInv
    <3>4. active \in ActiveIntent /\ stored' = [stored EXCEPT ![a] = active]
      BY <1>0, <1>3, <3>2 DEF TypeOK
    <3>5. QED
      BY <1>2, <1>3, <2>1, <3>2, <3>3, <3>4
  <2>2. QED
    BY <1>1, <1>3, <2>1
<1>4. op.cmd # "none" => op.archive \in Archives
  BY DEF IInv, CommandInv, NoOp
<1>5. CASE CheckAnswer
  <2>1. PICK a : a = op.archive
    OBVIOUS
  <2>2. a \in Archives
    BY <1>4, <1>5, <2>1 DEF CheckAnswer, Holding
  <2>3. CASE /\ metadata' = a /\ active' = stored[a] /\ Resumable(stored[a]) /\ UNCHANGED stored
    <3>1. stored[a] # NoActive /\ stored[a] \in ActiveIntent
      BY <1>0, <2>2, <2>3 DEF Resumable, NoActive, TypeOK
    <3>2. stored' = [stored EXCEPT ![a] = stored[a]]
      BY <1>0, <2>2, <2>3 DEF TypeOK
    <3>3. Known(stored[a], a)
      BY <1>0, <2>2, <3>1 DEF RecordsInv
    <3>4. QED
      BY <1>2, <2>2, <2>3, <3>1, <3>2, <3>3
  <2>4. QED
    BY <1>1, <1>3, <1>5, <2>1, <2>3 DEF CheckAnswer, TakenUp, LoadRecord
<1>6. CASE PrepareSave
  <2>1. /\ op.active.intent \in Intents /\ op.archive \in Archives
        /\ metadata \in {op.archive, NoArchive} /\ active = NoActive
        /\ ArchiveOf(op.active.intent) = op.archive /\ op.active \in ActiveIntent
        /\ Phase(op.active.intent) = "created"
    BY <1>0, <1>4, <1>6 DEF PrepareSave, Holding, IInv, PrepareInv, TypeOK, Operation
  <2>2. CASE SaveRecord(op.archive, op.active) /\ active' = op.active
    <3>1. intent'[op.active.intent].archive = op.archive
      BY <1>0, <2>1 DEF Moved
    <3>2. stored'[op.archive] = op.active
      BY <1>0, <2>1, <2>2 DEF SaveRecord, TypeOK
    <3>3. metadata' \in {op.archive, NoArchive}
      BY <1>6, <2>1 DEF PrepareSave
    <3>4. QED
      BY <2>1, <2>2, <3>1, <3>2, <3>3 DEF RuntimeInv
  <2>3. QED
    BY <1>1, <1>6, <2>1, <2>2 DEF PrepareSave
<1>7. CASE VerifyAnswer
  <2>1. /\ op.archive \in Archives /\ op.active = stored[op.archive]
        /\ op.active.intent \in Intents /\ metadata \in {op.archive, NoArchive}
    BY <1>4, <1>7 DEF VerifyAnswer, Holding, IInv, WorkInv
  <2>2. Known(op.active, op.archive)
    BY <1>0, <2>1 DEF RecordsInv, NoActive
  <2>3. ASSUME NEW s \in Statuses,
               s = "confirmed" <=> Phase(op.active.intent) \in {"paid", "activated"},
               SaveRecord(op.archive, [intent |-> op.active.intent, status |-> s]),
               active' = [intent |-> op.active.intent, status |-> s]
        PROVE  RuntimeInv'
    <3>1. PICK r : r = [intent |-> op.active.intent, status |-> s]
      OBVIOUS
    <3>2. Known(r, op.archive) /\ r # NoActive /\ r \in ActiveIntent
      BY <2>1, <2>2, <2>3, <3>1 DEF Known, Paid, NoActive, ActiveIntent
    <3>3. metadata' \in {op.archive, NoArchive}
      BY <1>7, <2>1 DEF VerifyAnswer
    <3>4. QED
      BY <1>2, <2>1, <2>3, <3>1, <3>2, <3>3 DEF SaveRecord
  <2>4. QED
    BY <1>1, <1>3, <1>7, <2>3 DEF VerifyAnswer
<1>8. CASE \/ Close \/ Crash \/ DiscardOrphan \/ PrepareStart \/ ActivateCleanup
           \/ \E a \in Archives : OpenStart(a)
  BY <1>1, <1>8 DEF Close, Crash, DiscardOrphan, PrepareStart, ActivateCleanup, OpenStart
<1>9. ASSUME NEW a \in Archives, CleanupAfterUnlock(a) PROVE RuntimeInv'
  BY <1>1, <1>3, <1>9 DEF CleanupAfterUnlock
<1>10. CASE \/ OpenVerify \/ OpenRestore \/ OpenCommandRefused \/ Expire \/ CheckStart
            \/ PrepareAnswer \/ VerifyStart \/ ActivateStart \/ ActivateAnswer
  BY <1>3, <1>10 DEF OpenVerify, OpenRestore, OpenCommandRefused, Expire, CheckStart,
                     PrepareAnswer, VerifyStart, ActivateStart, ActivateAnswer
<1>11. CASE \/ StoreToken \/ StoreLicence \/ Install \/ RefreshStart \/ RefreshAnswer
            \/ CurrentIdentity
  BY <1>3, <1>11 DEF StoreToken, StoreLicence, Install, RefreshStart, RefreshAnswer,
                     CurrentIdentity
<1>12. CASE \/ UNCHANGED vars
            \/ \E j \in Intents : \/ Pay(j) \/ EndIntent(j) \/ CommitLate(j) \/ LoseLate(j)
                                  \/ LoseSecret(j)
  BY <1>3, <1>12 DEF Pay, EndIntent, CommitLate, LoseLate, LoseSecret, vars
<1>13. QED
  BY <1>5, <1>6, <1>7, <1>8, <1>9, <1>10, <1>11, <1>12
     DEF Next, Command, OpenAndClose, Environment

\* The secret, the record and the runtime's copy of an intent the buyer can pay
\* or has paid are kept.
LEMMA KeptNext == ASSUME IInv, [Next]_vars PROVE KeptInv'
<1> USE DEF durable, runtime, ResetForArchiveSwitch
<1>0. /\ KeptInv /\ TypeOK /\ RecordsInv /\ RuntimeInv /\ BackendInv
      /\ licences \subseteq licences' /\ misdirected \subseteq misdirected'
  BY OnlyGrows DEF IInv
<1> DEFINE Kept(i, a) == /\ i \in secrets'
                         /\ stored'[a].intent = i
                         /\ metadata' = a => active'.intent = i
<1>1. SUFFICES ASSUME NEW i \in Intents, NEW a, a = intent[i].archive, a = intent'[i].archive,
                      Open(i)', a \notin misdirected' \cup licences'
               PROVE  Kept(i, a)
  BY OpenBefore DEF KeptInv
<1>2. CASE ~Open(i)
  <2>1. /\ PrepareSave /\ i = op.active.intent
        /\ stored' = [stored EXCEPT ![op.archive] = op.active] /\ active' = op.active
        /\ UNCHANGED secrets
    BY <1>1, <1>2, OpenBefore
  <2>2. op.cmd = "prepare" /\ op.step = "save"
    BY <2>1 DEF PrepareSave, Holding
  <2>3. PrepareInv /\ CommandInv /\ op # NoOp
    BY <2>2 DEF IInv, NoOp
  <2>4. a = op.archive /\ op.archive \in Archives /\ (i \in secrets \/ a \in misdirected)
    BY <1>1, <2>1, <2>2, <2>3 DEF PrepareInv, CommandInv
  <2>5. QED
    BY <1>0, <1>1, <2>1, <2>4 DEF TypeOK
<1>3. ASSUME Open(i) PROVE Kept(i, a)
  <2>0. /\ i \in secrets /\ stored[a].intent = i /\ (metadata = a => active.intent = i)
        /\ a \in Archives /\ a # NoArchive /\ stored \in [Archives -> ActiveIntent]
        /\ a \notin misdirected \cup licences /\ Known(stored[a], a)
    <3>1. /\ i \in secrets /\ stored[a].intent = i /\ (metadata = a => active.intent = i)
          /\ a \notin misdirected \cup licences
      BY <1>0, <1>1, <1>3 DEF KeptInv
    <3>2. a \in Archives
      BY <1>0, <1>1, <1>3 DEF BackendInv, Open
    <3>3. QED
      BY <1>0, <3>1, <3>2 DEF TypeOK, RecordsInv, NoActive
  <2>1. CASE /\ secrets \subseteq secrets' /\ UNCHANGED stored
             /\ UNCHANGED <<metadata, active>> \/ metadata' = NoArchive
    BY <2>0, <2>1
  <2>2. CASE CheckAnswer
    <3>1. op.archive \in Archives
      BY <2>2 DEF CheckAnswer, Holding, IInv, CommandInv, NoOp
    <3>2. CASE UNCHANGED <<runtime, stored>>
      BY <2>1, <2>2, <3>2 DEF CheckAnswer
    <3>3. CASE a = op.archive
      BY <2>0, <2>2, <3>2, <3>3 DEF CheckAnswer, LoadRecord, Resumable, TakenUp
    <3>4. CASE a # op.archive
      BY <2>0, <2>2, <3>1, <3>2, <3>4 DEF CheckAnswer, LoadRecord, ClearRecord
    <3>5. QED
      BY <3>3, <3>4
  <2>3. CASE DiscardOrphan \/ PrepareStart
    <3>1. active.intent # i /\ metadata # a
      BY <2>0, <2>3 DEF DiscardOrphan, PrepareStart, Resumable, NeedsIntent
    <3>2. active # NoActive => ArchiveOf(active.intent) \in Archives /\ ArchiveOf(active.intent) # a
      BY <1>0, <2>0, <3>1 DEF RuntimeInv
    <3>3. i \in secrets'
      BY <2>0, <2>3, <3>1 DEF DiscardOrphan, PrepareStart, RemoveIntent, DeleteSecret
    <3>4. stored'[a] = stored[a]
      BY <2>0, <2>3, <3>2 DEF DiscardOrphan, PrepareStart, RemoveIntent, ClearRecord
    <3>5. metadata' = metadata
      BY <2>3 DEF DiscardOrphan, PrepareStart
    <3>6. QED
      BY <2>0, <3>1, <3>3, <3>4, <3>5
  <2>4. CASE PrepareSave
    <3>1. /\ a # op.archive /\ metadata # a /\ i # op.active.intent
          /\ op.archive \in Archives
      <4>1. op.cmd = "prepare" /\ op.step = "save"
        BY <2>4 DEF PrepareSave, Holding
      <4>2. PrepareInv /\ CommandInv /\ op # NoOp
        BY <4>1 DEF IInv, NoOp
      <4>3. /\ op.archive \in Archives /\ metadata \in {op.archive, NoArchive}
            /\ ArchiveOf(i) = op.archive => op.archive \in misdirected \cup licences
            /\ Phase(op.active.intent) = "created"
        BY <1>3, <4>1, <4>2 DEF PrepareInv, CommandInv
      <4>4. QED
        BY <1>1, <1>3, <2>0, <4>3 DEF Open
    <3>2. i \in secrets' /\ stored'[a] = stored[a] /\ metadata' = metadata
      BY <2>0, <2>4, <3>1 DEF PrepareSave, DeleteSecret, SaveRecord
    <3>3. QED
      BY <2>0, <3>1, <3>2
  <2>5. CASE VerifyAnswer
    <3>1. /\ op.archive \in Archives /\ stored[op.archive] = op.active
          /\ metadata \in {op.archive, NoArchive} /\ metadata' = metadata
      BY <2>5 DEF VerifyAnswer, Holding, IInv, WorkInv, CommandInv, NoOp
    <3>2. ASSUME NEW s \in Statuses,
                 SaveRecord(op.archive, [intent |-> op.active.intent, status |-> s]),
                 active' = [intent |-> op.active.intent, status |-> s], UNCHANGED secrets
          PROVE  Kept(i, a)
      BY <2>0, <3>1, <3>2 DEF SaveRecord
    <3>3. CASE /\ active' = NoActive /\ RemoveIntent(op.active, op.archive)
               /\ Phase(op.active.intent) = "ended"
      <4>1. op.active.intent # i /\ op.archive # a
        BY <1>3, <2>0, <3>1, <3>3 DEF Open
      <4>2. QED
        BY <2>0, <3>1, <3>3, <4>1 DEF RemoveIntent, DeleteSecret, ClearRecord
    <3>4. CASE UNCHANGED <<active, stored, secrets>>
      BY <2>0, <3>1, <3>4
    <3>5. \A code \in VerifyErrors(op.active.intent) :
             code \in IntentEnded => Phase(op.active.intent) = "ended"
      BY DEF VerifyErrors, IntentEnded, Mishaps, Retryable
    <3>6. QED
      BY <2>5, <3>2, <3>3, <3>4, <3>5 DEF VerifyAnswer
  <2>6. CASE ActivateCleanup
    <3>1. /\ op.archive \in licences /\ op.archive \in Archives
          /\ metadata \in {op.archive, NoArchive} /\ metadata' = metadata
          /\ Phase(op.active.intent) = "activated"
      BY <2>6 DEF ActivateCleanup, Holding, IInv, WorkInv, CommandInv, LicencesInv, NoOp
    <3>2. op.active.intent # i /\ op.archive # a
      BY <1>3, <2>0, <3>1 DEF Open
    <3>3. QED
      BY <2>0, <2>6, <3>1, <3>2 DEF ActivateCleanup, RemoveIntent, DeleteSecret, ClearRecord
  <2>7. ASSUME NEW b \in Archives, CleanupAfterUnlock(b) PROVE Kept(i, a)
    <3>1. CASE stored[b].status # "confirmed"
      BY <2>1, <2>7, <3>1 DEF CleanupAfterUnlock, LoadRecord
    <3>2. CASE stored[b].status = "confirmed"
      <4>1. /\ RemoveIntent(stored[b], b) /\ UNCHANGED metadata
            /\ misdirected' = misdirected \cup ({b} \ licences) \cup Forgotten(b)
        BY <2>7, <3>2 DEF CleanupAfterUnlock, LoadRecord
      <4>2. a # b
        BY <1>0, <1>1, <4>1
      <4>3. Known(stored[b], b)
        BY <1>0, <3>2 DEF RecordsInv, NoActive
      <4>4. metadata # a
        BY <1>1, <2>0, <4>1, <4>2 DEF Forgotten
      <4>5. QED
        BY <1>1, <2>0, <4>1, <4>2, <4>3, <4>4 DEF RemoveIntent, DeleteSecret, ClearRecord, Known
    <3>3. QED
      BY <3>1, <3>2
  <2>8. ASSUME NEW j \in Intents, LoseSecret(j) PROVE Kept(i, a)
    <3>1. i # j
      BY <1>1, <2>8 DEF LoseSecret
    <3>2. QED
      BY <2>0, <2>8, <3>1 DEF LoseSecret, DeleteSecret
  <2>9. CASE PrepareAnswer
    BY <2>1, <2>9 DEF PrepareAnswer, WriteSecret
  <2>10. CASE Close \/ Crash \/ \E b \in Archives : OpenStart(b)
    BY <2>1, <2>10 DEF Close, Crash, OpenStart
  <2>11. CASE \/ OpenVerify \/ OpenRestore \/ OpenCommandRefused \/ Expire \/ CheckStart
              \/ VerifyStart \/ ActivateStart \/ ActivateAnswer
    BY <2>1, <2>11 DEF OpenVerify, OpenRestore, OpenCommandRefused, Expire, CheckStart,
                       VerifyStart, ActivateStart, ActivateAnswer
  <2>12. CASE \/ StoreToken \/ StoreLicence \/ Install \/ RefreshStart \/ RefreshAnswer
              \/ CurrentIdentity
    BY <2>1, <2>12 DEF StoreToken, StoreLicence, Install, RefreshStart, RefreshAnswer,
                       CurrentIdentity
  <2>13. CASE \/ UNCHANGED vars
              \/ \E j \in Intents : Pay(j) \/ EndIntent(j) \/ CommitLate(j) \/ LoseLate(j)
    BY <2>1, <2>13 DEF Pay, EndIntent, CommitLate, LoseLate, vars
  <2>14. QED
    BY <2>2, <2>3, <2>4, <2>5, <2>6, <2>7, <2>8, <2>9, <2>10, <2>11, <2>12, <2>13
       DEF Next, Command, OpenAndClose, Environment
<1>4. QED
  BY <1>2, <1>3

(***************************************************************************)
(* The operation lock                                                      *)
(***************************************************************************)

\* A step beside the operation lock: the runtime may be emptied, a secret of a
\* marked archive be lost, and a late activation overtake the command.
Beside ==
    /\ op'.cmd = op.cmd /\ op'.step = op.step /\ op'.archive = op.archive
    /\ op'.active = op.active
    /\ stored' = stored /\ licences' = licences
    /\ (metadata' = metadata /\ active' = active) \/ (metadata' = NoArchive /\ active' = NoActive)
    /\ \A j \in secrets : j \in secrets' \/ intent[j].archive \in misdirected'
    /\ \/ op'.fresh = op.fresh /\ token' = token /\ spoiled' = spoiled
       \/ \E i \in Intents : CommitLate(i)

\* The command under the lock begins, goes on, ends, or is left alone.
LEMMA LockedOrBeside ==
    ASSUME IInv, [Next]_vars
    PROVE  \/ op' = NoOp \/ Beside
           \/ CheckStart \/ PrepareStart \/ VerifyStart \/ ActivateStart \/ RefreshStart
           \/ PrepareAnswer \/ ActivateAnswer \/ StoreToken \/ StoreLicence \/ Install
           \/ RefreshAnswer
<1> USE DEF durable, runtime, backend, marks, ResetForArchiveSwitch
<1>0. TypeOK
  BY DEF IInv
<1>1. ASSUME op' = op, stored' = stored, licences' = licences, token' = token,
             spoiled' = spoiled, secrets' = secrets,
             (metadata' = metadata /\ active' = active) \/ (metadata' = NoArchive /\ active' = NoActive)
      PROVE  Beside
  BY <1>1 DEF Beside
<1>2. CASE \/ OpenVerify \/ OpenRestore \/ OpenCommandRefused \/ Close \/ Expire
           \/ \E a \in Archives : OpenStart(a)
  <2>1. /\ op' = op /\ stored' = stored /\ licences' = licences /\ token' = token
        /\ spoiled' = spoiled /\ secrets' = secrets
        /\ (metadata' = metadata /\ active' = active) \/ (metadata' = NoArchive /\ active' = NoActive)
    BY <1>2 DEF OpenVerify, OpenRestore, OpenCommandRefused, Close, Expire, OpenStart
  <2>2. QED
    BY <1>1, <2>1
<1>3. CASE \/ UNCHANGED vars \/ CurrentIdentity
           \/ \E i \in Intents : Pay(i) \/ EndIntent(i) \/ LoseLate(i)
  <2>1. /\ op' = op /\ stored' = stored /\ licences' = licences /\ token' = token
        /\ spoiled' = spoiled /\ secrets' = secrets /\ metadata' = metadata /\ active' = active
    BY <1>3 DEF CurrentIdentity, Pay, EndIntent, LoseLate, vars
  <2>2. QED
    BY <1>1, <2>1
<1>4. CASE CheckAnswer \/ PrepareSave \/ VerifyAnswer \/ ActivateCleanup \/ Crash
  BY <1>4 DEF CheckAnswer, PrepareSave, VerifyAnswer, ActivateCleanup, Crash,
              EndCommand, EndUnlocked
<1>5. CASE DiscardOrphan \/ \E a \in Archives : CleanupAfterUnlock(a)
  BY <1>5 DEF DiscardOrphan, CleanupAfterUnlock
<1>6. ASSUME NEW i \in Intents, LoseSecret(i) PROVE Beside
  <2>1. \A j \in secrets : j \in secrets' \/ intent[j].archive \in misdirected'
    BY <1>6 DEF LoseSecret, DeleteSecret
  <2>2. /\ op' = op /\ stored' = stored /\ licences' = licences /\ token' = token
        /\ spoiled' = spoiled /\ metadata' = metadata /\ active' = active
    BY <1>6 DEF LoseSecret
  <2>3. QED
    BY <2>1, <2>2 DEF Beside
<1>7. ASSUME NEW i \in Intents, CommitLate(i) PROVE Beside
  <2>1. /\ op'.cmd = op.cmd /\ op'.step = op.step /\ op'.archive = op.archive
        /\ op'.active = op.active
    <3>1. op \in Operation /\ op.step \in Steps /\ op.active \in ActiveIntent
      BY <1>0 DEF TypeOK, Operation
    <3>2. CASE Pass(op.step, op.active, FALSE)
      BY <3>1, <3>2, OpPass
    <3>3. QED
      BY <1>7, <3>2 DEF CommitLate
  <2>2. /\ stored' = stored /\ licences' = licences /\ secrets' = secrets
        /\ metadata' = metadata /\ active' = active
    BY <1>7 DEF CommitLate
  <2>3. QED
    BY <1>7, <2>1, <2>2 DEF Beside
<1>8. QED
  BY <1>2, <1>3, <1>4, <1>5, <1>6, <1>7 DEF Next, Command, OpenAndClose, Environment

\* The operation of a command that begins.
LEMMA Begun ==
    ASSUME IInv, CheckStart \/ PrepareStart \/ VerifyStart \/ ActivateStart \/ RefreshStart
    PROVE  /\ op'.step = "answer" /\ op'.archive \in Archives
           /\ \/ CheckStart /\ op'.cmd = "check"
              \/ PrepareStart /\ op'.cmd = "prepare" /\ op'.archive = session.archive
              \/ VerifyStart /\ op'.cmd = "verify" /\ op'.archive = ArchiveOf(active.intent)
                             /\ op'.active = active
              \/ ActivateStart /\ op'.cmd = "activate" /\ op'.active = active
              \/ RefreshStart /\ op'.cmd = "refresh" /\ op'.archive = session.archive
<1>0. TypeOK /\ RuntimeInv
  BY DEF IInv
<1>1. session.archive # NoArchive => session.archive \in Archives
  BY <1>0 DEF TypeOK
<1>2. CASE CheckStart
  BY <1>1, <1>2 DEF CheckStart, Take
<1>3. CASE PrepareStart
  BY <1>1, <1>3 DEF PrepareStart, Take
<1>4. CASE VerifyStart
  BY <1>0, <1>4 DEF VerifyStart, Take, RuntimeInv
<1>5. CASE ActivateStart
  BY <1>1, <1>5 DEF ActivateStart, Take
<1>6. CASE RefreshStart
  BY <1>1, <1>6 DEF RefreshStart, Take
<1>7. QED
  BY <1>2, <1>3, <1>4, <1>5, <1>6

\* The operation of a command that goes on.
LEMMA GoesOn ==
    ASSUME IInv, op' # NoOp,
           \/ PrepareAnswer \/ ActivateAnswer \/ StoreToken \/ StoreLicence \/ Install
           \/ RefreshAnswer
    PROVE  /\ op'.cmd = op.cmd /\ op'.archive = op.archive /\ op.archive \in Archives
           /\ \/ /\ PrepareAnswer
                 /\ op.cmd = "prepare" /\ op.step = "answer" /\ op'.step = "save"
              \/ /\ ActivateAnswer /\ Activated(op.active.intent)
                 /\ op.cmd = "activate" /\ op.step = "answer" /\ op'.step = "token"
                 /\ op'.active = op.active /\ op'.fresh
                 /\ ArchiveOf(op.active.intent) = op.archive
              \/ /\ StoreToken
                 /\ op.cmd = "activate" /\ op.step = "token" /\ op'.step = "licence"
                 /\ op'.active = op.active
                 /\ token' = [token EXCEPT ![op.archive] = IF op.fresh THEN "current" ELSE "stale"]
                 /\ spoiled' = IF op.fresh THEN spoiled \ {op.archive} ELSE spoiled
              \/ /\ StoreLicence /\ licences' = licences \cup {op.archive}
                 /\ op.cmd \in {"activate", "refresh"}
                 /\ op.step = "licence" /\ op'.step = "install"
                 /\ op'.active = op.active
              \/ /\ Install
                 /\ op.cmd = "activate" /\ op.step = "install" /\ op'.step = "cleanup"
                 /\ op'.active = op.active
              \/ /\ RefreshAnswer
                 /\ op.cmd = "refresh" /\ op.step = "answer" /\ op'.step = "licence"
<1>0. op \in Operation /\ op.active \in ActiveIntent /\ op.fresh \in BOOLEAN
  BY DEF IInv, TypeOK, Operation
<1>1. op.archive \in Archives
  <2>1. op # NoOp
    <3>1. CASE PrepareAnswer
      BY <3>1 DEF PrepareAnswer, Holding, NoOp
    <3>2. CASE ActivateAnswer
      BY <3>2 DEF ActivateAnswer, Holding, NoOp
    <3>3. CASE StoreToken
      BY <3>3 DEF StoreToken, Holding, NoOp
    <3>4. CASE StoreLicence
      BY <3>4 DEF StoreLicence, NoOp
    <3>5. CASE Install
      BY <3>5 DEF Install, NoOp
    <3>6. CASE RefreshAnswer
      BY <3>6 DEF RefreshAnswer, Holding, NoOp
    <3>7. QED
      BY <3>1, <3>2, <3>3, <3>4, <3>5, <3>6
  <2>2. QED
    BY <2>1 DEF IInv, CommandInv
<1>2. ~EndCommand /\ ~EndUnlocked
  BY DEF EndCommand, EndUnlocked
<1>3. CASE PrepareAnswer
  <2>1. PICK i \in Intents : Pass("save", [intent |-> i, status |-> "open"], FALSE)
    BY <1>2, <1>3 DEF PrepareAnswer
  <2>2. [intent |-> i, status |-> "open"] \in ActiveIntent
    BY DEF ActiveIntent, Statuses
  <2>3. op'.cmd = op.cmd /\ op'.archive = op.archive /\ op'.step = "save"
    BY <1>0, <2>1, <2>2, OpPass DEF Steps
  <2>4. QED
    BY <1>1, <1>3, <2>3 DEF PrepareAnswer, Holding
<1>4. CASE ActivateAnswer
  <2>1. /\ Holding("activate", "answer") /\ Activated(op.active.intent)
        /\ GrantAccepted(op.active.intent) /\ Pass("token", op.active, TRUE)
    BY <1>2, <1>4 DEF ActivateAnswer
  <2>2. /\ op'.cmd = op.cmd /\ op'.archive = op.archive /\ op'.step = "token"
        /\ op'.active = op.active /\ op'.fresh = TRUE
    BY <1>0, <2>1, OpPass DEF Steps
  <2>3. QED
    BY <1>1, <1>4, <2>1, <2>2 DEF Holding, GrantAccepted
<1>5. CASE StoreToken
  <2>1. Advance("licence")
    BY <1>2, <1>5 DEF StoreToken
  <2>2. /\ op'.cmd = op.cmd /\ op'.archive = op.archive /\ op'.step = "licence"
        /\ op'.active = op.active
    BY <1>0, <2>1, OpAdvance DEF Steps
  <2>3. QED
    BY <1>1, <1>2, <1>5, <2>2 DEF StoreToken, Holding
<1>6. CASE StoreLicence
  <2>1. Advance("install") /\ SaveLicence(op.archive)
    BY <1>2, <1>6 DEF StoreLicence
  <2>2. /\ op'.cmd = op.cmd /\ op'.archive = op.archive /\ op'.step = "install"
        /\ op'.active = op.active
    BY <1>0, <2>1, OpAdvance DEF Steps
  <2>3. QED
    BY <1>1, <1>6, <2>1, <2>2 DEF StoreLicence, SaveLicence
<1>7. CASE Install
  <2>1. Advance("cleanup") /\ op.cmd = "activate"
    BY <1>2, <1>7 DEF Install
  <2>2. /\ op'.cmd = op.cmd /\ op'.archive = op.archive /\ op'.step = "cleanup"
        /\ op'.active = op.active
    BY <1>0, <2>1, OpAdvance DEF Steps
  <2>3. QED
    BY <1>1, <1>7, <2>1, <2>2 DEF Install
<1>8. CASE RefreshAnswer
  <2>1. Advance("licence")
    BY <1>2, <1>8 DEF RefreshAnswer
  <2>2. op'.cmd = op.cmd /\ op'.archive = op.archive /\ op'.step = "licence"
    BY <1>0, <2>1, OpAdvance DEF Steps
  <2>3. QED
    BY <1>1, <1>8, <2>2 DEF RefreshAnswer, Holding
<1>9. QED
  BY <1>3, <1>4, <1>5, <1>6, <1>7, <1>8

\* The steps of every command follow one another.
LEMMA CommandNext == ASSUME IInv, [Next]_vars PROVE CommandInv'
<1>0. CommandInv /\ (op'.cmd = "none" => op' = NoOp)
  BY TypeNext DEF IInv, TypeOK
<1>1. CASE op' = NoOp
  BY <1>1 DEF CommandInv, NoOp
<1>2. CASE Beside /\ op' # NoOp
  <2>1. op # NoOp
    BY <1>0, <1>2 DEF Beside, NoOp
  <2>2. QED
    BY <1>0, <1>2, <2>1 DEF Beside, CommandInv
<1>3. CASE CheckStart \/ PrepareStart \/ VerifyStart \/ ActivateStart \/ RefreshStart
  BY <1>3, Begun DEF CommandInv
<1>4. CASE /\ op' # NoOp
           /\ \/ PrepareAnswer \/ ActivateAnswer \/ StoreToken \/ StoreLicence \/ Install
              \/ RefreshAnswer
  BY <1>4, GoesOn DEF CommandInv
<1>5. QED
  BY <1>1, <1>2, <1>3, <1>4, LockedOrBeside

\* While an intent is prepared there is no other, also after the step.
LEMMA PrepareNext == ASSUME IInv, [Next]_vars PROVE PrepareInv'
<1>0. /\ PrepareInv /\ KeptInv /\ BackendInv /\ TypeOK
      /\ licences \subseteq licences' /\ misdirected \subseteq misdirected'
      /\ \A i \in Intents : Moved(i)
  BY OnlyGrows, IntentsMove DEF IInv
<1>1. CASE op' = NoOp
  BY <1>1 DEF PrepareInv, NoOp
<1>2. CASE Beside /\ op'.cmd = "prepare"
  <2>1. ~PrepareSave /\ ~PrepareAnswer
    <3>1. CASE op' = NoOp
      BY <1>2, <3>1 DEF NoOp
    <3>2. CASE op' # NoOp
      BY <1>2, <3>2, GoesOn DEF PrepareSave, EndCommand, Beside
    <3>3. QED
      BY <3>1, <3>2
  <2>2. op.cmd = "prepare" /\ op'.step = op.step /\ op'.archive = op.archive
        /\ op'.active = op.active
    BY <1>2 DEF Beside
  <2>3. active' = NoActive /\ metadata' \in {op.archive, NoArchive}
    BY <1>0, <1>2, <2>2 DEF PrepareInv, Beside
  <2>4. \A i \in Intents : Open(i)' => Open(i) /\ intent'[i].archive = intent[i].archive
    BY <1>0, <2>1 DEF Moved, Open, Paid
  <2>5. \A i \in Intents : Open(i)' /\ intent'[i].archive = op.archive =>
           op.archive \in misdirected' \cup licences'
    BY <1>0, <2>2, <2>4 DEF PrepareInv
  <2>6. CASE op.step = "save"
    <3>1. PICK i : i = op.active.intent
      OBVIOUS
    <3>2. /\ i \in Intents /\ op.active.status = "open"
          /\ intent[i].archive = op.archive /\ intent[i].phase = "created"
          /\ i \in secrets \/ op.archive \in misdirected
      BY <1>0, <2>2, <2>6, <3>1 DEF PrepareInv
    <3>3. intent'[i].archive = op.archive /\ intent'[i].phase = "created"
      BY <1>0, <2>1, <3>2 DEF Moved, Paid
    <3>4. i \in secrets' \/ op.archive \in misdirected'
      BY <1>0, <1>2, <3>2 DEF Beside
    <3>5. QED
      BY <2>2, <2>3, <2>5, <3>1, <3>2, <3>3, <3>4 DEF PrepareInv
  <2>7. CASE op.step # "save"
    BY <2>2, <2>3, <2>5, <2>7 DEF PrepareInv
  <2>8. QED
    BY <2>6, <2>7
<1>3. CASE CheckStart \/ PrepareStart \/ VerifyStart \/ ActivateStart \/ RefreshStart
  <2>1. CASE op'.cmd # "prepare"
    BY <2>1 DEF PrepareInv
  <2>2. CASE PrepareStart /\ op'.archive = session.archive /\ op'.step = "answer"
    <3>1. UNCHANGED <<intent, secrets, misdirected, licences, metadata>> /\ active' = NoActive
          /\ metadata = session.archive /\ ~Resumable(active)
      BY <2>2 DEF PrepareStart, NeedsIntent, marks, backend
    <3>2. \A i \in Intents : Open(i) /\ intent[i].archive = session.archive =>
             session.archive \in misdirected \cup licences
      BY <1>0, <3>1 DEF KeptInv, Resumable
    <3>3. QED
      BY <2>2, <3>1, <3>2 DEF PrepareInv, Open
  <2>3. QED
    BY <1>3, <2>1, <2>2, Begun
<1>4. CASE /\ op' # NoOp
           /\ \/ PrepareAnswer \/ ActivateAnswer \/ StoreToken \/ StoreLicence \/ Install
              \/ RefreshAnswer
  <2>1. CASE op'.cmd # "prepare"
    BY <2>1 DEF PrepareInv
  <2>2. CASE PrepareAnswer /\ op.cmd = "prepare" /\ op'.archive = op.archive
    <3>1. PICK i \in Intents :
             /\ Phase(i) = "unused"
             /\ intent' = [intent EXCEPT ![i] = [archive |-> op.archive, phase |-> "created"]]
             /\ WriteSecret(i)
             /\ Pass("save", [intent |-> i, status |-> "open"], FALSE)
      BY <1>4, <2>2 DEF PrepareAnswer, EndCommand
    <3>2. op'.active = [intent |-> i, status |-> "open"]
      BY <1>0, <3>1, OpPass DEF TypeOK, ActiveIntent, Statuses, Steps
    <3>3. /\ intent'[i].archive = op.archive /\ intent'[i].phase = "created"
          /\ \A j \in Intents : j # i => intent'[j] = intent[j]
      BY <1>0, <3>1 DEF TypeOK
    <3>4. \A j \in Intents : Open(j)' /\ intent'[j].archive = op.archive =>
             op.archive \in misdirected' \cup licences'
      BY <1>0, <2>2, <3>3 DEF PrepareInv, Open
    <3>5. active' = NoActive /\ metadata' \in {op.archive, NoArchive}
      BY <1>0, <2>2 DEF PrepareAnswer, PrepareInv, runtime
    <3>6. QED
      BY <2>2, <3>1, <3>2, <3>3, <3>4, <3>5 DEF PrepareInv, WriteSecret
  <2>3. QED
    BY <1>4, <2>1, <2>2, GoesOn
<1>5. CASE Beside /\ op'.cmd # "prepare"
  BY <1>5 DEF PrepareInv
<1>6. QED
  BY <1>1, <1>2, <1>3, <1>4, <1>5, LockedOrBeside

\* What an activation that reaches the backend late does to the tokens.
LEMMA LateActivation ==
    ASSUME IInv, NEW i \in Intents, CommitLate(i)
    PROVE  /\ spoiled \subseteq spoiled'
           /\ \A a \in Archives : token[a] = "current" => token'[a] = "current" \/ a \in spoiled'
           /\ op.fresh /\ op.archive \in Archives => op'.fresh \/ op.archive \in spoiled'
<1>0. op \in Operation /\ op.step \in Steps /\ op.active \in ActiveIntent
      /\ token \in [Archives -> Tokens]
  BY DEF IInv, TypeOK, Operation
<1>1. spoiled' = Overtaken(i) /\ token' = Rotated(ArchiveOf(i))
  BY DEF CommitLate
<1>2. CASE op.archive = ArchiveOf(i)
  BY <1>0, <1>1, <1>2 DEF Overtaken, Rotated
<1>3. CASE op.archive # ArchiveOf(i)
  <2>1. op' = op
    BY <1>3 DEF CommitLate
  <2>2. QED
    BY <1>0, <1>1, <2>1 DEF Overtaken, Rotated
<1>4. QED
  BY <1>2, <1>3

\* The record a command works with stays as it is, also after the step.
LEMMA WorkNext == ASSUME IInv, [Next]_vars PROVE WorkInv'
<1>0. /\ WorkInv /\ CommandInv /\ RuntimeInv /\ RecordsInv /\ TypeOK
      /\ \A i \in Intents : Moved(i)
  BY IntentsMove DEF IInv
<1>1. CASE op' = NoOp
  BY <1>1 DEF WorkInv, NoOp
<1>2. ASSUME NEW i \in Intents
      PROVE  /\ Paid(i) => Paid(i)' /\ intent'[i].archive = intent[i].archive
             /\ Phase(i) = "activated" => intent'[i].phase = "activated"
             /\ Phase(i) # "unused" => intent'[i].archive = intent[i].archive
  BY <1>0 DEF Moved, Paid
<1>3. CASE Beside /\ op' # NoOp /\ op'.cmd \in {"verify", "activate"}
  <2>1. PICK i : i = op.active.intent
    OBVIOUS
  <2>2. /\ op.cmd \in {"verify", "activate"} /\ op'.cmd = op.cmd /\ op'.step = op.step
        /\ op'.archive = op.archive /\ op'.active = op.active /\ op # NoOp
    BY <1>3 DEF Beside, NoOp
  <2>3. /\ i \in Intents /\ intent[i].archive \in Archives
        /\ stored[intent[i].archive] = op.active
        /\ metadata \in {intent[i].archive, NoArchive} /\ op.archive \in Archives
    BY <1>0, <2>1, <2>2 DEF WorkInv, CommandInv
  <2>4. Phase(i) # "unused"
    BY <1>0, <2>1, <2>3 DEF RecordsInv, Known, NoActive
  <2>5. /\ intent'[i].archive = intent[i].archive
        /\ stored' = stored /\ metadata' \in {intent[i].archive, NoArchive}
    BY <1>2, <1>3, <2>3, <2>4 DEF Beside
  <2>6. CASE op.cmd = "verify"
    BY <1>0, <2>1, <2>2, <2>3, <2>5, <2>6 DEF WorkInv
  <2>7. CASE op.cmd = "activate"
    <3>1. /\ Paid(i)
          /\ op.step # "answer" => op.archive = intent[i].archive /\ Phase(i) = "activated"
          /\ op.step = "token" => op.fresh \/ op.archive \in spoiled
          /\ op.step \in {"licence", "install", "cleanup"} =>
                 token[op.archive] = "current" \/ op.archive \in spoiled
      BY <1>0, <2>1, <2>7 DEF WorkInv
    <3>2. /\ Paid(i)'
          /\ op.step # "answer" => op.archive = intent'[i].archive /\ intent'[i].phase = "activated"
      BY <1>2, <2>3, <2>5, <3>1
    <3>3. /\ op.step = "token" => op'.fresh \/ op.archive \in spoiled'
          /\ op.step \in {"licence", "install", "cleanup"} =>
                 token'[op.archive] = "current" \/ op.archive \in spoiled'
      <4>1. CASE op'.fresh = op.fresh /\ token' = token /\ spoiled' = spoiled
        BY <3>1, <4>1
      <4>2. ASSUME NEW j \in Intents, CommitLate(j)
            PROVE  /\ op.step = "token" => op'.fresh \/ op.archive \in spoiled'
                   /\ op.step \in {"licence", "install", "cleanup"} =>
                          token'[op.archive] = "current" \/ op.archive \in spoiled'
        <5>1. /\ spoiled \subseteq spoiled'
              /\ token[op.archive] = "current" =>
                     token'[op.archive] = "current" \/ op.archive \in spoiled'
              /\ op.fresh => op'.fresh \/ op.archive \in spoiled'
          BY <2>3, <4>2, LateActivation
        <5>2. QED
          BY <3>1, <5>1
      <4>3. QED
        BY <1>3, <4>1, <4>2 DEF Beside
    <3>4. QED
      BY <2>1, <2>2, <2>3, <2>5, <2>7, <3>2, <3>3 DEF WorkInv
  <2>8. QED
    BY <2>2, <2>6, <2>7
<1>4. CASE Beside /\ op'.cmd \notin {"verify", "activate"}
  BY <1>4 DEF WorkInv
<1>5. CASE CheckStart \/ PrepareStart \/ VerifyStart \/ ActivateStart \/ RefreshStart
  <2>1. CASE op'.cmd \notin {"verify", "activate"}
    BY <2>1 DEF WorkInv
  <2>2. CASE VerifyStart \/ ActivateStart
    <3>1. /\ UNCHANGED <<intent, stored, metadata>> /\ active # NoActive
          /\ op'.active = active /\ op'.step = "answer"
          /\ op'.cmd = "verify" => op'.archive = ArchiveOf(active.intent)
          /\ op'.cmd = "activate" => active.status = "confirmed"
      BY <2>2, Begun DEF VerifyStart, ActivateStart, Take, backend, durable, runtime
    <3>2. /\ active.intent \in Intents /\ ArchiveOf(active.intent) \in Archives
          /\ stored[ArchiveOf(active.intent)] = active
          /\ metadata \in {ArchiveOf(active.intent), NoArchive}
      BY <1>0, <3>1 DEF RuntimeInv
    <3>3. active.status = "confirmed" => Paid(active.intent)
      BY <1>0, <3>1, <3>2 DEF RecordsInv, Known
    <3>4. QED
      BY <3>1, <3>2, <3>3 DEF WorkInv, Paid
  <2>3. QED
    BY <1>5, <2>1, <2>2, Begun
<1>6. CASE /\ op' # NoOp
           /\ \/ PrepareAnswer \/ ActivateAnswer \/ StoreToken \/ StoreLicence \/ Install
              \/ RefreshAnswer
  <2>1. CASE op'.cmd \notin {"verify", "activate"}
    BY <2>1 DEF WorkInv
  <2>2. CASE /\ op.cmd = "activate" /\ op'.cmd = "activate" /\ op'.archive = op.archive
             /\ op'.active = op.active /\ op.archive \in Archives
             /\ ActivateAnswer \/ StoreToken \/ StoreLicence \/ Install
    <3>1. PICK i : i = op.active.intent
      OBVIOUS
    <3>2. /\ i \in Intents /\ intent[i].archive \in Archives
          /\ stored[intent[i].archive] = op.active
          /\ metadata \in {intent[i].archive, NoArchive}
          /\ Paid(i)
          /\ op.step # "answer" => op.archive = intent[i].archive /\ Phase(i) = "activated"
      BY <1>0, <2>2, <3>1 DEF WorkInv
    <3>3. UNCHANGED <<stored, metadata>> /\ intent'[i].archive = intent[i].archive /\ Paid(i)'
      BY <1>2, <2>2, <3>2 DEF ActivateAnswer, StoreToken, StoreLicence, Install, durable, runtime
    <3>4. CASE /\ ActivateAnswer /\ Activated(i) /\ op'.step = "token" /\ op'.fresh
               /\ ArchiveOf(i) = op.archive
      <4>1. intent'[i].phase = "activated"
        BY <1>0, <3>2, <3>4, BackendBecomes DEF Activated, Phases, TypeOK
      <4>2. QED
        BY <2>2, <3>1, <3>2, <3>3, <3>4, <4>1 DEF WorkInv
    <3>5. CASE /\ StoreToken /\ op.step = "token" /\ op'.step = "licence"
               /\ token' = [token EXCEPT ![op.archive] = IF op.fresh THEN "current" ELSE "stale"]
               /\ spoiled' = IF op.fresh THEN spoiled \ {op.archive} ELSE spoiled
      <4>1. op.fresh \/ op.archive \in spoiled
        BY <1>0, <2>2, <3>5 DEF WorkInv
      <4>2. token'[op.archive] = "current" \/ op.archive \in spoiled'
        BY <1>0, <2>2, <3>5, <4>1 DEF TypeOK
      <4>3. intent'[i].phase = "activated"
        BY <1>2, <3>2, <3>5
      <4>4. QED
        BY <2>2, <3>1, <3>2, <3>3, <3>5, <4>2, <4>3 DEF WorkInv
    <3>6. CASE /\ StoreLicence \/ Install
               /\ op.step \in {"licence", "install"} /\ op'.step \in {"install", "cleanup"}
      <4>1. token[op.archive] = "current" \/ op.archive \in spoiled
        BY <1>0, <2>2, <3>6 DEF WorkInv
      <4>2. UNCHANGED <<token, spoiled>>
        BY <3>6 DEF StoreLicence, Install, durable, marks
      <4>3. intent'[i].phase = "activated"
        BY <1>2, <3>2, <3>6
      <4>4. QED
        BY <2>2, <3>1, <3>2, <3>3, <3>6, <4>1, <4>2, <4>3 DEF WorkInv
    <3>7. QED
      BY <1>6, <2>2, <3>1, <3>4, <3>5, <3>6, GoesOn
  <2>3. QED
    BY <1>6, <2>1, <2>2, GoesOn
<1>7. QED
  BY <1>1, <1>3, <1>4, <1>5, <1>6, LockedOrBeside

(***************************************************************************)
(* Licences and tokens                                                     *)
(***************************************************************************)

\* Only a stored licence adds one, and only a licence opens the session.
LEMMA LicencesMove ==
    ASSUME IInv, [Next]_vars
    PROVE  /\ licences' = licences \/ StoreLicence
           /\ \/ session' = session \/ ~session'.open \/ session'.archive \in licences
              \/ session'.archive = session.archive /\ (session'.open => session.open)
<1> USE DEF durable
<1>1. CASE Install
  <2>1. op.archive \in licences /\ licences' = licences
    BY <1>1 DEF Install, IInv, LicencesInv
  <2>2. session' = session \/ session' = Unwrapped(op.archive)
    BY <1>1 DEF Install
  <2>3. QED
    BY <2>1, <2>2 DEF Unwrapped
<1>2. CASE OpenRestore
  BY <1>2 DEF OpenRestore, Unwrapped
<1>3. CASE RefreshAnswer
  <2>1. licences' = licences
    BY <1>3 DEF RefreshAnswer
  <2>2. CASE UNCHANGED session
    BY <2>1, <2>2
  <2>3. ASSUME NEW code, session' = [archive |-> session.archive,
                                     open |-> session.open /\ code \in Retryable]
        PROVE  session'.archive = session.archive /\ (session'.open => session.open)
    BY <2>3, Zenon
  <2>4. QED
    BY <1>3, <2>1, <2>2, <2>3 DEF RefreshAnswer
<1>4. CASE \/ OpenVerify \/ OpenCommandRefused \/ Close \/ Expire
           \/ \E a \in Archives : OpenStart(a)
  BY <1>4 DEF OpenVerify, OpenCommandRefused, Close, Expire, OpenStart, Empty, Locked
<1>5. CASE \/ CheckStart \/ CheckAnswer \/ DiscardOrphan \/ PrepareStart \/ PrepareAnswer
           \/ PrepareSave \/ VerifyStart \/ VerifyAnswer
  BY <1>5 DEF CheckStart, CheckAnswer, DiscardOrphan, PrepareStart, PrepareAnswer, PrepareSave,
              VerifyStart, VerifyAnswer
<1>6. CASE \/ ActivateStart \/ ActivateAnswer \/ StoreToken \/ StoreLicence \/ ActivateCleanup
           \/ RefreshStart \/ CurrentIdentity
  BY <1>6 DEF ActivateStart, ActivateAnswer, StoreToken, StoreLicence, ActivateCleanup,
              RefreshStart, CurrentIdentity
<1>7. CASE Crash \/ UNCHANGED vars
  BY <1>7 DEF Crash, Empty, vars
<1>8. ASSUME NEW i \in Intents, Pay(i) \/ EndIntent(i) \/ CommitLate(i) \/ LoseLate(i)
                               \/ LoseSecret(i)
      PROVE  licences' = licences /\ session' = session
  BY <1>8 DEF Pay, EndIntent, CommitLate, LoseLate, LoseSecret
<1>9. ASSUME NEW a \in Archives, CleanupAfterUnlock(a)
      PROVE  licences' = licences /\ session' = session
  BY <1>9 DEF CleanupAfterUnlock
<1>10. QED
  BY <1>1, <1>2, <1>3, <1>4, <1>5, <1>6, <1>7, <1>8, <1>9
     DEF Next, Command, OpenAndClose, Environment

\* Behind a licence there is an activated intent, also after the step.
LEMMA LicencesNext == ASSUME IInv, [Next]_vars PROVE LicencesInv'
<1>0. /\ LicencesInv /\ WorkInv /\ CommandInv
      /\ licences \subseteq licences' /\ \A i \in Intents : Moved(i)
  BY OnlyGrows, IntentsMove DEF IInv
<1>1. ASSUME NEW i \in Intents, Phase(i) = "activated"
      PROVE  intent'[i].archive = intent[i].archive /\ intent'[i].phase = "activated"
  BY <1>0, <1>1 DEF Moved, Paid
<1>2. \A a \in licences' : \E i \in Intents : intent'[i].archive = a /\ intent'[i].phase = "activated"
  <2>1. \A a \in licences :
           \E i \in Intents : intent'[i].archive = a /\ intent'[i].phase = "activated"
    BY <1>0, <1>1 DEF LicencesInv
  <2>2. CASE StoreLicence
    <3>1. licences' \subseteq licences \cup {op.archive} /\ op.step = "licence"
          /\ op.cmd \in {"activate", "refresh"}
      BY <2>2 DEF StoreLicence, SaveLicence
    <3>2. CASE op.cmd = "refresh"
      BY <1>0, <2>1, <3>1, <3>2 DEF LicencesInv
    <3>3. CASE op.cmd = "activate"
      <4>1. /\ op.active.intent \in Intents /\ ArchiveOf(op.active.intent) = op.archive
            /\ Phase(op.active.intent) = "activated"
        BY <1>0, <3>1, <3>3 DEF WorkInv
      <4>2. QED
        BY <1>1, <2>1, <3>1, <4>1
    <3>4. QED
      BY <3>1, <3>2, <3>3
  <2>3. QED
    BY <2>1, <2>2, LicencesMove
<1>3. session'.open => session'.archive \in licences'
  BY <1>0, LicencesMove DEF LicencesInv
<1>4. /\ op'.cmd = "refresh" => op'.archive \in licences'
      /\ op'.step \in {"install", "cleanup"} => op'.archive \in licences'
  <2>1. CASE op' = NoOp
    BY <2>1 DEF NoOp
  <2>2. CASE Beside
    BY <1>0, <2>2 DEF Beside, LicencesInv
  <2>3. CASE CheckStart \/ PrepareStart \/ VerifyStart \/ ActivateStart \/ RefreshStart
    <3>1. RefreshStart => session.archive \in licences
      BY DEF RefreshStart
    <3>2. QED
      BY <1>0, <2>3, <3>1, Begun
  <2>4. CASE /\ op' # NoOp
             /\ \/ PrepareAnswer \/ ActivateAnswer \/ StoreToken \/ StoreLicence \/ Install
                \/ RefreshAnswer
    BY <1>0, <2>4, GoesOn DEF LicencesInv
  <2>5. QED
    BY <2>1, <2>2, <2>3, <2>4, LockedOrBeside
<1>5. QED
  BY <1>2, <1>3, <1>4 DEF LicencesInv

\* The stored token of a licence is the current one, also after the step.
LEMMA RenewNext == ASSUME IInv, [Next]_vars PROVE LicenceIsRenewable'
<1>0. /\ LicencesInv /\ WorkInv /\ CommandInv /\ BackendInv /\ LicenceIsRenewable
      /\ token \in [Archives -> Tokens] /\ licences \subseteq Archives
  BY DEF IInv, TypeOK
<1>1. CASE licences' = licences /\ token' = token /\ spoiled \subseteq spoiled'
  BY <1>0, <1>1 DEF LicenceIsRenewable
<1>2. ASSUME NEW i \in Intents, licences' = licences, token' = Rotated(ArchiveOf(i)),
             spoiled' = Overtaken(i)
      PROVE  LicenceIsRenewable'
  BY <1>0, <1>2 DEF LicenceIsRenewable, Rotated, Overtaken
<1>3. CASE ActivateAnswer
  <2>1. op.active.intent \in Intents /\ licences' = licences
    BY <1>0, <1>3 DEF ActivateAnswer, Holding, WorkInv
  <2>2. \/ token' = Rotated(ArchiveOf(op.active.intent)) /\ spoiled' = Overtaken(op.active.intent)
        \/ token' = token /\ spoiled' = spoiled
    BY <1>3 DEF ActivateAnswer
  <2>3. QED
    BY <1>1, <1>2, <2>1, <2>2
<1>4. ASSUME NEW i \in Intents, CommitLate(i) PROVE LicenceIsRenewable'
  BY <1>2, <1>4 DEF CommitLate
<1>5. CASE StoreToken
  <2>1. /\ op.cmd = "activate" /\ op.step = "token" /\ licences' = licences
    BY <1>5 DEF StoreToken, Holding
  <2>2. op.fresh \/ op.archive \in spoiled
    BY <1>0, <2>1 DEF WorkInv
  <2>3. \/ /\ token' = [token EXCEPT ![op.archive] = IF op.fresh THEN "current" ELSE "stale"]
           /\ spoiled' = IF op.fresh THEN spoiled \ {op.archive} ELSE spoiled
        \/ /\ token' = [token EXCEPT ![op.archive] = "none"]
           /\ spoiled' = spoiled \cup {op.archive}
    BY <1>5 DEF StoreToken
  <2>4. QED
    BY <1>0, <2>1, <2>2, <2>3 DEF LicenceIsRenewable
<1>6. CASE StoreLicence
  <2>1. /\ licences' \subseteq licences \cup {op.archive} /\ op.step = "licence"
        /\ op.cmd \in {"activate", "refresh"} /\ token' = token /\ spoiled' = spoiled
    BY <1>6 DEF StoreLicence, SaveLicence
  <2>2. op.archive \in licences \/ token[op.archive] = "current" \/ op.archive \in spoiled
    BY <1>0, <2>1 DEF WorkInv, LicencesInv
  <2>3. QED
    BY <1>0, <2>1, <2>2 DEF LicenceIsRenewable
<1>7. CASE RefreshAnswer
  <2>1. licences' = licences /\ op.archive \in licences
    BY <1>0, <1>7 DEF RefreshAnswer, Holding, LicencesInv
  <2>2. CASE token' = token /\ spoiled' = spoiled
    BY <1>1, <2>1, <2>2
  <2>3. ASSUME NEW code \in RefreshErrors(op.archive),
               \/ code \in LicenceEnded /\ token' = [token EXCEPT ![op.archive] = "none"]
               \/ token' = token,
               spoiled' = IF code \in {"archive_blocked", "entitlement_revoked"}
                          THEN spoiled \cup {op.archive} ELSE spoiled
        PROVE  LicenceIsRenewable'
    <3>1. CASE token[op.archive] = "current"
      BY <1>0, <2>1, <2>3, <3>1
         DEF LicenceIsRenewable, RefreshErrors, Mishaps, Retryable, LicenceEnded
    <3>2. CASE token[op.archive] # "current"
      BY <1>0, <2>1, <2>3, <3>2 DEF LicenceIsRenewable
    <3>3. QED
      BY <3>1, <3>2
  <2>4. QED
    BY <1>7, <2>2, <2>3 DEF RefreshAnswer
<1> USE DEF durable, marks
<1>8. CASE \/ OpenVerify \/ OpenRestore \/ OpenCommandRefused \/ Close \/ Expire
           \/ \E a \in Archives : OpenStart(a)
  BY <1>1, <1>8 DEF OpenVerify, OpenRestore, OpenCommandRefused, Close, Expire, OpenStart
<1>9. CASE \/ CheckStart \/ CheckAnswer \/ DiscardOrphan \/ PrepareStart \/ PrepareAnswer
           \/ PrepareSave \/ VerifyStart \/ VerifyAnswer
  BY <1>1, <1>9 DEF CheckStart, CheckAnswer, DiscardOrphan, PrepareStart, PrepareAnswer,
                    PrepareSave, VerifyStart, VerifyAnswer
<1>10. CASE ActivateStart \/ Install \/ ActivateCleanup \/ RefreshStart \/ CurrentIdentity
  BY <1>1, <1>10 DEF ActivateStart, Install, ActivateCleanup, RefreshStart, CurrentIdentity
<1>11. CASE \/ \E a \in Archives : CleanupAfterUnlock(a)
            \/ \E i \in Intents : Pay(i) \/ EndIntent(i) \/ LoseLate(i) \/ LoseSecret(i)
            \/ Crash \/ UNCHANGED vars
  BY <1>1, <1>11 DEF CleanupAfterUnlock, Pay, EndIntent, LoseLate, LoseSecret, Crash, vars
<1>12. QED
  BY <1>3, <1>4, <1>5, <1>6, <1>7, <1>8, <1>9, <1>10, <1>11
     DEF Next, Command, OpenAndClose, Environment

(***************************************************************************)
(* The theorems                                                            *)
(***************************************************************************)

\* The inductive invariant holds initially.
LEMMA InvInit == Init => IInv
<1> SUFFICES ASSUME Init PROVE IInv
  OBVIOUS
<1>1. TypeOK
  BY TypeInit
<1>2. /\ \A i \in Intents : Phase(i) = "unused"
      /\ op.cmd = "none" /\ op.step = "none" /\ op = NoOp /\ ~session.open
      /\ active = NoActive /\ late = {} /\ secrets = {} /\ licences = {}
      /\ \A a \in Archives : stored[a] = NoActive
  BY DEF Init, NoOp, Empty
<1>3. BackendInv /\ RecordsInv /\ RuntimeInv /\ KeptInv
  BY <1>2 DEF BackendInv, RecordsInv, RuntimeInv, KeptInv, Open
<1>4. CommandInv /\ PrepareInv /\ WorkInv
  BY <1>2 DEF CommandInv, PrepareInv, WorkInv
<1>5. LicencesInv /\ LicenceIsRenewable
  BY <1>2 DEF LicencesInv, LicenceIsRenewable
<1>6. QED
  BY <1>1, <1>3, <1>4, <1>5 DEF IInv

\* Every reachable state satisfies the inductive invariant.
LEMMA Invariance == Spec => []IInv
<1>1. IInv /\ [Next]_vars => IInv'
  BY TypeNext, BackendNext, RecordsNext, RuntimeNext, KeptNext, CommandNext, PrepareNext,
     WorkNext, LicencesNext, RenewNext DEF IInv
<1>2. QED
  BY <1>1, InvInit, PTL DEF Spec

\* Every variable of the service, the disk and the backend keeps its type.
THEOREM TypeCorrect == Spec => []TypeOK
<1>1. IInv => TypeOK
  BY DEF IInv
<1>2. QED
  BY <1>1, Invariance, PTL

\* The runtime cache never mixes two archives (payment_service.rs:285), whoever
\* empties it beside the operation lock.
THEOREM OneArchiveAtATime == Spec => []RuntimeIsOneArchive
<1>1. IInv => RuntimeIsOneArchive
  BY DEF IInv, RuntimeInv, RuntimeIsOneArchive
<1>2. QED
  BY <1>1, Invariance, PTL

\* A paid intent can be resumed: secret and record are on disk until it is
\* activated, outside of the archives the finding names (docs/API.md:475).
THEOREM PaidResumes == Spec => []PaidIsResumable
<1>1. IInv => PaidIsResumable
  BY DEF IInv, KeptInv, Open, PaidIsResumable
<1>2. QED
  BY <1>1, Invariance, PTL

\* An archive is open only if it was paid for and activated.
THEOREM UnlockedPaid == Spec => []UnlockedWasPaid
<1>1. IInv => UnlockedWasPaid
  BY DEF IInv, LicencesInv, UnlockedWasPaid
<1>2. QED
  BY <1>1, Invariance, PTL

\* The token of a licence is the current one, through lost answers and crashes.
THEOREM LicencesRenew == Spec => []LicenceIsRenewable
<1>1. IInv => LicenceIsRenewable
  BY DEF IInv
<1>2. QED
  BY <1>1, Invariance, PTL
=============================================================================
