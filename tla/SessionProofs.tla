---------------------------- MODULE SessionProofs -----------------------------
(* Proofs about Session, for any offline window, tolerance, set of clock       *)
(* offsets that includes a right clock, and any bounds.                        *)
EXTENDS Session, TLAPS

-------------------------------------------------------------------------------
(* Type correctness *)

(* Times and wall times are natural numbers, so NoTime is none of them. *)
LEMMA TimesAreNatural ==
  Times \subseteq Nat /\ Walls \subseteq Nat /\ NoTime \notin Nat /\ NoTime \in Int
<1>1. Times \subseteq Nat
  BY SessionAssumption DEF Times
<1>2. \A t \in Times, s \in Skews : t + s \in Nat
  BY SessionAssumption DEF Times
<1>3. QED
  BY <1>1, <1>2 DEF Walls, NoTime

(* A mark is a number, also a missing one. *)
LEMMA MarksAreNumbers == \A x \in Walls \cup {NoTime} : x \in Int
  BY TimesAreNatural

(* A wall time is a time and an offset. *)
LEMMA WallTimes == \A t \in Times, s \in Skews : t + s \in Walls
  BY DEF Walls

(* The types of the parts of the state. *)
ClockType == clock \in [time : Times, skew : Skews]
DurableType == durable \in [licence : Times, high : Walls]
Guards == [loaded : BOOLEAN, high : Walls \cup {NoTime}, last : Samples]
SessionType ==
  /\ session \in [state : {"empty", "locked", "unlocked"}, serial : 0..MaxOpens,
                  deadline : {NoTime} \cup {t + Window : t \in Times}]
  /\ (session.state = "unlocked") = (session.deadline # NoTime)
Timers == [serial : 0..MaxOpens, deadline : {t + Window : t \in Times}, wake : Times]
FlowState == [step : Steps, issued : Times \cup {NoTime}, sample : Samples]
FlowType == flow \in [Flows -> FlowState]
InboxType == inbox \subseteq Screens \cup {"expired"}
SpentType == spent \in [sets : 0..MaxSets, opens : 0..MaxOpens, crashes : 0..MaxCrashes]

(* Together they are the type invariant. *)
LEMMA TypeParts ==
  /\ TypeOK <=> /\ ClockType /\ DurableType /\ guard \in Guards /\ SessionType
                /\ timers \subseteq Timers /\ FlowType /\ screen \in Screens /\ InboxType
                /\ peak \in Walls /\ SpentType
  /\ TypeOK' <=> /\ ClockType' /\ DurableType' /\ guard' \in Guards /\ SessionType'
                 /\ timers' \subseteq Timers /\ FlowType' /\ screen' \in Screens /\ InboxType'
                 /\ peak' \in Walls /\ SpentType'
  BY DEF TypeOK, ClockType, DurableType, Guards, SessionType, Timers, FlowState, FlowType,
         InboxType, SpentType

(* What is untouched stays in its type. *)
LEMMA TypeFrom ==
  ASSUME TypeOK, clock' = clock \/ ClockType', durable' = durable \/ DurableType',
         guard' = guard \/ guard' \in Guards, session' = session \/ SessionType',
         timers' = timers \/ timers' \subseteq Timers, flow' = flow \/ FlowType',
         screen' = screen \/ screen' \in Screens, inbox' = inbox \/ InboxType',
         peak' = peak \/ peak' \in Walls, spent' = spent \/ SpentType'
  PROVE  TypeOK'
  BY TypeParts DEF ClockType, DurableType, SessionType, FlowType, InboxType, SpentType

(* The clocks, now. *)
LEMMA ClockFacts ==
  ASSUME TypeOK
  PROVE  /\ clock.time \in Times /\ clock.time \in Nat /\ clock.skew \in Skews
         /\ Wall \in Walls /\ Wall \in Nat /\ Wall = clock.time + clock.skew
         /\ ClockSample \in Samples /\ ClockSample # NoSample
         /\ ClockSample.utc = Wall /\ ClockSample.utc \in Walls
<1>1. clock.time \in Times /\ clock.skew \in Skews
  BY DEF TypeOK
<1>2. clock.time \in Nat /\ Wall \in Walls /\ Wall \in Nat
  <2>1. Wall \in Walls
    BY <1>1, WallTimes DEF Wall
  <2>2. QED
    BY <1>1, <2>1, TimesAreNatural
<1>3. ClockSample \in Samples /\ ClockSample.utc = Wall
  BY <1>1, <1>2 DEF ClockSample, Samples
<1>4. ClockSample.utc # NoSample.utc
  BY <1>2, <1>3, TimesAreNatural DEF NoSample
<1>5. QED
  BY <1>1, <1>2, <1>3, <1>4 DEF Wall

(* A sample that was taken is of a wall time. *)
LEMMA SampleFacts ==
  ASSUME NEW sample \in Samples, sample # NoSample
  PROVE  sample.utc \in Walls /\ sample.utc \in Nat
  BY TimesAreNatural DEF Samples

(* The greater and the lesser of two times. *)
LEMMA MaxMin ==
  ASSUME NEW a \in Int, NEW b \in Int
  PROVE  /\ MaxOf(a, b) \in {a, b} /\ MaxOf(a, b) >= a /\ MaxOf(a, b) >= b
         /\ MinOf(a, b) \in {a, b} /\ MinOf(a, b) <= a /\ MinOf(a, b) <= b
  BY DEF MaxOf, MinOf

(* The guard that an opening finds, and the one it leaves. *)
LEMMA GuardFacts ==
  ASSUME TypeOK
  PROVE  /\ LoadedGuard \in Guards /\ LoadedGuard.loaded
         /\ LoadedGuard.high = IF guard.loaded THEN guard.high ELSE durable.high
         /\ LoadedGuard.high \in Int
         /\ \A sample \in Samples \ {NoSample} :
              /\ HighWater(LoadedGuard, sample) \in Walls
              /\ HighWater(LoadedGuard, sample) >= LoadedGuard.high
              /\ HighWater(LoadedGuard, sample) >= sample.utc
              /\ Observed(LoadedGuard, sample) \in Guards
              /\ Observed(LoadedGuard, sample).high = HighWater(LoadedGuard, sample)
              /\ Observed(LoadedGuard, sample).loaded
<1>1. guard \in Guards /\ durable.high \in Walls /\ NoSample \in Samples
  BY TypeParts DEF DurableType, Samples
<1>2. LoadedGuard \in Guards /\ LoadedGuard.loaded
  BY <1>1 DEF LoadedGuard, Restored, Guards
<1>3. LoadedGuard.high = IF guard.loaded THEN guard.high ELSE durable.high
  BY <1>1 DEF LoadedGuard, Restored
<1>4. LoadedGuard.high \in Walls \cup {NoTime} /\ LoadedGuard.high \in Int
  <2>1. LoadedGuard.high \in Walls \cup {NoTime}
    BY <1>2 DEF Guards
  <2>2. QED
    BY <2>1, MarksAreNumbers
<1>5. ASSUME NEW sample \in Samples \ {NoSample}
      PROVE  /\ HighWater(LoadedGuard, sample) \in Walls
             /\ HighWater(LoadedGuard, sample) >= LoadedGuard.high
             /\ HighWater(LoadedGuard, sample) >= sample.utc
  BY <1>4, SampleFacts, TimesAreNatural DEF HighWater, MaxOf, NoTime
<1>6. QED
  BY <1>2, <1>3, <1>4, <1>5 DEF Observed, Guards

(* A flow that goes on with its licence and sample. *)
LEMMA FlowGoes ==
  ASSUME FlowType, NEW f \in Flows, NEW s \in Steps, flow' = [flow EXCEPT ![f].step = s]
  PROVE  /\ FlowType' /\ flow'[f].step = s
         /\ flow'[f].issued = flow[f].issued /\ flow'[f].sample = flow[f].sample
         /\ \A g \in Flows : g # f => flow'[g] = flow[g]
  BY DEF FlowType, FlowState

(* A flow that is replaced. *)
LEMMA FlowBecomes ==
  ASSUME FlowType, NEW f \in Flows, NEW x \in FlowState, flow' = [flow EXCEPT ![f] = x]
  PROVE  FlowType' /\ flow'[f] = x /\ \A g \in Flows : g # f => flow'[g] = flow[g]
  BY DEF FlowType

(* A flow that ends. *)
LEMMA FlowEnds ==
  ASSUME TypeOK, NEW f \in Flows, NEW message \in Screens \cup {"expired"}, Ends(f, message)
  PROVE  /\ FlowType' /\ InboxType' /\ flow'[f] = Idle
         /\ \A g \in Flows : g # f => flow'[g] = flow[g]
<1>1. Idle \in FlowState
  BY DEF Idle, FlowState, Steps, Samples
<1>2. FlowType /\ InboxType
  BY TypeParts
<1>3. QED
  BY <1>1, <1>2, FlowBecomes DEF Ends, InboxType

(* The sessions without content. *)
LEMMA SessionEmpties ==
  ASSUME TypeOK
  PROVE  /\ session' = Empty(session.serial) => SessionType' /\ session'.serial = session.serial
         /\ session' = Locked(session.serial) => SessionType' /\ session'.serial = session.serial
  BY DEF TypeOK, SessionType, Empty, Locked

(* Initially every variable is in its type. *)
LEMMA TypeInit == Init => TypeOK
<1> SUFFICES ASSUME Init PROVE TypeOK
  OBVIOUS
<1>1. StartTime \in Times /\ 0 \in Skews
  BY SessionAssumption DEF Times
<1>2. StartTime + 0 \in Walls /\ StartTime + 0 = StartTime
  BY <1>1, WallTimes, SessionAssumption
<1>3. ClockType /\ DurableType /\ guard \in Guards /\ peak \in Walls
  BY <1>1, <1>2 DEF Init, ClockType, DurableType, Guards, NoGuard, Samples
<1>4. SessionType /\ SpentType
  BY SessionAssumption DEF Init, SessionType, SpentType, Empty
<1>5. FlowType
  BY DEF Init, FlowType, FlowState, Idle, Steps, Samples
<1>6. timers \subseteq Timers /\ screen \in Screens /\ InboxType
  BY DEF Init, Screens, InboxType
<1>7. QED
  BY <1>3, <1>4, <1>5, <1>6, TypeParts

(* A flow has sampled the clock before it observes or finishes, and has a      *)
(* licence before it saves or installs one, also after the step.               *)
HasSample == {"restore", "restored", "save", "persist", "reset", "install", "finish"}
HasLicence == {"restored", "save", "persist", "reset", "install"}
Fits(x) ==
  /\ x.step \in HasSample => x.sample # NoSample
  /\ x.step \in HasLicence => x.issued # NoTime

(* FlowInv in these terms. *)
LEMMA FlowParts ==
  /\ FlowInv <=> \A f \in Flows : Fits(flow[f])
  /\ FlowInv' <=> \A f \in Flows : Fits(flow'[f])
  BY DEF FlowInv, Fits, HasSample, HasLicence

(* A flow goes on as it fits. *)
LEMMA FlowGoesOn ==
  ASSUME FlowType, FlowInv, NEW f \in Flows, NEW s \in Steps,
         flow' = [flow EXCEPT ![f].step = s],
         s \in HasSample => flow[f].sample # NoSample,
         s \in HasLicence => flow[f].issued # NoTime
  PROVE  FlowType' /\ FlowInv'
<1>1. /\ FlowType' /\ flow'[f].step = s
      /\ flow'[f].issued = flow[f].issued /\ flow'[f].sample = flow[f].sample
      /\ \A g \in Flows : g # f => flow'[g] = flow[g]
  BY FlowGoes
<1>2. Fits(flow'[f])
  BY <1>1 DEF Fits
<1>3. QED
  BY <1>1, <1>2, FlowParts

(* A flow is replaced by one that fits. *)
LEMMA FlowReplaced ==
  ASSUME FlowType, FlowInv, NEW f \in Flows, NEW x \in FlowState,
         flow' = [flow EXCEPT ![f] = x], Fits(x)
  PROVE  FlowType' /\ FlowInv'
<1>1. FlowType' /\ flow'[f] = x /\ \A g \in Flows : g # f => flow'[g] = flow[g]
  BY FlowBecomes
<1>2. QED
  BY <1>1, FlowParts

(* The fields of a flow that has got a licence or a sample. *)
LEMMA FlowFacts ==
  ASSUME TypeOK, FlowInv, NEW f \in Flows
  PROVE  /\ flow[f] \in FlowState /\ flow[f].step \in Steps
         /\ flow[f].issued \in Times \cup {NoTime} /\ flow[f].sample \in Samples
         /\ flow[f].step \in HasSample => flow[f].sample \in Samples \ {NoSample}
         /\ flow[f].step \in HasLicence => flow[f].issued \in Times
<1>1. flow[f] \in FlowState /\ Fits(flow[f])
  BY TypeParts, FlowParts DEF FlowType
<1>2. QED
  BY <1>1 DEF FlowState, Fits

(* The steps of an opening, and the beginning of both flows. *)
LEMMA OpeningFlow ==
  ASSUME TypeOK, FlowInv
  PROVE  OpenBegin \/ OpenVerified \/ RestoreObserved \/ RestoreRefused \/ ChooseArchive
         \/ RestoreUnwritten \/ RetryNetwork => FlowType' /\ FlowInv'
<1>0. FlowType /\ "open" \in Flows /\ "refresh" \in Flows
  BY TypeParts DEF Flows
<1>1. ASSUME OpenBegin PROVE FlowType' /\ FlowInv'
  BY <1>0, <1>1, FlowGoesOn DEF OpenBegin, Steps, HasSample, HasLicence
<1>2. ASSUME OpenVerified PROVE FlowType' /\ FlowInv'
  <2> DEFINE x == [flow["open"] EXCEPT !.step = "restore", !.sample = ClockSample]
  <2>1. x \in FlowState /\ x.step = "restore" /\ x.sample = ClockSample
    BY <1>0, ClockFacts DEF FlowType, FlowState, Steps
  <2>2. Fits(x)
    BY <2>1, ClockFacts DEF Fits, HasLicence
  <2>3. flow' = [flow EXCEPT !["open"] = x]
    BY <1>2 DEF OpenVerified
  <2> HIDE DEF x
  <2>4. QED
    BY <1>0, <2>1, <2>2, <2>3, FlowReplaced
<1>3. ASSUME RestoreObserved PROVE FlowType' /\ FlowInv'
  <2> DEFINE x == [flow["open"] EXCEPT !.step = "restored", !.issued = durable.licence]
             y == [flow["open"] EXCEPT !.step = "request"]
  <2>1. durable.licence \in Times /\ durable.licence # NoTime
    BY TimesAreNatural DEF TypeOK
  <2>2. /\ x \in FlowState /\ x.step = "restored" /\ x.sample = flow["open"].sample
        /\ x.issued = durable.licence /\ y \in FlowState /\ y.step = "request"
    BY <1>0, <2>1 DEF FlowType, FlowState, Steps
  <2>3. flow["open"].sample # NoSample
    BY <1>0, <1>3, FlowFacts DEF RestoreObserved, HasSample
  <2>4. Fits(x) /\ Fits(y)
    BY <2>1, <2>2, <2>3 DEF Fits, HasSample, HasLicence
  <2>5. flow' = [flow EXCEPT !["open"] = x] \/ flow' = [flow EXCEPT !["open"] = y]
    BY <1>3 DEF RestoreObserved
  <2> HIDE DEF x, y
  <2>6. QED
    BY <1>0, <2>2, <2>4, <2>5, FlowReplaced
<1>4. ASSUME RestoreRefused PROVE FlowType' /\ FlowInv'
  BY <1>0, <1>4, FlowGoesOn DEF RestoreRefused, Steps, HasSample, HasLicence
<1>5. ASSUME ChooseArchive PROVE FlowType' /\ FlowInv'
  BY <1>0, <1>5, FlowGoesOn DEF ChooseArchive, Steps, HasSample, HasLicence
<1>6. ASSUME RetryNetwork PROVE FlowType' /\ FlowInv'
  BY <1>0, <1>6, FlowGoesOn DEF RetryNetwork, Steps, HasSample, HasLicence
<1>7. ASSUME RestoreUnwritten PROVE FlowType' /\ FlowInv'
  BY <1>0, <1>7, FlowGoesOn DEF RestoreUnwritten, Steps, HasSample, HasLicence
<1>8. QED
  BY <1>1, <1>2, <1>3, <1>4, <1>5, <1>6, <1>7

(* The steps that end a flow, with a message to the interface. *)
EndOf(f) ==
  \E message \in Screens : Ends(f, message)

(* An ended flow fits. *)
LEMMA FlowEnded ==
  ASSUME TypeOK, FlowInv, NEW f \in Flows, EndOf(f)
  PROVE  FlowType' /\ FlowInv' /\ InboxType' /\ flow'[f] = Idle
         /\ \A g \in Flows : g # f => flow'[g] = flow[g]
<1>1. /\ FlowType' /\ InboxType' /\ flow'[f] = Idle
      /\ \A g \in Flows : g # f => flow'[g] = flow[g]
  BY FlowEnds DEF EndOf
<1>2. Fits(Idle)
  BY DEF Fits, Idle, HasSample, HasLicence
<1>3. QED
  BY <1>1, <1>2, FlowParts

(* The steps of a refresh, and those that both flows have. *)
LEMMA RefreshFlow ==
  ASSUME TypeOK, FlowInv, NEW f \in Flows
  PROVE  /\ AskRefresh(f) \/ SaveLicence(f) \/ PersistReset(f) \/ ResetGuard(f)
              => FlowType' /\ FlowInv'
         /\ NothingToUnlock(f) \/ RefreshUnavailable(f) \/ RefreshDenied(f) => EndOf(f)
         /\ RefreshGranted(f) => EndOf(f) \/ (FlowType' /\ FlowInv' /\ inbox' = inbox)
         /\ Install(f) => EndOf(f) \/ (FlowType' /\ FlowInv' /\ inbox' = inbox)
         /\ Finish(f) => EndOf(f)
<1>0. FlowType
  BY TypeParts
<1>1. ASSUME AskRefresh(f) PROVE FlowType' /\ FlowInv'
  BY <1>0, <1>1, FlowGoesOn DEF AskRefresh, Steps, HasSample, HasLicence
<1>2. ASSUME SaveLicence(f) PROVE FlowType' /\ FlowInv'
  <2>1. flow[f].sample # NoSample /\ flow[f].issued # NoTime
    BY <1>0, <1>2, FlowParts DEF SaveLicence, Fits, HasSample, HasLicence
  <2>2. QED
    BY <1>0, <1>2, <2>1, FlowGoesOn DEF SaveLicence, Steps
<1>3. ASSUME PersistReset(f) PROVE FlowType' /\ FlowInv'
  <2>1. flow[f].sample # NoSample /\ flow[f].issued # NoTime
    BY <1>0, <1>3, FlowParts DEF PersistReset, Fits, HasSample, HasLicence
  <2>2. QED
    BY <1>0, <1>3, <2>1, FlowGoesOn DEF PersistReset, Steps
<1>4. ASSUME ResetGuard(f) PROVE FlowType' /\ FlowInv'
  <2>1. flow[f].sample # NoSample /\ flow[f].issued # NoTime
    BY <1>0, <1>4, FlowParts DEF ResetGuard, Fits, HasSample, HasLicence
  <2>2. QED
    BY <1>0, <1>4, <2>1, FlowGoesOn DEF ResetGuard, Steps
<1>5. ASSUME NothingToUnlock(f) \/ RefreshUnavailable(f) \/ RefreshDenied(f) PROVE EndOf(f)
  BY <1>5 DEF NothingToUnlock, RefreshUnavailable, RefreshDenied, EndOf, Screens
<1>6. ASSUME RefreshGranted(f)
      PROVE  EndOf(f) \/ (FlowType' /\ FlowInv' /\ inbox' = inbox)
  <2> DEFINE x == [step |-> "save", issued |-> clock.time, sample |-> ClockSample]
  <2>1. x \in FlowState
    BY ClockFacts DEF FlowState, Steps
  <2>2. Fits(x)
    BY ClockFacts, TimesAreNatural DEF Fits
  <2>3. EndOf(f) \/ (flow' = [flow EXCEPT ![f] = x] /\ inbox' = inbox)
    BY <1>6 DEF RefreshGranted, EndOf, Screens
  <2> HIDE DEF x
  <2>4. QED
    BY <1>0, <2>1, <2>2, <2>3, FlowReplaced
<1>7. ASSUME Install(f) PROVE EndOf(f) \/ (FlowType' /\ FlowInv' /\ inbox' = inbox)
  <2>1. flow[f].sample # NoSample
    BY <1>0, <1>7, FlowParts DEF Install, Fits, HasSample
  <2>2. EndOf(f) \/ (flow' = [flow EXCEPT ![f].step = "finish"] /\ inbox' = inbox)
    BY <1>7 DEF Install, EndOf, Screens
  <2>3. QED
    BY <1>0, <2>1, <2>2, FlowGoesOn DEF Steps, HasLicence
<1>8. ASSUME Finish(f) PROVE EndOf(f)
  BY <1>8 DEF Finish, EndOf, Screens
<1>9. QED
  BY <1>1, <1>2, <1>3, <1>4, <1>5, <1>6, <1>7, <1>8

(* A timer sleeps until a time that will be. *)
LEMMA WakesInTime ==
  ASSUME TypeOK, NEW d \in Int, d >= 0
  PROVE  MinOf(MaxTime, clock.time + d) \in Times
<1>1. clock.time \in Nat /\ StartTime <= clock.time /\ clock.time <= MaxTime
  BY SessionAssumption DEF TypeOK, Times
<1>2. QED
  BY <1>1, SessionAssumption DEF MinOf, Times

(* The timer of the session that is unlocked. *)
LEMMA TokenFacts ==
  ASSUME TypeOK
  PROVE  /\ session.state = "unlocked" => Token \in Timers /\ session.deadline \in Nat
         /\ \A token \in timers :
              /\ token \in Timers /\ token.deadline \in Nat
              /\ SleepsOn(token) => [token EXCEPT !.wake =
                                       MinOf(MaxTime, clock.time + (token.deadline - Wall))] \in Timers
<1>0. /\ SessionType /\ timers \subseteq Timers
      /\ \A x \in {t + Window : t \in Times} : x \in Nat
  BY TypeParts, TimesAreNatural, SessionAssumption
<1>1. ASSUME session.state = "unlocked" PROVE Token \in Timers /\ session.deadline \in Nat
  <2>1. /\ session.deadline \in {t + Window : t \in Times} /\ session.serial \in 0..MaxOpens
        /\ session.deadline \in Nat
    BY <1>0, <1>1 DEF SessionType
  <2>2. MaxOf(0, session.deadline - Wall) \in Int /\ MaxOf(0, session.deadline - Wall) >= 0
    BY <2>1, ClockFacts DEF MaxOf
  <2>3. MinOf(MaxTime, clock.time + MaxOf(0, session.deadline - Wall)) \in Times
    BY <2>2, WakesInTime
  <2>4. QED
    BY <2>1, <2>3 DEF Token, Timers
<1>2. ASSUME NEW token \in timers
      PROVE  token \in Timers /\ token.deadline \in Nat
  BY <1>0 DEF Timers
<1>3. ASSUME NEW token \in timers, SleepsOn(token)
      PROVE  [token EXCEPT !.wake =
                MinOf(MaxTime, clock.time + (token.deadline - Wall))] \in Timers
  <2>1. token.deadline - Wall \in Int /\ token.deadline - Wall >= 0
    BY <1>2, <1>3, ClockFacts DEF SleepsOn
  <2>2. MinOf(MaxTime, clock.time + (token.deadline - Wall)) \in Times
    BY <2>1, WakesInTime
  <2>3. QED
    BY <1>2, <2>2 DEF Timers
<1>4. QED
  BY <1>1, <1>2, <1>3

(* The session that is installed, which the openings so far allow. *)
LEMMA InstalledFacts ==
  ASSUME TypeOK, NEW issued \in Times, session.serial + 1 <= MaxOpens,
         session' = Installed(issued)
  PROVE  SessionType' /\ session'.serial = session.serial + 1
<1>1. session.serial \in 0..MaxOpens
  BY DEF TypeOK
<1>2. issued + Window \in {t + Window : t \in Times} /\ issued + Window # NoTime
  BY TimesAreNatural, SessionAssumption DEF NoTime
<1>3. QED
  BY <1>1, <1>2, SessionAssumption DEF Installed, SessionType

(* The counters of the bounds. *)
LEMMA SpentGrows ==
  ASSUME TypeOK
  PROVE  /\ \A s \in Skews : SetClock(s) => SpentType' /\ spent'.opens = spent.opens
         /\ ChooseArchive \/ RetryNetwork => SpentType' /\ spent'.opens = spent.opens + 1
         /\ Crash \/ RestoreUnwritten => SpentType' /\ spent'.opens = spent.opens
  BY SessionAssumption
     DEF TypeOK, SpentType, SetClock, ChooseArchive, RetryNetwork, Crash, RestoreUnwritten

(* The counted openings leave room for the session that is installed. *)
LEMMA RoomToInstall ==
  ASSUME TypeOK, SerialInv, NEW f \in Flows, flow[f].step \in {"restored", "install"}
  PROVE  session.serial + 1 <= MaxOpens
<1>1. session.serial \in Nat /\ spent.opens \in 0..MaxOpens
  BY SessionAssumption DEF TypeOK
<1>2. MayInstall("open") \in {0, 1} /\ MayInstall("refresh") \in {0, 1} /\ MayInstall(f) = 1
  BY DEF MayInstall
<1>3. QED
  BY <1>1, <1>2, SessionAssumption DEF SerialInv, Flows

(* Every step keeps every variable in its type. *)
LEMMA TypeNext ==
  ASSUME TypeOK, FlowInv, SerialInv, [Next]_vars
  PROVE  TypeOK'
<1>0. /\ ClockType /\ DurableType /\ guard \in Guards /\ SessionType /\ timers \subseteq Timers
      /\ FlowType /\ screen \in Screens /\ InboxType /\ peak \in Walls /\ SpentType
  BY TypeParts
<1>1. ASSUME NEW f \in Flows, EndOf(f) PROVE FlowType' /\ InboxType'
  BY <1>1, FlowEnded
<1>2. CASE UNCHANGED vars
  BY <1>2, TypeFrom DEF vars
<1>3. CASE Tick
  <2>1. ClockType'
    <3>1. clock'.time = clock.time + 1 /\ clock' \in [time : {clock.time + 1}, skew : Skews]
      BY <1>0, <1>3 DEF Tick, ClockType
    <3>2. clock.time + 1 \in Times
      BY <1>3, ClockFacts, SessionAssumption DEF Tick, Times
    <3>3. QED
      BY <3>1, <3>2 DEF ClockType
  <2>2. QED
    BY <1>3, <2>1, TypeFrom DEF Tick
<1>4. ASSUME NEW skew \in Skews, SetClock(skew) PROVE TypeOK'
  <2>1. ClockType'
    BY <1>0, <1>4 DEF SetClock, ClockType
  <2>2. QED
    BY <1>4, <2>1, SpentGrows, TypeFrom DEF SetClock
<1>5. ASSUME NEW token \in timers, TimerWakes(token) PROVE TypeOK'
  <2>1. session' = session \/ SessionType'
    BY <1>5, SessionEmpties DEF TimerWakes
  <2>2. timers' \subseteq Timers
    BY <1>0, <1>5, TokenFacts DEF TimerWakes
  <2>3. InboxType'
    BY <1>0, <1>5 DEF TimerWakes, InboxType
  <2>4. QED
    BY <1>5, <2>1, <2>2, <2>3, TypeFrom DEF TimerWakes
<1>6. CASE ChooseArchive \/ RetryNetwork
  <2>1. screen' \in Screens
    BY <1>6 DEF ChooseArchive, RetryNetwork, Screens
  <2>2. QED
    BY <1>6, <2>1, SpentGrows, OpeningFlow, TypeFrom DEF ChooseArchive, RetryNetwork
<1>7. CASE OpenBegin \/ OpenVerified
  BY <1>7, SessionEmpties, OpeningFlow, TypeFrom DEF OpenBegin, OpenVerified
<1>8. CASE RestoreObserved
  <2> DEFINE sample == flow["open"].sample
  <2>1. sample \in Samples \ {NoSample}
    BY <1>8, FlowFacts DEF RestoreObserved, Flows, HasSample
  <2>2. sample.utc \in Walls /\ sample.utc \in Nat
    BY <2>1, SampleFacts
  <2>3. /\ guard' = Observed(LoadedGuard, sample)
        /\ durable' = [durable EXCEPT !.high = HighWater(LoadedGuard, sample)]
        /\ peak' \in {MinOf(peak, sample.utc), MaxOf(peak, sample.utc)}
        /\ UNCHANGED <<clock, session, timers, screen, inbox, spent>>
    BY <1>8 DEF RestoreObserved
  <2> HIDE DEF sample
  <2>4. guard' \in Guards /\ DurableType'
    BY <1>0, <2>1, <2>3, GuardFacts DEF DurableType
  <2>5. peak' \in Walls
    BY <1>0, <2>2, <2>3 DEF MinOf, MaxOf
  <2>6. FlowType'
    BY <1>8, OpeningFlow
  <2>7. QED
    BY <2>3, <2>4, <2>5, <2>6, TypeFrom
<1>9. CASE RestoreRefused
  BY <1>9, GuardFacts, OpeningFlow, TypeFrom DEF RestoreRefused
<1>10. ASSUME NEW f \in Flows, AskRefresh(f) PROVE TypeOK'
  BY <1>10, RefreshFlow, TypeFrom DEF AskRefresh
<1>11. ASSUME NEW f \in Flows, NothingToUnlock(f) \/ RefreshUnavailable(f) PROVE TypeOK'
  BY <1>1, <1>11, RefreshFlow, TypeFrom DEF NothingToUnlock, RefreshUnavailable
<1>12. ASSUME NEW f \in Flows, RefreshDenied(f) PROVE TypeOK'
  <2>1. session' = session \/ SessionType'
    BY <1>12, SessionEmpties DEF RefreshDenied
  <2>2. QED
    BY <1>1, <1>12, <2>1, RefreshFlow, TypeFrom DEF RefreshDenied
<1>13. ASSUME NEW f \in Flows, RefreshGranted(f) PROVE TypeOK'
  BY <1>1, <1>13, RefreshFlow, TypeFrom DEF RefreshGranted
<1>14. ASSUME NEW f \in Flows, SaveLicence(f) PROVE TypeOK'
  <2>1. flow[f].issued \in Times
    BY <1>14, FlowFacts DEF SaveLicence, HasLicence
  <2>2. DurableType'
    BY <1>0, <1>14, <2>1 DEF SaveLicence, DurableType
  <2>3. QED
    BY <1>14, <2>2, RefreshFlow, TypeFrom DEF SaveLicence
<1>15. ASSUME NEW f \in Flows, PersistReset(f) PROVE TypeOK'
  <2>1. flow[f].sample.utc \in Walls
    BY <1>15, FlowFacts, SampleFacts DEF PersistReset, HasSample
  <2>2. DurableType' /\ peak' \in Walls
    BY <1>0, <1>15, <2>1 DEF PersistReset, DurableType
  <2>3. QED
    BY <1>15, <2>2, RefreshFlow, TypeFrom DEF PersistReset
<1>16. ASSUME NEW f \in Flows, ResetGuard(f) PROVE TypeOK'
  <2>1. flow[f].sample \in Samples \ {NoSample}
    BY <1>16, FlowFacts DEF ResetGuard, HasSample
  <2>2. flow[f].sample.utc \in Walls /\ flow[f].sample.utc \in Nat
    BY <2>1, SampleFacts
  <2>3. HighWater(Restored(NoTime), flow[f].sample) = flow[f].sample.utc
    BY <2>2 DEF HighWater, Restored, MaxOf, NoTime
  <2>4. guard' \in Guards
    BY <1>16, <2>1, <2>2, <2>3 DEF ResetGuard, Observed, Guards
  <2>5. peak' \in Walls
    BY <1>0, <1>16, <2>2 DEF ResetGuard, MinOf
  <2>6. QED
    BY <1>16, <2>4, <2>5, RefreshFlow, TypeFrom DEF ResetGuard
<1>17. ASSUME NEW f \in Flows, Install(f) PROVE TypeOK'
  <2>1. flow[f].issued \in Times /\ session.serial + 1 <= MaxOpens
    BY <1>17, FlowFacts, RoomToInstall DEF Install, HasLicence
  <2>2. session' = session \/ SessionType'
    BY <1>17, <2>1, InstalledFacts DEF Install
  <2>3. QED
    BY <1>1, <1>17, <2>2, RefreshFlow, TypeFrom DEF Install
<1>18. ASSUME NEW f \in Flows, Finish(f) PROVE TypeOK'
  <2>1. session' = session \/ SessionType'
    BY <1>18, SessionEmpties DEF Finish
  <2>2. timers' \subseteq Timers
    BY <1>0, <1>18, TokenFacts DEF Finish
  <2>3. QED
    BY <1>1, <1>18, <2>1, <2>2, RefreshFlow, TypeFrom DEF Finish
<1>19. ASSUME NEW message \in inbox, Receive(message) PROVE TypeOK'
  <2>1. screen' \in Screens
    BY <1>0, <1>19 DEF Receive, Shows, InboxType, Screens
  <2>2. InboxType'
    BY <1>0, <1>19 DEF Receive, InboxType
  <2>3. QED
    BY <1>19, <2>1, <2>2, TypeFrom DEF Receive
<1>20. CASE StatusCheck \/ RendererCommand \/ RetryMetadata \/ CloseArchive
  <2>1. session' = session \/ SessionType'
    BY <1>20, SessionEmpties DEF StatusCheck, RendererCommand, RetryMetadata, CloseArchive
  <2>2. screen' = screen \/ screen' \in Screens
    BY <1>20 DEF StatusCheck, RendererCommand, RetryMetadata, CloseArchive, Screens
  <2>3. UNCHANGED <<clock, durable, guard, timers, flow, inbox, peak, spent>>
    BY <1>20 DEF StatusCheck, RendererCommand, RetryMetadata, CloseArchive
  <2>4. QED
    BY <2>1, <2>2, <2>3, TypeFrom
<1>21. CASE Crash
  <2>1. guard' \in Guards /\ FlowType' /\ screen' \in Screens /\ InboxType' /\ timers' \subseteq Timers
    BY <1>21 DEF Crash, NoGuard, Guards, FlowType, FlowState, Idle, Steps, Samples, Screens,
                 InboxType
  <2>2. QED
    BY <1>21, <2>1, SessionEmpties, SpentGrows, TypeFrom DEF Crash
<1>22. CASE RestoreUnwritten
  <2>1. flow["open"].sample \in Samples \ {NoSample}
    BY <1>22, FlowFacts DEF RestoreUnwritten, Flows, HasSample
  <2>2. guard' \in Guards
    BY <1>22, <2>1, GuardFacts DEF RestoreUnwritten
  <2>3. QED
    BY <1>22, <2>2, OpeningFlow, SpentGrows, TypeFrom DEF RestoreUnwritten
<1>23. QED
  BY <1>2, <1>3, <1>4, <1>5, <1>6, <1>7, <1>8, <1>9, <1>10, <1>11, <1>12, <1>13, <1>14, <1>15,
     <1>16, <1>17, <1>18, <1>19, <1>20, <1>21, <1>22
     DEF Next, FlowStep

-------------------------------------------------------------------------------
(* The inductive invariant *)

(* A step after which no more sessions may be installed than before. *)
NoMoreInstalls ==
  /\ session'.serial = session.serial /\ spent'.opens = spent.opens
  /\ \A f \in Flows : flow[f].step \in {"idle", "finish"} => flow'[f].step \in {"idle", "finish"}

(* A step that leaves the marks alone, and ends no reset. *)
MarksAlone ==
  /\ durable'.high = durable.high /\ peak' = peak /\ guard' = guard
  /\ \A f \in Flows : flow[f].step = "reset" => flow'[f].step = "reset"

(* Such steps preserve the invariant's parts. *)
LEMMA Alone ==
  ASSUME TypeOK, SerialInv, MarkInv
  PROVE  (NoMoreInstalls => SerialInv') /\ (MarksAlone => MarkInv')
<1>0. "open" \in Flows /\ "refresh" \in Flows
  BY DEF Flows
<1>1. ASSUME NoMoreInstalls PROVE SerialInv'
  <2>1. session.serial \in Nat /\ spent.opens \in Nat
    BY SessionAssumption DEF TypeOK
  <2>2. \A f \in Flows : MayInstall(f)' <= MayInstall(f) /\ MayInstall(f)' \in Nat /\ MayInstall(f) \in Nat
    BY <1>1 DEF NoMoreInstalls, MayInstall
  <2>3. QED
    BY <1>0, <1>1, <2>1, <2>2 DEF NoMoreInstalls, SerialInv
<1>2. ASSUME MarksAlone PROVE MarkInv'
  <2>1. ResetUnderWay => ResetUnderWay'
    BY <1>2 DEF MarksAlone, ResetUnderWay
  <2>2. LoadedGuard' = LoadedGuard
    BY <1>2 DEF MarksAlone, LoadedGuard, Restored
  <2>3. QED
    BY <1>2, <2>1, <2>2 DEF MarksAlone, MarkInv
<1>3. QED
  BY <1>1, <1>2

(* An ended flow installs no more, and it was in no reset. *)
LEMMA EndAlone ==
  ASSUME TypeOK, FlowInv, NEW f \in Flows, EndOf(f), flow[f].step # "reset"
  PROVE  /\ \A g \in Flows :
              flow[g].step \in {"idle", "finish"} => flow'[g].step \in {"idle", "finish"}
         /\ \A g \in Flows : flow[g].step = "reset" => flow'[g].step = "reset"
  BY FlowEnded DEF Idle

(* Every step preserves FlowInv. *)
LEMMA FlowNext ==
  ASSUME TypeOK, FlowInv, [Next]_vars
  PROVE  FlowInv'
<1>1. CASE flow' = flow
  BY <1>1 DEF FlowInv
<1>2. CASE OpenBegin \/ OpenVerified \/ RestoreObserved \/ RestoreRefused \/ ChooseArchive
           \/ RestoreUnwritten \/ RetryNetwork
  BY <1>2, OpeningFlow
<1>3. ASSUME NEW f \in Flows,
             \/ AskRefresh(f) \/ NothingToUnlock(f) \/ RefreshUnavailable(f)
             \/ RefreshDenied(f) \/ RefreshGranted(f) \/ SaveLicence(f) \/ PersistReset(f)
             \/ ResetGuard(f) \/ Install(f) \/ Finish(f)
      PROVE  FlowInv'
  BY <1>3, RefreshFlow, FlowEnded
<1>4. CASE Crash
  BY <1>4, FlowParts DEF Crash, Fits, Idle, HasSample, HasLicence
<1>5. CASE UNCHANGED vars \/ Tick \/ (\E skew \in Skews : SetClock(skew))
           \/ (\E token \in timers : TimerWakes(token))
           \/ (\E message \in inbox : Receive(message))
           \/ StatusCheck \/ RendererCommand \/ RetryMetadata \/ CloseArchive
  <2>1. flow' = flow
    BY <1>5 DEF vars, Tick, SetClock, TimerWakes, Receive, StatusCheck, RendererCommand,
                RetryMetadata, CloseArchive
  <2>2. QED
    BY <1>1, <2>1
<1>6. QED
  BY <1>2, <1>3, <1>4, <1>5 DEF Next, FlowStep

(* A flow that goes on by itself. *)
GoesTo(f, s) ==
  /\ flow'[f].step = s /\ \A g \in Flows : g # f => flow'[g] = flow[g]

(* The flow of a step that changes only the step of a flow. *)
LEMMA GoesToStep ==
  ASSUME TypeOK, NEW f \in Flows, NEW s \in Steps, flow' = [flow EXCEPT ![f].step = s]
  PROVE  GoesTo(f, s)
<1>1. FlowType
  BY TypeParts
<1>2. QED
  BY <1>1, FlowGoes DEF GoesTo

(* Every step preserves SerialInv. *)
LEMMA SerialNext ==
  ASSUME TypeOK, FlowInv, SerialInv, MarkInv, [Next]_vars
  PROVE  SerialInv'
<1>0. "open" \in Flows /\ "refresh" \in Flows /\ FlowType /\ Flows = {"open", "refresh"}
  BY TypeParts DEF Flows
<1>1. ASSUME flow' = flow, session'.serial = session.serial, spent'.opens = spent.opens
      PROVE  SerialInv'
  BY <1>1, Alone DEF NoMoreInstalls
<1>2. ASSUME NEW f \in Flows, NEW s \in Steps, GoesTo(f, s),
             flow[f].step \notin {"idle", "finish"},
             session'.serial = session.serial, spent'.opens = spent.opens
      PROVE  SerialInv'
  BY <1>2, Alone DEF NoMoreInstalls, GoesTo
<1>3. ASSUME NEW f \in Flows, EndOf(f), session'.serial = session.serial,
             spent'.opens = spent.opens
      PROVE  SerialInv'
  <2>1. flow'[f] = Idle /\ \A g \in Flows : g # f => flow'[g] = flow[g]
    BY <1>3, FlowEnded
  <2>2. QED
    BY <1>3, <2>1, Alone DEF NoMoreInstalls, Idle
<1>4. CASE UNCHANGED vars \/ Tick \/ (\E skew \in Skews : SetClock(skew))
           \/ (\E token \in timers : TimerWakes(token))
           \/ (\E message \in inbox : Receive(message))
           \/ StatusCheck \/ RendererCommand \/ RetryMetadata \/ CloseArchive
  <2>1. flow' = flow
    BY <1>4 DEF vars, Tick, SetClock, TimerWakes, Receive, StatusCheck, RendererCommand,
                RetryMetadata, CloseArchive
  <2>2. \/ session' = session \/ session' = Locked(session.serial)
        \/ session' = Empty(session.serial)
    BY <1>4 DEF vars, Tick, SetClock, TimerWakes, Receive, StatusCheck, RendererCommand,
                RetryMetadata, CloseArchive
  <2>3. spent'.opens = spent.opens
    <3>1. CASE \E skew \in Skews : SetClock(skew)
      BY <3>1, SpentGrows
    <3>2. CASE ~\E skew \in Skews : SetClock(skew)
      BY <1>4, <3>2 DEF vars, Tick, TimerWakes, Receive, StatusCheck, RendererCommand,
                        RetryMetadata, CloseArchive
    <3>3. QED
      BY <3>1, <3>2
  <2>4. QED
    BY <1>1, <2>1, <2>2, <2>3 DEF Locked, Empty
<1>5. ASSUME NEW f \in Flows, flow[f].step = "idle", NEW s \in Steps, GoesTo(f, s),
             session' = session, spent'.opens = spent.opens + 1
      PROVE  SerialInv'
  <2>1. session.serial \in Nat /\ spent.opens \in Nat
    BY SessionAssumption DEF TypeOK
  <2>2. /\ MayInstall(f) = 0 /\ MayInstall(f)' \in {0, 1}
        /\ \A g \in Flows : g # f => MayInstall(g)' = MayInstall(g)
        /\ \A g \in Flows : MayInstall(g) \in {0, 1}
    BY <1>5 DEF MayInstall, GoesTo
  <2>3. QED
    BY <1>0, <1>5, <2>1, <2>2 DEF SerialInv
<1>6. CASE ChooseArchive
  BY <1>0, <1>5, <1>6, GoesToStep, SpentGrows DEF ChooseArchive, Steps
<1>7. CASE RetryNetwork
  BY <1>0, <1>5, <1>7, GoesToStep, SpentGrows DEF RetryNetwork, Steps
<1>8. CASE OpenBegin \/ RestoreRefused \/ RestoreUnwritten
  BY <1>0, <1>2, <1>8, GoesToStep, SpentGrows
     DEF OpenBegin, RestoreRefused, RestoreUnwritten, Steps, Empty
<1>9. CASE OpenVerified
  <2>1. flow'["open"].step = "restore" /\ flow'["refresh"] = flow["refresh"]
    BY <1>0, <1>9 DEF OpenVerified, FlowType, FlowState
  <2>2. GoesTo("open", "restore") /\ session'.serial = session.serial /\ spent' = spent
    BY <1>0, <1>9, <2>1 DEF OpenVerified, GoesTo, Locked
  <2>3. QED
    BY <1>0, <1>2, <1>9, <2>2 DEF OpenVerified, Steps
<1>10. CASE RestoreObserved
  <2>1. flow'["open"].step \in {"restored", "request"} /\ flow'["refresh"] = flow["refresh"]
    BY <1>0, <1>10 DEF RestoreObserved, FlowType, FlowState
  <2>2. session' = session /\ spent' = spent /\ flow["open"].step = "restore"
    BY <1>10 DEF RestoreObserved
  <2>3. NoMoreInstalls
    BY <1>0, <2>1, <2>2 DEF NoMoreInstalls
  <2>4. QED
    BY <2>3, Alone
<1>11. ASSUME NEW f \in Flows, AskRefresh(f) \/ SaveLicence(f) \/ PersistReset(f) \/ ResetGuard(f)
       PROVE  SerialInv'
  <2>1. session' = session /\ spent' = spent /\ flow[f].step \notin {"idle", "finish"}
    BY <1>11 DEF AskRefresh, SaveLicence, PersistReset, ResetGuard
  <2>2. \E s \in Steps : flow' = [flow EXCEPT ![f].step = s]
    BY <1>11 DEF AskRefresh, SaveLicence, PersistReset, ResetGuard, Steps
  <2>3. QED
    BY <1>2, <2>1, <2>2, GoesToStep
<1>12. ASSUME NEW f \in Flows,
              \/ NothingToUnlock(f) \/ RefreshUnavailable(f) \/ RefreshDenied(f) \/ Finish(f)
       PROVE  SerialInv'
  <2>1. EndOf(f)
    BY <1>12, RefreshFlow
  <2>2. session'.serial = session.serial /\ spent' = spent
    BY <1>12 DEF NothingToUnlock, RefreshUnavailable, RefreshDenied, Finish, Locked
  <2>3. QED
    BY <1>3, <2>1, <2>2
<1>13. ASSUME NEW f \in Flows, RefreshGranted(f) PROVE SerialInv'
  <2>1. session' = session /\ spent' = spent /\ flow[f].step = "asked"
    BY <1>13 DEF RefreshGranted
  <2>2. EndOf(f) \/ flow' = [flow EXCEPT ![f] = [step |-> "save", issued |-> clock.time,
                                                 sample |-> ClockSample]]
    BY <1>13 DEF RefreshGranted, EndOf, Screens
  <2>3. EndOf(f) \/ GoesTo(f, "save")
    BY <1>0, <2>2 DEF FlowType, GoesTo
  <2>4. QED
    BY <1>2, <1>3, <2>1, <2>3 DEF Steps
<1>14. ASSUME NEW f \in Flows, Install(f) PROVE SerialInv'
  <2>1. CASE session' = session
    <3>1. EndOf(f) /\ spent' = spent
      BY <1>14, <2>1, InstalledFacts DEF Install, EndOf, Screens, Installed, TypeOK
    <3>2. QED
      BY <1>3, <2>1, <3>1
  <2>2. CASE /\ session' = Installed(flow[f].issued)
             /\ flow' = [flow EXCEPT ![f].step = "finish"]
    <3>1. GoesTo(f, "finish") /\ spent' = spent /\ flow[f].step \in {"restored", "install"}
      BY <1>14, <2>2, GoesToStep DEF Install, Steps
    <3>2. session'.serial = session.serial + 1 /\ session.serial \in Nat /\ spent.opens \in Nat
      BY <2>2, SessionAssumption DEF Installed, TypeOK
    <3>3. /\ MayInstall(f) = 1 /\ MayInstall(f)' = 0
          /\ \A g \in Flows : g # f => MayInstall(g)' = MayInstall(g)
          /\ \A g \in Flows : MayInstall(g) \in {0, 1}
      BY <3>1 DEF MayInstall, GoesTo
    <3>4. QED
      BY <1>0, <3>1, <3>2, <3>3 DEF SerialInv
  <2>3. QED
    BY <1>14, <2>1, <2>2 DEF Install
<1>15. CASE Crash
  <2>1. session'.serial = session.serial /\ spent'.opens = spent.opens
    BY <1>15, SpentGrows DEF Crash, Empty
  <2>2. \A f \in Flows : flow'[f].step = "idle"
    BY <1>15 DEF Crash, Idle
  <2>3. QED
    BY <2>1, <2>2, Alone DEF NoMoreInstalls
<1>16. QED
  BY <1>4, <1>6, <1>7, <1>8, <1>9, <1>10, <1>11, <1>12, <1>13, <1>14, <1>15 DEF Next, FlowStep

(* Every step preserves MarkInv: an observation moves guard and mark together, *)
(* and a reset lowers the guard only after the mark.                           *)
LEMMA MarkNext ==
  ASSUME TypeOK, FlowInv, SerialInv, MarkInv, [Next]_vars
  PROVE  MarkInv'
<1>0. /\ "open" \in Flows /\ "refresh" \in Flows /\ FlowType /\ Flows = {"open", "refresh"}
      /\ DurableType /\ peak \in Nat /\ durable.high \in Nat
  BY TypeParts, TimesAreNatural DEF Flows, DurableType
<1>1. ASSUME flow' = flow, durable' = durable, peak' = peak, guard' = guard PROVE MarkInv'
  BY <1>1, Alone DEF MarksAlone
<1>2. ASSUME NEW f \in Flows, NEW s \in Steps, GoesTo(f, s), flow[f].step # "reset",
             durable'.high = durable.high, peak' = peak, guard' = guard
      PROVE  MarkInv'
  BY <1>2, Alone DEF MarksAlone, GoesTo
<1>3. ASSUME NEW f \in Flows, EndOf(f), flow[f].step # "reset",
             durable' = durable, peak' = peak, guard' = guard
      PROVE  MarkInv'
  BY <1>3, EndAlone, Alone DEF MarksAlone
<1>4. CASE UNCHANGED vars \/ Tick \/ (\E skew \in Skews : SetClock(skew))
           \/ (\E token \in timers : TimerWakes(token))
           \/ (\E message \in inbox : Receive(message))
           \/ StatusCheck \/ RendererCommand \/ RetryMetadata \/ CloseArchive
  <2>1. UNCHANGED <<flow, durable, peak, guard>>
    BY <1>4 DEF vars, Tick, SetClock, TimerWakes, Receive, StatusCheck, RendererCommand,
                RetryMetadata, CloseArchive
  <2>2. QED
    BY <1>1, <2>1
<1>5. CASE ChooseArchive \/ OpenBegin
  BY <1>0, <1>2, <1>5, GoesToStep DEF ChooseArchive, OpenBegin, Steps
<1>6. CASE RetryNetwork
  BY <1>0, <1>2, <1>6, GoesToStep DEF RetryNetwork, Steps
<1>7. CASE OpenVerified
  <2>1. flow'["open"].step = "restore" /\ flow'["refresh"] = flow["refresh"]
    BY <1>0, <1>7 DEF OpenVerified, FlowType, FlowState
  <2>2. GoesTo("open", "restore") /\ UNCHANGED <<durable, peak, guard>>
    BY <1>0, <1>7, <2>1 DEF OpenVerified, GoesTo
  <2>3. QED
    BY <1>0, <1>2, <1>7, <2>2 DEF OpenVerified, Steps
<1>8. CASE RestoreObserved
  <2> DEFINE sample == flow["open"].sample
             g == LoadedGuard
  <2>1. sample \in Samples \ {NoSample}
    BY <1>8, FlowFacts DEF RestoreObserved, Flows, HasSample
  <2>2. sample.utc \in Nat
    BY <2>1, SampleFacts
  <2>3. /\ guard' = Observed(g, sample)
        /\ durable' = [durable EXCEPT !.high = HighWater(g, sample)]
        /\ peak' = IF ResetUnderWay THEN MinOf(peak, sample.utc) ELSE MaxOf(peak, sample.utc)
    BY <1>8 DEF RestoreObserved
  <2>4. /\ HighWater(g, sample) >= g.high /\ HighWater(g, sample) >= sample.utc
        /\ HighWater(g, sample) \in Walls /\ g.high \in Int
        /\ guard'.loaded /\ guard'.high = HighWater(g, sample)
    BY <2>1, <2>3, GuardFacts
  <2>5. durable'.high = HighWater(g, sample)
    BY <1>0, <2>3 DEF DurableType
  <2>6. LoadedGuard' = guard'
    BY <2>4 DEF LoadedGuard
  <2>7. HighWater(g, sample) \in Nat
    BY <2>4, TimesAreNatural
  <2>8. ~ResetUnderWay => g.high >= peak
    BY DEF MarkInv
  <2> HIDE DEF sample, g
  <2>9. peak' <= HighWater(g, sample)
    <3>1. CASE ResetUnderWay
      BY <1>0, <2>2, <2>3, <2>4, <2>7, <3>1 DEF MinOf
    <3>2. CASE ~ResetUnderWay
      BY <1>0, <2>2, <2>3, <2>4, <2>7, <2>8, <3>2 DEF MaxOf
    <3>3. QED
      BY <3>1, <3>2
  <2>10. peak' \in Int
    BY <1>0, <2>2, <2>3 DEF MinOf, MaxOf
  <2>11. durable'.high >= peak' /\ LoadedGuard'.high >= peak'
    BY <2>4, <2>5, <2>6, <2>7, <2>9, <2>10
  <2>12. QED
    BY <2>11 DEF MarkInv
<1>9. CASE RestoreRefused
  <2>1. GoesTo("open", "request") /\ flow["open"].step = "restore"
    BY <1>0, <1>9, GoesToStep DEF RestoreRefused, Steps
  <2>2. ResetUnderWay => ResetUnderWay'
    BY <1>0, <2>1 DEF ResetUnderWay, GoesTo
  <2>3. guard' = LoadedGuard /\ durable' = durable /\ peak' = peak
    BY <1>9 DEF RestoreRefused
  <2>4. LoadedGuard' = LoadedGuard
    BY <2>3, GuardFacts DEF LoadedGuard
  <2>5. QED
    BY <2>2, <2>3, <2>4 DEF MarkInv
<1>10. ASSUME NEW f \in Flows, AskRefresh(f) PROVE MarkInv'
  BY <1>2, <1>10, GoesToStep DEF AskRefresh, Steps
<1>11. ASSUME NEW f \in Flows,
              \/ NothingToUnlock(f) \/ RefreshUnavailable(f) \/ RefreshDenied(f) \/ Finish(f)
       PROVE  MarkInv'
  <2>1. EndOf(f)
    BY <1>11, RefreshFlow
  <2>2. UNCHANGED <<durable, peak, guard>> /\ flow[f].step # "reset"
    BY <1>11 DEF NothingToUnlock, RefreshUnavailable, RefreshDenied, Finish
  <2>3. QED
    BY <1>3, <2>1, <2>2
<1>12. ASSUME NEW f \in Flows, RefreshGranted(f) PROVE MarkInv'
  <2>1. UNCHANGED <<durable, peak, guard>> /\ flow[f].step = "asked"
    BY <1>12 DEF RefreshGranted
  <2>2. EndOf(f) \/ flow' = [flow EXCEPT ![f] = [step |-> "save", issued |-> clock.time,
                                                 sample |-> ClockSample]]
    BY <1>12 DEF RefreshGranted, EndOf, Screens
  <2>3. EndOf(f) \/ GoesTo(f, "save")
    BY <1>0, <2>2 DEF FlowType, GoesTo
  <2>4. QED
    BY <1>2, <1>3, <2>1, <2>3 DEF Steps
<1>13. ASSUME NEW f \in Flows, SaveLicence(f) PROVE MarkInv'
  <2>1. GoesTo(f, "persist") /\ flow[f].step = "save"
    BY <1>13, GoesToStep DEF SaveLicence, Steps
  <2>2. durable'.high = durable.high /\ peak' = peak /\ guard' = guard
    BY <1>0, <1>13 DEF SaveLicence, DurableType
  <2>3. QED
    BY <1>2, <2>1, <2>2 DEF Steps
<1>14. ASSUME NEW f \in Flows, PersistReset(f) PROVE MarkInv'
  <2>1. flow[f].sample.utc \in Nat
    BY <1>14, FlowFacts, SampleFacts DEF PersistReset, HasSample
  <2>2. GoesTo(f, "reset")
    BY <1>14, GoesToStep DEF PersistReset, Steps
  <2>3. ResetUnderWay'
    BY <2>2 DEF GoesTo, ResetUnderWay
  <2>4. durable'.high = flow[f].sample.utc /\ peak' = flow[f].sample.utc
    BY <1>0, <1>14 DEF PersistReset, DurableType
  <2>5. QED
    BY <2>1, <2>3, <2>4 DEF MarkInv
<1>15. ASSUME NEW f \in Flows, ResetGuard(f) PROVE MarkInv'
  <2>1. flow[f].sample.utc \in Nat
    BY <1>15, FlowFacts, SampleFacts DEF ResetGuard, HasSample
  <2>2. /\ guard' = Observed(Restored(NoTime), flow[f].sample)
        /\ peak' = MinOf(peak, flow[f].sample.utc) /\ durable' = durable
    BY <1>15 DEF ResetGuard
  <2>3. HighWater(Restored(NoTime), flow[f].sample) = flow[f].sample.utc
    BY <2>1 DEF HighWater, Restored, MaxOf, NoTime
  <2>4. guard'.loaded /\ guard'.high = flow[f].sample.utc
    BY <2>2, <2>3 DEF Observed
  <2>5. LoadedGuard' = guard'
    BY <2>4 DEF LoadedGuard
  <2>6. peak' \in Int /\ peak' <= peak /\ peak' <= flow[f].sample.utc
    BY <1>0, <2>1, <2>2 DEF MinOf
  <2>7. durable'.high >= peak' /\ LoadedGuard'.high >= peak'
    BY <1>0, <2>1, <2>2, <2>4, <2>5, <2>6 DEF MarkInv
  <2>8. QED
    BY <2>7 DEF MarkInv
<1>16. ASSUME NEW f \in Flows, Install(f) PROVE MarkInv'
  <2>1. UNCHANGED <<durable, peak, guard>> /\ flow[f].step # "reset"
    BY <1>16 DEF Install
  <2>2. EndOf(f) \/ flow' = [flow EXCEPT ![f].step = "finish"]
    BY <1>16 DEF Install, EndOf, Screens
  <2>3. EndOf(f) \/ GoesTo(f, "finish")
    BY <2>2, GoesToStep DEF Steps
  <2>4. QED
    BY <1>2, <1>3, <2>1, <2>3 DEF Steps
<1>17. CASE Crash
  <2>1. durable' = durable /\ peak' = peak /\ ~guard'.loaded
    BY <1>17 DEF Crash, NoGuard
  <2>2. LoadedGuard'.high = durable.high
    BY <2>1 DEF LoadedGuard, Restored
  <2>3. QED
    BY <2>1, <2>2 DEF MarkInv
<1>18. CASE RestoreUnwritten
  <2> DEFINE sample == flow["open"].sample
             g == LoadedGuard
  <2>1. sample \in Samples \ {NoSample}
    BY <1>18, FlowFacts DEF RestoreUnwritten, Flows, HasSample
  <2>2. GoesTo("open", "request") /\ flow["open"].step = "restore"
    BY <1>0, <1>18, GoesToStep DEF RestoreUnwritten, Steps
  <2>3. ResetUnderWay => ResetUnderWay'
    BY <1>0, <2>2 DEF ResetUnderWay, GoesTo
  <2>4. guard' = Observed(g, sample) /\ durable' = durable /\ peak' = peak
    BY <1>18 DEF RestoreUnwritten
  <2>5. /\ HighWater(g, sample) >= g.high /\ HighWater(g, sample) \in Walls /\ g.high \in Int
        /\ guard'.loaded /\ guard'.high = HighWater(g, sample)
    BY <2>1, <2>4, GuardFacts
  <2>6. LoadedGuard' = guard' /\ HighWater(g, sample) \in Nat
    BY <2>5, TimesAreNatural DEF LoadedGuard
  <2>7. ~ResetUnderWay => g.high >= peak /\ durable.high >= peak
    BY DEF MarkInv
  <2> HIDE DEF sample, g
  <2>8. ~ResetUnderWay' => LoadedGuard'.high >= peak' /\ durable'.high >= peak'
    BY <1>0, <2>3, <2>4, <2>5, <2>6, <2>7
  <2>9. QED
    BY <1>0, <2>4, <2>8 DEF MarkInv
<1>19. QED
  BY <1>4, <1>5, <1>6, <1>7, <1>8, <1>9, <1>10, <1>11, <1>12, <1>13, <1>14, <1>15, <1>16, <1>17,
     <1>18
     DEF Next, FlowStep

(* The invariant holds initially, and every step preserves it. *)
LEMMA Invariance == Spec => []IInv
<1>1. Init => IInv
  <2> SUFFICES ASSUME Init PROVE IInv
    OBVIOUS
  <2>1. TypeOK
    BY TypeInit
  <2>2. FlowInv
    BY FlowParts DEF Init, Fits, Idle, HasSample, HasLicence
  <2>3. SerialInv
    BY DEF Init, SerialInv, MayInstall, Idle, Empty, Flows
  <2>4. MarkInv
    BY SessionAssumption DEF Init, MarkInv, LoadedGuard, NoGuard, Restored
  <2>5. QED
    BY <2>1, <2>2, <2>3, <2>4 DEF IInv
<1>2. IInv /\ [Next]_vars => IInv'
  BY TypeNext, FlowNext, SerialNext, MarkNext DEF IInv
<1>3. QED
  BY <1>1, <1>2, PTL DEF Spec

-------------------------------------------------------------------------------
(* The theorems *)

(* Every variable stays in its type. *)
THEOREM TypeCorrect == Spec => []TypeOK
<1>1. IInv => TypeOK
  BY DEF IInv
<1>2. QED
  BY <1>1, Invariance, PTL

(* However the clock is set, and the process restarted: an archive is opened   *)
(* without the backend only within the tolerance of the greatest time that was *)
(* validated since the last online refresh.                                    *)
THEOREM BoundedRollback == Spec => RollbackIsBounded
<1>1. ASSUME IInv, [Next]_vars, flow["open"].step = "restore", flow'["open"].step = "restored",
             ~ResetUnderWay
      PROVE  flow["open"].sample.utc + Tolerance >= peak
  <2> DEFINE sample == flow["open"].sample
  <2>0. TypeOK /\ FlowInv /\ FlowType /\ Flows = {"open", "refresh"}
    BY <1>1, TypeParts DEF IInv, Flows
  <2>1. RestoreObserved
    <3>1. CASE UNCHANGED vars \/ Tick \/ (\E skew \in Skews : SetClock(skew))
               \/ (\E token \in timers : TimerWakes(token))
               \/ (\E message \in inbox : Receive(message))
               \/ StatusCheck \/ RendererCommand \/ RetryMetadata \/ CloseArchive
      <4>1. flow' = flow
        BY <3>1 DEF vars, Tick, SetClock, TimerWakes, Receive, StatusCheck, RendererCommand,
                    RetryMetadata, CloseArchive
      <4>2. QED
        BY <1>1, <4>1
    <3>2. CASE ChooseArchive \/ OpenBegin \/ OpenVerified
      BY <1>1, <3>2 DEF ChooseArchive, OpenBegin, OpenVerified
    <3>3. CASE RestoreRefused \/ RestoreUnwritten
      <4>1. GoesTo("open", "request")
        BY <2>0, <3>3, GoesToStep DEF RestoreRefused, RestoreUnwritten, Steps
      <4>2. QED
        BY <1>1, <4>1 DEF GoesTo
    <3>4. CASE RetryNetwork
      <4>1. GoesTo("refresh", "request")
        BY <2>0, <3>4, GoesToStep DEF RetryNetwork, Steps
      <4>2. QED
        BY <1>1, <2>0, <4>1 DEF GoesTo
    <3>5. ASSUME NEW f \in Flows,
                 AskRefresh(f) \/ SaveLicence(f) \/ PersistReset(f) \/ ResetGuard(f)
          PROVE  FALSE
      <4>1. \E s \in Steps \ {"restored"} : flow' = [flow EXCEPT ![f].step = s]
        BY <3>5 DEF AskRefresh, SaveLicence, PersistReset, ResetGuard, Steps
      <4>2. QED
        BY <1>1, <2>0, <4>1, GoesToStep DEF GoesTo
    <3>6. ASSUME NEW f \in Flows, EndOf(f) PROVE FALSE
      BY <1>1, <2>0, <3>6, FlowEnded DEF Idle
    <3>7. ASSUME NEW f \in Flows, NothingToUnlock(f) \/ RefreshUnavailable(f)
                 \/ RefreshDenied(f) \/ Finish(f)
          PROVE  FALSE
      BY <2>0, <3>6, <3>7, RefreshFlow
    <3>8. ASSUME NEW f \in Flows, RefreshGranted(f) PROVE FALSE
      <4>1. EndOf(f) \/ flow' = [flow EXCEPT ![f] = [step |-> "save", issued |-> clock.time,
                                                     sample |-> ClockSample]]
        BY <3>8 DEF RefreshGranted, EndOf, Screens
      <4>2. EndOf(f) \/ GoesTo(f, "save")
        BY <2>0, <4>1 DEF FlowType, GoesTo
      <4>3. QED
        BY <1>1, <2>0, <3>6, <4>2 DEF GoesTo
    <3>9. ASSUME NEW f \in Flows, Install(f) PROVE FALSE
      <4>1. EndOf(f) \/ flow' = [flow EXCEPT ![f].step = "finish"]
        BY <3>9 DEF Install, EndOf, Screens
      <4>2. EndOf(f) \/ GoesTo(f, "finish")
        BY <2>0, <4>1, GoesToStep DEF Steps
      <4>3. QED
        BY <1>1, <2>0, <3>6, <4>2 DEF GoesTo
    <3>10. CASE Crash
      BY <1>1, <2>0, <3>10 DEF Crash, Idle
    <3>11. QED
      BY <1>1, <3>1, <3>2, <3>3, <3>4, <3>5, <3>7, <3>8, <3>9, <3>10 DEF Next, FlowStep
  <2>2. Observable(LoadedGuard, sample)
    BY <2>1 DEF RestoreObserved
  <2>3. sample.utc + Tolerance >= LoadedGuard.high
    BY <2>2 DEF Observable
  <2>4. LoadedGuard.high >= peak /\ LoadedGuard.high \in Int
    BY <1>1, <2>0, GuardFacts DEF IInv, MarkInv
  <2>5. peak \in Nat
    BY <2>0, TimesAreNatural DEF TypeOK
  <2>6. sample.utc \in Nat
    BY <2>0, <2>1, FlowFacts, SampleFacts DEF RestoreObserved, HasSample
  <2> HIDE DEF sample
  <2>7. sample.utc + Tolerance >= peak
    BY <2>3, <2>4, <2>5, <2>6, SessionAssumption
  <2>8. QED
    BY <2>7 DEF sample
<1>2. QED
  BY <1>1, Invariance, PTL DEF Spec, RollbackIsBounded
=============================================================================
