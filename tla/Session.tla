-------------------------------- MODULE Session -------------------------------
(* The unlocked session of the Viewer in time: the offline window of the       *)
(* stored licence, the guard against a clock that is set back, the timers that *)
(* end a session at its deadline, and the screen the interface keeps beside    *)
(* the session.  One archive; whether it was paid, and what its licence may    *)
(* open, is the matter of Viewer.                                              *)
(*                                                                             *)
(* time is true time, which the process's monotonic clock and the backend      *)
(* follow; the wall clock is off by skew, which the user may change.           *)
EXTENDS Integers, FiniteSets

CONSTANTS
  Window,        \* OFFLINE_WINDOW_SECONDS
  Tolerance,     \* CLOCK_ROLLBACK_TOLERANCE_SECONDS
  Skews,         \* how far off the wall clock may be
  StartTime, MaxTime,  \* bound: the span of time looked at
  MaxSets,       \* bound: changes of the wall clock
  MaxOpens,      \* bound: openings and refreshes
  MaxCrashes     \* bound: restarts of the process, marks that cannot be stored

NoTime == -1

ASSUME SessionAssumption ==
  /\ Window \in Nat \ {0} /\ Tolerance \in Nat
  /\ Skews \subseteq Int /\ 0 \in Skews
  /\ StartTime \in Nat /\ MaxTime \in Nat /\ StartTime <= MaxTime
  /\ \A skew \in Skews : StartTime + skew >= 0
  /\ MaxSets \in Nat /\ MaxOpens \in Nat /\ MaxCrashes \in Nat

VARIABLES
  clock,         \* time, skew
  durable,       \* the secure store: the issue time of the licence, the high-water mark
  guard,         \* RollbackManager's guard, once loaded: high-water mark, last sample
  session,       \* SessionState: its state, serial and offline deadline
  timers,        \* the tasks of arm_protected_deadline
  flow,          \* the opening and the refresh under way, and the licence they got
  screen,        \* the state the interface shows
  inbox,         \* answers and events on their way to the interface
  peak,          \* history: the greatest wall time validated since the last online
                 \* reset, or of the two the lesser when one validates beside the other
  spent          \* bounds: clock changes, openings, crashes and lost marks so far

vars == <<clock, durable, guard, session, timers, flow, screen, inbox, peak, spent>>

Wall == clock.time + clock.skew
Times == StartTime..MaxTime
Walls == {t + s : t \in Times, s \in Skews}
Flows == {"open", "refresh"}
Steps == {"idle", "begin", "verify", "restore", "restored",
          "request", "asked", "save", "persist", "reset", "install", "finish"}
Screens == {"idle", "opening", "locked", "unlocked", "refresh_required", "refreshing",
            "backend_unavailable", "error"}

MaxOf(a, b) == IF a > b THEN a ELSE b
MinOf(a, b) == IF a < b THEN a ELSE b

NoSample == [utc |-> NoTime, mono |-> NoTime]
ClockSample == [utc |-> Wall, mono |-> clock.time]

NoGuard == [loaded |-> FALSE, high |-> NoTime, last |-> NoSample]
Empty(serial) == [state |-> "empty", serial |-> serial, deadline |-> NoTime]
Locked(serial) == [state |-> "locked", serial |-> serial, deadline |-> NoTime]
Idle == [step |-> "idle", issued |-> NoTime, sample |-> NoSample]

(* The device was activated at StartTime, when its clock was right. *)
Init ==
  /\ clock = [time |-> StartTime, skew |-> 0]
  /\ durable = [licence |-> StartTime, high |-> StartTime]
  /\ guard = NoGuard
  /\ session = Empty(0)
  /\ timers = {}
  /\ flow = [f \in Flows |-> Idle]
  /\ screen = "idle"
  /\ inbox = {}
  /\ peak = StartTime
  /\ spent = [sets |-> 0, opens |-> 0, crashes |-> 0]

-------------------------------------------------------------------------------
(* Time *)

Tick ==
  /\ clock.time < MaxTime
  /\ clock' = [clock EXCEPT !.time = @ + 1]
  /\ UNCHANGED <<durable, guard, session, timers, flow, screen, inbox, peak, spent>>

SetClock(skew) ==
  /\ spent.sets < MaxSets /\ skew # clock.skew
  /\ clock' = [clock EXCEPT !.skew = skew]
  /\ spent' = [spent EXCEPT !.sets = @ + 1]
  /\ UNCHANGED <<durable, guard, session, timers, flow, screen, inbox, peak>>

-------------------------------------------------------------------------------
(* The guard: RollbackGuard::observe, and the manager that loads and persists  *)
(* it.  A missing mark (NoTime) is behind every time.                          *)

Restored(mark) == [loaded |-> TRUE, high |-> mark, last |-> NoSample]
LoadedGuard == IF guard.loaded THEN guard ELSE Restored(durable.high)

Observable(g, sample) ==
  /\ sample.utc + Tolerance >= g.high
  /\ g.last # NoSample =>
       /\ sample.mono >= g.last.mono
       /\ sample.utc + Tolerance >= g.last.utc + (sample.mono - g.last.mono)

HighWaterLast(g, sample) == sample.utc   \* a mutant of HighWater: the mark follows the clock
HighWater(g, sample) == MaxOf(g.high, sample.utc)
Observed(g, sample) == [loaded |-> TRUE, high |-> HighWater(g, sample), last |-> sample]

-------------------------------------------------------------------------------
(* Sessions and timers *)

Overdue == session.state = "unlocked" /\ Wall >= session.deadline

InWindow(issued, utc) == issued <= utc /\ utc < issued + Window

Installed(issued) ==
  [state |-> "unlocked", serial |-> session.serial + 1, deadline |-> issued + Window]

(* arm_protected_deadline takes the token of the session it finds, and sleeps  *)
(* for as long as the wall clock is short of the deadline.                     *)
Token == [serial |-> session.serial, deadline |-> session.deadline,
          wake |-> MinOf(MaxTime, clock.time + MaxOf(0, session.deadline - Wall))]

Expires(token) ==
  /\ session.state = "unlocked"
  /\ session.serial = token.serial /\ session.deadline = token.deadline
  /\ Wall >= session.deadline

\* A mutant of SleepsOn: the loop ends at its first early awakening.
SleepsOnNever(token) == FALSE

(* The clock was set back while the timer slept: it sleeps on. *)
SleepsOn(token) == Wall < token.deadline

TimerWakes(token) ==
  /\ clock.time >= token.wake
  /\ \/ /\ Expires(token)
        /\ session' = Locked(session.serial)
        /\ inbox' = inbox \cup {"expired"}
        /\ timers' = timers \ {token}
     \/ /\ ~Expires(token) /\ SleepsOn(token)
        /\ timers' = (timers \ {token}) \cup
             {[token EXCEPT !.wake = MinOf(MaxTime, clock.time + (token.deadline - Wall))]}
        /\ UNCHANGED <<session, inbox>>
     \/ /\ ~Expires(token) /\ ~SleepsOn(token)
        /\ timers' = timers \ {token}
        /\ UNCHANGED <<session, inbox>>
  /\ UNCHANGED <<clock, durable, guard, flow, screen, peak, spent>>

-------------------------------------------------------------------------------
(* An opening: the archive chosen by the user, given at startup or by a second *)
(* instance of the program; the screen shows that it is being opened.          *)

ChooseArchive ==
  /\ spent.opens < MaxOpens
  /\ flow["open"].step = "idle"
  /\ flow' = [flow EXCEPT !["open"].step = "begin"]
  /\ screen' = "opening"
  /\ spent' = [spent EXCEPT !.opens = @ + 1]
  /\ UNCHANGED <<clock, durable, guard, session, timers, inbox, peak>>

OpenBegin ==
  /\ flow["open"].step = "begin"
  /\ session' = Empty(session.serial)
  /\ flow' = [flow EXCEPT !["open"].step = "verify"]
  /\ UNCHANGED <<clock, durable, guard, timers, screen, inbox, peak, spent>>

(* The clock is sampled once for the rest of the opening. *)
OpenVerified ==
  /\ flow["open"].step = "verify"
  /\ session' = Locked(session.serial)
  /\ flow' = [flow EXCEPT !["open"] = [@ EXCEPT !.step = "restore", !.sample = ClockSample]]
  /\ UNCHANGED <<clock, durable, guard, timers, screen, inbox, peak, spent>>

Ends(f, message) ==
  /\ flow' = [flow EXCEPT ![f] = Idle]
  /\ inbox' = inbox \cup {message}

ResetUnderWay == \E f \in Flows : flow[f].step = "reset"

(* restore_local_license: the sample is observed, then the stored licence is   *)
(* validated for it.  The guard's mutex is not held between the two steps of a *)
(* reset: what an opening observes then overwrites the mark just persisted.    *)
RestoreObserved ==
  /\ flow["open"].step = "restore" /\ session.state = "locked"
  /\ LET sample == flow["open"].sample IN
       /\ Observable(LoadedGuard, sample)
       /\ guard' = Observed(LoadedGuard, sample)
       /\ durable' = [durable EXCEPT !.high = HighWater(LoadedGuard, sample)]
       /\ peak' = IF ResetUnderWay THEN MinOf(peak, sample.utc) ELSE MaxOf(peak, sample.utc)
       /\ flow' = [flow EXCEPT !["open"] =
            IF InWindow(durable.licence, sample.utc)
              THEN [@ EXCEPT !.step = "restored", !.issued = durable.licence]
              ELSE [@ EXCEPT !.step = "request"]]
  /\ UNCHANGED <<clock, session, timers, screen, inbox, spent>>

RestoreRefused ==
  /\ flow["open"].step = "restore" /\ session.state = "locked"
  /\ ~Observable(LoadedGuard, flow["open"].sample)
  /\ guard' = LoadedGuard
  /\ flow' = [flow EXCEPT !["open"].step = "request"]
  /\ UNCHANGED <<clock, durable, session, timers, screen, inbox, peak, spent>>

(* The guard has observed the sample, and its mark cannot be stored. *)
RestoreUnwritten ==
  /\ flow["open"].step = "restore" /\ session.state = "locked"
  /\ Observable(LoadedGuard, flow["open"].sample)
  /\ guard' = Observed(LoadedGuard, flow["open"].sample)
  /\ flow' = [flow EXCEPT !["open"].step = "request"]
  /\ spent.crashes < MaxCrashes /\ spent' = [spent EXCEPT !.crashes = @ + 1]
  /\ UNCHANGED <<clock, durable, session, timers, screen, inbox, peak>>

-------------------------------------------------------------------------------
(* A refresh: by the opening that could not restore, or by the user.  The      *)
(* operation lock is held from the request to the installation.                *)

RetryNetwork ==
  /\ spent.opens < MaxOpens
  /\ screen = "refresh_required"
  /\ flow["refresh"].step = "idle"
  /\ screen' = "refreshing"
  /\ flow' = [flow EXCEPT !["refresh"].step = "request"]
  /\ spent' = [spent EXCEPT !.opens = @ + 1]
  /\ UNCHANGED <<clock, durable, guard, session, timers, inbox, peak>>

OperationFree ==
  \A f \in Flows : flow[f].step \notin {"asked", "save", "persist", "reset", "install"}

(* Both a restoration and a refresh want a locked archive to begin with. *)
AskRefresh(f) ==
  /\ flow[f].step = "request" /\ OperationFree
  /\ session.state = "locked"
  /\ flow' = [flow EXCEPT ![f].step = "asked"]
  /\ UNCHANGED <<clock, durable, guard, session, timers, screen, inbox, peak, spent>>

NothingToUnlock(f) ==
  /\ flow[f].step = "restore" \/ (flow[f].step = "request" /\ OperationFree)
  /\ session.state # "locked"
  /\ Ends(f, "error")
  /\ UNCHANGED <<clock, durable, guard, session, timers, screen, peak, spent>>

RefreshUnavailable(f) ==
  /\ flow[f].step = "asked"
  /\ Ends(f, IF f = "open" THEN "refresh_required" ELSE "backend_unavailable")
  /\ UNCHANGED <<clock, durable, guard, session, timers, screen, peak, spent>>

(* An answer that will not change locks whatever session it finds. *)
RefreshDenied(f) ==
  /\ flow[f].step = "asked"
  /\ session' = IF session.state = "unlocked" THEN Locked(session.serial) ELSE session
  /\ Ends(f, "error")
  /\ UNCHANGED <<clock, durable, guard, timers, screen, peak, spent>>

(* The backend issues the licence now; the clock is sampled when it arrives. *)
RefreshGranted(f) ==
  /\ flow[f].step = "asked"
  /\ IF InWindow(clock.time, Wall)
       THEN /\ flow' = [flow EXCEPT ![f] =
                  [step |-> "save", issued |-> clock.time, sample |-> ClockSample]]
            /\ UNCHANGED inbox
       ELSE Ends(f, "error")
  /\ UNCHANGED <<clock, durable, guard, session, timers, screen, peak, spent>>

SaveLicence(f) ==
  /\ flow[f].step = "save"
  /\ durable' = [durable EXCEPT !.licence = flow[f].issued]
  /\ flow' = [flow EXCEPT ![f].step = "persist"]
  /\ UNCHANGED <<clock, guard, session, timers, screen, inbox, peak, spent>>

(* reset_after_online_refresh: a new guard observes the sample; its mark is    *)
(* persisted before the guard takes the place of the old one.                  *)
PersistReset(f) ==
  /\ flow[f].step = "persist"
  /\ durable' = [durable EXCEPT !.high = flow[f].sample.utc]
  /\ peak' = flow[f].sample.utc
  /\ flow' = [flow EXCEPT ![f].step = "reset"]
  /\ UNCHANGED <<clock, guard, session, timers, screen, inbox, spent>>

ResetGuard(f) ==
  /\ flow[f].step = "reset"
  /\ guard' = Observed(Restored(NoTime), flow[f].sample)
  /\ peak' = MinOf(peak, flow[f].sample.utc)
  /\ flow' = [flow EXCEPT ![f].step = "install"]
  /\ UNCHANGED <<clock, durable, session, timers, screen, inbox, spent>>

(* install_unwrapped, for a restored licence and for a refreshed one *)
Install(f) ==
  /\ flow[f].step \in {"restored", "install"}
  /\ IF session.state = "empty"
       THEN Ends(f, "error") /\ UNCHANGED session
       ELSE /\ session' = Installed(flow[f].issued)
            /\ flow' = [flow EXCEPT ![f].step = "finish"]
            /\ UNCHANGED inbox
  /\ UNCHANGED <<clock, durable, guard, timers, screen, peak, spent>>

(* unlocked_snapshot asks the session for its files at the time of the flow's  *)
(* sample; the command arms a timer for the session, and the snapshot goes to  *)
(* the interface.                                                              *)
Finish(f) ==
  /\ flow[f].step = "finish"
  /\ \/ /\ session.state = "unlocked" /\ flow[f].sample.utc < session.deadline
        /\ timers' = timers \cup {Token}
        /\ Ends(f, "unlocked")
        /\ UNCHANGED session
     \/ /\ session.state = "unlocked" /\ flow[f].sample.utc >= session.deadline
        /\ session' = Locked(session.serial)
        /\ Ends(f, "refresh_required")
        /\ UNCHANGED timers
     \/ /\ session.state # "unlocked"
        /\ Ends(f, "error")
        /\ UNCHANGED <<session, timers>>
  /\ UNCHANGED <<clock, durable, guard, screen, peak, spent>>

-------------------------------------------------------------------------------
(* The interface *)

(* A snapshot, an error or the event of an expired session is applied to       *)
(* whatever screen it finds.                                                   *)
Shows(message) == IF message = "expired" THEN "refresh_required" ELSE message

Receive(message) ==
  /\ message \in inbox
  /\ inbox' = inbox \ {message}
  /\ screen' = Shows(message)
  /\ UNCHANGED <<clock, durable, guard, session, timers, flow, peak, spent>>

(* protected_session_status, every 15 seconds and when the window regains the  *)
(* focus, while files are shown.                                               *)
StatusCheck ==
  /\ screen = "unlocked"
  /\ Overdue
  /\ session' = Locked(session.serial)
  /\ screen' = "refresh_required"
  /\ UNCHANGED <<clock, durable, guard, timers, flow, inbox, peak, spent>>

(* A renderer's command past the deadline locks the session; its error stays   *)
(* in the viewer that asked.                                                   *)
RendererCommand ==
  /\ screen = "unlocked"
  /\ Overdue
  /\ session' = Locked(session.serial)
  /\ UNCHANGED <<clock, durable, guard, timers, flow, screen, inbox, peak, spent>>

(* After a refresh that found no backend, Retry asks for the archive's         *)
(* metadata, and the answer shows the archive as locked.                       *)
RetryMetadata ==
  /\ screen = "backend_unavailable"
  /\ session.state # "empty"
  /\ screen' = "locked"
  /\ UNCHANGED <<clock, durable, guard, session, timers, flow, inbox, peak, spent>>

CloseArchive ==
  /\ screen \notin {"idle", "opening", "refreshing"}
  /\ screen' = "idle"
  /\ session' = Empty(session.serial)
  /\ UNCHANGED <<clock, durable, guard, timers, flow, inbox, peak, spent>>

Crash ==
  /\ spent.crashes < MaxCrashes
  /\ spent' = [spent EXCEPT !.crashes = @ + 1]
  /\ guard' = NoGuard
  /\ session' = Empty(session.serial)
  /\ timers' = {}
  /\ flow' = [f \in Flows |-> Idle]
  /\ screen' = "idle"
  /\ inbox' = {}
  /\ UNCHANGED <<clock, durable, peak>>

-------------------------------------------------------------------------------
FlowStep ==
  \/ OpenBegin \/ OpenVerified \/ RestoreObserved \/ RestoreRefused
  \/ \E f \in Flows :
       \/ AskRefresh(f) \/ NothingToUnlock(f) \/ RefreshUnavailable(f)
       \/ RefreshDenied(f) \/ RefreshGranted(f)
       \/ SaveLicence(f) \/ PersistReset(f) \/ ResetGuard(f)
       \/ Install(f) \/ Finish(f)

Next ==
  \/ Tick
  \/ \E skew \in Skews : SetClock(skew)
  \/ \E token \in timers : TimerWakes(token)
  \/ ChooseArchive \/ RetryNetwork
  \/ FlowStep
  \/ \E message \in inbox : Receive(message)
  \/ StatusCheck \/ RendererCommand \/ RetryMetadata \/ CloseArchive
  \/ RestoreUnwritten \/ Crash

(* Time passes, the runtime runs the tasks it was given, the bridge delivers,  *)
(* and the interval of the interface goes off.                                 *)
Fairness ==
  /\ WF_vars(Tick)
  /\ WF_vars(\E token \in timers : TimerWakes(token))
  /\ WF_vars(FlowStep)
  /\ WF_vars(\E message \in inbox : Receive(message))

Spec == Init /\ [][Next]_vars
FairSpec == Spec /\ Fairness
FairInterfaceSpec == FairSpec /\ WF_vars(StatusCheck)

-------------------------------------------------------------------------------
Samples == {NoSample} \cup [utc : Walls, mono : Times]

TypeOK ==
  /\ clock \in [time : Times, skew : Skews]
  /\ durable \in [licence : Times, high : Walls]
  /\ guard \in [loaded : BOOLEAN, high : Walls \cup {NoTime},
                last : Samples]
  /\ session \in [state : {"empty", "locked", "unlocked"}, serial : 0..MaxOpens,
                  deadline : {NoTime} \cup {t + Window : t \in Times}]
  /\ (session.state = "unlocked") = (session.deadline # NoTime)
  /\ timers \subseteq [serial : 0..MaxOpens, deadline : {t + Window : t \in Times},
                       wake : Times]
  /\ flow \in [Flows -> [step : Steps, issued : Times \cup {NoTime}, sample : Samples]]
  /\ screen \in Screens
  /\ inbox \subseteq Screens \cup {"expired"}
  /\ peak \in Walls
  /\ spent \in [sets : 0..MaxSets, opens : 0..MaxOpens, crashes : 0..MaxCrashes]

(* The archive is opened without the backend only while the wall clock is not  *)
(* further than the tolerance behind the greatest time validated since the     *)
(* last online refresh, however often the clock is set back a little at a time *)
(* and the process restarted in between (docs/API.md:924-932, license.rs:432). *)
(* Only an opening between the two steps of a reset still meets the old guard. *)
RollbackIsBounded ==
  [][(flow["open"].step = "restore" /\ flow'["open"].step = "restored" /\ ~ResetUnderWay)
       => flow["open"].sample.utc + Tolerance >= peak]_vars

(* docs/API.md:924-925: the secure storage "maintains the greatest validated   *)
(* UTC observation": between resets its mark never falls.                      *)
MarkOnlyGrows ==
  [][durable'.high >= durable.high
       \/ \E f \in Flows : flow[f].step = "persist" /\ flow'[f].step = "reset"]_vars

(* An unlocked session does not stay past its deadline: whatever the clock did *)
(* in the meantime, the timer armed for it wakes and ends it, without help     *)
(* from the interface (docs/API.md:918-922, lib.rs:753-798).                   *)
OverdueSessionEnds == []<>(~Overdue)

(* docs/API.md:918-922 and SECURITY.md:428: at the deadline the protected      *)
(* views are closed.  When the session has been locked, the screen leaves the  *)
(* state in which it shows its files.                                          *)
ScreenFollowsSession ==
  []((screen = "unlocked" /\ session.state = "locked")
       => <>(screen # "unlocked" \/ session.state # "locked"))

-------------------------------------------------------------------------------
(* The inductive invariant *)

(* A flow has sampled the clock before it observes or finishes, and has a      *)
(* licence before it saves or installs one.                                    *)
FlowInv ==
  \A f \in Flows :
    /\ flow[f].step \in {"restore", "restored", "save", "persist", "reset", "install", "finish"}
         => flow[f].sample # NoSample
    /\ flow[f].step \in {"restored", "save", "persist", "reset", "install"}
         => flow[f].issued # NoTime

(* Each opening or refresh installs at most one session. *)
MayInstall(f) == IF flow[f].step \in {"idle", "finish"} THEN 0 ELSE 1
SerialInv == session.serial + MayInstall("open") + MayInstall("refresh") <= spent.opens

(* Neither the stored mark nor, except in the middle of a reset, the guard is  *)
(* behind what has been validated.                                             *)
MarkInv ==
  /\ durable.high >= peak
  /\ ~ResetUnderWay => LoadedGuard.high >= peak

IInv == TypeOK /\ FlowInv /\ SerialInv /\ MarkInv
=============================================================================
