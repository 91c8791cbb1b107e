--------------------------- MODULE DailyTimePolicy ---------------------------
(***************************************************************************)
(* DailyTimePolicyStore (src/launcher/src/daily_time_policy.cpp): the      *)
(* SQLite tables that hold each child's daily allowance, and the           *)
(* operations on them, each one a transaction.  Around the store stand     *)
(* the clocks it samples and a caller that keeps to the accounting         *)
(* contract: it charges a running game at least every CheckpointEvery, it  *)
(* stops the game when a decision says so, and the process may die between *)
(* any two operations.                                                     *)
(*                                                                         *)
(* One tick stands for one second of either clock.  A table is a set of    *)
(* rows or a function of its key; a missing row has the value the code     *)
(* reads in its place.                                                     *)
(***************************************************************************)
EXTENDS Integers, FiniteSets

CONSTANTS
  Profiles,         \* child profiles
  Allowances,       \* the allowances a parent chooses from
  Warnings,         \* remaining times that raise a notice (10, 5, 1 minutes)
  RecoveryCap,      \* kRecoveryCheckpointMilliseconds
  CheckpointEvery,  \* the longest a caller lets a game run uncharged
  MaxUtc,           \* bound on the wall clock
  MaxMono,          \* bound on the monotonic clock since boot
  Dates,            \* local calendar dates, in order
  Zones,            \* time zones the device may be set to
  Calendar,         \* Calendar[z][t]: the local date at instant t in zone z
  NoPlay

Instants == 0..MaxUtc

ASSUME PolicyAssumption ==
  /\ Allowances \subseteq Nat \ {0}
  /\ Warnings \subseteq Nat \ {0}
  /\ RecoveryCap \in Nat \ {0}
  /\ CheckpointEvery \in 1..RecoveryCap
  /\ MaxUtc \in Nat
  /\ MaxMono \in Nat
  /\ Dates \subseteq Nat
  /\ Zones # {}
  /\ Calendar \in [Zones -> [Instants -> Dates]]
  /\ NoPlay \notin Profiles \X Dates

VARIABLES
  daily_policy,    \* daily_policy[p]: the allowance, 0 when there is no row
  daily_usage,     \* daily_usage[p][d]: written, used and warning mask
  profile_clock,   \* profile_clock[p]: the last date and instant accepted
  active_session,  \* the active_session table: no row or one
  mono, utc, zone, \* the device's clocks and its time zone
  playing,         \* whether a game runs under the active session
  play,            \* history: what the session's day had used when it began,
                   \* its ticks of play, and whether the wall clock has been
                   \* stepped back since the row was last written
  announced,       \* history: announced[p][d][w] counts the notices raised
  latest           \* history: the latest date p has begun a session on

store == <<daily_policy, daily_usage, profile_clock, active_session>>
clocks == <<mono, utc, zone>>
history == <<play, announced, latest>>
vars == <<store, clocks, playing, history>>

NoClock == [date |-> -1, utc |-> -1]
NoUsage == [written |-> FALSE, used |-> 0, mask |-> {}]
NotCounting == [base |-> 0, ticks |-> 0, stepped |-> FALSE]

SessionRow ==
  [profile : Profiles, date : Dates, mono : 0..MaxMono, utc : Instants]

\* Each part of the store's tables has the type of its columns.
TypeOK ==
  /\ daily_policy \in [Profiles -> Allowances \cup {0}]
  /\ daily_usage \in [Profiles -> [Dates ->
       [written : BOOLEAN, used : Nat, mask : SUBSET Warnings]]]
  /\ profile_clock \in [Profiles -> [date : Dates \cup {-1},
                                     utc : Instants \cup {-1}]]
  /\ active_session \in SUBSET SessionRow
  /\ mono \in 0..MaxMono
  /\ utc \in Instants
  /\ zone \in Zones
  /\ playing \in BOOLEAN
  /\ play \in [base : Nat, ticks : Nat, stepped : BOOLEAN]
  /\ announced \in [Profiles -> [Dates -> [Warnings -> Nat]]]
  /\ latest \in [Profiles -> Dates \cup {-1}]

Init ==
  /\ daily_policy = [p \in Profiles |-> 0]
  /\ daily_usage = [p \in Profiles |-> [d \in Dates |-> NoUsage]]
  /\ profile_clock = [p \in Profiles |-> NoClock]
  /\ active_session = {}
  /\ mono = 0
  /\ utc \in Instants
  /\ zone \in Zones
  /\ playing = FALSE
  /\ play = NotCounting
  /\ announced = [p \in Profiles |-> [d \in Dates |-> [w \in Warnings |-> 0]]]
  /\ latest = [p \in Profiles |-> -1]

-----------------------------------------------------------------------------
(* The parts the operations are built from. *)

\* Mutant: the bound is forgotten.
AtMostUnbounded(a, b) == a

AtMost(a, b) == IF a < b THEN a ELSE b

\* make_status: remaining_milliseconds; a day is expired when it is 0.
Remaining(allowance, used) == IF used < allowance THEN allowance - used ELSE 0

\* current_time_policy_sample: both clocks and the local date are read at once.
Today == Calendar[zone][utc]

\* Mutant: only the instant is compared, not the local date.
ClockAcceptedByInstant(p) == utc >= profile_clock[p].utc

\* observe_clock accepts a sample that is behind neither the last date nor
\* the last instant accepted for the profile.
ClockAccepted(p) ==
  /\ Today >= profile_clock[p].date
  /\ utc >= profile_clock[p].utc

ObserveClock(p) ==
  profile_clock' = [profile_clock EXCEPT ![p] = [date |-> Today, utc |-> utc]]

\* Mutant: the mask is not looked at.
CrossedAgain(mask, before, after) ==
  {w \in Warnings : before >= w /\ after <= w /\ before # after}

\* Warning bits that a charge from before to after sets in the mask.
Crossed(mask, before, after) ==
  {w \in Warnings \ mask : before >= w /\ after <= w /\ before # after}

\* charge: bounded by what is left of the session's own day.  The row survives
\* only when the caller keeps it, something is left and the date is the same.
Charge(row, delta, keep) ==
  LET stored == daily_usage[row.profile][row.date]
      before == Remaining(daily_policy[row.profile], stored.used)
      charged == AtMost(delta, before)
      after == before - charged
      crossed == Crossed(stored.mask, before, after)
  IN /\ daily_usage' = [daily_usage EXCEPT ![row.profile][row.date] =
            [written |-> TRUE, used |-> stored.used + charged,
             mask |-> stored.mask \cup crossed]]
     /\ announced' = [announced EXCEPT ![row.profile][row.date] =
            [w \in Warnings |-> @[w] + (IF w \in crossed THEN 1 ELSE 0)]]
     /\ IF keep /\ after > 0 /\ Today = row.date
          THEN /\ active_session' = {[row EXCEPT !.mono = mono, !.utc = utc]}
               /\ play' = [play EXCEPT !.stepped = FALSE]
          ELSE /\ active_session' = {}
               /\ play' = NotCounting

-----------------------------------------------------------------------------
(* Operations of the store. *)

SetDailyAllowance(p, n) ==
  /\ daily_policy' = [daily_policy EXCEPT ![p] = n]
  /\ UNCHANGED <<daily_usage, profile_clock, active_session, clocks, playing,
                 history>>

\* The policy and the clock of a child who has never played are removed.
RemoveUnusedDailyAllowance(p) ==
  /\ \A d \in Dates : ~daily_usage[p][d].written
  /\ \A row \in active_session : row.profile # p
  /\ profile_clock' = [profile_clock EXCEPT ![p] = NoClock]
  /\ daily_policy' = [daily_policy EXCEPT ![p] = 0]
  /\ UNCHANGED <<daily_usage, active_session, clocks, playing, history>>

\* Asking for the status records the clock when it is accepted, and answers
\* with a day fully used, recording nothing, when it is not.
Status(p) ==
  /\ daily_policy[p] > 0
  /\ ClockAccepted(p)
  /\ ObserveClock(p)
  /\ UNCHANGED <<daily_policy, daily_usage, active_session, clocks, playing,
                 history>>

\* A launch is refused, but the clock is kept, when the day is used up.
BeginRefused(p) ==
  /\ daily_policy[p] > 0
  /\ ClockAccepted(p)
  /\ Remaining(daily_policy[p], daily_usage[p][Today].used) = 0
  /\ ObserveClock(p)
  /\ UNCHANGED <<daily_policy, daily_usage, active_session, clocks, playing,
                 history>>

\* Mutant: the row of another session is replaced.
BeginSessionReplacing(p) ==
  /\ daily_policy[p] > 0
  /\ ClockAccepted(p)
  /\ Remaining(daily_policy[p], daily_usage[p][Today].used) > 0
  /\ ObserveClock(p)
  /\ active_session' =
       {[profile |-> p, date |-> Today, mono |-> mono, utc |-> utc]}
  /\ playing' = TRUE
  /\ play' = [NotCounting EXCEPT !.base = daily_usage[p][Today].used]
  /\ latest' = [latest EXCEPT ![p] = Today]
  /\ UNCHANGED <<daily_policy, daily_usage, clocks, announced>>

\* A second session throws and rolls back; a rejected clock changes nothing.
BeginSession(p) ==
  /\ daily_policy[p] > 0
  /\ ClockAccepted(p)
  /\ Remaining(daily_policy[p], daily_usage[p][Today].used) > 0
  /\ active_session = {}
  /\ ObserveClock(p)
  /\ active_session' = active_session \cup
       {[profile |-> p, date |-> Today, mono |-> mono, utc |-> utc]}
  /\ playing' = TRUE
  /\ play' = [NotCounting EXCEPT !.base = daily_usage[p][Today].used]
  /\ latest' = [latest EXCEPT ![p] = Today]
  /\ UNCHANGED <<daily_policy, daily_usage, clocks, announced>>

\* checkpoint_session (keep) and pause_session (not keep) by the caller that
\* owns the session.  A clock that has gone back costs the whole day.
UpdateActiveSession(keep) ==
  /\ playing
  /\ \E row \in active_session :
       IF ClockAccepted(row.profile)
         THEN /\ mono >= row.mono
              /\ ObserveClock(row.profile)
              /\ Charge(row, mono - row.mono, keep)
         ELSE /\ UNCHANGED profile_clock
              /\ Charge(row, daily_policy[row.profile], FALSE)
  /\ playing' = (active_session' # {})
  /\ UNCHANGED <<daily_policy, clocks, latest>>

\* Mutant: nothing is charged for a session that was cut off by midnight.
RecoveryChargeSkipsMidnight(row) ==
  IF Today = row.date THEN AtMost(utc - row.utc, RecoveryCap) ELSE 0

\* Mutant: the whole time the device was off is charged.
RecoveryChargeUncapped(row) ==
  IF Today = row.date THEN utc - row.utc ELSE RecoveryCap

\* After a restart the gap since the last checkpoint is charged, at most
\* RecoveryCap of it, and all of RecoveryCap when the date has changed.
RecoveryCharge(row) ==
  IF Today = row.date /\ utc >= row.utc
    THEN AtMost(utc - row.utc, RecoveryCap)
    ELSE RecoveryCap

RecoverInterruptedSession ==
  /\ ~playing
  /\ \E row \in active_session :
       IF ClockAccepted(row.profile)
         THEN /\ ObserveClock(row.profile)
              /\ Charge(row, RecoveryCharge(row), FALSE)
         ELSE /\ UNCHANGED profile_clock
              /\ Charge(row, daily_policy[row.profile], FALSE)
  /\ UNCHANGED <<daily_policy, clocks, playing, latest>>

-----------------------------------------------------------------------------
(* The world the store lives in. *)

\* A second passes; a caller with a running game never lets CheckpointEvery
\* seconds go by without a charge.
Tick ==
  /\ utc < MaxUtc /\ mono < MaxMono
  /\ playing => \A row \in active_session : mono - row.mono < CheckpointEvery
  /\ utc' = utc + 1
  /\ mono' = mono + 1
  /\ play' = IF playing THEN [play EXCEPT !.ticks = @ + 1] ELSE play
  /\ UNCHANGED <<store, zone, playing, announced, latest>>

\* The wall clock is set, by time sync, by hand or by a dead battery.
SetClock ==
  /\ \E t \in Instants, z \in Zones :
       /\ utc' = t
       /\ zone' = z
       /\ play' = [play EXCEPT !.stepped =
                     @ \/ (active_session # {} /\ t < utc)]
  /\ UNCHANGED <<store, mono, playing, announced, latest>>

\* The launcher or the device dies under a running game: the row stays.  A game
\* that outlives its launcher (ChildPlay) has nobody to charge its time to, and
\* `play` does not count it.
Crash ==
  /\ playing
  /\ playing' = FALSE
  /\ UNCHANGED <<store, clocks, history>>

\* The device boots: the monotonic clock starts again.
Reboot ==
  /\ ~playing
  /\ mono > 0
  /\ mono' = 0
  /\ UNCHANGED <<store, utc, zone, playing, history>>

Next ==
  \/ \E p \in Profiles :
       \/ \E n \in Allowances : SetDailyAllowance(p, n)
       \/ RemoveUnusedDailyAllowance(p)
       \/ Status(p)
       \/ BeginRefused(p)
       \/ BeginSession(p)
  \/ \E keep \in BOOLEAN : UpdateActiveSession(keep)
  \/ RecoverInterruptedSession
  \/ Tick
  \/ SetClock
  \/ Crash
  \/ Reboot

Spec == Init /\ [][Next]_vars

-----------------------------------------------------------------------------
(* Properties. *)

\* The rows refer to each other the way every operation relies on: there is
\* one session at most, a session and a usage row belong to a child with a
\* policy, the clock recorded for a child is behind no session and no day the
\* child has been charged for, and a running game has its session row.
TablesConsistent ==
  /\ \A a, b \in active_session : a = b
  /\ playing => active_session # {}
  /\ \A row \in active_session :
       /\ daily_policy[row.profile] > 0
       /\ row.date <= profile_clock[row.profile].date
       /\ row.utc <= profile_clock[row.profile].utc
       /\ row.date = latest[row.profile]
  /\ \A p \in Profiles : \A d \in Dates :
       daily_usage[p][d].written =>
         daily_policy[p] > 0 /\ d <= profile_clock[p].date

\* A child begins no session on a day earlier than one already begun, however
\* the clock is set and whatever happens to the policy in between: stepping
\* the clock back never opens an earlier day's allowance.
DaysAreNotReplayed ==
  [][\A p \in Profiles : latest[p] <= latest'[p]]_latest

\* The notice for a threshold is raised at most once per child and date, over
\* every pause, restart and change of the allowance.
WarnedAtMostOnce ==
  \A p \in Profiles : \A d \in Dates : \A w \in Warnings : announced[p][d][w] <= 1

\* When a session ends, by a pause, an expiry, midnight or recovery after a
\* crash, its day has been charged for all the time played, up to the
\* allowance; after a crash this needs a wall clock not stepped back meanwhile.
PlayIsAccountedFor ==
  [][\A row \in active_session :
       (active_session' = {} /\ (playing \/ ~play.stepped)) =>
         daily_usage'[row.profile][row.date].used >=
           AtMost(daily_policy[row.profile], play.base + play.ticks)]_vars

\* A day is never charged for more than was played, but for what one recovery
\* may add, unless a clock that went back forfeits the day.
NeverOvercharged ==
  [][\A row \in active_session :
       ClockAccepted(row.profile) =>
         daily_usage'[row.profile][row.date].used <=
           play.base + play.ticks + (IF playing THEN 0 ELSE RecoveryCap)]_vars

\* daily-time-policy.md line 23: recovery rejects a backward clock and leaves the
\* marker intact.  The code charges the whole allowance and deletes the marker
\* (recover_interrupted_session lines 582-593).
RejectionKeepsMarker ==
  [][\A row \in active_session :
       ~playing /\ ~ClockAccepted(row.profile)
         => active_session' = active_session]_vars

-----------------------------------------------------------------------------
(* The inductive invariant behind the properties. *)

\* A child who has begun a session has left a trace that keeps the policy and
\* its clock from being removed, and the clock has not gone behind it.
HistoryRecorded ==
  \A p \in Profiles : latest[p] # -1 =>
    /\ latest[p] <= profile_clock[p].date
    /\ \/ \E row \in active_session : row.profile = p
       \/ \E d \in Dates : daily_usage[p][d].written

\* The persisted mask tells exactly which notices have been raised.
MaskIsHistory ==
  \A p \in Profiles : \A d \in Dates : \A w \in Warnings :
    announced[p][d][w] = IF w \in daily_usage[p][d].mask THEN 1 ELSE 0

\* What the session on record has played and not been charged for.
Owed(row) ==
  (play.base + play.ticks) - daily_usage[row.profile][row.date].used

\* At most one checkpoint interval is owed; both clocks bear witness to it.
OwedIsWitnessed ==
  \A row \in active_session :
    /\ Owed(row) \in 0..CheckpointEvery
    /\ playing => Owed(row) = mono - row.mono
    /\ ~play.stepped => Owed(row) <= utc - row.utc

Inv ==
  TypeOK /\ TablesConsistent /\ HistoryRecorded /\ MaskIsHistory /\ OwedIsWitnessed

-----------------------------------------------------------------------------
(* The promise to the parent. *)

Spent == [p \in Profiles |-> [d \in Dates |-> daily_usage[p][d].used]]

Player ==
  IF active_session = {} THEN NoPlay
  ELSE LET row == CHOOSE r \in active_session : TRUE
       IN <<row.profile, row.date>>

Budget == INSTANCE ScreenTimeBudget WITH
  budget <- daily_policy, spent <- Spent, latest <- latest, player <- Player

\* The tables implement the daily budget the parent was promised.
ImplementsBudget == Budget!BudgetSpec
=============================================================================
