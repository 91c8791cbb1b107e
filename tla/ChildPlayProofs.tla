--------------------------- MODULE ChildPlayProofs ---------------------------
(***************************************************************************)
(* Theorems about DailyTimePolicy and ChildPlay for any children,          *)
(* allowances, warnings, clocks and calendar.  First the store: Inv is its *)
(* inductive invariant, and every theorem about DailyTimePolicy rests on   *)
(* it.  Then the launches that use the store: however often the launcher   *)
(* dies in the middle of one, children are metered, their play is charged  *)
(* and the record of play is settled.                                      *)
(***************************************************************************)
EXTENDS ChildPlay, TLAPS

-----------------------------------------------------------------------------
(* The daily time policy. *)

LEMMA AllowanceType == \A a \in Allowances \cup {0} : a \in Nat
  BY PolicyAssumption

LEMMA ClockTypes ==
  /\ \A d \in Dates : d \in Nat
  /\ \A t \in Instants : t \in Nat
  /\ \A m \in 0..MaxMono : m \in Nat
  <1>1. Dates \subseteq Nat /\ MaxMono \in Nat /\ MaxUtc \in Nat
    BY PolicyAssumption
  <1> QED
    BY <1>1 DEF Instants

LEMMA TodayType == TypeOK => Today \in Dates
  BY PolicyAssumption DEF TypeOK, Today

\* The columns of a session row and of the tables it refers to.
LEMMA RowType ==
  ASSUME TypeOK, NEW row \in active_session
  PROVE  /\ row \in SessionRow
         /\ row.profile \in Profiles /\ row.date \in Dates /\ row.date \in Nat
         /\ row.mono \in Nat /\ row.utc \in Nat
         /\ daily_policy[row.profile] \in Nat
         /\ daily_usage[row.profile][row.date] \in
              [written : BOOLEAN, used : Nat, mask : SUBSET Warnings]
         /\ daily_usage[row.profile][row.date].used \in Nat
  <1>1. row \in SessionRow
    BY DEF TypeOK
  <1>2. /\ row.profile \in Profiles /\ row.date \in Dates
        /\ row.mono \in 0..MaxMono /\ row.utc \in Instants
    BY <1>1 DEF SessionRow
  <1>4. row.date \in Nat /\ row.mono \in Nat /\ row.utc \in Nat
    BY <1>2, ClockTypes
  <1>5. daily_policy[row.profile] \in Allowances \cup {0}
    BY <1>2 DEF TypeOK
  <1>6. daily_usage[row.profile][row.date] \in
          [written : BOOLEAN, used : Nat, mask : SUBSET Warnings]
    BY <1>2 DEF TypeOK
  <1> QED
    BY <1>1, <1>2, <1>4, <1>5, <1>6, AllowanceType

LEMMA RemainingType ==
  ASSUME NEW a \in Nat, NEW u \in Nat
  PROVE  /\ Remaining(a, u) \in Nat
         /\ u + Remaining(a, u) >= a
         /\ Remaining(a, u) <= a
         /\ Remaining(a, u) # 0 => u + Remaining(a, u) = a
  BY DEF Remaining

\* What one charge does to the tables, whatever calls it: charged seconds and
\* the warning bits crossed go to the session's own day, and the row survives
\* only if all of delta was charged with something left on the same date.
Charged(row, delta, keep, charged, crossed) ==
  LET stored == daily_usage[row.profile][row.date]
      left == Remaining(daily_policy[row.profile], stored.used)
  IN /\ charged = AtMost(delta, left)
     /\ crossed \cap stored.mask = {}
     /\ daily_usage' = [daily_usage EXCEPT ![row.profile][row.date] =
           [written |-> TRUE, used |-> stored.used + charged,
            mask |-> stored.mask \cup crossed]]
     /\ announced' = [announced EXCEPT ![row.profile][row.date] =
           [w \in Warnings |-> announced[row.profile][row.date][w]
                                + (IF w \in crossed THEN 1 ELSE 0)]]
     /\ \/ /\ keep /\ charged < left /\ charged = delta /\ Today = row.date
           /\ active_session' = {[row EXCEPT !.mono = mono, !.utc = utc]}
           /\ play' = [play EXCEPT !.stepped = FALSE]
        \/ /\ active_session' = {}
           /\ play' = NotCounting

LEMMA ChargeEffect ==
  ASSUME TypeOK, NEW row \in active_session, NEW delta \in Nat,
         NEW keep \in BOOLEAN, Charge(row, delta, keep)
  PROVE  \E charged \in Nat, crossed \in SUBSET Warnings :
           Charged(row, delta, keep, charged, crossed)
  <1> DEFINE p == row.profile
             d == row.date
             stored == daily_usage[p][d]
             left == Remaining(daily_policy[p], stored.used)
             charged == AtMost(delta, left)
             crossed == Crossed(stored.mask, left, left - charged)
  <1>1. /\ p \in Profiles /\ d \in Dates
        /\ stored.used \in Nat /\ daily_policy[p] \in Nat
    BY RowType
  <1>2. left \in Nat
    BY <1>1, RemainingType
  <1>3. /\ charged \in Nat /\ charged <= left
        /\ left - charged > 0 => charged = delta /\ charged < left
    BY <1>2 DEF AtMost
  <1>4. crossed \in SUBSET Warnings /\ crossed \cap stored.mask = {}
    BY DEF Crossed
  <1>5. announced' = [announced EXCEPT ![p][d] =
          [w \in Warnings |->
             announced[p][d][w] + (IF w \in crossed THEN 1 ELSE 0)]]
    BY <1>1 DEF Charge, TypeOK
  <1> QED
    BY <1>1, <1>2, <1>3, <1>4, <1>5 DEF Charge, Charged

\* A checkpoint, a pause and a recovery are each a charge of the session's row
\* together with what becomes of the clock record and of the game.
LEMMA SessionStep ==
  ASSUME TypeOK,
         \/ \E keep \in BOOLEAN : UpdateActiveSession(keep)
         \/ RecoverInterruptedSession
  PROVE  \E row \in active_session, delta \in Nat, keep \in BOOLEAN :
           /\ Charge(row, delta, keep)
           /\ keep => playing
           /\ \/ /\ ClockAccepted(row.profile) /\ ObserveClock(row.profile)
                 /\ playing => delta = mono - row.mono
                 /\ ~playing => delta = RecoveryCharge(row)
              \/ /\ ~ClockAccepted(row.profile) /\ UNCHANGED profile_clock
                 /\ delta = daily_policy[row.profile] /\ ~keep
           /\ playing' = (playing /\ active_session' # {})
           /\ UNCHANGED <<daily_policy, mono, utc, zone, latest>>
  <1>1. \A row \in active_session :
          /\ row.mono \in Nat /\ row.utc \in Nat
          /\ daily_policy[row.profile] \in Nat
    BY RowType
  <1>2. mono \in Nat /\ utc \in Nat /\ RecoveryCap \in Nat /\ playing \in BOOLEAN
    BY PolicyAssumption DEF TypeOK, Instants
  <1>3. ASSUME NEW keep \in BOOLEAN, UpdateActiveSession(keep)
        PROVE  \E row \in active_session, delta \in Nat, k \in BOOLEAN :
                 /\ Charge(row, delta, k)
                 /\ k => playing
                 /\ \/ /\ ClockAccepted(row.profile) /\ ObserveClock(row.profile)
                       /\ delta = mono - row.mono
                    \/ /\ ~ClockAccepted(row.profile) /\ UNCHANGED profile_clock
                       /\ delta = daily_policy[row.profile] /\ ~k
                 /\ playing' = (playing /\ active_session' # {})
    <2>1. PICK row \in active_session :
            IF ClockAccepted(row.profile)
              THEN /\ mono >= row.mono
                   /\ ObserveClock(row.profile)
                   /\ Charge(row, mono - row.mono, keep)
              ELSE /\ UNCHANGED profile_clock
                   /\ Charge(row, daily_policy[row.profile], FALSE)
      BY <1>3 DEF UpdateActiveSession
    <2>2. playing /\ playing' = (active_session' # {})
      BY <1>3 DEF UpdateActiveSession
    <2>3. CASE ClockAccepted(row.profile)
      <3>1. mono - row.mono \in Nat
        BY <1>1, <1>2, <2>1, <2>3
      <3> QED
        BY <2>1, <2>2, <2>3, <3>1
    <2>4. CASE ~ClockAccepted(row.profile)
      BY <1>1, <2>1, <2>2, <2>4
    <2> QED
      BY <2>3, <2>4
  <1>4. ASSUME RecoverInterruptedSession
        PROVE  /\ ~playing /\ playing' = playing
               /\ \E row \in active_session, delta \in Nat :
                 /\ Charge(row, delta, FALSE)
                 /\ \/ /\ ClockAccepted(row.profile) /\ ObserveClock(row.profile)
                       /\ delta = RecoveryCharge(row)
                    \/ /\ ~ClockAccepted(row.profile) /\ UNCHANGED profile_clock
                       /\ delta = daily_policy[row.profile]
    <2>1. PICK row \in active_session :
            IF ClockAccepted(row.profile)
              THEN /\ ObserveClock(row.profile)
                   /\ Charge(row, RecoveryCharge(row), FALSE)
              ELSE /\ UNCHANGED profile_clock
                   /\ Charge(row, daily_policy[row.profile], FALSE)
      BY <1>4 DEF RecoverInterruptedSession
    <2>2. RecoveryCharge(row) \in Nat
      BY <1>1, <1>2 DEF RecoveryCharge, AtMost
    <2>3. ~playing /\ playing' = playing
      BY <1>4 DEF RecoverInterruptedSession
    <2> QED
      BY <1>1, <2>1, <2>2, <2>3
  <1>5. UNCHANGED <<daily_policy, mono, utc, zone, latest>>
    BY DEF UpdateActiveSession, RecoverInterruptedSession, clocks
  <1>6. CASE \E keep \in BOOLEAN : UpdateActiveSession(keep)
    <2>1. PICK keep \in BOOLEAN : UpdateActiveSession(keep)
      BY <1>6
    <2>2. playing
      BY <2>1 DEF UpdateActiveSession
    <2> QED
      BY <1>3, <1>5, <2>1, <2>2
  <1>7. CASE RecoverInterruptedSession
    <2>1. ~playing /\ playing' = playing
      BY <1>4, <1>7
    <2>2. PICK row \in active_session, delta \in Nat :
            /\ Charge(row, delta, FALSE)
            /\ \/ /\ ClockAccepted(row.profile) /\ ObserveClock(row.profile)
                  /\ delta = RecoveryCharge(row)
               \/ /\ ~ClockAccepted(row.profile) /\ UNCHANGED profile_clock
                  /\ delta = daily_policy[row.profile]
      BY <1>4, <1>7
    <2>3. playing' = (playing /\ active_session' # {})
      BY <1>2, <2>1
    <2> QED
      BY <1>5, <2>1, <2>2, <2>3
  <1> QED
    BY <1>6, <1>7

-----------------------------------------------------------------------------
(* Type correctness. *)

LEMMA InitType == Init => TypeOK
  <1> SUFFICES ASSUME Init PROVE TypeOK
    OBVIOUS
  <1>1. 0 \in 0..MaxMono
    BY PolicyAssumption
  <1>2. daily_policy \in [Profiles -> Allowances \cup {0}]
    BY DEF Init
  <1>3. daily_usage \in [Profiles -> [Dates ->
          [written : BOOLEAN, used : Nat, mask : SUBSET Warnings]]]
    BY DEF Init, NoUsage
  <1>4. profile_clock \in [Profiles -> [date : Dates \cup {-1},
                                        utc : Instants \cup {-1}]]
    BY DEF Init, NoClock
  <1>5. play \in [base : Nat, ticks : Nat, stepped : BOOLEAN]
    BY DEF Init, NotCounting
  <1>6. announced \in [Profiles -> [Dates -> [Warnings -> Nat]]]
    BY DEF Init
  <1>7. latest \in [Profiles -> Dates \cup {-1}]
    BY DEF Init
  <1>8. active_session \in SUBSET SessionRow /\ playing \in BOOLEAN
    BY DEF Init
  <1> QED
    BY <1>1, <1>2, <1>3, <1>4, <1>5, <1>6, <1>7, <1>8 DEF Init, TypeOK

LEMMA ObserveType ==
  ASSUME TypeOK, NEW p \in Profiles, ObserveClock(p)
  PROVE  profile_clock' \in [Profiles -> [date : Dates \cup {-1},
                                          utc : Instants \cup {-1}]]
  BY TodayType DEF TypeOK, ObserveClock

LEMMA ChargeType ==
  ASSUME TypeOK, NEW row \in active_session, NEW delta \in Nat,
         NEW keep \in BOOLEAN, Charge(row, delta, keep)
  PROVE  /\ daily_usage' \in [Profiles -> [Dates ->
              [written : BOOLEAN, used : Nat, mask : SUBSET Warnings]]]
         /\ active_session' \in SUBSET SessionRow
         /\ play' \in [base : Nat, ticks : Nat, stepped : BOOLEAN]
         /\ announced' \in [Profiles -> [Dates -> [Warnings -> Nat]]]
  <1> DEFINE p == row.profile
             d == row.date
             stored == daily_usage[p][d]
             left == Remaining(daily_policy[p], stored.used)
  <1>0. PICK charged \in Nat, crossed \in SUBSET Warnings :
           Charged(row, delta, keep, charged, crossed)
    BY ChargeEffect
  <1>1. /\ daily_usage' = [daily_usage EXCEPT ![p][d] =
              [written |-> TRUE, used |-> stored.used + charged,
               mask |-> stored.mask \cup crossed]]
        /\ announced' = [announced EXCEPT ![p][d] =
              [w \in Warnings |->
                 announced[p][d][w] + (IF w \in crossed THEN 1 ELSE 0)]]
        /\ \/ /\ active_session' = {[row EXCEPT !.mono = mono, !.utc = utc]}
              /\ play' = [play EXCEPT !.stepped = FALSE]
           \/ /\ active_session' = {}
              /\ play' = NotCounting
    BY <1>0 DEF Charged
  <1>2. p \in Profiles /\ d \in Dates /\ row \in SessionRow /\ stored.used \in Nat
        /\ stored.mask \in SUBSET Warnings
    BY RowType
  <1>3. [written |-> TRUE, used |-> stored.used + charged,
         mask |-> stored.mask \cup crossed] \in
           [written : BOOLEAN, used : Nat, mask : SUBSET Warnings]
    BY <1>2
  <1>4. daily_usage' \in [Profiles -> [Dates ->
              [written : BOOLEAN, used : Nat, mask : SUBSET Warnings]]]
    BY <1>1, <1>2, <1>3 DEF TypeOK
  <1>5. [w \in Warnings |-> announced[p][d][w] +
           (IF w \in crossed THEN 1 ELSE 0)] \in [Warnings -> Nat]
    BY <1>2 DEF TypeOK
  <1>6. announced' \in [Profiles -> [Dates -> [Warnings -> Nat]]]
    BY <1>1, <1>2, <1>5 DEF TypeOK
  <1>7. [row EXCEPT !.mono = mono, !.utc = utc] \in SessionRow
    BY <1>2 DEF TypeOK, SessionRow
  <1>8. /\ [play EXCEPT !.stepped = FALSE] \in
             [base : Nat, ticks : Nat, stepped : BOOLEAN]
        /\ NotCounting \in [base : Nat, ticks : Nat, stepped : BOOLEAN]
    BY DEF TypeOK, NotCounting
  <1> QED
    BY <1>1, <1>4, <1>6, <1>7, <1>8

LEMMA TypeStep == TypeOK /\ [Next]_vars => TypeOK'
  <1> SUFFICES ASSUME TypeOK, [Next]_vars PROVE TypeOK'
    OBVIOUS
  <1>1. ASSUME NEW p \in Profiles, NEW n \in Allowances, SetDailyAllowance(p, n)
        PROVE  TypeOK'
    BY <1>1 DEF SetDailyAllowance, TypeOK, clocks, history
  <1>2. ASSUME NEW p \in Profiles, RemoveUnusedDailyAllowance(p)
        PROVE  TypeOK'
    <2>1. NoClock \in [date : Dates \cup {-1}, utc : Instants \cup {-1}]
      BY DEF NoClock
    <2> QED
      BY <1>2, <2>1 DEF RemoveUnusedDailyAllowance, TypeOK, clocks, history
  <1>3. ASSUME NEW p \in Profiles, Status(p) \/ BeginRefused(p)
        PROVE  TypeOK'
    <2>1. ObserveClock(p)
      BY <1>3 DEF Status, BeginRefused
    <2> QED
      BY <1>3, <2>1, ObserveType DEF Status, BeginRefused, TypeOK, clocks, history
  <1>4. ASSUME NEW p \in Profiles, BeginSession(p)
        PROVE  TypeOK'
    <2>1. Today \in Dates
      BY TodayType
    <2>2. profile_clock' \in [Profiles -> [date : Dates \cup {-1},
                                           utc : Instants \cup {-1}]]
      BY <1>4, ObserveType DEF BeginSession
    <2>3. [profile |-> p, date |-> Today, mono |-> mono, utc |-> utc] \in SessionRow
      BY <2>1 DEF TypeOK, SessionRow
    <2>4. active_session' \in SUBSET SessionRow
      BY <1>4, <2>3 DEF BeginSession, TypeOK
    <2>5. daily_usage[p][Today].used \in Nat
      BY <2>1 DEF TypeOK
    <2>6. play' \in [base : Nat, ticks : Nat, stepped : BOOLEAN]
      BY <1>4, <2>5 DEF BeginSession, NotCounting
    <2>7. latest' \in [Profiles -> Dates \cup {-1}]
      BY <1>4, <2>1 DEF BeginSession, TypeOK
    <2> QED
      BY <1>4, <2>2, <2>4, <2>6, <2>7 DEF BeginSession, TypeOK, clocks
  <1>5. ASSUME \/ \E keep \in BOOLEAN : UpdateActiveSession(keep)
               \/ RecoverInterruptedSession
        PROVE  TypeOK'
    <2>1. PICK row \in active_session, delta \in Nat, keep \in BOOLEAN :
            /\ Charge(row, delta, keep)
            /\ ObserveClock(row.profile) \/ UNCHANGED profile_clock
            /\ playing' = (playing /\ active_session' # {})
            /\ UNCHANGED <<daily_policy, mono, utc, zone, latest>>
      BY <1>5, SessionStep
    <2>2. row.profile \in Profiles
      BY RowType
    <2>3. profile_clock' \in [Profiles -> [date : Dates \cup {-1},
                                           utc : Instants \cup {-1}]]
      BY <2>1, <2>2, ObserveType DEF TypeOK
    <2>4. playing' \in BOOLEAN
      BY <2>1
    <2> QED
      BY <2>1, <2>3, <2>4, ChargeType DEF TypeOK
  <1>6. ASSUME Tick PROVE TypeOK'
    <2>1. mono' \in 0..MaxMono /\ utc' \in Instants
      BY <1>6, PolicyAssumption DEF Tick, TypeOK, Instants
    <2>2. play' \in [base : Nat, ticks : Nat, stepped : BOOLEAN]
      <3>1. /\ play \in [base : Nat, ticks : Nat, stepped : BOOLEAN]
            /\ play.ticks + 1 \in Nat
        BY DEF TypeOK
      <3>2. play' = IF playing THEN [play EXCEPT !.ticks = play.ticks + 1] ELSE play
        BY <1>6 DEF Tick
      <3> QED
        BY <3>1, <3>2
    <2> QED
      BY <1>6, <2>1, <2>2 DEF Tick, TypeOK, store
  <1>7. ASSUME SetClock PROVE TypeOK'
    <2>1. play' \in [base : Nat, ticks : Nat, stepped : BOOLEAN]
      BY <1>7 DEF SetClock, TypeOK
    <2> QED
      BY <1>7, <2>1 DEF SetClock, TypeOK, store
  <1>8. ASSUME Crash PROVE TypeOK'
    BY <1>8 DEF Crash, TypeOK, store, clocks, history
  <1>9. ASSUME Reboot PROVE TypeOK'
    <2>1. 0 \in 0..MaxMono
      BY PolicyAssumption
    <2> QED
      BY <1>9, <2>1 DEF Reboot, TypeOK, store, history
  <1>10. CASE UNCHANGED vars
    BY <1>10 DEF vars, store, clocks, history, TypeOK
  <1> QED
    BY <1>1, <1>2, <1>3, <1>4, <1>5, <1>6, <1>7, <1>8, <1>9, <1>10 DEF Next

\* The tables always hold what their columns may hold.
THEOREM TypeCorrect == Spec => []TypeOK
  BY InitType, TypeStep, PTL DEF Spec

-----------------------------------------------------------------------------
(* The tables stay consistent and the history stays recorded. *)

Consistent == TypeOK /\ TablesConsistent /\ HistoryRecorded

\* An accepted sample moves no child's clock record back.
LEMMA ClockForward ==
  ASSUME TypeOK, NEW p \in Profiles,
         \/ ClockAccepted(p) /\ ObserveClock(p)
         \/ UNCHANGED profile_clock
  PROVE  /\ \A q \in Profiles : /\ profile_clock[q].date \in Int
                                /\ profile_clock[q].utc \in Int
                                /\ profile_clock'[q].date \in Int
                                /\ profile_clock'[q].utc \in Int
                                /\ profile_clock[q].date <= profile_clock'[q].date
                                /\ profile_clock[q].utc <= profile_clock'[q].utc
         /\ ObserveClock(p) => /\ profile_clock'[p].date = Today
                               /\ profile_clock'[p].utc = utc
  <1>1. Today \in Int /\ utc \in Int
    BY TodayType, ClockTypes DEF TypeOK
  <1>2. \A q \in Profiles : /\ profile_clock[q].date \in Dates \cup {-1}
                            /\ profile_clock[q].utc \in Instants \cup {-1}
    BY DEF TypeOK
  <1>3. \A q \in Profiles : /\ profile_clock[q].date \in Int
                            /\ profile_clock[q].utc \in Int
    BY <1>2, ClockTypes
  <1>4. ASSUME ObserveClock(p)
        PROVE  /\ profile_clock'[p] = [date |-> Today, utc |-> utc]
               /\ \A q \in Profiles : q # p => profile_clock'[q] = profile_clock[q]
    BY <1>4 DEF ObserveClock, TypeOK
  <1>5. CASE ClockAccepted(p) /\ ObserveClock(p)
    BY <1>1, <1>3, <1>4, <1>5 DEF ClockAccepted
  <1>6. CASE UNCHANGED profile_clock
    BY <1>1, <1>3, <1>4, <1>6
  <1> QED
    BY <1>5, <1>6

LEMMA LatestType ==
  TypeOK => \A p \in Profiles : latest[p] \in Int
  BY ClockTypes DEF TypeOK

LEMMA InitConsistent == Init => TablesConsistent /\ HistoryRecorded
  BY DEF Init, TablesConsistent, HistoryRecorded, NoUsage

LEMMA ConsistentStep ==
  Consistent /\ [Next]_vars => TablesConsistent' /\ HistoryRecorded'
  <1> SUFFICES ASSUME Consistent, [Next]_vars
               PROVE  TablesConsistent' /\ HistoryRecorded'
    OBVIOUS
  <1> USE DEF Consistent
  <1>t. TypeOK'
    BY TypeStep
  <1>r. \A row \in active_session :
          row.profile \in Profiles /\ row.date \in Dates /\ row.date \in Int
          /\ row.utc \in Int
    BY RowType
  <1>1. ASSUME NEW p \in Profiles, NEW n \in Allowances, SetDailyAllowance(p, n)
        PROVE  TablesConsistent' /\ HistoryRecorded'
    <2>1. n > 0 /\ \A q \in Profiles : daily_policy'[q] = IF q = p THEN n ELSE daily_policy[q]
      BY <1>1, PolicyAssumption DEF SetDailyAllowance, TypeOK
    <2> QED
      BY <1>1, <1>r, <2>1
      DEF SetDailyAllowance, TablesConsistent, HistoryRecorded, clocks, history
  <1>2. ASSUME NEW p \in Profiles, RemoveUnusedDailyAllowance(p)
        PROVE  TablesConsistent' /\ HistoryRecorded'
    <2>1. \A q \in Profiles : q # p => /\ daily_policy'[q] = daily_policy[q]
                                       /\ profile_clock'[q] = profile_clock[q]
      BY <1>2 DEF RemoveUnusedDailyAllowance, TypeOK
    <2>2. /\ \A d \in Dates : ~daily_usage[p][d].written
          /\ \A row \in active_session : row.profile # p
          /\ latest[p] = -1
      BY <1>2 DEF RemoveUnusedDailyAllowance, HistoryRecorded
    <2>3. UNCHANGED <<daily_usage, active_session, playing, latest>>
      BY <1>2 DEF RemoveUnusedDailyAllowance, history
    <2>4. TablesConsistent'
      BY <1>r, <2>1, <2>2, <2>3 DEF TablesConsistent
    <2>5. HistoryRecorded'
      BY <2>1, <2>2, <2>3 DEF HistoryRecorded
    <2> QED
      BY <2>4, <2>5
  <1>3. ASSUME NEW p \in Profiles, Status(p) \/ BeginRefused(p)
        PROVE  TablesConsistent' /\ HistoryRecorded'
    <2>1. ClockAccepted(p) /\ ObserveClock(p)
      BY <1>3 DEF Status, BeginRefused
    <2>2. UNCHANGED <<daily_policy, daily_usage, active_session, playing, latest>>
      BY <1>3 DEF Status, BeginRefused, history
    <2>3. \A q \in Profiles : /\ profile_clock[q].date \in Int
                              /\ profile_clock[q].utc \in Int
                              /\ profile_clock'[q].date \in Int
                              /\ profile_clock'[q].utc \in Int
                              /\ profile_clock[q].date <= profile_clock'[q].date
                              /\ profile_clock[q].utc <= profile_clock'[q].utc
      BY <2>1, ClockForward
    <2>4. TablesConsistent'
      BY <1>r, <2>2, <2>3, ClockTypes DEF TablesConsistent
    <2>5. HistoryRecorded'
      BY <2>2, <2>3, LatestType DEF HistoryRecorded
    <2> QED
      BY <2>4, <2>5
  <1>4. ASSUME NEW p \in Profiles, BeginSession(p)
        PROVE  TablesConsistent' /\ HistoryRecorded'
    <2>1. ClockAccepted(p) /\ ObserveClock(p)
      BY <1>4 DEF BeginSession
    <2>2. /\ active_session' =
               {[profile |-> p, date |-> Today, mono |-> mono, utc |-> utc]}
          /\ latest' = [latest EXCEPT ![p] = Today]
          /\ UNCHANGED <<daily_policy, daily_usage>>
          /\ daily_policy[p] > 0
      BY <1>4 DEF BeginSession
    <2>3. \A q \in Profiles : /\ profile_clock[q].date \in Int
                              /\ profile_clock'[q].date \in Int
                              /\ profile_clock[q].date <= profile_clock'[q].date
      BY <2>1, ClockForward
    <2>4. profile_clock'[p].date = Today /\ profile_clock'[p].utc = utc
      BY <2>1, ClockForward
    <2>5. /\ latest'[p] = Today
          /\ \A q \in Profiles : q # p => latest'[q] = latest[q]
      BY <2>2 DEF TypeOK
    <2>6. Today \in Int /\ utc \in Int
      BY TodayType, ClockTypes DEF TypeOK
    <2>7. TablesConsistent'
      BY <2>2, <2>3, <2>4, <2>5, <2>6, ClockTypes DEF TablesConsistent
    <2>8. HistoryRecorded'
      <3>1. active_session = {}
        BY <1>4 DEF BeginSession
      <3> QED
        BY <2>2, <2>3, <2>4, <2>5, <2>6, <3>1, LatestType DEF HistoryRecorded
    <2> QED
      BY <2>7, <2>8
  <1>5. ASSUME \/ \E keep \in BOOLEAN : UpdateActiveSession(keep)
               \/ RecoverInterruptedSession
        PROVE  TablesConsistent' /\ HistoryRecorded'
    <2>1. PICK row \in active_session, delta \in Nat, keep \in BOOLEAN :
            /\ Charge(row, delta, keep)
            /\ \/ ClockAccepted(row.profile) /\ ObserveClock(row.profile)
               \/ UNCHANGED profile_clock /\ ~keep
            /\ playing' = (playing /\ active_session' # {})
            /\ UNCHANGED <<daily_policy, mono, utc, zone, latest>>
      BY <1>5, SessionStep
    <2>2. PICK charged \in Nat, crossed \in SUBSET Warnings :
            Charged(row, delta, keep, charged, crossed)
      BY <2>1, ChargeEffect
    <2> DEFINE p == row.profile
               d == row.date
    <2>3. /\ p \in Profiles /\ d \in Dates /\ d \in Int /\ row \in SessionRow
          /\ \A other \in active_session : other = row
      BY RowType DEF TablesConsistent
    <2>4. \A q \in Profiles : /\ profile_clock[q].date \in Int
                              /\ profile_clock[q].utc \in Int
                              /\ profile_clock'[q].date \in Int
                              /\ profile_clock'[q].utc \in Int
                              /\ profile_clock[q].date <= profile_clock'[q].date
                              /\ profile_clock[q].utc <= profile_clock'[q].utc
      BY <2>1, <2>3, ClockForward
    <2>5. /\ daily_usage'[p][d].written
          /\ \A q \in Profiles : \A e \in Dates :
               <<q, e>> # <<p, d>> => daily_usage'[q][e] = daily_usage[q][e]
      BY <2>2, <2>3 DEF Charged, TypeOK
    <2>6. \A other \in active_session' :
            /\ other.profile = p /\ other.date = d /\ other.utc = utc
            /\ keep
            /\ \A same \in active_session' : same = other
      <3> DEFINE kept == [row EXCEPT !.mono = mono, !.utc = utc]
      <3>1. kept.profile = p /\ kept.date = d /\ kept.utc = utc
        BY <2>3 DEF SessionRow
      <3>2. active_session' = {} \/ (keep /\ active_session' = {kept})
        BY <2>2 DEF Charged
      <3> HIDE DEF kept
      <3> QED
        BY <3>1, <3>2
    <2>7. /\ daily_policy[p] > 0 /\ d <= profile_clock[p].date /\ d = latest[p]
      BY <2>3 DEF TablesConsistent
    <2>8. keep => profile_clock'[p].utc = utc /\ utc \in Int
      BY <2>1, <2>3, ClockForward, ClockTypes DEF TypeOK
    <2>9. TablesConsistent'
      <3>1. \A q \in Profiles : \A e \in Dates : daily_usage'[q][e].written =>
              daily_policy'[q] > 0 /\ e <= profile_clock'[q].date
        BY <2>1, <2>3, <2>4, <2>5, <2>7, ClockTypes DEF TablesConsistent
      <3>2. \A other \in active_session' :
              /\ daily_policy'[other.profile] > 0
              /\ other.date <= profile_clock'[other.profile].date
              /\ other.utc <= profile_clock'[other.profile].utc
              /\ other.date = latest'[other.profile]
        BY <2>1, <2>3, <2>4, <2>6, <2>7, <2>8
      <3>3. playing' => active_session' # {}
        BY <2>1
      <3> QED
        BY <2>6, <3>1, <3>2, <3>3 DEF TablesConsistent
    <2>10. HistoryRecorded'
      <3>1. ASSUME NEW q \in Profiles, latest'[q] # -1
            PROVE  latest'[q] <= profile_clock'[q].date
        BY <2>1, <2>4, <3>1, LatestType DEF HistoryRecorded
      <3>2. ASSUME NEW q \in Profiles, latest'[q] # -1
            PROVE  \E e \in Dates : daily_usage'[q][e].written
        <4>1. CASE q = p
          BY <2>3, <2>5, <4>1
        <4>2. CASE q # p
          BY <2>1, <2>3, <2>5, <3>2, <4>2 DEF HistoryRecorded
        <4> QED
          BY <4>1, <4>2
      <3> QED
        BY <3>1, <3>2 DEF HistoryRecorded
    <2> QED
      BY <2>9, <2>10
  <1>6. ASSUME Tick \/ SetClock PROVE TablesConsistent' /\ HistoryRecorded'
    BY <1>6 DEF Tick, SetClock, TablesConsistent, HistoryRecorded, store
  <1>7. ASSUME Crash \/ Reboot PROVE TablesConsistent' /\ HistoryRecorded'
    BY <1>7 DEF Crash, Reboot, TablesConsistent, HistoryRecorded, store, history
  <1>8. CASE UNCHANGED vars
    BY <1>8 DEF vars, store, clocks, history, TablesConsistent, HistoryRecorded
  <1> QED
    BY <1>1, <1>2, <1>3, <1>4, <1>5, <1>6, <1>7, <1>8 DEF Next

LEMMA ConsistentAlways == Spec => []Consistent
  <1>1. Init => Consistent
    BY InitType, InitConsistent DEF Consistent
  <1>2. Consistent /\ [Next]_vars => Consistent'
    BY TypeStep, ConsistentStep DEF Consistent
  <1> QED
    BY <1>1, <1>2, PTL DEF Spec

\* The tables refer to each other as every operation relies on.
THEOREM TablesStayConsistent == Spec => []TablesConsistent
  <1>1. Consistent => TablesConsistent
    BY DEF Consistent
  <1> QED
    BY <1>1, ConsistentAlways, PTL

-----------------------------------------------------------------------------
(* No day is replayed and no notice repeated. *)

\* Only a new session moves a child's latest day, and never back.
THEOREM NoDayIsReplayed == Spec => DaysAreNotReplayed
  <1>1. Consistent /\ [Next]_vars =>
          [\A p \in Profiles : latest[p] <= latest'[p]]_latest
    <2> SUFFICES ASSUME Consistent, [Next]_vars
                 PROVE  [\A p \in Profiles : latest[p] <= latest'[p]]_latest
      OBVIOUS
    <2>1. ASSUME NEW p \in Profiles, BeginSession(p)
          PROVE  \A q \in Profiles : latest[q] <= latest'[q]
      <3>1. latest' = [latest EXCEPT ![p] = Today] /\ ClockAccepted(p)
        BY <2>1 DEF BeginSession
      <3>2. Today \in Int /\ Today >= 0 /\ Today >= profile_clock[p].date
        BY <3>1, TodayType, ClockTypes DEF ClockAccepted, Consistent
      <3>3. profile_clock[p].date \in Int
        BY ClockTypes DEF Consistent, TypeOK
      <3>4. \A q \in Profiles : latest[q] \in Int
        BY LatestType DEF Consistent
      <3>5. latest[p] <= Today
        BY <3>2, <3>3, <3>4 DEF Consistent, HistoryRecorded
      <3>6. \A q \in Profiles : latest'[q] = IF q = p THEN Today ELSE latest[q]
        BY <3>1 DEF Consistent, TypeOK
      <3> QED
        BY <3>4, <3>5, <3>6
    <2>2. ASSUME \/ \E keep \in BOOLEAN : UpdateActiveSession(keep)
                 \/ RecoverInterruptedSession
          PROVE  latest' = latest
      BY <2>2 DEF UpdateActiveSession, RecoverInterruptedSession
    <2> QED
      BY <2>1, <2>2
      DEF Next, SetDailyAllowance, RemoveUnusedDailyAllowance, Status,
          BeginRefused, Tick, SetClock, Crash, Reboot, history, vars
  <1> QED
    BY <1>1, ConsistentAlways, PTL DEF Spec, DaysAreNotReplayed

LEMMA MaskStep ==
  TypeOK /\ MaskIsHistory /\ [Next]_vars => MaskIsHistory'
  <1> SUFFICES ASSUME TypeOK, MaskIsHistory, [Next]_vars
               PROVE  MaskIsHistory'
    OBVIOUS
  <1>1. ASSUME \/ \E keep \in BOOLEAN : UpdateActiveSession(keep)
               \/ RecoverInterruptedSession
        PROVE  MaskIsHistory'
    <2>1. PICK row \in active_session, delta \in Nat, keep \in BOOLEAN :
            Charge(row, delta, keep)
      BY <1>1, SessionStep
    <2>2. PICK charged \in Nat, crossed \in SUBSET Warnings :
            Charged(row, delta, keep, charged, crossed)
      BY <2>1, ChargeEffect
    <2> DEFINE p == row.profile
               d == row.date
               stored == daily_usage[p][d]
    <2>3. p \in Profiles /\ d \in Dates
      BY RowType
    <2>4. /\ daily_usage'[p][d].mask = stored.mask \cup crossed
          /\ \A q \in Profiles : \A e \in Dates :
               <<q, e>> # <<p, d>> => daily_usage'[q][e] = daily_usage[q][e]
      BY <2>2, <2>3 DEF Charged, TypeOK
    <2>5. /\ announced'[p][d] = [w \in Warnings |->
               announced[p][d][w] + (IF w \in crossed THEN 1 ELSE 0)]
          /\ \A q \in Profiles : \A e \in Dates :
               <<q, e>> # <<p, d>> => announced'[q][e] = announced[q][e]
      BY <2>2, <2>3 DEF Charged, TypeOK
    <2>6. crossed \cap stored.mask = {}
      BY <2>2 DEF Charged
    <2>7. ASSUME NEW w \in Warnings
          PROVE  announced'[p][d][w] = IF w \in daily_usage'[p][d].mask THEN 1 ELSE 0
      BY <2>3, <2>4, <2>5, <2>6 DEF MaskIsHistory
    <2>8. ASSUME NEW q \in Profiles, NEW e \in Dates, <<q, e>> # <<p, d>>,
                 NEW w \in Warnings
          PROVE  announced'[q][e][w] = IF w \in daily_usage'[q][e].mask THEN 1 ELSE 0
      BY <2>4, <2>5, <2>8 DEF MaskIsHistory
    <2> QED
      BY <2>7, <2>8 DEF MaskIsHistory
  <1>2. ASSUME NEW p \in Profiles, NEW n \in Allowances, SetDailyAllowance(p, n)
        PROVE  UNCHANGED <<daily_usage, announced>>
    BY <1>2 DEF SetDailyAllowance, history
  <1>3. ASSUME Tick \/ SetClock \/ Crash \/ Reboot \/ UNCHANGED vars
        PROVE  UNCHANGED <<daily_usage, announced>>
    BY <1>3 DEF Tick, SetClock, Crash, Reboot, vars, store, history
  <1>4. ASSUME NEW p \in Profiles,
               RemoveUnusedDailyAllowance(p)
               \/ Status(p) \/ BeginRefused(p) \/ BeginSession(p)
        PROVE  UNCHANGED <<daily_usage, announced>>
    BY <1>4 DEF RemoveUnusedDailyAllowance, Status, BeginRefused, BeginSession,
                history
  <1>5. UNCHANGED <<daily_usage, announced>> => MaskIsHistory'
    BY DEF MaskIsHistory
  <1> QED
    BY <1>1, <1>2, <1>3, <1>4, <1>5 DEF Next

\* The persisted mask keeps every notice from being raised a second time.
THEOREM NoticesAreRaisedOnce == Spec => []WarnedAtMostOnce
  <1>1. Init => TypeOK /\ MaskIsHistory
    BY InitType DEF Init, MaskIsHistory, NoUsage
  <1>2. TypeOK /\ MaskIsHistory /\ [Next]_vars => (TypeOK /\ MaskIsHistory)'
    BY TypeStep, MaskStep
  <1>3. TypeOK /\ MaskIsHistory => WarnedAtMostOnce
    BY DEF MaskIsHistory, WarnedAtMostOnce
  <1> QED
    BY <1>1, <1>2, <1>3, PTL DEF Spec

-----------------------------------------------------------------------------
(* The accounting contract. *)

LEMMA OwedStep ==
  Consistent /\ OwedIsWitnessed /\ [Next]_vars => OwedIsWitnessed'
  <1> SUFFICES ASSUME Consistent, OwedIsWitnessed, [Next]_vars
               PROVE  OwedIsWitnessed'
    OBVIOUS
  <1> USE DEF Consistent
  <1>c. /\ CheckpointEvery \in Nat /\ CheckpointEvery <= RecoveryCap
        /\ RecoveryCap \in Nat
    BY PolicyAssumption
  <1>n. mono \in Nat /\ utc \in Nat /\ play.base \in Nat /\ play.ticks \in Nat
    BY ClockTypes DEF TypeOK
  <1>r. \A row \in active_session :
          /\ row.profile \in Profiles /\ row.date \in Dates
          /\ row.mono \in Nat /\ row.utc \in Nat
          /\ daily_usage[row.profile][row.date].used \in Nat
    BY RowType
  <1>1. ASSUME NEW p \in Profiles, BeginSession(p)
        PROVE  OwedIsWitnessed'
    <2>1. /\ active_session' =
               {[profile |-> p, date |-> Today, mono |-> mono, utc |-> utc]}
          /\ play' = [NotCounting EXCEPT !.base = daily_usage[p][Today].used]
          /\ UNCHANGED <<daily_usage, mono, utc>>
      BY <1>1 DEF BeginSession, clocks
    <2>2. daily_usage[p][Today].used \in Nat
      BY TodayType DEF TypeOK
    <2>3. play'.base = daily_usage[p][Today].used /\ play'.ticks = 0
      BY <2>1 DEF NotCounting
    <2>4. \A row \in active_session' :
            /\ row.profile = p /\ row.date = Today /\ row.mono = mono /\ row.utc = utc
      BY <2>1
    <2>5. \A row \in active_session' : Owed(row)' = 0
      BY <2>1, <2>2, <2>3, <2>4 DEF Owed
    <2> QED
      BY <1>c, <1>n, <2>1, <2>4, <2>5 DEF OwedIsWitnessed
  <1>2. ASSUME \/ \E keep \in BOOLEAN : UpdateActiveSession(keep)
               \/ RecoverInterruptedSession
        PROVE  OwedIsWitnessed'
    <2>1. PICK row \in active_session, delta \in Nat, keep \in BOOLEAN :
            /\ Charge(row, delta, keep)
            /\ keep => playing
            /\ \/ playing => delta = mono - row.mono
               \/ ~keep
            /\ UNCHANGED <<mono, utc>>
      BY <1>2, SessionStep
    <2>2. PICK charged \in Nat, crossed \in SUBSET Warnings :
            Charged(row, delta, keep, charged, crossed)
      BY <2>1, ChargeEffect
    <2> DEFINE p == row.profile
               d == row.date
               kept == [row EXCEPT !.mono = mono, !.utc = utc]
    <2>3. CASE active_session' = {}
      BY <2>3 DEF OwedIsWitnessed
    <2>4. CASE active_session' # {}
      <3>1. /\ keep /\ charged = mono - row.mono
            /\ active_session' = {kept}
            /\ play' = [play EXCEPT !.stepped = FALSE]
        BY <2>1, <2>2, <2>4 DEF Charged
      <3>2. daily_usage'[p][d].used = daily_usage[p][d].used + charged
        BY <1>r, <2>2 DEF Charged, TypeOK
      <3>3. play'.base = play.base /\ play'.ticks = play.ticks
        BY <3>1 DEF TypeOK
      <3>4. Owed(row) = mono - row.mono
        BY <2>1, <3>1 DEF OwedIsWitnessed
      <3>5. kept.profile = p /\ kept.date = d /\ kept.mono = mono /\ kept.utc = utc
        BY RowType DEF SessionRow
      <3> HIDE DEF kept
      <3>6. \A other \in active_session' :
              /\ Owed(other)' = 0
              /\ other.mono = mono /\ other.utc = utc
        <4>1. (play.base + play.ticks) - daily_usage[p][d].used = mono - row.mono
          BY <3>4 DEF Owed
        <4>2. (play'.base + play'.ticks) - daily_usage'[p][d].used = 0
          BY <1>n, <1>r, <3>1, <3>2, <3>3, <4>1
        <4> QED
          BY <3>1, <3>5, <4>2 DEF Owed
      <3> QED
        BY <1>c, <1>n, <2>1, <3>6 DEF OwedIsWitnessed
    <2> QED
      BY <2>3, <2>4
  <1>3. ASSUME Tick PROVE OwedIsWitnessed'
    <2>1. /\ utc' = utc + 1 /\ mono' = mono + 1
          /\ play' = IF playing THEN [play EXCEPT !.ticks = play.ticks + 1] ELSE play
          /\ UNCHANGED <<daily_usage, active_session, playing>>
          /\ playing => \A row \in active_session : mono - row.mono < CheckpointEvery
      BY <1>3 DEF Tick, store
    <2>2. /\ play'.base = play.base /\ play'.stepped = play.stepped
          /\ play'.ticks = IF playing THEN play.ticks + 1 ELSE play.ticks
      BY <2>1 DEF TypeOK
    <2>3. \A row \in active_session :
            Owed(row)' = IF playing THEN Owed(row) + 1 ELSE Owed(row)
      BY <1>n, <1>r, <2>1, <2>2 DEF Owed
    <2> QED
      BY <1>c, <1>n, <1>r, <2>1, <2>2, <2>3 DEF OwedIsWitnessed
  <1>4. ASSUME SetClock PROVE OwedIsWitnessed'
    <2>1. PICK t \in Instants :
            /\ utc' = t
            /\ play' = [play EXCEPT !.stepped =
                          play.stepped \/ (active_session # {} /\ t < utc)]
            /\ UNCHANGED <<daily_usage, active_session, playing, mono>>
      BY <1>4 DEF SetClock, store
    <2>2. /\ play'.base = play.base /\ play'.ticks = play.ticks
          /\ play'.stepped = (play.stepped \/ (active_session # {} /\ t < utc))
      BY <2>1 DEF TypeOK
    <2>3. \A row \in active_session : Owed(row)' = Owed(row)
      BY <2>1, <2>2 DEF Owed
    <2>4. t \in Nat
      BY ClockTypes
    <2>5. \A row \in active_session : Owed(row) \in Int
      BY <1>n, <1>r DEF Owed
    <2>6. ASSUME NEW row \in active_session, ~play'.stepped
          PROVE  Owed(row) <= t - row.utc
      <3>1. ~play.stepped /\ ~(t < utc)
        BY <2>2, <2>6
      <3>2. Owed(row) <= utc - row.utc
        BY <3>1 DEF OwedIsWitnessed
      <3> QED
        BY <1>n, <1>r, <2>4, <2>5, <3>1, <3>2
    <2> QED
      BY <2>1, <2>3, <2>6 DEF OwedIsWitnessed
  <1>5. ASSUME Crash \/ Reboot PROVE OwedIsWitnessed'
    <2>1. UNCHANGED <<daily_usage, active_session, utc, play>> /\ ~playing'
      BY <1>5 DEF Crash, Reboot, store, clocks, history
    <2> QED
      BY <2>1 DEF OwedIsWitnessed, Owed
  <1>6. ASSUME NEW p \in Profiles,
               \/ RemoveUnusedDailyAllowance(p) \/ Status(p) \/ BeginRefused(p)
               \/ \E n \in Allowances : SetDailyAllowance(p, n)
        PROVE  OwedIsWitnessed'
    BY <1>6 DEF RemoveUnusedDailyAllowance, Status, BeginRefused,
                SetDailyAllowance, OwedIsWitnessed, Owed, clocks, history
  <1>7. CASE UNCHANGED vars
    BY <1>7 DEF vars, store, clocks, history, OwedIsWitnessed, Owed
  <1> QED
    BY <1>1, <1>2, <1>3, <1>4, <1>5, <1>6, <1>7 DEF Next

LEMMA InvAlways == Spec => []Inv
  <1>1. Init => Inv
    BY InitType, InitConsistent
    DEF Init, Inv, MaskIsHistory, NoUsage, OwedIsWitnessed
  <1>2. Inv /\ [Next]_vars => Inv'
    BY TypeStep, ConsistentStep, MaskStep, OwedStep DEF Inv, Consistent
  <1> QED
    BY <1>1, <1>2, PTL DEF Spec

\* Whatever neither charges nor begins a session leaves every usage row and
\* every session row alone.
LEMMA OtherStepsLeaveUsage ==
  ASSUME [Next]_vars,
         ~ \E keep \in BOOLEAN : UpdateActiveSession(keep),
         ~ RecoverInterruptedSession
  PROVE  daily_usage' = daily_usage /\ (active_session \subseteq active_session')
  <1>1. ASSUME NEW p \in Profiles, NEW n \in Allowances, SetDailyAllowance(p, n)
        PROVE  UNCHANGED <<daily_usage, active_session>>
    BY <1>1 DEF SetDailyAllowance
  <1>2. ASSUME NEW p \in Profiles,
               RemoveUnusedDailyAllowance(p) \/ Status(p) \/ BeginRefused(p)
        PROVE  UNCHANGED <<daily_usage, active_session>>
    BY <1>2 DEF RemoveUnusedDailyAllowance, Status, BeginRefused
  <1>3. ASSUME NEW p \in Profiles, BeginSession(p)
        PROVE  daily_usage' = daily_usage /\ (active_session \subseteq active_session')
    BY <1>3 DEF BeginSession
  <1>4. ASSUME Tick \/ SetClock \/ Crash \/ Reboot \/ UNCHANGED vars
        PROVE  UNCHANGED <<daily_usage, active_session>>
    BY <1>4 DEF Tick, SetClock, Crash, Reboot, vars, store
  <1> QED
    BY <1>1, <1>2, <1>3, <1>4 DEF Next

\* One charge of a session, seen from what the session owes its day.
LEMMA ChargeCoversOwed ==
  ASSUME Inv, NEW row \in active_session,
         \/ \E keep \in BOOLEAN : UpdateActiveSession(keep)
         \/ RecoverInterruptedSession
  PROVE  LET used == daily_usage'[row.profile][row.date].used
             played == play.base + play.ticks
         IN /\ (playing \/ ~play.stepped) =>
                 used >= AtMost(daily_policy[row.profile], played)
            /\ ClockAccepted(row.profile) =>
                 used <= played + (IF playing THEN 0 ELSE RecoveryCap)
  <1> USE DEF Inv
  <1>1. PICK r \in active_session, delta \in Nat, keep \in BOOLEAN :
           /\ Charge(r, delta, keep)
           /\ \/ /\ ClockAccepted(r.profile)
                 /\ playing => delta = mono - r.mono
                 /\ ~playing => delta = RecoveryCharge(r)
              \/ /\ ~ClockAccepted(r.profile)
                 /\ delta = daily_policy[r.profile]
    BY SessionStep
  <1>2. r = row
    BY DEF TablesConsistent
  <1>3. PICK charged \in Nat, crossed \in SUBSET Warnings :
          Charged(row, delta, keep, charged, crossed)
    BY <1>1, <1>2, ChargeEffect
  <1> DEFINE p == row.profile
             d == row.date
             used == daily_usage[p][d].used
             left == Remaining(daily_policy[p], used)
             played == play.base + play.ticks
  <1>4. /\ p \in Profiles /\ d \in Dates /\ used \in Nat
        /\ row.mono \in Nat /\ row.utc \in Nat /\ daily_policy[p] \in Nat
    BY RowType
  <1>5. daily_usage'[p][d].used = used + charged /\ charged = AtMost(delta, left)
    BY <1>3, <1>4 DEF Charged, TypeOK
  <1>6. /\ left \in Nat /\ used + left >= daily_policy[p]
        /\ left <= daily_policy[p]
    BY <1>4, RemainingType
  <1>7. /\ RecoveryCap \in Nat /\ CheckpointEvery \in Nat
        /\ CheckpointEvery <= RecoveryCap
    BY PolicyAssumption
  <1>8. played \in Nat /\ mono \in Nat /\ utc \in Nat
    BY ClockTypes DEF TypeOK
  <1>9. /\ 0 <= played - used /\ played - used <= CheckpointEvery
        /\ playing => played - used = mono - row.mono
        /\ ~play.stepped => played - used <= utc - row.utc
    <2>0. play.base \in Nat /\ play.ticks \in Nat
      BY DEF TypeOK
    <2>1. Owed(row) = played - used
      BY <1>4, <2>0 DEF Owed
    <2>2. /\ Owed(row) \in 0..CheckpointEvery
          /\ playing => Owed(row) = mono - row.mono
          /\ ~play.stepped => Owed(row) <= utc - row.utc
      BY DEF OwedIsWitnessed
    <2> QED
      BY <1>7, <2>1, <2>2
  <1>10. CASE ~ClockAccepted(p)
    <2>1. charged = left
      BY <1>1, <1>2, <1>4, <1>5, <1>6, <1>10 DEF AtMost
    <2> QED
      BY <1>4, <1>5, <1>6, <1>8, <1>10, <2>1 DEF AtMost
  <1>11. CASE ClockAccepted(p) /\ playing
    <2>1. delta = played - used
      BY <1>1, <1>2, <1>9, <1>11
    <2> QED
      BY <1>4, <1>5, <1>6, <1>8, <1>11, <2>1 DEF AtMost
  <1>12. CASE ClockAccepted(p) /\ ~playing
    <2>1. /\ delta <= RecoveryCap
          /\ ~play.stepped => delta >= played - used
      BY <1>1, <1>2, <1>4, <1>7, <1>8, <1>9, <1>12 DEF RecoveryCharge, AtMost
    <2>2. charged <= RecoveryCap
      BY <1>5, <1>6, <1>7, <2>1 DEF AtMost
    <2>3. ~play.stepped => used + charged >= AtMost(daily_policy[p], played)
      BY <1>4, <1>5, <1>6, <1>8, <2>1 DEF AtMost
    <2> QED
      BY <1>4, <1>5, <1>7, <1>8, <1>9, <1>12, <2>2, <2>3
  <1> QED
    BY <1>10, <1>11, <1>12

\* A session that ends has been charged for its play, up to the allowance.
THEOREM PlayIsCharged == Spec => PlayIsAccountedFor
  <1>1. Inv /\ [Next]_vars =>
          \A row \in active_session :
            (active_session' = {} /\ (playing \/ ~play.stepped)) =>
              daily_usage'[row.profile][row.date].used >=
                AtMost(daily_policy[row.profile], play.base + play.ticks)
    BY ChargeCoversOwed, OtherStepsLeaveUsage
  <1> QED
    BY <1>1, InvAlways, PTL DEF Spec, PlayIsAccountedFor

\* Accounting never takes more of a day than the play and one recovery bound.
THEOREM ChargesAreBounded == Spec => NeverOvercharged
  <1>1. ASSUME Inv, [Next]_vars, NEW row \in active_session,
               ClockAccepted(row.profile)
        PROVE  daily_usage'[row.profile][row.date].used <=
                 play.base + play.ticks + (IF playing THEN 0 ELSE RecoveryCap)
    <2>1. CASE \/ \E keep \in BOOLEAN : UpdateActiveSession(keep)
               \/ RecoverInterruptedSession
      BY <1>1, <2>1, ChargeCoversOwed
    <2>2. CASE ~ \/ \E keep \in BOOLEAN : UpdateActiveSession(keep)
                 \/ RecoverInterruptedSession
      <3>1. daily_usage' = daily_usage
        BY <1>1, <2>2, OtherStepsLeaveUsage
      <3>2. daily_usage[row.profile][row.date].used \in Nat
        BY <1>1, RowType DEF Inv
      <3>3. 0 <= (play.base + play.ticks) - daily_usage[row.profile][row.date].used
        BY <1>1, PolicyAssumption DEF Inv, OwedIsWitnessed, Owed
      <3>4. play.base \in Nat /\ play.ticks \in Nat /\ RecoveryCap \in Nat
        BY <1>1, PolicyAssumption DEF Inv, TypeOK
      <3> QED
        BY <3>1, <3>2, <3>3, <3>4
    <2> QED
      BY <2>1, <2>2
  <1>2. Inv /\ [Next]_vars =>
          \A row \in active_session :
            ClockAccepted(row.profile) =>
              daily_usage'[row.profile][row.date].used <=
                play.base + play.ticks + (IF playing THEN 0 ELSE RecoveryCap)
    BY <1>1
  <1> QED
    BY <1>2, InvAlways, PTL DEF Spec, NeverOvercharged

-----------------------------------------------------------------------------
(* The store implements the daily budget. *)

LEMMA PlayerOfRow ==
  ASSUME TablesConsistent, NEW row \in active_session
  PROVE  Player = <<row.profile, row.date>>
  <1>1. (CHOOSE r \in active_session : TRUE) = row
    BY DEF TablesConsistent
  <1> QED
    BY <1>1 DEF Player

LEMMA SpentValue ==
  TypeOK => \A p \in Profiles : \A d \in Dates :
    Spent[p][d] = daily_usage[p][d].used /\ Spent[p][d] \in Nat
  BY DEF Spent, TypeOK

LEMMA SpentUnchanged ==
  daily_usage' = daily_usage => Spent' = Spent
  BY DEF Spent

LEMMA SpentAt ==
  ASSUME NEW a \in Profiles, NEW b \in Dates, NEW v,
         \A q \in Profiles : \A e \in Dates : daily_usage'[q][e].used =
           IF q = a /\ e = b THEN v ELSE daily_usage[q][e].used
  PROVE  Spent' = [Spent EXCEPT ![a][b] = v]
  <1>1. ASSUME NEW q \in Profiles
        PROVE  Spent'[q] = [Spent EXCEPT ![a][b] = v][q]
    <2>1. Spent'[q] = [e \in Dates |-> daily_usage'[q][e].used]
      BY DEF Spent
    <2>2. Spent[q] = [e \in Dates |-> daily_usage[q][e].used]
      BY DEF Spent
    <2>3. CASE q = a
      <3>1. [Spent EXCEPT ![a][b] = v][q] = [Spent[q] EXCEPT ![b] = v]
        BY <2>3 DEF Spent
      <3>2. [Spent[q] EXCEPT ![b] = v] =
              [e \in Dates |-> IF e = b THEN v ELSE daily_usage[q][e].used]
        BY <2>2
      <3> QED
        BY <2>1, <2>3, <3>1, <3>2
    <2>4. CASE q # a
      <3>1. [Spent EXCEPT ![a][b] = v][q] = Spent[q]
        BY <2>4 DEF Spent
      <3> QED
        BY <2>1, <2>2, <2>4, <3>1
    <2> QED
      BY <2>3, <2>4
  <1> QED
    BY <1>1 DEF Spent

LEMMA PlayerUnchanged ==
  active_session' = active_session => Player' = Player
  BY DEF Player

LEMMA BeginImplementsStart ==
  ASSUME Inv, Inv', NEW p \in Profiles, BeginSession(p)
  PROVE  Budget!StartPlay(p, Today)
  <1> USE DEF Inv
  <1>1. /\ active_session = {}
        /\ active_session' =
             {[profile |-> p, date |-> Today, mono |-> mono, utc |-> utc]}
        /\ latest' = [latest EXCEPT ![p] = Today]
        /\ UNCHANGED <<daily_policy, daily_usage>>
        /\ ClockAccepted(p)
        /\ daily_policy[p] > 0
        /\ Remaining(daily_policy[p], daily_usage[p][Today].used) > 0
    BY DEF BeginSession
  <1>2. Player = NoPlay
    BY <1>1 DEF Player
  <1>3. Player' = <<p, Today>>
    <2> DEFINE row == [profile |-> p, date |-> Today, mono |-> mono, utc |-> utc]
    <2>1. (CHOOSE r \in active_session' : TRUE) = row
      BY <1>1
    <2> QED
      BY <1>1, <2>1 DEF Player
  <1>4. Today \in Dates /\ Today \in Nat
    BY TodayType, ClockTypes
  <1>5. Spent[p][Today] < daily_policy[p]
    <2>1. daily_policy[p] \in Nat
      BY AllowanceType DEF TypeOK
    <2>2. Spent[p][Today] = daily_usage[p][Today].used /\ Spent[p][Today] \in Nat
      BY <1>4, SpentValue
    <2> QED
      BY <1>1, <2>1, <2>2 DEF Remaining
  <1>6. latest[p] <= Today
    <2>1. Today >= profile_clock[p].date /\ profile_clock[p].date \in Int
      BY <1>1, ClockTypes DEF ClockAccepted, TypeOK
    <2>2. latest[p] \in Int
      BY LatestType
    <2> QED
      BY <1>4, <2>1, <2>2 DEF HistoryRecorded
  <1> QED
    BY <1>1, <1>2, <1>3, <1>4, <1>5, <1>6, SpentUnchanged
    DEF Budget!StartPlay

LEMMA SessionImplementsSpend ==
  ASSUME Inv, Inv',
         \/ \E keep \in BOOLEAN : UpdateActiveSession(keep)
         \/ RecoverInterruptedSession
  PROVE  \E p \in Profiles, d \in Dates : Budget!Spend(p, d)
  <1> USE DEF Inv
  <1>1. PICK row \in active_session, delta \in Nat, keep \in BOOLEAN :
          /\ Charge(row, delta, keep)
          /\ UNCHANGED <<daily_policy, mono, utc, zone, latest>>
    BY SessionStep
  <1>2. PICK charged \in Nat, crossed \in SUBSET Warnings :
          Charged(row, delta, keep, charged, crossed)
    BY <1>1, ChargeEffect
  <1> DEFINE p == row.profile
             d == row.date
             used == daily_usage[p][d].used
             left == Remaining(daily_policy[p], used)
             s == used + charged
  <1>3. /\ p \in Profiles /\ d \in Dates /\ used \in Nat
        /\ daily_policy[p] \in Nat
    BY RowType
  <1>4. Player = <<p, d>>
    BY PlayerOfRow
  <1>5. /\ left \in Nat /\ left <= daily_policy[p]
        /\ left # 0 => used + left = daily_policy[p]
    BY <1>3, RemainingType
  <1>6. charged <= left
    BY <1>2, <1>5 DEF Charged, AtMost
  <1>7. /\ s \in used..(used + daily_policy[p])
        /\ s <= daily_policy[p] \/ s = used
        /\ charged < left => s < daily_policy[p]
    BY <1>3, <1>5, <1>6
  <1>8. Spent' = [Spent EXCEPT ![p][d] = s]
    <2>1. \A q \in Profiles : \A e \in Dates : daily_usage'[q][e].used =
            IF q = p /\ e = d THEN s ELSE daily_usage[q][e].used
      BY <1>2, <1>3 DEF Charged, TypeOK
    <2> HIDE DEF s, p, d
    <2> QED
      BY <1>3, <2>1, SpentAt
  <1>9. Player' = NoPlay \/ (s < daily_policy[p] /\ Player' = Player)
    <2>1. CASE active_session' = {}
      BY <2>1 DEF Player
    <2>2. CASE active_session' # {}
      <3> DEFINE kept == [row EXCEPT !.mono = mono, !.utc = utc]
      <3>1. active_session' = {kept} /\ charged < left
        BY <1>2, <2>2 DEF Charged
      <3>2. kept.profile = p /\ kept.date = d
        BY RowType DEF SessionRow
      <3>3. ASSUME NEW x, active_session' = {x}, x.profile = p, x.date = d
            PROVE  Player' = <<p, d>>
        <4>1. (CHOOSE r \in active_session' : TRUE) = x
          BY <3>3
        <4> QED
          BY <3>3, <4>1 DEF Player
      <3>4. Player' = <<p, d>>
        BY <3>1, <3>2, <3>3
      <3> QED
        BY <1>4, <1>7, <3>1, <3>4
    <2> QED
      BY <2>1, <2>2
  <1>10. Spent[p][d] = used
    BY <1>3, SpentValue
  <1>11. Budget!Spend(p, d)
    <2> HIDE DEF s, used, p, d
    <2> QED
      BY <1>1, <1>3, <1>4, <1>7, <1>8, <1>9, <1>10 DEF Budget!Spend
  <1> QED
    BY <1>3, <1>11

\* Every step of the store is a step of the daily budget, or none.
THEOREM StoreImplementsBudget == Spec => ImplementsBudget
  <1>1. Init => Budget!BudgetInit
    <2> SUFFICES ASSUME Init PROVE Budget!BudgetInit
      OBVIOUS
    <2>1. Spent = [p \in Profiles |-> [d \in Dates |-> 0]]
      BY DEF Init, Spent, NoUsage
    <2> QED
      BY <2>1 DEF Init, Player, Budget!BudgetInit
  <1>2. Inv /\ Inv' /\ [Next]_vars => [Budget!BudgetNext]_(Budget!budgetVars)
    <2> SUFFICES ASSUME Inv, Inv', [Next]_vars
                 PROVE  Budget!BudgetNext \/ UNCHANGED Budget!budgetVars
      OBVIOUS
    <2>1. ASSUME NEW p \in Profiles, NEW n \in Allowances, SetDailyAllowance(p, n)
          PROVE  Budget!SetBudget(p, n)
      BY <2>1, SpentUnchanged, PlayerUnchanged
      DEF SetDailyAllowance, history, Budget!SetBudget
    <2>2. ASSUME NEW p \in Profiles, RemoveUnusedDailyAllowance(p)
          PROVE  Budget!DropBudget(p)
      <3>1. latest[p] = -1
        BY <2>2 DEF RemoveUnusedDailyAllowance, Inv, HistoryRecorded
      <3> QED
        BY <2>2, <3>1, SpentUnchanged, PlayerUnchanged
        DEF RemoveUnusedDailyAllowance, history, Budget!DropBudget
    <2>3. ASSUME NEW p \in Profiles, Status(p) \/ BeginRefused(p)
          PROVE  UNCHANGED Budget!budgetVars
      BY <2>3, SpentUnchanged, PlayerUnchanged
      DEF Status, BeginRefused, history, Budget!budgetVars
    <2>4. ASSUME NEW p \in Profiles, BeginSession(p)
          PROVE  \E d \in Dates : Budget!StartPlay(p, d)
      BY <2>4, BeginImplementsStart, TodayType DEF Inv
    <2>5. ASSUME \/ \E keep \in BOOLEAN : UpdateActiveSession(keep)
                 \/ RecoverInterruptedSession
          PROVE  Budget!BudgetNext
      BY <2>5, SessionImplementsSpend DEF Budget!BudgetNext
    <2>6. ASSUME Tick \/ SetClock \/ Crash \/ Reboot \/ UNCHANGED vars
          PROVE  UNCHANGED Budget!budgetVars
      BY <2>6, SpentUnchanged, PlayerUnchanged
      DEF Tick, SetClock, Crash, Reboot, vars, store, history, Budget!budgetVars
    <2> QED
      BY <2>1, <2>2, <2>3, <2>4, <2>5, <2>6 DEF Next, Budget!BudgetNext
  <1> QED
    BY <1>1, <1>2, InvAlways, PTL DEF Spec, ImplementsBudget, Budget!BudgetSpec

-----------------------------------------------------------------------------
(* Launches. *)

\* A child's game runs under one session, that of its launch; the day's use
\* and the clock keep up with what was played under it.
OwnSession(row) ==
  /\ active_session = {row}
  /\ row.profile = game.profile /\ row.mono = game.mono
  /\ play.base <= daily_usage[row.profile][row.date].used
  /\ play.ticks <= mono - row.mono

Metered ==
  /\ IsChild => playing /\ \E row \in active_session : OwnSession(row)
  /\ playing => IsChild

\* An activity row is open only while its game's launch is being recorded, or
\* in the library of a launcher that is down.
Settled ==
  /\ \A g \in Games : play_sessions[g] = "active" =>
       launcher = "down" \/ (launcher = "finish" /\ g = game)
  /\ \A g \in Games : play_sessions[g] # "none" => g \in returned
  /\ launcher \in {"begin", "finish"} => game \in returned

PlayInv == PlayTypeOK /\ Metered /\ Settled /\ OneChildPlays

LEMMA PlayInitInv == PlayInit => PlayInv
<1> SUFFICES ASSUME PlayInit PROVE PlayInv
  OBVIOUS
<1>1. TypeOK
  BY InitType DEF PlayInit
<1>2. PlayTypeOK
  BY <1>1 DEF PlayInit, PlayTypeOK, InLaunch, Outcomes
<1>3. ~IsChild /\ ~playing
  BY DEF PlayInit, IsChild, Init
<1>4. OneChildPlays
  BY DEF PlayInit, OneChildPlays, ChildGames
<1> QED
  BY <1>2, <1>3, <1>4 DEF PlayInv, Metered, Settled, PlayInit

-----------------------------------------------------------------------------
(* Types. *)

\* Every step but the passing of time is a step of the policy, or none of its.
LEMMA PolicySteps ==
  ASSUME TypeOK, PlayNext, ~PlayTick PROVE [Next]_vars
<1> USE DEF vars, store, clocks, history
<1>1. ASSUME NEW p \in Profiles,
             GiveDefault(p) \/ LaunchChild(p) \/ RefuseChild(p) \/ LaunchThrows(p)
      PROVE  [Next]_vars
  BY <1>1, PlayAssumption
  DEF GiveDefault, LaunchChild, RefuseChild, LaunchThrows, Next
<1>2. CASE Die \/ BeginPlaySessionThrows
  <2>1. playing \in BOOLEAN
    BY DEF TypeOK
  <2>2. UNCHANGED <<store, clocks, history>> /\ playing' = FALSE
    BY <1>2 DEF Die, BeginPlaySessionThrows
  <2>3. CASE playing
    BY <2>2, <2>3 DEF Next, Crash
  <2>4. CASE ~playing
    BY <2>1, <2>2, <2>4
  <2> QED
    BY <2>1, <2>3, <2>4
<1>3. CASE Pause
  BY <1>3 DEF Pause, Next
<1>4. CASE ClockIsSet \/ DeviceBoots
  BY <1>4 DEF ClockIsSet, DeviceBoots, Next
<1>5. CASE \/ Start \/ Ready \/ LaunchParent \/ GameReturns \/ GameFails
           \/ BeginPlaySession \/ FinishPlaySession \/ OrphanEnds
  BY <1>5 DEF Start, Ready, LaunchParent, GameReturns, GameFails,
              BeginPlaySession, FinishPlaySession, OrphanEnds
<1> QED
  BY <1>1, <1>2, <1>3, <1>4, <1>5 DEF PlayNext

LEMMA PolicyTypeStep ==
  ASSUME TypeOK, [PlayNext]_playVars PROVE TypeOK'
<1>1. CASE UNCHANGED playVars
  <2>1. UNCHANGED vars
    BY <1>1 DEF playVars
  <2> QED
    BY <2>1, TypeStep
<1>2. CASE PlayTick
  <2>1. mono' \in 0..MaxMono /\ utc' \in Instants
    BY <1>2, PolicyAssumption DEF PlayTick, TypeOK, Instants
  <2>2. play' \in [base : Nat, ticks : Nat, stepped : BOOLEAN]
    <3>1. /\ play \in [base : Nat, ticks : Nat, stepped : BOOLEAN]
          /\ play' = IF playing THEN [play EXCEPT !.ticks = @ + 1] ELSE play
      BY <1>2 DEF PlayTick, TypeOK
    <3>2. play.ticks + 1 \in Nat
      BY <3>1
    <3> QED
      BY <3>1, <3>2
  <2> QED
    BY <1>2, <2>1, <2>2 DEF PlayTick, TypeOK, store
<1>3. CASE PlayNext /\ ~PlayTick
  BY <1>3, PolicySteps, TypeStep
<1> QED
  BY <1>1, <1>2, <1>3

LEMMA PlayTypeStep ==
  ASSUME PlayTypeOK, [PlayNext]_playVars PROVE PlayTypeOK'
<1> USE DEF PlayTypeOK, InLaunch, Outcomes, records
<1>t. TypeOK'
  BY PolicyTypeStep
<1>m. mono \in 0..MaxMono
  BY DEF TypeOK
<1>g. NoGame \notin Games
  BY PlayAssumption
<1>1. CASE UNCHANGED playVars
  BY <1>1, <1>t DEF playVars
<1>2. ASSUME NEW p \in Profiles,
             GiveDefault(p) \/ RefuseChild(p) \/ LaunchThrows(p)
      PROVE  PlayTypeOK'
  BY <1>2, <1>t DEF GiveDefault, RefuseChild, LaunchThrows
<1>3. ASSUME NEW p \in Players, Begin(p) PROVE PlayTypeOK'
  <2>1. [profile |-> p, mono |-> mono] \in Games
    BY <1>m DEF Games
  <2> QED
    BY <1>3, <1>t, <1>g, <2>1 DEF Begin
<1>4. CASE Start
  BY <1>4, <1>t DEF Start, RecoverInterruptedSessions
<1>5. CASE Die \/ BeginPlaySessionThrows
  <2>1. Die
    BY <1>5 DEF BeginPlaySessionThrows
  <2>2. launcher = "game" => game \in Games
    OBVIOUS
  <2>3. orphans' \subseteq Games
    BY <2>1, <2>2 DEF Die
  <2>4. /\ game' = NoGame /\ launcher' = "down"
        /\ UNCHANGED <<play_sessions, returned>>
    BY <2>1 DEF Die
  <2> QED
    BY <1>t, <2>3, <2>4
<1>6. CASE GameReturns \/ BeginPlaySession
  BY <1>6, <1>t DEF GameReturns, BeginPlaySession
<1>7. CASE GameFails \/ FinishPlaySession \/ Pause
  <2>1. play_sessions' \in [Games -> {"active", "finished", "interrupted", "none"}]
    BY <1>7 DEF GameFails, FinishPlaySession, Pause
  <2>2. /\ game' \in Games \cup {NoGame} /\ launcher' \in {"idle", "pause"}
        /\ (game' # NoGame) = (launcher' \in InLaunch)
    <3>1. game \in Games /\ game # NoGame
      BY <1>7, <1>g DEF GameFails, FinishPlaySession, Pause
    <3>2. PICK next \in {"idle", "pause"} :
            /\ launcher' = next
            /\ game' = IF next = "idle" THEN NoGame ELSE game
      BY <1>7 DEF GameFails, FinishPlaySession, Pause, Leave, AfterActivity
    <3> QED
      BY <3>1, <3>2
  <2>3. UNCHANGED <<orphans, returned>>
    BY <1>7 DEF GameFails, FinishPlaySession, Pause
  <2> QED
    BY <1>t, <2>1, <2>2, <2>3
<1>8. CASE Ready \/ OrphanEnds \/ PlayTick \/ ClockIsSet \/ DeviceBoots
  BY <1>8, <1>t DEF Ready, OrphanEnds, PlayTick, ClockIsSet, DeviceBoots
<1>9. CASE LaunchParent \/ \E p \in Profiles : LaunchChild(p)
  BY <1>9, <1>3 DEF LaunchParent, LaunchChild, Players
<1> QED
  BY <1>1, <1>2, <1>4, <1>5, <1>6, <1>7, <1>8, <1>9 DEF PlayNext

-----------------------------------------------------------------------------
(* Metering. *)

LEMMA MeteredStep ==
  ASSUME PlayInv, [PlayNext]_playVars PROVE Metered'
<1> USE DEF PlayInv, Metered, OwnSession, IsChild
<1>t. TypeOK
  BY DEF PlayTypeOK
<1>m. mono \in Nat
  BY <1>t, PolicyAssumption DEF TypeOK
<1>g. NoGame \notin Games
  BY PlayAssumption
<1>i. IsChild => launcher \in InLaunch
  BY DEF PlayTypeOK
<1>1. CASE UNCHANGED playVars
  BY <1>1 DEF playVars, vars, store, clocks, history
<1>2. ASSUME NEW p \in Profiles, LaunchChild(p) PROVE Metered'
  <2>0. PICK row :
          row = [profile |-> p, date |-> Today, mono |-> mono, utc |-> utc]
    OBVIOUS
  <2>1. active_session' = {row} /\ playing'
    BY <1>2, <2>0 DEF LaunchChild, BeginSession
  <2>2. game' = [profile |-> p, mono |-> mono]
    BY <1>2 DEF LaunchChild, Begin
  <2>3. /\ play'.base = daily_usage[p][Today].used /\ play'.ticks = 0
        /\ daily_usage' = daily_usage /\ mono' = mono
    BY <1>2 DEF LaunchChild, BeginSession, NotCounting, clocks
  <2>4. daily_usage[p][Today].used \in Nat
    BY <1>t, TodayType DEF TypeOK
  <2>5. game' # NoGame
    <3>1. [profile |-> p, mono |-> mono] \in Games
      BY <1>t DEF Games, Players, TypeOK
    <3> QED
      BY <2>2, <3>1, <1>g
  <2>6. OwnSession(row)'
    BY <2>0, <2>1, <2>2, <2>3, <2>4, <1>m
  <2> QED
    BY <2>1, <2>2, <2>5, <2>6
<1>3. ASSUME NEW p \in Profiles,
             GiveDefault(p) \/ RefuseChild(p) \/ LaunchThrows(p)
      PROVE  Metered'
  BY <1>3, <1>i
  DEF GiveDefault, RefuseChild, LaunchThrows, SetDailyAllowance, BeginRefused,
      InLaunch, vars, store, clocks, history
<1>4. CASE LaunchParent
  <2>1. ~IsChild /\ game' = [profile |-> Parent, mono |-> mono]
    BY <1>4, <1>i DEF LaunchParent, Begin, InLaunch
  <2>2. ~IsChild'
    BY <2>1, PlayAssumption
  <2> QED
    BY <2>1, <2>2, <1>4 DEF LaunchParent, vars
<1>5. CASE Die \/ BeginPlaySessionThrows
  BY <1>5 DEF Die, BeginPlaySessionThrows
<1>6. CASE \/ Start \/ Ready \/ GameReturns \/ BeginPlaySession \/ OrphanEnds
  BY <1>6, <1>i DEF Start, Ready, GameReturns, BeginPlaySession, OrphanEnds,
     InLaunch, vars, store, clocks, history
<1>7. CASE GameFails \/ FinishPlaySession
  <2>1. /\ UNCHANGED <<store, clocks, playing, play>>
        /\ game' = IF IsChild THEN game ELSE NoGame
    BY <1>7 DEF GameFails, FinishPlaySession, Leave, AfterActivity, vars,
                history
  <2> QED
    BY <2>1 DEF store, clocks
<1>8. CASE Pause
  <2>1. game' = NoGame
    BY <1>8 DEF Pause, Leave
  <2>2. active_session' = {} /\ playing' = (active_session' # {})
    BY <1>8 DEF Pause, UpdateActiveSession, Charge
  <2> QED
    BY <2>1, <2>2
<1>9. CASE PlayTick
  <2>1. /\ mono' = mono + 1 /\ UNCHANGED <<store, playing, game>>
        /\ play' = IF playing THEN [play EXCEPT !.ticks = @ + 1] ELSE play
    BY <1>9 DEF PlayTick
  <2>2. ASSUME IsChild PROVE \E row \in active_session : OwnSession(row)'
    <3>1. PICK row \in active_session : OwnSession(row)
      BY <2>2
    <3>2. row.mono \in Nat
      BY <1>t, RowType
    <3>3. play.ticks \in Nat /\ play'.base = play.base
          /\ play'.ticks = play.ticks + 1
      BY <2>1, <2>2, <1>t DEF TypeOK
    <3> QED
      BY <2>1, <3>1, <3>2, <3>3, <1>m DEF store
  <2> QED
    BY <2>1, <2>2 DEF store
<1>10. CASE ClockIsSet
  <2>1. /\ UNCHANGED <<store, mono, playing, game>>
        /\ play'.base = play.base /\ play'.ticks = play.ticks
    BY <1>10, <1>t DEF ClockIsSet, SetClock, TypeOK
  <2> QED
    BY <2>1 DEF store
<1>11. CASE DeviceBoots
  BY <1>11, <1>i DEF DeviceBoots, Reboot, InLaunch
<1> QED
  BY <1>1, <1>2, <1>3, <1>4, <1>5, <1>6, <1>7, <1>8, <1>9, <1>10, <1>11
  DEF PlayNext

-----------------------------------------------------------------------------
(* The record of play. *)

LEMMA SettledStep ==
  ASSUME PlayInv, [PlayNext]_playVars PROVE Settled'
<1> USE DEF PlayInv, Settled, records
<1>t. /\ play_sessions \in [Games -> {"active", "finished", "interrupted", "none"}]
      /\ launcher \in InLaunch => game \in Games
      /\ NoGame \notin Games
  BY PlayAssumption DEF PlayTypeOK, Outcomes
<1>1. CASE UNCHANGED playVars
  BY <1>1 DEF playVars
<1>2. ASSUME NEW p \in Profiles,
             GiveDefault(p) \/ LaunchChild(p) \/ RefuseChild(p) \/ LaunchThrows(p)
      PROVE  Settled'
  BY <1>2 DEF GiveDefault, LaunchChild, RefuseChild, LaunchThrows, Begin
<1>3. CASE Start
  BY <1>3, <1>t DEF Start, RecoverInterruptedSessions
<1>4. CASE Die \/ BeginPlaySessionThrows
  <2>1. launcher' = "down" /\ UNCHANGED <<play_sessions, returned>>
    BY <1>4 DEF Die, BeginPlaySessionThrows
  <2> QED
    BY <2>1
<1>5. CASE LaunchParent \/ Ready \/ GameReturns
  BY <1>5 DEF LaunchParent, Ready, GameReturns, Begin
<1>6. CASE BeginPlaySession
  BY <1>6, <1>t DEF BeginPlaySession, InLaunch
<1>7. CASE FinishPlaySession
  BY <1>7, <1>t DEF FinishPlaySession, Leave, AfterActivity, InLaunch
<1>8. CASE GameFails \/ Pause
  BY <1>8 DEF GameFails, Pause, Leave, AfterActivity
<1>9. CASE OrphanEnds \/ PlayTick \/ ClockIsSet \/ DeviceBoots
  BY <1>9 DEF OrphanEnds, PlayTick, ClockIsSet, DeviceBoots
<1> QED
  BY <1>1, <1>2, <1>3, <1>4, <1>5, <1>6, <1>7, <1>8, <1>9 DEF PlayNext

-----------------------------------------------------------------------------
(* Games that outlive their launcher. *)

\* Steps that neither begin nor settle a session and leave the orphans alone.
Aside ==
  \/ Start \/ Ready \/ LaunchParent \/ GameReturns \/ GameFails
  \/ BeginPlaySession \/ FinishPlaySession \/ PlayTick \/ ClockIsSet
  \/ \E p \in Profiles : GiveDefault(p) \/ RefuseChild(p) \/ LaunchThrows(p)

LEMMA AsideSteps ==
  Aside => UNCHANGED <<active_session, orphans>> /\ (IsChild' => IsChild)
<1> USE DEF IsChild, vars, store, clocks
<1>1. LaunchParent => /\ UNCHANGED <<active_session, orphans>>
                      /\ ~IsChild'
  BY PlayAssumption DEF LaunchParent, Begin
<1>2. Start \/ Ready \/ GameReturns \/ GameFails \/ BeginPlaySession
      \/ FinishPlaySession
        => /\ UNCHANGED <<active_session, orphans>>
           /\ game' \in {game, NoGame}
  BY DEF Start, Ready, GameReturns, GameFails, BeginPlaySession,
         FinishPlaySession, Leave
<1>3. PlayTick \/ ClockIsSet => UNCHANGED <<active_session, orphans, game>>
  BY DEF PlayTick, ClockIsSet, SetClock
<1>4. ASSUME NEW p \in Profiles,
             GiveDefault(p) \/ RefuseChild(p) \/ LaunchThrows(p)
      PROVE  UNCHANGED <<active_session, orphans, game>>
  BY <1>4 DEF GiveDefault, RefuseChild, LaunchThrows, SetDailyAllowance,
              BeginRefused
<1> QED
  BY <1>1, <1>2, <1>3, <1>4 DEF Aside

LEMMA PlayCases ==
  PlayNext => \/ Aside \/ OrphanEnds \/ Pause \/ DeviceBoots
              \/ Die \/ BeginPlaySessionThrows
              \/ \E p \in Profiles : LaunchChild(p)
  BY DEF PlayNext, Aside

\* A death leaves its launcher's child, if there was one, as the only new one.
LEMMA DeathLeaves ==
  ASSUME PlayTypeOK, Die
  PROVE  /\ ~IsChild' /\ active_session' = active_session
         /\ ChildGames' = ChildGames \/ (IsChild /\ ChildGames' = ChildGames \cup {game})
         /\ ~IsChild => ChildGames' = ChildGames
<1>1. ~IsChild' /\ active_session' = active_session
  BY DEF Die, IsChild, store
<1>2. CASE launcher = "game"
  <2>1. orphans' = orphans \cup {game} /\ game # NoGame
    BY <1>2 DEF Die, PlayTypeOK, InLaunch
  <2> QED
    BY <1>1, <2>1 DEF ChildGames, IsChild
<1>3. CASE launcher # "game"
  BY <1>1, <1>3 DEF Die, ChildGames
<1> QED
  BY <1>2, <1>3

LEMMA AloneStep ==
  ASSUME PlayInv, [PlayNext]_playVars PROVE OneChildPlays'
<1> USE DEF PlayInv, OneChildPlays
<1>1. CASE UNCHANGED playVars
  BY <1>1 DEF playVars, vars, store, ChildGames, IsChild
<1>2. CASE Aside
  <2>1. ChildGames' = ChildGames
    BY <1>2, AsideSteps DEF ChildGames
  <2> QED
    BY <1>2, <2>1, AsideSteps
<1>3. CASE OrphanEnds
  <2>1. ChildGames' \subseteq ChildGames
    BY <1>3 DEF OrphanEnds, ChildGames
  <2>2. UNCHANGED <<active_session, game>>
    BY <1>3 DEF OrphanEnds, vars, store
  <2>3. IsChild' = IsChild
    BY <2>2 DEF IsChild
  <2> QED
    BY <2>1, <2>2, <2>3
<1>4. CASE Pause
  <2>1. ChildGames = {}
    BY <1>4 DEF Pause, UpdateActiveSession, Metered
  <2>2. ChildGames' = ChildGames
    BY <1>4 DEF Pause, ChildGames
  <2> QED
    BY <2>1, <2>2
<1>5. CASE DeviceBoots
  BY <1>5 DEF DeviceBoots, ChildGames
<1>6. CASE Die \/ BeginPlaySessionThrows
  <2>1. Die
    BY <1>6 DEF BeginPlaySessionThrows
  <2>2. CASE ChildGames' = ChildGames
    BY <2>1, <2>2, DeathLeaves
  <2>3. CASE IsChild /\ ChildGames' = ChildGames \cup {game}
    <3>1. ChildGames' = {game}
      BY <2>3
    <3>2. \E row \in active_session :
            row.profile = game.profile /\ row.mono = game.mono
      BY <2>3 DEF Metered, OwnSession
    <3> QED
      BY <2>1, <3>1, <3>2, DeathLeaves
  <2> QED
    BY <2>1, <2>2, <2>3, DeathLeaves
<1>7. ASSUME NEW p \in Profiles, LaunchChild(p) PROVE OneChildPlays'
  <2>1. ChildGames = {}
    BY <1>7 DEF LaunchChild, BeginSession
  <2>2. ChildGames' = ChildGames
    BY <1>7 DEF LaunchChild, Begin, ChildGames
  <2> QED
    BY <2>1, <2>2
<1> QED
  BY <1>1, <1>2, <1>3, <1>4, <1>5, <1>6, <1>7, PlayCases

-----------------------------------------------------------------------------

LEMMA PlayInvAlways == PlaySpec => []PlayInv
<1>1. PlayInv /\ [PlayNext]_playVars => PlayInv'
  BY PlayTypeStep, MeteredStep, SettledStep, AloneStep DEF PlayInv
<1> QED
  BY <1>1, PlayInitInv, PTL DEF PlaySpec

\* The launch, the game and the record of play keep their types (lines
\* 1357-1435 of main.cpp and the play_sessions table).
THEOREM LaunchesAreTyped == PlaySpec => []PlayTypeOK
<1>1. PlayInv => PlayTypeOK
  BY DEF PlayInv
<1> QED
  BY <1>1, PlayInvAlways, PTL

\* A child's game runs only under its own session, through every order of
\* deaths and restarts.
THEOREM ChildrenPlayMetered == PlaySpec => []ChildrenAreMetered
<1>1. PlayInv => ChildrenAreMetered
  BY DEF PlayInv, Metered, OwnSession, ChildrenAreMetered
<1> QED
  BY <1>1, PlayInvAlways, PTL

\* A launcher that takes input has settled every activity row, and shows as
\* played only what ran.
THEOREM ActivitySettles == PlaySpec => []ActivityIsSettled
<1>1. PlayInv => ActivityIsSettled
  BY DEF PlayInv, Settled, ActivityIsSettled
<1> QED
  BY <1>1, PlayInvAlways, PTL

\* A child's game that outlived its launcher is the only child's game on the
\* device, and its session is still on record.
THEOREM OneChildAtATime == PlaySpec => []OneChildPlays
<1>1. PlayInv => OneChildPlays
  BY DEF PlayInv
<1> QED
  BY <1>1, PlayInvAlways, PTL

\* Until a session that was cut off is settled no child gets a game.
THEOREM CutOffSessionsBlock == PlaySpec => CutOffSessionBlocksPlay
<1>1. ASSUME PlayInv, [PlayNext]_playVars, active_session # {}, ~IsChild
      PROVE  ~IsChild' /\ ChildGames' \subseteq ChildGames
  <2>1. ASSUME NEW p \in Profiles PROVE ~LaunchChild(p)
    BY <1>1 DEF LaunchChild, BeginSession
  <2>2. CASE UNCHANGED playVars
    BY <1>1, <2>2 DEF playVars, IsChild, ChildGames
  <2>3. CASE Aside
    BY <1>1, <2>3, AsideSteps DEF ChildGames
  <2>4. CASE OrphanEnds
    BY <1>1, <2>4 DEF OrphanEnds, IsChild, ChildGames
  <2>5. CASE Pause
    BY <1>1, <2>5 DEF Pause, Leave, IsChild, ChildGames
  <2>6. CASE DeviceBoots
    BY <1>1, <2>6 DEF DeviceBoots, IsChild, ChildGames
  <2>7. CASE Die \/ BeginPlaySessionThrows
    BY <1>1, <2>7, DeathLeaves DEF PlayInv, BeginPlaySessionThrows
  <2> QED
    BY <1>1, <2>1, <2>2, <2>3, <2>4, <2>5, <2>6, <2>7, PlayCases
<1>2. PlayInv /\ [PlayNext]_playVars =>
        [active_session # {} /\ ~IsChild =>
           ~IsChild' /\ ChildGames' \subseteq ChildGames]_playVars
  BY <1>1
<1> QED
  BY <1>2, PlayInvAlways, PTL DEF PlaySpec, CutOffSessionBlocksPlay

\* What a pause charges its session with: the time since it was last charged
\* or, under a clock that went back, the whole allowance.
LEMMA PauseCharges ==
  ASSUME TypeOK, UpdateActiveSession(FALSE)
  PROVE  \E r \in active_session, delta \in Nat, keep \in BOOLEAN :
           /\ Charge(r, delta, keep)
           /\ delta = mono - r.mono \/ delta = daily_policy[r.profile]
<1>1. PICK r \in active_session :
        IF ClockAccepted(r.profile)
          THEN mono >= r.mono /\ Charge(r, mono - r.mono, FALSE)
          ELSE Charge(r, daily_policy[r.profile], FALSE)
  BY DEF UpdateActiveSession
<1>2. r.mono \in Nat /\ daily_policy[r.profile] \in Nat
  BY RowType
<1>3. mono \in Nat
  BY PolicyAssumption DEF TypeOK
<1>4. CASE ClockAccepted(r.profile)
  <2>1. mono - r.mono \in Nat
    BY <1>1, <1>2, <1>3, <1>4
  <2> QED
    BY <1>1, <1>4, <2>1
<1>5. CASE ~ClockAccepted(r.profile)
  BY <1>1, <1>2, <1>5
<1> QED
  BY <1>4, <1>5

\* A launcher that is back from a child's game has charged its day for all the
\* play, up to the allowance.
THEOREM ReturnsAreCharged == PlaySpec => ReturnIsCharged
<1>1. ASSUME PlayInv, PlayNext, IsChild, launcher' = "idle"
      PROVE  Pause
  <2>1. launcher \in InLaunch
    BY <1>1 DEF PlayInv, PlayTypeOK, IsChild
  <2> QED
    BY <1>1, <2>1
    DEF PlayNext, InLaunch, Start, Ready, Die, LaunchParent, GameReturns,
        GameFails, BeginPlaySession, BeginPlaySessionThrows,
        FinishPlaySession, GiveDefault, LaunchChild, RefuseChild,
        LaunchThrows, Begin, Leave, AfterActivity, OrphanEnds, PlayTick,
        ClockIsSet, DeviceBoots
<1>2. ASSUME PlayInv, Pause, IsChild
      PROVE  LET p == game.profile
             IN \E row \in active_session :
                  \/ daily_usage'[p][row.date].used >= daily_policy[p]
                  \/ daily_usage'[p][row.date].used >= play.base + play.ticks
  <2>t. TypeOK
    BY <1>2 DEF PlayInv, PlayTypeOK
  <2>1. PICK row \in active_session : OwnSession(row)
    BY <1>2 DEF PlayInv, Metered
  <2>2. PICK r \in active_session, delta \in Nat, keep \in BOOLEAN :
          /\ Charge(r, delta, keep)
          /\ delta = mono - r.mono \/ delta = daily_policy[r.profile]
    BY <1>2, <2>t, PauseCharges DEF Pause
  <2>3. r = row
    BY <2>1, <2>2 DEF OwnSession
  <2> DEFINE used == daily_usage[row.profile][row.date].used
             allowed == daily_policy[row.profile]
  <2>4. /\ used \in Nat /\ allowed \in Nat /\ row.mono \in Nat
        /\ row.profile \in Profiles /\ row.date \in Dates
    BY <2>t, RowType
  <2>5. daily_usage'[row.profile][row.date].used =
          used + AtMost(delta, Remaining(allowed, used))
    BY <2>2, <2>3, <2>4, <2>t DEF Charge, TypeOK
  <2>6. /\ play.base \in Nat /\ play.ticks \in Nat /\ mono \in Nat
        /\ play.base <= used /\ play.ticks <= mono - row.mono
    BY <2>1, <2>t, PolicyAssumption DEF OwnSession, TypeOK
  <2>7. \/ daily_usage'[row.profile][row.date].used >= allowed
        \/ daily_usage'[row.profile][row.date].used >= play.base + play.ticks
    <3>1. CASE delta = mono - row.mono
      BY <2>4, <2>5, <2>6, <3>1 DEF AtMost, Remaining
    <3>2. CASE delta = allowed
      BY <2>4, <2>5, <3>2 DEF AtMost, Remaining
    <3> QED
      BY <2>2, <2>3, <3>1, <3>2
  <2> QED
    BY <2>1, <2>7 DEF OwnSession
<1>3. PlayInv /\ [PlayNext]_playVars =>
        [IsChild /\ launcher' = "idle" =>
           LET p == game.profile
           IN \E row \in active_session :
                \/ daily_usage'[p][row.date].used >= daily_policy[p]
                \/ daily_usage'[p][row.date].used >= play.base + play.ticks
        ]_playVars
  BY <1>1, <1>2
<1> QED
  BY <1>3, PlayInvAlways, PTL DEF PlaySpec, ReturnIsCharged

=============================================================================
