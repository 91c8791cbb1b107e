-------------------------- MODULE GameSessionProofs --------------------------
(***************************************************************************)
(* Theorems about GameSession for any tick, catch-up limit, hold, limits   *)
(* of storage and any number of launches: the game keeps time, its events  *)
(* tell the session, its storage survives and only a real hold resets it.  *)
(***************************************************************************)
EXTENDS GameSession, SequenceTheorems, TLAPS

Modes == {"off", "init", "title", "first", "frame", "steps", "stopping"}

\* Every action that goes on with a call into the script.
Calls ==
  \/ Start \/ TitleFrame \/ TitleLeft \/ FirstFrame \/ Step \/ FrameEnds

\* Actions that call nothing.
Quiet == Launch \/ LaunchRefused \/ FrameBegins \/ LeaveKey

LEMMA StepCases ==
  Next => Calls \/ Quiet \/ Die \/ Stop \/ Writeback \/ PowerLoss
  BY DEF Next, Calls, Quiet

\* The kernel's step touches nothing of the process.
LEMMA WritebackAside == Writeback => UNCHANGED <<mode, queues, title, loop, printed>>
  BY DEF Writeback

\* However the process comes to its end.
Endings == Die \/ Stop \/ PowerLoss

LEMMA EndingsEnd == Endings => \E log : Ended(log)
  BY DEF Endings, Die, Stop, PowerLoss

-----------------------------------------------------------------------------
(* Time. *)

TimeTypes ==
  /\ mode \in Modes
  /\ tick \in Nat /\ elapsed \in Nat /\ accumulator \in Nat
  /\ steps \in 0 .. MaxSteps

\* Before the first frame no time has passed in the game.
TimeInv ==
  /\ TimeTypes
  /\ TicksKeepTime
  /\ mode \notin {"frame", "steps", "stopping"} =>
       tick = 0 /\ elapsed = 0 /\ accumulator = 0

LEMMA TimeStep == TimeInv /\ [Next]_vars => TimeInv'
<1> SUFFICES ASSUME TimeInv, [Next]_vars PROVE TimeInv'
  OBVIOUS
<1> USE SessionAssumption DEF TimeInv, TimeTypes, TicksKeepTime, Modes, loop
<1>1. CASE UNCHANGED vars
  BY <1>1 DEF vars
<1>2. CASE Endings
  <2>1. mode' = "off" /\ steps' = 0 /\ tick' = 0 /\ elapsed' = 0
        /\ accumulator' = 0
    BY <1>2, EndingsEnd DEF Ended
  <2>2. 0 * Tick = 0
    OBVIOUS
  <2> QED
    BY <2>1, <2>2
<1>3. CASE Launch \/ LaunchRefused \/ TitleLeft \/ TitleFrame
  BY <1>3 DEF Launch, LaunchRefused, TitleLeft, TitleFrame
<1>4. CASE Start
  <2>1. mode' \in {"title", "first"} /\ tick' = 0 /\ elapsed' = 0
        /\ accumulator' = accumulator /\ steps' = steps /\ mode = "init"
    BY <1>4 DEF Start
  <2>2. 0 * Tick = 0
    OBVIOUS
  <2> QED
    BY <2>1, <2>2
<1>5. CASE FirstFrame
  BY <1>5 DEF FirstFrame
<1>6. CASE FrameBegins
  <2>1. PICK dt \in 0 .. Tick * (MaxSteps + 1) :
          elapsed' = elapsed + dt /\ accumulator' = accumulator + dt
    BY <1>6 DEF FrameBegins
  <2>2. Tick * (MaxSteps + 1) \in Nat
    OBVIOUS
  <2>3. dt \in Nat
    BY <2>1, <2>2
  <2>4. mode' = "steps" /\ steps' = 0 /\ tick' = tick
    BY <1>6 DEF FrameBegins
  <2>5. tick * Tick \in Nat
    OBVIOUS
  <2> QED
    BY <2>1, <2>3, <2>4, <2>5
<1>7. CASE LeaveKey
  BY <1>7 DEF LeaveKey
<1>8. CASE Step
  <2>1. /\ accumulator >= Tick /\ steps < MaxSteps /\ mode = "steps"
        /\ accumulator' = accumulator - Tick
        /\ steps' = steps + 1 /\ tick' = tick + 1
        /\ mode' = mode /\ elapsed' = elapsed
    BY <1>8 DEF Step, TickIsDue
  <2>2. (tick + 1) * Tick = tick * Tick + Tick
    OBVIOUS
  <2>3. tick * Tick \in Nat
    OBVIOUS
  <2> QED
    BY <2>1, <2>2, <2>3
<1>9. CASE FrameEnds
  <2>1. /\ ~TickIsDue /\ mode = "steps" /\ accumulator' = Backlog
        /\ mode' = IF running THEN "frame" ELSE "stopping"
        /\ UNCHANGED <<steps, tick, elapsed>>
    BY <1>9 DEF FrameEnds
  <2>2. Backlog \in Nat /\ Backlog <= accumulator
    BY DEF Backlog
  <2>3. running => Backlog < Tick
    BY <2>1 DEF Backlog, TickIsDue
  <2>4. tick * Tick \in Nat
    OBVIOUS
  <2> QED
    BY <2>1, <2>2, <2>3, <2>4
<1>10. CASE Writeback
  BY <1>10, WritebackAside
<1> QED
  BY <1>1, <1>2, <1>3, <1>4, <1>5, <1>6, <1>7, <1>8, <1>9, <1>10, StepCases
  DEF Calls, Quiet, Endings

\* The game never runs ahead of time and owes no tick from an earlier frame
\* (run, lines 957-1029 of main.cpp), whatever the tick and the stalls.
THEOREM GameKeepsTime == Spec => []TicksKeepTime
<1>1. Init => TimeInv
  <2>1. 0 * Tick = 0
    BY SessionAssumption
  <2> QED
    BY <2>1, SessionAssumption
    DEF Init, TimeInv, TimeTypes, TicksKeepTime, Modes
<1>2. TimeInv => TicksKeepTime
  BY DEF TimeInv
<1> QED
  BY <1>1, <1>2, TimeStep, PTL DEF Spec

-----------------------------------------------------------------------------
(* Storage. *)

LEMMA StoreStep ==
  ASSUME StorageSurvives, mode # "off", Store
  PROVE  \A k \in DOMAIN acked' :
           /\ k \in DOMAIN file' /\ file'[k] = acked'[k]
           /\ ~blind' => k \in DOMAIN storage' /\ storage'[k] = acked'[k]
<1> USE DEF StorageSurvives
<1>1. CASE UNCHANGED store
  BY <1>1 DEF store
<1>2. ASSUME NEW k \in Keys, NEW v \in Values, StorageSet(k, v)
      PROVE  \A x \in DOMAIN acked' :
               /\ x \in DOMAIN file' /\ file'[x] = acked'[x]
               /\ ~blind' => x \in DOMAIN storage' /\ storage'[x] = acked'[x]
  BY <1>2 DEF StorageSet, With
<1>3. ASSUME NEW k \in Keys, NEW v \in Values, StorageSetFails(k, v)
      PROVE  \A x \in DOMAIN acked' :
               /\ x \in DOMAIN file' /\ file'[x] = acked'[x]
               /\ ~blind' => x \in DOMAIN storage' /\ storage'[x] = acked'[x]
  BY <1>3 DEF StorageSetFails, With, Restrict
<1> QED
  BY <1>1, <1>2, <1>3 DEF Store

\* What storage_set acknowledged is in the file and is what every session reads
\* that could look at it, through failed writes, refused starts, deaths and the
\* kernel's own time of writing; a loss of power before that, or a set in a
\* session that could not look, ends the promise (load_storage, save_storage).
THEOREM StorageIsKept == Spec => []StorageSurvives
<1>1. Init => StorageSurvives
  BY DEF Init, StorageSurvives
<1>2. StorageSurvives /\ [Next]_vars => StorageSurvives'
  <2> SUFFICES ASSUME StorageSurvives, [Next]_vars PROVE StorageSurvives'
    OBVIOUS
  <2>1. CASE UNCHANGED vars
    BY <2>1 DEF vars, store, StorageSurvives
  <2>2. CASE Calls
    <3>1. mode # "off" /\ Store
      BY <2>2 DEF Calls, Start, TitleFrame, TitleLeft, FirstFrame, Step,
                  FrameEnds
    <3> QED
      BY <3>1, StoreStep DEF StorageSurvives
  <2>3. CASE Launch
    BY <2>3 DEF Launch, LoadStorage, StorageSurvives
  <2>4. CASE LaunchRefused \/ FrameBegins \/ LeaveKey
    BY <2>4 DEF LaunchRefused, FrameBegins, LeaveKey, store, StorageSurvives
  <2>5. CASE Die \/ Stop
    BY <2>5 DEF Die, Stop, Ended, StorageSurvives
  <2>6. CASE Writeback
    BY <2>6 DEF Writeback, StorageSurvives
  <2>7. CASE PowerLoss
    <3>1. DOMAIN acked' = {}
      BY <2>7 DEF PowerLoss
    <3> QED
      BY <3>1 DEF StorageSurvives
  <2> QED
    BY <2>1, <2>2, <2>3, <2>4, <2>5, <2>6, <2>7, StepCases DEF Quiet
<1> QED
  BY <1>1, <1>2, PTL DEF Spec

-----------------------------------------------------------------------------
(* The reset. *)

HoldTypes ==
  /\ mode \in Modes
  /\ held \in Nat /\ streak.time \in 0 .. FullHold
  /\ streak = [time |-> streak.time, up |-> streak.up, done |-> streak.done]
  /\ streak.up \in BOOLEAN /\ streak.done \in BOOLEAN
  /\ reset_armed \in BOOLEAN /\ reset_timing \in BOOLEAN
  /\ reset_complete \in BOOLEAN

\* The machine's timer is never ahead of the hold it measures.
HoldInv ==
  /\ HoldTypes
  /\ streak.up = reset_armed
  /\ streak.done => reset_complete
  /\ mode = "title" /\ reset_timing =>
       "B" \in pressed /\ held <= streak.time
  /\ mode \in {"off", "init"} => ~reset_timing /\ ~reset_complete /\ held = 0

\* One reading of the buttons.
LEMMA HoldStep ==
  ASSUME HoldInv, mode = "title", NEW now \in SUBSET Buttons, NEW dt \in 0 .. FullHold,
         pressed' = now, reset_armed' = (reset_armed \/ "B" \notin now),
         Hold(now, dt), Watch(now, dt)
  PROVE  /\ held' \in Nat /\ streak'.time \in 0 .. FullHold
         /\ streak' = [time |-> streak'.time, up |-> streak'.up,
                       done |-> streak'.done]
         /\ reset_timing' \in BOOLEAN /\ reset_complete' \in BOOLEAN
         /\ streak'.up \in BOOLEAN /\ streak'.done \in BOOLEAN
         /\ streak'.up = reset_armed'
         /\ streak'.done => reset_complete'
         /\ reset_timing' => "B" \in now /\ held' <= streak'.time
         /\ ResetProgress =>
              streak'.up /\ streak'.time = FullHold /\ ~streak.done
<1> USE SessionAssumption DEF HoldInv, HoldTypes
<1>1. CASE "B" \notin now
  <2>1. streak' = [time |-> 0, up |-> TRUE, done |-> FALSE]
    BY <1>1 DEF Watch
  <2>2. reset_timing' = FALSE /\ held' = 0 /\ reset_complete' = FALSE
    BY <1>1 DEF Hold
  <2>3. reset_armed' = TRUE
    BY <1>1
  <2>4. streak'.time = 0 /\ streak'.up = TRUE /\ streak'.done = FALSE
    BY <2>1
  <2>5. /\ reset_timing' \in BOOLEAN /\ reset_complete' \in BOOLEAN
        /\ streak'.up \in BOOLEAN /\ streak'.done \in BOOLEAN
    BY <2>2, <2>4, Zenon
  <2>6. streak' = [time |-> streak'.time, up |-> streak'.up, done |-> streak'.done]
    BY <2>1, <2>4
  <2>7. held' \in Nat /\ streak'.time \in 0 .. FullHold
    BY <2>2, <2>4
  <2> QED
    BY <2>2, <2>3, <2>4, <2>5, <2>6, <2>7 DEF ResetProgress
<1>2. CASE "B" \in now
  <2>1. streak' = [time |-> IF "B" \in pressed THEN Least(FullHold, streak.time + dt)
                                               ELSE 0,
                   up |-> streak.up,
                   done |-> streak.done \/ ResetProgress]
    BY <1>2 DEF Watch
  <2>2. /\ streak'.up = streak.up /\ streak'.done = (streak.done \/ ResetProgress)
        /\ streak'.time = IF "B" \in pressed
                          THEN Least(FullHold, streak.time + dt) ELSE 0
    BY <2>1
  <2>3. streak'.time \in 0 .. FullHold
    BY <2>2 DEF Least
  <2>4. reset_armed' = reset_armed /\ streak'.up = reset_armed'
    BY <1>2, <2>2
  <2>5. streak'.done \in BOOLEAN
    BY <2>2, Zenon
  <2>6. streak' = [time |-> streak'.time, up |-> streak'.up, done |-> streak'.done]
    BY <2>1, <2>2
  <2>7. CASE can_reset /\ reset_armed' /\ ~reset_complete
    <3>1. /\ reset_timing' = TRUE
          /\ held' = IF reset_timing THEN Least(FullHold, held + dt) ELSE 0
          /\ reset_complete' = (held' = FullHold)
      BY <1>2, <2>7 DEF Hold
    <3>2. held' \in Nat /\ held' <= streak'.time
      BY <2>2, <3>1 DEF Least
    <3>3. reset_complete' => streak'.time = FullHold
      <4>1. reset_complete' => held' = FullHold
        BY <3>1, Zenon
      <4> QED
        BY <2>3, <3>2, <4>1
    <3>4. ~streak.done
      BY <2>7
    <3>5. streak'.done => reset_complete'
      BY <2>2, <3>4 DEF ResetProgress
    <3>6. reset_timing' \in BOOLEAN /\ reset_complete' \in BOOLEAN
      BY <3>1, Zenon
    <3> QED
      BY <1>2, <2>2, <2>3, <2>4, <2>5, <2>6, <2>7, <3>2, <3>3, <3>4, <3>5, <3>6
  <2>8. CASE ~(can_reset /\ reset_armed' /\ ~reset_complete)
    <3>1. reset_timing' = FALSE /\ held' = 0 /\ reset_complete' = reset_complete
      BY <1>2, <2>8 DEF Hold
    <3>2. streak'.done = streak.done
      BY <2>2, <3>1 DEF ResetProgress
    <3> QED
      BY <2>2, <2>3, <2>4, <2>5, <2>6, <3>1, <3>2 DEF ResetProgress
  <2> QED
    BY <2>7, <2>8
<1> QED
  BY <1>1, <1>2

LEMMA HoldInvStep ==
  ASSUME HoldInv, [Next]_vars
  PROVE  /\ HoldInv'
         /\ ResetProgress =>
              streak'.up /\ streak'.time = FullHold /\ ~streak.done
<1> USE SessionAssumption DEF HoldInv, HoldTypes, Modes
<1>1. CASE UNCHANGED <<mode, title>>
  BY <1>1 DEF title, ResetProgress
<1>2. CASE mode' = "steps" /\ UNCHANGED title
  BY <1>2 DEF title, ResetProgress
<1>3. CASE Endings \/ FirstFrame
  <2>1. /\ reset_armed' = FALSE /\ reset_timing' = FALSE /\ held' = 0
        /\ reset_complete' = FALSE /\ streak' = NoHold
        /\ mode' \in {"off", "frame"}
    BY <1>3, EndingsEnd DEF Ended, FirstFrame
  <2>2. /\ streak' = [time |-> 0, up |-> FALSE, done |-> FALSE]
        /\ streak'.time = 0 /\ streak'.up = FALSE /\ streak'.done = FALSE
    BY <2>1 DEF NoHold
  <2>3. /\ reset_armed' \in BOOLEAN /\ reset_timing' \in BOOLEAN
        /\ reset_complete' \in BOOLEAN
        /\ streak'.up \in BOOLEAN /\ streak'.done \in BOOLEAN
    BY <2>1, <2>2, Zenon
  <2>4. held' \in Nat /\ streak'.time \in 0 .. FullHold
    BY <2>1, <2>2
  <2> QED
    BY <2>1, <2>2, <2>3, <2>4 DEF ResetProgress
<1>4. CASE Launch
  BY <1>4 DEF Launch, title, ResetProgress
<1>5. CASE Start
  <2>1. /\ reset_armed' \in BOOLEAN /\ streak' = [NoHold EXCEPT !.up = reset_armed']
        /\ UNCHANGED <<reset_timing, held, reset_complete, pressed>>
        /\ mode' \in {"title", "first"} /\ mode = "init"
    BY <1>5 DEF Start
  <2>2. streak' = [time |-> 0, up |-> reset_armed', done |-> FALSE]
    BY <2>1 DEF NoHold
  <2>3. /\ streak'.time = 0 /\ streak'.up = reset_armed' /\ streak'.done = FALSE
    BY <2>2
  <2>4. /\ reset_timing' \in BOOLEAN /\ reset_complete' \in BOOLEAN
        /\ streak'.up \in BOOLEAN /\ streak'.done \in BOOLEAN
    BY <2>1, <2>3, Zenon
  <2>5. held' \in Nat /\ streak'.time \in 0 .. FullHold
    BY <2>1, <2>3
  <2> QED
    BY <2>1, <2>2, <2>3, <2>4, <2>5 DEF ResetProgress
<1>6. CASE TitleFrame
  <2>1. PICK now \in SUBSET Buttons, dt \in 0 .. FullHold :
          /\ pressed' = now /\ reset_armed' = (reset_armed \/ "B" \notin now)
          /\ Hold(now, dt) /\ Watch(now, dt)
    BY <1>6 DEF TitleFrame
  <2>2. mode = "title" /\ mode' \in {"title", "first"}
    BY <1>6 DEF TitleFrame
  <2>3. reset_armed' \in BOOLEAN
    BY <2>1, Zenon
  <2> QED
    BY <2>1, <2>2, <2>3, HoldStep
<1>7. CASE TitleLeft
  BY <1>7 DEF TitleLeft, ResetProgress
<1>8. CASE FrameEnds
  BY <1>8 DEF FrameEnds, title, ResetProgress
<1> QED
  BY <1>1, <1>2, <1>3, <1>4, <1>5, <1>6, <1>7, <1>8, StepCases, WritebackAside
  DEF Calls, Quiet, Endings, vars, LaunchRefused, FrameBegins, LeaveKey, Step

\* Progress is reset only by one unbroken hold of the full time that began
\* after B had been up on this title screen, and once in it.
THEOREM ResetsAreMeant == Spec => ResetIsDeliberate
<1>1. Init => HoldInv
  <2> SUFFICES ASSUME Init PROVE HoldInv
    OBVIOUS
  <2>1. /\ reset_armed = FALSE /\ reset_timing = FALSE /\ held = 0
        /\ reset_complete = FALSE /\ mode = "off"
        /\ streak = [time |-> 0, up |-> FALSE, done |-> FALSE]
    BY DEF Init, NoHold
  <2>2. streak.time = 0 /\ streak.up = FALSE /\ streak.done = FALSE
    BY <2>1
  <2>3. /\ reset_armed \in BOOLEAN /\ reset_timing \in BOOLEAN
        /\ reset_complete \in BOOLEAN
        /\ streak.up \in BOOLEAN /\ streak.done \in BOOLEAN
    BY <2>1, <2>2, Zenon
  <2>4. held \in Nat /\ streak.time \in 0 .. FullHold
    BY <2>1, <2>2, SessionAssumption
  <2> QED
    BY <2>1, <2>2, <2>3, <2>4 DEF HoldInv, HoldTypes, Modes
<1>2. HoldInv /\ [Next]_vars => HoldInv'
  BY HoldInvStep
<1>3. HoldInv /\ [Next]_vars =>
        [ResetProgress => streak'.up /\ streak'.time = FullHold /\ ~streak.done]_vars
  BY HoldInvStep
<1> QED
  BY <1>1, <1>2, <1>3, PTL DEF Spec, ResetIsDeliberate

-----------------------------------------------------------------------------
(* Events. *)

ScriptEvents == {"LevelCompleted", "AchievementUnlocked"}
Names == ScriptEvents \cup {"GameStarted", "GameExited"}
Told == printed \o events

\* A log of a session that goes on: begun once, at its beginning, not ended.
Goes(log) ==
  /\ log \in Seq(Names)
  /\ \A i \in DOMAIN log :
       (log[i] = "GameStarted" <=> i = 1) /\ log[i] # "GameExited"

\* One more event of the script.
LEMMA OneMore ==
  ASSUME NEW log, Goes(log), Len(log) >= 1, NEW t \in ScriptEvents,
         NEW more, more = Append(log, t)
  PROVE  Goes(more)
<1>1. t \in Names /\ t # "GameStarted" /\ t # "GameExited"
  BY DEF ScriptEvents, Names
<1>2. log \in Seq(Names) /\ Append(log, t) \in Seq(Names)
  BY <1>1 DEF Goes
<1>3. DOMAIN log = 1 .. Len(log) /\ DOMAIN Append(log, t) = 1 .. (Len(log) + 1)
  BY <1>1, <1>2
<1>4. ASSUME NEW i \in 1 .. (Len(log) + 1)
      PROVE  /\ Append(log, t)[i] = "GameStarted" <=> i = 1
             /\ Append(log, t)[i] # "GameExited"
  <2>1. CASE i = Len(log) + 1
    BY <1>1, <1>2, <2>1
  <2>2. CASE i # Len(log) + 1
    <3>1. i \in DOMAIN log /\ Append(log, t)[i] = log[i]
      BY <1>1, <1>2, <1>3, <2>2
    <3> QED
      BY <3>1 DEF Goes
  <2> QED
    BY <2>1, <2>2
<1> QED
  BY <1>2, <1>3, <1>4 DEF Goes

\* A log of n events and another one.
LEMMA OneThenAnother ==
  ASSUME NEW log, Goes(log), NEW n \in Nat \ {0}, Len(log) = n,
         NEW t \in ScriptEvents
  PROVE  Goes(log \o <<t>>) /\ Len(log \o <<t>>) = n + 1
<1>1. t \in Names /\ log \in Seq(Names)
  BY DEF Names, Goes
<1>2. log \o <<t>> = Append(log, t)
  BY <1>1, AppendIsConcat
<1>3. Len(Append(log, t)) = n + 1
  BY <1>1, AppendProperties
<1>4. Len(log) >= 1
  OBVIOUS
<1>5. Goes(log \o <<t>>)
  BY <1>2, <1>4, OneMore
<1> QED
  BY <1>2, <1>3, <1>5

\* What there is to tell when the game has been started.
LEMMA FirstEvents ==
  /\ Goes(<<"GameStarted">>) /\ Len(<<"GameStarted">>) = 1
  /\ Goes(<<"GameStarted">> \o <<"LevelCompleted">>)
  /\ Len(<<"GameStarted">> \o <<"LevelCompleted">>) = 2
<1>1. /\ "GameStarted" \in Names /\ "LevelCompleted" \in Names
      /\ "LevelCompleted" \in ScriptEvents
  BY DEF Names, ScriptEvents
<1>2. <<"GameStarted">> \in Seq(Names) /\ Len(<<"GameStarted">>) = 1
  BY <1>1
<1>3. Goes(<<"GameStarted">>)
  BY <1>2 DEF Goes
<1> DEFINE log == <<"GameStarted">>
<1> HIDE DEF log
<1>4. log \in Seq(Names) /\ Len(log) = 1 /\ Goes(log)
  BY <1>2, <1>3 DEF log
<1>5. 1 \in Nat \ {0} /\ 1 + 1 = 2
  OBVIOUS
<1>6. /\ Goes(log \o <<"LevelCompleted">>)
      /\ Len(log \o <<"LevelCompleted">>) = 2
  BY <1>1, <1>4, <1>5, OneThenAnother
<1> QED
  BY <1>2, <1>3, <1>6 DEF log

\* What was printed of such a log is such a log.
LEMMA PrintedGoes ==
  ASSUME NEW p \in Seq(Names), NEW q \in Seq(Names), Goes(p \o q)
  PROVE  Goes(p)
<1>1. Len(p \o q) = Len(p) + Len(q) /\ p \o q \in Seq(Names)
  OBVIOUS
<1>2. ASSUME NEW i \in DOMAIN p
      PROVE  i \in DOMAIN (p \o q) /\ (p \o q)[i] = p[i]
  <2>1. i \in 1 .. Len(p)
    OBVIOUS
  <2>2. DOMAIN (p \o q) = 1 .. Len(p \o q)
    BY <1>1
  <2> QED
    BY <1>1, <2>1, <2>2
<1> QED
  BY <1>2 DEF Goes

LEMMA Concatenations ==
  ASSUME NEW p \in Seq(Names), NEW q \in Seq(Names), NEW t \in Names
  PROVE  /\ p \o q \in Seq(Names) /\ Len(p \o q) = Len(p) + Len(q)
         /\ p \o Append(q, t) = Append(p \o q, t)
         /\ p \o <<>> = p /\ <<>> \o p = p
         /\ p \o <<t>> = Append(p, t)
<1>1. <<t>> \in Seq(Names)
  OBVIOUS
<1>2. \A r \in Seq(Names) : Append(r, t) = r \o <<t>>
  BY AppendIsConcat
<1>3. p \o q \in Seq(Names) /\ Len(p \o q) = Len(p) + Len(q)
  BY ConcatProperties
<1>4. (p \o q) \o <<t>> = p \o (q \o <<t>>)
  BY <1>1, ConcatAssociative
<1> QED
  BY <1>2, <1>3, <1>4, ConcatEmptySeq

\* What was told in a session of n events and after it.
Ends(log, n) ==
  \A i \in DOMAIN log :
    /\ log[i] = "GameStarted" <=> i = 1
    /\ log[i] = "GameExited" => i = Len(log) /\ i = 2 + n

EventInv ==
  /\ mode \in Modes
  /\ printed \in Seq(Names) /\ events \in Seq(Names) /\ emitted \in Nat
  /\ mode \in {"off", "init"} => events = <<>>
  /\ mode = "init" => printed = <<>> /\ emitted = 0
  /\ mode \notin {"off", "init"} => Goes(Told) /\ Len(Told) = 1 + emitted
  /\ mode = "off" => Ends(Told, emitted)

LEMMA EmitStep ==
  ASSUME EventInv, mode \notin {"off", "init"}, NEW queue, EmitTo(queue)
  PROVE  /\ queue \in Seq(Names) /\ emitted' \in Nat
         /\ Goes(printed \o queue) /\ Len(printed \o queue) = 1 + emitted'
<1> USE DEF EventInv, Told
<1>1. CASE queue = events /\ UNCHANGED emitted
  BY <1>1
<1>2. ASSUME NEW t \in ScriptEvents, emitted' = emitted + 1,
             queue = Append(events, t)
      PROVE  /\ queue \in Seq(Names) /\ emitted' \in Nat
             /\ Goes(printed \o queue) /\ Len(printed \o queue) = 1 + emitted'
  <2>1. t \in Names
    BY DEF ScriptEvents, Names
  <2>2. printed \o queue = Append(printed \o events, t)
    BY <1>2, <2>1, Concatenations
  <2>3. Goes(printed \o events) /\ Len(printed \o events) = 1 + emitted
    OBVIOUS
  <2>4. Goes(printed \o queue)
    <3> DEFINE log == printed \o events
    <3>1. Goes(log) /\ Len(log) >= 1 /\ printed \o queue = Append(log, t)
      BY <2>2, <2>3
    <3> HIDE DEF log
    <3> QED
      BY <3>1, OneMore
  <2>5. Len(Append(printed \o events, t)) = Len(printed \o events) + 1
    BY <2>1, <2>3 DEF Goes
  <2> QED
    BY <1>2, <2>1, <2>2, <2>3, <2>4, <2>5
<1>3. \/ queue = events /\ UNCHANGED emitted
      \/ \E t \in ScriptEvents : emitted' = emitted + 1 /\ queue = Append(events, t)
  BY DEF EmitTo, ValidEventType, ScriptEvents
<1> QED
  BY <1>1, <1>2, <1>3

\* The end of a process: what it had printed, with what it still prints.
LEMMA EndStep ==
  ASSUME EventInv, mode # "off", Ended(printed) \/ Ended(Told \o <<"GameExited">>),
         mode = "stopping" \/ Ended(printed)
  PROVE  EventInv'
<1> USE DEF EventInv, Told, Modes
<1>1. /\ mode' = "off" /\ events' = <<>> /\ emitted' = emitted
      /\ printed' = printed \/ printed' = Told \o <<"GameExited">>
      /\ mode = "stopping" \/ printed' = printed
  BY DEF Ended
<1>2. printed' \in Seq(Names) /\ Ends(printed', emitted)
  <2>1. CASE printed' = printed
    <3>1. CASE mode = "init"
      BY <2>1, <3>1 DEF Ends
    <3>2. CASE mode # "init"
      <4>1. Goes(printed)
        BY <3>2, PrintedGoes
      <4> QED
        BY <2>1, <4>1 DEF Goes, Ends
    <3> QED
      BY <3>1, <3>2
  <2>2. CASE printed' = Told \o <<"GameExited">> /\ mode = "stopping"
    <3> DEFINE log == Told
    <3>0. "GameExited" \in Names
      BY DEF Names
    <3>1. Goes(log) /\ Len(log) = 1 + emitted /\ log \in Seq(Names)
      BY <2>2 DEF Goes
    <3>2. printed' = Append(log, "GameExited")
      BY <2>2, <3>0, <3>1, Concatenations
    <3> HIDE DEF log
    <3>3. /\ Append(log, "GameExited") \in Seq(Names)
          /\ Len(Append(log, "GameExited")) = Len(log) + 1
          /\ DOMAIN Append(log, "GameExited") = 1 .. (Len(log) + 1)
          /\ DOMAIN log = 1 .. Len(log)
      BY <3>0, <3>1
    <3>4. ASSUME NEW i \in 1 .. (Len(log) + 1)
          PROVE  /\ Append(log, "GameExited")[i] = "GameStarted" <=> i = 1
                 /\ Append(log, "GameExited")[i] = "GameExited" =>
                      i = Len(log) + 1 /\ i = 2 + emitted
      <4>1. CASE i = Len(log) + 1
        BY <3>0, <3>1, <4>1
      <4>2. CASE i # Len(log) + 1
        <5>1. i \in DOMAIN log /\ Append(log, "GameExited")[i] = log[i]
          BY <3>0, <3>1, <3>3, <4>2
        <5> QED
          BY <3>1, <5>1 DEF Goes
      <4> QED
        BY <4>1, <4>2
    <3> QED
      BY <3>2, <3>3, <3>4 DEF Ends
  <2> QED
    BY <1>1, <2>1, <2>2
<1>3. Told' = printed'
  BY <1>1, <1>2, Concatenations
<1> QED
  BY <1>1, <1>2, <1>3 DEF Ends

LEMMA EventStep == EventInv /\ [Next]_vars => EventInv'
<1> SUFFICES ASSUME EventInv, [Next]_vars PROVE EventInv'
  OBVIOUS
<1>1. CASE UNCHANGED <<mode, queues, printed>>
  BY <1>1 DEF EventInv, Told, queues
<1>2. CASE Die \/ Stop \/ (PowerLoss /\ mode # "off")
  <2>2. mode # "off" /\ (Ended(printed) \/ Ended(Told \o <<"GameExited">>))
    BY <1>2 DEF Die, Stop, PowerLoss, Told
  <2>3. mode = "stopping" \/ Ended(printed)
    BY <1>2 DEF Die, Stop, PowerLoss
  <2> QED
    BY <2>2, <2>3, EndStep
<1>3. CASE Launch \/ LaunchRefused
  <2>1. /\ printed' = <<>> /\ emitted' = 0 /\ UNCHANGED events
        /\ mode' \in {"off", "init"} /\ mode = "off"
    BY <1>3 DEF Launch, LaunchRefused, queues
  <2>2. Told' = <<>>
    BY <2>1 DEF EventInv, Told
  <2> QED
    BY <2>1, <2>2 DEF EventInv, Modes, Ends
<1>4. CASE Start
  <2>1. PICK queue \in {<<>>, <<"LevelCompleted">>} :
          EmitTo(queue) /\ events' = StartedFirst(queue)
    BY <1>4 DEF Start
  <2>2. /\ mode = "init" /\ mode' \in {"title", "first"} /\ printed' = printed
        /\ printed = <<>> /\ emitted = 0 /\ events = <<>>
    BY <1>4 DEF Start, EventInv
  <2>3. \/ queue = <<>> /\ emitted' = 0
        \/ queue = <<"LevelCompleted">> /\ emitted' = 1
    BY <2>1, <2>2 DEF EmitTo
  <2>4. CASE queue = <<>> /\ emitted' = 0
    <3>1. events' = <<"GameStarted">>
      BY <2>1, <2>4 DEF StartedFirst
    <3>2. Told' = <<"GameStarted">>
      BY <2>2, <3>1 DEF Told
    <3>3. Goes(events') /\ Len(events') = 1 /\ events' \in Seq(Names)
      BY <3>1, FirstEvents DEF Goes
    <3>4. printed' \in Seq(Names)
      BY <2>2 DEF EventInv
    <3> QED
      BY <2>2, <2>4, <3>1, <3>2, <3>3, <3>4 DEF EventInv, Modes
  <2>5. CASE queue = <<"LevelCompleted">> /\ emitted' = 1
    <3>1. events' = <<"GameStarted">> \o <<"LevelCompleted">>
      BY <2>1, <2>5 DEF StartedFirst
    <3>2. Told' = events'
      BY <2>2, <3>1, FirstEvents, Concatenations DEF Told
    <3>3. Goes(events') /\ Len(events') = 2 /\ events' \in Seq(Names)
      BY <3>1, FirstEvents DEF Goes
    <3>4. printed' \in Seq(Names)
      BY <2>2 DEF EventInv
    <3> QED
      BY <2>2, <2>5, <3>2, <3>3, <3>4 DEF EventInv, Modes
  <2> QED
    BY <2>3, <2>4, <2>5
<1>5. CASE TitleFrame \/ TitleLeft \/ FirstFrame \/ Step
  <2>1. /\ EmitTo(events') /\ printed' = printed
        /\ mode \notin {"off", "init"} /\ mode' \in Modes \ {"off", "init"}
    BY <1>5 DEF TitleFrame, TitleLeft, FirstFrame, Step, Modes
  <2>2. /\ events' \in Seq(Names) /\ emitted' \in Nat
        /\ Goes(printed \o events') /\ Len(printed \o events') = 1 + emitted'
    BY <2>1, EmitStep
  <2> QED
    BY <2>1, <2>2 DEF EventInv, Told
<1>6. CASE FrameBegins
  BY <1>6 DEF FrameBegins, queues, EventInv, Told, Modes
<1>7. CASE FrameEnds
  <2>1. PICK queue : EmitTo(queue) /\ printed' = printed \o queue /\ events' = <<>>
    BY <1>7 DEF FrameEnds, Drained
  <2>2. mode \notin {"off", "init"} /\ mode' \in Modes \ {"off", "init"}
    BY <1>7 DEF FrameEnds, Modes
  <2>3. /\ queue \in Seq(Names) /\ emitted' \in Nat
        /\ Goes(printed \o queue) /\ Len(printed \o queue) = 1 + emitted'
    BY <2>1, <2>2, EmitStep
  <2>4. printed' \in Seq(Names) /\ Told' = printed'
    BY <2>1, <2>3, Concatenations DEF EventInv, Told
  <2> QED
    BY <2>1, <2>2, <2>3, <2>4 DEF EventInv
<1>8. CASE PowerLoss /\ mode = "off"
  <2>1. mode' = mode /\ UNCHANGED <<printed, emitted>> /\ events' = <<>>
    BY <1>8 DEF PowerLoss, Ended
  <2>2. events' = events
    BY <1>8, <2>1 DEF EventInv
  <2> QED
    BY <2>1, <2>2 DEF EventInv, Told
<1>9. CASE Writeback
  BY <1>9, WritebackAside DEF queues, EventInv, Told
<1> QED
  BY <1>1, <1>2, <1>3, <1>4, <1>5, <1>6, <1>7, <1>8, <1>9, StepCases
  DEF Calls, Quiet, vars, LeaveKey

\* The printed events tell the session: it starts first and once, exits last
\* and once, and every event of the script is told once, or waits.
THEOREM EventsAreTold == Spec => []EventsTellTheSession
<1>1. Init => EventInv
  <2> SUFFICES ASSUME Init PROVE EventInv
    OBVIOUS
  <2>1. /\ mode = "off" /\ printed = <<>> /\ events = <<>> /\ emitted = 0
    BY DEF Init
  <2>2. Told = <<>>
    BY <2>1 DEF Told
  <2> QED
    BY <2>1, <2>2 DEF EventInv, Modes, Ends
<1>2. EventInv => EventsTellTheSession
  <2> SUFFICES ASSUME EventInv PROVE EventsTellTheSession
    OBVIOUS
  <2>1. CASE mode = "off"
    BY <2>1 DEF EventInv, EventsTellTheSession, Ends, Told
  <2>2. CASE mode = "init"
    <3>1. printed \o events = <<>>
      BY <2>2 DEF EventInv
    <3> QED
      BY <2>2, <3>1 DEF EventsTellTheSession
  <2>3. CASE mode \notin {"off", "init"}
    <3>1. Goes(Told) /\ Len(Told) = 1 + emitted /\ emitted \in Nat
      BY <2>3 DEF EventInv
    <3>2. 1 \in DOMAIN Told
      BY <3>1 DEF Goes
    <3>3. Told[1] = "GameStarted"
      BY <3>1, <3>2 DEF Goes
    <3> QED
      BY <2>3, <3>1, <3>3 DEF EventsTellTheSession, Told, Goes
  <2> QED
    BY <2>1, <2>2, <2>3
<1> QED
  BY <1>1, <1>2, EventStep, PTL DEF Spec

=============================================================================
