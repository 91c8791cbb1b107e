---------------------------- MODULE GameSession ----------------------------
(***************************************************************************)
(* The process that runs one native game: the loop of runtime/src/main.cpp *)
(* (title screen, fixed ticks, frames) around the session of session.cpp   *)
(* (calls into the game's script, its events, sounds and local storage).   *)
(* The script may use its interface as it likes in every call, or fail.    *)
(* Launches repeat, the process may die and the power be lost between any  *)
(* two steps; what the game stored stays, but a power cut may take what    *)
(* the kernel had not written to the card yet.                             *)
(***************************************************************************)
EXTENDS Naturals, Sequences, FiniteSets, Functions

CONSTANTS
  Keys, Values,     \* what a game stores, and under which names
  Loadable,         \* 64 KiB in the code: the entries load_storage accepts
  Damaged,          \* a file that does not parse: empty, or half of one
  SoundLimit,       \* kMaximumSoundRequests
  Tick,             \* 16667 us in the code
  MaxSteps,         \* 5: ticks caught up in one frame
  FullHold,         \* 3 s: how long B resets
  MaxSessions, MaxTime, MaxEmitted  \* bounds of the runs

ASSUME SessionAssumption ==
  /\ Loadable \in Nat /\ SoundLimit \in Nat
  /\ Tick \in Nat \ {0} /\ MaxSteps \in Nat \ {0} /\ FullHold \in Nat \ {0}

VARIABLES
  mode,                  \* off, init, title, first, frame, steps, stopping
  has_title, can_reset,  \* of the package
  file, storage,         \* storage.json, and the session's map
  card,                  \* what of that file a loss of power would leave
  events, sounds,        \* queued in the session
  pressed,               \* the buttons the title read last: "A", "B", "back"
  given,                 \* those it handed to title_update
  reset_armed, reset_timing, held, reset_complete,
  running, accumulator, steps,
  sessions, tick, elapsed,  \* history: launches, updates and time in the game
  emitted,                  \* history: emit calls that returned
  printed,                  \* history: SPROUT_EVENT lines of this process
  acked,                    \* history: what storage_set said it stored
  blind,                    \* history: this session could not see its file
  streak                    \* history: [time, up, done] of B's current hold

package == <<has_title, can_reset>>
store == <<file, card, storage, blind, acked>>
queues == <<events, sounds, emitted>>
title == <<pressed, given, reset_armed, reset_timing, held, reset_complete, streak>>
loop == <<running, accumulator, steps, tick, elapsed>>
vars == <<mode, package, store, queues, title, loop, sessions, printed>>

Buttons == {"A", "B", "back"}
NoHold == [time |-> 0, up |-> FALSE, done |-> FALSE]

Init ==
  /\ mode = "off" /\ has_title \in BOOLEAN /\ can_reset \in BOOLEAN
  /\ file = <<>> /\ card = <<>> /\ storage = <<>>
  /\ blind = FALSE /\ acked = <<>>
  /\ events = <<>> /\ sounds = 0 /\ emitted = 0 /\ printed = <<>>
  /\ pressed = {} /\ given = {} /\ reset_armed = FALSE /\ reset_timing = FALSE
  /\ held = 0 /\ reset_complete = FALSE /\ streak = NoHold
  /\ running = FALSE /\ accumulator = 0 /\ steps = 0
  /\ sessions = 0 /\ tick = 0 /\ elapsed = 0

-----------------------------------------------------------------------------
\* What the script may do in a call.

\* Mutant: a package may emit any type of event.
AnyEventType(t) == TRUE

ValidEventType(t) == t \in {"AchievementUnlocked", "LevelCompleted"}

\* emit: the queue may grow by one event of the package.
EmitTo(queue) ==
  \/ queue = events /\ UNCHANGED emitted
  \/ \E t \in {"LevelCompleted", "GameExited"} :
       /\ ValidEventType(t) /\ emitted < MaxEmitted
       /\ emitted' = emitted + 1
       /\ queue = Append(events, t)

\* sfx: above the limit the call fails.
Sfx == sounds' \in {sounds, sounds + 1} /\ sounds' <= SoundLimit

With(m, k, v) == [x \in DOMAIN m \cup {k} |-> IF x = k THEN v ELSE m[x]]

\* storage_set: the map takes the value before the file does; the file is
\* written beside its place and renamed into it, whole, but never synced: until
\* the kernel has written it back the card may hold the old file, the new one,
\* or the new name without its contents.
StorageSet(k, v) ==
  /\ storage' = With(storage, k, v)
  /\ file' = storage' /\ card' \in {card, file', Damaged}
  /\ acked' = With(IF blind THEN <<>> ELSE acked, k, v)
  /\ blind' = FALSE

\* The write or the rename fails and the script catches the error.
StorageSetFails(k, v) ==
  /\ storage' = With(storage, k, v)
  /\ acked' = Restrict(acked, DOMAIN acked \ {k})
  /\ UNCHANGED <<file, card, blind>>

Store ==
  \/ UNCHANGED store
  \/ \E k \in Keys, v \in Values : StorageSet(k, v) \/ StorageSetFails(k, v)

-----------------------------------------------------------------------------
\* The beginning and the end of a process.

Readable == file # Damaged /\ Cardinality(DOMAIN file) <= Loadable

\* Mutant: the session's map is not loaded before the first write.
LoadNothing == Readable /\ storage' = <<>> /\ blind' = FALSE

\* A file that cannot be looked at (exists leaves an error that is not read)
\* counts as none: the session begins with an empty map.
LoadStorage ==
  \/ Readable /\ storage' = file /\ blind' = FALSE
  \/ file # <<>> /\ storage' = <<>> /\ blind' = TRUE

Launch ==
  /\ mode = "off" /\ sessions < MaxSessions
  /\ LoadStorage
  /\ mode' = "init" /\ sessions' = sessions + 1
  /\ printed' = <<>> /\ emitted' = 0
  /\ UNCHANGED <<package, file, card, acked, events, sounds, title, loop>>

\* A file larger than load_storage accepts, or damaged: this game starts no
\* more.  (A launch that cannot open the file is one that dies.)
LaunchRefused ==
  /\ mode = "off" /\ sessions < MaxSessions
  /\ ~Readable
  /\ sessions' = sessions + 1 /\ printed' = <<>> /\ emitted' = 0
  /\ UNCHANGED <<mode, package, store, events, sounds, title, loop>>

StartedFirst(queue) == <<"GameStarted">> \o queue

\* start: the game's init; its sounds are played at once.
Start ==
  /\ mode = "init"
  /\ \E queue \in {<<>>, <<"LevelCompleted">>} :
       EmitTo(queue) /\ events' = StartedFirst(queue)
  /\ sounds' = 0 /\ Store
  /\ mode' = IF has_title THEN "title" ELSE "first"
  /\ reset_armed' \in BOOLEAN
  /\ streak' = [NoHold EXCEPT !.up = reset_armed']
  /\ tick' = 0 /\ elapsed' = 0
  /\ UNCHANGED <<package, pressed, given, reset_timing, held, reset_complete,
                 running, accumulator, steps, sessions, printed>>

Ended(log) ==
  /\ mode' = "off" /\ printed' = log
  /\ events' = <<>> /\ sounds' = 0
  /\ storage' = <<>> /\ blind' = FALSE
  /\ pressed' = {} /\ given' = {} /\ reset_armed' = FALSE
  /\ reset_timing' = FALSE /\ held' = 0 /\ reset_complete' = FALSE
  /\ streak' = NoHold
  /\ running' = FALSE /\ accumulator' = 0 /\ steps' = 0 /\ tick' = 0
  /\ elapsed' = 0
  /\ UNCHANGED <<package, sessions, emitted>>

\* The process is killed, or a call failed (an error of the script, a full
\* queue, the instruction limit): the events it still had are lost.
Die == mode # "off" /\ Ended(printed) /\ UNCHANGED <<file, card, acked>>

\* stop and the last print_events.
Stop ==
  /\ mode = "stopping"
  /\ Ended(printed \o events \o <<"GameExited">>)
  /\ UNCHANGED <<file, card, acked>>

\* The kernel writes the file back, some seconds after it was closed.
Writeback ==
  /\ card # file /\ card' = file
  /\ UNCHANGED <<mode, package, file, storage, blind, acked, queues, title, loop,
                 sessions, printed>>

\* Power is lost before that: the file is what the card has of it.  (Once it is
\* written back, a loss of power is a death like any other.)
PowerLoss ==
  /\ card # file /\ file' = card
  /\ Ended(printed)
  /\ acked' = <<>> /\ UNCHANGED card

-----------------------------------------------------------------------------
\* The title screen: one iteration reads the buttons after dt has passed.

Least(a, b) == IF a < b THEN a ELSE b

\* Mutant: letting B go does not start the hold over.
HoldGoesOn(now, dt) ==
  IF can_reset /\ "B" \in now /\ reset_armed' /\ ~reset_complete
  THEN /\ reset_timing' = TRUE
       /\ held' = Least(FullHold, held + dt)
       /\ reset_complete' = (held' = FullHold)
  ELSE /\ reset_timing' = FALSE /\ held' = held
       /\ reset_complete' = (reset_complete /\ "B" \in now)

\* B held without a pause, after having been up once, resets at FullHold; the
\* reset counts as complete until B is let go.
Hold(now, dt) ==
  IF can_reset /\ "B" \in now /\ reset_armed' /\ ~reset_complete
  THEN /\ reset_timing' = TRUE
       /\ held' = IF reset_timing THEN Least(FullHold, held + dt) ELSE 0
       /\ reset_complete' = (held' = FullHold)
  ELSE /\ reset_timing' = FALSE /\ held' = 0
       /\ reset_complete' = (reset_complete /\ "B" \in now)

ResetProgress == ~reset_complete /\ reset_complete'

Watch(now, dt) ==
  streak' = IF "B" \notin now THEN [time |-> 0, up |-> TRUE, done |-> FALSE]
            ELSE [streak EXCEPT !.time = IF "B" \in pressed
                                         THEN Least(FullHold, @ + dt) ELSE 0,
                                !.done = @ \/ ResetProgress]

TitleLeaves(now) == "back" \in now \/ ("B" \in now /\ ~can_reset)

\* A pressed afresh and without B; closing the window starts the game as well.
TitleStarts(now, quit) ==
  \/ quit
  \/ "A" \in now /\ "B" \notin now /\ "A" \notin pressed /\ ~reset_complete'

TitleFrame ==
  /\ mode = "title"
  /\ \E now \in SUBSET Buttons, dt \in 0 .. FullHold, quit \in BOOLEAN :
       /\ ~TitleLeaves(now)
       /\ pressed' = now /\ given' = now \ pressed
       /\ reset_armed' = (reset_armed \/ "B" \notin now)
       /\ Hold(now, dt) /\ Watch(now, dt)
       /\ mode' = IF TitleStarts(now, quit) THEN "first" ELSE "title"
  /\ EmitTo(events') /\ Sfx /\ Store
  /\ UNCHANGED <<package, loop, sessions, printed>>

\* The script is called once more before the title is left.
TitleLeft ==
  /\ mode = "title"
  /\ \E now \in SUBSET Buttons :
       TitleLeaves(now) /\ pressed' = now /\ given' = now \ pressed
  /\ EmitTo(events') /\ Sfx /\ Store
  /\ mode' = "stopping"
  /\ UNCHANGED <<package, reset_armed, reset_timing, held, reset_complete, streak,
                 loop, sessions, printed>>

-----------------------------------------------------------------------------
\* The game: a frame polls for a quit, runs the ticks that are due and draws.

\* The frame drawn before the loop; its events wait for the next one.
FirstFrame ==
  /\ mode = "first"
  /\ EmitTo(events') /\ Sfx /\ Store
  /\ mode' = "frame"
  /\ pressed' = {} /\ given' = {} /\ reset_armed' = FALSE /\ streak' = NoHold
  /\ reset_timing' = FALSE /\ held' = 0 /\ reset_complete' = FALSE
  /\ UNCHANGED <<package, loop, sessions, printed>>

FrameBegins ==
  /\ mode = "frame"
  /\ \E dt \in 0 .. Tick * (MaxSteps + 1) :
       /\ elapsed + dt <= MaxTime
       /\ elapsed' = elapsed + dt /\ accumulator' = accumulator + dt
  /\ running' \in BOOLEAN
  /\ mode' = "steps" /\ steps' = 0
  /\ UNCHANGED <<package, store, queues, title, tick, sessions, printed>>

TickIsDue == accumulator >= Tick /\ steps < MaxSteps /\ running

\* Back, or B, ends the game before the tick runs.
LeaveKey ==
  /\ mode = "steps" /\ TickIsDue
  /\ running' = FALSE
  /\ UNCHANGED <<mode, package, store, queues, title, accumulator, steps, tick,
                 elapsed, sessions, printed>>

\* update; its sounds, and all that were queued before it, go to the mixer.
Step ==
  /\ mode = "steps" /\ TickIsDue
  /\ EmitTo(events') /\ Store
  /\ sounds' = 0
  /\ accumulator' = accumulator - Tick
  /\ steps' = steps + 1 /\ tick' = tick + 1
  /\ UNCHANGED <<mode, package, title, running, elapsed, sessions, printed>>

\* Mutant: what could not be caught up is kept for the next frame.
BacklogKept == accumulator

\* After a stall the ticks that were not caught up are dropped.
Backlog == IF steps = MaxSteps THEN 0 ELSE accumulator

\* drain_events
Drained(queue) == events' = <<>>

\* draw_frame, a call to render, then print_events.
FrameEnds ==
  /\ mode = "steps" /\ ~TickIsDue
  /\ mode' = IF running THEN "frame" ELSE "stopping"
  /\ accumulator' = Backlog
  /\ \E queue \in {events, Append(events, "LevelCompleted")} :
       EmitTo(queue) /\ printed' = printed \o queue /\ Drained(queue)
  /\ Sfx /\ Store
  /\ UNCHANGED <<package, title, running, steps, tick, elapsed, sessions>>

Next ==
  \/ Launch \/ LaunchRefused \/ Start \/ Die \/ Writeback \/ PowerLoss
  \/ TitleFrame \/ TitleLeft
  \/ FirstFrame \/ FrameBegins \/ LeaveKey \/ Step \/ FrameEnds \/ Stop

Spec == Init /\ [][Next]_vars

-----------------------------------------------------------------------------
\* Progress is reset only by B held for the full time without a pause, after it
\* had been up on this title screen, and only once in a hold.
ResetIsDeliberate ==
  [][ResetProgress => streak'.up /\ streak'.time = FullHold /\ ~streak.done]_vars

\* The printed events tell the session: it starts first, exits last, says both
\* once, and every event of the game in between is told once, or waits; a
\* process that says its exit has told them all.
EventsTellTheSession ==
  LET log == printed \o events IN
  /\ mode \notin {"off", "init"} => log[1] = "GameStarted" /\ Len(log) = 1 + emitted
  /\ \A i \in DOMAIN log :
       /\ log[i] = "GameStarted" <=> i = 1
       /\ log[i] = "GameExited" =>
            mode = "off" /\ i = Len(log) /\ i = 2 + emitted

\* The game never runs ahead of time, and never owes a tick from an earlier
\* frame: however long a stall was, the next frame begins with less than one.
TicksKeepTime ==
  /\ tick * Tick + accumulator <= elapsed
  /\ mode = "frame" => accumulator < Tick

\* What storage_set has acknowledged is in the file, whichever writes fail and
\* processes die later, and every session reads it, until a later set of the
\* same key fails.  Two things undo it, and nothing else: power lost before the
\* kernel has written the file back (save_storage does not sync it), and a set
\* in a session that began without seeing its file (load_storage lines 773-776),
\* which writes its own map over it.
StorageSurvives ==
  \A k \in DOMAIN acked :
    /\ k \in DOMAIN file /\ file[k] = acked[k]
    /\ mode # "off" /\ ~blind => k \in DOMAIN storage /\ storage[k] = acked[k]

\* docs/specs/runtime-package-v1.md:57: title_update receives the title's input
\* "not consumed by this state machine".  It is called before the machine looks
\* at the buttons, with every edge.
TitleInputIsConsumedOnce ==
  ~ (reset_timing /\ "B" \in given)

=============================================================================
