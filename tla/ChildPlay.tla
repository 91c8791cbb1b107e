------------------------------ MODULE ChildPlay ------------------------------
(***************************************************************************)
(* A launcher that starts Sprout's own games (main.cpp, lines 1357-1435):  *)
(* the daily time policy, the record of play in the game library           *)
(* (game_library_repository.cpp) and the process of the game, through      *)
(* deaths of the launcher and boots of the device.                         *)
(*                                                                         *)
(* The launcher waits for the game, so between the start and the pause of  *)
(* a session nothing is charged.  Every store commits by itself: a launch  *)
(* is a sequence of steps, and the launcher may die between any two.  Its  *)
(* game does not die with it: the wrapper starts another launcher beside a *)
(* game that plays on, and nobody waits for that one any more.             *)
(***************************************************************************)
EXTENDS DailyTimePolicy

CONSTANTS
  Parent,            \* a parent profile: it plays without a policy
  DefaultAllowance,  \* kDefaultChildDailyAllowanceSeconds
  NoGame

Players == Profiles \cup {Parent}

\* "native-activity-<profile>-<monotonic time>": a boot may repeat it.
Games == [profile : Players, mono : 0..MaxMono]

ASSUME PlayAssumption ==
  /\ Parent \notin Profiles
  /\ DefaultAllowance \in Allowances
  /\ NoGame \notin Games

VARIABLES
  launcher,       \* where the launcher is in a launch, or "down"
  game,           \* the game it launched: the key of its activity row
  orphans,        \* the games that play on without their launcher
  play_sessions,  \* the table: play_sessions[g] is an outcome or "none"
  returned        \* history: the games whose process ran and came back

playVars == <<vars, launcher, game, orphans, play_sessions, returned>>

\* What the launcher keeps of its games, in memory and in the library.
records == <<play_sessions, returned>>

\* Completed and abnormal are both finished: nothing tells them apart.
Outcomes == {"active", "finished", "interrupted"}

InLaunch == {"game", "begin", "finish", "pause"}

PlayTypeOK ==
  /\ TypeOK
  /\ launcher \in {"down", "starting", "idle"} \cup InLaunch
  /\ game \in Games \cup {NoGame}
  /\ (game # NoGame) = (launcher \in InLaunch)
  /\ orphans \subseteq Games
  /\ play_sessions \in [Games -> Outcomes \cup {"none"}]
  /\ returned \subseteq Games

PlayInit ==
  /\ Init
  /\ launcher = "down"
  /\ game = NoGame
  /\ orphans = {}
  /\ play_sessions = [g \in Games |-> "none"]
  /\ returned = {}

IsChild == game # NoGame /\ game.profile \in Profiles

\* The children whose game has outlived its launcher.
ChildGames == {g \in orphans : g.profile \in Profiles}

-----------------------------------------------------------------------------
(* Starting. *)

\* Mutant: the library is opened and nothing is settled.
RecoverNothing == play_sessions

\* recover_interrupted_sessions
RecoverInterruptedSessions ==
  [g \in Games |-> IF play_sessions[g] = "active" THEN "interrupted"
                                                  ELSE play_sessions[g]]

\* The stores are opened; the time policy's own recovery is not called.
Start ==
  /\ launcher = "down"
  /\ launcher' = "starting"
  /\ play_sessions' = RecoverInterruptedSessions
  /\ UNCHANGED <<vars, game, orphans, returned>>

\* A child without an allowance gets the default.
GiveDefault(p) ==
  /\ launcher = "starting"
  /\ daily_policy[p] = 0
  /\ SetDailyAllowance(p, DefaultAllowance)
  /\ UNCHANGED <<launcher, game, orphans, records>>

Ready ==
  /\ launcher = "starting"
  /\ \A p \in Profiles : daily_policy[p] > 0
  /\ launcher' = "idle"
  /\ UNCHANGED <<vars, game, orphans, records>>

\* The launcher dies, or an exception ends it.  Its game was spawned like any
\* process, and nothing kills it then (launch_process.cpp lines 97-119).  From
\* here on its time is not `play`: nobody charges it.
Die ==
  /\ launcher # "down"
  /\ launcher' = "down"
  /\ game' = NoGame
  /\ orphans' = IF launcher = "game" THEN orphans \cup {game} ELSE orphans
  /\ playing' = FALSE
  /\ UNCHANGED <<store, clocks, history, records>>

\* A game nobody waits for ends by itself, at once when it had not started yet.
OrphanEnds ==
  /\ \E g \in orphans : orphans' = orphans \ {g}
  /\ UNCHANGED <<vars, launcher, game, records>>

-----------------------------------------------------------------------------
(* A launch, step by step. *)

Begin(profile) ==
  /\ launcher' = "game"
  /\ game' = [profile |-> profile, mono |-> mono]
  /\ UNCHANGED <<orphans, records>>

\* Mutant: what begin_session decided is not looked at.
LaunchUnchecked(p) ==
  /\ launcher = "idle"
  /\ Begin(p)
  /\ UNCHANGED vars

LaunchChild(p) ==
  /\ launcher = "idle"
  /\ BeginSession(p)
  /\ Begin(p)

\* The day is used up.  (A clock that has gone back refuses without a trace.)
RefuseChild(p) ==
  /\ launcher = "idle"
  /\ BeginRefused(p)
  /\ UNCHANGED <<launcher, game, orphans, records>>

\* begin_session throws over a session that is still on record, and the
\* handler of the input ends the launcher.
LaunchThrows(p) ==
  /\ launcher = "idle"
  /\ ClockAccepted(p)
  /\ Remaining(daily_policy[p], daily_usage[p][Today].used) > 0
  /\ active_session # {}
  /\ launcher' = "down"
  /\ UNCHANGED <<vars, game, orphans, records>>

LaunchParent ==
  /\ launcher = "idle"
  /\ Begin(Parent)
  /\ UNCHANGED vars

AfterActivity == IF IsChild THEN "pause" ELSE "idle"

Leave(next) ==
  /\ launcher' = next
  /\ game' = IF next = "idle" THEN NoGame ELSE game

\* The process ran and came back, well or badly.
GameReturns ==
  /\ launcher = "game"
  /\ launcher' = "begin"
  /\ returned' = returned \cup {game}
  /\ UNCHANGED <<vars, game, orphans, play_sessions>>

\* The package or the runtime was not there, or the process did not start.
GameFails ==
  /\ launcher = "game"
  /\ Leave(AfterActivity)
  /\ UNCHANGED <<vars, orphans, records>>

BeginPlaySession ==
  /\ launcher = "begin"
  /\ play_sessions[game] = "none"
  /\ play_sessions' = [play_sessions EXCEPT ![game] = "active"]
  /\ launcher' = "finish"
  /\ UNCHANGED <<vars, game, orphans, returned>>

\* The key is taken by a game of an earlier boot: the insertion throws.
BeginPlaySessionThrows ==
  /\ launcher = "begin"
  /\ play_sessions[game] # "none"
  /\ Die

FinishPlaySession ==
  /\ launcher = "finish"
  /\ play_sessions' = [play_sessions EXCEPT ![game] = "finished"]
  /\ Leave(AfterActivity)
  /\ UNCHANGED <<vars, orphans, returned>>

\* Mutant: the launcher comes back without pausing the session.
PauseForgotten ==
  /\ launcher = "pause"
  /\ playing' = FALSE
  /\ Leave("idle")
  /\ UNCHANGED <<store, clocks, history, orphans, records>>

Pause ==
  /\ launcher = "pause"
  /\ UpdateActiveSession(FALSE)
  /\ Leave("idle")
  /\ UNCHANGED <<orphans, records>>

-----------------------------------------------------------------------------
(* The device. *)

\* Nobody charges a running game, however long it runs.
PlayTick ==
  /\ utc < MaxUtc /\ mono < MaxMono
  /\ utc' = utc + 1
  /\ mono' = mono + 1
  /\ play' = IF playing THEN [play EXCEPT !.ticks = @ + 1] ELSE play
  /\ UNCHANGED <<store, zone, playing, announced, latest, launcher, game,
                 orphans, records>>

ClockIsSet == SetClock /\ UNCHANGED <<launcher, game, orphans, records>>

DeviceBoots ==
  /\ launcher = "down"
  /\ Reboot
  /\ orphans' = {}
  /\ UNCHANGED <<launcher, game, records>>

PlayNext ==
  \/ Start \/ Ready \/ Die \/ LaunchParent \/ GameReturns \/ GameFails
  \/ BeginPlaySession \/ BeginPlaySessionThrows \/ FinishPlaySession \/ Pause
  \/ \E p \in Profiles :
       GiveDefault(p) \/ LaunchChild(p) \/ RefuseChild(p) \/ LaunchThrows(p)
  \/ OrphanEnds \/ PlayTick \/ ClockIsSet \/ DeviceBoots

PlaySpec == PlayInit /\ [][PlayNext]_playVars

-----------------------------------------------------------------------------
(* Properties. *)

\* A child's game runs only under its own session, begun when it was launched,
\* through every order of deaths and restarts (lines 1376-1389 and 1422-1430).
ChildrenAreMetered ==
  IsChild => \E row \in active_session :
    row.profile = game.profile /\ row.mono = game.mono

\* A session that was cut off is never taken over: until it is settled no child
\* gets a game, whoever it belonged to (begin_session lines 494-496).  The game
\* it was begun for may still play on, and may end, but no other child's.
CutOffSessionBlocksPlay ==
  [][active_session # {} /\ ~IsChild =>
       ~IsChild' /\ ChildGames' \subseteq ChildGames]_playVars

\* However many launchers died under their games: a child's game that plays on
\* without its launcher is the only child's game on the device, no launcher
\* starts one beside it, and the session it was begun under is still on record
\* (launch_process.cpp lines 97-119 with begin_session).
OneChildPlays ==
  \A g \in ChildGames :
    /\ ~IsChild
    /\ ChildGames = {g}
    /\ \E row \in active_session :
         row.profile = g.profile /\ row.mono = g.mono

\* A launcher that takes input has no activity row left open, and whatever it
\* shows as played is a game whose process ran and came back
\* (game-discovery-and-review.md lines 101-104).
ActivityIsSettled ==
  /\ launcher = "idle" => \A g \in Games : play_sessions[g] # "active"
  /\ \A g \in Games : play_sessions[g] # "none" => g \in returned

\* A launcher that is back from a child's game has charged its day for all the
\* play, up to the allowance, although it charged nothing while the game ran.
ReturnIsCharged ==
  [][IsChild /\ launcher' = "idle" =>
       LET p == game.profile
       IN \E row \in active_session :
            \/ daily_usage'[p][row.date].used >= daily_policy[p]
            \/ daily_usage'[p][row.date].used >= play.base + play.ticks]_playVars

\* daily-time-policy.md line 23: on restart, recovery charges the gap and clears
\* the marker.
RestartClearsMarker == launcher = "idle" => active_session = {}

=============================================================================
