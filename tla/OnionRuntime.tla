----------------------------- MODULE OnionRuntime -----------------------------
(***************************************************************************)
(* Who owns the screen: Onion's runtime as the project patches it          *)
(* (src/tools/templates/onion-runtime-sprout.sh), the wrapper that         *)
(* supervises the launcher (onion-sprout-launch.sh) and the launcher's own *)
(* part of the contract, the game handoff (onion_runtime_handoff.cpp), the *)
(* GameSwitcher request and the parent's exit (main.cpp).                  *)
(*                                                                         *)
(* The runtime is a shell loop: stage is the check it makes next, surface  *)
(* the program it waits for.  Files on the card survive a loss of power,   *)
(* files of /tmp do not.  MainUI, GameSwitcher, the games and keymon       *)
(* belong to Onion: they are modelled by the files they may leave.         *)
(***************************************************************************)
EXTENDS Naturals

CONSTANT
  StartupApps     \* values of config/startup/app on the device, within 0..3

ASSUME StartupAppsAssumption == StartupApps # {} /\ StartupApps \subseteq 0..3

VARIABLES
  stage, surface,
  launcher,       \* how far the launcher under the wrapper has come
  cmd,            \* cmd_to_run.sh: who wrote it
  handoff,        \* .sprout-handoff
  run_switcher,   \* .runGameSwitcher
  maintenance,    \* sprout-dev/maintenance/allow-stock-onion
  tmp,            \* the flags of /tmp that exist
  authority,      \* history: a parent left for stock Onion in this boot
  queue_failed,   \* history: the last attempt to queue Sprout failed
  runs, resumed,  \* history: how often this boot ran the command handed over,
                  \* and whether the boot itself ran it
  owed            \* history: a handoff was committed and has not been run

card == <<cmd, handoff, run_switcher, maintenance>>
history == <<authority, queue_failed, runs, resumed, owed>>
vars == <<stage, surface, launcher, card, tmp, history>>

Flags == {"quick_switch", "run_advmenu", "launch_alt", "offOrder",
          "stock-session", "authorized-exit"}

\* "auto" and "app" start Sprout, the first as queued by the router; "handed"
\* is the command of a handoff, "picked" one that Onion's programs wrote.
Games == {"handed", "picked"}
Commands == Games \cup {"none", "auto", "app"}

MaxRuns == 3

RuntimeTypeOK ==
  /\ stage \in {"off", "boot", "resume", "startup",
                "mainui", "menu", "game", "switcher"}
  /\ surface \in {"none", "mainui", "advmenu", "game", "sprout", "switcher"}
  /\ launcher \in {"none", "up", "removed", "renamed", "handed-off",
                   "switching", "leaving", "sleeping"}
  /\ cmd \in Commands
  /\ handoff \in BOOLEAN /\ run_switcher \in BOOLEAN /\ maintenance \in BOOLEAN
  /\ tmp \subseteq Flags
  /\ {authority, queue_failed, resumed, owed} \subseteq BOOLEAN
  /\ runs \in 0..MaxRuns
  /\ surface # "none" => stage \notin {"off", "boot", "startup"}
  /\ (launcher # "none") <=> (surface = "sprout")

\* The card as installed: no command, nothing requested.
Init ==
  /\ stage = "off" /\ surface = "none" /\ launcher = "none"
  /\ cmd = "none" /\ handoff = FALSE /\ run_switcher = FALSE
  /\ maintenance = FALSE
  /\ tmp = {}
  /\ authority = FALSE /\ queue_failed = FALSE
  /\ runs = 0 /\ resumed = FALSE /\ owed = FALSE

Contained == ~maintenance /\ "stock-session" \notin tmp

\* The runtime makes its next check; check_off_order ends the session instead.
Idle == surface = "none"
At(s) == stage = s /\ Idle
Advance(next) == stage' = IF "offOrder" \in tmp THEN "off" ELSE next

------------------------------------------------------------------------------
(* Power. *)

\* /tmp is fresh; MENU held while the device starts drops the command.
PowerOn ==
  /\ stage = "off"
  /\ stage' = "boot"
  /\ cmd' \in {cmd, "none"}
  /\ tmp' = {}
  /\ authority' = FALSE /\ queue_failed' = FALSE
  /\ runs' = 0 /\ resumed' = FALSE
  /\ UNCHANGED <<surface, launcher, handoff, run_switcher, maintenance, owed>>

\* The battery may end anything at any point.
PowerLoss ==
  /\ stage # "off"
  /\ stage' = "off" /\ surface' = "none" /\ launcher' = "none"
  /\ UNCHANGED <<card, tmp, history>>

\* keymon: the power button asks for a shutdown that the runtime carries out
\* at its next check.
PowerButton ==
  /\ stage # "off"
  /\ tmp' = tmp \cup {"offOrder"}
  /\ UNCHANGED <<stage, surface, launcher, card, history>>

\* The administrator sets or removes the maintenance flag on the card.
Maintain ==
  /\ maintenance' = ~maintenance
  /\ UNCHANGED <<stage, surface, launcher, cmd, handoff, run_switcher, tmp,
                 history>>

------------------------------------------------------------------------------
(* Booting. *)

\* A contained boot runs a command only if it is marked as handed over.
BootContained ==
  /\ At("boot") /\ Contained
  /\ IF handoff /\ cmd # "none"
       THEN stage' = "game" /\ resumed' = (cmd = "handed")
            /\ UNCHANGED <<cmd, run_switcher, tmp>>
       ELSE stage' = "switcher" /\ cmd' = "none" /\ run_switcher' = FALSE
            /\ tmp' = tmp \ {"quick_switch", "run_advmenu"}
            /\ UNCHANGED resumed
  /\ UNCHANGED <<surface, launcher, handoff, maintenance, authority,
                 queue_failed, runs, owed>>

\* Stock Onion resumes the last command, unless config/.noAutoStart exists.
BootStock ==
  /\ At("boot") /\ ~Contained
  /\ \/ stage' = "resume" /\ resumed' = (cmd = "handed") /\ UNCHANGED cmd
     \/ stage' = "startup" /\ cmd' = "none" /\ UNCHANGED resumed
  /\ UNCHANGED <<surface, launcher, handoff, run_switcher, maintenance, tmp,
                 authority, queue_failed, runs, owed>>

\* Its startup application: none, GameSwitcher, RetroArch or AdvanceMENU.
StartupApp ==
  /\ At("startup")
  /\ \E app \in StartupApps :
       /\ run_switcher' = (run_switcher \/ app = 1)
       /\ cmd' = IF app = 2 THEN "picked" ELSE cmd
       /\ tmp' = tmp \cup CASE app = 2 -> {"quick_switch"}
                            [] app = 3 -> {"run_advmenu"}
                            [] OTHER -> {}
  /\ stage' = "switcher"
  /\ UNCHANGED <<surface, launcher, handoff, maintenance, history>>

------------------------------------------------------------------------------
(* The loop: check_main_ui, check_game_menu, check_game, check_switcher. *)

CommandPending ==
  /\ At("mainui") /\ cmd # "none"
  /\ stage' = "menu"
  /\ UNCHANGED <<surface, launcher, card, tmp, history>>

\* Mutant: the router forgets to queue anything.
QueueNothing ==
  /\ At("mainui") /\ cmd = "none" /\ Contained
  /\ tmp' = tmp \ {"run_advmenu"}
  /\ queue_failed' = FALSE
  /\ Advance("menu")
  /\ UNCHANGED <<surface, launcher, card, authority, runs, resumed, owed>>

\* queue_sprout: the router's own command, replaced atomically.
QueueSprout ==
  /\ At("mainui") /\ cmd = "none" /\ Contained
  /\ tmp' = tmp \ {"run_advmenu"}
  /\ cmd' = "auto"
  /\ queue_failed' = FALSE
  /\ Advance("menu")
  /\ UNCHANGED <<surface, launcher, handoff, run_switcher, maintenance,
                 authority, runs, resumed, owed>>

\* The command cannot be written: the router falls back to MainUI.
QueueFails ==
  /\ At("mainui") /\ cmd = "none" /\ Contained
  /\ tmp' = tmp \ {"run_advmenu"}
  /\ queue_failed' = TRUE
  /\ surface' = "mainui"
  /\ UNCHANGED <<stage, launcher, card, authority, runs, resumed, owed>>

OpenStock ==
  /\ At("mainui") /\ cmd = "none" /\ ~Contained
  /\ surface' = IF "run_advmenu" \in tmp THEN "advmenu" ELSE "mainui"
  /\ tmp' = tmp \ {"run_advmenu"}
  /\ UNCHANGED <<stage, launcher, card, history>>

\* MainUI leaves the command chosen in it: a game or an application, Sprout
\* among them, perhaps with the game options asked for.
MainUiEnds ==
  /\ surface = "mainui"
  /\ surface' = "none"
  /\ cmd' \in {"none", "picked", "app"}
  /\ tmp' \in {tmp, tmp \cup {"launch_alt"}}
  /\ Advance("menu")
  /\ UNCHANGED <<launcher, handoff, run_switcher, maintenance, history>>

AdvMenuEnds ==
  /\ surface = "advmenu"
  /\ surface' = "none"
  /\ Advance("menu")
  /\ UNCHANGED <<launcher, card, tmp, history>>

\* game_list_options.sh may return without a game to run.
CheckGameMenu ==
  /\ At("menu")
  /\ tmp' = tmp \ {"launch_alt"}
  /\ \/ stage' = "game" /\ UNCHANGED cmd
     \/ /\ "launch_alt" \in tmp /\ cmd # "none"
        /\ cmd' = "none"
        /\ Advance("game")
  /\ UNCHANGED <<surface, launcher, handoff, run_switcher, maintenance,
                 history>>

AfterGame == IF stage = "resume" THEN "startup" ELSE "switcher"

NoGame ==
  /\ At("game") \/ At("resume")
  /\ cmd = "none"
  /\ stage' = AfterGame
  /\ UNCHANGED <<surface, launcher, card, tmp, history>>

LaunchGame ==
  /\ At("game") \/ At("resume")
  /\ cmd \in Games
  /\ surface' = "game"
  /\ tmp' = tmp \ {"quick_switch"}
  /\ runs' = IF cmd = "handed" /\ runs < MaxRuns THEN runs + 1 ELSE runs
  /\ owed' = (owed /\ cmd # "handed")
  /\ UNCHANGED <<stage, launcher, card, authority, queue_failed, resumed>>

\* keymon during a game: MENU opens GameSwitcher afterwards, or switches at
\* once to another game.
MenuInGame ==
  /\ surface = "game"
  /\ \/ run_switcher' = TRUE /\ UNCHANGED <<cmd, tmp>>
     \/ cmd' = "picked" /\ tmp' = tmp \cup {"quick_switch"}
        /\ UNCHANGED run_switcher
  /\ UNCHANGED <<stage, surface, launcher, handoff, maintenance, history>>

GameEnds ==
  /\ surface = "game"
  /\ surface' = "none"
  /\ Advance(AfterGame)
  /\ UNCHANGED <<launcher, card, tmp, history>>

\* launch_switcher opens GameSwitcher.
OpenSwitcher ==
  /\ At("switcher") /\ run_switcher
  /\ surface' = "switcher"
  /\ UNCHANGED <<stage, launcher, card, tmp, history>>

\* GameSwitcher leaves the game picked in it, or none.
SwitcherEnds ==
  /\ surface = "switcher"
  /\ surface' = "none"
  /\ cmd' \in {"none", "picked"}
  /\ run_switcher' = FALSE
  /\ Advance("mainui")
  /\ UNCHANGED <<launcher, handoff, maintenance, tmp, history>>

\* Mutant: the marker of a handoff is not looked at.
CheckSwitcherUnpatched ==
  /\ At("switcher") /\ ~run_switcher
  /\ IF "quick_switch" \in tmp
       THEN tmp' = tmp \ {"quick_switch"} /\ UNCHANGED <<handoff, cmd>>
       ELSE cmd' = "none" /\ UNCHANGED <<handoff, tmp>>
  /\ Advance("mainui")
  /\ UNCHANGED <<surface, launcher, run_switcher, maintenance, history>>

\* Mutant: the command of a handoff is kept and so is its marker.
CheckSwitcherKeepingMarker ==
  /\ At("switcher") /\ ~run_switcher
  /\ IF "quick_switch" \in tmp
       THEN tmp' = tmp \ {"quick_switch"} /\ UNCHANGED <<handoff, cmd>>
       ELSE IF handoff
              THEN UNCHANGED <<handoff, cmd, tmp>>
              ELSE cmd' = "none" /\ UNCHANGED <<handoff, tmp>>
  /\ Advance("mainui")
  /\ UNCHANGED <<surface, launcher, run_switcher, maintenance, history>>

\* check_switcher without a request for GameSwitcher: a quick switch keeps the
\* command, so does a handoff, whose marker is thereby used up.
CheckSwitcher ==
  /\ At("switcher") /\ ~run_switcher
  /\ IF "quick_switch" \in tmp
       THEN tmp' = tmp \ {"quick_switch"} /\ UNCHANGED <<handoff, cmd>>
       ELSE IF handoff
              THEN handoff' = FALSE /\ UNCHANGED <<cmd, tmp>>
              ELSE cmd' = "none" /\ UNCHANGED <<handoff, tmp>>
  /\ Advance("mainui")
  /\ UNCHANGED <<surface, launcher, run_switcher, maintenance, history>>

------------------------------------------------------------------------------
(* Sprout: the wrapper and the launcher it supervises. *)

\* Mutant: opening Sprout by hand leaves the stock session in force.
StartSproutKeepingSession ==
  /\ At("game") \/ At("resume")
  /\ cmd \in {"auto", "app"}
  /\ surface' = "sprout" /\ launcher' = "up"
  /\ tmp' = tmp \ {"quick_switch", "authorized-exit"}
  /\ authority' = (authority /\ cmd = "auto")
  /\ UNCHANGED <<stage, card, queue_failed, runs, resumed, owed>>

\* The wrapper removes its exit marker and, unless the router started it, ends
\* the stock session a parent had opened.
StartSprout ==
  /\ At("game") \/ At("resume")
  /\ cmd \in {"auto", "app"}
  /\ surface' = "sprout" /\ launcher' = "up"
  /\ tmp' = tmp \ ({"quick_switch", "authorized-exit"} \cup
                   IF cmd = "app" THEN {"stock-session"} ELSE {})
  /\ authority' = (authority /\ cmd = "auto")
  /\ UNCHANGED <<stage, card, queue_failed, runs, resumed, owed>>

LauncherAt(pc) == launcher = pc /\ UNCHANGED <<stage, surface>>

\* OnionRuntimeHandoffProcess::run with the command staged: it refuses while a
\* marker exists, and otherwise removes the present command.
BeginHandoff ==
  /\ LauncherAt("up") /\ ~handoff
  /\ launcher' = "removed"
  /\ cmd' = "none"
  /\ UNCHANGED <<handoff, run_switcher, maintenance, tmp, history>>

\* The staged command takes its place.
ActivateCommand ==
  /\ LauncherAt("removed")
  /\ launcher' = "renamed"
  /\ cmd' = "handed"
  /\ runs' = 0 /\ resumed' = FALSE /\ owed' = FALSE
  /\ UNCHANGED <<handoff, run_switcher, maintenance, tmp, authority,
                 queue_failed>>

\* The marker commits the handoff.
CommitHandoff ==
  /\ LauncherAt("renamed")
  /\ launcher' = "handed-off"
  /\ handoff' = TRUE /\ owed' = TRUE
  /\ UNCHANGED <<cmd, run_switcher, maintenance, tmp, authority, queue_failed,
                 runs, resumed>>

\* A rename that fails leaves no command; a marker that fails takes it back.
HandoffFails ==
  /\ LauncherAt("removed") \/ LauncherAt("renamed")
  /\ launcher' = "up"
  /\ cmd' = "none"
  /\ UNCHANGED <<handoff, run_switcher, maintenance, tmp, history>>

\* MENU in Sprout: commit_game_switcher_request.
RequestSwitcher ==
  /\ LauncherAt("up")
  /\ launcher' = "switching"
  /\ run_switcher' = TRUE
  /\ UNCHANGED <<cmd, handoff, maintenance, tmp, history>>

\* A parent with a grant leaves Sprout: commit_parent_exit_marker.
ParentExit ==
  /\ LauncherAt("up")
  /\ launcher' = "leaving"
  /\ tmp' = tmp \cup {"authorized-exit"}
  /\ authority' = TRUE
  /\ UNCHANGED <<card, queue_failed, runs, resumed, owed>>

Sleep ==
  /\ LauncherAt("up")
  /\ launcher' = "sleeping"
  /\ UNCHANGED <<card, tmp, history>>

\* The launcher ended and the wrapper returns to the runtime: for the exit
\* marker, which it turns into a stock session, for a handoff or a GameSwitcher
\* request (status 75) and, after the device has slept, for status 74.
WrapperReturns ==
  /\ \/ "authorized-exit" \in tmp
     \/ launcher \in {"handed-off", "switching", "sleeping"}
  /\ surface = "sprout"
  /\ surface' = "none" /\ launcher' = "none"
  /\ tmp' = IF "authorized-exit" \in tmp
              THEN (tmp \ {"authorized-exit"}) \cup {"stock-session"}
              ELSE tmp
  /\ Advance(AfterGame)
  /\ UNCHANGED <<card, history>>

\* Any other end of the launcher, at whatever point: the wrapper starts it
\* again.
WrapperRestarts ==
  /\ surface = "sprout" /\ "authorized-exit" \notin tmp
  /\ launcher' = "up"
  /\ UNCHANGED <<stage, surface, card, tmp, history>>

------------------------------------------------------------------------------

Route ==
  \/ BootContained \/ BootStock \/ StartupApp
  \/ CommandPending \/ QueueSprout \/ QueueFails \/ OpenStock
  \/ CheckGameMenu \/ NoGame \/ LaunchGame \/ StartSprout
  \/ OpenSwitcher \/ CheckSwitcher

Surfaces == MainUiEnds \/ AdvMenuEnds \/ MenuInGame \/ GameEnds \/ SwitcherEnds

Sprout ==
  \/ BeginHandoff \/ ActivateCommand \/ CommitHandoff \/ HandoffFails
  \/ RequestSwitcher \/ ParentExit \/ Sleep
  \/ WrapperReturns \/ WrapperRestarts

Power == PowerOn \/ PowerLoss \/ PowerButton \/ Maintain

Next == Route \/ Surfaces \/ Sprout \/ Power

\* The runtime's shell goes on by itself; what a program on the screen does,
\* and when the power fails, nobody promises.
Spec == Init /\ [][Next]_vars /\ WF_vars(Route)

------------------------------------------------------------------------------
(* Properties. *)

\* Stock Onion comes to the screen only for a parent who left Sprout in this
\* boot and has not gone back to it by hand, for the administrator's
\* maintenance flag, or because the router could not write its own command
\* (check_main_ui, the wrapper's exit marker and its stock session).
StockNeedsAuthority ==
  [][surface' \in {"mainui", "advmenu"} =>
       \/ surface' = surface
       \/ authority \/ maintenance \/ queue_failed']_vars

\* One handoff is one run of its game, whatever is pressed meanwhile and
\* however often the launcher dies; a boot that found the handoff unfinished
\* runs the game itself and then once more (boot routing with check_switcher
\* and OnionRuntimeHandoffProcess::run).
HandoffRunsOnce == runs <= IF resumed THEN 2 ELSE 1

\* From the marker that commits it until its game starts, over any switches,
\* programs and losses of power, a handoff's command is replaced only by
\* GameSwitcher, by MENU held at power-on, by stock Onion's own boot or its
\* startup application, and by a contained boot after the session ended between
\* check_switcher, which uses the marker up, and check_game: that one handoff
\* the boot route does lose.
HandoffIsDelivered ==
  [][owed /\ cmd = "handed" =>
       \/ cmd' = "handed"
       \/ surface = "switcher"
       \/ stage \in {"off", "startup"}
       \/ stage = "boot" /\ (~Contained \/ ~handoff)]_vars

\* While Sprout is contained, every end of a program that leaves no command
\* opens Sprout (the objective of the containment contract), unless
\* GameSwitcher was asked for or the router could not write its command.
IdleRouterOpensSprout ==
  (Contained /\ cmd = "none" /\ (At("switcher") \/ At("mainui"))) ~>
    \/ surface \in {"sprout", "switcher"}
    \/ stage = "off" \/ ~Contained \/ queue_failed

(* What the repository says and the runtime does not do. *)

\* The comment on the boot route (onion-runtime-sprout.sh lines 125-128): a
\* handoff is one-shot.
HandoffIsOneShot == runs <= 1

==============================================================================
