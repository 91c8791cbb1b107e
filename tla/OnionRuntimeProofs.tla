-------------------------- MODULE OnionRuntimeProofs --------------------------
(***************************************************************************)
(* Theorems about OnionRuntime: who may bring stock Onion to the screen,   *)
(* and what becomes of a game handed over to the runtime.                  *)
(***************************************************************************)
EXTENDS OnionRuntime, TLAPS

\* The sentence "a parent left for stock Onion" is on its way, as an exit
\* marker or as a stock session, only where a parent said it.
AuthorityTravels ==
  {"stock-session", "authorized-exit"} \cap tmp # {} => authority \/ stage = "off"

\* How many more runs the files promise the command handed over: one if the
\* loop is about to reach check_game, one if check_switcher will keep it.
Ahead ==
  (IF Idle /\ stage \in {"mainui", "menu", "game", "resume"} THEN 1 ELSE 0)
  + (IF handoff THEN 1 ELSE 0)

Bound == IF resumed THEN 2 ELSE 1

\* The files never promise more runs than are left.
RunsAreRationed ==
  /\ runs <= Bound
  /\ stage = "boot" => runs = 0
  /\ cmd = "handed" /\ stage \notin {"off", "boot"} => runs + Ahead <= Bound

\* What the router and the launcher rely on: a quick switch and the game
\* options concern commands of Onion's own programs, stock programs run while
\* there is no command, and a launcher in the middle of a handoff saw no marker.
FilesAgree ==
  /\ stage # "off" =>
       /\ "quick_switch" \in tmp => cmd # "handed" /\ surface # "sprout"
       /\ "launch_alt" \in tmp =>
            stage = "menu" /\ surface = "none" /\ cmd # "handed"
  /\ surface \in {"mainui", "advmenu"} => cmd = "none"
  /\ launcher \in {"removed", "renamed"} => ~handoff
  /\ launcher = "removed" => cmd # "handed"
  /\ launcher = "renamed" => runs = 0
  /\ surface = "game" /\ cmd = "handed" => runs > 0

\* A handoff that is owed either still has its marker or is on its way from
\* check_switcher, which used the marker up, to check_game.
HandoffsAwait ==
  owed /\ cmd = "handed" =>
    /\ surface # "game" /\ launcher \notin {"removed", "renamed"}
    /\ handoff \/ (Idle /\ stage \notin {"switcher", "startup"})

IInv ==
  /\ RuntimeTypeOK /\ AuthorityTravels /\ RunsAreRationed
  /\ FilesAgree /\ HandoffsAwait

LEMMA NoRuns == 0 \in 0..MaxRuns
BY DEF MaxRuns

LEMMA Beginning == Init => IInv
<1> SUFFICES ASSUME Init PROVE IInv
  OBVIOUS
<1>1. RuntimeTypeOK
  BY NoRuns DEF Init, RuntimeTypeOK, Commands, Games
<1>2. AuthorityTravels
  BY DEF Init, AuthorityTravels
<1>3. RunsAreRationed
  BY DEF Init, RunsAreRationed, Bound
<1>4. FilesAgree
  BY DEF Init, FilesAgree
<1>5. HandoffsAwait
  BY DEF Init, HandoffsAwait
<1> QED
  BY <1>1, <1>2, <1>3, <1>4, <1>5 DEF IInv

LEMMA Steps == IInv /\ [Next]_vars => IInv'
<1> SUFFICES ASSUME IInv, [Next]_vars PROVE IInv'
  OBVIOUS
<1> USE StartupAppsAssumption
    DEF IInv, RuntimeTypeOK, AuthorityTravels, RunsAreRationed, FilesAgree,
        HandoffsAwait, Ahead, Bound, Idle, Flags, Commands, Games, MaxRuns, card, history
<1>1. CASE UNCHANGED vars
  BY <1>1 DEF vars
<1>2. CASE BootContained
  <2>1. RuntimeTypeOK'
    BY <1>2 DEF BootContained, At
  <2>2. AuthorityTravels'
    BY <1>2 DEF BootContained, At
  <2>3. RunsAreRationed'
    BY <1>2 DEF BootContained, At
  <2>4. FilesAgree'
    BY <1>2 DEF BootContained, At
  <2>5. HandoffsAwait'
    BY <1>2 DEF BootContained, At
  <2> QED
    BY <2>1, <2>2, <2>3, <2>4, <2>5
<1>3. CASE BootStock
  <2>1. RuntimeTypeOK'
    BY <1>3 DEF BootStock, At
  <2>2. AuthorityTravels'
    BY <1>3 DEF BootStock, At
  <2>3. RunsAreRationed'
    BY <1>3 DEF BootStock, At
  <2>4. FilesAgree'
    BY <1>3 DEF BootStock, At
  <2>5. HandoffsAwait'
    BY <1>3 DEF BootStock, At
  <2> QED
    BY <2>1, <2>2, <2>3, <2>4, <2>5
<1>4. CASE StartupApp
  BY <1>4 DEF StartupApp, At
<1>5. CASE CommandPending
  BY <1>5 DEF CommandPending, At
<1>6. CASE QueueSprout
  BY <1>6 DEF QueueSprout, At, Advance
<1>7. CASE QueueFails
  BY <1>7 DEF QueueFails, At
<1>8. CASE OpenStock
  BY <1>8 DEF OpenStock, At
<1>9. CASE CheckGameMenu
  BY <1>9 DEF CheckGameMenu, At, Advance
<1>10. CASE NoGame
  BY <1>10 DEF NoGame, At, AfterGame
<1>11. CASE LaunchGame
  <2>1. owed' \in BOOLEAN /\ (owed' => cmd # "handed")
    BY <1>11 DEF LaunchGame
  <2>2. HandoffsAwait'
    BY <1>11, <2>1 DEF LaunchGame, At
  <2>3. RuntimeTypeOK'
    BY <1>11, <2>1 DEF LaunchGame, At
  <2>4. AuthorityTravels' /\ FilesAgree'
    BY <1>11 DEF LaunchGame, At
  <2>5. RunsAreRationed'
    BY <1>11 DEF LaunchGame, At
  <2> QED
    BY <2>2, <2>3, <2>4, <2>5
<1>12. CASE StartSprout
  <2>1. RuntimeTypeOK'
    BY <1>12 DEF StartSprout, At
  <2>2. AuthorityTravels'
    BY <1>12 DEF StartSprout, At
  <2>3. RunsAreRationed'
    BY <1>12 DEF StartSprout, At
  <2>4. FilesAgree'
    BY <1>12 DEF StartSprout, At
  <2>5. HandoffsAwait'
    BY <1>12 DEF StartSprout, At
  <2> QED
    BY <2>1, <2>2, <2>3, <2>4, <2>5
<1>13. CASE OpenSwitcher
  BY <1>13 DEF OpenSwitcher, At
<1>14. CASE CheckSwitcher
  <2>1. RuntimeTypeOK'
    BY <1>14 DEF CheckSwitcher, At, Advance
  <2>2. AuthorityTravels'
    BY <1>14 DEF CheckSwitcher, At, Advance
  <2>3. RunsAreRationed'
    BY <1>14 DEF CheckSwitcher, At, Advance
  <2>4. FilesAgree'
    BY <1>14 DEF CheckSwitcher, At, Advance
  <2>5. HandoffsAwait'
    BY <1>14 DEF CheckSwitcher, At, Advance
  <2> QED
    BY <2>1, <2>2, <2>3, <2>4, <2>5
<1>15. CASE MainUiEnds
  BY <1>15 DEF MainUiEnds, Advance
<1>16. CASE AdvMenuEnds
  BY <1>16 DEF AdvMenuEnds, Advance
<1>17. CASE MenuInGame
  <2>1. CASE run_switcher' = TRUE /\ UNCHANGED <<cmd, tmp>>
    BY <1>17, <2>1 DEF MenuInGame
  <2>2. CASE cmd' = "picked" /\ tmp' = tmp \cup {"quick_switch"}
             /\ UNCHANGED run_switcher
    BY <1>17, <2>2 DEF MenuInGame
  <2> QED
    BY <1>17, <2>1, <2>2 DEF MenuInGame
<1>18. CASE GameEnds
  BY <1>18 DEF GameEnds, Advance, AfterGame
<1>19. CASE SwitcherEnds
  BY <1>19 DEF SwitcherEnds, Advance
<1>20. CASE BeginHandoff
  <2>1. RuntimeTypeOK'
    BY <1>20 DEF BeginHandoff, LauncherAt
  <2>2. AuthorityTravels'
    BY <1>20 DEF BeginHandoff, LauncherAt
  <2>3. RunsAreRationed'
    BY <1>20 DEF BeginHandoff, LauncherAt
  <2>4. FilesAgree'
    BY <1>20 DEF BeginHandoff, LauncherAt
  <2>5. HandoffsAwait'
    BY <1>20 DEF BeginHandoff, LauncherAt
  <2> QED
    BY <2>1, <2>2, <2>3, <2>4, <2>5
<1>21. CASE ActivateCommand
  <2>0. /\ surface = "sprout" /\ UNCHANGED <<stage, surface>>
        /\ launcher' = "renamed" /\ cmd' = "handed"
        /\ runs' = 0 /\ resumed' = FALSE /\ owed' = FALSE /\ ~handoff
        /\ UNCHANGED <<handoff, run_switcher, maintenance, tmp, authority,
                       queue_failed>>
    BY <1>21 DEF ActivateCommand, LauncherAt
  <2>1. RuntimeTypeOK'
    BY <2>0, NoRuns
  <2>2. AuthorityTravels'
    BY <1>21 DEF ActivateCommand, LauncherAt
  <2>3. RunsAreRationed'
    BY <1>21 DEF ActivateCommand, LauncherAt
  <2>4. FilesAgree'
    <3>1. launcher' \notin {"removed"} /\ ~handoff'
      BY <2>0
    <3>2. "quick_switch" \notin tmp' \/ stage' = "off"
      BY <2>0
    <3>3. "launch_alt" \notin tmp' \/ stage' = "off"
      BY <2>0
    <3> QED
      BY <2>0, <3>1, <3>2, <3>3
  <2>5. HandoffsAwait'
    BY <2>0
  <2> QED
    BY <2>1, <2>2, <2>3, <2>4, <2>5
<1>22. CASE CommitHandoff
  BY <1>22 DEF CommitHandoff, LauncherAt
<1>23. CASE HandoffFails
  BY <1>23 DEF HandoffFails, LauncherAt
<1>24. CASE RequestSwitcher
  BY <1>24 DEF RequestSwitcher, LauncherAt
<1>25. CASE ParentExit
  BY <1>25 DEF ParentExit, LauncherAt
<1>26. CASE Sleep
  BY <1>26 DEF Sleep, LauncherAt
<1>27. CASE WrapperReturns
  BY <1>27 DEF WrapperReturns, Advance, AfterGame
<1>28. CASE WrapperRestarts
  BY <1>28 DEF WrapperRestarts
<1>29. CASE PowerOn
  <2>1. RuntimeTypeOK'
    BY <1>29, NoRuns DEF PowerOn
  <2>2. AuthorityTravels'
    BY <1>29 DEF PowerOn
  <2>3. RunsAreRationed'
    BY <1>29 DEF PowerOn
  <2>4. FilesAgree'
    BY <1>29 DEF PowerOn
  <2>5. HandoffsAwait'
    BY <1>29 DEF PowerOn
  <2> QED
    BY <2>1, <2>2, <2>3, <2>4, <2>5
<1>30. CASE PowerLoss
  BY <1>30 DEF PowerLoss
<1>31. CASE PowerButton
  BY <1>31 DEF PowerButton
<1>32. CASE Maintain
  BY <1>32 DEF Maintain
<1> QED
  BY <1>1, <1>2, <1>3, <1>4, <1>5, <1>6, <1>7, <1>8, <1>9, <1>10, <1>11,
     <1>12, <1>13, <1>14, <1>15, <1>16, <1>17, <1>18, <1>19, <1>20,
     <1>21, <1>22, <1>23, <1>24, <1>25, <1>26, <1>27, <1>28, <1>29,
     <1>30, <1>31, <1>32
     DEF Next, Route, Surfaces, Sprout, Power

LEMMA Invariance == Spec => []IInv
BY Beginning, Steps, PTL DEF Spec

\* In every behaviour the state of the router is well formed.
THEOREM RouterIsWellFormed == Spec => []RuntimeTypeOK
<1>1. IInv => RuntimeTypeOK
  BY DEF IInv
<1> QED
  BY Invariance, <1>1, PTL

\* A handoff is one run, or two when a boot took it up, whatever is pressed and
\* whatever dies (onion-runtime-sprout.sh, onion_runtime_handoff.cpp).
THEOREM HandoffsRunOnce == Spec => []HandoffRunsOnce
<1>1. IInv => HandoffRunsOnce
  BY DEF IInv, RunsAreRationed, Bound, HandoffRunsOnce
<1> QED
  BY Invariance, <1>1, PTL

\* Stock Onion comes to the screen only with authority (check_main_ui, the
\* wrapper's exit marker and its stock session).
THEOREM StockHasAuthority == Spec => StockNeedsAuthority
<1> DEFINE A == surface' \in {"mainui", "advmenu"} =>
                  \/ surface' = surface
                  \/ authority \/ maintenance \/ queue_failed'
<1>1. IInv /\ [Next]_vars => [A]_vars
  <2> SUFFICES ASSUME IInv, Next, surface' \in {"mainui", "advmenu"},
                      surface' # surface
               PROVE  authority \/ maintenance \/ queue_failed'
    OBVIOUS
  <2>1. QueueFails \/ OpenStock
    <3>1. ~Surfaces
      BY DEF Surfaces, MainUiEnds, AdvMenuEnds, MenuInGame, GameEnds,
             SwitcherEnds
    <3>2. ~Sprout
      BY DEF Sprout, BeginHandoff, ActivateCommand, CommitHandoff,
             HandoffFails, RequestSwitcher, ParentExit, Sleep, LauncherAt,
             WrapperReturns, WrapperRestarts
    <3>3. ~Power
      BY DEF Power, PowerOn, PowerLoss, PowerButton, Maintain
    <3>4. Route
      BY <3>1, <3>2, <3>3 DEF Next
    <3> QED
      BY <3>4 DEF Route, BootContained, BootStock, StartupApp, CommandPending,
                  QueueSprout, CheckGameMenu, NoGame, LaunchGame, StartSprout,
                  OpenSwitcher, CheckSwitcher
  <2>2. CASE QueueFails
    BY <2>2 DEF QueueFails
  <2>3. CASE OpenStock
    BY <2>3 DEF OpenStock, At, Contained, IInv, AuthorityTravels
  <2> QED
    BY <2>1, <2>2, <2>3
<1>2. Spec => [][A]_vars
  BY Invariance, <1>1, PTL DEF Spec
<1> QED
  BY <1>2 DEF StockNeedsAuthority

\* From its commit to its run a handoff is lost only to GameSwitcher, at
\* power-on, to stock Onion's boot, or to a contained boot after check_switcher
\* used its marker up (check_switcher, the boot route, check_game_menu and
\* OnionRuntimeHandoffProcess::run).
THEOREM HandoffsAreDelivered == Spec => HandoffIsDelivered
<1> DEFINE Waiting == owed /\ cmd = "handed"
           Excused == \/ cmd' = "handed"
                      \/ surface = "switcher"
                      \/ stage \in {"off", "startup"}
                      \/ stage = "boot" /\ (~Contained \/ ~handoff)
<1>1. IInv /\ [Next]_vars => [Waiting => Excused]_vars
  <2> SUFFICES ASSUME IInv, Next, Waiting PROVE Excused
    OBVIOUS
  <2> USE DEF IInv, RuntimeTypeOK, FilesAgree, HandoffsAwait, Idle
  <2>1. CASE Route
    BY <2>1 DEF Route, At, card, BootContained, BootStock, StartupApp,
                CommandPending, QueueSprout, QueueFails, OpenStock,
                CheckGameMenu, NoGame, LaunchGame, StartSprout, OpenSwitcher,
                CheckSwitcher
  <2>2. CASE Surfaces
    <3>1. surface \notin {"mainui", "advmenu", "game"}
      BY DEF Waiting
    <3> QED
      BY <2>2, <3>1 DEF Surfaces, MainUiEnds, AdvMenuEnds, MenuInGame, GameEnds,
                        SwitcherEnds
  <2>3. CASE Sprout
    <3>1. CASE BeginHandoff
      BY <3>1 DEF BeginHandoff, LauncherAt
    <3>2. CASE HandoffFails
      BY <3>2 DEF HandoffFails, LauncherAt
    <3> QED
      BY <2>3, <3>1, <3>2
         DEF Sprout, LauncherAt, card, ActivateCommand, CommitHandoff,
             RequestSwitcher, ParentExit, Sleep, WrapperReturns,
             WrapperRestarts
  <2>4. CASE Power
    BY <2>4 DEF Power, card, PowerOn, PowerLoss, PowerButton, Maintain
  <2> QED
    BY <2>1, <2>2, <2>3, <2>4 DEF Next
<1>2. Spec => [][Waiting => Excused]_vars
  BY Invariance, <1>1, PTL DEF Spec
<1> QED
  BY <1>2 DEF HandoffIsDelivered

==============================================================================
