# Sprout OS in TLA+

Sprout OS is a launcher for children on a Miyoo handheld that runs Onion. This
directory holds TLA+ models of its own logic, the TLC configurations that
check them on small instances, and TLAPS proofs of what matters most for every
value of the constants. Every definition is translated from the source; the
source line behind each is in the `map` of `PROJECT.json`. Paths below are
relative to the repository.

Contents: 1 the system; 2 the modules and how they stand for the code; 3 the
runs; 4 disagreements between the repository and the code; 5 fairness; 6 what
is proved; 7 what is only model-checked; 8 abstractions and what is not
modelled; 9 the plan.

## 1. The system

One launcher process runs at a time. A shell wrapper starts it again whenever
it ends, and Onion's runtime, a shell loop that the project patches, decides
which program owns the screen. The launcher is single-threaded: an input, or a
turn of the frame loop, runs to its end. What is concurrent is everything
around it: several processes may meet on one database or one lock, the battery
may end anything between two writes, the clock may be set at any time, and
several files and databases, each committed by itself, must agree.

| Part | State it keeps | Operations | Talks to |
| --- | --- | --- | --- |
| Daily time policy (`daily_time_policy.cpp`) | SQLite: allowance per child, usage and warning mask per child and date, last accepted clock per child, one active session | set/remove allowance, status, begin, checkpoint, pause, end, recover | launcher (launches), archive (export, restore), clocks |
| Startup health (`startup_health.cpp`) | SQLite, one row: failures in a row, active attempt, next attempt | begin_startup, mark_ready | launcher start, recovery menu |
| Local configuration (`local_configuration.cpp`) | `sprout.json`, its last known good copy, the recovery folder | load, save (copy, then replace), restore, quarantine | startup, wizard, settings, PIN workflow |
| Launcher startup, recovery menu (`main.cpp`, `recovery_presentation.cpp`) | phase of the start, view and focus of the menu | start, recover, restore, reset, retry | the three stores above, wrapper |
| First-run setup (`setup_wizard.cpp`, `setup_presentation.cpp`) | its own copy of the configuration, the current page | advance and save each step, create the first parent | configuration, profiles, credential |
| Household seed (`household_seed.cpp`, `main.cpp`) | none of its own | create profiles, save the configuration | profiles, configuration, library |
| Parent access (`parent_access_store.cpp`, `parent_access_controller.cpp`, `main.cpp`) | SQLite: PIN hash, one grant; in memory: prompts, workflow, stacked screens; two marker files | verify, unlock, re-authenticate, exit, set PIN, lock | launcher state, configuration (the reference), wrapper (exit marker) |
| Profiles and launcher state (`profile_repository.cpp`, `launcher_state.cpp`) | SQLite: profiles, preferences, portrait; in memory: active and focused profile | create, archive, select, deselect | everything |
| Game library (`game_library_repository.cpp`, `game_library_integration.cpp`) | SQLite: inventory, curation, assignments, play sessions | scan, reconcile, curate, assign, begin/finish play, recover | launches, dashboard, seed |
| Game dashboard (`game_dashboard_model.cpp`, `game_dashboard_presentation.cpp`) | in memory: tab, filter, order, focus | navigate, choose | library, parent access |
| Native launch (`main.cpp`, `native_launch_adapter.cpp`, `launch_process.cpp`) | steps of a launch | launch, wait, settle | time policy, library, game process |
| Onion runtime, wrapper, handoff (`src/tools/templates/*.sh`, `onion_runtime_handoff.cpp`) | command file, markers on the card and in `/tmp`, the wrapper's lock | boot, route, supervise, hand off, exit | launcher exit statuses, Onion |
| Onion launch validation (`onion_launch_adapter.cpp`) | none | check one request against the card | library entries, handoff |
| Profile archive (`profile_archive.cpp`) | files of one backup | export, restore with compensation | profiles, images, time policy |
| Profile images (`profile_image_importer.cpp`) | a directory per generation | import, replace, remove the old one | profiles |
| Native game runtime (`src/runtime`) | title and its reset hold, tick and backlog, events, sounds, storage file, command buffer | load, title, update, render, draw, store, stop | launched game process, storage file, event log |
| Native and PICO-8 games (`src/games`, `src/pico8`) | boards | rules | their runtime |
| Rendering and input | frames | draw, map keys | all screens |
| Packaging and asset tools (`src/tools`) | build output | build, deploy | none at run time |

What is hard in each, and what makes it correct:

* **Time policy.** A crash between two checkpoints, a clock set back, a zone
  change, midnight inside a session, an allowance lowered during play. Correct
  means: play is charged up to the allowance and never more than was played
  plus one recovery bound; no earlier day is opened again; a notice comes once.
* **Startup health.** Launchers that overlap. Correct means: the count is
  exactly the number of attempts left unfinished, and a late acknowledgement of
  an old attempt does not clear a newer failure.
* **Configuration, startup, wizard, recovery.** Death between the two writes of
  a save, failed writes, corrupted files, a launcher that keeps dying before it
  can show anything. Correct means: damage to one file does not reach the
  other, nothing is discarded without a copy or a choice, a stale copy is never
  written over a newer file, and the device always gets back to a screen
  somebody can use.
* **Parent access.** Screens stacked by several callers while the grant they
  rest on expires, is withdrawn or is replaced; a clock moved both ways; a PIN
  kept in two stores. Correct means: a parent's authority is used only on a
  grant that holds at that moment, leaving takes the PIN or such a grant, and a
  grant never outlives its PIN.
* **Launching a child's game.** Several commits in two databases around a child
  process, any of which may throw or be the last before a death. Correct means:
  a child's game runs only under its own session, is charged when it comes
  back, and leaves no activity row open.
* **Runtime and handoff.** A protocol of files between three programs, one of
  which is a shell script that boots with whatever the last loss of power left.
  Correct means: stock Onion needs authority, a handed game runs and runs once,
  and an idle router opens Sprout.
* **Wrapper's lock.** A directory, a pid written into it later, a release in two
  steps and the reclaiming of a dead owner's lock, by wrappers that may be killed
  at any command. Correct means: one launcher is supervised at a time.
* **Library and dashboard.** The whole inventory is marked unavailable and listed
  again at every start, the seed is imported in many transactions, the dashboard
  works on a copy, and the card may change between the scan and the launch.
  Correct means: a child starts only what it was given, as it is on the card now,
  what is shown is what is stored, and no scan or seed undoes a parent's decision.
* **Profiles, portraits, archives.** Files and two databases that are written one
  after the other by an import, an export or a restore that may fail or be cut
  short anywhere. Correct means: what a profile names is there and whole, a
  restore that fails leaves nothing, and what is cut short does not block for good.
* **Native game runtime.** A script that may do anything in every call, a frame
  loop that stalls, a title whose buttons also belong to the launcher, storage
  acknowledged before the process dies. Correct means: ticks keep time, events
  tell the session, acknowledged values survive, progress is reset only on
  purpose, and a frame is drawn whole, in order and from dense enough pictures.

## 2. The modules

```
ScreenTimeBudget   (abstract)
      ^ implemented by
DailyTimePolicy  <-- ChildPlay               time accounting, then launches

StartupHealth <-- SupervisorLock             startup evidence, wrappers at the lock
      ^
SafeBoot --> ConfigurationStore              the start, wizard and recovery menu

ParentAccessStore <-- ParentAccess           grant and PIN, then the screens

OnionRuntime                                 who owns the screen

GameCatalogue <-- GameLibrary <-- GameDashboard
                                             the card, the database, the dashboard

ProfileStore <-- ProfileImages <-- ProfileArchive <-- ProfileTransfer
                                             rows and files, import, archive, screens

GamePackage <-- GameSurface                  what a game is made of and draws
GameSession                                  the process that runs it
```

An arrow is EXTENDS, so the steps of a composed module are conjunctions with the
component's own actions. A module `XProofs` holds the theorems about `X` and the
modules it extends: `StartupProofs` those about StartupHealth, SupervisorLock and
SafeBoot, `ChildPlayProofs` those about DailyTimePolicy and ChildPlay,
`GameSurfaceProofs` those about GamePackage and GameSurface. The `MC*` modules
only give constants their values. An operator headed "Mutant" is
a plausible slip in the definition after it; it is used by no specification, and
each property of the runs is refuted by one of them.

**ScreenTimeBudget** is what a parent was promised: a budget per child and day,
`StartPlay` with something left and never on a past day, `Spend` up to the
budget, one player at a time. It has no clocks, checkpoints or tables.

**DailyTimePolicy** is the store. Each public operation is one transaction and
one action: `SetDailyAllowance`, `RemoveUnusedDailyAllowance`, `Status`,
`BeginSession`/`BeginRefused`, `UpdateActiveSession(keep)` for
checkpoint (keep), pause and end, and `RecoverInterruptedSession`. A table is a
function of its key, a missing row has the value the code reads in its place.
`ObserveClock`, `Charge`, `Crossed` and `RecoveryCharge` are the private helpers
of the same names. Around the store stand the clocks (`Tick`, `SetClock`,
`Reboot`) and a caller who charges at least every `CheckpointEvery` and may
`Crash`. `play`, `announced` and `latest` are history.

**ChildPlay** extends it with the launcher's `launch_library_target`: give a
child without a policy the default, begin the session, start the process, wait,
write the activity row, finish it, pause the session. Each commit is a step, so
`Die` may come between any two, and each call that may throw has an action in
which it does. Nothing charges a running game here, as in the code. A game does
not die with its launcher: it joins `orphans`, beside which the wrapper starts the
next launcher, until it ends by itself (`OrphanEnds`) or the device boots.

**StartupHealth** is the row and its two transactions, by any number of
launchers. **SupervisorLock** composes them with the wrappers: one action per
command of the script (`Arrive`, `ReadOwner`, `Probe`, `Unlink`, `Reclaim`,
`Claim`, ... `Release`, `Unlock`), each by any wrapper, any of which may be killed
at any of them (`Kill`) while its launcher goes on. **ConfigurationStore** is the
active file, its snapshot and the recovery folder; `BeginSave` and `FinishSave`
are the two atomic writes of one save, `StopWriting` what a failure leaves.
**SafeBoot** composes both stores with `main` up to the first frame: `Decide` is
`begin_startup` and the threshold, `Open` and the `Seed*` actions are
`initialize_persistent_launcher`, `RenderFrame` acknowledges, `AdvanceSetup`...
are the wizard, `MoveFocus`...`FinishReset` the recovery menu. `Die`,
`WriteFails` and the corruption of each file share the budget `MaxFaults`.

**ParentAccessStore** is the PIN's hash and the grant, where a hash is the PIN
it verifies and an authenticator is whether the record is intact. `IsUnlocked`
also writes, as in the code (`CheckGrant`). **ParentAccess** is the rest of a
running launcher as the PIN sees it. One action is one input with every call it
makes: who gets the input follows `main.cpp`'s order (workflow, picker,
dashboard, archive, controller). `Start` and `Stop` are restarts, `SetClock`
moves the wall clock both ways, `DamageGrant` is a record that no longer
authenticates. `event` is history: what the last step was allowed to do.

**OnionRuntime** is the patched runtime's loop (`stage`, `surface`), the
wrapper and the launcher's part of the contract (`launcher`), with the files of
the card (`cmd`, `handoff`, `run_switcher`, `maintenance`), which survive a
loss of power, and the flags of `/tmp` (`tmp`), which do not. `BeginHandoff`,
`ActivateCommand`, `CommitHandoff` are the three writes of
`OnionRuntimeHandoffProcess::run`, any of which may be the last.

**GameCatalogue** is the card: which files and packages the scanners list, under
which identity (`Identity`, with the two catalogues), which packages do not load
or are copies (`Loaded`, `Duplicated`), and what the adapters check again when a
game is launched (`RomIsPlayable`, `PackageIsPlayable`). **GameLibrary** is the
database and the start that fills it: `Scan` reconciles the inventory,
`ImportSeedItem`, `ImportCutShort*` and `WriteSeededState` are the transactions
of `import_household_seed`. **GameDashboard** is a profile's dashboard on its
snapshot (`records`): filters, rows and the queue of recommendations as
operators (`Filtered`, `Before`, `SpreadOut`, `NextUp`), the stages, the parent's
decisions (`Review`, `PressFamily`, `PressBigMode`), the launch of a native
game (`PlayNative`) or an Onion game (`HandOver`, with the marker that leads back
to the dashboard), `CardChanges` and `Die`.

**ProfileStore** is what is kept of profiles: rows with revisions, allowances,
directories of portraits. **ProfileImages** is the import: orientation, crop
rectangle and the writes of a new generation with what is undone when one
fails. **ProfileArchive** is the export in two steps and the restore of portrait,
allowance and profile with its compensation. **ProfileTransfer** is the
selector, the settings, the picker, the crop screen and backup and restore
around them; `task` is the operation in progress, and `Stop` may cut it short at
every write. An archive opened from a dashboard waits `behind` it until the
profile is left.

**GameSession** is the loop of one game's process: `Start`, the title frames
with the hold of B (`Hold`), `FrameBegins`, `Step` (one tick), `Backlog`,
`FrameEnds`, `Stop` and `Die`, and in every call of the script any of its
effects: events, sounds, values stored or not (`StorageSet`, `StorageSetFails`),
an error. The file survives sessions; `card` is what a loss of power would leave
of it before the kernel's `Writeback`, and a session may begin without seeing it
(`blind`). **GamePackage** is the validation of a package and its assets, as
predicates. **GameSurface** is a script that makes any drawing calls, catching
errors or dying of them, in updates and frames (`Call`, `Update`, `Render`), and
the submission of the command buffer in batches (`DrawFrame`).

## 3. The runs

Deadlock is checked in `parent_access`, `onion_runtime`, `dashboard` and
`profile_transfer`. In the other models the bounded clocks, attempts, exits or
sessions run out, and a stopped behaviour there is the bound and not the
program. Type invariants are proved (section 6) and not run.

### Runs that pass

| Run | Instance | Shows | States |
| --- | --- | --- | --- |
| `time_policy` | 1 child, allowances {1,3}, warnings {1,2}, recovery cap 2, wall clock 0..4, monotonic 0..3, days of 4 ticks, zones {0,1} | `WarnedAtMostOnce`, `DaysAreNotReplayed`, `PlayIsAccountedFor`, `NeverOvercharged`, `ImplementsBudget` | 274,844 |
| `supervisor` | 3 wrappers with a launcher each, threshold 2, 5 attempts | `EvidenceIsExact`, `OneSupervisorUntilReclaimed`, `OnlyTheNewestClears` | 306,091 |
| `safe_boot` | 1 launcher, threshold 3, 4 faults, 1 exit, 2 seed profiles, wizard of 2 steps, 5 revisions | `RecoveryAfterThreshold`, `WizardIsNeverStale`, `DamageDoesNotSpread`, `AlwaysUsableAgain` | 173,225 |
| `parent_access` | a parent and a child, 2 PINs (symmetric), wall clock 0..5, three dates of two instants | `ParentActsOnlyWithGrant`, `ExitIsAuthorized`, `GrantsOnlyAge` | 7,122 |
| `child_play` | 1 child and a parent, allowance 2, wall clock 0..2, monotonic 0..1, days of 2 ticks | `ChildrenAreMetered`, `ActivityIsSettled`, `OneChildPlays`, `CutOffSessionBlocksPlay`, `ReturnIsCharged` | 1,475,280 |
| `onion_runtime` | every startup application | `HandoffRunsOnce`, `StockNeedsAuthority`, `HandoffIsDelivered`, `IdleRouterOpensSprout` | 13,820 |
| `dashboard` | a parent and a child, 2 native games, a Game Boy game and a PICO-8 cartridge, two states of the card, a seed of 3 items, queue of 3, 2 presses that change something | `ChildrenStartOnlyTheirs`, `NothingShownIsStale`, `SeedAssignmentsLand`, `ParentDecisionsStand` | 950,956 |
| `game_session` | 2 keys, 1 loadable entry, 1 sound, ticks of 2, 2 ticks in a frame, a hold of 2, 2 sessions of time 8 with 2 events of the game | `EventsTellTheSession`, `TicksKeepTime`, `StorageSurvives`, `ResetIsDeliberate` | 1,100,516 |
| `game_surface` | 3 packages (one invalid), 4-bit ints, a surface of 4x3, a map of 4 tiles with a skipped or an unknown one at scale 2/3, 4 commands | `NothingOutside`, `TilesFillTheirMap`, `FramesAreFaithful` | 119,698 |
| `profile_transfer` | a parent, a child and 5 archives of a guest, 2 staged pictures, 3 changes of the parent's row and 2 of the others', 1 export, 1 cut | `ProfilesAreComplete`, `OneChangeUnblocks`, `ExportsCanBeRepeated`, `CropReadsThePicture`, `FailedRestoreChangesNothing` | 999,717 |

Each property says in the comment above it, in its module, what it means and
which code it is about.

Why the bounds are enough:

* *time_policy.* Two dates and two zones give midnight inside a session, a zone
  that moves the date back and a clock set behind the last accepted instant.
  Allowance 1 is used up by one checkpoint and 3 is not; with the cap 2 a gap
  may be below, at and above it; both thresholds can be crossed in one charge or
  in two, or skipped when the allowance is lowered. One child is enough for the
  interleavings: the tables are keyed by child, only `active_session` is shared
  and it has one row. The proofs are for any number of children.
* *supervisor.* Three wrappers are a dead owner and two that find it dead, or an
  old, a superseded and a new launcher. A wrapper's pid is used once, so three is
  also the number of times the lock may change hands. Five attempts pass the
  threshold of two with every interleaving. The counter's own saturation is in
  `Failures`, and its exactness for every bound is proved.
* *safe_boot.* Four faults are one more than the threshold, so that recovery
  itself may be hit: three failed starts and then a death or a failed write in
  the menu, or a damaged file and three deaths. Two seed profiles have a state
  between them. Two wizard steps have a save that is refused after one that
  succeeded. Five revisions are the three saves of a first run and two changes of
  a setting after it; further changes only repeat the second. `MaxAttempt` is
  never reached.
* *parent_access.* Two PINs tell a change from none. Three dates of two
  instants move the clock forward within a date and across midnight, back to an
  earlier instant of a grant's own date and to another one, and leave a third.
  A parent and a child are both roles; who else exists is never looked at.
* *child_play.* Two wall-clock ticks play through an allowance of 2 and pass a
  midnight; a monotonic clock of two values repeats the key of an activity row
  across boots. Launchers may die under any number of games, the child's and the
  parent's, which then play on beside the next one. The proofs and the run of
  the store itself cover longer times.
* *onion_runtime.* The state is finite as it is. `MaxRuns` caps a history
  counter that the invariant keeps at two.
* *dashboard.* Four games are one of every way a game is found: a package for the
  family, one for parents, a ROM named by its path and one named by a catalogue.
  On the second card the packages have changed places, a copy loads that did
  not, and a cartridge and a launcher are gone, so that every answer of the
  adapters is given. The seed has an item for each kind and role and two for the
  child, with deaths between them. `MaxPresses` counts presses that write a store
  or change a filter in one session: two are a change and another that undoes
  or crosses it. A queue of three is shorter than the games it chooses from.
* *game_session.* A frame may last six ticks, which owes more than the two a
  frame catches up; a hold of 2 can be met, missed and passed. Two events are one
  that is told in a frame and one that waits for the next. Two sessions are a
  session and what it left. One loadable entry and two keys give a file that is
  saved and refused at the next start, and a set of one key that fails before
  one of the other succeeds.
* *game_surface.* Four-bit ints overflow within the coordinates a script may
  give. Two atlases, one with two mips of which one is wider than its exact size,
  have a sprite for which each density is the closest; four commands have a
  batch, a break and a batch. The third package reaches past its atlas and is
  refused. A map of four cells has a row, a column, an inner corner and its
  borders; at a scale of 2/3 from an origin of 1/3 its edges are rounded up and
  down, and tiles of one map differ in size. Other scales and origins are left to
  the theorem `MapsAreTiled`.
* *profile_transfer.* The rows may change often enough for an import, its
  replacement and one more change after an import cut short; the archives are
  one of every kind the code tells apart (with a portrait, without, with a
  namespace in use, without an allowance, with a wrong sum). One cut between any
  two writes, then everything again. The picture is 4x3 and turned by its tag, so
  that width, height and turning are all told apart and the second zoom takes a
  smaller square than the first; the other one does not decode. One step of the
  centre leads from border to border, where the clamping matters: what lies
  between is left to the theorem `CropsReadThePicture`, for every picture, zoom
  and number of steps.

## 4. Disagreements between the repository and the code

Two are runs that TLC refutes; their quotations are in `PROJECT.json`.

| Run | The repository says | The code does |
| --- | --- | --- |
| `pin_forgotten` | The reference is saved so that the PIN survives a restart (`main.cpp` 1600) | The hash is committed first; a death before the reference leaves a device with no PIN in force |
| `marker_stays` | On restart, recovery charges the gap and clears the marker (`docs/specs/daily-time-policy.md` 23) | Nothing calls `recover_interrupted_session`: the session stays and every later launch for a child throws |

The others are stated in the modules, each as a definition with its quotation,
and are refuted by TLC when added to the passing run of their module. They are
left out of the runs, which state what does hold beside them.

| Definition | The repository says | The code does |
| --- | --- | --- |
| SafeBoot `UnfinishedStartsOpenRecovery` | After three consecutive unfinished starts the launcher opens recovery before its stores (`launcher-recovery.md` 5) | The seed and the library scan run before `begin_startup` (`main.cpp` 1293-1325): a start that ends there is not counted, and after three of them the next one opens the stores. A seed file that cannot be loaded restarts the launcher for ever; `AlwaysUsableAgain` is qualified by a seed that loads |
| ParentAccess `ChordNeedsGrant` | Only a parent with a current grant exits directly (`containment-and-onion-lifecycle.md` 34) | Holding Start and Select looks at the active profile's role alone (`main.cpp` 2157-2167) |
| DailyTimePolicy `RejectionKeepsMarker` | A backward clock leaves the marker intact (`daily-time-policy.md` 23) | Recovery charges the whole allowance and deletes the row (`daily_time_policy.cpp` 582) |
| OnionRuntime `HandoffIsOneShot` | "A one-shot, validated Sprout handoff" (`onion-runtime-sprout.sh` 125) | A boot that finds the marker runs the game, and then `check_switcher` keeps the same command for the loop, which runs it again (lines 126-130). `HandoffRunsOnce` allows twice only after such a boot |
| SupervisorLock `OneSupervisor` | "A second supervisor must never reach SDL" (`onion-sprout-launch.sh` 11) | Of two wrappers that find the same owner dead, the slower one removes the lock the faster one has just taken. `OneSupervisorUntilReclaimed` says that nothing else admits two |
| GameDashboard `SeedCurationLands` | The seed's curated games are recommended and for kids (`game-discovery-and-review.md` 94-97) | Their flags are written one by one and the household state after all of them: a death in between never writes it. `SeedAssignmentsLand` is what remains |
| GameSession `TitleInputIsConsumedOnce` | `title_update` receives the input not consumed by the title itself (`runtime-package-v1.md` 57) | It is called first, with every edge |
| GameSurface `BoxesAreInBounds` | A rectangle is in bounds (`runtime-package-v1.md` 81) | Its right edge is a sum of two ints that may overflow; `NothingOutside` is about sums that do not |
| GameSurface `SamplesStayInside` | Source rectangles are adjusted to the selected mip (`runtime-assets-v1.md` 91-93) | Position and size are rounded apart from the mip's own size, so that a sprite at the edge of its atlas may read a pixel past the mip |
| ProfileTransfer `RestoreCanBeRepeated` | Orphan recovery is deferred (`profile-archive.md`: known and stated) | A restore cut short after its portrait or its allowance leaves rows and files that make the same restore refused |

More is visible in the models. The models allow it, and the properties are
worded around it:

* `main.cpp` 1230: the seed is applied one profile at a time and only while
  there are none, so a death after the first leaves the others out
  (`SeedProfile` and `Die` in SafeBoot).
* `launch_process.cpp` 97-119: a game whose launcher dies plays on beside the next
  launcher, with nothing to end it or to charge it. Its session stays on record,
  so no child's game starts beside it (`OneChildPlays`), but a parent's may.
* `onion-runtime-sprout.sh` 221: `queue_sprout || launch_main_ui` opens stock
  MainUI on a contained device whose card cannot be written
  (`queue_failed` in `StockNeedsAuthority`).
* `main.cpp` 1782 and 1752: BACKUP under a dashboard opens the archive, which
  outlives the dashboard and then works at profile selection (`ArchiveUse` with
  `active = NoProfile`); a restore in it rebuilds the state, and leaving it does
  not lock (`ArchiveClose`).
* `main.cpp` 1636-1645: an import or another portrait under a dashboard does not
  rebuild the LauncherState, and the selector shows the old portrait until
  something else does (`SelectorIsCurrent` in ProfileTransfer). A restore always
  rebuilds it, as `profile-archive.md` says: the archive takes presses only after
  the dashboard (1738-1912, 1913), so when it is used there is none.
* `onion-runtime-sprout.sh` 563-571 and 129-136: `check_switcher` uses the marker of
  a handoff up before `check_game` runs the command. If the session ends in
  between, by a loss of power or by `check_off_order` itself, the next contained
  boot finds a command without a marker and drops it. `HandoffIsDelivered` admits
  this loss and no other of a contained boot.
* `main.cpp` 1519: the return from an Onion game shows a parent's dashboard
  although every grant was removed at startup; the first input closes it
  (`Start` and `DashboardTurnsAway`). `parent-access.md` says grants survive a
  restart; `main.cpp` 1271 locks at every start.
* A wrapper killed between its `mkdir` and its pid leaves a lock that nobody
  reclaims: Sprout is refused until `/tmp` is empty again (SupervisorLock).
* Two ROMs may be given one identity by a catalogue. Only packages are looked at
  for copies; the library keeps one row and the launch takes the first entry it
  finds (`Identity`, `Asked`). A package's audience is not read again when it is
  launched, only its identity, which is all `library-item-model.md` 56 claims.
* Y is said to clear the filters (`game-discovery-and-review.md` 34); on the
  dashboard it moves the focus to Settings (`game_dashboard_presentation.cpp` 501).
* Choosing a built-in portrait leaves the directory of the managed one behind
  (`AssignAvatar`); a restored profile brings its own `last_accessed`, so that
  two profiles may be marked; entering by the combination of a PIN never marks
  it (`main.cpp` 2181-2198); a staged picture that cannot be decoded throws in
  the launcher's loop and ends it (`main.cpp` 1661, `OpenCropFails`); a `.pending`
  file left by an export cut short blocks the later exports of that profile, which
  `ExportsCanBeRepeated` counts.
* A game may store more than 64 KiB, which the next start refuses: the game then
  does not start any more (`LaunchRefused`). A session whose file cannot be
  looked at begins with an empty map and writes it over everything stored before
  (`session.cpp` 773-776, `LoadStorage`); a power cut soon after a `storage_set`
  may undo it or leave a file that is refused (`PowerLoss`). Sounds asked for on
  the title are never handed to the mixer and count against the limit; a request
  to quit on the title starts the game (GameSession).
* In contained-device mode "unsolicited SDL quit events are ignored"
  (`containment-and-onion-lifecycle.md` 37); `main.cpp` 2041-2048 takes one for
  the power button and saves for sleep. The frame drawn then also marks the
  start as ready (2285-2308).
* Nothing in the launcher calls `archive_profile` or `restore_profile` of the
  repository.

## 5. Fairness

* SafeBoot: `WF_vars(Startup)` and `WF_vars(FinishReset)`. The wrapper's loop
  starts the launcher again without end, and a start or the reset's own save
  runs to completion by itself. People, media and deaths have no fairness, and
  faults are bounded by `MaxFaults`: a device that fails for ever promises
  nothing.
* OnionRuntime: `WF_vars(Route)`. The runtime is a shell loop that makes its
  next check by itself. Programs on the screen, the battery and people have no
  fairness.
* The other specifications state safety only: their steps are a person's, a
  script's or a failure's, none of which the code makes happen.

## 6. What is proved

All proofs are checked by TLAPS for every value of the constants that meets the
named assumptions of the modules; TLC evaluates each assumption in the runs of
its module. They say what the code's types, its readers and its tables
guarantee: that limits are numbers (`PolicyAssumption`, `HealthAssumption`,
`ConfigurationAssumption`, `BootAssumption`, `SessionAssumption`,
`PackageAssumption`, `CropAssumption`), that ids and marks are apart
(`PlayAssumption`, `PidAssumption`, `AccessAssumption`, `NoneAssumption`,
`ProfilesAssumption`, `StartupAppsAssumption`, `StoreAssumption`,
`ArchiveAssumption`), and what the scanners, the seed and the manifest's readers
may hand over before anything is checked (`CatalogueAssumption`,
`LibraryAssumption`, `SurfaceAssumption`). Every property of every passing run is
a theorem, but for the two liveness properties.

Sums over frames, folds over commands and flattened sequences are defined by
recursion. What they are is proved from one lemma, `Least`: a formula that fails
for some number fails for a least one. `Recursion` and `Folding` derive from it
that the recursive functions exist, so that each CHOOSE of the library's
operators has the value its equation says.

* **ChildPlayProofs**, for DailyTimePolicy: `TypeCorrect`,
  `TablesStayConsistent`, `NoDayIsReplayed`, `NoticesAreRaisedOnce`,
  `PlayIsCharged`, `ChargesAreBounded`, `StoreImplementsBudget`, the refinement
  of ScreenTimeBudget, for any children, allowances, warnings, calendars and
  bounds. The invariant is `Inv = TypeOK /\ TablesConsistent /\ HistoryRecorded
  /\ MaskIsHistory /\ OwedIsWitnessed`. `TablesConsistent` alone is not
  inductive: that a policy may be removed without opening an old day needs
  `HistoryRecorded` (whoever has begun a session has left a row that forbids the
  removal). That a notice comes once needs `MaskIsHistory`: the mask on disk is
  exactly what was raised. That play is charged needs `OwedIsWitnessed`: what
  has been played and not charged is at most one checkpoint interval and both
  clocks can tell it. For ChildPlay: `LaunchesAreTyped`, `ChildrenPlayMetered`,
  `ActivitySettles`, `OneChildAtATime`, `CutOffSessionsBlock`,
  `ReturnsAreCharged`. The invariant `PlayInv = PlayTypeOK /\ Metered /\ Settled
  /\ OneChildPlays` says that a child's game runs under one session, that of its
  launch, with the day's use and the clock keeping up with it (`Metered`), and
  that an activity row is open only while its launch is being recorded or in the
  library of a launcher that is down (`Settled`); the two action properties
  follow from it and from the charge `UpdateActiveSession` makes.
* **StartupProofs**, for StartupHealth: `HealthTypeCorrect`, `CountIsTheEvidence`,
  `AttemptsStayDistinct`, `EvidenceIsClearedByTheNewest`; the last one rests on
  `ActiveIsNewest` (the active attempt is the newest one begun).
  For SupervisorLock: `LockExcludes` from `LInv = LockTypeOK /\ Exclusion`:
  as long as no lock was reclaimed, nobody has come to the reclaiming `rmdir`,
  a wrapper past its `mkdir` is the only one and the directory is there, and the
  owner that leaves has taken its pid away. `SupervisedLaunchersUseTheStore` is the
  refinement of StartupHealth (every step of a wrapper is a step of the store or
  leaves it alone), which carries its theorems over to overlapping launchers
  (`SupervisedEvidence`).
  For SafeBoot: `StartupUsesTheStore` (the same refinement for SafeBoot,
  from `AttemptIsBegun`), `RecoveryOpensAtThreshold` (inductive together
  with the exact count: `repaired` is set by this launcher's own restore or reset
  and forgotten when it ends, so that every launcher past the threshold is held),
  `WizardNeverStale` and `DamageStays` (from `FilesInv`: the files' types, and that
  the wizard's copy has the revision of the active file through saves begun and
  failed, up to the last step), `LauncherIsWellFormed`.
* **ParentAccessProofs**: `ScreensAreDisciplined`, `GrantsAreOfTheCurrentPin`,
  `AuthorityIsGranted`, `ExitsAreAuthorized` and `GrantsAgeOnly`. The invariant
  is `TypeOK /\ ScreensHaveAProfile`; the lemma `StepsOnGrant` says of every
  action at once that it either shows the PIN, or leaves, observes or removes
  the grant, and uses authority only on a grant it has just observed.
* **OnionRuntimeProofs**: `RouterIsWellFormed`, `HandoffsRunOnce`,
  `StockHasAuthority`, `HandoffsAreDelivered`. The invariant adds to the types
  `AuthorityTravels` (an exit marker or a stock session exists only in a boot in
  which a parent left), `RunsAreRationed` (the runs so far and those the stage
  and the marker still promise stay within the bound), `FilesAgree` (which
  files and flags may exist at each point of the router and the launcher) and
  `HandoffsAwait` (a handoff that is owed has its marker or is on its way from
  `check_switcher` to `check_game`).
* **GameSessionProofs**: `GameKeepsTime` (`TimeInv`: before the first frame no
  time has passed in the game), `StorageIsKept`, `ResetsAreMeant` (`HoldInv`: the
  machine's timer is never ahead of the hold it measures, and it is armed exactly
  when B has been up), `EventsAreTold` (`EventInv`: what was printed and what
  waits are, together, the session's start, as many events as were emitted, and
  its exit at the end).
* **GameDashboardProofs**: `LibraryIsWellFormed`, `ShownIsCurrent`, `SeedLands`,
  `DecisionsStand`, `ChildrenStartTheirs`, for any card, catalogue, seed and
  profiles. The invariant is `LibraryTypeOK /\ ScreenInv /\ ScanInv /\ ShownInv /\
  ImportInv /\ DecisionInv`. That what is shown is stored (`NothingShownIsStale`)
  is inductive only with what is open on the screen: the details and the search
  are open on games that are shown, and a play, which moves its game to the front
  of the recent ones, neither hides one nor brings another in
  (`SearchOutlivesAPlay`, from `MovedToFrontKeeps`). That a seed's
  items land needs `ImportInv` (the items passed are flagged, or their game is not
  on this card and the import will be repeated). That a parent's decision stands
  needs `DecisionInv`: once the launcher is up, no import owes anything to a game
  that can be decided about. That a child starts only its own needs `ScanInv`
  (while the launcher runs, what is available is what its scan listed) and that an
  identity given to two games names the first of them (`Asked`).
* **ProfileTransferProofs**: `ProfilesStayComplete`, `LeftoversAreOutgrown`,
  `ExportsStayPossible`, `FailedRestoresLeaveNothing`, `CropsReadThePicture`,
  for any pictures, archives and limits. The invariant `StoreInv /\ TaskInv /\
  CropInv` says, for each step of an import or a restore, which files are whole,
  whom the row names and what the undo would take back (`ImportInv`,
  `RestoreInv`): the new generation is named by nobody before the update and the
  old one by nobody after it. `PendingInv` counts the files of exports against
  the times the launcher was stopped. The crop is arithmetic: a zoomed side is
  at most the shorter one, and a clamped corner plus the side at most the
  longer.
* **GameSurfaceProofs**: `NothingIsOutside`, `MapsAreTiled`,
  `AnimationsFollowTime`, `FramesStayFaithful`, `TitlesFit`, for any packages,
  arguments and limits. The invariant `SurfaceInv` says that the buffer holds
  commands that are inside, and no more than it may; a command is inside only
  with its atlas and its source, which `NothingOutside` does not say and the
  batches need. A tile map and a frame are folds, proved prefix by prefix
  (`TilesAreInside`, `FrameIsFaithful`: the batches of the first n commands,
  flattened, are the first n commands). `LevelIsClosest` rests on the order of
  the mips (`MipsAreOrdered`), animations on the sums of their ticks
  (`TicksAreSummed`, `OneFrameHolds`, `FilmHasFrames`), tiles on edges that are
  ordered because rounding is (`RoundingIsOrdered`, `EdgesAreOrdered`), on cells
  found by division (`CellsOfMap`) and on a fold over the cells, tile by tile
  (`TileCovers`, `TilesAreApart`, `MapIsDrawn`). `TitlesFit` is about
  `TitleFits`, a predicate of packages and no state: it uses that the product of
  two smallest sides is at least the largest one. It is about exact quotients
  (section 8).

TLC finds no violation of the strengthened invariants on the instances of the
runs either; the runs themselves list only the properties they imply. Two
properties are proved and in no run: `GrantIsOfCurrentPin` (a PIN is set and the
grant removed in one transaction) and `AnimationFollowsTime` (the choice of a
frame is a function, proved for every animation, tick and phase).

## 7. What is only model-checked

* Liveness: `AlwaysUsableAgain` and `IdleRouterOpensSprout`. Arguments under
  fairness need ENABLED, which the prover does not handle.
* That the listed assumptions hold of the instances, and that the situations the
  theorems speak of arise in them.

Proving the library and the surface changed three things in the models.
`GameCatalogue` lists the packages after the files, and a launch takes the first
entry of an identity, as the code's scan and search do; before, the model left
that order open, and what a child starts then depended on it. `TileIn` is a
definition of its own. The assumptions of the catalogue, the archives and the
surface name what had been implicit in the instances: an archive's portrait is
never called like one that is built in or imported, and manifests hold numbers
that are not negative.

## 8. Abstractions, and what is not modelled

* A SQLite transaction is one step, and happens or does not. So is the
  replacement of a file that the code syncs before it renames it: the
  configuration (`local_configuration.cpp` 297-358), a portrait
  (`profile_image_importer.cpp` 298-345) and an archive (`profile_archive.cpp`
  549-578). The storage of a game is not synced (`session.cpp` 823-833) and has
  its own step for it. Neither are the files of the handoff and the flags of the
  shell scripts: of those it is assumed that they reach the card in the order
  they are made. A transaction that throws leaves its database as it was. The
  migrations of the schemas are left out: they run before anything else, alone.
* Times are ticks. The wall clock and the monotonic clock advance together and
  the wall clock may be set.
* A PIN, a hash and an authenticator are a value and whether it is intact; what
  Argon2 and the authenticator compute is not modelled. The pad is typed at once.
* Focus inside a menu is left out where any item may be reached, and kept where
  an item depends on it (recovery menu, consent to export a portrait).
* A configuration is its revision and its setup step. Its other fields change
  only with a revision.
* Onion's MainUI, GameSwitcher, games and keymon are external: they are the
  files they may leave, as the runtime's code reads them.
* SafeBoot and OnionRuntime are about one wrapper; SupervisorLock is about
  several. The launch of an Onion game in ChildPlay stops at the handoff, whose
  own steps are in OnionRuntime.
* On the card a directory that cannot be read counts as absent; titles and
  artwork are left out, and games are numbered in the order of their titles.
* A picture is its size and its orientation tag; the crop's centre is exact where
  the code adds floats. An archive is what it says of a profile, and its sum is
  the payload it was made of: JSON, base64 and the digest are not modelled. What
  a compensation removes is removed. The import of a profile by the first-run
  setup is not in ProfileTransfer.
* In GameSurface colours, flips and transparency are left out, scales are in
  units, and an int wraps where the code adds ints. `contain` is computed in
  doubles by the code and exactly here, which may differ by a pixel.
* A script is anything it may call. Its values and events are small sets.

Not modelled:

* *Rendering and input* (`desktop_view.cpp`, framebuffer, layouts, fonts, key
  mapping, portrait outline; a quarter of the launcher's code). They read the
  presentations and write pixels; they keep no state a later step reads beyond
  caches of textures, and what would be stated of them is how they look.
* *The PIN pad*: the keys of one PIN typed and confirmed. What leaves it is a PIN
  or a cancellation.
* *The pages of the first-run setup*: spelling of names and choice of pictures;
  their saves are in SafeBoot.
* *Parsers*: TOML and JSON of configuration, seed, packages, catalogues. A file
  is what it says or does not load.
* *The Lua interpreter and its limits, the mixer, random numbers and the widgets
  of a shaped title* of the native runtime: arithmetic of a library, sound or
  layout without a promise beyond themselves.
* *The native games' and the PICO-8 editions' rules.* GameSession and GameSurface
  take any script; the games share nothing with Sprout but the runtime's calls.
* *Built-in portraits and backgrounds* (tables), *packaging and asset tools*
  (they run on a developer's machine, `onion_check` on demand).

## 9. The plan

What is left, in order of what it would add:

1. Theorems of more than the runs ask: the order of the recommendations
   (`SpreadOut`, `NextUp`), and that a second export or import changes nothing it
   should not.
2. The rules of the three native games as operators against reference
   definitions (pushing blocks, the snake's body, the maze).
3. The PIN pad and the pages of the first-run setup.
