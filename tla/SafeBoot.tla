------------------------------- MODULE SafeBoot -------------------------------
(***************************************************************************)
(* Starting the launcher (src/launcher/src/main.cpp): the wrapper starts   *)
(* it again whenever it ends; begin_startup decides between ordinary       *)
(* startup and the recovery menu (recovery_presentation.cpp); ordinary     *)
(* startup seeds a fresh household, opens the configuration and            *)
(* acknowledges the attempt after its first frame; a running launcher      *)
(* moves through first-run setup (setup_wizard.cpp).  Media may corrupt a  *)
(* file and the launcher may die at any point, finitely often.             *)
(***************************************************************************)
EXTENDS StartupHealth, ConfigurationStore, Sequences

CONSTANTS
  Launcher,       \* the only launcher: the wrapper's lock admits no other
  SeedProfiles,   \* profiles of the household seed, 0 when there is none
  MaxFaults,      \* bound on deaths, failed writes and corrupted files
  MaxExits        \* bound on the times somebody leaves the launcher

ASSUME BootAssumption ==
  /\ Launcher \in Launchers
  /\ SeedProfiles \in Nat
  /\ MaxFaults \in Nat
  /\ MaxExits \in Nat

VARIABLES
  phase,          \* how far main has come
  view, focus,    \* RecoveryPresentation::view_ and focus_index_
  offer,          \* last_known_good_.has_value()
  seed_parses,    \* whether the seed file can be loaded
  profiles,       \* seeded profiles that exist
  configuration,  \* the configuration startup or the wizard works with
  faults, exits,
  failed,         \* history: launches in a row that ended before ready
  repaired        \* history: this one restored or reset in its menu

bootVars == <<phase, view, focus, offer, seed_parses, profiles,
              configuration, faults, exits, failed, repaired>>
vars == <<healthVars, configurationVars, bootVars>>

menu == <<view, focus, offer>>
household == <<seed_parses, profiles>>
counters == <<faults, exits>>
history == <<failed, repaired>>

Phases == {"down", "preparing", "opening", "seeding", "seed-save", "wizard",
           "wizard-save", "frame", "ready", "settings-save", "recovery",
           "reset-save"}

Running == phase \in {"ready", "settings-save"}

Init ==
  /\ HealthInit
  /\ ConfigurationInit
  /\ phase = "down"
  /\ view = "home" /\ focus = 1 /\ offer = FALSE
  /\ seed_parses = TRUE
  /\ profiles = 0
  /\ configuration = Fresh
  /\ faults = 0 /\ exits = 0
  /\ failed = 0 /\ repaired = FALSE

\* A fault costs one of MaxFaults.
Fault ==
  /\ faults < MaxFaults
  /\ faults' = faults + 1
  /\ UNCHANGED exits

-----------------------------------------------------------------------------
(* The end of a launcher, whatever the reason: the wrapper starts another. *)

Ended ==
  /\ phase' = "down"
  /\ Abandon(Launcher)
  /\ StopWriting
  /\ failed' = IF Running THEN 0 ELSE AtMost(RecoveryThreshold + 1, failed + 1)
  /\ configuration' = Fresh
  /\ repaired' = FALSE
  /\ UNCHANGED <<menu, household>>

-----------------------------------------------------------------------------
(* Startup. *)

\* The wrapper's loop (onion-sprout-launch.sh lines 121-154).
StartLauncher ==
  /\ phase = "down"
  /\ phase' = "preparing"
  /\ UNCHANGED <<healthVars, configurationVars, menu, household,
                 configuration, counters, history>>

\* The seed file is read before the attempt is begun, and its errors end the
\* launcher.
PreparationFails ==
  /\ phase = "preparing"
  /\ ~seed_parses
  /\ Ended
  /\ UNCHANGED counters

\* Mutant: recovery is required one failure too late.
RecoveryRequiredLate == consecutive_failures' > RecoveryThreshold

\* StartupDecision::recovery_required
RecoveryRequired == consecutive_failures' >= RecoveryThreshold

Home(offering) ==
  /\ view' = "home"
  /\ focus' = IF offering THEN 3 ELSE 2

Decide ==
  /\ phase = "preparing"
  /\ seed_parses
  /\ BeginStartup(Launcher)
  /\ IF RecoveryRequired
       THEN /\ phase' = "recovery"
            /\ offer' = Parses(last_known_good)
            /\ Home(offer')
       ELSE phase' = "opening" /\ UNCHANGED menu
  /\ UNCHANGED <<configurationVars, household, configuration, counters, history>>

\* initialize_persistent_launcher: a seed is applied to an empty household.
Open ==
  /\ phase = "opening"
  /\ phase' = IF profiles = 0 /\ SeedProfiles > 0 THEN "seeding" ELSE "wizard"
  /\ UNCHANGED <<healthVars, configurationVars, menu, household, configuration,
                 counters, history>>

SeedProfile ==
  /\ phase = "seeding"
  /\ profiles < SeedProfiles
  /\ profiles' = profiles + 1
  /\ UNCHANGED <<healthVars, configurationVars, phase, menu, seed_parses,
                 configuration, counters, history>>

\* With the profiles in place the configuration is loaded, or made, and saved
\* as completed.
SeedConfiguration ==
  /\ phase = "seeding"
  /\ profiles = SeedProfiles
  /\ active # Corrupt
  /\ BeginSave([(IF active = Absent THEN Fresh ELSE active)
                  EXCEPT !.step = LastStep])
  /\ phase' = "seed-save"
  /\ UNCHANGED <<healthVars, menu, household, configuration, counters, history>>

FinishSeed ==
  /\ phase = "seed-save"
  /\ FinishSave
  /\ phase' = "wizard"
  /\ UNCHANGED <<healthVars, menu, household, configuration, counters, history>>

\* SetupWizard's constructor loads the active configuration, or saves a fresh
\* one.
LoadConfiguration ==
  /\ phase = "wizard"
  /\ Parses(active)
  /\ configuration' = active
  /\ phase' = "frame"
  /\ UNCHANGED <<healthVars, configurationVars, menu, household, counters,
                 history>>

MakeConfiguration ==
  /\ phase = "wizard"
  /\ active = Absent
  /\ BeginSave(Fresh)
  /\ phase' = "wizard-save"
  /\ UNCHANGED <<healthVars, menu, household, configuration, counters, history>>

FinishConfiguration ==
  /\ phase = "wizard-save"
  /\ FinishSave
  /\ configuration' = writing
  /\ phase' = "frame"
  /\ UNCHANGED <<healthVars, menu, household, counters, history>>

\* An active configuration that does not parse is an error that ends startup.
OpenFails ==
  /\ \/ phase = "wizard"
     \/ phase = "seeding" /\ profiles = SeedProfiles
  /\ active = Corrupt
  /\ Ended
  /\ UNCHANGED counters

\* The first ordinary frame has been rendered.
RenderFrame ==
  /\ phase = "frame"
  /\ MarkReady(Launcher)
  /\ phase' = "ready"
  /\ failed' = 0
  /\ UNCHANGED <<configurationVars, menu, household, configuration, counters,
                 repaired>>

-----------------------------------------------------------------------------
(* First-run setup: advance_to changes the wizard's copy, then saves it.   *)

NextStep == [configuration EXCEPT !.step = @ + 1]

AdvanceSetup ==
  /\ phase = "ready"
  /\ writing = NotWriting
  /\ configuration.step < LastStep
  /\ configuration.revision < MaxRevision
  /\ configuration' = NextStep
  /\ BeginSave(NextStep)
  /\ UNCHANGED <<healthVars, phase, menu, household, counters, history>>

\* Mutant: the wizard does not take over the saved revision.
FinishAdvanceKeepingCopy ==
  /\ phase = "ready"
  /\ FinishSave
  /\ UNCHANGED <<healthVars, phase, menu, household, configuration, counters,
                 history>>

FinishAdvance ==
  /\ phase = "ready"
  /\ FinishSave
  /\ configuration' = writing
  /\ UNCHANGED <<healthVars, phase, menu, household, counters, history>>

\* save throws before it wrote anything; the presentation shows the error and
\* the wizard's copy stays advanced.
AdvanceRefused ==
  /\ phase = "ready"
  /\ writing = NotWriting
  /\ configuration.step < LastStep
  /\ \/ ~SaveAccepted(NextStep) /\ UNCHANGED counters
     \/ Fault
  /\ configuration' = NextStep
  /\ UNCHANGED <<healthVars, configurationVars, phase, menu, household, history>>

\* A parent changes the PIN: the active configuration is loaded again, and
\* saved with the credential's reference.  The wizard's copy is not touched.
SaveSettings ==
  /\ phase = "ready"
  /\ writing = NotWriting
  /\ configuration.step = LastStep
  /\ Parses(active)
  /\ active.revision < MaxRevision
  /\ BeginSave(active)
  /\ phase' = "settings-save"
  /\ UNCHANGED <<healthVars, menu, household, configuration, counters, history>>

FinishSettings ==
  /\ phase = "settings-save"
  /\ FinishSave
  /\ phase' = "ready"
  /\ UNCHANGED <<healthVars, menu, household, configuration, counters, history>>

\* A configuration that cannot be loaded is an exception that ends the launcher.
SettingsFail ==
  /\ phase = "ready"
  /\ writing = NotWriting
  /\ configuration.step = LastStep
  /\ active = Corrupt
  /\ exits < MaxExits
  /\ exits' = exits + 1
  /\ Ended
  /\ UNCHANGED faults

-----------------------------------------------------------------------------
(* The recovery menu. *)

Choices ==
  IF view # "home" THEN <<"apply", "cancel">>
    ELSE (IF offer THEN <<"restore">> ELSE <<>>) \o <<"reset", "exit">>

InMenu == phase = "recovery"

\* The focus is always on one of the choices.
BootTypeOK ==
  /\ {active, last_known_good} \subseteq Contents \cup {Absent, Corrupt}
  /\ recovered \subseteq Nat \X (Contents \cup {Corrupt})
  /\ writing \in Contents \cup {NotWriting}
  /\ phase \in Phases
  /\ view \in {"home", "restore", "reset"}
  /\ offer \in BOOLEAN
  /\ focus \in 1..Len(Choices)
  /\ seed_parses \in BOOLEAN
  /\ profiles \in 0..SeedProfiles
  /\ configuration \in Contents
  /\ faults \in 0..MaxFaults
  /\ exits \in 0..MaxExits
  /\ failed \in 0..(RecoveryThreshold + 1)
  /\ repaired \in BOOLEAN

MoveFocus ==
  /\ InMenu
  /\ \E delta \in {1, Len(Choices) - 1} :
       focus' = ((focus - 1 + delta) % Len(Choices)) + 1
  /\ UNCHANGED <<healthVars, configurationVars, phase, view, offer, household,
                 configuration, counters, history>>

\* Back, or CANCEL, in a confirmation.
Cancel ==
  /\ InMenu
  /\ view # "home"
  /\ Home(offer)
  /\ UNCHANGED <<healthVars, configurationVars, phase, offer, household,
                 configuration, counters, history>>

\* CANCEL has the focus when the confirmation opens.
ChooseAction ==
  /\ InMenu
  /\ view = "home"
  /\ Choices[focus] \in {"restore", "reset"}
  /\ view' = Choices[focus]
  /\ focus' = 2
  /\ UNCHANGED <<healthVars, configurationVars, phase, offer, household,
                 configuration, counters, history>>

\* EXIT TO POWER OFF leaves the attempt unfinished.
LeaveRecovery ==
  /\ InMenu
  /\ view = "home"
  /\ exits < MaxExits
  /\ exits' = exits + 1
  /\ Ended
  /\ UNCHANGED faults

ApplyRestore ==
  /\ InMenu
  /\ view = "restore" /\ focus = 1
  /\ RestoreLastKnownGood
  /\ phase' = "opening" /\ repaired' = TRUE
  /\ UNCHANGED <<healthVars, menu, household, configuration, counters, failed>>

\* The file is moved aside, when there is one; then a fresh one is saved.
BeginReset ==
  /\ InMenu
  /\ view = "reset" /\ focus = 1
  /\ QuarantineActive(startup_attempt_id[Launcher])
  /\ phase' = "reset-save"
  /\ UNCHANGED <<healthVars, menu, household, configuration, counters, history>>

BeginResetWithoutFile ==
  /\ InMenu
  /\ view = "reset" /\ focus = 1
  /\ active = Absent
  /\ phase' = "reset-save"
  /\ UNCHANGED <<healthVars, configurationVars, menu, household, configuration,
                 counters, history>>

FinishReset ==
  /\ phase = "reset-save"
  /\ active' = [Fresh EXCEPT !.revision = 1]
  /\ phase' = "opening" /\ repaired' = TRUE
  /\ UNCHANGED <<healthVars, last_known_good, recovered, writing, menu,
                 household, configuration, counters, failed>>

-----------------------------------------------------------------------------
(* Faults, and people leaving. *)

\* A crash, a power cut, or an error in a store that startup opens.
Die ==
  /\ phase # "down"
  /\ Fault
  /\ Ended

\* The write of the active file fails in a running launcher.
WriteFails ==
  /\ Fault
  /\ \/ phase = "ready" /\ writing # NotWriting /\ phase' = "ready"
     \/ phase = "reset-save" /\ phase' = "recovery"
  /\ StopWriting
  /\ UNCHANGED <<healthVars, menu, household, configuration, history>>

CorruptActive ==
  /\ Parses(active)
  /\ Fault
  /\ active' = Corrupt
  /\ UNCHANGED <<healthVars, last_known_good, recovered, writing, phase, menu,
                 household, configuration, history>>

CorruptSnapshot ==
  /\ Parses(last_known_good)
  /\ Fault
  /\ last_known_good' = Corrupt
  /\ UNCHANGED <<healthVars, active, recovered, writing, phase, menu,
                 household, configuration, history>>

CorruptSeed ==
  /\ seed_parses
  /\ Fault
  /\ seed_parses' = FALSE
  /\ UNCHANGED <<healthVars, configurationVars, phase, menu, profiles,
                 configuration, history>>

\* Exit to Onion, sleep, or a handoff to a game: the launcher ends in order.
Leave ==
  /\ phase = "ready"
  /\ writing = NotWriting
  /\ exits < MaxExits
  /\ exits' = exits + 1
  /\ Ended
  /\ UNCHANGED faults

-----------------------------------------------------------------------------

Startup ==
  \/ StartLauncher \/ PreparationFails \/ Decide \/ Open \/ SeedProfile
  \/ SeedConfiguration \/ FinishSeed \/ LoadConfiguration
  \/ MakeConfiguration \/ FinishConfiguration \/ OpenFails \/ RenderFrame

Setup ==
  \/ AdvanceSetup \/ FinishAdvance \/ AdvanceRefused
  \/ SaveSettings \/ FinishSettings \/ SettingsFail

Recovery ==
  \/ MoveFocus \/ Cancel \/ ChooseAction \/ LeaveRecovery
  \/ ApplyRestore \/ BeginReset \/ BeginResetWithoutFile \/ FinishReset

Media == CorruptActive \/ CorruptSnapshot \/ CorruptSeed

Next == Startup \/ Setup \/ Recovery \/ Die \/ WriteFails \/ Media \/ Leave

\* The wrapper's loop never rests and startup runs to its end by itself;
\* nothing is assumed about people, and the faults are finitely many.
Spec == Init /\ [][Next]_vars /\ WF_vars(Startup) /\ WF_vars(FinishReset)

-----------------------------------------------------------------------------
(* Properties. *)

StoresMayOpen == phase \notin {"down", "preparing", "recovery", "reset-save"}

\* The recovery menu is opened only when at least RecoveryThreshold attempts in
\* a row were left unfinished, and from there on no launcher gets past its
\* begin_startup to the stores but by a restore or a reset of its own, chosen
\* in its own menu: that an earlier one opened its menu, was left in it, or
\* repaired the configuration and failed again, does not count (main.cpp lines
\* 1322-1336 with begin_startup).
RecoveryAfterThreshold ==
  /\ phase \in {"recovery", "reset-save"} => begun > RecoveryThreshold
  /\ begun > RecoveryThreshold /\ StoresMayOpen => repaired

\* launcher-recovery.md line 5: "After three consecutive unfinished data-backed
\* starts, the launcher opens recovery before profile, policy, credential, or
\* library stores."  Starts that end before begin_startup, while the seed is
\* loaded or the card is scanned (main.cpp lines 1293-1319), are not counted:
\* after three of them the next launcher opens the stores like any other.
UnfinishedStartsOpenRecovery ==
  failed >= RecoveryThreshold /\ StoresMayOpen => repaired

\* A snapshot that parses is never replaced by one that does not, and an active
\* file that does not parse never becomes valid by itself: damage to one file
\* does not spread to the other (save lines 458-468, restore lines 483-486).
DamageDoesNotSpread ==
  [][~Media => /\ Parses(last_known_good) => Parses(last_known_good')
               /\ active' = Corrupt => active = Corrupt]_vars

\* Whatever writes failed before, the wizard's copy is never stale: its next
\* save is refused only because the file on disk was damaged.
WizardIsNeverStale ==
  ( /\ phase = "ready" /\ writing = NotWriting
    /\ configuration.step < LastStep
    /\ Parses(active) )
  => configuration.revision = active.revision

\* While the seed can be loaded, a launcher that cannot start does not restart
\* forever behind a blank screen: again and again either it is ready or the
\* recovery menu is on the screen.
AlwaysUsableAgain ==
  []<>(Running \/ phase = "recovery" \/ ~seed_parses)

=============================================================================
