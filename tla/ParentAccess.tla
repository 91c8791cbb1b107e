----------------------------- MODULE ParentAccess -----------------------------
(***************************************************************************)
(* A running launcher as the parent's PIN sees it: LauncherState           *)
(* (launcher_state.cpp), ParentAccessController                            *)
(* (parent_access_controller.cpp) and the session handler of main.cpp with *)
(* the screens it stacks over them, across restarts.  One action is one    *)
(* input, or one turn of the frame loop, with everything it calls.         *)
(*                                                                         *)
(* Which screen gets an input is decided in main.cpp's order: the PIN      *)
(* workflow, the portrait picker, the dashboard, the archive, then the     *)
(* controller.  Focus within a screen is left out: any item may be chosen. *)
(***************************************************************************)
EXTENDS ParentAccessStore

CONSTANTS
  Profiles,
  Parents,     \* the profiles whose role is Parent
  NoProfile

ASSUME ProfilesAssumption ==
  /\ Parents \subseteq Profiles
  /\ Profiles # {}
  /\ NoProfile \notin Profiles

VARIABLES
  config_ref,      \* sprout.json holds a parentCredentialRef
  return_session,  \* data/onion-return-session: the profile, or NoProfile
  up,              \* a launcher runs
  credential_ref,  \* the launcher has the credential's reference
  active,          \* active_profile(); NoProfile at profile selection
  focus,           \* the profile focused at profile selection
  prompt,          \* pin_purpose_ of the controller's prompt, or "none"
  workflow,        \* parent_pin_workflow while a workflow is open, or "none"
  dashboard, archive, avatars,  \* screens over the launcher
  event            \* history: what the last step was allowed to do

durable == <<config_ref, return_session>>
session == <<credential_ref, active, focus>>
overlays == <<dashboard, archive, avatars>>
vars == <<storeVars, now, durable, up, session, prompt, workflow, overlays,
          event>>

NoEvent == [kind |-> "none", pin |-> FALSE]

Uses == {"none", "parent", "exit", "chord"}
Events == [kind : Uses, pin : BOOLEAN]

TypeOK ==
  /\ StoreTypeOK
  /\ config_ref \in BOOLEAN
  /\ return_session \in Profiles \cup {NoProfile}
  /\ up \in BOOLEAN
  /\ credential_ref \in BOOLEAN
  /\ active \in Profiles \cup {NoProfile}
  /\ focus \in Profiles
  /\ prompt \in {"none", "unlock", "reauthenticate", "exit"}
  /\ workflow \in {"none", "verify", "create", "saving", "done"}
  /\ dashboard \in BOOLEAN /\ archive \in BOOLEAN /\ avatars \in BOOLEAN
  /\ event \in Events

ParentActive == active \in Parents

\* What a parent's authority was used for; without a PIN nothing is protected.
Used(kind) ==
  event' = IF credential_ref THEN [kind |-> kind, pin |-> FALSE] ELSE NoEvent
UsedByParent(kind, profile) ==
  IF profile \in Parents THEN Used(kind) ELSE event' = NoEvent
Verified(kind) == event' = [kind |-> kind, pin |-> TRUE]
Quiet == event' = NoEvent

CloseScreens == dashboard' = FALSE /\ archive' = FALSE /\ avatars' = FALSE

NothingOpen ==
  /\ prompt' = "none"
  /\ workflow' = "none"
  /\ CloseScreens

\* The launcher ends; its memory goes with it.
End ==
  /\ up' = FALSE
  /\ credential_ref' = FALSE
  /\ active' = NoProfile
  /\ NothingOpen
  /\ UNCHANGED focus

\* First-run setup ended with a numeric PIN or without one.
Init ==
  /\ credential \in [pin : Pins, combo : {FALSE}] \cup {NoPin}
  /\ config_ref = (credential # NoPin)
  /\ active_grant = NoGrant
  /\ now \in Instants
  /\ return_session = NoProfile
  /\ up = FALSE
  /\ credential_ref = FALSE
  /\ active = NoProfile
  /\ focus \in Profiles
  /\ prompt = "none" /\ workflow = "none"
  /\ dashboard = FALSE /\ archive = FALSE /\ avatars = FALSE
  /\ event = NoEvent

-----------------------------------------------------------------------------
(* Starting and ending. *)

\* activate_profile focuses the profile; a fresh state starts on some profile.
FocusAtStart == IF active' = NoProfile THEN Profiles ELSE {active'}

\* initialize_persistent_launcher locks; the marker of an Onion launch brings
\* the profile's dashboard back.
Start ==
  /\ ~up
  /\ up' = TRUE
  /\ Lock
  /\ credential_ref' = config_ref
  /\ active' = return_session
  /\ focus' \in FocusAtStart
  /\ return_session' = NoProfile
  /\ prompt' = "none" /\ workflow' = "none"
  /\ dashboard' = (active' # NoProfile) /\ archive' = FALSE /\ avatars' = FALSE
  /\ Quiet
  /\ UNCHANGED <<credential, now, config_ref>>

\* A crash, sleep, GameSwitcher, or an exception in the session handler.
Stop ==
  /\ up
  /\ End
  /\ Quiet
  /\ UNCHANGED <<storeVars, now, durable>>

SetClock ==
  /\ now' \in Instants
  /\ Quiet
  /\ UNCHANGED <<storeVars, durable, up, session, prompt, workflow, overlays>>

\* The medium damages the grant's row.
DamageGrant ==
  /\ active_grant # NoGrant
  /\ active_grant' = [active_grant EXCEPT !.intact = FALSE]
  /\ Quiet
  /\ UNCHANGED <<credential, now, durable, up, session, prompt, workflow,
                 overlays>>

-----------------------------------------------------------------------------
(* The controller's own test, and who gets an input. *)

Protected(profile) == profile \in Parents /\ credential_ref

\* Mutant: the dashboard does not ask.
AdmittedUnasked == UNCHANGED active_grant

\* ensure_active_profile_access, when it lets the input through and when not.
Admitted ==
  /\ Protected(active) => IsUnlocked
  /\ IF Protected(active) THEN CheckGrant ELSE UNCHANGED active_grant

TurnedAway ==
  /\ Protected(active) /\ ~IsUnlocked
  /\ CheckGrant
  /\ active' = NoProfile
  /\ focus' = active
  /\ UNCHANGED credential_ref

InPicker == up /\ workflow = "none" /\ avatars
InDashboard == up /\ workflow = "none" /\ ~avatars /\ dashboard
InArchive == up /\ workflow = "none" /\ ~avatars /\ ~dashboard /\ archive
InController ==
  up /\ workflow = "none" /\ ~avatars /\ ~dashboard /\ ~archive

\* lock_and_return_to_profiles
LockAndReturn ==
  /\ Lock
  /\ active' = NoProfile
  /\ focus' = active
  /\ UNCHANGED credential_ref

\* state and controller are made anew; the grant is not touched.
Rebuild ==
  /\ active' = NoProfile
  /\ focus' \in Profiles
  /\ prompt' = "none"
  /\ UNCHANGED credential_ref

-----------------------------------------------------------------------------
(* Profile selection and the menus. *)

InMenus == InController /\ prompt = "none"

SelectProfile(p) ==
  /\ InMenus
  /\ active = NoProfile
  /\ Protected(p) => IsUnlocked
  /\ IF Protected(p) THEN CheckGrant ELSE UNCHANGED active_grant
  /\ focus' = p
  /\ active' = p
  /\ dashboard' = TRUE
  /\ UsedByParent("parent", p)
  /\ UNCHANGED <<credential, now, durable, up, credential_ref, prompt,
                 workflow, archive, avatars>>

AskToUnlock(p) ==
  /\ InMenus
  /\ active = NoProfile
  /\ Protected(p) /\ ~IsUnlocked
  /\ CheckGrant
  /\ focus' = p
  /\ prompt' = "unlock"
  /\ Quiet
  /\ UNCHANGED <<credential, now, durable, up, credential_ref, active,
                 workflow, overlays>>

MenuTurnsAway ==
  /\ InMenus
  /\ TurnedAway
  /\ Quiet
  /\ UNCHANGED <<credential, now, durable, up, prompt, workflow, overlays>>

\* GAME GUIDE and GAME DASHBOARD
MenuDashboard ==
  /\ InMenus
  /\ active # NoProfile
  /\ Admitted
  /\ dashboard' = TRUE
  /\ UsedByParent("parent", active)
  /\ UNCHANGED <<credential, now, durable, up, session, prompt, workflow,
                 archive, avatars>>

MenuPicture ==
  /\ InMenus
  /\ active # NoProfile
  /\ Admitted
  /\ avatars' = TRUE
  /\ Quiet
  /\ UNCHANGED <<credential, now, durable, up, session, prompt, workflow,
                 dashboard, archive>>

\* BACKUP & RESTORE is a sensitive target.
MenuBackup ==
  /\ InMenus
  /\ ParentActive
  /\ Admitted
  /\ IF credential_ref
       THEN prompt' = "reauthenticate" /\ UNCHANGED archive
       ELSE archive' = TRUE /\ UNCHANGED prompt
  /\ Quiet
  /\ UNCHANGED <<credential, now, durable, up, session, workflow, dashboard,
                 avatars>>

\* Back, PROFILE SELECT and LOCK PARENT ACCESS
MenuLeave ==
  /\ InMenus
  /\ active # NoProfile
  /\ Protected(active) => IsUnlocked
  /\ LockAndReturn
  /\ Quiet
  /\ UNCHANGED <<credential, now, durable, up, prompt, workflow, overlays>>

-----------------------------------------------------------------------------
(* The controller's prompt. *)

InPrompt(purpose) == InController /\ prompt = purpose

SubmitUnlock(pin) ==
  /\ InPrompt("unlock")
  /\ VerifyPin(pin)
  /\ GrantUntilEndOfDay
  /\ prompt' = "none"
  /\ active' = focus
  /\ dashboard' = TRUE
  /\ Verified("parent")
  /\ UNCHANGED <<credential, now, durable, up, credential_ref, focus,
                 workflow, archive, avatars>>

\* The frame loop, which completes a button combination, opens dashboards only.
SubmitReauthentication(pin) ==
  /\ InPrompt("reauthenticate")
  /\ IsUnlocked
  /\ CheckGrant
  /\ VerifyPin(pin)
  /\ prompt' = "none"
  /\ archive' = ~credential.combo
  /\ Verified("parent")
  /\ UNCHANGED <<credential, now, durable, up, session, workflow, dashboard,
                 avatars>>

\* A wrong PIN leaves the prompt open, but the grant has been checked.
SubmitWrong(pin) ==
  /\ InPrompt("reauthenticate")
  /\ IsUnlocked
  /\ ~VerifyPin(pin)
  /\ CheckGrant
  /\ Quiet
  /\ UNCHANGED <<credential, now, durable, up, session, prompt, workflow,
                 overlays>>

SubmitTooLate ==
  /\ InPrompt("reauthenticate")
  /\ ~IsUnlocked
  /\ CheckGrant
  /\ prompt' = "none"
  /\ active' = NoProfile
  /\ focus' = active
  /\ Quiet
  /\ UNCHANGED <<credential, now, durable, up, credential_ref, workflow,
                 overlays>>

\* Mutant: the PIN is not verified.
SubmitExitUnverified(pin) ==
  /\ InPrompt("exit")
  /\ End
  /\ event' = [kind |-> "exit", pin |-> VerifyPin(pin)]
  /\ UNCHANGED <<storeVars, now, durable>>

\* The exit marker is written and the launcher ends.
SubmitExit(pin) ==
  /\ InPrompt("exit")
  /\ VerifyPin(pin)
  /\ End
  /\ Verified("exit")
  /\ UNCHANGED <<storeVars, now, durable>>

\* Cancelled, expired after 20 seconds, or the marker could not be written.
ClosePrompt ==
  /\ up
  /\ prompt # "none"
  /\ workflow # "saving"
  /\ prompt' = "none"
  /\ Quiet
  /\ UNCHANGED <<storeVars, now, durable, up, session, workflow, overlays>>

-----------------------------------------------------------------------------
(* SystemMenu and the hold of Start and Select. *)

\* request_exit for a parent with a good grant ends the launcher, unless the
\* marker cannot be written.
ExitDirectly ==
  /\ up
  /\ workflow # "saving"
  /\ Protected(active) /\ IsUnlocked
  /\ CheckGrant
  /\ \/ End /\ Used("exit")
     \/ /\ CloseScreens
        /\ Quiet
        /\ UNCHANGED <<up, session, prompt, workflow>>
  /\ UNCHANGED <<credential, now, durable>>

AskToExit ==
  /\ up
  /\ workflow # "saving"
  /\ credential_ref
  /\ ParentActive => ~IsUnlocked
  /\ IF ParentActive THEN CheckGrant ELSE UNCHANGED active_grant
  /\ prompt' = "exit"
  /\ CloseScreens
  /\ Quiet
  /\ UNCHANGED <<credential, now, durable, up, session, workflow>>

\* Without a PIN there is no exit; the screens are closed all the same.
RefuseExit ==
  /\ up
  /\ workflow # "saving"
  /\ ~credential_ref
  /\ CloseScreens
  /\ Quiet
  /\ UNCHANGED <<storeVars, now, durable, up, session, prompt, workflow>>

\* The hold exits for a parent profile that is selected, whatever its grant
\* and whatever is open, unless the marker cannot be written.
HoldChord ==
  /\ up
  /\ workflow # "saving"
  /\ ParentActive
  /\ \/ End /\ Used("chord")
     \/ /\ CloseScreens
        /\ Quiet
        /\ UNCHANGED <<up, session, prompt, workflow>>
  /\ UNCHANGED <<storeVars, now, durable>>

-----------------------------------------------------------------------------
(* The dashboard. *)

DashboardTurnsAway ==
  /\ InDashboard
  /\ TurnedAway
  /\ dashboard' = FALSE
  /\ Quiet
  /\ UNCHANGED <<credential, now, durable, up, prompt, workflow, archive,
                 avatars>>

\* Back, LOCK and PROFILES
DashboardLeave ==
  /\ InDashboard
  /\ Protected(active) => IsUnlocked
  /\ LockAndReturn
  /\ dashboard' = FALSE
  /\ Quiet
  /\ UNCHANGED <<credential, now, durable, up, prompt, workflow, archive,
                 avatars>>

\* A setting, a favorite, a game on the Sprout runtime.
DashboardUse ==
  /\ InDashboard
  /\ Admitted
  /\ UsedByParent("parent", active)
  /\ UNCHANGED <<credential, now, durable, up, session, prompt, workflow,
                 overlays>>

\* A game on Onion: the marker of the return is written, the launcher ends.
DashboardHandoff ==
  /\ InDashboard
  /\ Admitted
  /\ return_session' = active
  /\ End
  /\ UsedByParent("parent", active)
  /\ UNCHANGED <<credential, now, config_ref>>

DashboardPicture ==
  /\ InDashboard
  /\ Admitted
  /\ avatars' = TRUE
  /\ Quiet
  /\ UNCHANGED <<credential, now, durable, up, session, prompt, workflow,
                 dashboard, archive>>

\* BACKUP: the archive is opened under the dashboard, which stays.
DashboardBackup ==
  /\ InDashboard
  /\ ParentActive
  /\ Admitted
  /\ archive' = TRUE
  /\ Used("parent")
  /\ UNCHANGED <<credential, now, durable, up, session, prompt, workflow,
                 dashboard, avatars>>

\* SET PIN
DashboardSetPin ==
  /\ InDashboard
  /\ ParentActive
  /\ Admitted
  /\ workflow' = IF credential_ref THEN "verify" ELSE "create"
  /\ Used("parent")
  /\ UNCHANGED <<credential, now, durable, up, session, prompt, overlays>>

-----------------------------------------------------------------------------
(* The PIN workflow. *)

VerifyOldPin(pin) ==
  /\ up
  /\ workflow = "verify"
  /\ VerifyPin(pin)
  /\ workflow' = "create"
  /\ Quiet
  /\ UNCHANGED <<storeVars, now, durable, up, session, prompt, overlays>>

SubmitNewPin(pin) ==
  /\ up
  /\ workflow = "create"
  /\ SetPin(pin, TRUE)
  /\ credential_ref' = TRUE
  /\ workflow' = "saving"
  /\ Quiet
  /\ UNCHANGED <<now, durable, up, active, focus, prompt, overlays>>

\* The reference is saved in the configuration and the controller made anew.
SaveReference ==
  /\ up
  /\ workflow = "saving"
  /\ config_ref' = TRUE
  /\ prompt' = "none"
  /\ workflow' = "done"
  /\ Quiet
  /\ UNCHANGED <<storeVars, now, return_session, up, session, overlays>>

\* Cancelled, expired, or shown long enough.
CloseWorkflow ==
  /\ up
  /\ workflow \in {"verify", "create", "done"}
  /\ workflow' = "none"
  /\ Quiet
  /\ UNCHANGED <<storeVars, now, durable, up, session, prompt, overlays>>

-----------------------------------------------------------------------------
(* The portrait picker and the archive. *)

ClosePicker ==
  /\ InPicker
  /\ avatars' = FALSE
  /\ Quiet
  /\ UNCHANGED <<storeVars, now, durable, up, session, prompt, workflow,
                 dashboard, archive>>

\* The state may be made anew only where no dashboard holds its profile.
KeepOrRebuild == IF dashboard THEN UNCHANGED <<session, prompt>> ELSE Rebuild

AssignPicture ==
  /\ InPicker
  /\ avatars' = FALSE
  /\ KeepOrRebuild
  /\ Quiet
  /\ UNCHANGED <<storeVars, now, durable, up, workflow, dashboard, archive>>

ArchiveTurnsAway ==
  /\ InArchive
  /\ TurnedAway
  /\ archive' = FALSE
  /\ Quiet
  /\ UNCHANGED <<credential, now, durable, up, prompt, workflow, dashboard,
                 avatars>>

\* A backup is written or restored.
ArchiveUse ==
  /\ InArchive
  /\ Admitted
  /\ Quiet
  /\ UNCHANGED <<credential, now, durable, up, session, prompt, workflow,
                 overlays>>

ArchiveClose ==
  /\ InArchive
  /\ Admitted
  /\ archive' = FALSE
  /\ UNCHANGED <<session, prompt>> \/ KeepOrRebuild
  /\ Quiet
  /\ UNCHANGED <<credential, now, durable, up, workflow, dashboard, avatars>>

-----------------------------------------------------------------------------

Prompting ==
  \/ \E pin \in Pins :
       \/ SubmitUnlock(pin) \/ SubmitReauthentication(pin)
       \/ SubmitWrong(pin) \/ SubmitExit(pin)
  \/ SubmitTooLate \/ ClosePrompt

Menus ==
  \/ \E p \in Profiles : SelectProfile(p) \/ AskToUnlock(p)
  \/ MenuTurnsAway \/ MenuDashboard \/ MenuPicture \/ MenuBackup \/ MenuLeave

Exiting == ExitDirectly \/ AskToExit \/ RefuseExit \/ HoldChord

Dashboard ==
  \/ DashboardTurnsAway \/ DashboardLeave \/ DashboardUse \/ DashboardHandoff
  \/ DashboardPicture \/ DashboardBackup \/ DashboardSetPin

Workflow ==
  \/ \E pin \in Pins : VerifyOldPin(pin) \/ SubmitNewPin(pin)
  \/ SaveReference \/ CloseWorkflow

Screens ==
  ClosePicker \/ AssignPicture \/ ArchiveTurnsAway \/ ArchiveUse \/ ArchiveClose

Next ==
  \/ Start \/ Stop \/ SetClock \/ DamageGrant
  \/ Menus \/ Prompting \/ Exiting \/ Dashboard \/ Workflow \/ Screens

Spec == Init /\ [][Next]_vars

-----------------------------------------------------------------------------
(* Properties. *)

\* Authority used with a PIN in force rests on a grant that was checked in the
\* same step: authentic, of today, and not ahead of the clock.
JustChecked ==
  /\ active_grant # NoGrant
  /\ active_grant.intact
  /\ active_grant.last_observed = now
  /\ active_grant.local_date = DateOf[now]

\* However the clock was moved and whatever was open before, a parent's
\* dashboard is opened from the menu, or used, only on a grant that holds at
\* that moment (ensure_active_profile_access and main.cpp lines 1738-1744); one
\* that a return from Onion brought back on no grant closes at the first input.
ParentActsOnlyWithGrant == event.kind = "parent" => JustChecked

\* Leaving Sprout from the menu takes the PIN itself or a selected parent whose
\* grant holds at that moment (request_exit, resolve_pin_event).
ExitIsAuthorized == event.kind = "exit" => event.pin \/ JustChecked

\* The screens and questions that act for a profile have one: a dashboard or a
\* picker is never left over a launcher that went back to profile selection,
\* a PIN is changed or asked for again only under a parent, and no screen takes
\* the input of a prompt that lies under it (main.cpp lines 1643-1648, 1690-1695
\* and 1932-1937 make the state anew, lines 1540-1547 close the screens).
ScreensHaveAProfile ==
  /\ dashboard \/ avatars => active # NoProfile
  /\ prompt = "reauthenticate" \/ workflow # "none" => ParentActive
  /\ prompt # "none" => ~dashboard /\ ~archive /\ ~avatars

\* A grant never outlives the PIN it was given for (set_pin lines 350-358).
GrantIsOfCurrentPin == active_grant # NoGrant => active_grant.by = credential

\* Only the PIN makes a grant or makes it younger: without it a grant is checked
\* at later and later instants of its own day, or it is gone.
GrantsOnlyAge ==
  [][~event'.pin /\ active_grant' # NoGrant =>
       /\ active_grant # NoGrant
       /\ active_grant'.local_date = active_grant.local_date
       /\ active_grant'.last_observed >= active_grant.last_observed]_vars

\* containment-and-onion-lifecycle.md lines 34-35: an actively selected parent
\* profile with a current grant may exit directly, a stale grant does not.  The
\* hold looks at the role alone (main.cpp lines 2160-2166).
ChordNeedsGrant == event.kind = "chord" => IsUnlocked

\* main.cpp lines 1600-1603: the reference is saved so that the PIN does not
\* stop working when the launcher restarts.  A death between the two stores
\* loses it.
PinIsRemembered == up /\ credential # NoPin => credential_ref

=============================================================================
