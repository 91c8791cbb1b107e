-------------------------- MODULE ParentAccessProofs --------------------------
(***************************************************************************)
(* Theorems about ParentAccess for any profiles, any PINs, any clock and   *)
(* any calendar.                                                           *)
(***************************************************************************)
EXTENDS ParentAccess, TLAPS

\* What is_unlocked leaves in the row is a grant or nothing.
LEMMA CheckedGrant ==
  ASSUME TypeOK, CheckGrant
  PROVE  active_grant' \in Grants \cup {NoGrant}
<1>1. CASE ~IsUnlocked
  BY <1>1 DEF CheckGrant
<1>2. CASE IsUnlocked
  <2>1. active_grant \in Grants /\ now \in Instants
    BY <1>2 DEF IsUnlocked, TypeOK, StoreTypeOK
  <2>2. [active_grant EXCEPT !.last_observed = now] \in Grants
    BY <2>1 DEF Grants
  <2> QED
    BY <1>2, <2>2 DEF CheckGrant
<1> QED
  BY <1>1, <1>2

\* grant_until_end_of_day writes a grant.
LEMMA NewGrant ==
  ASSUME TypeOK, GrantUntilEndOfDay, credential # NoPin
  PROVE  active_grant' \in Grants
<1>1. now \in Instants /\ credential \in Credentials
  BY DEF TypeOK, StoreTypeOK
<1>2. DateOf[now] \in Nat
  BY <1>1, AccessAssumption
<1> QED
  BY <1>1, <1>2 DEF GrantUntilEndOfDay, Grants

\* A use of authority is an event.
LEMMA UseIsEvent ==
  /\ \A kind \in Uses : Used(kind) => event' \in Events
  /\ \A kind \in Uses : \A profile :
       UsedByParent(kind, profile) => event' \in Events
<1>1. NoEvent \in Events
  BY DEF NoEvent, Events, Uses
<1>2. \A kind \in Uses : [kind |-> kind, pin |-> FALSE] \in Events
  BY DEF Events
<1> QED
  BY <1>1, <1>2 DEF Used, UsedByParent

-----------------------------------------------------------------------------
\* TypeOK is not inductive by itself: that a launcher which turns somebody away
\* has a profile to go back to needs the discipline of the screens.
IInv == TypeOK /\ ScreensHaveAProfile

LEMMA ScreensStep == IInv /\ [Next]_vars => IInv'
<1> SUFFICES ASSUME IInv, [Next]_vars PROVE IInv'
  OBVIOUS
<1> USE ProfilesAssumption
    DEF IInv, TypeOK, StoreTypeOK, ScreensHaveAProfile, ParentActive, Uses,
        Events, durable, session, overlays, storeVars, Quiet, NoEvent
<1>1. CASE UNCHANGED vars
  BY <1>1 DEF vars
<1>2. CASE Next
  <2>1. CASE Start
    BY <2>1 DEF Start, Lock, FocusAtStart
  <2>2. CASE Stop
    BY <2>2 DEF Stop, End, NothingOpen, CloseScreens
  <2>3. CASE SetClock
    BY <2>3 DEF SetClock
  <2>4. CASE DamageGrant
    <3>1. [active_grant EXCEPT !.intact = FALSE] \in Grants
      BY <2>4 DEF DamageGrant, Grants
    <3> QED
      BY <2>4, <3>1 DEF DamageGrant
  <2>5. ASSUME NEW p \in Profiles, SelectProfile(p) PROVE IInv'
    BY <2>5, CheckedGrant, UseIsEvent
      DEF SelectProfile, InMenus, Protected, InController
  <2>6. ASSUME NEW p \in Profiles, AskToUnlock(p) PROVE IInv'
    BY <2>6, CheckedGrant DEF AskToUnlock, InMenus, Protected, InController
  <2>7. CASE MenuTurnsAway
    BY <2>7, CheckedGrant DEF MenuTurnsAway, InMenus, TurnedAway,
                              InController, Protected
  <2>8. CASE MenuDashboard
    BY <2>8, CheckedGrant, UseIsEvent
      DEF MenuDashboard, InMenus, Admitted, InController, Protected
  <2>9. CASE MenuPicture
    BY <2>9, CheckedGrant DEF MenuPicture, InMenus, Admitted, InController,
                              Protected
  <2>10. CASE MenuBackup
    BY <2>10, CheckedGrant DEF MenuBackup, InMenus, Admitted, InController,
                               Protected
  <2>11. CASE MenuLeave
    BY <2>11 DEF MenuLeave, InMenus, Protected, LockAndReturn, InController,
                 Lock
  <2>12. ASSUME NEW pin \in Pins, SubmitUnlock(pin) PROVE IInv'
    BY <2>12, NewGrant DEF SubmitUnlock, InPrompt, VerifyPin, Verified,
                           InController
  <2>13. ASSUME NEW pin \in Pins, SubmitReauthentication(pin) PROVE IInv'
    BY <2>13, CheckedGrant DEF SubmitReauthentication, InPrompt, VerifyPin,
                               Verified, InController
  <2>14. ASSUME NEW pin \in Pins, SubmitWrong(pin) PROVE IInv'
    BY <2>14, CheckedGrant DEF SubmitWrong, InPrompt, VerifyPin, InController
  <2>15. ASSUME NEW pin \in Pins, SubmitExit(pin) PROVE IInv'
    BY <2>15 DEF SubmitExit, InPrompt, VerifyPin, End, Verified, InController,
                 NothingOpen, CloseScreens
  <2>16. CASE SubmitTooLate
    BY <2>16, CheckedGrant DEF SubmitTooLate, InPrompt, InController
  <2>17. CASE ClosePrompt
    BY <2>17 DEF ClosePrompt
  <2>18. CASE ExitDirectly
    <3>1. CASE End /\ Used("exit")
      BY <2>18, <3>1, CheckedGrant, UseIsEvent
      DEF ExitDirectly, End, NothingOpen, CloseScreens
    <3>2. CASE CloseScreens /\ Quiet /\ UNCHANGED <<up, session, prompt, workflow>>
      BY <2>18, <3>2, CheckedGrant DEF ExitDirectly, CloseScreens
    <3> QED
      BY <2>18, <3>1, <3>2 DEF ExitDirectly
  <2>19. CASE AskToExit
    BY <2>19, CheckedGrant DEF AskToExit, CloseScreens
  <2>20. CASE RefuseExit
    BY <2>20 DEF RefuseExit, CloseScreens
  <2>21. CASE HoldChord
    <3>1. CASE End /\ Used("chord")
      BY <2>21, <3>1, UseIsEvent
      DEF HoldChord, End, NothingOpen, CloseScreens
    <3>2. CASE CloseScreens /\ Quiet /\ UNCHANGED <<up, session, prompt, workflow>>
      BY <2>21, <3>2 DEF HoldChord, CloseScreens
    <3> QED
      BY <2>21, <3>1, <3>2 DEF HoldChord
  <2>22. CASE DashboardTurnsAway
    BY <2>22, CheckedGrant DEF DashboardTurnsAway, InDashboard, TurnedAway,
                               Protected
  <2>23. CASE DashboardLeave
    BY <2>23 DEF DashboardLeave, InDashboard, Protected, LockAndReturn, Lock
  <2>24. CASE DashboardUse
    BY <2>24, CheckedGrant, UseIsEvent
      DEF DashboardUse, InDashboard, Admitted, Protected
  <2>25. CASE DashboardHandoff
    BY <2>25, CheckedGrant, UseIsEvent
      DEF DashboardHandoff, InDashboard, Admitted, End, Protected, NothingOpen,
      CloseScreens
  <2>26. CASE DashboardPicture
    BY <2>26, CheckedGrant DEF DashboardPicture, InDashboard, Admitted,
                               Protected
  <2>27. CASE DashboardBackup
    BY <2>27, CheckedGrant, UseIsEvent
      DEF DashboardBackup, InDashboard, Admitted, Protected
  <2>28. CASE DashboardSetPin
    BY <2>28, CheckedGrant, UseIsEvent
      DEF DashboardSetPin, InDashboard, Admitted, Protected
  <2>29. ASSUME NEW pin \in Pins, VerifyOldPin(pin) PROVE IInv'
    BY <2>29 DEF VerifyOldPin, VerifyPin
  <2>30. ASSUME NEW pin \in Pins, SubmitNewPin(pin) PROVE IInv'
    <3>1. [pin |-> pin, combo |-> TRUE] \in Credentials
      BY DEF Credentials
    <3> QED
      BY <2>30, <3>1 DEF SubmitNewPin, SetPin, Lock
  <2>31. CASE SaveReference
    BY <2>31 DEF SaveReference
  <2>32. CASE CloseWorkflow
    BY <2>32 DEF CloseWorkflow
  <2>33. CASE ClosePicker
    BY <2>33 DEF ClosePicker, InPicker
  <2>34. CASE AssignPicture
    BY <2>34 DEF AssignPicture, InPicker, KeepOrRebuild, Rebuild
  <2>35. CASE ArchiveTurnsAway
    BY <2>35, CheckedGrant DEF ArchiveTurnsAway, InArchive, TurnedAway,
                               Protected
  <2>36. CASE ArchiveUse
    BY <2>36, CheckedGrant, UseIsEvent
      DEF ArchiveUse, InArchive, Admitted, Protected
  <2>37. CASE ArchiveClose
    BY <2>37, CheckedGrant DEF ArchiveClose, InArchive, Admitted,
                               KeepOrRebuild, Protected, Rebuild
  <2> QED
    BY <1>2, <2>1, <2>2, <2>3, <2>4, <2>5, <2>6, <2>7, <2>8, <2>9, <2>10, <2>11,
      <2>12, <2>13, <2>14, <2>15, <2>16, <2>17, <2>18, <2>19, <2>20, <2>21,
      <2>22, <2>23, <2>24, <2>25, <2>26, <2>27, <2>28, <2>29, <2>30, <2>31,
      <2>32, <2>33, <2>34, <2>35, <2>36, <2>37
    DEF Next, Menus, Prompting, Exiting, Dashboard, Workflow, Screens
<1> QED
  BY <1>1, <1>2

\* Every reachable state is well typed, and every screen, prompt and workflow
\* belongs to the profile it acts for (main.cpp lines 1532-1945).
THEOREM ScreensAreDisciplined == Spec => [](TypeOK /\ ScreensHaveAProfile)
<1>1. [pin : Pins, combo : {FALSE}] \subseteq Credentials
  BY DEF Credentials
<1>2. NoEvent \in Events
  BY DEF NoEvent, Events, Uses
<1>3. Init => TypeOK
  BY <1>1, <1>2 DEF Init, TypeOK, StoreTypeOK
<1>4. Init => ScreensHaveAProfile
  BY DEF Init, ScreensHaveAProfile
<1> QED
  BY <1>3, <1>4, ScreensStep, PTL DEF Spec, IInv

-----------------------------------------------------------------------------
\* What a step does that neither uses a parent's authority nor leaves Sprout
\* without the PIN.
Unauthoritative ==
  /\ event.kind # "parent"
  /\ event.kind = "exit" => event.pin

\* The five things a step may do to the grant.
Rests == UNCHANGED <<active_grant, credential>> /\ Unauthoritative'
Drops == active_grant' = NoGrant /\ Unauthoritative'
Observes == IsUnlocked /\ CheckGrant /\ UNCHANGED <<credential, now>>
Gives ==
  /\ credential # NoPin
  /\ GrantUntilEndOfDay
  /\ UNCHANGED <<credential, now>>
  /\ event'.kind = "parent" /\ event'.pin
Damages ==
  /\ active_grant # NoGrant
  /\ active_grant' = [active_grant EXCEPT !.intact = FALSE]
  /\ UNCHANGED credential
  /\ Unauthoritative'

StepOnGrant == Rests \/ Drops \/ Observes \/ Gives \/ Damages

LEMMA StepsOnGrant == Next => StepOnGrant
<1> USE DEF StepOnGrant, Rests, Drops, Observes, Unauthoritative, storeVars,
        Quiet, NoEvent, Used, UsedByParent, Lock
<1> SUFFICES ASSUME Next PROVE StepOnGrant
  OBVIOUS
<1>1. ~IsUnlocked /\ CheckGrant => active_grant' = NoGrant
  BY DEF CheckGrant
<1>2. CASE Next
  <2>1. CASE Start
    BY <2>1 DEF Start
  <2>2. CASE Stop
    BY <2>2 DEF Stop
  <2>3. CASE SetClock
    BY <2>3 DEF SetClock
  <2>4. CASE DamageGrant
    BY <2>4 DEF DamageGrant, Damages
  <2>5. ASSUME NEW p \in Profiles, SelectProfile(p) PROVE StepOnGrant
    BY <2>5, <1>1 DEF SelectProfile, Protected
  <2>6. ASSUME NEW p \in Profiles, AskToUnlock(p) PROVE StepOnGrant
    BY <2>6, <1>1 DEF AskToUnlock, Protected
  <2>7. CASE MenuTurnsAway
    BY <2>7, <1>1 DEF MenuTurnsAway, TurnedAway, Protected
  <2>8. CASE MenuDashboard
    BY <2>8, <1>1 DEF MenuDashboard, Admitted, Protected
  <2>9. CASE MenuPicture
    BY <2>9, <1>1 DEF MenuPicture, Admitted, Protected
  <2>10. CASE MenuBackup
    BY <2>10, <1>1 DEF MenuBackup, ParentActive, Admitted, Protected
  <2>11. CASE MenuLeave
    BY <2>11 DEF MenuLeave, Protected, LockAndReturn
  <2>12. ASSUME NEW pin \in Pins, SubmitUnlock(pin) PROVE StepOnGrant
    BY <2>12 DEF SubmitUnlock, Verified, VerifyPin, Gives
  <2>13. ASSUME NEW pin \in Pins, SubmitReauthentication(pin) PROVE StepOnGrant
    BY <2>13, <1>1 DEF SubmitReauthentication, Verified
  <2>14. ASSUME NEW pin \in Pins, SubmitWrong(pin) PROVE StepOnGrant
    BY <2>14, <1>1 DEF SubmitWrong
  <2>15. ASSUME NEW pin \in Pins, SubmitExit(pin) PROVE StepOnGrant
    BY <2>15 DEF SubmitExit, Verified
  <2>16. CASE SubmitTooLate
    BY <2>16, <1>1 DEF SubmitTooLate
  <2>17. CASE ClosePrompt
    BY <2>17 DEF ClosePrompt
  <2>18. CASE ExitDirectly
    BY <2>18, <1>1 DEF ExitDirectly, Protected
  <2>19. CASE AskToExit
    BY <2>19, <1>1 DEF AskToExit, ParentActive
  <2>20. CASE RefuseExit
    BY <2>20 DEF RefuseExit
  <2>21. CASE HoldChord
    <3>1. Used("chord") => Unauthoritative'
      OBVIOUS
    <3>2. Quiet => Unauthoritative'
      OBVIOUS
    <3> QED
      BY <2>21, <3>1, <3>2 DEF HoldChord
  <2>22. CASE DashboardTurnsAway
    BY <2>22, <1>1 DEF DashboardTurnsAway, TurnedAway, Protected
  <2>23. CASE DashboardLeave
    BY <2>23 DEF DashboardLeave, Protected, LockAndReturn
  <2>24. CASE DashboardUse
    BY <2>24, <1>1 DEF DashboardUse, Admitted, Protected
  <2>25. CASE DashboardHandoff
    BY <2>25, <1>1 DEF DashboardHandoff, Admitted, Protected
  <2>26. CASE DashboardPicture
    BY <2>26, <1>1 DEF DashboardPicture, Admitted, Protected
  <2>27. CASE DashboardBackup
    BY <2>27, <1>1 DEF DashboardBackup, ParentActive, Admitted, Protected
  <2>28. CASE DashboardSetPin
    BY <2>28, <1>1 DEF DashboardSetPin, ParentActive, Admitted, Protected
  <2>29. ASSUME NEW pin \in Pins, VerifyOldPin(pin) PROVE StepOnGrant
    BY <2>29 DEF VerifyOldPin
  <2>30. ASSUME NEW pin \in Pins, SubmitNewPin(pin) PROVE StepOnGrant
    BY <2>30 DEF SubmitNewPin, SetPin
  <2>31. CASE SaveReference
    BY <2>31 DEF SaveReference
  <2>32. CASE CloseWorkflow
    BY <2>32 DEF CloseWorkflow
  <2>33. CASE ClosePicker
    BY <2>33 DEF ClosePicker
  <2>34. CASE AssignPicture
    BY <2>34 DEF AssignPicture
  <2>35. CASE ArchiveTurnsAway
    BY <2>35, <1>1 DEF ArchiveTurnsAway, TurnedAway, Protected
  <2>36. CASE ArchiveUse
    BY <2>36, <1>1 DEF ArchiveUse, Admitted, Protected
  <2>37. CASE ArchiveClose
    BY <2>37, <1>1 DEF ArchiveClose, Admitted, Protected
  <2> QED
    BY <1>2, <2>1, <2>2, <2>3, <2>4, <2>5, <2>6, <2>7, <2>8, <2>9, <2>10, <2>11,
      <2>12, <2>13, <2>14, <2>15, <2>16, <2>17, <2>18, <2>19, <2>20, <2>21,
      <2>22, <2>23, <2>24, <2>25, <2>26, <2>27, <2>28, <2>29, <2>30, <2>31,
      <2>32, <2>33, <2>34, <2>35, <2>36, <2>37
    DEF Next, Menus, Prompting, Exiting, Dashboard, Workflow, Screens
<1> QED
  BY <1>2

-----------------------------------------------------------------------------
\* set_pin deletes the grant with the old hash, so no grant was ever given for
\* a PIN that is no longer the parent's (lines 350-358).
THEOREM GrantsAreOfTheCurrentPin == Spec => []GrantIsOfCurrentPin
<1>1. Init => GrantIsOfCurrentPin
  BY DEF Init, GrantIsOfCurrentPin
<1>2. TypeOK /\ GrantIsOfCurrentPin /\ [Next]_vars => GrantIsOfCurrentPin'
  <2> SUFFICES ASSUME TypeOK, GrantIsOfCurrentPin, [Next]_vars
               PROVE  GrantIsOfCurrentPin'
    OBVIOUS
  <2> USE DEF GrantIsOfCurrentPin, TypeOK, StoreTypeOK, Grants
  <2>1. CASE UNCHANGED vars \/ Rests
    BY <2>1 DEF vars, storeVars, Rests
  <2>2. CASE Drops
    BY <2>2 DEF Drops
  <2>3. CASE Observes
    BY <2>3 DEF Observes, IsUnlocked, CheckGrant
  <2>4. CASE Gives
    BY <2>4 DEF Gives, GrantUntilEndOfDay
  <2>5. CASE Damages
    BY <2>5 DEF Damages
  <2> QED
    BY <2>1, <2>2, <2>3, <2>4, <2>5, StepsOnGrant DEF StepOnGrant
<1> QED
  BY <1>1, <1>2, ScreensAreDisciplined, PTL DEF Spec

Authorized == ParentActsOnlyWithGrant /\ ExitIsAuthorized

LEMMA AlwaysAuthorized == Spec => []Authorized
<1> USE DEF Authorized, ParentActsOnlyWithGrant, ExitIsAuthorized, JustChecked
<1>1. Init => Authorized
  BY DEF Init, NoEvent
<1>2. TypeOK /\ Authorized /\ [Next]_vars => Authorized'
  <2> SUFFICES ASSUME TypeOK, Authorized, [Next]_vars PROVE Authorized'
    OBVIOUS
  <2>1. CASE UNCHANGED vars
    BY <2>1 DEF vars, storeVars
  <2>2. CASE Rests \/ Drops \/ Damages
    BY <2>2 DEF Rests, Drops, Damages, Unauthoritative
  <2>3. CASE Observes
    <3>1. JustChecked'
      <4>1. active_grant \in Grants /\ active_grant' \in Grants
        BY <2>3, CheckedGrant
        DEF TypeOK, StoreTypeOK, Observes, IsUnlocked, CheckGrant, Grants
      <4> QED
        BY <2>3, <4>1, NoneAssumption
        DEF Observes, IsUnlocked, CheckGrant, Grants
    <3> QED
      BY <3>1
  <2>4. CASE Gives
    <3>1. JustChecked'
      <4>1. active_grant' \in Grants
        BY <2>4, NewGrant DEF Gives
      <4> QED
        BY <2>4, <4>1, NoneAssumption DEF Gives, GrantUntilEndOfDay
    <3> QED
      BY <3>1
  <2> QED
    BY <2>1, <2>2, <2>3, <2>4, StepsOnGrant DEF StepOnGrant
<1> QED
  BY <1>1, <1>2, ScreensAreDisciplined, PTL DEF Spec

\* Whatever is open and however the clock is moved, a parent's dashboard is
\* used only on a grant that holds at that moment
\* (ensure_active_profile_access).
THEOREM AuthorityIsGranted == Spec => []ParentActsOnlyWithGrant
<1>1. Authorized => ParentActsOnlyWithGrant
  BY DEF Authorized
<1> QED
  BY <1>1, AlwaysAuthorized, PTL

\* Sprout is left from the menu only by a parent whose grant holds at that
\* moment or who has just given the PIN (request_exit).
THEOREM ExitsAreAuthorized == Spec => []ExitIsAuthorized
<1>1. Authorized => ExitIsAuthorized
  BY DEF Authorized
<1> QED
  BY <1>1, AlwaysAuthorized, PTL

\* Only the PIN makes a grant or extends one: without it a grant is observed
\* later and later on its own day, or it is gone (is_unlocked, lines 445-476).
THEOREM GrantsAgeOnly == Spec => GrantsOnlyAge
<1>1. TypeOK /\ [Next]_vars =>
        [~event'.pin /\ active_grant' # NoGrant =>
           /\ active_grant # NoGrant
           /\ active_grant'.local_date = active_grant.local_date
           /\ active_grant'.last_observed >= active_grant.last_observed]_vars
  <2> SUFFICES ASSUME TypeOK, Next, ~event'.pin, active_grant' # NoGrant
               PROVE  /\ active_grant # NoGrant
                      /\ active_grant'.local_date = active_grant.local_date
                      /\ active_grant'.last_observed
                           >= active_grant.last_observed
    OBVIOUS
  <2> USE DEF TypeOK, StoreTypeOK, Grants, Instants
  <2>1. CASE Rests
    BY <2>1, AccessAssumption DEF Rests
  <2>2. CASE Observes
    BY <2>2, AccessAssumption DEF Observes, IsUnlocked, CheckGrant
  <2>3. CASE Damages
    BY <2>3, AccessAssumption DEF Damages
  <2> QED
    BY <2>1, <2>2, <2>3, StepsOnGrant DEF StepOnGrant, Drops, Gives
<1> QED
  BY <1>1, ScreensAreDisciplined, PTL DEF Spec, GrantsOnlyAge

=============================================================================
