----------------------------- MODULE StartupProofs ----------------------------
(***************************************************************************)
(* Theorems about starting the launcher.  StartupHealth, for any number of *)
(* launchers, any recovery threshold and any number of attempts: the count *)
(* is the evidence.  SupervisorLock, for any number of wrappers: what the  *)
(* lock's directory guarantees by itself, and that launchers which come    *)
(* and go under several wrappers still obey that evidence.  SafeBoot, for  *)
(* any number of setup steps, seeded profiles and faults: starts are       *)
(* counted as the store promises, recovery opens exactly when it must,     *)
(* damage stays where it is and the wizard never works on an old           *)
(* configuration.                                                          *)
(***************************************************************************)
EXTENDS SafeBoot, SupervisorLock, TLAPS

-----------------------------------------------------------------------------
(* The store of startup evidence. *)

\* One step keeps the types and ranges of the row and of the attempts.
LEMMA HealthStepTypes ==
  HealthTypeOK /\ [HealthNext]_healthVars => HealthTypeOK'
<1> SUFFICES ASSUME HealthTypeOK, [HealthNext]_healthVars
             PROVE  HealthTypeOK'
  OBVIOUS
<1> USE HealthAssumption
<1>1. CASE UNCHANGED healthVars
  BY <1>1 DEF HealthTypeOK, healthVars, healthRow
<1>2. ASSUME NEW l \in Launchers, BeginStartup(l) PROVE HealthTypeOK'
  <2>1. Failures \in 0..RecoveryThreshold
    BY DEF Failures, AtMost, HealthTypeOK
  <2> QED
    BY <1>2, <2>1 DEF BeginStartup, HealthTypeOK
<1>3. ASSUME NEW l \in Launchers, MarkReady(l) PROVE HealthTypeOK'
  BY <1>3 DEF MarkReady, HealthTypeOK
<1>4. ASSUME NEW l \in Launchers, Abandon(l) PROVE HealthTypeOK'
  BY <1>4 DEF Abandon, healthRow, HealthTypeOK
<1> QED
  BY <1>1, <1>2, <1>3, <1>4 DEF HealthNext, RefuseReady

\* The row and the launchers' attempts keep their types and ranges under every
\* operation of the store (the columns' CHECK constraints, lines 157-170).
THEOREM HealthTypeCorrect == HealthSpec => []HealthTypeOK
<1>1. HealthInit => HealthTypeOK
  BY HealthAssumption DEF HealthInit, HealthTypeOK
<1> QED
  BY <1>1, HealthStepTypes, PTL DEF HealthSpec

\* Acknowledged or superseded, an attempt that is not the newest is never the
\* active one: this is what makes the identity test of mark_ready sufficient.
ActiveIsNewest == active_attempt_id \in {0, next_attempt_id - 1}

\* The count equals the number of attempts that failed since the last
\* acknowledgement, saturated at the threshold.
THEOREM CountIsTheEvidence == HealthSpec => []EvidenceIsExact
<1>1. HealthInit => EvidenceIsExact
  BY DEF HealthInit, EvidenceIsExact
<1>2. HealthTypeOK /\ EvidenceIsExact /\ [HealthNext]_healthVars
        => EvidenceIsExact'
  <2> SUFFICES ASSUME HealthTypeOK, EvidenceIsExact, [HealthNext]_healthVars
               PROVE  EvidenceIsExact'
    OBVIOUS
  <2> USE HealthAssumption
  <2>1. CASE UNCHANGED healthVars
    BY <2>1 DEF EvidenceIsExact, healthVars, healthRow
  <2>2. ASSUME NEW l \in Launchers, BeginStartup(l) PROVE EvidenceIsExact'
    <3>1. active_attempt_id' # 0 /\ begun' # 0 /\ begun' = begun + 1
      BY <2>2 DEF BeginStartup, HealthTypeOK
    <3>2. consecutive_failures' = AtMost(RecoveryThreshold, begun)
      BY <2>2 DEF BeginStartup, Failures, AtMost, EvidenceIsExact, HealthTypeOK
    <3> QED
      BY <3>1, <3>2 DEF EvidenceIsExact, HealthTypeOK, AtMost
  <2>3. ASSUME NEW l \in Launchers, MarkReady(l) PROVE EvidenceIsExact'
    BY <2>3 DEF MarkReady, EvidenceIsExact
  <2>4. ASSUME NEW l \in Launchers, Abandon(l) PROVE EvidenceIsExact'
    BY <2>4 DEF Abandon, healthRow, EvidenceIsExact
  <2> QED
    BY <2>1, <2>2, <2>3, <2>4 DEF HealthNext, RefuseReady
<1> QED
  BY <1>1, <1>2, HealthTypeCorrect, PTL DEF HealthSpec

\* No two launchers ever hold the same attempt.
THEOREM AttemptsStayDistinct == HealthSpec => []AttemptsAreDistinct
<1>1. HealthInit => AttemptsAreDistinct
  BY DEF HealthInit, AttemptsAreDistinct
<1>2. HealthTypeOK /\ AttemptsAreDistinct /\ [HealthNext]_healthVars
        => AttemptsAreDistinct'
  <2> SUFFICES ASSUME HealthTypeOK, AttemptsAreDistinct,
                      [HealthNext]_healthVars
               PROVE  AttemptsAreDistinct'
    OBVIOUS
  <2>1. CASE UNCHANGED healthVars
    BY <2>1 DEF AttemptsAreDistinct, healthVars
  <2>2. ASSUME NEW l \in Launchers, BeginStartup(l)
        PROVE  AttemptsAreDistinct'
    <3>1. next_attempt_id \in Nat /\ next_attempt_id > 0
      BY HealthAssumption DEF HealthTypeOK
    <3>2. \A k \in Launchers : startup_attempt_id[k] < next_attempt_id
      BY <3>1 DEF HealthTypeOK
    <3> QED
      BY <2>2, <3>1, <3>2 DEF BeginStartup, AttemptsAreDistinct, HealthTypeOK
  <2>3. ASSUME NEW l \in Launchers,
               startup_attempt_id' = [startup_attempt_id EXCEPT ![l] = 0]
        PROVE  AttemptsAreDistinct'
    BY <2>3 DEF AttemptsAreDistinct, HealthTypeOK
  <2> QED
    BY <2>1, <2>2, <2>3
    DEF HealthNext, MarkReady, RefuseReady, Abandon
<1> QED
  BY <1>1, <1>2, HealthTypeCorrect, PTL DEF HealthSpec

\* The active attempt is the newest one or there is none.
LEMMA NewestIsActive == HealthSpec => []ActiveIsNewest
<1>1. HealthInit => ActiveIsNewest
  BY DEF HealthInit, ActiveIsNewest
<1>2. HealthTypeOK /\ ActiveIsNewest /\ [HealthNext]_healthVars
        => ActiveIsNewest'
  BY HealthAssumption
  DEF HealthTypeOK, ActiveIsNewest, HealthNext, BeginStartup, MarkReady,
      RefuseReady, Abandon, healthVars, healthRow
<1> QED
  BY <1>1, <1>2, HealthTypeCorrect, PTL DEF HealthSpec

\* A superseded launcher cannot clear the evidence against its successor.
THEOREM EvidenceIsClearedByTheNewest == HealthSpec => OnlyTheNewestClears
<1>1. HealthTypeOK /\ ActiveIsNewest /\ [HealthNext]_healthVars =>
        [active_attempt_id # 0 /\ active_attempt_id' = 0 =>
           \E l \in Launchers : /\ startup_attempt_id[l] = next_attempt_id - 1
                                /\ startup_attempt_id'[l] = 0]_healthVars
  <2> SUFFICES ASSUME HealthTypeOK, ActiveIsNewest, HealthNext,
                      active_attempt_id # 0, active_attempt_id' = 0
               PROVE  \E l \in Launchers :
                        /\ startup_attempt_id[l] = next_attempt_id - 1
                        /\ startup_attempt_id'[l] = 0
    OBVIOUS
  <2>1. PICK l \in Launchers : MarkReady(l)
    BY HealthAssumption
    DEF HealthNext, BeginStartup, RefuseReady, Abandon, healthRow,
        HealthTypeOK
  <2>2. startup_attempt_id[l] = next_attempt_id - 1
    BY <2>1 DEF MarkReady, Matches, ActiveIsNewest
  <2>3. startup_attempt_id'[l] = 0
    BY <2>1 DEF MarkReady, HealthTypeOK
  <2> QED
    BY <2>2, <2>3
<1> QED
  BY <1>1, HealthTypeCorrect, NewestIsActive, PTL
  DEF HealthSpec, OnlyTheNewestClears

-----------------------------------------------------------------------------
(* The wrappers and their lock. *)

Places == {"arrive", "read", "probe", "unlink", "rmdir", "again", "refused",
           "wait", "claim", "supervise", "release", "unlock", "gone"}

LockTypeOK ==
  /\ locked \in BOOLEAN
  /\ pid \in Launchers \cup {0}
  /\ at \in [Launchers -> Places]
  /\ seen \in [Launchers -> Launchers \cup {0}]
  /\ launcher \in [Launchers -> {"none", "new", "begun"}]
  /\ reclaimed \in BOOLEAN

\* A launcher holds an attempt only after it has begun one.
AttemptsAreBegun ==
  \A w \in Launchers : launcher[w] # "begun" => startup_attempt_id[w] = 0

\* The wrapper that made the directory, until it has removed it again.
Holds(w) == at[w] \in {"claim", "supervise", "release", "unlock"}

\* While no lock was reclaimed the directory has one owner, nobody else is
\* past the mkdir, and the owner that leaves has taken its pid away.
Exclusion ==
  ~reclaimed =>
    \A w \in Launchers :
      /\ at[w] # "rmdir"
      /\ at[w] = "unlink" => seen[w] # 0
      /\ Holds(w) => locked /\ \A v \in Launchers : Holds(v) => v = w
      /\ at[w] = "unlock" => pid = 0

LInv == LockTypeOK /\ Exclusion

-----------------------------------------------------------------------------
\* The steps of the lock, the health store left alone or not.
LockStep(w) ==
  \/ Arrive(w) \/ ReadOwner(w) \/ Probe(w) \/ Unlink(w) \/ Reclaim(w)
  \/ Again(w) \/ Refused(w) \/ Wait(w) \/ Claim(w)
  \/ StartSupervised(w) \/ LeaveLoop(w) \/ Release(w) \/ Unlock(w) \/ Kill(w)

LEMMA LockStepTypes ==
  ASSUME LockTypeOK, NEW w \in Launchers, LockStep(w) \/ RunLauncher(w)
  PROVE  LockTypeOK'
<1> USE DEF LockTypeOK, Places, Goes, lock
<1>1. CASE Arrive(w) \/ Again(w)
  BY <1>1 DEF Arrive, Again, Command, Mkdir
<1>2. CASE ReadOwner(w) \/ Probe(w) \/ Refused(w) \/ Wait(w)
  BY <1>2 DEF ReadOwner, Probe, Refused, Wait, Command
<1>3. CASE Unlink(w) \/ Claim(w) \/ Release(w)
  BY <1>3 DEF Unlink, Claim, Release, Command
<1>4. CASE Reclaim(w) \/ Unlock(w)
  BY <1>4 DEF Reclaim, Unlock, Rmdir, Command
<1>5. CASE StartSupervised(w) \/ LeaveLoop(w) \/ Kill(w)
  BY <1>5 DEF StartSupervised, LeaveLoop, Kill, Command
<1>6. CASE RunLauncher(w)
  BY <1>6 DEF RunLauncher
<1> QED
  BY <1>1, <1>2, <1>3, <1>4, <1>5, <1>6 DEF LockStep

LEMMA LockStepExcludes ==
  ASSUME LInv, NEW w \in Launchers, LockStep(w) \/ RunLauncher(w)
  PROVE  Exclusion'
<1> USE DEF LInv, LockTypeOK, Exclusion, Holds, Goes, lock, Places
<1>1. CASE Arrive(w) \/ Again(w)
  \* Who makes the directory finds it unmade: nobody else holds it.
  BY <1>1 DEF Arrive, Again, Command, Mkdir
<1>2. CASE ReadOwner(w) \/ Probe(w) \/ Refused(w) \/ Wait(w)
  BY <1>2 DEF ReadOwner, Probe, Refused, Wait, Command, IsStale
<1>3. CASE Unlink(w)
  BY <1>3 DEF Unlink, Command
<1>4. CASE Reclaim(w)
  BY <1>4 DEF Reclaim, Rmdir, Command
<1>5. CASE Claim(w) \/ Release(w)
  BY <1>5 DEF Claim, Release, Command
<1>6. CASE Unlock(w)
  BY <1>6 DEF Unlock, Rmdir, Command
<1>7. CASE StartSupervised(w) \/ LeaveLoop(w) \/ Kill(w)
  BY <1>7 DEF StartSupervised, LeaveLoop, Kill, Command
<1>8. CASE RunLauncher(w)
  BY <1>8 DEF RunLauncher
<1> QED
  BY <1>1, <1>2, <1>3, <1>4, <1>5, <1>6, <1>7, <1>8 DEF LockStep

LEMMA LockInvariant == LockSpec => []LInv
<1>1. LockInit => LInv
  BY DEF LockInit, LInv, LockTypeOK, Exclusion, Holds, Places
<1>2. LInv /\ [LockNext]_supervisorVars => LInv'
  <2> SUFFICES ASSUME LInv, [LockNext]_supervisorVars PROVE LInv'
    OBVIOUS
  <2>1. CASE UNCHANGED supervisorVars
    BY <2>1 DEF supervisorVars, lockVars, lock, LInv, LockTypeOK, Exclusion, Holds
  <2>2. CASE LockNext
    <3>1. PICK w \in Launchers : LockStep(w) \/ RunLauncher(w)
      BY <2>2 DEF LockNext, LockStep
    <3> QED
      BY <3>1, LockStepTypes, LockStepExcludes DEF LInv
  <2> QED
    BY <2>1, <2>2
<1> QED
  BY <1>1, <1>2, PTL DEF LockSpec

\* Any number of wrappers, started and killed at any command: two supervise at
\* once only after a dead owner's lock was removed (lines 18-51, 82-85).
THEOREM LockExcludes == LockSpec => []OneSupervisorUntilReclaimed
<1>1. LInv => OneSupervisorUntilReclaimed
  BY DEF LInv, Exclusion, Holds, OneSupervisorUntilReclaimed, Supervising
<1> QED
  BY <1>1, LockInvariant, PTL

-----------------------------------------------------------------------------
\* What the wrappers' launchers do to the database is what any launchers may
\* do: the store's specification is implemented.
THEOREM SupervisedLaunchersUseTheStore == LockSpec => HealthSpec
<1> DEFINE I == HealthTypeOK /\ LockTypeOK /\ AttemptsAreBegun
<1> USE DEF I
<1>1. LockInit => AttemptsAreBegun /\ HealthInit
  BY DEF LockInit, HealthInit, AttemptsAreBegun
<1>2. I /\ [LockNext]_supervisorVars => AttemptsAreBegun' /\ [HealthNext]_healthVars
  <2> SUFFICES ASSUME I, [LockNext]_supervisorVars
               PROVE  AttemptsAreBegun' /\ [HealthNext]_healthVars
    OBVIOUS
  <2> USE DEF LockTypeOK, HealthTypeOK, AttemptsAreBegun
  <2>1. CASE UNCHANGED supervisorVars
    BY <2>1 DEF supervisorVars, lockVars, healthVars
  <2>2. ASSUME NEW w \in Launchers, LockStep(w)
        PROVE  AttemptsAreBegun' /\ UNCHANGED healthVars
    BY <2>2
    DEF LockStep, Arrive, ReadOwner, Probe, Unlink, Reclaim, Again, Refused,
        Wait, Claim, StartSupervised, LeaveLoop, Release, Unlock, Kill, Command,
        healthVars
  <2>3. ASSUME NEW w \in Launchers, RunLauncher(w)
        PROVE  AttemptsAreBegun' /\ [HealthNext]_healthVars
    <3>1. CASE /\ launcher[w] = "new" /\ BeginStartup(w)
               /\ launcher' = [launcher EXCEPT ![w] = "begun"]
      BY <2>3, <3>1 DEF RunLauncher, BeginStartup, HealthNext
    <3>2. CASE MarkReady(w) /\ UNCHANGED launcher
      BY <3>2 DEF MarkReady, HealthNext
    <3>3. CASE /\ RefuseReady(w) \/ Abandon(w)
               /\ launcher' = [launcher EXCEPT ![w] = "none"]
      <4>1. Abandon(w)
        BY <3>3 DEF RefuseReady
      <4>2. AttemptsAreBegun'
        BY <3>3, <4>1 DEF Abandon
      <4>3. CASE startup_attempt_id[w] = 0
        BY <4>1, <4>2, <4>3 DEF Abandon, healthVars
      <4>4. CASE startup_attempt_id[w] # 0
        BY <4>1, <4>2, <4>4 DEF HealthNext
      <4> QED
        BY <4>2, <4>3, <4>4
    <3> QED
      BY <2>3, <3>1, <3>2, <3>3 DEF RunLauncher
  <2> QED
    BY <2>1, <2>2, <2>3 DEF LockNext, LockStep
<1>3. LockSpec => []LockTypeOK
  BY LockInvariant, PTL DEF LInv
<1>4. HealthInit => HealthTypeOK
  BY HealthAssumption DEF HealthInit, HealthTypeOK
<1> QED
  BY <1>1, <1>2, <1>3, <1>4, HealthStepTypes, PTL DEF LockSpec, HealthSpec

\* Under the wrappers too the count is exactly the evidence, and a superseded
\* launcher clears nothing.
THEOREM SupervisedEvidence == LockSpec => []EvidenceIsExact /\ OnlyTheNewestClears
  BY SupervisedLaunchersUseTheStore, CountIsTheEvidence,
     EvidenceIsClearedByTheNewest, PTL

-----------------------------------------------------------------------------
(* The launcher that is started. *)

\* Every step that ends the launcher.
Endings ==
  \/ PreparationFails \/ OpenFails \/ SettingsFail \/ LeaveRecovery \/ Die
  \/ Leave

LEMMA EndingsEnd == Endings => Ended /\ phase # "down"
  BY DEF Endings, PreparationFails, OpenFails, SettingsFail, LeaveRecovery,
         InMenu, Die, Leave

\* Steps that touch neither the health store nor a configuration.
Quiet ==
  \/ StartLauncher \/ Open \/ SeedProfile \/ MoveFocus \/ Cancel
  \/ ChooseAction \/ BeginResetWithoutFile \/ CorruptSeed

LEMMA QuietSteps ==
  Quiet => /\ UNCHANGED <<healthVars, configurationVars, configuration>>
           /\ repaired' = repaired
           /\ \/ phase' = phase
              \/ phase = "down" /\ phase' = "preparing"
              \/ phase = "opening" /\ phase' \in {"seeding", "wizard"}
              \/ phase = "recovery" /\ phase' = "reset-save"
  BY DEF Quiet, StartLauncher, Open, SeedProfile, MoveFocus, Cancel,
         ChooseAction, BeginResetWithoutFile, CorruptSeed, InMenu, history

\* Steps that save, move or damage a configuration.
Saves ==
  \/ SeedConfiguration \/ FinishSeed \/ LoadConfiguration \/ MakeConfiguration
  \/ FinishConfiguration \/ AdvanceSetup \/ FinishAdvance \/ AdvanceRefused
  \/ SaveSettings \/ FinishSettings \/ ApplyRestore \/ BeginReset
  \/ FinishReset \/ WriteFails \/ CorruptActive \/ CorruptSnapshot

LEMMA StepCases == Next => Endings \/ Quiet \/ Saves \/ Decide \/ RenderFrame
  BY DEF Next, Startup, Setup, Recovery, Media, Endings, Quiet, Saves

LEMMA SavesLeaveHealth ==
  Saves => /\ UNCHANGED healthVars
           /\ repaired' \in {TRUE, repaired}
           /\ phase \in {"recovery", "reset-save"} =>
                phase' \in {"recovery", "reset-save"} \/ repaired'
           /\ phase \in {"down", "preparing"} => phase' = phase
           /\ phase' \in {"down", "preparing"} => phase' = phase
           /\ phase' \in {"recovery", "reset-save"} =>
                phase \in {"recovery", "reset-save"}
  BY DEF Saves, SeedConfiguration, FinishSeed, LoadConfiguration,
         MakeConfiguration, FinishConfiguration, AdvanceSetup, FinishAdvance,
         AdvanceRefused, SaveSettings, FinishSettings, ApplyRestore,
         BeginReset, FinishReset, WriteFails, CorruptActive, CorruptSnapshot,
         InMenu, history

-----------------------------------------------------------------------------
(* Startup evidence. *)

\* A launcher that has not begun its attempt holds none.
AttemptIsBegun ==
  /\ startup_attempt_id[Launcher] # 0 => phase \notin {"down", "preparing"}

\* One launcher at a time, started and ended as SafeBoot has it, uses the store
\* of the evidence as any launchers may.
THEOREM StartupUsesTheStore == Spec => HealthSpec
<1> DEFINE I == HealthTypeOK /\ AttemptIsBegun
<1>1. Init => HealthInit /\ AttemptIsBegun
  BY BootAssumption DEF Init, HealthInit, AttemptIsBegun
<1>2. I /\ [Next]_vars => AttemptIsBegun' /\ [HealthNext]_healthVars
  <2> SUFFICES ASSUME I, [Next]_vars
               PROVE  AttemptIsBegun' /\ [HealthNext]_healthVars
    OBVIOUS
  <2> USE BootAssumption DEF AttemptIsBegun, HealthTypeOK
  <2>1. CASE UNCHANGED vars
    BY <2>1 DEF vars, healthVars, bootVars
  <2>2. CASE Endings
    <3>1. Abandon(Launcher)
      BY <2>2, EndingsEnd DEF Ended
    <3>2. startup_attempt_id'[Launcher] = 0
      BY <3>1 DEF Abandon
    <3>3. CASE startup_attempt_id[Launcher] = 0
      BY <3>1, <3>2, <3>3 DEF Abandon, healthVars
    <3>4. CASE startup_attempt_id[Launcher] # 0
      BY <3>1, <3>2, <3>4 DEF HealthNext
    <3> QED
      BY <3>3, <3>4
  <2>3. CASE Quiet
    <3>1. startup_attempt_id' = startup_attempt_id
      BY <2>3, QuietSteps DEF healthVars
    <3> QED
      BY <2>3, <3>1, QuietSteps
  <2>4. CASE Saves
    <3>1. startup_attempt_id' = startup_attempt_id
      BY <2>4, SavesLeaveHealth DEF healthVars
    <3> QED
      BY <2>4, <3>1, SavesLeaveHealth
  <2>5. CASE Decide
    BY <2>5 DEF Decide, HealthNext
  <2>6. CASE RenderFrame
    BY <2>6 DEF RenderFrame, MarkReady, HealthNext
  <2> QED
    BY <2>1, <2>2, <2>3, <2>4, <2>5, <2>6, StepCases
<1>3. HealthInit => HealthTypeOK
  BY HealthAssumption DEF HealthInit, HealthTypeOK
<1> QED
  BY <1>1, <1>2, <1>3, HealthStepTypes, PTL DEF Spec, HealthSpec

\* The recovery menu is opened only when at least the threshold of attempts in
\* a row were left unfinished, and past it every launcher that opens the stores
\* has restored or reset the configuration itself.
THEOREM RecoveryOpensAtThreshold == Spec => []RecoveryAfterThreshold
<1>1. Init => RecoveryAfterThreshold
  BY BootAssumption
  DEF Init, HealthInit, RecoveryAfterThreshold, StoresMayOpen
<1>2. HealthTypeOK /\ EvidenceIsExact /\ EvidenceIsExact'
      /\ RecoveryAfterThreshold /\ [Next]_vars => RecoveryAfterThreshold'
  <2> SUFFICES ASSUME HealthTypeOK, EvidenceIsExact', EvidenceIsExact,
                      RecoveryAfterThreshold, [Next]_vars
               PROVE  RecoveryAfterThreshold'
    OBVIOUS
  <2> USE BootAssumption, HealthAssumption
      DEF RecoveryAfterThreshold, StoresMayOpen, HealthTypeOK
  <2>1. CASE UNCHANGED vars
    BY <2>1 DEF vars, healthVars, bootVars
  <2>2. CASE Endings
    <3>1. Ended
      BY <2>2, EndingsEnd
    <3> QED
      BY <3>1 DEF Ended, Abandon
  <2>3. CASE Quiet
    BY <2>3, QuietSteps DEF healthVars
  <2>4. CASE Saves
    BY <2>4, SavesLeaveHealth DEF healthVars
  <2>5. CASE Decide
    <3>1. begun' = begun + 1
      BY <2>5 DEF Decide, BeginStartup
    <3>2. consecutive_failures' = AtMost(RecoveryThreshold, begun)
      BY <3>1 DEF EvidenceIsExact
    <3>3. RecoveryRequired <=> begun' > RecoveryThreshold
      BY <3>1, <3>2 DEF RecoveryRequired, AtMost
    <3> QED
      BY <2>5, <3>3 DEF Decide
  <2>6. CASE RenderFrame
    BY <2>6 DEF RenderFrame, MarkReady
  <2> QED
    BY <2>1, <2>2, <2>3, <2>4, <2>5, <2>6, StepCases
<1> QED
  BY <1>1, <1>2, StartupUsesTheStore, HealthTypeCorrect,
     CountIsTheEvidence, PTL DEF Spec

-----------------------------------------------------------------------------
(* Configurations. *)

FileTypes ==
  /\ active \in Contents \cup {Absent, Corrupt}
  /\ last_known_good \in Contents \cup {Absent, Corrupt}
  /\ writing \in Contents \cup {NotWriting}
  /\ configuration \in Contents

\* The wizard's copy has the revision of the file it may be saved over, from
\* its first frame, through saves begun and failed, to the last step; changes
\* of the settings come only after that.
WizardFollows ==
  /\ phase \in {"frame", "ready"} /\ Parses(active)
     /\ (writing # NotWriting \/ configuration.step < LastStep)
       => configuration.revision = active.revision
  /\ phase = "settings-save" => configuration.step = LastStep

FilesInv == FileTypes /\ WizardFollows

LEMMA FreshIsContents == Fresh \in Contents
  BY DEF Fresh, Contents

\* The first half of a save, whoever begins it.
LEMMA BeginSaveEffect ==
  ASSUME FileTypes, NEW c \in Contents, BeginSave(c)
  PROVE  /\ active' = active
         /\ last_known_good' \in Contents \cup {Absent, Corrupt}
         /\ Parses(last_known_good) => Parses(last_known_good')
         /\ writing' \in Contents
         /\ Parses(active) => c.revision = active.revision
<1>1. [c EXCEPT !.revision = @ + 1] \in Contents
  BY DEF Contents
<1>2. /\ active' = active
      /\ last_known_good' = IF active = Absent THEN last_known_good ELSE active
      /\ writing' = [c EXCEPT !.revision = @ + 1]
      /\ active # Absent => Parses(active) /\ c.revision = active.revision
  BY DEF BeginSave, SaveAccepted
<1> QED
  BY <1>1, <1>2 DEF FileTypes, Parses

LEMMA FilesStep == FilesInv /\ [Next]_vars => FilesInv'
<1> SUFFICES ASSUME FilesInv, [Next]_vars PROVE FilesInv'
  OBVIOUS
<1> USE ConfigurationAssumption DEF FilesInv, FileTypes, WizardFollows
<1>p. \A file : Parses(file) <=> file \notin {Absent, Corrupt}
  BY DEF Parses
<1>n. configuration.revision \in Nat /\ configuration.step \in Nat
  BY DEF Contents
<1>1. CASE UNCHANGED vars
  BY <1>1 DEF vars, configurationVars, bootVars, Parses
<1>2. CASE Endings
  <2>1. Ended
    BY <1>2, EndingsEnd
  <2>2. /\ phase' = "down" /\ configuration' = Fresh /\ writing' = NotWriting
        /\ UNCHANGED <<active, last_known_good>>
    BY <2>1 DEF Ended, StopWriting
  <2> QED
    BY <2>2, FreshIsContents
<1>3. CASE Quiet
  <2>1. UNCHANGED <<active, last_known_good, writing, configuration>>
    BY <1>3, QuietSteps DEF configurationVars
  <2> QED
    BY <1>3, <2>1, QuietSteps DEF Parses
<1>4. CASE Decide
  <2>1. UNCHANGED <<active, last_known_good, writing, configuration>>
    BY <1>4 DEF Decide, configurationVars
  <2>2. phase' \in {"recovery", "opening"}
    BY <1>4 DEF Decide
  <2> QED
    BY <2>1, <2>2
<1>5. CASE RenderFrame
  <2>1. UNCHANGED <<active, last_known_good, writing, configuration>>
    BY <1>5 DEF RenderFrame, configurationVars
  <2>2. phase = "frame" /\ phase' = "ready"
    BY <1>5 DEF RenderFrame
  <2> QED
    BY <2>1, <2>2 DEF Parses
<1>6. CASE Saves
  <2>1. CASE SeedConfiguration
    <3> DEFINE base == IF active = Absent THEN Fresh ELSE active
               c == [base EXCEPT !.step = LastStep]
    <3>1. base \in Contents
      BY <2>1, FreshIsContents DEF SeedConfiguration
    <3>2. c \in Contents
      BY <3>1 DEF Contents
    <3>3. BeginSave(c) /\ phase' = "seed-save" /\ configuration' = configuration
      BY <2>1 DEF SeedConfiguration
    <3> QED
      BY <3>2, <3>3, BeginSaveEffect
  <2>2. CASE MakeConfiguration
    <3>1. /\ BeginSave(Fresh) /\ phase' = "wizard-save"
          /\ configuration' = configuration
      BY <2>2 DEF MakeConfiguration
    <3> QED
      BY <3>1, FreshIsContents, BeginSaveEffect
  <2>3. CASE FinishSeed \/ FinishSettings
    BY <2>3, <1>n DEF FinishSeed, FinishSettings, FinishSave
  <2>4. CASE LoadConfiguration
    BY <2>4, <1>p DEF LoadConfiguration, configurationVars
  <2>5. CASE FinishConfiguration \/ FinishAdvance
    BY <2>5 DEF FinishConfiguration, FinishAdvance, FinishSave
  <2>6. CASE AdvanceSetup
    <3>1. NextStep \in Contents /\ NextStep.revision = configuration.revision
      BY DEF NextStep, Contents
    <3>2. /\ BeginSave(NextStep) /\ configuration' = NextStep
          /\ phase' = phase /\ phase = "ready"
      BY <2>6 DEF AdvanceSetup
    <3>3. /\ active' = active /\ writing' \in Contents
          /\ last_known_good' \in Contents \cup {Absent, Corrupt}
          /\ Parses(active) => NextStep.revision = active.revision
      BY <3>1, <3>2, BeginSaveEffect
    <3> QED
      BY <3>1, <3>2, <3>3 DEF Parses
  <2>7. CASE AdvanceRefused
    <3>1. NextStep \in Contents /\ NextStep.revision = configuration.revision
      BY DEF NextStep, Contents
    <3>2. /\ configuration' = NextStep /\ phase' = phase /\ phase = "ready"
          /\ configuration.step < LastStep
          /\ UNCHANGED <<active, last_known_good, writing>>
      BY <2>7 DEF AdvanceRefused, configurationVars
    <3> QED
      BY <3>1, <3>2 DEF Parses
  <2>8. CASE SaveSettings
    <3>1. active \in Contents
      BY <2>8 DEF SaveSettings, Parses
    <3>2. /\ BeginSave(active) /\ phase' = "settings-save"
          /\ configuration' = configuration /\ configuration.step = LastStep
      BY <2>8 DEF SaveSettings
    <3> QED
      BY <3>1, <3>2, BeginSaveEffect
  <2>9. CASE ApplyRestore
    BY <2>9, <1>p DEF ApplyRestore, RestoreLastKnownGood
  <2>10. CASE BeginReset
    BY <2>10 DEF BeginReset, QuarantineActive
  <2>11. CASE FinishReset
    <3>1. [Fresh EXCEPT !.revision = 1] \in Contents
      BY FreshIsContents DEF Contents
    <3> QED
      BY <2>11, <3>1 DEF FinishReset
  <2>12. CASE WriteFails
    BY <2>12 DEF WriteFails, StopWriting, Parses
  <2>13. CASE CorruptActive
    BY <2>13 DEF CorruptActive, Parses
  <2>14. CASE CorruptSnapshot
    BY <2>14 DEF CorruptSnapshot, Parses
  <2> QED
    BY <1>6, <2>1, <2>2, <2>3, <2>4, <2>5, <2>6, <2>7, <2>8, <2>9, <2>10,
       <2>11, <2>12, <2>13, <2>14 DEF Saves
<1> QED
  BY <1>1, <1>2, <1>3, <1>4, <1>5, <1>6, StepCases

LEMMA FilesInvAlways == Spec => []FilesInv
<1>1. Init => FilesInv
  BY FreshIsContents
  DEF Init, ConfigurationInit, FilesInv, FileTypes, WizardFollows
<1> QED
  BY <1>1, FilesStep, PTL DEF Spec

\* Whatever writes failed before, the wizard's next save is refused only
\* because the file on the disk was damaged.
THEOREM WizardNeverStale == Spec => []WizardIsNeverStale
<1>1. FilesInv => WizardIsNeverStale
  BY DEF FilesInv, WizardFollows, WizardIsNeverStale
<1> QED
  BY <1>1, FilesInvAlways, PTL

\* Damage to one of the two files does not spread to the other.
THEOREM DamageStays == Spec => DamageDoesNotSpread
<1>1. ASSUME FilesInv, Next, ~Media
      PROVE  /\ Parses(last_known_good) => Parses(last_known_good')
             /\ active' = Corrupt => active = Corrupt
  <2> USE ConfigurationAssumption DEF FilesInv, FileTypes
  <2>1. CASE Endings \/ Quiet \/ Decide \/ RenderFrame
    <3>1. UNCHANGED <<active, last_known_good>>
      BY <2>1, EndingsEnd, QuietSteps
      DEF Ended, StopWriting, Decide, RenderFrame, configurationVars
    <3> QED
      BY <3>1
  <2>2. CASE SeedConfiguration \/ MakeConfiguration \/ AdvanceSetup \/ SaveSettings
    <3>1. PICK c : BeginSave(c)
      BY <2>2 DEF SeedConfiguration, MakeConfiguration, AdvanceSetup,
                  SaveSettings
    <3> QED
      BY <3>1 DEF BeginSave, SaveAccepted
  <2>3. CASE FinishSeed \/ FinishConfiguration \/ FinishAdvance \/ FinishSettings
    BY <1>1, <2>3
    DEF FinishSeed, FinishConfiguration, FinishAdvance, FinishSettings,
        FinishSave
  <2>4. CASE LoadConfiguration \/ AdvanceRefused \/ WriteFails
    BY <2>4 DEF LoadConfiguration, AdvanceRefused, WriteFails, StopWriting,
                configurationVars
  <2>5. CASE ApplyRestore
    BY <2>5 DEF ApplyRestore, RestoreLastKnownGood, Parses
  <2>6. CASE BeginReset
    BY <2>6 DEF BeginReset, QuarantineActive
  <2>7. CASE FinishReset
    <3>1. [Fresh EXCEPT !.revision = 1] \in Contents
      BY FreshIsContents DEF Contents
    <3> QED
      BY <2>7, <3>1 DEF FinishReset
  <2> QED
    BY <1>1, <2>1, <2>2, <2>3, <2>4, <2>5, <2>6, <2>7, StepCases
    DEF Saves, Media
<1>2. FilesInv /\ [Next]_vars =>
        [~Media => /\ Parses(last_known_good) => Parses(last_known_good')
                   /\ active' = Corrupt => active = Corrupt]_vars
  BY <1>1
<1> QED
  BY <1>2, FilesInvAlways, PTL DEF Spec, DamageDoesNotSpread

-----------------------------------------------------------------------------
(* The launcher's own state. *)

\* How many choices the menu has: two in a confirmation, and on the first page
\* two, or three when there is a snapshot to offer.
LEMMA MenuLength ==
  Len(Choices) = IF view = "home" /\ offer THEN 3 ELSE 2
<1>1. CASE view # "home"
  BY <1>1 DEF Choices
<1>2. CASE view = "home" /\ offer
  <2>1. Choices = <<"restore">> \o <<"reset", "exit">>
    BY <1>2 DEF Choices
  <2> QED
    BY <1>2, <2>1
<1>3. CASE view = "home" /\ ~offer
  <2>1. Choices = <<>> \o <<"reset", "exit">>
    BY <1>3 DEF Choices
  <2> QED
    BY <1>3, <2>1
<1> QED
  BY <1>1, <1>2, <1>3

\* The menu's part of BootTypeOK.
MenuTypes ==
  /\ view \in {"home", "restore", "reset"}
  /\ offer \in BOOLEAN
  /\ focus \in 1..Len(Choices)

LEMMA MenuStep == MenuTypes /\ [Next]_vars => MenuTypes'
<1> SUFFICES ASSUME MenuTypes, [Next]_vars PROVE MenuTypes'
  OBVIOUS
<1> DEFINE L == IF view = "home" /\ offer THEN 3 ELSE 2
<1>0. (Len(Choices) = L)'
  BY MenuLength, PTL
<1>1. Len(Choices) = L /\ Len(Choices)' = L'
  BY <1>0, MenuLength
<1> USE DEF MenuTypes
<1>2. CASE UNCHANGED menu
  BY <1>1, <1>2 DEF menu
<1>3. CASE Decide
  <2>1. \/ UNCHANGED menu
        \/ /\ offer' = Parses(last_known_good)
           /\ view' = "home" /\ focus' = IF offer' THEN 3 ELSE 2
    BY <1>3 DEF Decide, Home
  <2>2. offer' \in BOOLEAN
    BY <2>1 DEF menu, Parses
  <2> QED
    BY <1>1, <1>2, <2>1, <2>2
<1>4. CASE MoveFocus
  <2>1. PICK delta \in {1, Len(Choices) - 1} :
          focus' = ((focus - 1 + delta) % Len(Choices)) + 1
    BY <1>4 DEF MoveFocus
  <2>2. view' = view /\ offer' = offer
    BY <1>4 DEF MoveFocus
  <2>3. CASE L = 2
    BY <1>1, <2>1, <2>2, <2>3
  <2>4. CASE L = 3
    BY <1>1, <2>1, <2>2, <2>4
  <2> QED
    BY <2>3, <2>4
<1>5. CASE Cancel \/ ChooseAction
  BY <1>1, <1>5 DEF Cancel, ChooseAction, Home
<1>6. UNCHANGED menu \/ Decide \/ MoveFocus \/ Cancel \/ ChooseAction
  BY DEF vars, bootVars, menu, Next, Startup, Setup, Recovery, Media,
         StartLauncher, PreparationFails, Ended, Open, SeedProfile,
         SeedConfiguration, FinishSeed, LoadConfiguration, MakeConfiguration,
         FinishConfiguration, OpenFails, RenderFrame, AdvanceSetup,
         FinishAdvance, AdvanceRefused, SaveSettings, FinishSettings,
         SettingsFail, LeaveRecovery, ApplyRestore, BeginReset,
         BeginResetWithoutFile, FinishReset, Die, WriteFails, CorruptActive,
         CorruptSnapshot, CorruptSeed, Leave
<1> QED
  BY <1>2, <1>3, <1>4, <1>5, <1>6

\* The rest of BootTypeOK, but the configurations.
LauncherTypes ==
  /\ recovered \subseteq Nat \X (Contents \cup {Corrupt})
  /\ phase \in Phases
  /\ seed_parses \in BOOLEAN
  /\ profiles \in 0..SeedProfiles
  /\ faults \in 0..MaxFaults
  /\ exits \in 0..MaxExits
  /\ failed \in 0..(RecoveryThreshold + 1)
  /\ repaired \in BOOLEAN

LEMMA LauncherStep ==
  HealthTypeOK /\ FileTypes /\ LauncherTypes /\ [Next]_vars => LauncherTypes'
<1> SUFFICES ASSUME HealthTypeOK, FileTypes, LauncherTypes, [Next]_vars
             PROVE  LauncherTypes'
  OBVIOUS
<1> USE BootAssumption, HealthAssumption
    DEF LauncherTypes, Phases, household, counters, history, Fault
<1>1. CASE UNCHANGED vars
  BY <1>1 DEF vars, bootVars, configurationVars
<1>2. CASE Endings
  <2>1. /\ Ended
        /\ \/ UNCHANGED counters
           \/ Fault
           \/ (exits < MaxExits /\ exits' = exits + 1 /\ UNCHANGED faults)
    BY <1>2, EndingsEnd
    DEF Endings, PreparationFails, OpenFails, SettingsFail, LeaveRecovery,
        Die, Leave
  <2>2. failed' \in 0..(RecoveryThreshold + 1)
    BY <2>1 DEF Ended, AtMost
  <2>3. /\ UNCHANGED <<recovered, seed_parses, profiles>>
        /\ phase' = "down" /\ repaired' = FALSE
    BY <2>1 DEF Ended, StopWriting
  <2>4. faults' \in 0..MaxFaults /\ exits' \in 0..MaxExits
    BY <2>1
  <2> QED
    BY <2>2, <2>3, <2>4
<1>3. CASE Quiet
  <2>1. recovered' = recovered /\ repaired' = repaired /\ phase' \in Phases
    BY <1>3, QuietSteps DEF configurationVars
  <2>2. CASE StartLauncher \/ Open \/ MoveFocus \/ Cancel \/ ChooseAction
             \/ BeginResetWithoutFile
    <3>1. UNCHANGED <<seed_parses, profiles, faults, exits, failed>>
      BY <2>2 DEF StartLauncher, Open, MoveFocus, Cancel, ChooseAction,
                  BeginResetWithoutFile
    <3> QED
      BY <2>1, <3>1
  <2>3. CASE SeedProfile
    BY <2>1, <2>3 DEF SeedProfile
  <2>4. CASE CorruptSeed
    <3>1. /\ faults < MaxFaults /\ faults' = faults + 1
          /\ UNCHANGED <<profiles, exits, failed>>
      BY <2>4 DEF CorruptSeed
    <3>2. seed_parses' \in BOOLEAN
      BY <2>4, Zenon DEF CorruptSeed
    <3>3. faults' \in 0..MaxFaults
      BY <3>1
    <3> QED
      BY <2>1, <3>1, <3>2, <3>3
  <2> QED
    BY <1>3, <2>2, <2>3, <2>4 DEF Quiet
<1>4. CASE Decide
  <2>1. phase' \in {"recovery", "opening"} /\ repaired' = repaired
    BY <1>4 DEF Decide
  <2>2. UNCHANGED <<recovered, seed_parses, profiles, faults, exits, failed>>
    BY <1>4 DEF Decide, configurationVars
  <2> QED
    BY <2>1, <2>2
<1>7. CASE RenderFrame
  <2>1. phase' = "ready" /\ failed' = 0
    BY <1>7 DEF RenderFrame
  <2>3. repaired' \in BOOLEAN
    BY <1>7, Zenon DEF RenderFrame
  <2>2. UNCHANGED <<recovered, seed_parses, profiles, faults, exits>>
    BY <1>7 DEF RenderFrame, configurationVars
  <2> QED
    BY <2>1, <2>2, <2>3
<1>5. CASE BeginReset
  <2>1. active \in Contents \cup {Corrupt}
    BY <1>5 DEF BeginReset, QuarantineActive, FileTypes
  <2>2. startup_attempt_id[Launcher] \in Nat
    BY DEF HealthTypeOK
  <2>3. recovered' = recovered \cup {<<startup_attempt_id[Launcher], active>>}
    BY <1>5 DEF BeginReset, QuarantineActive
  <2>4. phase' = "reset-save" /\ UNCHANGED <<household, counters, history>>
    BY <1>5 DEF BeginReset
  <2> QED
    BY <2>1, <2>2, <2>3, <2>4
<1>6. CASE ApplyRestore \/ FinishReset
  <2>1. phase' = "opening" /\ repaired' = TRUE
    BY <1>6 DEF ApplyRestore, FinishReset
  <2>2. UNCHANGED <<recovered, household, counters, failed>>
    BY <1>6 DEF ApplyRestore, FinishReset, RestoreLastKnownGood
  <2> QED
    BY <2>1, <2>2
<1>8. CASE Saves /\ ~BeginReset /\ ~ApplyRestore /\ ~FinishReset
  <2>1. repaired' = repaired
    BY <1>8
    DEF Saves, SeedConfiguration, FinishSeed, LoadConfiguration,
        MakeConfiguration, FinishConfiguration, AdvanceSetup, FinishAdvance,
        AdvanceRefused, SaveSettings, FinishSettings, WriteFails,
        CorruptActive, CorruptSnapshot
  <2>2. (repaired \in BOOLEAN)'
    BY <2>1, Zenon
  <2>3. UNCHANGED <<recovered, household, failed>> /\ phase' \in Phases
    BY <1>8
    DEF Saves, SeedConfiguration, FinishSeed, LoadConfiguration,
        MakeConfiguration, FinishConfiguration, AdvanceSetup, FinishAdvance,
        AdvanceRefused, SaveSettings, FinishSettings, WriteFails,
        CorruptActive, CorruptSnapshot, BeginSave, FinishSave, StopWriting,
        configurationVars
  <2>4. UNCHANGED counters
        \/ (faults < MaxFaults /\ faults' = faults + 1 /\ UNCHANGED exits)
    BY <1>8
    DEF Saves, SeedConfiguration, FinishSeed, LoadConfiguration,
        MakeConfiguration, FinishConfiguration, AdvanceSetup, FinishAdvance,
        AdvanceRefused, SaveSettings, FinishSettings, WriteFails,
        CorruptActive, CorruptSnapshot
  <2> QED
    BY <2>2, <2>3, <2>4
<1> QED
  BY <1>1, <1>2, <1>3, <1>4, <1>5, <1>6, <1>7, <1>8, StepCases

\* The launcher's state stays typed; in the recovery menu the focus is on one
\* of the choices shown, and everything moved aside was a file.
THEOREM LauncherIsWellFormed == Spec => []BootTypeOK
<1>1. Init => MenuTypes /\ LauncherTypes
  <2>1. Init => 1 \in 1..Len(Choices)
    BY MenuLength
  <2>2. Init => MenuTypes
    BY <2>1 DEF Init, MenuTypes
  <2>3. Init => LauncherTypes
    <3>1. Init => /\ recovered = {} /\ phase = "down" /\ profiles = 0
                  /\ faults = 0 /\ exits = 0 /\ failed = 0
      BY DEF Init, ConfigurationInit
    <3>2. Init => seed_parses \in BOOLEAN /\ repaired \in BOOLEAN
      BY DEF Init
    <3> QED
      BY <3>1, <3>2, BootAssumption, HealthAssumption DEF LauncherTypes, Phases
  <2> QED
    BY <2>2, <2>3
<1>2. FilesInv /\ MenuTypes /\ LauncherTypes => BootTypeOK
  BY DEF FilesInv, FileTypes, MenuTypes, LauncherTypes, BootTypeOK
<1>3. FilesInv => FileTypes
  BY DEF FilesInv
<1> QED
  BY <1>1, <1>2, <1>3, MenuStep, LauncherStep, FilesInvAlways,
     StartupUsesTheStore, HealthTypeCorrect, PTL DEF Spec

=============================================================================
