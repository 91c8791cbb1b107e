--------------------------- MODULE ProfileTransfer ---------------------------
(***************************************************************************)
(* The screens of main.cpp through which profiles change: the selector,    *)
(* the settings of the dashboard, the appearance picker                    *)
(* (profile_avatar_presentation.cpp), the crop screen and backup and       *)
(* restore (profile_archive_presentation.cpp), over ProfileArchive and     *)
(* ProfileImages.  Every write to a file or a database is a step of its    *)
(* own, the launcher may stop between any two, and only what is stored     *)
(* stays.  The focus is abstracted but on the consent to export a          *)
(* portrait; who may open what is the subject of ParentAccess.             *)
(***************************************************************************)
EXTENDS ProfileArchive

CONSTANTS
  MaxExports,  \* bounds of the runs: archives in exports/, and how often
  MaxCuts      \* the launcher is stopped in the middle of something

VARIABLES
  screen,    \* off, selector, home, picker, crop, archive, choose, consent, browse
  active,    \* the profile in use
  dashboard, \* whether home is a dashboard: there is none without a library
  behind,    \* whether an archive was opened behind the dashboard
  selector,  \* the profiles of the LauncherState, with their portraits
  listed,    \* the profiles a picker or the archive listed
  focus,     \* on the consent screen: 0 includes the portrait, 1 cancels
  cuts       \* history: how often something was cut short

uiVars == <<screen, active, dashboard, behind, selector, listed, focus>>
vars == <<storeVars, imageVars, exportVars, uiVars, cuts>>

Stored(r) == [id \in DOMAIN r |-> r[id].avatar]
Nobody == "none"

InitialRow(role, ns) ==
  [role |-> role, ns |-> ns, avatar |-> Builtin, revision |-> 1,
   look |-> [s \in Settings |-> FALSE]]

\* After the setup: a parent and a child with the default allowance.
Init ==
  /\ rows = [id \in {"parent", "child"} |-> InitialRow(id, id)]
  /\ allowance = [id \in {"child"} |-> 1]
  /\ portraits = <<>> /\ exported = <<>> /\ pending = <<>>
  /\ task = Idle /\ picture = NoPicture /\ crop = Centered
  /\ screen = "off" /\ active = Nobody
  /\ dashboard = FALSE /\ behind = FALSE
  /\ selector = <<>> /\ listed = <<>> /\ focus = 0
  /\ cuts = 0

NoCrop == picture' = NoPicture /\ crop' = Centered
On(s) == screen = s /\ task = Idle
Go(s) == screen' = s /\ UNCHANGED <<active, dashboard, behind, selector>>
Unlisted == listed' = <<>> /\ focus' = 0

\* The LauncherState is built anew: nobody is active in it.
Rebuild ==
  /\ screen' = "selector" /\ selector' = Stored(rows')
  /\ active' = Nobody /\ dashboard' = FALSE /\ behind' = FALSE

\* Under a dashboard the LauncherState is kept as it is.
KeepOrRebuild == IF dashboard THEN Go("home") ELSE Rebuild

-----------------------------------------------------------------------------
\* The process and the selector.

Start ==
  /\ screen = "off"
  /\ UNCHANGED <<storeVars, imageVars, exportVars>>
  /\ Rebuild /\ Unlisted

Ended ==
  /\ screen' = "off" /\ active' = Nobody
  /\ dashboard' = FALSE /\ behind' = FALSE
  /\ selector' = <<>> /\ Unlisted /\ NoCrop
  /\ task' = Idle
  /\ UNCHANGED <<storeVars, exportVars>>

\* The launcher ends, sleeps or is killed, or a call of a session throws.
Stop ==
  /\ screen # "off"
  /\ cuts' = cuts + (IF task = Idle THEN 0 ELSE 1) /\ cuts' <= MaxCuts
  /\ Ended

\* A profile is chosen: each row is marked as the last one used, or not.
SelectProfile(id) ==
  /\ On("selector") /\ id \in DOMAIN selector
  /\ \A r \in DOMAIN rows : rows[r].revision < MaxRevision[r]
  /\ active' = id
  /\ task' = [kind |-> "select", left |-> DOMAIN rows]
  /\ UNCHANGED <<storeVars, picture, crop, exportVars, screen, dashboard,
                 behind, selector, listed, focus>>

MarkLastAccessed(id) ==
  /\ task.kind = "select" /\ id \in task.left
  /\ SetLook(id, [rows[id].look EXCEPT !["last_accessed"] = (id = active)])
  /\ task' = [task EXCEPT !.left = @ \ {id}]
  /\ UNCHANGED <<allowance, portraits, picture, crop, exportVars, uiVars>>

OpenHome ==
  /\ task.kind = "select" /\ task.left = {}
  /\ screen' = "home" /\ dashboard' \in BOOLEAN
  /\ task' = Idle
  /\ UNCHANGED <<storeVars, picture, crop, exportVars, active, behind,
                 selector, listed, focus>>

\* A combo is accepted after its last button, off this path: no row is marked.
SelectByCombo(id) ==
  /\ On("selector") /\ id \in DOMAIN selector /\ rows[id].role = "parent"
  /\ active' = id /\ screen' = "home" /\ dashboard' \in BOOLEAN
  /\ UNCHANGED <<storeVars, imageVars, exportVars, behind, selector, listed,
                 focus>>

\* The profile is left and locked; an archive behind the dashboard appears.
LeaveHome ==
  /\ On("home")
  /\ screen' = IF behind THEN "archive" ELSE "selector"
  /\ active' = Nobody /\ dashboard' = FALSE /\ behind' = FALSE
  /\ UNCHANGED <<storeVars, imageVars, exportVars, selector, listed, focus>>

\* TILE STYLE, MOTION, SHADOWS, THEME: the row is read again before it is
\* written.
ChangeSetting(s) ==
  /\ On("home") /\ dashboard
  /\ SetLook(active, [rows[active].look EXCEPT ![s] = ~@])
  /\ UNCHANGED <<allowance, portraits, imageVars, exportVars, uiVars>>

-----------------------------------------------------------------------------
\* The appearance of the active profile.

OpenPicker ==
  /\ On("home")
  /\ listed' = rows /\ Go("picker")
  /\ UNCHANGED <<storeVars, imageVars, exportVars, focus>>

LeavePicker ==
  /\ On("picker")
  /\ Go("home") /\ Unlisted
  /\ UNCHANGED <<storeVars, imageVars, exportVars>>

\* A background or an accent, over the preferences listed at the opening.
AssignLook(s) ==
  /\ On("picker")
  /\ SetLook(active, [listed[active].look EXCEPT ![s] = ~@])
  /\ KeepOrRebuild /\ Unlisted
  /\ UNCHANGED <<allowance, portraits, imageVars, exportVars>>

\* A built-in portrait: the generation it replaces is not removed.
AssignAvatar ==
  /\ On("picker")
  /\ SetAvatarRef(active, Builtin)
  /\ KeepOrRebuild /\ Unlisted
  /\ UNCHANGED <<allowance, portraits, imageVars, exportVars>>

\* A picture that cannot be read throws where nothing but the session catches
\* it: the launcher ends.
OpenCropFails(p) == On("picker") /\ ~Decodable(p) /\ Ended

OpenCrop(p) ==
  /\ On("picker") /\ Decodable(p)
  /\ picture' = Decoded(p) /\ crop' = Centered /\ Go("crop")
  /\ UNCHANGED <<storeVars, task, exportVars, listed, focus>>

PressCrop ==
  /\ On("crop")
  /\ \E d \in {-1, 1} : Move(d, 0) \/ Move(0, d) \/ AdjustZoom(d)
  /\ UNCHANGED <<storeVars, task, picture, exportVars, uiVars>>

CancelCrop ==
  /\ On("crop")
  /\ Go("picker") /\ NoCrop
  /\ UNCHANGED <<storeVars, task, exportVars, listed, focus>>

\* An import that is refused or undone leaves the screen with its message.
ConfirmCrop ==
  /\ On("crop")
  /\ BeginImport(active)
  /\ UNCHANGED <<picture, crop, exportVars, uiVars>>

ImportStep ==
  /\ ImportSteps \/ UndoImport
  /\ UNCHANGED <<picture, crop, exportVars, uiVars>>

Imported ==
  /\ EndImport
  /\ KeepOrRebuild /\ Unlisted /\ NoCrop
  /\ UNCHANGED exportVars

-----------------------------------------------------------------------------
\* Backup and restore.

\* A dashboard stays in front and takes every press.
OpenArchive ==
  /\ On("home") /\ rows[active].role = "parent"
  /\ IF dashboard
       THEN behind' = TRUE /\ UNCHANGED <<screen, active, dashboard, selector>>
       ELSE Go("archive")
  /\ UNCHANGED <<storeVars, imageVars, exportVars, listed, focus>>

CloseArchive ==
  /\ On("archive")
  /\ Go(IF active = Nobody THEN "selector" ELSE "home")
  /\ UNCHANGED <<storeVars, imageVars, exportVars, listed, focus>>

\* Back, from every view of it but its home.
BackToArchive ==
  /\ task = Idle /\ screen \in {"choose", "consent", "browse"}
  /\ Go("archive") /\ Unlisted
  /\ UNCHANGED <<storeVars, imageVars, exportVars>>

ShowExportProfiles ==
  /\ \/ On("archive")
     \/ On("consent") /\ focus = 1
  /\ Go("choose")
  /\ listed' = rows /\ focus' = 0
  /\ UNCHANGED <<storeVars, imageVars, exportVars>>

CancelFirst == 1

\* A profile with a portrait of its own is asked about first.
ChooseExport(id) ==
  /\ On("choose") /\ id \in DOMAIN listed /\ Managed(listed[id].avatar)
  /\ Go("consent")
  /\ listed' = Restrict(listed, {id}) /\ focus' = CancelFirst
  /\ UNCHANGED <<storeVars, imageVars, exportVars>>

MoveConsent ==
  /\ On("consent")
  /\ focus' = 1 - focus
  /\ UNCHANGED <<storeVars, imageVars, exportVars, screen, active, dashboard,
                 behind, selector, listed>>

\* The archive's home is shown again, whether the export succeeds or not.
ExportSelected(id, include) ==
  /\ Cardinality(DOMAIN exported \ {id}) < MaxExports
  /\ BeginExport(id, include)
  /\ Go("archive") /\ Unlisted
  /\ UNCHANGED <<picture, crop>>

Export ==
  \/ /\ On("choose")
     /\ \E id \in DOMAIN listed :
          ~Managed(listed[id].avatar) /\ ExportSelected(id, FALSE)
  \/ /\ On("consent") /\ focus = 0
     /\ \E id \in DOMAIN listed : ExportSelected(id, TRUE)

ExportStep ==
  /\ WriteExport \/ ActivateExport \/ ExportFails
  /\ UNCHANGED <<picture, crop, uiVars>>

\* The user takes an archive from exports/.
TakeArchive(id) ==
  /\ id \in DOMAIN exported
  /\ exported' = Drop(exported, id)
  /\ UNCHANGED <<storeVars, imageVars, pending, uiVars>>

ShowRestoreArchives ==
  /\ On("archive")
  /\ Go("browse") /\ Unlisted
  /\ UNCHANGED <<storeVars, imageVars, exportVars>>

Restore(file) ==
  /\ On("browse") /\ BeginRestore(file)
  /\ UNCHANGED <<picture, crop, uiVars>>

RestoreStep ==
  /\ RestoreSteps \/ UndoRestore
  /\ UNCHANGED <<picture, crop, exportVars, uiVars>>

RestoreEnds ==
  /\ AddProfile
  /\ KeepOrRebuild /\ Unlisted
  /\ UNCHANGED <<picture, crop, exportVars>>

-----------------------------------------------------------------------------
Selecting ==
  \/ \E id \in DOMAIN selector : SelectProfile(id) \/ SelectByCombo(id)
  \/ \E id \in DOMAIN rows : MarkLastAccessed(id)
  \/ OpenHome \/ LeaveHome

Appearance ==
  \/ OpenPicker \/ LeavePicker \/ AssignAvatar
  \/ \E s \in Settings \ {"last_accessed"} : ChangeSetting(s) \/ AssignLook(s)
  \/ \E p \in Staged : OpenCrop(p) \/ OpenCropFails(p)
  \/ PressCrop \/ CancelCrop \/ ConfirmCrop \/ ImportStep \/ Imported

Archive ==
  \/ OpenArchive \/ CloseArchive \/ BackToArchive
  \/ ShowExportProfiles \/ MoveConsent \/ Export \/ ExportStep
  \/ \E id \in DOMAIN listed : ChooseExport(id)
  \/ \E id \in DOMAIN exported : TakeArchive(id)
  \/ ShowRestoreArchives \/ RestoreStep \/ RestoreEnds
  \/ \E file \in DOMAIN Card : Restore(file)

Session == Start \/ Selecting \/ Appearance \/ Archive

Next == Stop \/ (Session /\ UNCHANGED cuts)

Spec == Init /\ [][Next]_vars

-----------------------------------------------------------------------------
\* At every moment, whatever was cut short: the portrait a profile names is
\* there and whole, and a child has an allowance.
ProfilesAreComplete ==
  \A id \in DOMAIN rows :
    /\ Resolves(rows[id].avatar)
    /\ rows[id].role = "child" => id \in DOMAIN allowance

\* A generation left by an import that was cut short is in the way of the
\* next import only until the profile changes.
OneChangeUnblocks ==
  \A a \in DOMAIN portraits :
    a.from = "import" => a.n <= rows[a.id].revision + 1

\* The rectangle the crop takes lies in the picture, and its pixels are as
\* many pixels of the file.
CropReadsThePicture ==
  screen = "crop" =>
    LET c == CropRectangle(picture, crop)
        taken == (c.x .. c.x + c.side - 1) \X (c.y .. c.y + c.side - 1)
        read == {SourceOf(picture, t[1], t[2]) : t \in taken}
    IN  /\ read \subseteq (0 .. picture.w - 1) \X (0 .. picture.h - 1)
        /\ Cardinality(read) = c.side * c.side /\ c.side > 0

\* Between two operations every profile can be exported again, unless its
\* archive is still there or the launcher was stopped within an export: one
\* that fails leaves nothing in the way of the next, and no change of portrait
\* or allowance makes a profile one that export_profile refuses.
ExportsCanBeRepeated ==
  task = Idle =>
    /\ \A id \in DOMAIN rows : Exportable(id, TRUE)
    /\ Cardinality(DOMAIN pending) <= cuts

\* docs/specs/profile-archive.md: what a restore that fails wrote before the
\* profile is compensated.
FailedRestoreChangesNothing ==
  [][task.kind = "restore" /\ task' = Idle /\ screen' # "off" /\ rows' = rows
     => storeVars' = task.before]_vars

-----------------------------------------------------------------------------
\* What a reader would expect and the code does not do.

\* The selector shows what is stored: a restore reloads it, as
\* docs/specs/profile-archive.md says; an import or another portrait under a
\* dashboard does not.
SelectorIsCurrent == On("selector") => selector = Stored(rows)

\* A restore cut short after its portrait or its allowance is refused for
\* good: "Orphan recovery remains deferred".
RestoreCanBeRepeated ==
  screen = "browse" /\ task = Idle =>
    \A id \in DOMAIN allowance : id \in DOMAIN rows

=============================================================================
