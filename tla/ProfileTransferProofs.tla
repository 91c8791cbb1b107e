------------------------ MODULE ProfileTransferProofs ------------------------
(***************************************************************************)
(* Theorems about ProfileTransfer for any archives, pictures and number of *)
(* profiles: whatever is cut short, a profile names a portrait that is     *)
(* whole; a failed restore leaves nothing behind; a crop reads each pixel  *)
(* of its square from a pixel of its own in the file.  The invariant says  *)
(* at each step of an import or a restore what is already on the disk.     *)
(***************************************************************************)
EXTENDS ProfileTransfer, FiniteSetTheorems, FunctionTheorems, TLAPS

RowFields == {"role", "ns", "avatar", "revision", "look"}
Files == [Pictures -> {"none", "pending", "part", "whole"}]

\* A generation is of an import that is not ahead of its profile, or of an
\* archive that carries a portrait.
Owned(a) ==
  \/ /\ a.from = "import" /\ a.id \in DOMAIN rows
     /\ a.n \in Nat /\ a.n <= rows[a.id].revision + 1
  \/ a.from \in DOMAIN Card /\ ReadArchive(a.from).portrait

\* A row names a portrait of its own, so no two rows name one.
RowIsComplete(id) ==
  /\ DOMAIN rows[id] = RowFields /\ rows[id].revision \in Nat
  /\ Resolves(rows[id].avatar)
  /\ Managed(rows[id].avatar) => rows[id].avatar.id = id
  /\ rows[id].role = "child" => id \in DOMAIN allowance

StoreInv ==
  /\ allowance = [id \in DOMAIN allowance |-> allowance[id]]
  /\ portraits \in [DOMAIN portraits -> Files]
  /\ \A a \in DOMAIN portraits : Owned(a)
  /\ \A id \in DOMAIN rows : RowIsComplete(id)

\* Until the update no row names the new generation, and after it none the old
\* one: an undone import and a cleaning cut short cost no profile its portrait.
ImportInv ==
  /\ DOMAIN task = {"kind", "step", "id", "asset", "old"}
  /\ task.id \in DOMAIN rows
  /\ task.asset.id = task.id /\ task.asset \in DOMAIN portraits
  /\ Managed(task.old) => task.old.id = task.id
  /\ task.step \in {"portrait", "thumbnail", "update", "clean"}
  /\ task.step \in {"thumbnail", "update"} => portraits[task.asset]["portrait"] = "whole"
  /\ task.step = "update" => portraits[task.asset]["thumbnail"] = "whole"
  /\ task.old # task.asset
  /\ rows[task.id].avatar = IF task.step = "clean" THEN task.asset ELSE task.old

\* What has been written is what the undo takes back, and a profile comes
\* after its portrait and its allowance.
RestoreInv ==
  LET p == ReadArchive(task.file) IN
  /\ DOMAIN task = {"kind", "file", "id", "asset", "step", "before"}
  /\ task.file \in DOMAIN Card /\ task.id = p.id
  /\ task.asset = RestoredGeneration(task.file)
  /\ task.id \notin DOMAIN rows
  /\ task.step \in {"directory", "portrait", "thumbnail", "allowance", "profile"}
  /\ task.step \in {"directory", "portrait", "thumbnail"} => p.portrait
  /\ task.step = "profile" \/ task.id \notin DOMAIN allowance
  /\ p.portrait /\ task.step # "directory" => task.asset \in DOMAIN portraits
  /\ p.portrait /\ task.step \in {"thumbnail", "allowance", "profile"}
       => portraits[task.asset]["portrait"] = "whole"
  /\ p.portrait /\ task.step \in {"allowance", "profile"}
       => portraits[task.asset]["thumbnail"] = "whole"
  /\ task.step = "profile" /\ p.role = "child" => task.id \in DOMAIN allowance
  /\ task.before =
       <<rows,
         IF task.step = "profile" THEN Drop(allowance, task.id) ELSE allowance,
         IF task.step = "directory" THEN portraits ELSE Drop(portraits, task.asset)>>

TaskInv ==
  /\ "kind" \in DOMAIN task
  /\ task.kind = "import" => ImportInv
  /\ task.kind = "restore" => RestoreInv

\* The picture on the crop screen was decoded; the selection is in its bounds.
CropInv ==
  /\ crop.x \in 0..CropSteps /\ crop.y \in 0..CropSteps /\ crop.zoom \in 4..ZoomLimit
  /\ DOMAIN crop = {"x", "y", "zoom"}
  /\ screen = "crop" => \E p \in Staged : Decodable(p) /\ picture = Decoded(p)

TransferInv == StoreInv /\ TaskInv /\ CropInv

-----------------------------------------------------------------------------
\* The steps by what they do to the three places and to the task.

\* Nothing in the places; an import or a restore goes on, or the launcher ends.
Elsewhere ==
  /\ UNCHANGED storeVars
  /\ "kind" \in DOMAIN task'
  /\ \/ task' = task
     \/ /\ task'.kind \notin {"import", "restore"}
        /\ screen' = "off" \/ task.kind \notin {"import", "restore"}

\* A row is read and written again, with nothing under way.
RowChanges ==
  /\ UNCHANGED <<allowance, portraits>>
  /\ task.kind \notin {"import", "restore"}
  /\ "kind" \in DOMAIN task' /\ task'.kind \notin {"import", "restore"}
  /\ \E id : \/ \E look : SetLook(id, look)
             \/ SetAvatarRef(id, Builtin)

Importings == (\E id : BeginImport(id)) \/ ImportSteps \/ UndoImport \/ EndImport

Restorings ==
  \/ \E file \in DOMAIN Card : BeginRestore(file)
  \/ RestoreSteps \/ UndoRestore \/ AddProfile

LEMMA StepCases ==
  TaskInv /\ Next => Elsewhere \/ RowChanges \/ Importings \/ Restorings
<1> SUFFICES ASSUME TaskInv, Next
             PROVE  Elsewhere \/ RowChanges \/ Importings \/ Restorings
  OBVIOUS
<1>0. "kind" \in DOMAIN Idle /\ Idle.kind = "none" /\ "kind" \in DOMAIN task
  BY DEF Idle, TaskInv
<1>1. CASE Stop \/ Start
  BY <1>0, <1>1 DEF Stop, Start, Ended, Elsewhere, imageVars
<1>2. CASE Selecting
  <2>1. CASE \E id \in DOMAIN selector : SelectProfile(id) \/ SelectByCombo(id)
    BY <1>0, <2>1 DEF SelectProfile, SelectByCombo, On, Elsewhere, imageVars
  <2>2. CASE \E id \in DOMAIN rows : MarkLastAccessed(id)
    BY <1>0, <2>2 DEF MarkLastAccessed, RowChanges
  <2>3. CASE OpenHome \/ LeaveHome
    BY <1>0, <2>3 DEF OpenHome, LeaveHome, Elsewhere, imageVars
  <2> QED
    BY <1>2, <2>1, <2>2, <2>3 DEF Selecting
<1>3. CASE Appearance
  <2>1. CASE OpenPicker \/ LeavePicker \/ PressCrop \/ CancelCrop
    BY <1>0, <2>1 DEF OpenPicker, LeavePicker, PressCrop, CancelCrop, Elsewhere, imageVars
  <2>2. CASE \E p \in Staged : OpenCrop(p) \/ OpenCropFails(p)
    BY <1>0, <2>2 DEF OpenCrop, OpenCropFails, Ended, Elsewhere
  <2>3. CASE AssignAvatar \/ \E s \in Settings \ {"last_accessed"} : ChangeSetting(s) \/ AssignLook(s)
    BY <1>0, <2>3 DEF AssignAvatar, ChangeSetting, AssignLook, On, RowChanges, imageVars
  <2>4. CASE ConfirmCrop \/ ImportStep \/ Imported
    BY <2>4 DEF ConfirmCrop, ImportStep, Imported, Importings
  <2> QED
    BY <1>3, <2>1, <2>2, <2>3, <2>4 DEF Appearance
<1>4. CASE Archive
  <2>1. CASE OpenArchive \/ CloseArchive \/ BackToArchive \/ ShowExportProfiles \/ MoveConsent
             \/ ShowRestoreArchives
    BY <1>0, <2>1
    DEF OpenArchive, CloseArchive, BackToArchive, ShowExportProfiles, MoveConsent,
        ShowRestoreArchives, Elsewhere, imageVars
  <2>2. CASE Export
    <3>1. task = Idle /\ \E id, include : ExportSelected(id, include)
      BY <2>2 DEF Export, On
    <3> QED
      BY <1>0, <3>1 DEF ExportSelected, BeginExport, Elsewhere, On
  <2>3. CASE ExportStep
    BY <1>0, <2>3 DEF ExportStep, WriteExport, ActivateExport, ExportFails, Exporting, Elsewhere
  <2>4. CASE (\E id \in DOMAIN listed : ChooseExport(id)) \/ \E id \in DOMAIN exported : TakeArchive(id)
    BY <1>0, <2>4 DEF ChooseExport, TakeArchive, Elsewhere, imageVars
  <2>5. CASE RestoreStep \/ RestoreEnds \/ \E file \in DOMAIN Card : Restore(file)
    BY <2>5 DEF RestoreStep, RestoreEnds, Restore, Restorings
  <2> QED
    BY <1>4, <2>1, <2>2, <2>3, <2>4, <2>5 DEF Archive
<1> QED
  BY <1>1, <1>2, <1>3, <1>4 DEF Next, Session

LEMMA ElsewhereKeeps ==
  StoreInv /\ TaskInv /\ Elsewhere => StoreInv' /\ TaskInv'
<1> SUFFICES ASSUME StoreInv, TaskInv, Elsewhere PROVE StoreInv' /\ TaskInv'
  OBVIOUS
<1> USE DEF Elsewhere, storeVars
<1>1. StoreInv'
  BY DEF StoreInv, Owned, RowIsComplete, Resolves
<1>2. CASE task' = task
  BY <1>1, <1>2 DEF TaskInv, ImportInv, RestoreInv
<1>3. CASE task'.kind \notin {"import", "restore"}
  BY <1>1, <1>3 DEF TaskInv
<1> QED
  BY <1>2, <1>3

LEMMA RowChangesKeep ==
  StoreInv /\ RowChanges => StoreInv' /\ TaskInv'
<1> SUFFICES ASSUME StoreInv, RowChanges PROVE StoreInv' /\ TaskInv'
  OBVIOUS
<1>1. UNCHANGED <<allowance, portraits>> /\ TaskInv'
  BY DEF RowChanges, TaskInv
<1>2. PICK id, r :
        /\ id \in DOMAIN rows /\ rows' = [rows EXCEPT ![id] = r]
        /\ DOMAIN r = RowFields /\ r.revision = rows[id].revision + 1
        /\ r.role = rows[id].role /\ r.avatar \in {rows[id].avatar, Builtin}
  <2>1. PICK id : (\E look : SetLook(id, look)) \/ SetAvatarRef(id, Builtin)
    BY DEF RowChanges
  <2>2. id \in DOMAIN rows /\ DOMAIN rows[id] = RowFields
    BY <2>1 DEF SetLook, SetAvatarRef, StoreInv, RowIsComplete
  <2>3. CASE \E look : SetLook(id, look)
    <3>1. PICK look : rows' = [rows EXCEPT ![id] = [Revised(rows[id]) EXCEPT !.look = look]]
      BY <2>3 DEF SetLook
    <3> DEFINE r == [Revised(rows[id]) EXCEPT !.look = look]
    <3>2. /\ DOMAIN r = RowFields /\ r.revision = rows[id].revision + 1
          /\ r.role = rows[id].role /\ r.avatar \in {rows[id].avatar, Builtin}
      BY <2>2 DEF Revised, RowFields
    <3> HIDE DEF r
    <3> QED
      BY <2>2, <3>1, <3>2 DEF r
  <2>4. CASE SetAvatarRef(id, Builtin)
    <3>1. rows' = [rows EXCEPT ![id] = [Revised(rows[id]) EXCEPT !.avatar = Builtin]]
      BY <2>4 DEF SetAvatarRef
    <3> DEFINE r == [Revised(rows[id]) EXCEPT !.avatar = Builtin]
    <3>2. /\ DOMAIN r = RowFields /\ r.revision = rows[id].revision + 1
          /\ r.role = rows[id].role /\ r.avatar \in {rows[id].avatar, Builtin}
      BY <2>2 DEF Revised, RowFields
    <3> HIDE DEF r
    <3> QED
      BY <2>2, <3>1, <3>2 DEF r
  <2> QED
    BY <2>1, <2>3, <2>4
<1>3. \A x \in DOMAIN rows : RowIsComplete(x)'
  <2> TAKE x \in DOMAIN rows
  <2>1. RowIsComplete(x) /\ DOMAIN rows' = DOMAIN rows
    BY <1>2 DEF StoreInv
  <2>2. CASE x = id
    BY <1>1, <1>2, <2>1, <2>2 DEF RowIsComplete, Resolves, Managed
  <2>3. CASE x # id
    BY <1>1, <1>2, <2>1, <2>3 DEF RowIsComplete, Resolves
  <2> QED
    BY <2>2, <2>3
<1>4. \A a \in DOMAIN portraits : Owned(a)'
  BY <1>1, <1>2 DEF StoreInv, Owned, RowIsComplete
<1> QED
  BY <1>1, <1>2, <1>3, <1>4 DEF StoreInv

-----------------------------------------------------------------------------
\* Maps: what Put and Drop do, and that Drop takes back a Put.
LEMMA MapChanges ==
  ASSUME NEW m, NEW k, NEW v
  PROVE  /\ DOMAIN Put(m, k, v) = DOMAIN m \cup {k} /\ Put(m, k, v)[k] = v
         /\ \A x \in DOMAIN m \ {k} : Put(m, k, v)[x] = m[x]
         /\ DOMAIN Drop(m, k) = DOMAIN m \ {k}
         /\ \A x \in DOMAIN m \ {k} : Drop(m, k)[x] = m[x]
         /\ Drop(m, k) = [x \in DOMAIN m \ {k} |-> m[x]]
BY DEF Put, Drop, Restrict

LEMMA DropTakesBack ==
  ASSUME NEW m, NEW k, NEW v, m = [x \in DOMAIN m |-> m[x]], k \notin DOMAIN m
  PROVE  Drop(m, k) = m /\ Drop(Put(m, k, v), k) = m
<1>1. DOMAIN m \ {k} = DOMAIN m /\ DOMAIN Put(m, k, v) \ {k} = DOMAIN m
  BY DEF Put
<1>2. Drop(m, k) = [x \in DOMAIN m |-> m[x]]
  BY <1>1 DEF Drop, Restrict
<1>3. Drop(Put(m, k, v), k) = [x \in DOMAIN m |-> m[x]]
  <2>1. \A x \in DOMAIN m : Put(m, k, v)[x] = m[x]
    BY DEF Put
  <2>2. Drop(Put(m, k, v), k) = [x \in DOMAIN m |-> Put(m, k, v)[x]]
    BY <1>1 DEF Drop, Restrict
  <2> QED
    BY <2>1, <2>2
<1> QED
  BY <1>2, <1>3

LEMMA OwnedIsManaged == ASSUME NEW a, Owned(a) PROVE Managed(a)
BY ArchiveAssumption DEF Owned, Managed, Builtin

\* Only the profile of a generation can name it.
LEMMA OnlyItsProfile ==
  ASSUME StoreInv, NEW a, Owned(a),
         a.id \in DOMAIN rows => rows[a.id].avatar # a
  PROVE  \A id \in DOMAIN rows : rows[id].avatar # a
BY OwnedIsManaged DEF StoreInv, RowIsComplete

\* A generation that no row names may come, go and be written.
LEMMA PortraitChanges ==
  ASSUME StoreInv, rows' = rows, NEW a,
         \A id \in DOMAIN rows : rows[id].avatar # a,
         a \in DOMAIN portraits' => Owned(a) /\ portraits'[a] \in Files,
         portraits' = [x \in DOMAIN portraits' |-> portraits'[x]],
         DOMAIN portraits' \subseteq DOMAIN portraits \cup {a},
         \A x \in DOMAIN portraits \ {a} :
           x \in DOMAIN portraits' /\ portraits'[x] = portraits[x],
         allowance' = [id \in DOMAIN allowance' |-> allowance'[id]],
         \A id \in DOMAIN rows : id \in DOMAIN allowance => id \in DOMAIN allowance'
  PROVE  StoreInv'
<1>1. \A x \in DOMAIN portraits' : portraits'[x] \in Files /\ Owned(x)'
  BY DEF StoreInv, Owned
<1>2. portraits' \in [DOMAIN portraits' -> Files]
  BY <1>1
<1>3. \A id \in DOMAIN rows : RowIsComplete(id)'
  BY DEF StoreInv, RowIsComplete, Resolves
<1> QED
  BY <1>1, <1>2, <1>3 DEF StoreInv

\* A file of a generation is written.
LEMMA FileIsSet ==
  ASSUME StoreInv, NEW a \in DOMAIN portraits, NEW f \in Pictures,
         NEW content \in {"none", "pending", "part", "whole"},
         portraits' = [portraits EXCEPT ![a][f] = content]
  PROVE  /\ DOMAIN portraits' = DOMAIN portraits
         /\ portraits' = [x \in DOMAIN portraits' |-> portraits'[x]]
         /\ portraits'[a] \in Files /\ portraits'[a][f] = content
         /\ \A g \in Pictures \ {f} : portraits'[a][g] = portraits[a][g]
         /\ \A x \in DOMAIN portraits \ {a} : portraits'[x] = portraits[x]
         /\ Drop(portraits, a)' = Drop(portraits, a)
<1>1. portraits[a] \in Files /\ portraits \in [DOMAIN portraits -> Files]
  BY DEF StoreInv
<1>2. portraits' = [portraits EXCEPT ![a] = [portraits[a] EXCEPT ![f] = content]]
  OBVIOUS
<1> DEFINE written == [portraits[a] EXCEPT ![f] = content]
<1>3. /\ written \in Files /\ written[f] = content
      /\ \A g \in Pictures \ {f} : written[g] = portraits[a][g]
  BY <1>1 DEF Files
<1> HIDE DEF written
<1>4. /\ DOMAIN portraits' = DOMAIN portraits
      /\ portraits' = [x \in DOMAIN portraits' |-> portraits'[x]]
      /\ portraits'[a] = written
      /\ \A x \in DOMAIN portraits \ {a} : portraits'[x] = portraits[x]
  BY <1>1, <1>2 DEF written
<1>5. Drop(portraits', a) = Drop(portraits, a)
  BY <1>4 DEF Drop, Restrict
<1> QED
  BY <1>3, <1>4, <1>5

-----------------------------------------------------------------------------
LEMMA ImportingsKeep ==
  StoreInv /\ TaskInv /\ Importings => StoreInv' /\ TaskInv'
<1> SUFFICES ASSUME StoreInv, TaskInv, Importings PROVE StoreInv' /\ TaskInv'
  OBVIOUS
<1>a. Idle.kind = "none" /\ "kind" \in DOMAIN Idle
  BY DEF Idle
<1>b. \A id \in DOMAIN rows : RowIsComplete(id)
  BY DEF StoreInv
<1>1. ASSUME NEW id, BeginImport(id) PROVE StoreInv' /\ TaskInv'
  <2> DEFINE a == Generation(id)
  <2>1. /\ id \in DOMAIN rows /\ a \notin DOMAIN portraits
        /\ portraits' = Put(portraits, a, Blank) /\ UNCHANGED <<rows, allowance>>
        /\ task' = [kind |-> "import", step |-> "portrait", id |-> id,
                    asset |-> a, old |-> rows[id].avatar]
    BY <1>1 DEF BeginImport
  <2>2. a.from = "import" /\ a.id = id /\ a.n = rows[id].revision + 1
    BY DEF Generation
  <2> HIDE DEF a
  <2>3. Owned(a)
    BY <1>b, <2>1, <2>2 DEF Owned, RowIsComplete
  <2>4. rows[id].avatar # a /\ (Managed(rows[id].avatar) => rows[id].avatar.id = id)
    BY <1>b, <2>1, <2>3, OwnedIsManaged DEF RowIsComplete, Resolves
  <2>5. \A x \in DOMAIN rows : rows[x].avatar # a
    BY <2>2, <2>3, <2>4, OnlyItsProfile
  <2>6. Blank \in Files
    BY DEF Blank, Files
  <2>7. /\ DOMAIN portraits' = DOMAIN portraits \cup {a} /\ portraits'[a] = Blank
        /\ portraits' = [x \in DOMAIN portraits' |-> portraits'[x]]
        /\ \A x \in DOMAIN portraits \ {a} : portraits'[x] = portraits[x]
    BY <2>1 DEF Put
  <2>8. StoreInv'
    BY <2>1, <2>3, <2>5, <2>6, <2>7, PortraitChanges DEF StoreInv
  <2>9. TaskInv'
    BY <2>1, <2>2, <2>4, <2>7 DEF TaskInv, ImportInv
  <2> QED
    BY <2>8, <2>9
<1> DEFINE asset == task.asset
<1>2. ASSUME task.kind = "import"
      PROVE  /\ ImportInv /\ asset \in DOMAIN portraits /\ Owned(asset)
             /\ task.step # "clean" => \A id \in DOMAIN rows : rows[id].avatar # asset
             /\ task.old \in DOMAIN portraits /\ task.step = "clean"
                  => Owned(task.old) /\ \A id \in DOMAIN rows : rows[id].avatar # task.old
  <2>1. ImportInv
    BY <1>2 DEF TaskInv
  <2>2. asset \in DOMAIN portraits /\ Owned(asset)
    BY <2>1 DEF ImportInv, StoreInv
  <2>3. task.step # "clean" => \A id \in DOMAIN rows : rows[id].avatar # asset
    BY <2>1, <2>2, OnlyItsProfile DEF ImportInv
  <2>4. ASSUME task.old \in DOMAIN portraits, task.step = "clean"
        PROVE  Owned(task.old) /\ \A id \in DOMAIN rows : rows[id].avatar # task.old
    <3>1. Owned(task.old)
      BY <2>4 DEF StoreInv
    <3> QED
      BY <2>1, <2>4, <3>1, OwnedIsManaged, OnlyItsProfile DEF ImportInv
  <2> QED
    BY <2>1, <2>2, <2>3, <2>4
<1>3. ASSUME NEW f \in Pictures, NEW next, SavePng(f, next),
             <<f, next>> \in {<<"portrait", "thumbnail">>, <<"thumbnail", "update">>}
      PROVE  StoreInv' /\ TaskInv'
  <2>1. /\ task.kind = "import" /\ task.step = f /\ UNCHANGED <<rows, allowance>>
        /\ \/ portraits' = [portraits EXCEPT ![asset][f] = "pending"] /\ task' = task
           \/ /\ portraits' = [portraits EXCEPT ![asset][f] = "whole"]
              /\ task' = [task EXCEPT !.step = next]
    BY <1>3 DEF SavePng, Importing, SetFile, Then
  <2>2. ImportInv /\ asset \in DOMAIN portraits /\ Owned(asset)
        /\ \A id \in DOMAIN rows : rows[id].avatar # asset
    BY <1>2, <1>3, <2>1
  <2>3. /\ DOMAIN portraits' = DOMAIN portraits
        /\ portraits' = [x \in DOMAIN portraits' |-> portraits'[x]]
        /\ portraits'[asset] \in Files
        /\ task' # task => portraits'[asset][f] = "whole"
        /\ \A g \in Pictures \ {f} : portraits'[asset][g] = portraits[asset][g]
        /\ \A x \in DOMAIN portraits \ {asset} : portraits'[x] = portraits[x]
    BY <2>1, <2>2, FileIsSet
  <2>4. StoreInv'
    BY <2>1, <2>2, <2>3, PortraitChanges DEF StoreInv
  <2>5. TaskInv'
    BY <1>3, <2>1, <2>2, <2>3 DEF TaskInv, ImportInv, Pictures
  <2> QED
    BY <2>4, <2>5
<1>4. CASE UpdateProfile
  <2>1. /\ task.kind = "import" /\ task.step = "update"
        /\ rows' = [rows EXCEPT ![task.id] = [Revised(rows[task.id]) EXCEPT !.avatar = asset]]
        /\ task' = [task EXCEPT !.step = "clean"] /\ UNCHANGED <<allowance, portraits>>
    BY <1>4 DEF UpdateProfile, Importing, SetAvatarRef, Then
  <2>2. ImportInv /\ asset \in DOMAIN portraits
    BY <1>2, <2>1
  <2> DEFINE r == [Revised(rows[task.id]) EXCEPT !.avatar = asset]
  <2>3. /\ DOMAIN r = RowFields /\ r.revision = rows[task.id].revision + 1
        /\ r.role = rows[task.id].role /\ r.avatar = asset
    BY <1>b, <2>2 DEF Revised, RowFields, RowIsComplete, ImportInv
  <2> HIDE DEF r
  <2>4. rows' = [rows EXCEPT ![task.id] = r]
    BY <2>1 DEF r
  <2>5. RowIsComplete(task.id)'
    BY <1>b, <2>1, <2>2, <2>3, <2>4 DEF RowIsComplete, ImportInv, Resolves, Pictures
  <2>6. \A id \in DOMAIN rows : RowIsComplete(id)'
    BY <1>b, <2>1, <2>4, <2>5 DEF RowIsComplete, Resolves
  <2>7. \A a \in DOMAIN portraits : Owned(a)'
    <3>1. /\ DOMAIN rows' = DOMAIN rows
          /\ \A id \in DOMAIN rows : /\ rows[id].revision \in Nat /\ rows'[id].revision \in Nat
                                     /\ rows'[id].revision >= rows[id].revision
      BY <1>b, <2>3, <2>4 DEF RowIsComplete
    <3>2. \A a \in DOMAIN portraits : Owned(a)
      BY DEF StoreInv
    <3> QED
      BY <3>1, <3>2 DEF Owned
  <2>8. StoreInv'
    BY <2>1, <2>4, <2>6, <2>7 DEF StoreInv
  <2>9. TaskInv'
    BY <2>1, <2>2, <2>3, <2>4 DEF TaskInv, ImportInv
  <2> QED
    BY <2>8, <2>9
<1>5. CASE UndoImport
  <2>1. /\ task.kind = "import" /\ task.step # "clean" /\ task' = Idle
        /\ portraits' = Drop(portraits, asset) /\ UNCHANGED <<rows, allowance>>
    BY <1>5 DEF UndoImport
  <2>2. /\ DOMAIN portraits' = DOMAIN portraits \ {asset}
        /\ \A x \in DOMAIN portraits \ {asset} : portraits'[x] = portraits[x]
        /\ portraits' = [x \in DOMAIN portraits' |-> portraits'[x]]
    BY <2>1 DEF Drop, Restrict
  <2>3. StoreInv'
    BY <1>2, <2>1, <2>2, PortraitChanges DEF StoreInv
  <2> QED
    BY <1>a, <2>1, <2>3 DEF TaskInv
<1>6. CASE CleanOld
  <2>1. /\ task.kind = "import" /\ task.step = "clean" /\ task.old \in DOMAIN portraits
        /\ task' = task /\ UNCHANGED <<rows, allowance>>
        /\ \E f \in Pictures : portraits' = [portraits EXCEPT ![task.old][f] = "none"]
    BY <1>6 DEF CleanOld, Importing, Pictures
  <2>2. /\ DOMAIN portraits' = DOMAIN portraits
        /\ portraits' = [x \in DOMAIN portraits' |-> portraits'[x]]
        /\ portraits'[task.old] \in Files
        /\ \A x \in DOMAIN portraits \ {task.old} : portraits'[x] = portraits[x]
    BY <2>1, FileIsSet
  <2>3. StoreInv'
    BY <1>2, <2>1, <2>2, PortraitChanges DEF StoreInv
  <2>4. TaskInv'
    BY <1>2, <2>1, <2>2 DEF TaskInv, ImportInv
  <2> QED
    BY <2>3, <2>4
<1>7. CASE EndImport
  <2>1. /\ task.kind = "import" /\ task.step = "clean" /\ task' = Idle
        /\ UNCHANGED <<rows, allowance>>
        /\ \/ portraits' = portraits
           \/ task.old \in DOMAIN portraits /\ portraits' = Drop(portraits, task.old)
    BY <1>7 DEF EndImport, Importing
  <2>2. CASE portraits' = portraits
    BY <1>a, <2>1, <2>2 DEF TaskInv, StoreInv, Owned, RowIsComplete, Resolves
  <2>3. CASE task.old \in DOMAIN portraits /\ portraits' = Drop(portraits, task.old)
    <3>1. /\ DOMAIN portraits' = DOMAIN portraits \ {task.old}
          /\ \A x \in DOMAIN portraits \ {task.old} : portraits'[x] = portraits[x]
          /\ portraits' = [x \in DOMAIN portraits' |-> portraits'[x]]
      BY <2>3 DEF Drop, Restrict
    <3>2. StoreInv'
      BY <1>2, <2>1, <2>3, <3>1, PortraitChanges DEF StoreInv
    <3> QED
      BY <1>a, <2>1, <3>2 DEF TaskInv
  <2> QED
    BY <2>1, <2>2, <2>3
<1> QED
  BY <1>1, <1>3, <1>4, <1>5, <1>6, <1>7 DEF Importings, ImportSteps, Pictures

LEMMA RestoringsKeep ==
  StoreInv /\ TaskInv /\ Restorings => StoreInv' /\ TaskInv'
<1> SUFFICES ASSUME StoreInv, TaskInv, Restorings PROVE StoreInv' /\ TaskInv'
  OBVIOUS
<1>a. Idle.kind = "none" /\ "kind" \in DOMAIN Idle
  BY DEF Idle
<1>b. \A id \in DOMAIN rows : RowIsComplete(id)
  BY DEF StoreInv
<1>c. /\ portraits = [x \in DOMAIN portraits |-> portraits[x]]
      /\ allowance = [x \in DOMAIN allowance |-> allowance[x]]
  BY DEF StoreInv
<1> DEFINE asset == task.asset
           p == ReadArchive(task.file)
<1>1. ASSUME NEW file \in DOMAIN Card, BeginRestore(file) PROVE StoreInv' /\ TaskInv'
  <2> DEFINE q == ReadArchive(file)
             a == RestoredGeneration(file)
             first == IF q.portrait THEN "directory" ELSE AfterPortrait(q)
  <2>1. /\ UNCHANGED storeVars /\ ~Conflicts(q)
        /\ task' = [kind |-> "restore", file |-> file, id |-> q.id, asset |-> a,
                    step |-> first, before |-> storeVars]
    BY <1>1 DEF BeginRestore
  <2>2. q.id \notin DOMAIN rows /\ q.id \notin DOMAIN allowance
    BY <2>1 DEF Conflicts
  <2>3. q.portrait \/ (a.from = file /\ a \notin DOMAIN portraits)
    BY ArchiveAssumption DEF StoreInv, Owned, RestoredGeneration
  <2>4. /\ Drop(allowance, q.id) = allowance
        /\ q.portrait \/ Drop(portraits, a) = portraits
    BY <1>c, <2>2, <2>3, DropTakesBack
  <2>5. /\ first \in {"directory", "allowance", "profile"}
        /\ first = "directory" <=> q.portrait
        /\ first = "profile" => q.role # "child"
    BY DEF AfterPortrait
  <2>6. StoreInv'
    BY <2>1 DEF storeVars, StoreInv, Owned, RowIsComplete, Resolves
  <2> HIDE DEF q, a, first
  <2>7. RestoreInv'
    BY <2>1, <2>2, <2>4, <2>5 DEF storeVars, RestoreInv, q, a
  <2> QED
    BY <2>1, <2>6, <2>7 DEF TaskInv
<1>2. ASSUME task.kind = "restore"
      PROVE  /\ RestoreInv
             /\ p.portrait => Owned(asset)
             /\ \A id \in DOMAIN rows : rows[id].avatar # asset
  <2>1. RestoreInv
    BY <1>2 DEF TaskInv
  <2>2. asset.from \in DOMAIN Card /\ asset.id = task.id /\ asset.from = task.file
    BY <2>1 DEF RestoreInv, RestoredGeneration
  <2>3. Managed(asset)
    BY <2>2, ArchiveAssumption DEF Managed, Builtin
  <2> QED
    BY <1>b, <2>1, <2>2, <2>3 DEF RestoreInv, RowIsComplete, Owned
<1>3. CASE MakeDirectory
  <2>1. /\ task.kind = "restore" /\ task.step = "directory" /\ asset \notin DOMAIN portraits
        /\ portraits' = Put(portraits, asset, Blank)
        /\ task' = [task EXCEPT !.step = "portrait"] /\ UNCHANGED <<rows, allowance>>
    BY <1>3 DEF MakeDirectory, Restoring, Then
  <2>2. /\ DOMAIN portraits' = DOMAIN portraits \cup {asset} /\ portraits'[asset] = Blank
        /\ portraits' = [x \in DOMAIN portraits' |-> portraits'[x]]
        /\ \A x \in DOMAIN portraits \ {asset} : portraits'[x] = portraits[x]
    BY <2>1 DEF Put
  <2>3. Blank \in Files
    BY DEF Blank, Files
  <2>4. StoreInv'
    BY <1>2, <2>1, <2>2, <2>3, PortraitChanges DEF StoreInv, RestoreInv
  <2>5. Drop(portraits', asset) = portraits
    BY <1>c, <2>1, DropTakesBack
  <2>6. RestoreInv'
    BY <1>2, <2>1, <2>2, <2>5 DEF RestoreInv
  <2> QED
    BY <2>1, <2>4, <2>6, <1>2 DEF TaskInv, RestoreInv
<1>4. ASSUME NEW f \in Pictures, NEW next, WriteNewFile(f, next),
             \/ f = "portrait" /\ next = "thumbnail"
             \/ f = "thumbnail" /\ next = AfterPortrait(p)
      PROVE  StoreInv' /\ TaskInv'
  <2>1. /\ task.kind = "restore" /\ task.step = f /\ UNCHANGED <<rows, allowance>>
        /\ \/ portraits' = [portraits EXCEPT ![asset][f] = "part"] /\ task' = task
           \/ /\ portraits' = [portraits EXCEPT ![asset][f] = "whole"]
              /\ task' = [task EXCEPT !.step = next]
    BY <1>4 DEF WriteNewFile, Restoring, SetFile, Then
  <2>2. RestoreInv /\ asset \in DOMAIN portraits /\ p.portrait /\ Owned(asset)
    BY <1>2, <1>4, <2>1 DEF RestoreInv, Pictures
  <2>3. /\ DOMAIN portraits' = DOMAIN portraits
        /\ portraits' = [x \in DOMAIN portraits' |-> portraits'[x]]
        /\ portraits'[asset] \in Files
        /\ task' # task => portraits'[asset][f] = "whole"
        /\ \A g \in Pictures \ {f} : portraits'[asset][g] = portraits[asset][g]
        /\ \A x \in DOMAIN portraits \ {asset} : portraits'[x] = portraits[x]
    BY <2>1, <2>2, FileIsSet
  <2>4. StoreInv'
    BY <1>2, <2>1, <2>2, <2>3, PortraitChanges DEF StoreInv
  <2>5. Drop(portraits', asset) = Drop(portraits, asset)
    BY <2>3 DEF Drop, Restrict
  <2>6. CASE task' = task
    <3>1. portraits'[asset]["portrait"] = portraits[asset]["portrait"] \/ task.step = "portrait"
      BY <1>4, <2>1, <2>3 DEF Pictures
    <3> QED
      BY <1>4, <2>1, <2>2, <2>3, <2>4, <2>5, <2>6, <3>1 DEF TaskInv, RestoreInv
  <2>7. CASE task' = [task EXCEPT !.step = next]
    <3>1. /\ next \in {"thumbnail", "allowance", "profile"} /\ next # f
          /\ next = "profile" => p.role # "child"
          /\ next = "thumbnail" <=> f = "portrait"
      BY <1>4 DEF AfterPortrait
    <3>2. DOMAIN task' = DOMAIN task /\ task'.step = next
          /\ task'.kind = "restore" /\ task'.file = task.file /\ task'.id = task.id
          /\ task'.asset = asset /\ task'.before = task.before
      BY <2>1, <2>2, <2>7 DEF RestoreInv
    <3>3. portraits'[asset][f] = "whole"
      BY <2>1, <2>2, <2>3, <3>1, <3>2
    <3>4. f = "thumbnail" => portraits'[asset]["portrait"] = "whole"
      BY <1>4, <2>1, <2>2, <2>3 DEF RestoreInv, Pictures
    <3>5. task.id \notin DOMAIN allowance /\ Drop(allowance, task.id) = allowance
      BY <1>4, <1>c, <2>1, <2>2, DropTakesBack DEF RestoreInv, Pictures
    <3>6. task.before = <<rows, allowance, Drop(portraits, asset)>>
      BY <1>4, <2>1, <2>2 DEF RestoreInv, Pictures
    <3>7. RestoreInv'
      BY <1>4, <2>1, <2>2, <2>3, <2>5, <3>1, <3>2, <3>3, <3>4, <3>5, <3>6 DEF RestoreInv
    <3> QED
      BY <2>2, <2>4, <3>2, <3>7 DEF TaskInv, RestoreInv
  <2> QED
    BY <2>1, <2>6, <2>7
<1>5. CASE GiveAllowance
  <2>1. /\ task.kind = "restore" /\ task.step = "allowance"
        /\ allowance' = Put(allowance, task.id, p.allowance)
        /\ task' = [task EXCEPT !.step = "profile"] /\ UNCHANGED <<rows, portraits>>
    BY <1>5 DEF GiveAllowance, Restoring, Then
  <2>2. RestoreInv /\ task.id \notin DOMAIN allowance
    BY <1>2, <2>1 DEF RestoreInv
  <2>3. /\ DOMAIN allowance' = DOMAIN allowance \cup {task.id}
        /\ allowance' = [id \in DOMAIN allowance' |-> allowance'[id]]
    BY <2>1 DEF Put
  <2>4. Drop(allowance', task.id) = allowance
    BY <1>c, <2>1, <2>2, DropTakesBack
  <2>5. StoreInv'
    BY <2>1, <2>3 DEF StoreInv, Owned, RowIsComplete, Resolves
  <2>6. RestoreInv'
    BY <2>1, <2>2, <2>3, <2>4 DEF RestoreInv
  <2> QED
    BY <2>1, <2>2, <2>5, <2>6 DEF TaskInv, RestoreInv
<1>6. CASE UndoRestore
  <2>1. /\ task.kind = "restore" /\ task' = Idle /\ rows' = rows
        /\ portraits' = IF task.step = "directory" THEN portraits ELSE Drop(portraits, asset)
        /\ allowance' = IF task.step = "profile" THEN Drop(allowance, task.id) ELSE allowance
    BY <1>6 DEF UndoRestore
  <2>2. /\ DOMAIN portraits \ {asset} \subseteq DOMAIN portraits'
        /\ DOMAIN portraits' \subseteq DOMAIN portraits
        /\ \A x \in DOMAIN portraits' : portraits'[x] = portraits[x]
        /\ portraits' = [x \in DOMAIN portraits' |-> portraits'[x]]
    BY <1>c, <2>1 DEF Drop, Restrict
  <2>3. /\ allowance' = [id \in DOMAIN allowance' |-> allowance'[id]]
        /\ DOMAIN allowance \ {task.id} \subseteq DOMAIN allowance'
    BY <1>c, <2>1 DEF Drop, Restrict
  <2>4. task.id \notin DOMAIN rows
    BY <1>2, <2>1 DEF RestoreInv
  <2>5. StoreInv'
    BY <1>2, <2>1, <2>2, <2>3, <2>4, PortraitChanges DEF StoreInv
  <2> QED
    BY <1>a, <2>1, <2>5 DEF TaskInv
<1>7. CASE AddProfile
  <2> DEFINE r == [RestoredProfile(task.file) EXCEPT !.revision = 1]
  <2>1. /\ task.kind = "restore" /\ task.step = "profile" /\ task' = Idle
        /\ rows' = Put(rows, task.id, r) /\ UNCHANGED <<allowance, portraits>>
    BY <1>7 DEF AddProfile, Restoring, CreateProfile
  <2>2. RestoreInv
    BY <1>2, <2>1
  <2>3. /\ DOMAIN r = RowFields /\ r.revision = 1 /\ r.role = p.role
        /\ r.avatar = IF p.portrait THEN asset ELSE Builtin
    BY <2>2 DEF RestoredProfile, RowFields, RestoreInv
  <2> HIDE DEF r
  <2>4. /\ DOMAIN rows' = DOMAIN rows \cup {task.id} /\ rows'[task.id] = r
        /\ \A id \in DOMAIN rows : rows'[id] = rows[id]
    BY <2>1, <2>2 DEF Put, RestoreInv
  <2>5. ASSUME NEW id, id = task.id PROVE RowIsComplete(id)'
    <3>1. ~Managed(Builtin) /\ asset.id = task.id
      BY <2>2 DEF Managed, RestoreInv, RestoredGeneration
    <3>2. Resolves(r.avatar)
      BY <2>1, <2>2, <2>3, <3>1 DEF RestoreInv, Resolves, Pictures
    <3>3. r.role = "child" => task.id \in DOMAIN allowance
      BY <2>1, <2>2, <2>3 DEF RestoreInv
    <3> QED
      BY <2>1, <2>3, <2>4, <2>5, <3>1, <3>2, <3>3 DEF RowIsComplete, Resolves
  <2>6. \A id \in DOMAIN rows' : RowIsComplete(id)'
    BY <1>b, <2>1, <2>4, <2>5 DEF RowIsComplete, Resolves
  <2>7. \A a \in DOMAIN portraits : Owned(a)'
    BY <2>4 DEF StoreInv, Owned
  <2> QED
    BY <1>a, <2>1, <2>6, <2>7 DEF StoreInv, TaskInv
<1> QED
  BY <1>1, <1>3, <1>4, <1>5, <1>6, <1>7 DEF Restorings, RestoreSteps, Pictures

-----------------------------------------------------------------------------
\* The crop screen.
LEMMA CropCases ==
  Next => \/ UNCHANGED <<picture, crop>> /\ screen' \in {screen} \cup
                 {"off", "selector", "home", "picker", "archive", "choose", "consent", "browse"}
          \/ NoCrop /\ screen' # "crop"
          \/ PressCrop \/ \E p \in Staged : OpenCrop(p)
<1> SUFFICES ASSUME Next
             PROVE  \/ UNCHANGED <<picture, crop>> /\ screen' \in {screen} \cup
                          {"off", "selector", "home", "picker", "archive", "choose", "consent", "browse"}
                    \/ NoCrop /\ screen' # "crop"
                    \/ PressCrop \/ \E p \in Staged : OpenCrop(p)
  OBVIOUS
<1> USE DEF imageVars, uiVars, Go
<1>1. CASE Stop \/ Start
  BY <1>1 DEF Stop, Start, Ended, Rebuild
<1>2. CASE Selecting
  BY <1>2 DEF Selecting, SelectProfile, SelectByCombo, MarkLastAccessed, OpenHome, LeaveHome
<1>3. CASE Appearance
  <2>1. CASE OpenPicker \/ LeavePicker \/ CancelCrop
    BY <2>1 DEF OpenPicker, LeavePicker, CancelCrop
  <2>2. CASE \E p \in Staged : OpenCropFails(p)
    BY <2>2 DEF OpenCropFails, Ended
  <2>3. CASE AssignAvatar \/ \E s \in Settings \ {"last_accessed"} : ChangeSetting(s) \/ AssignLook(s)
    BY <2>3 DEF AssignAvatar, ChangeSetting, AssignLook, KeepOrRebuild, Rebuild
  <2>4. CASE ConfirmCrop \/ ImportStep
    BY <2>4 DEF ConfirmCrop, ImportStep
  <2>5. CASE Imported
    BY <2>5 DEF Imported, KeepOrRebuild, Rebuild
  <2> QED
    BY <1>3, <2>1, <2>2, <2>3, <2>4, <2>5 DEF Appearance
<1>4. CASE Archive
  <2>1. CASE OpenArchive \/ CloseArchive \/ BackToArchive \/ ShowExportProfiles \/ MoveConsent
             \/ ShowRestoreArchives
    BY <2>1
    DEF OpenArchive, CloseArchive, BackToArchive, ShowExportProfiles, MoveConsent,
        ShowRestoreArchives
  <2>2. CASE Export \/ ExportStep
    BY <2>2 DEF Export, ExportSelected, ExportStep
  <2>3. CASE (\E id \in DOMAIN listed : ChooseExport(id)) \/ \E id \in DOMAIN exported : TakeArchive(id)
    BY <2>3 DEF ChooseExport, TakeArchive
  <2>4. CASE RestoreStep \/ RestoreEnds \/ \E file \in DOMAIN Card : Restore(file)
    BY <2>4 DEF RestoreStep, RestoreEnds, Restore, KeepOrRebuild, Rebuild
  <2> QED
    BY <1>4, <2>1, <2>2, <2>3, <2>4 DEF Archive
<1> QED
  BY <1>1, <1>2, <1>3, <1>4 DEF Next, Session

LEMMA CropStep == CropInv /\ [Next]_vars => CropInv'
<1> SUFFICES ASSUME CropInv, [Next]_vars PROVE CropInv'
  OBVIOUS
<1> USE CropAssumption DEF CropInv
<1>1. CASE UNCHANGED vars
  BY <1>1 DEF vars, imageVars, uiVars
<1>2. CASE UNCHANGED <<picture, crop>> /\ (screen' = screen \/ screen' # "crop")
  BY <1>2
<1>3. CASE NoCrop /\ screen' # "crop"
  BY <1>3 DEF NoCrop, Centered
<1>4. CASE PressCrop
  <2>1. screen' = screen /\ picture' = picture
    BY <1>4 DEF PressCrop, uiVars
  <2>2. PICK d \in {-1, 1} : Move(d, 0) \/ Move(0, d) \/ AdjustZoom(d)
    BY <1>4 DEF PressCrop
  <2>3. ASSUME NEW v \in Int, NEW low \in Int, NEW high \in Int, low <= high
        PROVE  Clamped(v, low, high) \in low..high
    BY <2>3 DEF Clamped
  <2>4. /\ CropSteps \in Int /\ 0 <= CropSteps /\ ZoomLimit \in Int /\ 4 <= ZoomLimit
        /\ crop.x + d \in Int /\ crop.y + d \in Int /\ crop.zoom + d \in Int
        /\ crop.x + 0 \in Int /\ crop.y + 0 \in Int
    OBVIOUS
  <2>5. ASSUME NEW dx \in {d, 0}, NEW dy \in {d, 0}, Move(dx, dy) PROVE CropInv'
    <3> DEFINE nx == Clamped(crop.x + dx, 0, CropSteps)
               ny == Clamped(crop.y + dy, 0, CropSteps)
    <3>0. crop.x + dx \in Int /\ crop.y + dy \in Int
      BY <2>4
    <3>1. nx \in 0..CropSteps /\ ny \in 0..CropSteps
      BY <2>4, <3>0 DEF Clamped
    <3>2. crop' = [crop EXCEPT !.x = nx, !.y = ny]
      BY <2>5 DEF Move
    <3> HIDE DEF nx, ny
    <3> QED
      BY <2>1, <3>1, <3>2
  <2>6. CASE AdjustZoom(d)
    BY <2>1, <2>3, <2>4, <2>6 DEF AdjustZoom
  <2> QED
    BY <2>2, <2>5, <2>6
<1>5. CASE \E p \in Staged : OpenCrop(p)
  BY <1>5 DEF OpenCrop, Go, Centered
<1> QED
  BY <1>1, <1>2, <1>3, <1>4, <1>5, CropCases

-----------------------------------------------------------------------------
LEMMA InitiallyStored == Init => TransferInv
<1> SUFFICES ASSUME Init PROVE TransferInv
  OBVIOUS
<1> USE DEF Init
<1>1. StoreInv
  <2>1. \A id \in DOMAIN rows : RowIsComplete(id)
    BY DEF RowIsComplete, InitialRow, RowFields, Resolves, Managed
  <2>2. DOMAIN portraits = {}
    OBVIOUS
  <2> QED
    BY <2>1, <2>2 DEF StoreInv
<1>2. TaskInv
  BY DEF TaskInv, Idle
<1>3. CropInv
  BY CropAssumption DEF CropInv, Centered
<1> QED
  BY <1>1, <1>2, <1>3 DEF TransferInv

LEMMA TransferInvariant == Spec => []TransferInv
<1>1. TransferInv /\ [Next]_vars => TransferInv'
  <2> SUFFICES ASSUME TransferInv, [Next]_vars PROVE TransferInv'
    OBVIOUS
  <2>1. CASE UNCHANGED vars
    <3>1. Elsewhere
      BY <2>1 DEF vars, imageVars, Elsewhere, TransferInv, TaskInv
    <3> QED
      BY <3>1, CropStep, ElsewhereKeeps DEF TransferInv
  <2>2. CASE Next
    BY <2>2, CropStep, StepCases, ElsewhereKeeps, RowChangesKeep, ImportingsKeep, RestoringsKeep
    DEF TransferInv
  <2> QED
    BY <2>1, <2>2
<1> QED
  BY <1>1, InitiallyStored, PTL DEF Spec

\* Imports, restores, backups and settings, stopped between any two writes or
\* undone at any of them: the portrait a profile names is there and whole, and
\* a child has its allowance (import_for_profile and restore_profile).
THEOREM ProfilesStayComplete == Spec => []ProfilesAreComplete
<1>1. TransferInv => ProfilesAreComplete
  BY DEF TransferInv, StoreInv, RowIsComplete, ProfilesAreComplete
<1> QED
  BY <1>1, TransferInvariant, PTL

\* A generation that an import left behind is never ahead of its profile, so
\* that it is in the way of one import only until the profile changes.
THEOREM LeftoversAreOutgrown == Spec => []OneChangeUnblocks
<1>1. TransferInv => OneChangeUnblocks
  BY ArchiveAssumption DEF TransferInv, StoreInv, Owned, OneChangeUnblocks
<1> QED
  BY <1>1, TransferInvariant, PTL

-----------------------------------------------------------------------------
\* The files left under a pending name: at most one for each time the launcher
\* was stopped, besides that of the export in progress.
PendingInv ==
  /\ cuts \in Nat /\ IsFiniteSet(DOMAIN pending)
  /\ task.kind = "export" => /\ task.id \in DOMAIN pending
                             /\ Cardinality(DOMAIN pending) <= cuts + 1
  /\ task.kind # "export" => Cardinality(DOMAIN pending) <= cuts

\* No export begins or ends, and none of its files is touched.
NotExporting ==
  /\ UNCHANGED pending
  /\ task' = task \/ (task.kind # "export" /\ task'.kind # "export")

\* Only an export and its end touch the pending files.
LEMMA PendingCases ==
  TaskInv /\ Session =>
    \/ task = Idle /\ \E id, include : ExportSelected(id, include)
    \/ ExportStep
    \/ NotExporting
<1> SUFFICES ASSUME TaskInv, Session, ~ExportStep,
                    \A id, include : ~(task = Idle /\ ExportSelected(id, include))
             PROVE  NotExporting
  OBVIOUS
<1>0. Idle.kind = "none" /\ "kind" \in DOMAIN task
  BY DEF Idle, TaskInv
<1> USE DEF NotExporting, exportVars
<1>1. CASE Start
  BY <1>1 DEF Start, imageVars
<1>2. CASE Selecting
  <2>1. CASE \E id \in DOMAIN rows : MarkLastAccessed(id)
    <3>1. PICK id \in DOMAIN rows : MarkLastAccessed(id)
      BY <2>1
    <3>2. task.kind = "select" /\ UNCHANGED pending
          /\ task' = [task EXCEPT !.left = @ \ {id}]
      BY <3>1 DEF MarkLastAccessed
    <3>3. task'.kind = "select"
      BY <1>0, <3>2
    <3> QED
      BY <3>2, <3>3
  <2>2. CASE \E id \in DOMAIN selector : SelectProfile(id)
    BY <1>0, <2>2 DEF SelectProfile, On
  <2>3. CASE \E id \in DOMAIN selector : SelectByCombo(id)
    BY <2>3 DEF SelectByCombo, imageVars
  <2>4. CASE OpenHome \/ LeaveHome
    BY <1>0, <2>4 DEF OpenHome, LeaveHome, imageVars
  <2> QED
    BY <1>2, <2>1, <2>2, <2>3, <2>4 DEF Selecting
<1>3. CASE Appearance
  <2>1. CASE OpenPicker \/ LeavePicker \/ PressCrop \/ CancelCrop \/ AssignAvatar
    BY <2>1 DEF OpenPicker, LeavePicker, PressCrop, CancelCrop, AssignAvatar, imageVars
  <2>2. CASE \E p \in Staged : OpenCrop(p) \/ OpenCropFails(p)
    BY <1>0, <2>2 DEF OpenCrop, OpenCropFails, On, Ended
  <2>3. CASE \E s \in Settings \ {"last_accessed"} : ChangeSetting(s) \/ AssignLook(s)
    BY <2>3 DEF ChangeSetting, AssignLook, imageVars
  <2>4. CASE ConfirmCrop
    BY <1>0, <2>4 DEF ConfirmCrop, BeginImport, On
  <2>5. CASE ImportStep
    BY <1>0, <2>5
    DEF ImportStep, ImportSteps, SavePng, UpdateProfile, CleanOld, UndoImport, Importing, Then
  <2>6. CASE Imported
    BY <1>0, <2>6 DEF Imported, EndImport, Importing
  <2> QED
    BY <1>3, <2>1, <2>2, <2>3, <2>4, <2>5, <2>6 DEF Appearance
<1>4. CASE Archive
  <2>1. CASE OpenArchive \/ CloseArchive \/ BackToArchive \/ ShowExportProfiles \/ MoveConsent
             \/ ShowRestoreArchives
    BY <2>1
    DEF OpenArchive, CloseArchive, BackToArchive, ShowExportProfiles, MoveConsent,
        ShowRestoreArchives, imageVars
  <2>2. ~Export
    BY DEF Export, On
  <2>3. CASE (\E id \in DOMAIN listed : ChooseExport(id)) \/ \E id \in DOMAIN exported : TakeArchive(id)
    BY <2>3 DEF ChooseExport, TakeArchive, imageVars
  <2>4. CASE \E file \in DOMAIN Card : Restore(file)
    BY <1>0, <2>4 DEF Restore, BeginRestore, On
  <2>5. CASE RestoreStep
    BY <1>0, <2>5
    DEF RestoreStep, RestoreSteps, MakeDirectory, WriteNewFile, GiveAllowance, UndoRestore,
        Restoring, Then
  <2>6. CASE RestoreEnds
    BY <1>0, <2>6 DEF RestoreEnds, AddProfile, Restoring
  <2> QED
    BY <1>4, <2>1, <2>2, <2>3, <2>4, <2>5, <2>6 DEF Archive
<1> QED
  BY <1>1, <1>2, <1>3, <1>4 DEF Session

LEMMA PendingStep == PendingInv /\ TaskInv /\ [Next]_vars => PendingInv'
<1> SUFFICES ASSUME PendingInv, TaskInv, [Next]_vars PROVE PendingInv'
  OBVIOUS
<1> DEFINE n == Cardinality(DOMAIN pending)
<1>0. /\ Idle.kind = "none" /\ "kind" \in DOMAIN task
      /\ n \in Nat /\ cuts \in Nat /\ IsFiniteSet(DOMAIN pending)
  BY FS_CardinalityType DEF Idle, TaskInv, PendingInv
<1>1. CASE UNCHANGED vars
  BY <1>1 DEF vars, imageVars, exportVars, PendingInv
<1>2. CASE Stop
  <2>1. pending' = pending /\ task' = Idle
        /\ cuts' = cuts + (IF task = Idle THEN 0 ELSE 1)
    BY <1>2 DEF Stop, Ended, exportVars
  <2>2. cuts' \in Nat /\ n <= cuts'
    BY <1>0, <2>1 DEF PendingInv
  <2> QED
    BY <1>0, <2>1, <2>2 DEF PendingInv
<1>3. ASSUME UNCHANGED cuts, task = Idle, NEW id, NEW include, ExportSelected(id, include)
      PROVE  PendingInv'
  <2>1. /\ id \notin DOMAIN pending /\ pending' = Put(pending, id, "part")
        /\ task'.kind = "export" /\ task'.id = id
    BY <1>3 DEF ExportSelected, BeginExport, Writable
  <2>2. DOMAIN pending' = DOMAIN pending \cup {id}
    BY <2>1 DEF Put
  <2>3. IsFiniteSet(DOMAIN pending') /\ Cardinality(DOMAIN pending') = n + 1
    BY <1>0, <2>1, <2>2, FS_AddElement
  <2>4. n <= cuts
    BY <1>0, <1>3 DEF PendingInv
  <2> QED
    BY <1>0, <1>3, <2>1, <2>2, <2>3, <2>4 DEF PendingInv
<1>4. CASE UNCHANGED cuts /\ ExportStep
  <2>1. CASE WriteExport
    BY <1>4, <2>1 DEF WriteExport, PendingInv
  <2>2. CASE ActivateExport \/ ExportFails
    <3>1. /\ task.kind = "export" /\ task' = Idle
          /\ pending' = Drop(pending, task.id)
      BY <2>2 DEF ActivateExport, ExportFails, Exporting
    <3>2. DOMAIN pending' = DOMAIN pending \ {task.id}
      BY <3>1 DEF Drop, Restrict
    <3>3. task.id \in DOMAIN pending /\ n <= cuts + 1
      BY <3>1 DEF PendingInv
    <3>4. IsFiniteSet(DOMAIN pending') /\ Cardinality(DOMAIN pending') = n - 1
      BY <1>0, <3>2, <3>3, FS_RemoveElement
    <3> QED
      BY <1>0, <1>4, <3>1, <3>3, <3>4 DEF PendingInv
  <2> QED
    BY <1>4, <2>1, <2>2 DEF ExportStep
<1>5. CASE UNCHANGED cuts /\ NotExporting
  BY <1>5 DEF NotExporting, PendingInv
<1> QED
  BY <1>1, <1>2, <1>3, <1>4, <1>5, PendingCases DEF Next

\* Between two operations every profile is one that export_profile takes, and
\* only exports during which the launcher was stopped have left a file in the
\* way (export_profile and write_archive).
THEOREM ExportsStayPossible == Spec => []ExportsCanBeRepeated
<1>1. Init => PendingInv
  BY FS_EmptySet DEF Init, PendingInv, Idle
<1>2. TransferInv => TaskInv
  BY DEF TransferInv
<1>3. Spec => []PendingInv
  BY <1>1, <1>2, PendingStep, TransferInvariant, PTL DEF Spec
<1>4. ASSUME TransferInv, PendingInv PROVE ExportsCanBeRepeated
  <2>1. Idle.kind = "none"
    BY DEF Idle
  <2>2. \A id \in DOMAIN rows : Exportable(id, TRUE)
    BY <1>4 DEF TransferInv, StoreInv, RowIsComplete, Exportable
  <2> QED
    BY <1>4, <2>1, <2>2 DEF PendingInv, ExportsCanBeRepeated
<1> QED
  BY <1>3, <1>4, TransferInvariant, PTL

\* A restore that fails at any of its writes leaves the profiles, the
\* allowances and the portraits as it found them.
THEOREM FailedRestoresLeaveNothing == Spec => FailedRestoreChangesNothing
<1>1. ASSUME TransferInv, Next, task.kind = "restore", task' = Idle, screen' # "off", rows' = rows
      PROVE  storeVars' = task.before
  <2>1. RestoreInv
    BY <1>1 DEF TransferInv, TaskInv
  <2>2. Idle.kind = "none"
    BY DEF Idle
  <2>3. ~Elsewhere /\ ~RowChanges /\ ~Importings
    BY <1>1, <2>2
    DEF Elsewhere, RowChanges, Importings, BeginImport, ImportSteps, SavePng, UpdateProfile,
        CleanOld, UndoImport, EndImport, Importing
  <2>4. \A file \in DOMAIN Card : ~BeginRestore(file)
    BY <1>1, <2>2 DEF BeginRestore
  <2>5. ~RestoreSteps
    <3>1. task' # task /\ \A step : task' # [task EXCEPT !.step = step]
      BY <1>1, <2>1, <2>2 DEF RestoreInv
    <3> QED
      BY <3>1 DEF RestoreSteps, MakeDirectory, WriteNewFile, GiveAllowance, Then
  <2>6. ~AddProfile
    BY <1>1, <2>1 DEF AddProfile, CreateProfile, Put, RestoreInv
  <2>7. UndoRestore
    BY <1>1, <2>3, <2>4, <2>5, <2>6, StepCases DEF Restorings, TransferInv
  <2> QED
    BY <2>1, <2>7 DEF UndoRestore, RestoreInv, storeVars
<1>2. TransferInv /\ [Next]_vars =>
        [task.kind = "restore" /\ task' = Idle /\ screen' # "off" /\ rows' = rows
           => storeVars' = task.before]_vars
  BY <1>1
<1> QED
  BY <1>2, TransferInvariant, PTL DEF Spec, FailedRestoreChangesNothing

-----------------------------------------------------------------------------
\* Rounding, and the rectangle of a crop.
LEMMA DivisionBounds ==
  ASSUME NEW a \in Nat, NEW b \in Nat \ {0}
  PROVE  a \div b \in Nat /\ b * (a \div b) <= a
OBVIOUS

LEMMA ProductGrows ==
  ASSUME NEW a \in Nat, NEW b \in Nat, NEW c \in Nat, b <= c
  PROVE  a * b <= a * c
OBVIOUS

LEMMA RoundedIsNatural ==
  ASSUME NEW a \in Nat, NEW b \in Nat \ {0}
  PROVE  Rounded(a, b) \in Nat /\ (2 * b) * Rounded(a, b) <= 2 * a + b
<1>1. 2 * a + b \in Nat /\ 2 * b \in Nat \ {0}
  OBVIOUS
<1> QED
  BY <1>1, DivisionBounds DEF Rounded

\* Four quarters of the side, divided by a zoom of at least four quarters, are
\* not more than the side, rounded though they are.
LEMMA ZoomedIsSmaller ==
  ASSUME NEW s \in Nat, NEW zoom \in Nat, zoom >= 4
  PROVE  Rounded(4 * s, zoom) \in Nat /\ Rounded(4 * s, zoom) <= s
<1> DEFINE q == Rounded(4 * s, zoom)
<1>1. q \in Nat /\ (2 * zoom) * q <= 2 * (4 * s) + zoom
  <2>1. 4 * s \in Nat /\ zoom \in Nat \ {0}
    OBVIOUS
  <2> QED
    BY <2>1, RoundedIsNatural
<1> HIDE DEF q
<1>2. ASSUME s + 1 <= q PROVE FALSE
  <2>1. (2 * zoom) * (s + 1) <= (2 * zoom) * q
    BY <1>1, <1>2, ProductGrows
  <2>2. 4 * s <= zoom * s
    BY ProductGrows
  <2>3. (2 * zoom) * (s + 1) = 2 * (zoom * s) + 2 * zoom
    OBVIOUS
  <2> QED
    BY <1>1, <2>1, <2>2, <2>3
<1> QED
  BY <1>1, <1>2 DEF q

LEMMA SideFits ==
  ASSUME NEW p, Width(p) \in Nat \ {0}, Height(p) \in Nat \ {0},
         NEW zoom \in Nat, zoom >= 4
  PROVE  /\ Side(p, zoom) \in Nat \ {0}
         /\ Side(p, zoom) <= Width(p) /\ Side(p, zoom) <= Height(p)
<1> DEFINE shorter == IF Width(p) < Height(p) THEN Width(p) ELSE Height(p)
<1>1. shorter \in Nat \ {0} /\ shorter <= Width(p) /\ shorter <= Height(p)
  OBVIOUS
<1> HIDE DEF shorter
<1>2. Rounded(4 * shorter, zoom) \in Nat /\ Rounded(4 * shorter, zoom) <= shorter
  BY <1>1, ZoomedIsSmaller
<1>3. Side(p, zoom) = IF Rounded(4 * shorter, zoom) < 1 THEN 1 ELSE Rounded(4 * shorter, zoom)
  BY DEF Side, shorter
<1> QED
  BY <1>1, <1>2, <1>3

LEMMA CornerFits ==
  ASSUME NEW centre \in Nat, NEW length \in Nat, NEW side \in Nat, side <= length
  PROVE  Corner(centre, length, side) \in 0..(length - side)
<1>1. centre * length \in Nat /\ CropSteps \in Nat \ {0}
  BY CropAssumption
<1>2. Rounded(centre * length, CropSteps) \in Nat /\ side \div 2 \in Nat
  BY <1>1, RoundedIsNatural
<1> QED
  BY <1>2 DEF Corner, Clamped

\* Turned upright, a picture has the pixels of its file, each once.
LEMMA PixelsAreTheFiles ==
  ASSUME NEW p, p.w \in Nat, p.h \in Nat, p.orientation \in 1..8,
         NEW x \in 0..(Width(p) - 1), NEW y \in 0..(Height(p) - 1),
         NEW u \in 0..(Width(p) - 1), NEW v \in 0..(Height(p) - 1)
  PROVE  /\ SourceOf(p, x, y) \in (0..(p.w - 1)) \X (0..(p.h - 1))
         /\ SourceOf(p, x, y) = SourceOf(p, u, v) => x = u /\ y = v
<1>1. CASE p.orientation \in 1..4
  BY <1>1 DEF SourceOf, Width, Height
<1>2. CASE p.orientation \in 5..8
  BY <1>2 DEF SourceOf, Width, Height
<1> QED
  BY <1>1, <1>2

\* The square on the crop screen lies in the picture, whatever its size, its
\* orientation, the zoom and the centre (crop_rectangle and apply_orientation).
THEOREM CropsReadThePicture == Spec => []CropReadsThePicture
<1>1. ASSUME CropInv, screen = "crop"
      PROVE  LET c == CropRectangle(picture, crop)
                 taken == (c.x .. c.x + c.side - 1) \X (c.y .. c.y + c.side - 1)
                 read == {SourceOf(picture, t[1], t[2]) : t \in taken}
             IN  /\ read \subseteq (0 .. picture.w - 1) \X (0 .. picture.h - 1)
                 /\ Cardinality(read) = c.side * c.side /\ c.side > 0
  <2> DEFINE c == CropRectangle(picture, crop)
             across == c.x .. c.x + c.side - 1
             down == c.y .. c.y + c.side - 1
             taken == across \X down
             read == {SourceOf(picture, t[1], t[2]) : t \in taken}
  <2>1. /\ picture.w \in Nat \ {0} /\ picture.h \in Nat \ {0}
        /\ picture.orientation \in 1..8
    BY <1>1, CropAssumption DEF CropInv, Decodable, Decoded, ExifOrientation
  <2>2. Width(picture) \in Nat \ {0} /\ Height(picture) \in Nat \ {0}
    BY <2>1 DEF Width, Height
  <2>3. crop.x \in Nat /\ crop.y \in Nat /\ crop.zoom \in Nat /\ crop.zoom >= 4
    BY <1>1, CropAssumption DEF CropInv
  <2>4. /\ c.side \in Nat \ {0}
        /\ c.x \in 0..(Width(picture) - c.side) /\ c.y \in 0..(Height(picture) - c.side)
    <3>1. /\ c.side = Side(picture, crop.zoom)
          /\ c.x = Corner(crop.x, Width(picture), c.side)
          /\ c.y = Corner(crop.y, Height(picture), c.side)
      BY DEF CropRectangle
    <3>2. c.side \in Nat \ {0} /\ c.side <= Width(picture) /\ c.side <= Height(picture)
      BY <2>2, <2>3, <3>1, SideFits
    <3> QED
      BY <2>2, <2>3, <3>1, <3>2, CornerFits
  <2> HIDE DEF c
  <2>5. across \subseteq 0..(Width(picture) - 1) /\ down \subseteq 0..(Height(picture) - 1)
    BY <2>2, <2>4
  <2>6. Cardinality(taken) = c.side * c.side /\ IsFiniteSet(taken)
    <3>1. /\ IsFiniteSet(across) /\ Cardinality(across) = c.side
          /\ IsFiniteSet(down) /\ Cardinality(down) = c.side
      <4>1. \A n \in Nat : /\ IsFiniteSet(n .. n + c.side - 1)
                           /\ Cardinality(n .. n + c.side - 1) = c.side
        <5>1. SUFFICES ASSUME NEW n \in Nat, NEW k \in Nat \ {0}
                       PROVE  /\ IsFiniteSet(n .. n + k - 1)
                              /\ Cardinality(n .. n + k - 1) = k
          BY <2>4
        <5>2. n + k - 1 \in Int /\ n <= n + k - 1 /\ (n + k - 1) - n + 1 = k
          BY <5>1
        <5> DEFINE last == n + k - 1
        <5> HIDE DEF last
        <5>3. last \in Int /\ n <= last /\ last - n + 1 = k
          BY <5>2 DEF last
        <5>4. IsFiniteSet(n .. last) /\ Cardinality(n .. last) = k
          BY <5>3, FS_Interval
        <5> QED
          BY <5>4 DEF last
      <4>2. c.x \in Nat /\ c.y \in Nat
        BY <2>2, <2>4
      <4> QED
        BY <4>1, <4>2
    <3> HIDE DEF across, down
    <3>2. /\ IsFiniteSet(across \X down)
          /\ Cardinality(across \X down) = Cardinality(across) * Cardinality(down)
      BY <3>1, FS_Product
    <3> QED
      BY <3>1, <3>2
  <2>7. \A s, t \in taken :
          /\ SourceOf(picture, t[1], t[2]) \in (0 .. picture.w - 1) \X (0 .. picture.h - 1)
          /\ SourceOf(picture, s[1], s[2]) = SourceOf(picture, t[1], t[2]) => s = t
    <3> TAKE s \in taken, t \in taken
    <3> HIDE DEF across, down
    <3>1. PICK x \in across, y \in down : s = <<x, y>>
      OBVIOUS
    <3>2. PICK u \in across, v \in down : t = <<u, v>>
      OBVIOUS
    <3>3. /\ x \in 0..(Width(picture) - 1) /\ y \in 0..(Height(picture) - 1)
          /\ u \in 0..(Width(picture) - 1) /\ v \in 0..(Height(picture) - 1)
      BY <2>5
    <3>4. /\ SourceOf(picture, u, v) \in (0 .. picture.w - 1) \X (0 .. picture.h - 1)
          /\ SourceOf(picture, x, y) = SourceOf(picture, u, v) => x = u /\ y = v
      BY <2>1, <3>3, PixelsAreTheFiles
    <3> QED
      BY <3>1, <3>2, <3>4
  <2> HIDE DEF across, down, taken
  <2>8. Cardinality(read) = Cardinality(taken)
    <3> DEFINE f == [t \in taken |-> SourceOf(picture, t[1], t[2])]
    <3>1. f \in [taken -> read] /\ \A s, t \in taken : f[s] = f[t] => s = t
      BY <2>7
    <3>2. \A r \in read : \E t \in taken : f[t] = r
      OBVIOUS
    <3> HIDE DEF f, read
    <3>3. f \in Bijection(taken, read)
      BY <3>1, <3>2, Fun_IsBij
    <3> QED
      BY <2>6, <3>3, FS_Bijection DEF ExistsBijection
  <2> QED
    BY <2>4, <2>6, <2>7, <2>8 DEF c, across, down, taken
<1>2. CropInv => CropReadsThePicture
  BY <1>1 DEF CropReadsThePicture
<1>3. TransferInv => CropInv
  BY DEF TransferInv
<1> QED
  BY <1>2, <1>3, TransferInvariant, PTL

=============================================================================
