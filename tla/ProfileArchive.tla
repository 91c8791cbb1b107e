--------------------------- MODULE ProfileArchive ---------------------------
(***************************************************************************)
(* profile_archive.cpp: one profile is exported to a new file, or restored *)
(* from one into the three places that keep it: first the portrait, then   *)
(* the allowance, the profile last; what was written is taken back when a  *)
(* later step fails.                                                       *)
(***************************************************************************)
EXTENDS ProfileImages

CONSTANT Card   \* imports/: what each archive there says

\* Archives are named *.sprout-profile: none is taken for another origin.
ASSUME ArchiveAssumption == DOMAIN Card \cap {"builtin", "import"} = {}

VARIABLES
  exported,  \* exports/: per profile, the archive under its name
  pending    \* and the file it is written to first: "part" or "whole"

exportVars == <<exported, pending>>

\* What an archive carries of a profile: no revision, no generation, and the
\* pictures themselves in place of their reference.
SerializePayload(id, pictures) ==
  [id |-> id, role |-> rows[id].role, ns |-> rows[id].ns,
   look |-> rows[id].look, portrait |-> pictures,
   allowance |-> IF rows[id].role = "child" THEN allowance[id] ELSE 0]

-----------------------------------------------------------------------------
\* export_profile: only an active profile, a child with its allowance, a
\* portrait that is whole and that the parent agreed to.
Exportable(id, include) ==
  /\ id \in DOMAIN rows
  /\ rows[id].role = "child" => id \in DOMAIN allowance
  /\ Managed(rows[id].avatar) => include /\ Resolves(rows[id].avatar)

\* write_archive refuses a name that is taken, or left over.
Writable(id) == id \notin DOMAIN exported /\ id \notin DOMAIN pending

BeginExport(id, include) ==
  /\ Exportable(id, include) /\ Writable(id)
  /\ pending' = Put(pending, id, "part")
  /\ task' = [kind |-> "export", id |-> id,
              archive |-> SerializePayload(id, Managed(rows[id].avatar))]
  /\ UNCHANGED <<storeVars, exported>>

Exporting(content) == task.kind = "export" /\ pending[task.id] = content

\* The file is flushed and synchronized.
WriteExport ==
  /\ Exporting("part")
  /\ pending' = [pending EXCEPT ![task.id] = "whole"]
  /\ UNCHANGED <<storeVars, exported, task>>

\* The rename replaces nothing.
ActivateExport ==
  /\ Exporting("whole") /\ task.id \notin DOMAIN exported
  /\ exported' = Put(exported, task.id, task.archive)
  /\ pending' = Drop(pending, task.id)
  /\ task' = Idle
  /\ UNCHANGED storeVars

\* Mutant: the pending file of an export that fails stays.
ExportFailsLeavingFile ==
  /\ task.kind = "export"
  /\ task' = Idle
  /\ UNCHANGED <<storeVars, exportVars>>

ExportFails ==
  /\ task.kind = "export"
  /\ pending' = Drop(pending, task.id)
  /\ task' = Idle
  /\ UNCHANGED <<storeVars, exported>>

-----------------------------------------------------------------------------
\* parse_archive: an envelope that can be read and whose checksum is that of
\* its payload, and a profile that makes sense.
Valid(a) ==
  /\ a.sum = a.payload
  /\ a.payload.role \in {"parent", "child"}
  /\ a.payload.role = "child" <=> a.payload.allowance > 0

ReadArchive(file) == Card[file].payload

Conflicts(p) ==
  \/ p.id \in DOMAIN rows
  \/ NamespaceTaken(p.ns)
  \/ p.id \in DOMAIN allowance

\* restored_asset_id: after the profile and the checksum.
RestoredGeneration(file) ==
  [from |-> file, id |-> ReadArchive(file).id, n |-> 0]

AfterPortrait(p) == IF p.role = "child" THEN "allowance" ELSE "profile"

BeginRestore(file) ==
  /\ Valid(Card[file]) /\ ~Conflicts(ReadArchive(file))
  /\ task' = [kind |-> "restore", file |-> file, id |-> ReadArchive(file).id,
              asset |-> RestoredGeneration(file),
              step |-> IF ReadArchive(file).portrait THEN "directory"
                       ELSE AfterPortrait(ReadArchive(file)),
              before |-> storeVars]
  /\ UNCHANGED <<storeVars, exportVars>>

Restoring(step) == task.kind = "restore" /\ task.step = step

\* write_restored_image: a directory of its own, then the files in place.
MakeDirectory ==
  /\ Restoring("directory") /\ task.asset \notin DOMAIN portraits
  /\ portraits' = Put(portraits, task.asset, Blank)
  /\ Then("portrait")
  /\ UNCHANGED <<rows, allowance>>

WriteNewFile(f, next) ==
  /\ Restoring(f)
  /\ \/ portraits[task.asset][f] = "none" /\ SetFile(f, "part") /\ UNCHANGED task
     \/ portraits[task.asset][f] = "part" /\ SetFile(f, "whole") /\ Then(next)
  /\ UNCHANGED <<rows, allowance>>

GiveAllowance ==
  /\ Restoring("allowance")
  /\ allowance' = Put(allowance, task.id, ReadArchive(task.file).allowance)
  /\ Then("profile")
  /\ UNCHANGED <<rows, portraits>>

RestoredProfile(file) ==
  LET p == ReadArchive(file)
  IN  [role |-> p.role, ns |-> p.ns, look |-> p.look, revision |-> 1,
       avatar |-> IF p.portrait THEN RestoredGeneration(file) ELSE Builtin]

AddProfile ==
  /\ Restoring("profile")
  /\ CreateProfile(task.id, RestoredProfile(task.file))
  /\ task' = Idle
  /\ UNCHANGED <<allowance, portraits>>

\* Mutant: the allowance is not taken back.
UndoPortraitOnly ==
  /\ task.kind = "restore"
  /\ portraits' = IF task.step = "directory" THEN portraits
                  ELSE Drop(portraits, task.asset)
  /\ task' = Idle
  /\ UNCHANGED <<rows, allowance>>

\* A step fails: what this restore wrote goes, and nothing else.
UndoRestore ==
  /\ task.kind = "restore"
  /\ portraits' = IF task.step = "directory" THEN portraits
                  ELSE Drop(portraits, task.asset)
  /\ allowance' = IF task.step = "profile" THEN Drop(allowance, task.id)
                  ELSE allowance
  /\ task' = Idle
  /\ UNCHANGED rows

RestoreSteps ==
  \/ MakeDirectory
  \/ WriteNewFile("portrait", "thumbnail")
  \/ WriteNewFile("thumbnail", AfterPortrait(ReadArchive(task.file)))
  \/ GiveAllowance

=============================================================================
