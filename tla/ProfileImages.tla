---------------------------- MODULE ProfileImages ----------------------------
(***************************************************************************)
(* profile_image_importer.cpp: a staged picture is turned upright, cropped *)
(* by the parent and written as a new generation of managed portraits,     *)
(* which the profile then names; the generation it named before goes last. *)
(* Lengths are pixels, a crop's centre counts in CropSteps of the side and *)
(* its zoom in quarters.                                                   *)
(***************************************************************************)
EXTENDS ProfileStore

CONSTANTS
  Staged,      \* the pictures imports/ may hold: the size and the EXIF tag
  SideLimit,   \* 8192 in the code
  CropSteps,   \* 20 in the code: a press moves the centre by 0.05
  ZoomLimit    \* 16 in the code: four times

ASSUME CropAssumption ==
  /\ CropSteps \in Nat \ {0} /\ ZoomLimit \in Nat /\ ZoomLimit >= 4
  /\ Staged \subseteq [w : Nat, h : Nat, tag : Nat]

VARIABLES
  task,     \* what the launcher is in the middle of
  picture,  \* the picture on the crop screen
  crop      \* the selection there: x, y and zoom

imageVars == <<task, picture, crop>>

NoPicture == [w |-> 0, h |-> 0, orientation |-> 1]
Centered == [x |-> CropSteps \div 2, y |-> CropSteps \div 2, zoom |-> 4]

\* read_source and decode refuse what is empty, malformed or too large.
Decodable(p) == p.w \in 1..SideLimit /\ p.h \in 1..SideLimit

\* What the file's EXIF data says, if that makes sense.
ExifOrientation(p) == IF p.tag \in 1..8 THEN p.tag ELSE 1

Decoded(p) == [w |-> p.w, h |-> p.h, orientation |-> ExifOrientation(p)]

\* A picture taken sideways is as wide as its file is high.
Width(p) == IF p.orientation >= 5 THEN p.h ELSE p.w
Height(p) == IF p.orientation >= 5 THEN p.w ELSE p.h

\* Where the pixel <<x, y>> of the upright picture lies in the file.
SourceOf(p, x, y) ==
  CASE p.orientation = 2 -> <<p.w - 1 - x, y>>
    [] p.orientation = 3 -> <<p.w - 1 - x, p.h - 1 - y>>
    [] p.orientation = 4 -> <<x, p.h - 1 - y>>
    [] p.orientation = 5 -> <<y, x>>
    [] p.orientation = 6 -> <<y, p.h - 1 - x>>
    [] p.orientation = 7 -> <<p.w - 1 - y, p.h - 1 - x>>
    [] p.orientation = 8 -> <<p.w - 1 - y, x>>
    [] OTHER -> <<x, y>>

\* lround of a quotient that is not negative, and std::clamp.
Rounded(a, b) == (2 * a + b) \div (2 * b)
Clamped(v, low, high) == IF v < low THEN low ELSE IF high < v THEN high ELSE v

Side(p, zoom) ==
  LET shorter == IF Width(p) < Height(p) THEN Width(p) ELSE Height(p)
      side == Rounded(4 * shorter, zoom)
  IN  IF side < 1 THEN 1 ELSE side

\* Mutant: the centre is not kept away from the borders.
CornerUnclamped(centre, length, side) ==
  Clamped(Rounded(centre * length, CropSteps) - side \div 2, 0, length)

Corner(centre, length, side) ==
  Clamped(Rounded(centre * length, CropSteps) - side \div 2, 0, length - side)

CropRectangle(p, c) ==
  LET side == Side(p, c.zoom)
  IN  [x |-> Corner(c.x, Width(p), side), y |-> Corner(c.y, Height(p), side),
       side |-> side]

Move(dx, dy) ==
  crop' = [crop EXCEPT !.x = Clamped(@ + dx, 0, CropSteps),
                       !.y = Clamped(@ + dy, 0, CropSteps)]

AdjustZoom(delta) == crop' = [crop EXCEPT !.zoom = Clamped(@ + delta, 4, ZoomLimit)]

-----------------------------------------------------------------------------
\* The import of one generation.

Idle == [kind |-> "none"]

\* Mutant: the generation is named one revision too late.
GenerationTooLate(id) == [from |-> "import", id |-> id, n |-> rows[id].revision + 2]

\* asset_id: the generation the row will be at.
Generation(id) == [from |-> "import", id |-> id, n |-> rows[id].revision + 1]

\* A generation that is there already refuses the import.
BeginImport(id) ==
  /\ id \in DOMAIN rows /\ rows[id].revision < MaxRevision[id]
  /\ Generation(id) \notin DOMAIN portraits
  /\ portraits' = Put(portraits, Generation(id), Blank)
  /\ task' = [kind |-> "import", step |-> "portrait", id |-> id,
              asset |-> Generation(id), old |-> rows[id].avatar]
  /\ UNCHANGED <<rows, allowance>>

Importing(step) == task.kind = "import" /\ task.step = step
Then(step) == task' = [task EXCEPT !.step = step]
SetFile(f, content) == portraits' = [portraits EXCEPT ![task.asset][f] = content]

\* save_png: the file is written and synchronized under its other name,
\* then renamed.
SavePng(f, next) ==
  /\ Importing(f)
  /\ \/ portraits[task.asset][f] = "none" /\ SetFile(f, "pending") /\ UNCHANGED task
     \/ portraits[task.asset][f] = "pending" /\ SetFile(f, "whole") /\ Then(next)
  /\ UNCHANGED <<rows, allowance>>

UpdateProfile ==
  /\ Importing("update")
  /\ SetAvatarRef(task.id, task.asset)
  /\ Then("clean")
  /\ UNCHANGED <<allowance, portraits>>

\* Mutant: an error in the cleaning is handled like one before it.
UndoAnytime ==
  /\ task.kind = "import"
  /\ portraits' = Drop(portraits, task.asset)
  /\ task' = Idle
  /\ UNCHANGED <<rows, allowance>>

\* A file or the update fails: remove_new_asset.
UndoImport ==
  /\ task.kind = "import" /\ task.step # "clean"
  /\ portraits' = Drop(portraits, task.asset)
  /\ task' = Idle
  /\ UNCHANGED <<rows, allowance>>

\* remove_old_asset: the portrait, the thumbnail, the directory.
CleanOld ==
  /\ Importing("clean") /\ task.old \in DOMAIN portraits
  /\ IF portraits[task.old]["portrait"] # "none"
     THEN portraits' = [portraits EXCEPT ![task.old]["portrait"] = "none"]
     ELSE /\ portraits[task.old]["thumbnail"] # "none"
          /\ portraits' = [portraits EXCEPT ![task.old]["thumbnail"] = "none"]
  /\ UNCHANGED <<rows, allowance, task>>

\* A built-in portrait needs no cleaning, and a file that cannot be removed
\* ends it.
EndImport ==
  /\ Importing("clean")
  /\ \/ UNCHANGED portraits
     \/ /\ task.old \in DOMAIN portraits /\ portraits[task.old] = Blank
        /\ portraits' = Drop(portraits, task.old)
  /\ task' = Idle
  /\ UNCHANGED <<rows, allowance>>

ImportSteps ==
  SavePng("portrait", "thumbnail") \/ SavePng("thumbnail", "update")
    \/ UpdateProfile \/ CleanOld

=============================================================================
