---------------------------- MODULE ProfileStore ----------------------------
(***************************************************************************)
(* What is kept about profiles, in three places: their rows                *)
(* (profile_repository.cpp, every call a transaction of its own), the      *)
(* daily allowance of the children, and the directories of managed         *)
(* portraits (managed_profile_image.cpp).  A background, an accent or a    *)
(* preference is a setting: one value a row holds beside the others.       *)
(***************************************************************************)
EXTENDS Integers, FiniteSets, Functions

CONSTANTS
  Settings,     \* the background and the keys of preferences_json
  MaxRevision   \* bound of the runs: how often the row of each id changes

ASSUME StoreAssumption == "last_accessed" \in Settings

VARIABLES
  rows,       \* profiles.sqlite: what is stored of each id
  allowance,  \* daily_policy: the allowance of each id that has a row
  portraits   \* per generation: each of its two files

storeVars == <<rows, allowance, portraits>>

\* What an avatar reference names: the catalogue, an import or a restore.
Builtin == [from |-> "builtin", id |-> "none", n |-> 0]
Managed(ref) == ref # Builtin

Pictures == {"portrait", "thumbnail"}
Blank == [f \in Pictures |-> "none"]

\* A file is absent, "pending" (whole or not, under its other name), "part"
\* or "whole".
Resolves(ref) ==
  Managed(ref) => /\ ref \in DOMAIN portraits
                  /\ \A f \in Pictures : portraits[ref][f] = "whole"

Put(m, k, v) == [x \in DOMAIN m \cup {k} |-> IF x = k THEN v ELSE m[x]]
Drop(m, k) == Restrict(m, DOMAIN m \ {k})

Revised(r) == [r EXCEPT !.revision = @ + 1]

SetAvatarRef(id, ref) ==
  /\ id \in DOMAIN rows /\ rows[id].revision < MaxRevision[id]
  /\ rows' = [rows EXCEPT ![id] = [Revised(@) EXCEPT !.avatar = ref]]

\* set_background_ref and set_preferences_json
SetLook(id, look) ==
  /\ id \in DOMAIN rows /\ rows[id].revision < MaxRevision[id]
  /\ rows' = [rows EXCEPT ![id] = [Revised(@) EXCEPT !.look = look]]

NamespaceTaken(ns) == \E id \in DOMAIN rows : rows[id].ns = ns

\* The primary key and the unique namespace are the table's own.
CreateProfile(id, p) ==
  /\ id \notin DOMAIN rows /\ ~NamespaceTaken(p.ns)
  /\ rows' = Put(rows, id, [p EXCEPT !.revision = 1])

=============================================================================
