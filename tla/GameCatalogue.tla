--------------------------- MODULE GameCatalogue ---------------------------
(***************************************************************************)
(* The games on the card: the scanners that discover them at startup       *)
(* (local_library.cpp, native_library.cpp, pico8_catalogue.cpp) and the    *)
(* checks the adapters make again when one is launched                     *)
(* (onion_launch_adapter.cpp, native_launch_adapter.cpp).  The card may    *)
(* change between the two.  A directory that cannot be read counts as one  *)
(* that is not there; titles and artwork are left out.                     *)
(***************************************************************************)
EXTENDS Naturals, FiniteSets

CONSTANTS
  Games,            \* identities: 1..n, in the order of their titles
  RomPaths,         \* files below the directories of Onion's systems
  SystemOf,         \* the system of each
  Supported,        \* those whose extension their system lists
  Skipped,          \* those below Imgs, _hidden or .sprout-profiles
  OwnIdentity,      \* the identity made of a file's system and path
  SharedCatalogue,  \* the identities games.json gives to files
  Pico8Catalogue,   \* and those pico8.json gives
  PackagePaths,     \* the directories below the arcade's root
  Cards             \* what the card may hold

Packages == [id : Games, loads : BOOLEAN, family : BOOLEAN]

ASSUME CatalogueAssumption ==
  /\ Games = 1..Cardinality(Games)
  /\ Supported \subseteq RomPaths /\ Skipped \subseteq RomPaths
  /\ OwnIdentity \in [RomPaths -> Games]
  /\ \A path \in DOMAIN SharedCatalogue : SharedCatalogue[path] \in Games
  /\ \A path \in DOMAIN Pico8Catalogue : Pico8Catalogue[path] \in Games
  /\ \A c \in Cards :
       /\ c.roms \subseteq RomPaths
       /\ DOMAIN c.packages \subseteq PackagePaths
       /\ \A p \in DOMAIN c.packages : c.packages[p] \in Packages

\* Pico8Catalogue::find: the shared catalogue first.
Identity(path) ==
  IF path \in DOMAIN SharedCatalogue THEN SharedCatalogue[path]
  ELSE IF SystemOf[path] = "PICO" /\ path \in DOMAIN Pico8Catalogue
       THEN Pico8Catalogue[path]
       ELSE OwnIdentity[path]

\* LocalLibraryScanner::discover; two files may get one identity.
FoundRoms(card) ==
  {[game |-> Identity(path), path |-> path, native |-> FALSE, child_visible |-> FALSE] :
     path \in (card.roms \cap Supported) \ Skipped}

Loaded(card) == {path \in DOMAIN card.packages : card.packages[path].loads}

Duplicated(card, path) ==
  \E other \in Loaded(card) \ {path} : card.packages[other].id = card.packages[path].id

\* NativePackageScanner::discover: of a duplicated identity, no copy is listed.
FoundPackages(card) ==
  {[game |-> card.packages[path].id, path |-> path, native |-> TRUE,
    child_visible |-> card.packages[path].family] :
     path \in {p \in Loaded(card) : ~Duplicated(card, p)}}

Discovered(card) == FoundRoms(card) \cup FoundPackages(card)

\* OnionLaunchAdapter::launch: MissingRom, UnsupportedRom, LauncherUnavailable.
RomIsPlayable(card, entry) ==
  /\ entry.path \in card.roms
  /\ entry.path \in Supported
  /\ SystemOf[entry.path] \in card.launchers

\* Mutant: any package that loads will do.
PackageStillLoads(card, entry) == entry.path \in Loaded(card)

\* NativeLaunchAdapter::launch: PackageUnavailable, InvalidTarget.
PackageIsPlayable(card, entry) ==
  /\ entry.path \in Loaded(card)
  /\ card.packages[entry.path].id = entry.game

=============================================================================
