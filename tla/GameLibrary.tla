---------------------------- MODULE GameLibrary ----------------------------
(***************************************************************************)
(* The library database (src/launcher/src/game_library_repository.cpp),    *)
(* the scan that reconciles it with the games on the card and the one-time *)
(* import of the household seed (game_library_integration.cpp), as startup *)
(* runs them.  Every write is a transaction of its own and the launcher    *)
(* may die between two of them.  Games are the numbers 1..n in the order   *)
(* of their titles; labels, artwork and screenshots are left out.          *)
(***************************************************************************)
EXTENDS GameCatalogue, SequencesExt

CONSTANTS
  Parents, Children,
  Seed            \* the seed's items: [profile, kind, game], profile by profile

ASSUME LibraryAssumption ==
  /\ Parents \cap Children = {}
  /\ Seed \in Seq([profile : Parents \cup Children,
                   kind : {"favorite", "curated"}, game : Games])

VARIABLES
  card,                 \* what the card holds
  entries,              \* main's library_entries, found by the last scan
  inventory, available, \* library_items, and those with available = 1
  eligible,             \* those with child_eligible = 1
  household,            \* household_game_state
  favorite, allowed,    \* profile_game_state: pairs of a profile and a game
  verdict, completed,
  recent,               \* terminal play_sessions: games, the latest first
  seeded, seed_done,    \* game_library_metadata: the import's flags
  phase,                \* how far the launcher has come
  next_seed, pending, unresolved  \* locals of migrate_household_seed_library

tables == <<inventory, available, eligible, household, favorite, allowed, verdict,
            completed, recent, seeded, seed_done>>
startup == <<phase, next_seed, pending, unresolved>>
libraryVars == <<card, entries, tables, startup>>

Profiles == Parents \cup Children

Uncurated == [recommended |-> FALSE, for_kids |-> FALSE, hidden |-> FALSE]
SeededState == [recommended |-> TRUE, for_kids |-> TRUE, hidden |-> FALSE]

LibraryInit ==
  /\ card \in Cards
  /\ entries = {} /\ inventory = {} /\ available = {} /\ eligible = {}
  /\ household = [g \in Games |-> Uncurated]
  /\ favorite = {} /\ allowed = {} /\ completed = {}
  /\ verdict = [d \in Profiles \X Games |-> "none"]
  /\ recent = [p \in Profiles |-> <<>>]
  /\ seeded = {} /\ seed_done = FALSE
  /\ phase = "down" /\ next_seed = 1 /\ pending = {} /\ unresolved = FALSE

\* The repository's operations.

\* The rows found again are replaced, the others kept and marked unavailable.
\* Packages come last: the row of an identity says what its package says.
ReconcileInventory(found) ==
  LET games == {entry.game : entry \in found}
      parental == {entry.game : entry \in {e \in found : e.native /\ ~e.child_visible}}
  IN
  /\ available' = games
  /\ inventory' = inventory \cup games
  /\ eligible' = (eligible \cup games) \ parental

SetHouseholdState(g, state) ==
  /\ g \in inventory
  /\ ~(state.hidden /\ state.recommended)
  /\ household' = [household EXCEPT ![g] = state]

SetChildAllowed(p, g, value) ==
  allowed' = IF value THEN allowed \cup {<<p, g>>} ELSE allowed \ {<<p, g>>}

SetReview(p, g, v) == verdict' = [verdict EXCEPT ![<<p, g>>] = v]

SetCompleted(p, g, value) ==
  completed' = IF value THEN completed \cup {<<p, g>>} ELSE completed \ {<<p, g>>}

Places(s, g) == {i \in DOMAIN s : s[i] = g}

MovedToFront(s, g) ==
  LET places == Places(s, g)
      others == IF places = {} THEN s ELSE RemoveAt(s, CHOOSE i \in places : TRUE)
  IN  <<g>> \o others

\* A session that begins and finishes: its game is now the latest.
RecordPlay(p, g) == recent' = [recent EXCEPT ![p] = MovedToFront(@, g)]

\* 0 for a game never played, otherwise the larger the later.
LastPlayed(p, g) ==
  LET places == Places(recent[p], g)
  IN  IF places = {} THEN 0
      ELSE Len(recent[p]) + 1 - CHOOSE i \in places : TRUE

ListForProfile(p) ==
  [g \in available |->
     [child_eligible |-> g \in eligible,
      household |-> household[g],
      child_allowed |-> <<p, g>> \in allowed,
      verdict |-> verdict[<<p, g>>],
      completed |-> <<p, g>> \in completed,
      last_played |-> LastPlayed(p, g),
      kids |-> {c \in Children : <<c, g>> \in allowed}]]

\* Startup: scan the card, then import what the seed still owes.

Scan ==
  /\ phase = "down"
  /\ entries' = Discovered(card)
  /\ ReconcileInventory(Discovered(card))
  /\ phase' = IF seed_done THEN "up" ELSE "seeding"
  /\ next_seed' = 1 /\ pending' = {} /\ unresolved' = FALSE
  /\ UNCHANGED <<card, household, favorite, allowed, verdict, completed, recent,
                 seeded, seed_done>>

\* entries holds the game of a seeded item (find_seed_match).
Listed == {entry.game : entry \in entries}

Importing(item) ==
  /\ phase = "seeding"
  /\ next_seed \in DOMAIN Seed
  /\ item = Seed[next_seed]

\* Items imported before, or that match no game of the card, are passed over.
PassSeedItem ==
  \E item \in {Seed[i] : i \in DOMAIN Seed} :
    /\ Importing(item)
    /\ next_seed \in seeded \/ item.game \notin Listed
    /\ unresolved' = (unresolved \/ next_seed \notin seeded)
    /\ next_seed' = next_seed + 1
    /\ UNCHANGED <<card, entries, tables, phase, pending>>

Favored(item) ==
  IF item.kind = "favorite" THEN favorite \cup {<<item.profile, item.game>>}
  ELSE favorite

Assigned(item) ==
  IF item.profile \in Children THEN allowed \cup {<<item.profile, item.game>>}
  ELSE allowed

\* Mutant: the item's own flag is not looked at.
ImportSeedItemAgain ==
  \E item \in {Seed[i] : i \in DOMAIN Seed} :
    /\ Importing(item) /\ item.game \in Listed
    /\ favorite' = Favored(item)
    /\ allowed' = Assigned(item)
    /\ seeded' = seeded \cup {next_seed}
    /\ pending' = IF item.kind = "curated" THEN pending \cup {item.game}
                  ELSE pending
    /\ next_seed' = next_seed + 1
    /\ UNCHANGED <<card, entries, inventory, available, eligible, household, verdict,
                   completed, recent, seed_done, phase, unresolved>>

ImportSeedItem ==
  \E item \in {Seed[i] : i \in DOMAIN Seed} :
    /\ Importing(item)
    /\ next_seed \notin seeded /\ item.game \in Listed
    /\ favorite' = Favored(item)
    /\ allowed' = Assigned(item)
    /\ seeded' = seeded \cup {next_seed}
    /\ pending' = IF item.kind = "curated" THEN pending \cup {item.game}
                  ELSE pending
    /\ next_seed' = next_seed + 1
    /\ UNCHANGED <<card, entries, inventory, available, eligible, household, verdict,
                   completed, recent, seed_done, phase, unresolved>>

\* Mutant: the flag is written before what it stands for.
ImportCutShortFlagged ==
  \E item \in {Seed[i] : i \in DOMAIN Seed} :
    /\ Importing(item)
    /\ next_seed \notin seeded /\ item.game \in Listed
    /\ seeded' \in {seeded, seeded \cup {next_seed}}
    /\ phase' = "down" /\ entries' = {}
    /\ UNCHANGED <<card, inventory, available, eligible, household, favorite, allowed, verdict,
                   completed, recent, seed_done, next_seed, pending, unresolved>>

\* The launcher dies after some of an item's writes and before its flag.
ImportCutShort ==
  \E item \in {Seed[i] : i \in DOMAIN Seed} :
    /\ Importing(item)
    /\ next_seed \notin seeded /\ item.game \in Listed
    /\ favorite' = Favored(item)
    /\ allowed' \in {allowed, Assigned(item)}
    /\ phase' = "down" /\ entries' = {}
    /\ UNCHANGED <<card, inventory, available, eligible, household, verdict, completed,
                   recent, seeded, seed_done, next_seed, pending, unresolved>>

\* Only after every item is flagged is the curated union written, game by game.
WriteSeededState ==
  /\ phase = "seeding" /\ next_seed \notin DOMAIN Seed
  /\ \E g \in pending :
       /\ SetHouseholdState(g, SeededState)
       /\ pending' = pending \ {g}
  /\ UNCHANGED <<card, entries, inventory, available, eligible, favorite, allowed, verdict,
                 completed, recent, seeded, seed_done, phase, next_seed,
                 unresolved>>

FinishSeed ==
  /\ phase = "seeding" /\ next_seed \notin DOMAIN Seed /\ pending = {}
  /\ seed_done' = ~unresolved
  /\ phase' = "up"
  /\ UNCHANGED <<card, entries, inventory, available, eligible, household, favorite, allowed,
                 verdict, completed, recent, seeded, next_seed, pending,
                 unresolved>>

StartupStep ==
  \/ Scan
  \/ PassSeedItem
  \/ ImportSeedItem
  \/ ImportCutShort
  \/ WriteSeededState
  \/ FinishSeed

=============================================================================
