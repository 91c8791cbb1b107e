-------------------------- MODULE MCGameDashboard --------------------------
(***************************************************************************)
(* Two native games, a Game Boy game and a PICO-8 cartridge with a picture *)
(* of it; one parent and one child.  A card that has them all and a copy   *)
(* that does not load, and one where the packages changed places, the copy *)
(* loads, and the cartridge and a launcher are missing.                    *)
(***************************************************************************)
EXTENDS GameDashboard

MCGames == 1..4
MCPlatformOf == <<"sprout", "sprout", "GB", "PICO">>
MCSystemOf == [rom |-> "GB", cart |-> "PICO", cover |-> "PICO"]
MCOwnIdentity == [rom |-> 3, cart |-> 3, cover |-> 4]
MCSharedCatalogue == <<>>
MCPico8Catalogue == [cart |-> 4]

Family(game) == [id |-> game, loads |-> TRUE, family |-> TRUE]
ForParents(game) == [id |-> game, loads |-> TRUE, family |-> FALSE]
Broken(game) == [id |-> game, loads |-> FALSE, family |-> TRUE]

MCCards ==
  {[roms |-> {"rom", "cart", "cover"}, launchers |-> {"GB", "PICO"},
    packages |-> [one |-> Family(1), two |-> ForParents(2), copy |-> Broken(1)]],
   [roms |-> {"rom"}, launchers |-> {"PICO"},
    packages |-> [one |-> ForParents(2), two |-> Family(1), copy |-> Family(1)]]}

MCQueries == {{1, 2, 3, 4}, {1, 4}}
MCSeed == <<[profile |-> "parent", kind |-> "favorite", game |-> 1],
            [profile |-> "child", kind |-> "curated", game |-> 3],
            [profile |-> "child", kind |-> "curated", game |-> 4]>>

=============================================================================
