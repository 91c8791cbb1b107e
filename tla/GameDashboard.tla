--------------------------- MODULE GameDashboard ---------------------------
(***************************************************************************)
(* The dashboard a profile plays from: game_dashboard_model.cpp (filters,  *)
(* rows and the recommendation queue), game_dashboard_presentation.cpp     *)
(* (its stages and the parent's decisions) and the part of main.cpp that   *)
(* opens it, acts on its events and comes back to it after a game.  It     *)
(* works on a snapshot of the library taken by list_for_profile; the focus *)
(* is abstracted: an action may take any game, option or row in sight.     *)
(***************************************************************************)
EXTENDS GameLibrary

CONSTANTS
  PlatformOf,   \* the platform of each game
  Queries,      \* what a search may spell: the sets of titles containing it
  QueueLimit,   \* 12 in the code
  MaxPresses    \* bound of the runs: presses that change a store or a filter

VARIABLES
  who,       \* the profile whose dashboard is open, or "none"
  marker,    \* onion-return-session: the profile to come back to, or "none"
  records, filter, stage, page, detail, query, results,
  big_mode,  \* dashboard.big_mode in the library, and as the dashboard has it
  big_shown,
  presses,   \* history: presses so far
  decided    \* history: games, and pairs of a child and a game, a parent set

screen == <<who, records, filter, stage, page, detail, query, results, big_shown>>
dashboardVars == <<screen, marker, big_mode, presses, decided>>
vars == <<libraryVars, dashboardVars>>

IsChild(p) == p \in Children

\* The constructor and refresh leave a child only what a parent lets it see.
View(p) ==
  LET all == ListForProfile(p)
      kept == {g \in DOMAIN all :
                 IsChild(p) => /\ all[g].child_eligible
                               /\ ~all[g].household.hidden
                               /\ all[g].child_allowed}
  IN  [g \in kept |-> all[g]]

NoFilter == [platforms |-> {}, review |-> "all", progress |-> "all",
             family |-> "all", hidden |-> FALSE]

FamilyHas(family, r) ==
  CASE family = "all" -> TRUE
    [] family = "recommended" -> r.household.recommended
    [] family = "for_kids" -> r.household.for_kids
    [] OTHER -> family \in r.kids

Matches(rs, f, g) ==
  LET r == rs[g] IN
  /\ r.household.hidden = f.hidden
  /\ f.platforms = {} \/ PlatformOf[g] \in f.platforms
  /\ f.review \in {"all", IF r.verdict = "none" THEN "unreviewed" ELSE r.verdict}
  /\ f.progress = "started" => r.last_played > 0 /\ ~r.completed
  /\ f.progress = "completed" => r.completed
  /\ FamilyHas(f.family, r)

Filtered(rs, f) == {g \in DOMAIN rs : Matches(rs, f, g)}

\* available_platform_summaries ignores the filter, but not what is hidden.
AvailablePlatforms(rs) ==
  {PlatformOf[g] : g \in {h \in DOMAIN rs : ~rs[h].household.hidden}}

\* The reason next_up has to offer a game, as its priority; 4 is none.
Priority(r) ==
  IF r.verdict = "negative" THEN 4
  ELSE IF r.household.recommended /\ r.verdict = "none" THEN 0
  ELSE IF r.last_played > 0 /\ r.verdict = "none" THEN 1
  ELSE IF r.last_played > 0 /\ ~r.completed THEN 2
  ELSE IF r.last_played = 0 THEN 3 ELSE 4

Before(rs, g, h) ==
  LET p == Priority(rs[g]) IN
  \/ p < Priority(rs[h])
  \/ /\ p = Priority(rs[h])
     /\ IF p \in {1, 2} THEN rs[g].last_played > rs[h].last_played ELSE g < h

Others(rs, q, i) ==
  {j \in i + 1 .. Len(q) : /\ Priority(rs[q[j]]) = Priority(rs[q[i]])
                           /\ PlatformOf[q[j]] # PlatformOf[q[i - 1]]}

\* The i-th card changes places with the first later one of its priority from
\* another platform than the card before it.
SpreadOut(rs, q, i) ==
  IF PlatformOf[q[i - 1]] = PlatformOf[q[i]] /\ Others(rs, q, i) # {}
  THEN LET j == Min(Others(rs, q, i))
       IN  [q EXCEPT ![i] = q[j], ![j] = q[i]]
  ELSE q

Candidates(rs, f) == {g \in Filtered(rs, f) : Priority(rs[g]) < 4}

NextUp(rs, f) ==
  LET sorted == SetToSortSeq(Candidates(rs, f), LAMBDA g, h : Before(rs, g, h))
      mixed == FoldLeft(LAMBDA q, i : SpreadOut(rs, q, i), sorted,
                        [i \in 1 .. Len(sorted) - 1 |-> i + 1])
  IN  SubSeq(mixed, 1, IF Len(mixed) < QueueLimit THEN Len(mixed) ELSE QueueLimit)

\* The rows Recent, Recommended and All Games; each passes over the games that
\* the filter does not match.
Rows ==
  {{g \in DOMAIN records : records[g].last_played > 0},
   ToSet(NextUp(records, filter)),
   DOMAIN records}

Offered == Filtered(records, filter) \cap UNION Rows

\* What A may launch: a card, a search result, the game of the overview page.
Launchable ==
  CASE stage = "dashboard" -> Offered
    [] stage = "search" -> results
    [] stage = "details" /\ page = "overview" -> {detail}
    [] OTHER -> {}

DashboardInit ==
  /\ who = "none" /\ marker = "none"
  /\ records = <<>> /\ filter = NoFilter /\ stage = "dashboard"
  /\ page = "overview" /\ detail = 0 /\ query = {} /\ results = {}
  /\ big_mode = FALSE /\ big_shown = FALSE
  /\ presses = 0 /\ decided = {}

Init == LibraryInit /\ DashboardInit

Show(p) ==
  /\ who' = p
  /\ records' = View(p) /\ filter' = NoFilter /\ stage' = "dashboard"
  /\ page' = "overview" /\ detail' = 0 /\ query' = Games /\ results' = {}
  /\ big_shown' = big_mode

ClosedScreen ==
  /\ who' = "none"
  /\ records' = <<>> /\ filter' = NoFilter /\ stage' = "dashboard"
  /\ page' = "overview" /\ detail' = 0 /\ query' = {} /\ results' = {}
  /\ big_shown' = FALSE

\* Mutant: the press writes and the dashboard keeps what it had read.
RefreshNothing == UNCHANGED screen

\* refresh: the filter, the stage and the selection stay as they were.
Refresh ==
  /\ UNCHANGED <<who, filter, stage, page, detail, query, results, big_shown>>
  /\ records' = View(who)'

\* Startup returns to the dashboard of the profile that went to Onion.
Resume ==
  /\ phase = "up" /\ who = "none" /\ marker # "none"
  /\ Show(marker) /\ marker' = "none"
  /\ UNCHANGED <<libraryVars, big_mode, presses, decided>>

Open(p) ==
  /\ phase = "up" /\ who = "none" /\ marker = "none"
  /\ Show(p)
  /\ UNCHANGED <<libraryVars, marker, big_mode, presses, decided>>

\* SELECT anywhere, LOCK, PROFILES, the system menu, or an access that ran out.
Close ==
  /\ who # "none"
  /\ ClosedScreen
  /\ UNCHANGED <<libraryVars, marker, big_mode, presses, decided>>

Idle == UNCHANGED <<libraryVars, marker, big_mode, decided>>

Press == presses < MaxPresses /\ presses' = presses + 1

OpenFilters ==
  /\ who # "none" /\ stage = "dashboard"
  /\ stage' = "filters"
  /\ Idle
  /\ UNCHANGED <<who, records, filter, page, detail, query, results, big_shown,
                 presses>>

\* B leaves the filter picker and the search; what the search found is found
\* again when it opens.
LeavePicker ==
  /\ stage \in {"filters", "search"}
  /\ stage' = "dashboard" /\ results' = {}
  /\ Idle
  /\ UNCHANGED <<who, records, filter, page, detail, query, big_shown, presses>>

Toggled(S, x) == IF x \in S THEN S \ {x} ELSE S \cup {x}

\* The options of the five categories: each press applies at once.
PickerOptions ==
  {[filter EXCEPT !.platforms = {}]}
    \cup {[filter EXCEPT !.platforms = Toggled(@, x)] : x \in AvailablePlatforms(records)}
    \cup {[filter EXCEPT !.review = x] : x \in {"all", "unreviewed", "positive", "negative"}}
    \cup {[filter EXCEPT !.progress = x] : x \in {"all", "started", "completed"}}
    \cup {[filter EXCEPT !.family = x] :
            x \in {"all", "recommended", "for_kids"}
                    \cup (IF IsChild(who) THEN {} ELSE Children)}
    \cup {[filter EXCEPT !.hidden = x] : x \in BOOLEAN}

PressFilter ==
  /\ stage = "filters"
  /\ Press
  /\ filter' \in PickerOptions
  /\ Idle
  /\ UNCHANGED <<who, records, stage, page, detail, query, results, big_shown>>

PressPlatform ==
  /\ who # "none" /\ stage = "dashboard"
  /\ Press
  /\ \E x \in AvailablePlatforms(records) :
       filter' = [filter EXCEPT !.platforms = Toggled(@, x)]
  /\ Idle
  /\ UNCHANGED <<who, records, stage, page, detail, query, results, big_shown>>

\* rebuild_search, when the search opens and after each letter.
OpenSearch ==
  /\ who # "none" /\ stage = "dashboard"
  /\ stage' = "search" /\ results' = Filtered(records, filter) \cap query
  /\ Idle
  /\ UNCHANGED <<who, records, filter, page, detail, query, big_shown, presses>>

TypeQuery ==
  /\ stage = "search"
  /\ query' \in Queries /\ results' = Filtered(records, filter) \cap query'
  /\ Idle
  /\ UNCHANGED <<who, records, filter, stage, page, detail, big_shown, presses>>

\* START on a card or on a search result.
OpenDetails ==
  /\ who # "none" /\ stage \in {"dashboard", "search"}
  /\ detail' \in Launchable
  /\ stage' = "details" /\ page' = "overview" /\ results' = {}
  /\ Idle
  /\ UNCHANGED <<who, records, filter, query, big_shown, presses>>

\* handle_detail_action: for a child it does nothing, not even for B.
LeaveDetails ==
  /\ stage = "details" /\ ~IsChild(who)
  /\ stage' = "dashboard" /\ detail' = 0 /\ page' = "overview"
  /\ Idle
  /\ UNCHANGED <<who, records, filter, query, results, big_shown, presses>>

TurnPage ==
  /\ stage = "details" /\ ~IsChild(who)
  /\ page' \in {"overview", "review", "family"} \ {page}
  /\ Idle
  /\ UNCHANGED <<who, records, filter, stage, detail, query, results, big_shown,
                 presses>>

ToggleReview(v) ==
  SetReview(who, detail, IF verdict[<<who, detail>>] = v THEN "none" ELSE v)

Review ==
  /\ stage = "details" /\ page = "review"
  /\ Press
  /\ \/ (\E v \in {"positive", "negative"} : ToggleReview(v)) /\ UNCHANGED completed
     \/ SetCompleted(who, detail, <<who, detail>> \notin completed) /\ UNCHANGED verdict
  /\ UNCHANGED <<card, entries, inventory, available, eligible, household, favorite, allowed,
                 recent, seeded, seed_done, startup, marker, big_mode, decided>>
  /\ Refresh

FlagsAfter(option, h) ==
  CASE option = "recommended" ->
         [h EXCEPT !.recommended = ~@, !.hidden = h.hidden /\ h.recommended]
    [] option = "for_kids" -> [h EXCEPT !.for_kids = ~@]
    [] option = "hidden" ->
         [h EXCEPT !.hidden = ~@, !.recommended = h.recommended /\ h.hidden]
    [] OTHER -> h

\* The household state is written even when a child's assignment was pressed.
PressFamily ==
  /\ stage = "details" /\ page = "family"
  /\ Press
  /\ \E option \in {"recommended", "for_kids", "hidden"} \cup Children :
       LET assigns == option \in Children /\ records[detail].child_eligible IN
       /\ IF assigns
          THEN SetChildAllowed(option, detail, <<option, detail>> \notin allowed)
          ELSE UNCHANGED allowed
       /\ SetHouseholdState(detail, FlagsAfter(option, household[detail]))
       /\ decided' = decided \cup {<<"household", detail>>}
                       \cup (IF assigns THEN {<<option, detail>>} ELSE {})
  /\ UNCHANGED <<card, entries, inventory, available, eligible, favorite, verdict, completed,
                 recent, seeded, seed_done, startup, marker, big_mode>>
  /\ Refresh

\* BIG MODE is one flag of the library, not of a profile.
PressBigMode ==
  /\ who # "none" /\ stage = "dashboard"
  /\ Press
  /\ big_mode' = ~big_shown /\ big_shown' = ~big_shown
  /\ UNCHANGED <<libraryVars, who, records, filter, stage, page, detail, query,
                 results, marker, decided>>

\* The entry of library_entries that A asks for: the first of its identity.
\* Files come before packages; which of two files comes first is left open.
Asked(entry) ==
  /\ who # "none"
  /\ entry \in entries
  /\ entry.native => \A other \in entries : other.game = entry.game => other.native
  /\ entry.game \in Launchable

\* A native game that ran is recorded, whatever its exit status.
PlayNative(entry) ==
  /\ entry.native /\ PackageIsPlayable(card, entry)
  /\ Press
  /\ Asked(entry)
  /\ RecordPlay(who, entry.game)
  /\ UNCHANGED <<card, entries, inventory, available, eligible, household, favorite,
                 allowed, verdict, completed, seeded, seed_done, startup, marker,
                 big_mode, decided>>
  /\ Refresh

\* The launcher is gone; the marker says whose dashboard to come back to.
LeaveMarked ==
  /\ marker' = who
  /\ ClosedScreen
  /\ phase' = "down" /\ entries' = {}
  /\ UNCHANGED <<card, tables, next_seed, pending, unresolved, big_mode, presses,
                 decided>>

\* Onion takes the game: the launcher leaves and will come back.
HandOver(entry) ==
  /\ ~entry.native /\ RomIsPlayable(card, entry)
  /\ Asked(entry)
  /\ LeaveMarked

\* It dies with the marker written and the game not handed over.
HandOverCutShort ==
  /\ \E entry \in entries : ~entry.native /\ Asked(entry)
  /\ LeaveMarked

\* Not listed by this start's scan, gone or changed since, or its process
\* does not start: the marker of a handoff is removed again.
LaunchRefused ==
  /\ who # "none" /\ Launchable # {}
  /\ marker' = "none"
  /\ UNCHANGED <<libraryVars, big_mode, presses, decided>>
  /\ Refresh

CardChanges ==
  /\ card' \in Cards \ {card}
  /\ UNCHANGED <<entries, tables, startup, dashboardVars>>

\* Power lost, sleep, or the way out to Onion.
Die ==
  /\ phase # "down"
  /\ ClosedScreen
  /\ phase' = "down" /\ entries' = {}
  /\ UNCHANGED <<card, tables, next_seed, pending, unresolved, marker, big_mode,
                 presses, decided>>

Starting == StartupStep /\ UNCHANGED dashboardVars

Next ==
  \/ Starting
  \/ Resume \/ \E p \in Profiles : Open(p)
  \/ Close \/ Die
  \/ OpenFilters \/ LeavePicker \/ PressFilter \/ PressPlatform
  \/ OpenSearch \/ TypeQuery
  \/ OpenDetails \/ LeaveDetails \/ TurnPage
  \/ Review \/ PressFamily \/ PressBigMode
  \/ \E entry \in entries : PlayNative(entry) \/ HandOver(entry)
  \/ HandOverCutShort \/ LaunchRefused
  \/ CardChanges

Spec == Init /\ [][Next]_vars

-----------------------------------------------------------------------------
\* What an entry stands for is on the card now.
IsWhatItSays(entry) ==
  IF entry.native
  THEN entry.path \in Loaded(card) /\ card.packages[entry.path].id = entry.game
  ELSE entry.path \in card.roms

\* Wherever on the dashboard a child presses A, the game that starts is the one
\* its identity stands for, on the card as it is now, meant for children when it
\* was scanned, not hidden, and assigned to this child.
ChildrenStartOnlyTheirs ==
  [][\A entry \in entries :
       who \in Children /\ (PlayNative(entry) \/ HandOver(entry))
         => (/\ <<who, entry.game>> \in allowed
             /\ ~household[entry.game].hidden
             /\ entry.native => entry.child_visible
             /\ IsWhatItSays(entry))]_vars

\* Every press that writes ends in a refresh: a dashboard reopened now would
\* show the same records, and the search lists what its filter and query select.
NothingShownIsStale ==
  who # "none" =>
    /\ records = View(who) /\ big_shown = big_mode
    /\ stage = "search" => results = Filtered(View(who), filter) \cap query

\* No scan and no import of the seed, however often either is cut short and
\* repeated, changes what a parent has decided about a game or a child.
ParentDecisionsStand ==
  [][who \notin Parents =>
       /\ \A g \in Games : <<"household", g>> \in decided => household'[g] = household[g]
       /\ \A c \in Children, g \in Games :
            <<c, g>> \in decided => (<<c, g>> \in allowed') = (<<c, g>> \in allowed)]_vars

\* The seed flags an item only after the child's assignment is durable: a child
\* has every imported game, unless a parent took it away.
SeedAssignmentsLand ==
  \A i \in seeded :
    LET item == Seed[i] IN
    item.profile \in Children /\ <<item.profile, item.game>> \notin decided
      => <<item.profile, item.game>> \in allowed

\* docs/specs/game-discovery-and-review.md:94-97: the seed's curated games are
\* recommended and for kids once it was imported (a parent may change it later).
\* The household state is written only after every item has its flag, so that a
\* launcher that dies in between never writes it.
SeedCurationLands ==
  phase = "up" =>
    \A i \in seeded :
      Seed[i].kind = "curated" /\ <<"household", Seed[i].game>> \notin decided
        => household[Seed[i].game] = SeededState

=============================================================================
